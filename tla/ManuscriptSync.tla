--------------------------- MODULE ManuscriptSync ---------------------------
(***************************************************************************)
(* --git-pull: one manuscript checkout that builds and pulls share.  Each  *)
(* document's build pulls, copies the tree, compiles and publishes under   *)
(* its own build lock; a sync round (the remote-main watch, or the close   *)
(* of a pin) pulls under every build lock and starts the builds that fell  *)
(* behind; a viewer's poll settles the status.  Pulls share one lock.      *)
(***************************************************************************)
EXTENDS Integers

(* A server as started, with the bounds of its instance: how many          *)
(* documents are built from source, whether it serves more than one, the   *)
(* remote commits, those that change no document's sources, the            *)
(* faults of builds, rounds and git, the rebuild requests and closes       *)
(* together, and whether people edit the checkout itself.                  *)
CONSTANT Setups

ASSUME SetupsAssumption ==
  \A s \in Setups : /\ s.docs \in Nat \ {0} /\ s.commits \in Nat
                     /\ s.several \in BOOLEAN /\ (s.docs > 1 => s.several)
                     /\ s.quiet \subseteq 1..s.commits
                     /\ s.failures \in Nat /\ s.requests \in Nat /\ s.edits \in BOOLEAN

VARIABLES setup,         \* the one of Setups that runs
          remote, head,  \* the upstream commit and the checked out one
          blocked,       \* dirty, diverged, or git cannot reach its remote
          edited,        \* the sources in the tree are not those of head
          recent,        \* a shared pull is less than PULL_SHARE_S old
          docLock,       \* docLock[d]: who holds document d's build lock
          shareLock,     \* who holds the pull lock
          build,         \* build[d]: the running build of d
          pages,         \* pages[d]: the contents d's pages were made from
          headTxt,       \* head.txt of d, NoHead before the first build
          failed,        \* failed[d]: the last finished build failed
          round,         \* round[r]: how far a sync round is
          record,        \* SyncWatch.record: state and head_after
          settle,        \* a poll that has judged the record and not written
          failures, requests

vars == <<setup, remote, head, blocked, edited, recent, docLock, shareLock, build,
          pages, headTxt, failed, round, record, settle, failures, requests>>
tree == <<remote, head, blocked, edited>>
docs == <<build, pages, headTxt, failed>>
watch == <<round, record, settle, requests>>

Docs == 1..setup.docs
AnyDocs == UNION {1..s.docs : s \in Setups}
Commits == 0..setup.commits
Rounders == {"watch", "close"}

NoHead == -1     \* no head.txt yet, or one that says "-": git could not tell
Edited == -2     \* sources that are those of no commit
Sources == Commits \cup {Edited}
NoWait == [state |-> "none", head |-> NoHead]
BuildSteps == {"idle", "pull", "pulling", "copy", "copying", "compile", "head",
               "end"}
RoundSteps == {"idle", "take", "pull", "release", "record", "start"}
Outcomes == {"pulled", "current", "refused", "failed"}
States == {"checking", "updated", "current", "blocked", "deferred", "updating",
           "error"}

TypeOK ==
  /\ setup \in Setups
  /\ remote \in Commits /\ head \in Commits
  /\ blocked \in BOOLEAN /\ edited \in BOOLEAN
  /\ recent \in BOOLEAN
  /\ docLock \in [Docs -> {"free", "build"} \cup Rounders]
  /\ shareLock \in {"free", "build"} \cup Rounders
  /\ build \in [Docs -> [step : BuildSteps, copied : SUBSET Sources, ok : BOOLEAN]]
  /\ pages \in [Docs -> SUBSET Sources]
  /\ headTxt \in [Docs -> Commits \cup {NoHead}] /\ failed \in [Docs -> BOOLEAN]
  /\ round \in [Rounders -> [step : RoundSteps, next : 1..(setup.docs + 1),
                             outcome : Outcomes,
                             head : Commits \cup {NoHead}, updating : BOOLEAN]]
  /\ record \in [state : States, head : Commits \cup {NoHead}]
  /\ settle \in [state : {"none", "current", "error"}, head : Commits \cup {NoHead}]
  /\ failures \in 0..setup.failures /\ requests \in 0..setup.requests

NoBuild == [step |-> "idle", copied |-> {}, ok |-> FALSE]
NoRound == [step |-> "idle", next |-> 1, outcome |-> "current", head |-> 0,
            updating |-> FALSE]

Init == /\ setup \in Setups
        /\ remote = 0 /\ head = 0 /\ blocked = FALSE /\ edited = FALSE
        /\ recent = FALSE
        /\ docLock = [d \in Docs |-> "free"] /\ shareLock = "free"
        /\ build = [d \in Docs |-> NoBuild]
        /\ pages = [d \in Docs |-> {}] /\ headTxt = [d \in Docs |-> NoHead]
        /\ failed = [d \in Docs |-> FALSE]
        /\ round = [r \in Rounders |-> NoRound]
        /\ record = [state |-> "checking", head |-> NoHead]
        /\ settle = NoWait /\ failures = 0 /\ requests = 0

-----------------------------------------------------------------------------
(* The environment: pushes, the checkout, its remote, time. *)
Push == /\ remote < setup.commits /\ remote' = remote + 1
        /\ UNCHANGED <<setup, head, blocked, edited, recent, docLock, shareLock, failures>>
        /\ UNCHANGED docs /\ UNCHANGED watch

(* git will not pull here, or will again: the checkout is dirty in other   *)
(* files, has diverged or is not on main, or the remote is out of reach.   *)
Block == /\ blocked' = ~blocked
         /\ UNCHANGED <<setup, remote, head, edited, recent, docLock, shareLock, failures>>
         /\ UNCHANGED docs /\ UNCHANGED watch

(* A source is edited in the tree, or the edits are taken back.  An edit   *)
(* of a tracked file blocks pulls, one of an untracked file does not       *)
(* (status --untracked-files=no); a build copies both.                     *)
Edit == /\ setup.edits /\ edited' = ~edited /\ blocked' \in BOOLEAN
        /\ UNCHANGED <<setup, remote, head, recent, docLock, shareLock, failures>>
        /\ UNCHANGED docs /\ UNCHANGED watch

WindowEnds == /\ recent /\ recent' = FALSE
              /\ UNCHANGED <<setup, docLock, shareLock, failures>>
              /\ UNCHANGED tree /\ UNCHANGED docs /\ UNCHANGED watch

(* A write, a thread or a git call that fails.                             *)
Fault == failures < setup.failures /\ failures' = failures + 1

(* What the sources of a document are at commit c: the last commit that    *)
(* changed them.                                                           *)
IsContent(k, c) == /\ k <= c /\ k \notin setup.quiet
                   /\ \A j \in (k + 1)..c : j \in setup.quiet
Content(c) == CHOOSE k \in Commits : IsContent(k, c)

(* What a copy reads of the tree.                                          *)
InTree == IF edited THEN Edited ELSE Content(head)

(* pull: fast-forward to the upstream, or refuse and change nothing. *)
FastForward == head' = IF blocked THEN head ELSE remote
-----------------------------------------------------------------------------

(* One document's build.  The worker holds docLock[d] to its end. *)
Begin(d) == /\ docLock[d] = "free"
            /\ docLock' = [docLock EXCEPT ![d] = "build"]
            /\ build' = [build EXCEPT ![d] = [NoBuild EXCEPT !.step = "pull"]]

Request == requests < setup.requests /\ requests' = requests + 1

Rebuild(d) == /\ Begin(d) /\ Request
              /\ UNCHANGED <<setup, recent, shareLock, pages, headTxt, failed, failures,
                             round, record, settle>>
              /\ UNCHANGED tree

Step(d, from, to) == /\ build[d].step = from
                     /\ build' = [build EXCEPT ![d].step = to]

(* repo_pull: one document pulls every time; several take turns.  What the *)
(* pull said is only told: a build goes on with the tree as it is.         *)
PullAlone(d) == /\ ~setup.several /\ Step(d, "pull", "copy") /\ FastForward
                /\ UNCHANGED <<setup, remote, blocked, edited, recent, docLock, shareLock,
                               pages, headTxt, failed, failures>>
                /\ UNCHANGED watch

WaitTurn(d) == /\ setup.several /\ Step(d, "pull", "pulling")
               /\ shareLock = "free" /\ shareLock' = "build"
               /\ UNCHANGED <<setup, recent, docLock, pages, headTxt, failed, failures>>
               /\ UNCHANGED tree /\ UNCHANGED watch

(* Another's pull, whatever came of it, is reused while it is recent. *)
PullShared(d) == /\ Step(d, "pulling", "copy")
                 /\ IF recent THEN UNCHANGED head ELSE FastForward
                 /\ recent' = TRUE /\ shareLock' = "free"
                 /\ UNCHANGED <<setup, remote, blocked, edited, docLock, pages, headTxt,
                                failed, failures>>
                 /\ UNCHANGED watch

(* The copy takes time and reads whatever the tree holds, edits included:  *)
(* a file now, another one later, the last one when it ends.               *)
CopyReads(d, to) == build' = [build EXCEPT ![d].step = to,
                                           ![d].copied = @ \cup {InTree}]
CopyRest == /\ UNCHANGED <<setup, recent, docLock, shareLock, pages, headTxt, failed,
                           failures>>
            /\ UNCHANGED tree /\ UNCHANGED watch

BeginCopy(d) == build[d].step = "copy" /\ CopyReads(d, "copying") /\ CopyRest
CopyOn(d)    == /\ build[d].step = "copying" /\ InTree \notin build[d].copied
                /\ CopyReads(d, "copying") /\ CopyRest
EndCopy(d)   == build[d].step = "copying" /\ CopyReads(d, "compile") /\ CopyRest

\* mutant: a failed build moves head.txt all the same.
BuildFailsWithHead(d) ==
  /\ build[d].step \in {"copying", "compile"} /\ Step(d, build[d].step, "head") /\ Fault
  /\ UNCHANGED <<setup, recent, docLock, shareLock, pages, headTxt, failed>>
  /\ UNCHANGED tree /\ UNCHANGED watch

(* The copy or the compilation fails; or a write after it does: with the   *)
(* new pages on screen and head.txt still the old one ("head"), or with    *)
(* both written and the result lost ("end").                               *)
BuildFails(d) ==
  /\ build[d].step \in {"copying", "compile", "head", "end"}
  /\ build' = [build EXCEPT ![d].step = "end", ![d].ok = FALSE] /\ Fault
  /\ UNCHANGED <<setup, recent, docLock, shareLock, pages, headTxt, failed>>
  /\ UNCHANGED tree /\ UNCHANGED watch

(* The copy is what the ok build on screen was made from: nothing runs,    *)
(* only head.txt moves.                                                    *)
Skip(d) == /\ build[d].step = "compile"
           /\ build[d].copied = pages[d] /\ ~failed[d]
           /\ build' = [build EXCEPT ![d].step = "head"]
           /\ UNCHANGED <<setup, recent, docLock, shareLock, pages, headTxt, failed, failures>>
           /\ UNCHANGED tree /\ UNCHANGED watch

(* commit_pages swaps the pages, then asks git which commit is out. *)
Publish(d) == /\ Step(d, "compile", "head")
              /\ pages' = [pages EXCEPT ![d] = build[d].copied]
              /\ UNCHANGED <<setup, recent, docLock, shareLock, headTxt, failed, failures>>
              /\ UNCHANGED tree /\ UNCHANGED watch

(* head.txt is HEAD, whether the copy was of it or edited; "-" when git    *)
(* does not answer.                                                        *)
WriteHead(d) ==
  /\ build[d].step = "head"
  /\ \/ headTxt' = [headTxt EXCEPT ![d] = head] /\ UNCHANGED failures
     \/ headTxt' = [headTxt EXCEPT ![d] = NoHead] /\ Fault
  /\ build' = [build EXCEPT ![d].step = "end", ![d].ok = TRUE]
  /\ UNCHANGED <<setup, recent, docLock, shareLock, pages, failed>>
  /\ UNCHANGED tree /\ UNCHANGED watch

(* The result is recorded, then the build lock goes. *)
EndBuild(d) == /\ build[d].step = "end"
               /\ failed' = [failed EXCEPT ![d] = ~build[d].ok]
               /\ build' = [build EXCEPT ![d] = NoBuild]
               /\ docLock' = [docLock EXCEPT ![d] = "free"]
               /\ UNCHANGED <<setup, recent, shareLock, pages, headTxt, failures>>
               /\ UNCHANGED tree /\ UNCHANGED watch
-----------------------------------------------------------------------------
(* SyncWatch.once. *)
RoundAt(r, step) == round[r].step = step
Freed(r) == [d \in Docs |-> IF docLock[d] = r THEN "free" ELSE docLock[d]]

StartRound(r) == /\ RoundAt(r, "idle")
                 /\ IF r = "close" THEN Request ELSE UNCHANGED requests
                 /\ round' = [round EXCEPT ![r] = [NoRound EXCEPT !.step = "take"]]
                 /\ UNCHANGED <<setup, recent, docLock, shareLock, record, settle, failures>>
                 /\ UNCHANGED tree /\ UNCHANGED docs

TakeBuildLock(r) == /\ RoundAt(r, "take") /\ round[r].next \in Docs
                    /\ docLock[round[r].next] = "free"
                    /\ docLock' = [docLock EXCEPT ![round[r].next] = r]
                    /\ round' = [round EXCEPT ![r].next = @ + 1]
                    /\ UNCHANGED <<setup, recent, shareLock, record, settle, requests, failures>>
                    /\ UNCHANGED tree /\ UNCHANGED docs

TakePullLock(r) == /\ RoundAt(r, "take") /\ round[r].next \notin Docs
                   /\ shareLock = "free" /\ shareLock' = r
                   /\ round' = [round EXCEPT ![r].step = "pull"]
                   /\ UNCHANGED <<setup, recent, docLock, record, settle, requests, failures>>
                   /\ UNCHANGED tree /\ UNCHANGED docs

(* A lock is taken: the watch gives up on a build at once (and waits for   *)
(* a pull), a close waits until its deadline and may give up any time.     *)
Defer(r) == /\ RoundAt(r, "take")
            /\ \/ round[r].next \in Docs /\ docLock[round[r].next] # "free"
               \/ round[r].next \notin Docs /\ shareLock # "free" /\ r = "close"
            /\ docLock' = Freed(r)
            /\ record' = [record EXCEPT !.state = "deferred"]
            /\ round' = [round EXCEPT ![r] = NoRound]
            /\ UNCHANGED <<setup, recent, shareLock, settle, requests, failures>>
            /\ UNCHANGED tree /\ UNCHANGED docs

(* merged: without an answer to rev-parse after the merge, the commit out  *)
(* before it stands for both.  Only builds of several documents ask        *)
(* whether the pull is recent.                                             *)
PullInRound(r) ==
  /\ RoundAt(r, "pull") /\ FastForward /\ recent' = setup.several
  /\ \E before \in {head, NoHead}, after \in {head', NoHead} :
       LET now == IF blocked \/ after = NoHead THEN before ELSE after
       IN /\ IF NoHead \in {before, after} THEN Fault ELSE UNCHANGED failures
          /\ \E o \in IF blocked THEN {"refused", "failed"}
                     ELSE IF now = before THEN {"current"} ELSE {"pulled"} :
               round' = [round EXCEPT ![r].step = "release", ![r].head = now,
                                      ![r].outcome = o]
  /\ UNCHANGED <<setup, remote, blocked, edited, docLock, shareLock, record, settle,
                 requests>>
  /\ UNCHANGED docs

Release(r) == /\ RoundAt(r, "release")
              /\ docLock' = Freed(r) /\ shareLock' = "free"
              /\ round' = [round EXCEPT ![r].step = "record"]
              /\ UNCHANGED <<setup, recent, record, settle, requests, failures>>
              /\ UNCHANGED tree /\ UNCHANGED docs

RecordPull(r) ==
  /\ RoundAt(r, "record")
  /\ record' = [state |-> CASE round[r].outcome = "pulled" -> "updated"
                            [] round[r].outcome = "current" -> "current"
                            [] round[r].outcome = "refused" -> "blocked"
                            [] round[r].outcome = "failed"  -> "error",
                head |-> round[r].head]
  /\ round' = IF round[r].outcome \in {"refused", "failed"} THEN [round EXCEPT ![r] = NoRound]
              ELSE [round EXCEPT ![r].step = "start", ![r].next = 1]
  /\ UNCHANGED <<setup, recent, docLock, shareLock, settle, requests, failures>>
  /\ UNCHANGED tree /\ UNCHANGED docs

Behind(d, c) == headTxt[d] = NoHead \/ headTxt[d] # c
NeedsRebuildOncePulled(r, d) == round[r].outcome = "pulled"  \* mutant
NeedsRebuild(r, d) == round[r].outcome = "pulled" \/ Behind(d, round[r].head)

(* start_build answers busy when a build has begun since the release. *)
StartBuild(r) ==
  /\ RoundAt(r, "start") /\ round[r].next \in Docs
  /\ LET d == round[r].next IN
       /\ round' = [round EXCEPT ![r].next = @ + 1,
                                 ![r].updating = @ \/ NeedsRebuild(r, d)]
       /\ \/ NeedsRebuild(r, d) /\ Begin(d)
          \/ /\ ~NeedsRebuild(r, d) \/ docLock[d] # "free"
             /\ UNCHANGED <<build, docLock>>
  /\ UNCHANGED <<setup, recent, shareLock, record, settle, requests, pages, headTxt,
                 failed, failures>>
  /\ UNCHANGED tree

(* start_build raises (no thread, no state written): that build has failed *)
(* and gives its lock back, and the round crashes.  The watch records it   *)
(* ("unexpected", the heads stay); a close goes on without its refresh.    *)
StartFails(r) ==
  /\ RoundAt(r, "start") /\ round[r].next \in Docs /\ Fault
  /\ LET d == round[r].next
     IN /\ NeedsRebuild(r, d) /\ docLock[d] = "free"
        /\ failed' = [failed EXCEPT ![d] = TRUE]
  /\ record' = IF r = "watch" THEN [record EXCEPT !.state = "error"] ELSE record
  /\ round' = [round EXCEPT ![r] = NoRound]
  /\ UNCHANGED <<setup, recent, docLock, shareLock, settle, requests, build, pages, headTxt>>
  /\ UNCHANGED tree

EndRound(r) == /\ RoundAt(r, "start") /\ round[r].next \notin Docs
               /\ record' = IF round[r].updating
                            THEN [record EXCEPT !.state = "updating"] ELSE record
               /\ round' = [round EXCEPT ![r] = NoRound]
               /\ UNCHANGED <<setup, recent, docLock, shareLock, settle, requests, failures>>
               /\ UNCHANGED tree /\ UNCHANGED docs
-----------------------------------------------------------------------------
(* GET /api/meta: the record is copied, the documents judged, and the      *)
(* verdict written if the record still waits for the same commit.          *)
Pending(c) == {d \in Docs : docLock[d] # "free" \/ Behind(d, c)}
BuildFailed(c) == \E d \in Docs : docLock[d] = "free" /\ Behind(d, c) /\ failed[d]

Judge == /\ settle = NoWait /\ record.state = "updating" /\ record.head # NoHead
         /\ Pending(record.head) = {} \/ BuildFailed(record.head)
         /\ settle' = [state |-> IF BuildFailed(record.head) THEN "error" ELSE "current",
                       head |-> record.head]
         /\ UNCHANGED <<setup, recent, docLock, shareLock, round, record, requests, failures>>
         /\ UNCHANGED tree /\ UNCHANGED docs

\* mutant: the verdict is written whatever the record waits for by now.
SettleBlindly == /\ settle # NoWait /\ settle' = NoWait
                 /\ record' = IF record.state = "updating"
                              THEN [record EXCEPT !.state = settle.state] ELSE record
                 /\ UNCHANGED <<setup, recent, docLock, shareLock, round, requests, failures>>
                 /\ UNCHANGED tree /\ UNCHANGED docs

Settle == /\ settle # NoWait /\ settle' = NoWait
          /\ record' = IF record.state = "updating" /\ record.head = settle.head
                       THEN [record EXCEPT !.state = settle.state] ELSE record
          /\ UNCHANGED <<setup, recent, docLock, shareLock, round, requests, failures>>
          /\ UNCHANGED tree /\ UNCHANGED docs
-----------------------------------------------------------------------------
BuildStep(d) == \/ PullAlone(d) \/ WaitTurn(d) \/ PullShared(d) \/ BeginCopy(d)
                \/ CopyOn(d) \/ EndCopy(d) \/ BuildFails(d) \/ Skip(d) \/ Publish(d)
                \/ WriteHead(d) \/ EndBuild(d)
RoundStep(r) == \/ TakeBuildLock(r) \/ TakePullLock(r) \/ Defer(r)
                \/ PullInRound(r) \/ Release(r) \/ RecordPull(r) \/ StartBuild(r)
                \/ StartFails(r) \/ EndRound(r)

Next == \/ Push \/ Block \/ Edit \/ WindowEnds \/ Judge \/ Settle
        \/ \E d \in Docs : Rebuild(d) \/ BuildStep(d)
        \/ \E r \in Rounders : StartRound(r) \/ RoundStep(r)

Spec == Init /\ [][Next]_vars

(* Threads run on, twenty seconds pass, and the watch begins a round every *)
(* minute.  Nothing is assumed of pushes, edits, requests or polls but     *)
(* that requests and faults end, by their bounds.                          *)
FairSpec == /\ Spec /\ WF_vars(WindowEnds) /\ WF_vars(StartRound("watch"))
            /\ \A d \in AnyDocs : WF_vars(d \in Docs /\ BuildStep(d))
            /\ \A r \in Rounders : WF_vars(RoundStep(r))
-----------------------------------------------------------------------------
(* A round's fast-forward never lands in the middle of a build (run.py     *)
(* once: "so a fast-forward never lands while a build is mid-copy"), and   *)
(* where one document is served no other pull does either: no pull moves   *)
(* the tree while a document copies it (build-sync.md).                    *)
TreeStillWhileCopying ==
  [][/\ \A r \in Rounders : PullInRound(r) =>
          \A d \in Docs : build[d] = NoBuild /\ docLock[d] = r
     /\ ~setup.several /\ head' # head =>
          \A d \in Docs : build[d].step # "copying"]_vars

(* What head.txt tells of the pages of a document that is not being built: *)
(* what they show of any commit is at least as new as its sources, and     *)
(* exactly them unless the last build failed, after the pages it put on    *)
(* screen.  An edited tree's build is told by the same commit although its *)
(* pages are of none (engine.py _published_head), so edits are left open.  *)
HeadIsOfPages(d) ==
  docLock[d] # "build" /\ headTxt[d] # NoHead =>
    \A k \in pages[d] \ {Edited} :
      k >= Content(headTxt[d]) /\ (~failed[d] => k = Content(headTxt[d]))
HeadTellsPages == ~setup.several => \A d \in Docs : HeadIsOfPages(d)

(* The same of a server of several documents, as repo_pull's "and the tree *)
(* never changes while one of them copies it" has it.                      *)
HeadTellsPagesOfEach == \A d \in Docs : HeadIsOfPages(d)

(* A poll reports "current" only when what every document shows of any     *)
(* commit is at least as new as the commit the round pulled - and never    *)
(* when git could not tell that commit.                                    *)
SettledMeansBuilt ==
  [][~setup.several /\ Settle /\ record.state = "updating" /\ record'.state = "current" =>
       /\ record.head # NoHead
       /\ \A d \in Docs : \A k \in pages[d] \ {Edited} : k >= Content(record.head)]_vars

(* Builds and rounds wait for each other's locks and always give them      *)
(* back: the build locks are taken in document order, the pull lock last.  *)
LocksComeBack == \A d \in AnyDocs : []<>(d \in Docs => docLock[d] = "free")

(* Once the checkout can be pulled and nobody edits it, what was pushed    *)
(* reaches the screen, whatever failed, crashed or was deferred before: a  *)
(* start of a build that finds the lock taken answers busy, and a later    *)
(* round makes up for it.  One thing keeps the pages from it: an edited    *)
(* tree was built at that very commit, so head.txt names it although the   *)
(* pages show edits that are gone; the next push gets through again.       *)
BuiltEdited(d) == Edited \in pages[d] /\ headTxt[d] = remote
PushReachesPages ==
  <>[](~blocked /\ ~edited /\ ~setup.several) =>
    <>[](\A d \in Docs : pages[d] = {Content(remote)} \/ BuiltEdited(d))

(* Together, what builds and rounds may rely on ...                        *)
SyncStateHolds == TypeOK /\ HeadTellsPages
RoundsKeepFaith == TreeStillWhileCopying /\ SettledMeansBuilt

(* ... and what comes of them: pushes get through, locks come back.        *)
RoundsComeThrough == PushReachesPages /\ LocksComeBack
=============================================================================
