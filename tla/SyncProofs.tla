----------------------------- MODULE SyncProofs -----------------------------
(***************************************************************************)
(* Proofs about ManuscriptSync, for every set of setups: who holds a build *)
(* or pull lock, what a build between two of its steps owes to the commit  *)
(* that is checked out, and what a verdict that is about to be written     *)
(* knows of the pages.  And about BuildReaders, for every kind of document *)
(* and all bounds: what a request that reads the page folders look by look *)
(* may say of them while that build is published.                          *)
(***************************************************************************)
EXTENDS ManuscriptSync, BuildReaders, SequenceTheorems, FiniteSetTheorems,
        WellFoundedInduction, TLAPS

-----------------------------------------------------------------------------
(* The invariant *)

(* A document's build lock is held by its running build, and only then.      *)
BuildLocks ==
  \A d \in Docs : /\ docLock[d] = "build" <=> build[d].step # "idle"
                  /\ build[d].step = "idle" => build[d] = NoBuild

(* A round holds the build locks of the documents it has come past, in their
   order, and the pull lock only once it has them all.                       *)
Pulling(r) == round[r].step \in {"pull", "release"}
Holding(r, d) == round[r].step \in {"take", "pull", "release"} /\ d < round[r].next
RoundLocks ==
  \A r \in Rounders : /\ \A d \in Docs : docLock[d] = r <=> Holding(r, d)
                      /\ Pulling(r) => round[r].next = setup.docs + 1
                      /\ shareLock = r <=> Pulling(r)

(* Builds take turns to pull, where more than one document is served.        *)
TurnsAreTaken ==
  /\ \A d \in Docs : build[d].step = "pulling" => setup.several /\ shareLock = "build"
  /\ \A d, e \in Docs : build[d].step = "pulling" /\ build[e].step = "pulling" => d = e

LocksAreHeld == BuildLocks /\ RoundLocks /\ TurnsAreTaken

(* The upstream and the checkout only go on, and what was noted of them is past. *)
HeadsGoOn ==
  /\ head <= remote
  /\ record.head <= head /\ settle.head <= head
  /\ \A r \in Rounders : round[r].head <= head
  /\ \A d \in Docs : headTxt[d] <= head
  /\ settle # NoWait => settle.state # "none" /\ settle.head # NoHead

(* What the pages of d show of any commit is at least as new as commit c.    *)
PagesReach(d, c) == \A k \in pages[d] \ {Edited} : k >= Content(c)

(* head.txt was written after the pages: not while a build is about to write
   it, and not when the last one failed, maybe between the two.              *)
Told(d) == headTxt[d] # NoHead /\ IF build[d].step = "end" THEN build[d].ok
                                 ELSE build[d].step # "head" /\ ~failed[d]

(* A build past its pull is of the commit that is checked out and of edits,
   when no other document's build pulls; its pages are then as new as head.txt,
   and of its commit once they are told.                                     *)
BuildsAreOfHead ==
  ~setup.several =>
    \A d \in Docs :
      /\ build[d].step \in {"pull", "copy"} => build[d].copied = {}
      /\ build[d].step \in {"copying", "compile"} => build[d].copied \subseteq {Edited, Content(head)}
      /\ build[d].step = "head" => pages[d] \subseteq {Edited, Content(head)}
      /\ headTxt[d] # NoHead => PagesReach(d, headTxt[d])
      /\ Told(d) => pages[d] \subseteq {Edited, Content(headTxt[d])}

(* A verdict that is about to be written stays true until it is.             *)
VerdictStands ==
  ~setup.several /\ settle.state = "current" => \A d \in Docs : PagesReach(d, settle.head)

SyncInv == TypeOK /\ LocksAreHeld /\ HeadsGoOn /\ BuildsAreOfHead /\ VerdictStands

-----------------------------------------------------------------------------
(* What the sources are at a commit *)

(* Every set of commits that is not empty has a last one.                    *)
LEMMA SomeCommitIsLast ==
  ASSUME NEW n \in Nat, NEW A, A \subseteq 0..n, A # {}
  PROVE  \E m \in A : \A k \in A : k <= m
<1> DEFINE later(x) == {k \in A : x < k}
           T == {later(x) : x \in A}
<1>1. IsFiniteSet(A)
  <2>1. IsFiniteSet(0..n)
    BY FS_Interval
  <2>2. A \in SUBSET (0..n)
    OBVIOUS
  <2> QED BY <2>1, <2>2, FS_Subset
<1>2. T \subseteq FiniteSubsetsOf(A) /\ T # {}
  <2>1. \A x \in A : later(x) \in SUBSET A
    OBVIOUS
  <2>2. T \subseteq SUBSET A
    BY <2>1
  <2>3. T # {}
    OBVIOUS
  <2> HIDE DEF T
  <2> QED BY <1>1, <2>2, <2>3, FS_FiniteSubsetsOfFinite
<1>3. PICK B \in T : \A C \in T : ~ (<<C, B>> \in StrictSubsetOrdering(A))
  <2>1. IsWellFoundedOn(StrictSubsetOrdering(A), FiniteSubsetsOf(A))
    BY <1>1, FS_StrictSubsetOrderingWellFounded
  <2> HIDE DEF T
  <2> QED BY <1>2, <2>1, WFMin
<1>4. PICK m \in A : B = later(m)
  OBVIOUS
<1>5. later(m) = {}
  <2> SUFFICES ASSUME NEW y \in A, m < y PROVE FALSE
    OBVIOUS
  <2>0. y \in Int /\ m \in Int
    OBVIOUS
  <2>1. later(y) \in T /\ later(y) \in SUBSET A /\ later(m) \in SUBSET A
    OBVIOUS
  <2>2. later(y) \subseteq later(m) /\ y \in later(m) /\ y \notin later(y)
    <3>1. \A k \in A : k \in Int /\ (y < k => m < k) /\ ~(k < k)
      BY <2>0
    <3> HIDE DEF T
    <3> QED BY <3>1, <2>0
  <2>3. <<later(y), B>> \in StrictSubsetOrdering(A)
    BY <1>4, <2>1, <2>2 DEF StrictSubsetOrdering
  <2> QED BY <1>3, <2>1, <2>3
<1> QED BY <1>5

LEMMA CommitsAreNumbers ==
  ASSUME setup \in Setups
  PROVE  /\ setup.docs \in Nat \ {0} /\ setup.commits \in Nat
         /\ setup.several \in BOOLEAN /\ (setup.docs > 1 => setup.several)
         /\ setup.quiet \subseteq 1..setup.commits
         /\ setup.failures \in Nat /\ setup.requests \in Nat /\ setup.edits \in BOOLEAN
BY SetupsAssumption

(* The sources at a commit are those of a commit not after it.               *)
LEMMA ContentIs ==
  ASSUME setup \in Setups, NEW c \in Commits
  PROVE  Content(c) \in Commits /\ IsContent(Content(c), c)
<1> DEFINE A == {k \in 0..c : k \notin setup.quiet}
<1>0. c \in Nat /\ c <= setup.commits /\ setup.commits \in Nat
  BY CommitsAreNumbers DEF Commits
<1>1. 0 \in A
  BY <1>0, CommitsAreNumbers
<1>2. PICK k \in A : \A j \in A : j <= k
  <2>1. A \subseteq 0..c /\ A # {}
    BY <1>1
  <2> HIDE DEF A
  <2> QED BY <1>0, <2>1, SomeCommitIsLast
<1>3. k \in Commits /\ IsContent(k, c)
  BY <1>0, <1>2 DEF Commits, IsContent
<1> QED BY <1>3 DEF Content

(* They only go on with the commits.                                         *)
LEMMA ContentGoesOn ==
  ASSUME setup \in Setups, NEW a \in Commits, NEW b \in Commits, a <= b
  PROVE  Content(a) <= Content(b)
<1> DEFINE k == Content(a)
           m == Content(b)
<1>1. k \in Commits /\ m \in Commits /\ IsContent(k, a) /\ IsContent(m, b)
  BY ContentIs
<1>2. k \in Nat /\ m \in Nat /\ a \in Nat /\ b \in Nat
  BY <1>1, CommitsAreNumbers DEF Commits
<1> HIDE DEF k, m
<1>3. ~(m < k)
  BY <1>1, <1>2 DEF IsContent
<1> QED BY <1>2, <1>3 DEF k, m

(* What a copy reads, and what it reads of a commit.                         *)
LEMMA InTreeIs ==
  ASSUME TypeOK
  PROVE  InTree \in Sources /\ InTree \in {Edited, Content(head)}
BY ContentIs DEF TypeOK, InTree, Sources

-----------------------------------------------------------------------------
(* Types *)

LEMMA InitTypes == Init => TypeOK
<1> SUFFICES ASSUME Init PROVE TypeOK
  OBVIOUS
<1> USE CommitsAreNumbers
<1>1. 0 \in Commits /\ 1 \in 1..(setup.docs + 1)
  BY DEF Init, Commits
<1>2. 0 \in 0..setup.failures /\ 0 \in 0..setup.requests
  BY DEF Init
<1> QED BY <1>1, <1>2 DEF Init, TypeOK, NoBuild, NoRound, NoWait, BuildSteps, RoundSteps, Rounders, States,
   Outcomes, NoHead

LEMMA WorldTypes ==
  ASSUME TypeOK, HeadsGoOn, Push \/ Block \/ Edit \/ WindowEnds \/ Judge \/ Settle
  PROVE  TypeOK'
<1>0. setup \in Setups /\ setup.commits \in Nat
  BY CommitsAreNumbers DEF TypeOK
<1>1. CASE Push
  <2>1. remote' \in Commits /\ setup' = setup
    BY <1>0, <1>1 DEF Push, TypeOK, Commits
  <2> QED BY <1>1, <2>1 DEF Push, TypeOK, docs, watch, Docs, Commits, Sources
<1>2. CASE Block \/ Edit \/ WindowEnds
  BY <1>2 DEF Block, Edit, WindowEnds, TypeOK, tree, docs, watch, Docs, Commits, Sources
<1>3. CASE Judge
  BY <1>3 DEF Judge, TypeOK, tree, docs, Docs, Commits, Sources
<1>4. CASE Settle
  <2>0. /\ settle.state \in {"current", "error"} /\ setup' = setup
        /\ record \in [state : States, head : Commits \cup {NoHead}]
        /\ record' \in {record, [record EXCEPT !.state = settle.state]}
    BY <1>4 DEF Settle, TypeOK, HeadsGoOn
  <2>1. record' \in [state : States, head : Commits \cup {NoHead}]
    BY <2>0 DEF States
  <2> QED BY <1>4, <2>1 DEF Settle, TypeOK, tree, docs, Docs, Commits, Sources, NoWait
<1> QED BY <1>1, <1>2, <1>3, <1>4

LEMMA BuildTypes ==
  ASSUME TypeOK, NEW d \in Docs, Rebuild(d) \/ BuildStep(d)
  PROVE  TypeOK'
<1> DEFINE Builds == [step : BuildSteps, copied : SUBSET Sources, ok : BOOLEAN]
<1>0. /\ setup' = setup /\ setup \in Setups /\ Content(head) \in Commits
      /\ build[d] \in Builds /\ build \in [Docs -> Builds] /\ InTree \in Sources
  BY ContentIs, InTreeIs DEF Rebuild, BuildStep, PullAlone, WaitTurn, PullShared, BeginCopy, CopyOn, EndCopy,
     CopyReads, CopyRest, BuildFails, Fault, Skip,
     Publish, WriteHead, EndBuild, TypeOK
<1>1. /\ build' \in [Docs -> Builds]
      /\ docLock' \in [Docs -> {"free", "build"} \cup Rounders]
  <2>1. CASE Rebuild(d)
    BY <1>0, <2>1 DEF Rebuild, Begin, TypeOK, NoBuild, BuildSteps
  <2>2. CASE PullAlone(d) \/ WaitTurn(d) \/ PullShared(d) \/ Skip(d) \/ Publish(d)
    <3>1. PICK to \in BuildSteps : build' = [build EXCEPT ![d].step = to]
      BY <2>2 DEF PullAlone, WaitTurn, PullShared, Skip, Publish, Step, BuildSteps
    <3>2. docLock' = docLock
      BY <2>2 DEF PullAlone, WaitTurn, PullShared, Skip, Publish
    <3> QED BY <1>0, <3>1, <3>2 DEF TypeOK
  <2>3. CASE BeginCopy(d) \/ CopyOn(d) \/ EndCopy(d)
    <3>1. PICK to \in {"copying", "compile"} :
            build' = [build EXCEPT ![d].step = to, ![d].copied = build[d].copied \cup {InTree}]
      BY <1>0, <2>3 DEF BeginCopy, CopyOn, EndCopy, CopyReads
    <3>2. docLock' = docLock
      BY <2>3 DEF BeginCopy, CopyOn, EndCopy, CopyRest
    <3> QED BY <1>0, <3>1, <3>2 DEF TypeOK, BuildSteps
  <2>4. CASE WriteHead(d) \/ BuildFails(d)
    <3>1. PICK b \in BOOLEAN : build' = [build EXCEPT ![d].step = "end", ![d].ok = b]
      BY <1>0, <2>4 DEF WriteHead, BuildFails
    <3>2. docLock' = docLock
      BY <2>4 DEF WriteHead, BuildFails
    <3> QED BY <1>0, <3>1, <3>2 DEF TypeOK, BuildSteps
  <2>5. CASE EndBuild(d)
    BY <1>0, <2>5 DEF EndBuild, NoBuild, TypeOK, BuildSteps
  <2> QED BY <2>1, <2>2, <2>3, <2>4, <2>5 DEF BuildStep
<1>2. /\ remote' \in Commits /\ head' \in Commits
      /\ blocked' \in BOOLEAN /\ edited' \in BOOLEAN /\ recent' \in BOOLEAN
      /\ shareLock' \in {"free", "build"} \cup Rounders
  BY DEF Rebuild, BuildStep, PullAlone, WaitTurn, PullShared, BeginCopy, CopyOn, EndCopy, CopyReads, CopyRest,
     BuildFails, Fault, Skip,
     Publish, WriteHead, EndBuild, TypeOK, tree, FastForward
<1>3. /\ pages' \in [Docs -> SUBSET Sources]
      /\ headTxt' \in [Docs -> Commits \cup {NoHead}] /\ failed' \in [Docs -> BOOLEAN]
  <2>1. CASE Publish(d)
    BY <1>0, <2>1 DEF Publish, TypeOK
  <2>2. CASE WriteHead(d)
    BY <2>2 DEF WriteHead, TypeOK
  <2>3. CASE EndBuild(d)
    <3>1. CASE build[d].ok = TRUE
      BY <2>3, <3>1 DEF EndBuild, TypeOK
    <3>2. CASE build[d].ok = FALSE
      BY <2>3, <3>2 DEF EndBuild, TypeOK
    <3> QED BY <1>0, <3>1, <3>2
  <2>4. CASE ~(Publish(d) \/ WriteHead(d) \/ EndBuild(d))
    BY <2>4 DEF Rebuild, BuildStep, PullAlone, WaitTurn, PullShared, BeginCopy, CopyOn, EndCopy, CopyReads,
       CopyRest, BuildFails, Fault, Skip, TypeOK
  <2> QED BY <2>1, <2>2, <2>3, <2>4
<1>4. /\ UNCHANGED <<round, record, settle>>
      /\ failures' \in 0..setup.failures /\ requests' \in 0..setup.requests
  BY <1>0, CommitsAreNumbers DEF Rebuild, BuildStep, PullAlone, WaitTurn, PullShared, BeginCopy, CopyOn,
     EndCopy, CopyReads, CopyRest, BuildFails, Fault, Skip,
     Publish, WriteHead, EndBuild, TypeOK, watch, Request
<1> HIDE DEF Builds
<1> QED BY <1>0, <1>1, <1>2, <1>3, <1>4 DEF TypeOK, Docs, Commits, Sources, Builds

(* What a round learns of the commits before and after its pull.            *)
LEMMA PullReads ==
  ASSUME NEW r \in Rounders, PullInRound(r)
  PROVE  \E now \in {head, head', NoHead}, o \in Outcomes :
           round' = [round EXCEPT ![r].step = "release", ![r].head = now, ![r].outcome = o]
<1>1. PICK now \in {head, head', NoHead}, o \in {"refused", "failed", "current", "pulled"} :
         round' = [round EXCEPT ![r].step = "release", ![r].head = now, ![r].outcome = o]
  BY DEF PullInRound
<1> QED BY <1>1 DEF Outcomes

(* The round of r and the record after a step of r.                         *)
LEMMA RoundTypes ==
  ASSUME TypeOK, HeadsGoOn, NEW r \in Rounders, StartRound(r) \/ RoundStep(r)
  PROVE  TypeOK'
<1> DEFINE Round == [step : RoundSteps, next : 1..(setup.docs + 1),
                     outcome : Outcomes,
                     head : Commits \cup {NoHead}, updating : BOOLEAN]
           Builds == [step : BuildSteps, copied : SUBSET Sources, ok : BOOLEAN]
           Recorded == [state : States, head : Commits \cup {NoHead}]
<1> USE DEF RoundAt
<1>0. /\ setup' = setup /\ setup \in Setups /\ setup.docs \in Nat
      /\ round[r] \in Round /\ round \in [Rounders -> Round]
      /\ NoRound \in Round /\ record \in Recorded /\ head \in Commits /\ remote \in Commits
  <2>1. setup' = setup
    BY DEF StartRound, RoundStep, TakeBuildLock, TakePullLock, Defer, PullInRound, Release, RecordPull,
       StartBuild, StartFails, EndRound
  <2>2. setup \in Setups /\ setup.docs \in Nat \ {0} /\ setup.commits \in Nat
    BY CommitsAreNumbers DEF TypeOK
  <2>3. 0 \in Commits /\ 1 \in 1..(setup.docs + 1)
    BY <2>2 DEF Commits
  <2>4. NoRound \in Round
    BY <2>3 DEF NoRound, RoundSteps, Outcomes
  <2> QED BY <2>1, <2>2, <2>4 DEF TypeOK
<1>n. round[r].next \in Docs => round[r].next + 1 \in 1..(setup.docs + 1)
  BY <1>0 DEF Docs
<1>h. head' \in Commits
  <2>1. CASE PullInRound(r)
    BY <1>0, <2>1 DEF PullInRound, FastForward
  <2>2. CASE ~PullInRound(r)
    BY <1>0, <2>2 DEF StartRound, RoundStep, TakeBuildLock, TakePullLock, Defer, Release, RecordPull,
       StartBuild, StartFails, EndRound, tree
  <2> QED BY <2>1, <2>2
<1>1. round' \in [Rounders -> Round]
  <2>1. CASE StartRound(r)
    BY <1>0, <2>1 DEF StartRound, NoRound, RoundSteps
  <2>2. CASE TakeBuildLock(r)
    BY <1>0, <1>n, <2>2 DEF TakeBuildLock
  <2>3. CASE TakePullLock(r) \/ Release(r)
    BY <1>0, <2>3 DEF TakePullLock, Release, RoundSteps
  <2>4. CASE Defer(r) \/ StartFails(r) \/ EndRound(r)
    BY <1>0, <2>4 DEF Defer, StartFails, EndRound
  <2>5. CASE PullInRound(r)
    <3>1. PICK now \in {head, head', NoHead}, o \in Outcomes :
            round' = [round EXCEPT ![r].step = "release", ![r].head = now, ![r].outcome = o]
      BY <2>5, PullReads
    <3> QED BY <1>0, <1>h, <3>1 DEF RoundSteps
  <2>6. CASE RecordPull(r)
    <3>1. 1 \in 1..(setup.docs + 1)
      BY <1>0
    <3> QED BY <1>0, <2>6, <3>1 DEF RecordPull, RoundSteps
  <2>7. CASE StartBuild(r)
    <3> DEFINE up == round[r].updating \/ NeedsRebuild(r, round[r].next)
               n == round[r].next + 1
    <3>1. round' = [round EXCEPT ![r].next = n, ![r].updating = up]
      BY <1>0, <2>7 DEF StartBuild
    <3>2. up \in BOOLEAN /\ n \in 1..(setup.docs + 1)
      BY <1>n, <2>7 DEF StartBuild
    <3> HIDE DEF up, n
    <3> QED BY <1>0, <3>1, <3>2
  <2> QED BY <2>1, <2>2, <2>3, <2>4, <2>5, <2>6, <2>7 DEF RoundStep
<1>2. record' \in Recorded
  <2>1. CASE Defer(r) \/ StartFails(r) \/ EndRound(r)
    BY <1>0, <2>1 DEF Defer, StartFails, EndRound, States
  <2>2. CASE RecordPull(r)
    <3>1. PICK s \in States : record' = [state |-> s, head |-> round[r].head]
      BY <1>0, <2>2 DEF RecordPull, States, Outcomes
    <3> QED BY <1>0, <3>1
  <2>3. CASE ~(Defer(r) \/ StartFails(r) \/ EndRound(r) \/ RecordPull(r))
    BY <1>0, <2>3 DEF StartRound, RoundStep, TakeBuildLock, TakePullLock, PullInRound, Release, StartBuild
  <2> QED BY <2>1, <2>2, <2>3
<1>3. /\ docLock' \in [Docs -> {"free", "build"} \cup Rounders]
      /\ build' \in [Docs -> Builds]
  <2>0. docLock \in [Docs -> {"free", "build"} \cup Rounders] /\ build \in [Docs -> Builds]
    BY DEF TypeOK
  <2>1. CASE TakeBuildLock(r)
    BY <2>0, <2>1 DEF TakeBuildLock, docs
  <2>2. CASE Defer(r) \/ Release(r)
    BY <2>0, <2>2 DEF Defer, Release, Freed, docs
  <2>3. CASE StartBuild(r)
    <3>1. CASE Begin(round[r].next)
      <4>1. [NoBuild EXCEPT !.step = "pull"] \in Builds
        BY DEF NoBuild, BuildSteps
      <4> QED BY <2>0, <3>1, <4>1 DEF Begin
    <3>2. CASE UNCHANGED <<build, docLock>>
      BY <2>0, <3>2
    <3> QED BY <2>3, <3>1, <3>2 DEF StartBuild
  <2>4. CASE ~(TakeBuildLock(r) \/ Defer(r) \/ Release(r) \/ StartBuild(r))
    BY <2>0, <2>4 DEF StartRound, RoundStep, TakePullLock, PullInRound, RecordPull, StartFails, EndRound, docs
  <2> QED BY <2>1, <2>2, <2>3, <2>4
<1>4. /\ remote' \in Commits /\ blocked' \in BOOLEAN /\ edited' \in BOOLEAN /\ recent' \in BOOLEAN
      /\ shareLock' \in {"free", "build"} \cup Rounders
  <2>0. /\ remote \in Commits /\ blocked \in BOOLEAN /\ edited \in BOOLEAN /\ recent \in BOOLEAN
        /\ shareLock \in {"free", "build"} \cup Rounders /\ setup.several \in BOOLEAN
    BY CommitsAreNumbers DEF TypeOK
  <2>1. UNCHANGED <<remote, blocked, edited>>
    BY DEF StartRound, RoundStep, TakeBuildLock, TakePullLock, Defer, PullInRound, Release, RecordPull,
       StartBuild, StartFails, EndRound, tree
  <2>2. recent' \in {recent, setup.several}
    BY DEF StartRound, RoundStep, TakeBuildLock, TakePullLock, Defer, PullInRound, Release, RecordPull,
       StartBuild, StartFails, EndRound
  <2>3. shareLock' \in {shareLock, "free", r}
    BY DEF StartRound, RoundStep, TakeBuildLock, TakePullLock, Defer, PullInRound, Release, RecordPull,
       StartBuild, StartFails, EndRound
  <2> QED BY <2>0, <2>1, <2>2, <2>3
<1>5. requests' \in 0..setup.requests /\ failures' \in 0..setup.failures
  BY <1>0, CommitsAreNumbers DEF StartRound, RoundStep, TakeBuildLock, TakePullLock, Defer, PullInRound,
     Release, RecordPull, StartBuild, StartFails, EndRound, TypeOK, docs, Request, Fault
<1>6. UNCHANGED <<pages, headTxt, settle>> /\ failed' \in [Docs -> BOOLEAN]
  BY DEF TypeOK, StartRound, RoundStep, TakeBuildLock, TakePullLock, Defer, PullInRound, Release, RecordPull,
     StartBuild, StartFails, EndRound, docs
<1> HIDE DEF Round, Builds, Recorded
<1> QED BY <1>0, <1>h, <1>1, <1>2, <1>3, <1>4, <1>5, <1>6 DEF TypeOK, Docs, Commits, Sources,
       Outcomes, Round, Builds, Recorded

-----------------------------------------------------------------------------
(* Locks *)

LEMMA InitLocks == Init => LocksAreHeld
<1> SUFFICES ASSUME Init PROVE LocksAreHeld
  OBVIOUS
<1> USE DEF Init, NoBuild, NoRound, Rounders
<1>1. BuildLocks
  BY DEF BuildLocks
<1>2. RoundLocks
  BY DEF RoundLocks, Holding, Pulling
<1>3. TurnsAreTaken
  BY DEF TurnsAreTaken
<1> QED BY <1>1, <1>2, <1>3 DEF LocksAreHeld

LEMMA WorldKeepsLocks ==
  ASSUME LocksAreHeld, Push \/ Block \/ Edit \/ WindowEnds \/ Judge \/ Settle
  PROVE  LocksAreHeld'
<1>1. UNCHANGED <<setup, docLock, shareLock, build, round>>
  BY DEF Push, Block, Edit, WindowEnds, Judge, Settle, docs, watch
<1> QED BY <1>1 DEF LocksAreHeld, BuildLocks, RoundLocks, TurnsAreTaken, Holding, Pulling, Docs

LEMMA BuildKeepsLocks ==
  ASSUME TypeOK, LocksAreHeld, NEW d \in Docs, Rebuild(d) \/ BuildStep(d)
  PROVE  LocksAreHeld'
<1> DEFINE Builds == [step : BuildSteps, copied : SUBSET Sources, ok : BOOLEAN]
<1>0. /\ docLock \in [Docs -> {"free", "build"} \cup Rounders] /\ build \in [Docs -> Builds]
      /\ \A r \in Rounders : r # "free" /\ r # "build"
  BY DEF TypeOK, Rounders
<1>1. setup' = setup /\ round' = round /\ Docs' = Docs
  BY DEF Rebuild, BuildStep, PullAlone, WaitTurn, PullShared, BeginCopy, CopyOn, EndCopy, CopyReads, CopyRest,
     BuildFails, Fault, Skip,
     Publish, WriteHead, EndBuild, watch, Docs
<1>2. CASE Rebuild(d)
  <2>1. /\ build' = [build EXCEPT ![d] = [NoBuild EXCEPT !.step = "pull"]]
        /\ docLock[d] = "free" /\ docLock' = [docLock EXCEPT ![d] = "build"] /\ shareLock' = shareLock
    BY <1>2 DEF Rebuild, Begin
  <2>2. BuildLocks'
    BY <1>0, <1>1, <2>1 DEF LocksAreHeld, BuildLocks, NoBuild
  <2>3. RoundLocks'
    BY <1>0, <1>1, <2>1 DEF LocksAreHeld, RoundLocks, Holding, Pulling
  <2>4. TurnsAreTaken'
    BY <1>0, <1>1, <2>1 DEF LocksAreHeld, TurnsAreTaken, NoBuild
  <2> QED BY <2>2, <2>3, <2>4 DEF LocksAreHeld
<1>3. CASE WaitTurn(d)
  <2>1. /\ setup.several /\ build[d].step = "pull" /\ build' = [build EXCEPT ![d].step = "pulling"]
        /\ shareLock = "free" /\ shareLock' = "build" /\ docLock' = docLock
    BY <1>3 DEF WaitTurn, Step
  <2>2. BuildLocks'
    BY <1>0, <1>1, <2>1 DEF LocksAreHeld, BuildLocks
  <2>3. RoundLocks'
    BY <1>0, <1>1, <2>1 DEF LocksAreHeld, RoundLocks, Holding, Pulling
  <2>4. TurnsAreTaken'
    BY <1>0, <1>1, <2>1 DEF LocksAreHeld, TurnsAreTaken
  <2> QED BY <2>2, <2>3, <2>4 DEF LocksAreHeld
<1>4. CASE PullShared(d)
  <2>1. /\ build[d].step = "pulling" /\ build' = [build EXCEPT ![d].step = "copy"]
        /\ shareLock' = "free" /\ docLock' = docLock
    BY <1>4 DEF PullShared, Step
  <2>2. shareLock = "build" /\ \A e \in Docs : build[e].step = "pulling" => e = d
    BY <2>1 DEF LocksAreHeld, TurnsAreTaken
  <2>3. BuildLocks'
    BY <1>0, <1>1, <2>1 DEF LocksAreHeld, BuildLocks
  <2>4. RoundLocks'
    BY <1>0, <1>1, <2>1, <2>2 DEF LocksAreHeld, RoundLocks, Holding, Pulling
  <2>5. TurnsAreTaken'
    BY <1>0, <1>1, <2>1, <2>2 DEF LocksAreHeld, TurnsAreTaken
  <2> QED BY <2>3, <2>4, <2>5 DEF LocksAreHeld
<1>5. CASE EndBuild(d)
  <2>1. /\ build[d].step = "end" /\ build' = [build EXCEPT ![d] = NoBuild]
        /\ docLock' = [docLock EXCEPT ![d] = "free"] /\ shareLock' = shareLock
    BY <1>5 DEF EndBuild
  <2>2. BuildLocks'
    BY <1>0, <1>1, <2>1 DEF LocksAreHeld, BuildLocks, NoBuild
  <2>3. RoundLocks'
    BY <1>0, <1>1, <2>1 DEF LocksAreHeld, BuildLocks, RoundLocks, Holding, Pulling
  <2>4. TurnsAreTaken'
    BY <1>0, <1>1, <2>1 DEF LocksAreHeld, TurnsAreTaken, NoBuild
  <2> QED BY <2>2, <2>3, <2>4 DEF LocksAreHeld
<1>6. CASE \/ PullAlone(d) \/ BeginCopy(d) \/ CopyOn(d) \/ EndCopy(d) \/ BuildFails(d) \/ Skip(d)
           \/ Publish(d) \/ WriteHead(d)
  <2>1. docLock' = docLock /\ shareLock' = shareLock
    BY <1>6 DEF PullAlone, BeginCopy, CopyOn, EndCopy, CopyReads, CopyRest, BuildFails, Fault, Skip, Publish,
       WriteHead
  <2>2. /\ build[d].step # "idle" /\ build'[d].step \notin {"idle", "pulling"}
        /\ \A e \in Docs \ {d} : build'[e] = build[e]
    <3>1. CASE PullAlone(d) \/ Skip(d) \/ Publish(d)
      <4>1. PICK to \in {"copy", "head"} : build' = [build EXCEPT ![d].step = to]
        BY <3>1 DEF PullAlone, Skip, Publish, Step
      <4>2. build[d].step # "idle"
        BY <3>1 DEF PullAlone, Skip, Publish, Step
      <4> QED BY <1>0, <4>1, <4>2
    <3>2. CASE BeginCopy(d) \/ CopyOn(d) \/ EndCopy(d)
      BY <1>0, <3>2 DEF BeginCopy, CopyOn, EndCopy, CopyReads
    <3>3. CASE BuildFails(d) \/ WriteHead(d)
      BY <1>0, <3>3 DEF BuildFails, WriteHead
    <3> QED BY <1>6, <3>1, <3>2, <3>3
  <2>3. BuildLocks'
    BY <1>0, <1>1, <2>1, <2>2 DEF LocksAreHeld, BuildLocks
  <2>4. RoundLocks'
    BY <1>0, <1>1, <2>1 DEF LocksAreHeld, RoundLocks, Holding, Pulling
  <2>5. TurnsAreTaken'
    BY <1>0, <1>1, <2>1, <2>2 DEF LocksAreHeld, TurnsAreTaken
  <2> QED BY <2>3, <2>4, <2>5 DEF LocksAreHeld
<1> QED BY <1>2, <1>3, <1>4, <1>5, <1>6 DEF BuildStep

LEMMA RoundKeepsLocks ==
  ASSUME TypeOK, LocksAreHeld, NEW r \in Rounders, StartRound(r) \/ RoundStep(r)
  PROVE  LocksAreHeld'
<1> DEFINE Builds == [step : BuildSteps, copied : SUBSET Sources, ok : BOOLEAN]
           Round == [step : RoundSteps, next : 1..(setup.docs + 1),
                     outcome : Outcomes,
                     head : Commits \cup {NoHead}, updating : BOOLEAN]
<1> USE DEF RoundAt
<1>0. /\ docLock \in [Docs -> {"free", "build"} \cup Rounders] /\ build \in [Docs -> Builds]
      /\ round \in [Rounders -> Round] /\ setup.docs \in Nat
      /\ \A s \in Rounders : s # "free" /\ s # "build"
  <2>1. setup.docs \in Nat
    BY CommitsAreNumbers DEF TypeOK
  <2> QED BY <2>1 DEF TypeOK, Rounders
<1>1. setup' = setup /\ Docs' = Docs
  BY DEF StartRound, RoundStep, TakeBuildLock, TakePullLock, Defer, PullInRound, Release, RecordPull,
     StartBuild, StartFails, EndRound, Docs
<1>n. \A s \in Rounders : round[s].next \in Int /\ round[s].next >= 1 /\ round[s].next <= setup.docs + 1
  BY <1>0
<1>d. \A e \in Docs : e \in Int /\ e >= 1 /\ e <= setup.docs
  BY <1>0 DEF Docs
<1>2. CASE TakeBuildLock(r)
  <2> DEFINE n == round[r].next
  <2>1. /\ round[r].step = "take" /\ n \in Docs /\ docLock[n] = "free"
        /\ docLock' = [docLock EXCEPT ![n] = r] /\ UNCHANGED <<build, shareLock>>
        /\ round' = [round EXCEPT ![r].next = n + 1]
    BY <1>2 DEF TakeBuildLock, docs
  <2>2. BuildLocks'
    BY <1>0, <1>1, <2>1 DEF LocksAreHeld, BuildLocks
  <2>3. \A s \in Rounders \ {r} : round'[s] = round[s]
    BY <1>0, <2>1
  <2>4. round'[r].step = "take" /\ round'[r].next = n + 1
    BY <1>0, <2>1
  <2>5. \A s \in Rounders, e \in Docs : docLock'[e] = s <=> Holding(s, e)'
    <3> SUFFICES ASSUME NEW s \in Rounders, NEW e \in Docs PROVE docLock'[e] = s <=> Holding(s, e)'
      OBVIOUS
    <3>0. docLock[e] = s <=> Holding(s, e)
      BY DEF LocksAreHeld, RoundLocks
    <3>1. CASE s = r
      BY <1>0, <1>n, <1>d, <2>1, <2>4, <3>0, <3>1 DEF Holding
    <3>2. CASE s # r
      BY <1>0, <2>1, <2>3, <3>0, <3>2 DEF Holding
    <3> QED BY <3>1, <3>2
  <2>6. RoundLocks'
    <3>1. \A s \in Rounders : Pulling(s)' <=> Pulling(s)
      BY <2>1, <2>3, <2>4 DEF Pulling
    <3>2. \A s \in Rounders : Pulling(s) => round'[s].next = round[s].next
      BY <2>1, <2>3 DEF Pulling
    <3> QED BY <1>1, <2>1, <2>5, <3>1, <3>2 DEF LocksAreHeld, RoundLocks
  <2>7. TurnsAreTaken'
    BY <1>1, <2>1 DEF LocksAreHeld, TurnsAreTaken
  <2> QED BY <2>2, <2>6, <2>7 DEF LocksAreHeld
<1>3. CASE TakePullLock(r)
  <2>1. /\ round[r].step = "take" /\ round[r].next \notin Docs /\ shareLock = "free" /\ shareLock' = r
        /\ round' = [round EXCEPT ![r].step = "pull"] /\ UNCHANGED <<build, docLock>>
    BY <1>3 DEF TakePullLock, docs
  <2>2. round[r].next = setup.docs + 1
    BY <1>0, <1>n, <2>1 DEF Docs
  <2>3. BuildLocks'
    BY <1>1, <2>1 DEF LocksAreHeld, BuildLocks
  <2>4. /\ \A s \in Rounders \ {r} : round'[s] = round[s]
        /\ round'[r].step = "pull" /\ round'[r].next = round[r].next
    BY <1>0, <2>1
  <2>5. \A s \in Rounders : /\ \A e \in Docs : Holding(s, e)' <=> Holding(s, e)
                            /\ Pulling(s)' <=> (s = r \/ Pulling(s))
                            /\ round'[s].next = round[s].next
    BY <2>1, <2>4 DEF Holding, Pulling
  <2>6. RoundLocks'
    BY <1>0, <1>1, <2>1, <2>2, <2>5 DEF LocksAreHeld, RoundLocks
  <2>7. TurnsAreTaken'
    BY <1>1, <2>1 DEF LocksAreHeld, TurnsAreTaken
  <2> QED BY <2>3, <2>6, <2>7 DEF LocksAreHeld
<1>4. CASE Defer(r) \/ Release(r)
  <2>1. /\ docLock' = Freed(r) /\ build' = build
        /\ \A s \in Rounders \ {r} : round'[s] = round[s]
        /\ round'[r].step \in {"idle", "record"} /\ round[r].step \in {"take", "release"}
        /\ round[r].step = "take" => shareLock' = shareLock
        /\ round[r].step = "release" => shareLock' = "free"
    BY <1>0, <1>4 DEF Defer, Release, NoRound, docs
  <2>2. BuildLocks'
    <3>1. \A e \in Docs : docLock'[e] = "build" <=> docLock[e] = "build"
      BY <1>0, <2>1 DEF Freed
    <3> QED BY <1>1, <2>1, <3>1 DEF LocksAreHeld, BuildLocks
  <2>3. \A s \in Rounders, e \in Docs : docLock'[e] = s <=> Holding(s, e)'
    <3> SUFFICES ASSUME NEW s \in Rounders, NEW e \in Docs PROVE docLock'[e] = s <=> Holding(s, e)'
      OBVIOUS
    <3>0. docLock[e] = s <=> Holding(s, e)
      BY DEF LocksAreHeld, RoundLocks
    <3>1. CASE s = r
      BY <1>0, <2>1, <3>0, <3>1 DEF Holding, Freed
    <3>2. CASE s # r
      BY <1>0, <2>1, <3>0, <3>2 DEF Holding, Freed
    <3> QED BY <3>1, <3>2
  <2>4. \A s \in Rounders : /\ Pulling(s)' <=> (Pulling(s) /\ s # r)
                            /\ Pulling(s) /\ s # r => round'[s].next = round[s].next
    BY <2>1 DEF Pulling
  <2>5. \A s \in Rounders : shareLock' = s <=> Pulling(s)'
    <3>1. \A s \in Rounders : shareLock = s <=> Pulling(s)
      BY DEF LocksAreHeld, RoundLocks
    <3>2. Pulling(r) <=> round[r].step = "release"
      BY <2>1 DEF Pulling
    <3> QED BY <1>0, <2>1, <2>4, <3>1, <3>2
  <2>6. RoundLocks'
    BY <1>1, <2>3, <2>4, <2>5 DEF LocksAreHeld, RoundLocks
  <2>7. TurnsAreTaken'
    <3>1. shareLock = "build" => shareLock' = "build"
      BY <1>0, <2>1 DEF LocksAreHeld, RoundLocks, Pulling
    <3> QED BY <1>1, <2>1, <3>1 DEF LocksAreHeld, TurnsAreTaken
  <2> QED BY <2>2, <2>6, <2>7 DEF LocksAreHeld
<1>5. CASE StartRound(r) \/ PullInRound(r) \/ RecordPull(r) \/ StartFails(r) \/ EndRound(r)
  <2>1. UNCHANGED <<docLock, shareLock, build>>
    BY <1>5 DEF StartRound, PullInRound, RecordPull, StartFails, EndRound, docs
  <2>2. \A s \in Rounders \ {r} : round'[s] = round[s]
    <3>1. CASE PullInRound(r)
      <4>1. PICK now \in {head, head', NoHead}, o \in Outcomes :
              round' = [round EXCEPT ![r].step = "release", ![r].head = now, ![r].outcome = o]
        BY <3>1, PullReads
      <4> QED BY <1>0, <4>1
    <3>2. CASE ~PullInRound(r)
      BY <1>0, <1>5, <3>2 DEF StartRound, RecordPull, StartFails, EndRound
    <3> QED BY <3>1, <3>2
  <2>3. \/ /\ round[r].step = "pull" /\ round'[r].step = "release" /\ round'[r].next = round[r].next
        \/ /\ round[r].step \in {"idle", "record", "start"}
           /\ round'[r].step \in {"idle", "start"}
        \/ round[r].step = "idle" /\ round'[r].step = "take" /\ round'[r].next = 1
    <3>1. CASE StartRound(r)
      BY <1>0, <3>1 DEF StartRound, NoRound
    <3>2. CASE PullInRound(r)
      <4>1. round[r].step = "pull"
        BY <3>2 DEF PullInRound
      <4>2. PICK now \in {head, head', NoHead}, o \in Outcomes :
              round' = [round EXCEPT ![r].step = "release", ![r].head = now, ![r].outcome = o]
        BY <3>2, PullReads
      <4> QED BY <1>0, <4>1, <4>2
    <3>3. CASE RecordPull(r)
      BY <1>0, <3>3 DEF RecordPull, NoRound
    <3>4. CASE StartFails(r) \/ EndRound(r)
      BY <1>0, <3>4 DEF StartFails, EndRound, NoRound
    <3> QED BY <1>5, <3>1, <3>2, <3>3, <3>4
  <2>4. \A s \in Rounders : /\ \A e \in Docs : Holding(s, e)' <=> Holding(s, e)
                            /\ Pulling(s)' <=> Pulling(s)
                            /\ Pulling(s) => round'[s].next = round[s].next
    BY <1>d, <2>2, <2>3 DEF Holding, Pulling
  <2>5. RoundLocks'
    BY <1>1, <2>1, <2>4 DEF LocksAreHeld, RoundLocks
  <2> QED BY <1>1, <2>1, <2>5 DEF LocksAreHeld, BuildLocks, TurnsAreTaken
<1>6. CASE StartBuild(r)
  <2> DEFINE n == round[r].next
  <2>1. /\ round[r].step = "start" /\ n \in Docs /\ shareLock' = shareLock
        /\ Begin(n) \/ UNCHANGED <<build, docLock>>
    BY <1>6 DEF StartBuild
  <2>2. /\ \A s \in Rounders \ {r} : round'[s] = round[s]
        /\ round'[r].step = "start"
    BY <1>0, <1>6 DEF StartBuild
  <2>3. \A s \in Rounders : /\ \A e \in Docs : Holding(s, e)' <=> Holding(s, e)
                            /\ Pulling(s)' <=> Pulling(s)
                            /\ Pulling(s) => round'[s].next = round[s].next
    BY <2>1, <2>2 DEF Holding, Pulling
  <2>4. CASE Begin(n)
    <3>1. /\ build' = [build EXCEPT ![n] = [NoBuild EXCEPT !.step = "pull"]]
          /\ docLock[n] = "free" /\ docLock' = [docLock EXCEPT ![n] = "build"]
      BY <2>4 DEF Begin
    <3> HIDE DEF n
    <3>2. BuildLocks'
      BY <1>0, <1>1, <2>1, <3>1 DEF LocksAreHeld, BuildLocks, NoBuild
    <3>3. RoundLocks'
      BY <1>0, <1>1, <2>1, <2>3, <3>1 DEF LocksAreHeld, RoundLocks
    <3>4. TurnsAreTaken'
      BY <1>0, <1>1, <2>1, <3>1 DEF LocksAreHeld, TurnsAreTaken, NoBuild
    <3> QED BY <3>2, <3>3, <3>4 DEF LocksAreHeld
  <2>5. CASE UNCHANGED <<build, docLock>>
    <3>1. RoundLocks'
      BY <1>1, <2>1, <2>3, <2>5 DEF LocksAreHeld, RoundLocks
    <3> QED BY <1>1, <2>1, <2>5, <3>1 DEF LocksAreHeld, BuildLocks, TurnsAreTaken
  <2> QED BY <2>1, <2>4, <2>5
<1> QED BY <1>2, <1>3, <1>4, <1>5, <1>6 DEF RoundStep

(* A round that pulls has come past every document, and none is being built. *)
LEMMA RoundHasThemAll ==
  ASSUME TypeOK, LocksAreHeld, NEW r \in Rounders, round[r].step = "pull"
  PROVE  \A d \in Docs : build[d] = NoBuild /\ docLock[d] = r
<1> SUFFICES ASSUME NEW d \in Docs PROVE build[d] = NoBuild /\ docLock[d] = r
  OBVIOUS
<1>1. round[r].next = setup.docs + 1 /\ d < setup.docs + 1
  BY CommitsAreNumbers DEF TypeOK, Docs, LocksAreHeld, RoundLocks, Pulling
<1>2. docLock[d] = r
  BY <1>1 DEF LocksAreHeld, RoundLocks, Holding
<1> QED BY <1>2 DEF LocksAreHeld, BuildLocks, Rounders

-----------------------------------------------------------------------------
(* The checkout goes on *)

LEMMA InitHeads == Init => HeadsGoOn
BY DEF Init, HeadsGoOn, NoRound, NoWait, NoHead

(* Only a pull moves the checkout, and only to the upstream.                 *)
LEMMA HeadMoves ==
  ASSUME TypeOK, Next
  PROVE  /\ setup' = setup /\ remote \in Int /\ head \in Int /\ remote' \in Int /\ head' \in Int
         /\ remote' >= remote /\ head' \in {head, remote}
<1>0. setup.commits \in Nat /\ remote \in Int /\ head \in Int
  BY CommitsAreNumbers DEF TypeOK, Commits
<1>1. CASE Push
  BY <1>0, <1>1 DEF Push
<1>2. CASE Block \/ Edit \/ WindowEnds \/ Judge \/ Settle
  BY <1>0, <1>2 DEF Block, Edit, WindowEnds, Judge, Settle, tree
<1>3. ASSUME NEW d \in Docs, Rebuild(d) \/ BuildStep(d)
      PROVE  setup' = setup /\ remote' = remote /\ head' \in {head, remote}
  BY <1>3 DEF Rebuild, BuildStep, PullAlone, WaitTurn, PullShared, BeginCopy, CopyOn, EndCopy, CopyReads,
     CopyRest, BuildFails, Fault, Skip,
     Publish, WriteHead, EndBuild, FastForward, tree
<1>4. ASSUME NEW r \in Rounders, StartRound(r) \/ RoundStep(r)
      PROVE  setup' = setup /\ remote' = remote /\ head' \in {head, remote}
  BY <1>4 DEF StartRound, RoundStep, TakeBuildLock, TakePullLock, Defer, PullInRound, Release, RecordPull,
     StartBuild, StartFails, EndRound, FastForward, tree
<1> QED BY <1>0, <1>1, <1>2, <1>3, <1>4 DEF Next

(* Only the end of a build writes head.txt.                                  *)
LEMMA HeadTxtMoves ==
  ASSUME Next
  PROVE  headTxt' = headTxt \/ \E d \in Docs : WriteHead(d)
<1>1. CASE Push \/ Block \/ Edit \/ WindowEnds \/ Judge \/ Settle
  BY <1>1 DEF Push, Block, Edit, WindowEnds, Judge, Settle, docs
<1>2. ASSUME NEW d \in Docs, Rebuild(d) \/ BuildStep(d), ~WriteHead(d) PROVE headTxt' = headTxt
  BY <1>2 DEF Rebuild, BuildStep, PullAlone, WaitTurn, PullShared, BeginCopy, CopyOn, EndCopy, CopyRest,
     BuildFails, Skip, Publish, EndBuild
<1>3. ASSUME NEW r \in Rounders, StartRound(r) \/ RoundStep(r) PROVE headTxt' = headTxt
  BY <1>3 DEF StartRound, RoundStep, TakeBuildLock, TakePullLock, Defer, PullInRound, Release, RecordPull,
     StartBuild, StartFails, EndRound, docs
<1> QED BY <1>1, <1>2, <1>3 DEF Next

LEMMA HeadTxtIsPast ==
  ASSUME TypeOK, HeadsGoOn, Next
  PROVE  \A d \in Docs' : headTxt'[d] <= head'
<1>1. /\ Docs' = Docs /\ head \in Nat /\ head' \in Int /\ head <= head'
      /\ headTxt \in [Docs -> Commits \cup {NoHead}]
      /\ \A c \in Commits \cup {NoHead} : c \in Int
  <2>1. head \in Nat /\ \A c \in Commits \cup {NoHead} : c \in Int
    BY CommitsAreNumbers DEF TypeOK, Commits, NoHead
  <2>2. headTxt \in [Docs -> Commits \cup {NoHead}]
    BY DEF TypeOK
  <2> QED BY <2>1, <2>2, HeadMoves DEF HeadsGoOn, Docs
<1>2. \A d \in Docs : headTxt[d] <= head /\ headTxt[d] \in Int
  BY <1>1 DEF HeadsGoOn
<1>3. ASSUME NEW d \in Docs, WriteHead(d) PROVE \A e \in Docs : headTxt'[e] <= head'
  <2>1. PICK h \in {head, NoHead} : headTxt' = [headTxt EXCEPT ![d] = h]
    BY <1>3 DEF WriteHead
  <2>2. h <= head /\ h \in Int
    BY <1>1 DEF NoHead
  <2>3. \A e \in Docs : headTxt'[e] \in {headTxt[e], h}
    BY <1>1, <2>1
  <2> QED BY <1>1, <1>2, <2>2, <2>3
<1>4. CASE headTxt' = headTxt
  BY <1>1, <1>2, <1>4
<1> QED BY <1>1, <1>3, <1>4, HeadTxtMoves

LEMMA HeadsStayPast ==
  ASSUME TypeOK, HeadsGoOn, Next
  PROVE  HeadsGoOn'
<1> DEFINE Round == [step : RoundSteps, next : 1..(setup.docs + 1),
                     outcome : Outcomes,
                     head : Commits \cup {NoHead}, updating : BOOLEAN]
<1> USE DEF RoundAt
<1>0. /\ remote \in Int /\ head \in Int /\ remote' \in Int /\ head' \in Int
      /\ head <= head' /\ head' <= remote'
  BY HeadMoves DEF HeadsGoOn
<1>t. \A d \in Docs' : headTxt'[d] <= head'
  BY HeadTxtIsPast
<1>1. /\ round \in [Rounders -> Round]
      /\ record \in [state : States, head : Commits \cup {NoHead}]
      /\ settle \in [state : {"none", "current", "error"}, head : Commits \cup {NoHead}]
      /\ Commits \subseteq Nat /\ NoHead \notin Commits /\ NoHead \in Int
      /\ record.head \in Int /\ settle.head \in Int
      /\ \A r \in Rounders : round[r].head \in Int
  <2>1. Commits \subseteq Nat /\ NoHead \notin Commits /\ NoHead \in Int
    BY CommitsAreNumbers DEF TypeOK, Commits, NoHead
  <2>2. /\ round \in [Rounders -> Round]
        /\ record \in [state : States, head : Commits \cup {NoHead}]
        /\ settle \in [state : {"none", "current", "error"}, head : Commits \cup {NoHead}]
    BY DEF TypeOK
  <2>3. record.head \in Commits \cup {NoHead} /\ settle.head \in Commits \cup {NoHead}
    BY <2>2
  <2>4. \A r \in Rounders : round[r].head \in Commits \cup {NoHead}
    BY <2>2
  <2>5. record.head \in Int /\ settle.head \in Int /\ \A r \in Rounders : round[r].head \in Int
    <3>1. \A c \in Commits \cup {NoHead} : c \in Int
      BY <2>1
    <3> QED BY <2>3, <2>4, <3>1
  <2> HIDE DEF Round
  <2> QED BY <2>1, <2>2, <2>3, <2>4, <2>5
<1>2. CASE Push \/ Block \/ Edit \/ WindowEnds
  <2>1. UNCHANGED <<round, record, settle>>
    BY <1>2 DEF Push, Block, Edit, WindowEnds, watch
  <2> QED BY <1>0, <1>t, <1>1, <2>1 DEF HeadsGoOn
<1>3. CASE Judge
  <2>1. /\ UNCHANGED <<round, record>> /\ record.head # NoHead
        /\ settle'.head = record.head /\ settle'.state # "none"
    BY <1>3 DEF Judge
  <2> QED BY <1>0, <1>t, <1>1, <2>1 DEF HeadsGoOn
<1>4. CASE Settle
  <2>1. /\ round' = round /\ settle' = NoWait
        /\ record' \in {record, [record EXCEPT !.state = settle.state]}
    BY <1>1, <1>4 DEF Settle
  <2>2. record'.head = record.head
    BY <1>1, <2>1
  <2>3. NoHead <= head
    BY <1>0, CommitsAreNumbers DEF TypeOK, Commits, NoHead
  <2>4. settle'.head = NoHead /\ NoHead <= head'
    BY <1>0, <1>1, <2>1, <2>3 DEF NoWait
  <2> QED BY <1>0, <1>t, <1>1, <2>1, <2>2, <2>4 DEF HeadsGoOn
<1>5. ASSUME NEW d \in Docs, Rebuild(d) \/ BuildStep(d) PROVE HeadsGoOn'
  <2>1. UNCHANGED <<round, record, settle>>
    BY <1>5 DEF Rebuild, BuildStep, PullAlone, WaitTurn, PullShared, BeginCopy, CopyOn, EndCopy, CopyReads,
       CopyRest, BuildFails, Fault, Skip,
       Publish, WriteHead, EndBuild, watch
  <2> QED BY <1>0, <1>t, <1>1, <2>1 DEF HeadsGoOn
<1>6. ASSUME NEW r \in Rounders, StartRound(r) \/ RoundStep(r) PROVE HeadsGoOn'
  <2>0. settle' = settle /\ \A s \in Rounders \ {r} : round'[s] = round[s]
    <3>1. CASE PullInRound(r)
      <4>1. PICK now \in {head, head', NoHead}, o \in Outcomes :
              round' = [round EXCEPT ![r].step = "release", ![r].head = now, ![r].outcome = o]
        BY <3>1, PullReads
      <4> QED BY <1>1, <3>1, <4>1 DEF PullInRound
    <3>2. CASE ~PullInRound(r)
      BY <1>1, <1>6, <3>2 DEF StartRound, RoundStep, TakeBuildLock, TakePullLock, Defer, Release,
         RecordPull, StartBuild, StartFails, EndRound
    <3> QED BY <3>1, <3>2
  <2>1. CASE StartRound(r) \/ TakeBuildLock(r) \/ TakePullLock(r) \/ Release(r) \/ StartBuild(r)
    <3>1. /\ record' = record
          /\ round'[r].head \in {round[r].head, 0}
      <4>1. CASE StartRound(r)
        BY <1>1, <4>1 DEF StartRound, NoRound
      <4>2. CASE TakeBuildLock(r)
        BY <1>1, <4>2 DEF TakeBuildLock
      <4>3. CASE TakePullLock(r) \/ Release(r)
        BY <1>1, <4>3 DEF TakePullLock, Release
      <4>4. CASE StartBuild(r)
        BY <1>1, <4>4 DEF StartBuild
      <4> QED BY <2>1, <4>1, <4>2, <4>3, <4>4
    <3>2. 0 <= head
      BY <1>1 DEF TypeOK
    <3> QED BY <1>0, <1>t, <1>1, <2>0, <3>1, <3>2 DEF HeadsGoOn
  <2>2. CASE Defer(r) \/ StartFails(r) \/ EndRound(r)
    <3>1. record'.head = record.head /\ round'[r] = NoRound
      BY <1>1, <2>2 DEF Defer, StartFails, EndRound
    <3>2. 0 <= head
      BY <1>1 DEF TypeOK
    <3> QED BY <1>0, <1>t, <1>1, <2>0, <3>1, <3>2 DEF HeadsGoOn, NoRound
  <2>3. CASE PullInRound(r)
    <3>1. record' = record /\ round'[r].head \in {head, head', NoHead}
      <4>1. record' = record
        BY <2>3 DEF PullInRound
      <4>2. PICK now \in {head, head', NoHead}, o \in Outcomes :
              round' = [round EXCEPT ![r].step = "release", ![r].head = now, ![r].outcome = o]
        BY <2>3, PullReads
      <4> QED BY <1>1, <4>1, <4>2
    <3>2. NoHead <= head'
      BY <1>0, CommitsAreNumbers DEF TypeOK, Commits, NoHead
    <3> QED BY <1>0, <1>t, <1>1, <2>0, <3>1, <3>2 DEF HeadsGoOn
  <2>4. CASE RecordPull(r)
    <3>1. record'.head = round[r].head /\ round'[r].head \in {round[r].head, 0}
      BY <1>1, <2>4 DEF RecordPull, NoRound
    <3>2. 0 <= head
      BY <1>1 DEF TypeOK
    <3> QED BY <1>0, <1>t, <1>1, <2>0, <3>1, <3>2 DEF HeadsGoOn
  <2> QED BY <1>6, <2>1, <2>2, <2>3, <2>4 DEF RoundStep
<1> QED BY <1>2, <1>3, <1>4, <1>5, <1>6 DEF Next

-----------------------------------------------------------------------------
(* One document: its builds are of the commit that is checked out *)

LEMMA OneDocument ==
  ASSUME TypeOK, ~setup.several, NEW d \in Docs, NEW e \in Docs
  PROVE  d = e
BY CommitsAreNumbers DEF TypeOK, Docs

LEMMA InitBuilds == Init => BuildsAreOfHead /\ VerdictStands
BY DEF Init, BuildsAreOfHead, Told, PagesReach, VerdictStands, NoBuild, NoWait, NoHead

LEMMA WorldKeepsBuilds ==
  ASSUME BuildsAreOfHead, Push \/ Block \/ Edit \/ WindowEnds \/ Judge \/ Settle
  PROVE  BuildsAreOfHead'
<1>1. UNCHANGED <<setup, head, build, pages, headTxt, failed>>
  BY DEF Push, Block, Edit, WindowEnds, Judge, Settle, docs, tree
<1> QED BY <1>1 DEF BuildsAreOfHead, Told, PagesReach, Docs, Content, IsContent, Commits

(* What a build of the one document does to its pages, head.txt and failed,
   and where it is before and after.                                         *)
LEMMA BuildKeepsBuilds ==
  ASSUME TypeOK, TurnsAreTaken, BuildLocks, HeadsGoOn, BuildsAreOfHead,
         NEW d \in Docs, Rebuild(d) \/ BuildStep(d)
  PROVE  BuildsAreOfHead'
<1> DEFINE Builds == [step : BuildSteps, copied : SUBSET Sources, ok : BOOLEAN]
<1>0. /\ build \in [Docs -> Builds] /\ setup' = setup /\ failed \in [Docs -> BOOLEAN]
      /\ pages \in [Docs -> SUBSET Sources] /\ headTxt \in [Docs -> Commits \cup {NoHead}]
  BY DEF Rebuild, BuildStep, PullAlone, WaitTurn, PullShared, BeginCopy, CopyOn, EndCopy, CopyRest,
     BuildFails, Skip, Publish, WriteHead, EndBuild, TypeOK
<1> SUFFICES ASSUME ~setup.several
             PROVE  /\ build'[d].step \in {"pull", "copy"} => build'[d].copied = {}
                    /\ build'[d].step \in {"copying", "compile"} =>
                         build'[d].copied \subseteq {Edited, Content(head)'}
                    /\ build'[d].step = "head" => pages'[d] \subseteq {Edited, Content(head)'}
                    /\ headTxt'[d] # NoHead => PagesReach(d, headTxt[d])'
                    /\ Told(d)' => pages'[d] \subseteq {Edited, Content(headTxt[d])'}
  BY <1>0, OneDocument DEF BuildsAreOfHead, Docs
<1>1. /\ build[d].step \in {"pull", "copy"} => build[d].copied = {}
      /\ build[d].step \in {"copying", "compile"} => build[d].copied \subseteq {Edited, Content(head)}
      /\ build[d].step = "head" => pages[d] \subseteq {Edited, Content(head)}
      /\ headTxt[d] # NoHead => PagesReach(d, headTxt[d])
      /\ Told(d) => pages[d] \subseteq {Edited, Content(headTxt[d])}
      /\ build[d].step # "pulling"
  BY DEF BuildsAreOfHead, TurnsAreTaken
<1>c. \A c : Content(c)' = Content(c)
  BY <1>0 DEF Content, IsContent, Commits
<1>k. ASSUME UNCHANGED <<pages, headTxt>> PROVE headTxt'[d] # NoHead => PagesReach(d, headTxt[d])'
  BY <1>1, <1>c, <1>k DEF PagesReach
<1>r. ASSUME headTxt[d] # NoHead, NEW k \in {Content(head)} PROVE k >= Content(headTxt[d])
  <2>1. headTxt[d] \in Commits /\ head \in Commits /\ headTxt[d] <= head
    BY <1>0, <1>r DEF TypeOK, HeadsGoOn
  <2>2. Content(headTxt[d]) <= Content(head) /\ Content(head) \in Commits /\ Content(headTxt[d]) \in Commits
    BY <2>1, ContentGoesOn, ContentIs DEF TypeOK
  <2>3. Content(head) \in Int /\ Content(headTxt[d]) \in Int
    BY <2>2, CommitsAreNumbers DEF TypeOK, Commits
  <2> QED BY <2>2, <2>3
<1>2. CASE Rebuild(d)
  <2>1. /\ build[d].step = "idle" /\ UNCHANGED <<pages, headTxt, failed>>
        /\ build' = [build EXCEPT ![d] = [NoBuild EXCEPT !.step = "pull"]]
    BY <1>2 DEF Rebuild, Begin, BuildLocks
  <2>2. build'[d].step = "pull" /\ build'[d].copied = {}
    BY <1>0, <2>1 DEF NoBuild
  <2> QED BY <1>1, <1>c, <1>k, <2>1, <2>2 DEF Told
<1>3. CASE PullAlone(d)
  <2>1. /\ build[d].step = "pull" /\ UNCHANGED <<pages, headTxt, failed>>
        /\ build'[d].step = "copy" /\ build'[d].copied = build[d].copied
    BY <1>0, <1>3 DEF PullAlone, Step
  <2> QED BY <1>1, <1>c, <1>k, <2>1 DEF Told
<1>4. CASE WaitTurn(d) \/ PullShared(d)
  BY <1>1, <1>4 DEF WaitTurn, PullShared, Step
<1>5. CASE BeginCopy(d) \/ CopyOn(d) \/ EndCopy(d)
  <2>1. PICK to \in {"copying", "compile"} :
          build' = [build EXCEPT ![d].step = to, ![d].copied = build[d].copied \cup {InTree}]
    BY <1>0, <1>5 DEF BeginCopy, CopyOn, EndCopy, CopyReads
  <2>2. build[d].step \in {"copy", "copying"} /\ UNCHANGED <<pages, headTxt, failed, head>>
    BY <1>5 DEF BeginCopy, CopyOn, EndCopy, CopyRest, tree
  <2>3. build'[d].step = to /\ build'[d].copied = build[d].copied \cup {InTree}
    BY <1>0, <2>1
  <2>4. build'[d].copied \subseteq {Edited, Content(head)'}
    BY <1>1, <1>c, <2>2, <2>3, InTreeIs
  <2> QED BY <1>1, <1>c, <1>k, <2>2, <2>3, <2>4 DEF Told
<1>7. CASE BuildFails(d)
  <2>1. /\ UNCHANGED <<pages, headTxt>> /\ build'[d].step = "end" /\ build'[d].ok = FALSE
    BY <1>0, <1>7 DEF BuildFails
  <2> QED BY <1>1, <1>c, <1>k, <2>1 DEF Told
<1>8. CASE Skip(d) \/ Publish(d)
  <2>1. /\ build[d].step = "compile" /\ UNCHANGED <<headTxt, head>>
        /\ build'[d].step = "head" /\ pages'[d] = build[d].copied
    BY <1>0, <1>8 DEF Skip, Publish, Step, tree
  <2>2. pages'[d] \subseteq {Edited, Content(head)}
    BY <1>1, <2>1
  <2>3. headTxt'[d] # NoHead => PagesReach(d, headTxt[d])'
    BY <1>c, <1>r, <2>1, <2>2 DEF PagesReach
  <2> QED BY <1>c, <2>1, <2>2, <2>3 DEF Told
<1>9. CASE WriteHead(d)
  <2>1. /\ build[d].step = "head" /\ UNCHANGED <<pages, head>>
        /\ build'[d].step = "end" /\ headTxt'[d] \in {head, NoHead}
    BY <1>0, <1>9 DEF WriteHead, tree
  <2>2. headTxt'[d] # NoHead => pages'[d] \subseteq {Edited, Content(headTxt[d])'}
    BY <1>1, <1>c, <2>1
  <2>3. headTxt'[d] # NoHead => Content(head) \in Int
    BY ContentIs, CommitsAreNumbers DEF TypeOK, Commits
  <2>4. headTxt'[d] # NoHead => PagesReach(d, headTxt[d])'
    BY <1>c, <2>1, <2>2, <2>3 DEF PagesReach
  <2> QED BY <2>1, <2>2, <2>4 DEF Told
<1>10. CASE EndBuild(d)
  <2>1. /\ build[d].step = "end" /\ UNCHANGED <<pages, headTxt>>
        /\ build'[d].step = "idle" /\ failed'[d] = ~build[d].ok
    BY <1>0, <1>10 DEF EndBuild, NoBuild
  <2> QED BY <1>1, <1>c, <1>k, <2>1 DEF Told
<1> QED BY <1>2, <1>3, <1>4, <1>5, <1>7, <1>8, <1>9, <1>10 DEF BuildStep

LEMMA RoundKeepsBuilds ==
  ASSUME TypeOK, LocksAreHeld, BuildsAreOfHead, NEW r \in Rounders, StartRound(r) \/ RoundStep(r)
  PROVE  BuildsAreOfHead'
<1> USE DEF RoundAt
<1>0. setup' = setup /\ UNCHANGED <<pages, headTxt>>
  BY DEF StartRound, RoundStep, TakeBuildLock, TakePullLock, Defer, PullInRound, Release, RecordPull,
     StartBuild, StartFails, EndRound, docs
<1>c. /\ \A c : Content(c)' = Content(c)
      /\ Docs' = Docs /\ \A d \in Docs : PagesReach(d, headTxt[d])' <=> PagesReach(d, headTxt[d])
  BY <1>0 DEF Content, IsContent, Commits, PagesReach, Docs
<1>1. CASE PullInRound(r)
  <2>1. UNCHANGED <<build, failed>> /\ \A d \in Docs : build[d].step = "idle"
    BY <1>1, RoundHasThemAll DEF PullInRound, docs, NoBuild
  <2> QED BY <1>0, <1>c, <2>1 DEF BuildsAreOfHead, Told
<1>2. CASE StartBuild(r)
  <2> DEFINE n == round[r].next
  <2>1. UNCHANGED <<head, failed>> /\ n \in Docs /\ (Begin(n) \/ build' = build)
    BY <1>2 DEF StartBuild, tree
  <2>2. \A d \in Docs : \/ build'[d] = build[d]
                        \/ build'[d].step = "pull" /\ build'[d].copied = {} /\ build[d].step = "idle"
    <3>1. CASE Begin(n)
      BY <2>1, <3>1 DEF Begin, NoBuild, TypeOK, LocksAreHeld, BuildLocks
    <3> QED BY <2>1, <3>1
  <2> HIDE DEF n
  <2> QED BY <1>0, <1>c, <2>1, <2>2 DEF BuildsAreOfHead, Told
<1>3. CASE StartFails(r)
  <2>1. UNCHANGED <<head, build>> /\ \E d \in Docs : failed' = [failed EXCEPT ![d] = TRUE]
    BY <1>3 DEF StartFails, tree
  <2>2. \A d \in Docs : failed'[d] = failed[d] \/ failed'[d] = TRUE
    BY <2>1 DEF TypeOK
  <2> QED BY <1>0, <1>c, <2>1, <2>2 DEF BuildsAreOfHead, Told
<1>4. CASE ~(PullInRound(r) \/ StartBuild(r) \/ StartFails(r))
  <2>1. UNCHANGED <<head, build, failed>>
    BY <1>4 DEF StartRound, RoundStep, TakeBuildLock, TakePullLock, Defer, Release, RecordPull, EndRound, docs,
       tree
  <2> QED BY <1>0, <1>c, <2>1 DEF BuildsAreOfHead, Told
<1> QED BY <1>1, <1>2, <1>3, <1>4

-----------------------------------------------------------------------------
(* A verdict stays true *)

(* What a poll that finds every document built knows of the pages.           *)
LEMMA JudgedCurrent ==
  ASSUME TypeOK, BuildsAreOfHead, ~setup.several,
         Judge, settle'.state = "current"
  PROVE  \A d \in Docs : PagesReach(d, record.head)
<1> SUFFICES ASSUME NEW d \in Docs PROVE PagesReach(d, record.head)
  OBVIOUS
<1>1. Pending(record.head) = {} /\ record.head # NoHead
  BY DEF Judge
<1>2. headTxt[d] = record.head
  BY <1>1 DEF Pending, Behind
<1> QED BY <1>1, <1>2 DEF BuildsAreOfHead

LEMMA VerdictsStay ==
  ASSUME TypeOK, HeadsGoOn, BuildsAreOfHead, VerdictStands, Next
  PROVE  VerdictStands'
<1>0. setup' = setup
  BY HeadMoves
<1>c. \A c : Content(c)' = Content(c)
  BY <1>0 DEF Content, IsContent, Commits
<1>n. \A c \in Commits : Content(c) \in Commits /\ Content(c) \in Int
  <2>1. \A c \in Commits : Content(c) \in Commits
    BY ContentIs DEF TypeOK
  <2> QED BY <2>1, CommitsAreNumbers DEF TypeOK, Commits
<1> SUFFICES ASSUME ~setup.several, settle'.state = "current", NEW d \in Docs
             PROVE  PagesReach(d, settle.head)'
  BY <1>0 DEF VerdictStands, Docs
<1>2. ASSUME pages'[d] = pages[d], settle' = settle PROVE PagesReach(d, settle.head)'
  BY <1>c, <1>2 DEF VerdictStands, PagesReach
<1>3. CASE Push \/ Block \/ Edit \/ WindowEnds
  BY <1>2, <1>3 DEF Push, Block, Edit, WindowEnds, docs, watch
<1>4. CASE Judge
  <2>1. settle'.head = record.head /\ pages' = pages
    BY <1>4 DEF Judge, docs
  <2>2. PagesReach(d, record.head)
    BY <1>4, JudgedCurrent
  <2> QED BY <1>c, <2>1, <2>2 DEF PagesReach
<1>5. CASE Settle
  BY <1>5 DEF Settle, NoWait
<1>6. ASSUME NEW e \in Docs, Rebuild(e) \/ BuildStep(e) PROVE PagesReach(d, settle.head)'
  <2>0. e = d /\ settle' = settle
    BY <1>6, OneDocument DEF Rebuild, BuildStep, PullAlone, WaitTurn, PullShared, BeginCopy, CopyOn, EndCopy,
       CopyRest, BuildFails, Skip, Publish, WriteHead, EndBuild, watch
  <2>1. CASE Publish(e)
    <3>1. pages'[d] \subseteq {Edited, Content(head)}
      BY <2>0, <2>1 DEF Publish, Step, BuildsAreOfHead, TypeOK
    <3>2. settle.head \in Commits /\ head \in Commits /\ settle.head <= head
      BY <2>0 DEF TypeOK, HeadsGoOn, NoWait
    <3>3. Content(settle.head) <= Content(head)
      BY <3>2, ContentGoesOn DEF TypeOK
    <3> QED BY <1>c, <1>n, <2>0, <3>1, <3>2, <3>3 DEF PagesReach
  <2>2. CASE ~Publish(e)
    BY <1>2, <1>6, <2>0, <2>2 DEF Rebuild, BuildStep, PullAlone, WaitTurn, PullShared, BeginCopy, CopyOn,
       EndCopy,
       CopyRest, BuildFails, Skip, WriteHead, EndBuild
  <2> QED BY <2>1, <2>2
<1>7. ASSUME NEW r \in Rounders, StartRound(r) \/ RoundStep(r) PROVE PagesReach(d, settle.head)'
  <2>1. UNCHANGED <<pages, settle>>
    BY <1>7 DEF StartRound, RoundStep, TakeBuildLock, TakePullLock, Defer, PullInRound, Release, RecordPull,
       StartBuild, StartFails, EndRound, docs
  <2> QED BY <1>2, <2>1
<1> QED BY <1>3, <1>4, <1>5, <1>6, <1>7 DEF Next

-----------------------------------------------------------------------------
(* The theorems *)

LEMMA SyncInvStays ==
  ASSUME SyncInv, [Next]_vars
  PROVE  SyncInv'
<1>1. CASE Next
  <2>1. TypeOK'
    BY <1>1, WorldTypes, BuildTypes, RoundTypes DEF SyncInv, Next
  <2>2. LocksAreHeld'
    BY <1>1, WorldKeepsLocks, BuildKeepsLocks, RoundKeepsLocks DEF SyncInv, Next
  <2>3. HeadsGoOn'
    BY <1>1, HeadsStayPast DEF SyncInv
  <2>4. BuildsAreOfHead'
    BY <1>1, WorldKeepsBuilds, BuildKeepsBuilds, RoundKeepsBuilds DEF SyncInv, LocksAreHeld, Next
  <2>5. VerdictStands'
    BY <1>1, VerdictsStay DEF SyncInv, LocksAreHeld
  <2> QED BY <2>1, <2>2, <2>3, <2>4, <2>5 DEF SyncInv
<1>2. CASE UNCHANGED vars
  BY <1>2 DEF vars, SyncInv, TypeOK, LocksAreHeld, BuildLocks, RoundLocks, TurnsAreTaken, Holding, Pulling,
     HeadsGoOn, BuildsAreOfHead, Told, PagesReach, VerdictStands, Docs, Commits, Sources, Content, IsContent
<1> QED BY <1>1, <1>2

THEOREM SyncInvHolds == Spec => []SyncInv
<1>1. Init => SyncInv
  BY InitTypes, InitLocks, InitHeads, InitBuilds DEF SyncInv
<1> QED BY <1>1, SyncInvStays, PTL DEF Spec

(* Whatever builds, rounds, pushes, edits of the tree and polls do, and for  *)
(* any number of commits and faults, where one document is served and no     *)
(* build of it runs: what its pages show of any commit is at least as new as *)
(* head.txt says, and exactly of that commit unless the last build failed.   *)
(* What they show of edits head.txt does not tell.                           *)
THEOREM SyncStateAlwaysHolds == Spec => []SyncStateHolds
<1>1. SyncInv => SyncStateHolds
  <2> SUFFICES ASSUME SyncInv, ~setup.several, NEW d \in Docs, docLock[d] # "build", headTxt[d] # NoHead,
                      NEW k \in pages[d] \ {Edited}
               PROVE  k >= Content(headTxt[d]) /\ (~failed[d] => k = Content(headTxt[d]))
    BY DEF SyncInv, SyncStateHolds, HeadTellsPages, HeadIsOfPages
  <2>1. build[d].step = "idle"
    BY DEF SyncInv, LocksAreHeld, BuildLocks, TypeOK
  <2>2. PagesReach(d, headTxt[d]) /\ (~failed[d] => pages[d] \subseteq {Edited, Content(headTxt[d])})
    BY <2>1 DEF SyncInv, BuildsAreOfHead, Told
  <2> QED BY <2>2 DEF PagesReach
<1> QED BY <1>1, SyncInvHolds, PTL

(* A round fast-forwards only when it holds every build lock and nothing is  *)
(* built; where one document is served no pull moves the tree under a copy;  *)
(* and a poll writes "current" only when what the pages show of any commit   *)
(* is at least as new as the commit the round pulled.                        *)
THEOREM RoundsAlwaysKeepFaith == Spec => RoundsKeepFaith
<1>1. ASSUME SyncInv, NEW r \in Rounders, PullInRound(r)
      PROVE  \A d \in Docs : build[d] = NoBuild /\ docLock[d] = r
  BY <1>1, RoundHasThemAll DEF SyncInv, PullInRound, RoundAt
<1>2. ASSUME SyncInv, Next, ~setup.several, head' # head
      PROVE  \A d \in Docs : build[d].step # "copying"
  <2>1. ASSUME NEW e \in Docs, Rebuild(e) \/ BuildStep(e) PROVE PullAlone(e) \/ PullShared(e)
    BY <1>2, <2>1 DEF Rebuild, BuildStep, WaitTurn, BeginCopy, CopyOn, EndCopy, CopyReads, CopyRest,
       BuildFails, Fault, Skip, Publish, WriteHead,
       EndBuild, tree
  <2>2. ASSUME NEW e \in Docs, PullAlone(e) \/ PullShared(e) PROVE \A d \in Docs : build[d].step # "copying"
    BY <1>2, <2>2, OneDocument DEF SyncInv, PullAlone, PullShared, Step
  <2>3. ASSUME NEW r \in Rounders, StartRound(r) \/ RoundStep(r) PROVE PullInRound(r)
    BY <1>2, <2>3 DEF StartRound, RoundStep, TakeBuildLock, TakePullLock, Defer, Release, RecordPull,
       StartBuild,
       StartFails, EndRound, tree
  <2>4. ~(Push \/ Block \/ Edit \/ WindowEnds \/ Judge \/ Settle)
    BY <1>2 DEF Push, Block, Edit, WindowEnds, Judge, Settle, tree
  <2> QED BY <1>1, <1>2, <2>1, <2>2, <2>3, <2>4 DEF Next, NoBuild
<1>3. ASSUME SyncInv, ~setup.several, Settle, record.state = "updating", record'.state = "current"
      PROVE  /\ record.head # NoHead
             /\ \A d \in Docs : \A k \in pages[d] \ {Edited} : k >= Content(record.head)
  <2>1. settle.state = "current" /\ record.head = settle.head
    BY <1>3 DEF Settle, SyncInv, TypeOK
  <2>2. record.head # NoHead
    BY <1>3, <2>1 DEF Settle, SyncInv, HeadsGoOn
  <2>3. \A d \in Docs : \A k \in pages[d] \ {Edited} : k >= Content(record.head)
    BY <1>3, <2>1 DEF SyncInv, VerdictStands, PagesReach
  <2> QED BY <2>2, <2>3
<1>4. SyncInv /\ [Next]_vars =>
        [/\ \A r \in Rounders : PullInRound(r) => \A d \in Docs : build[d] = NoBuild /\ docLock[d] = r
         /\ ~setup.several /\ head' # head => \A d \in Docs : build[d].step # "copying"]_vars
  BY <1>1, <1>2
<1>5. SyncInv /\ [Next]_vars =>
        [~setup.several /\ Settle /\ record.state = "updating" /\ record'.state = "current" =>
           /\ record.head # NoHead
           /\ \A d \in Docs : \A k \in pages[d] \ {Edited} : k >= Content(record.head)]_vars
  BY <1>3
<1>6. Spec => TreeStillWhileCopying
  BY <1>4, SyncInvHolds, PTL DEF Spec, TreeStillWhileCopying
<1>7. Spec => SettledMeansBuilt
  BY <1>5, SyncInvHolds, PTL DEF Spec, SettledMeansBuilt
<1> QED BY <1>6, <1>7 DEF RoundsKeepFaith

-----------------------------------------------------------------------------
(* BuildReaders: names, folders and what is recorded of them *)

Texts12 == Texts \cup {1, 2}
(* The number of the last build that may have its name.                     *)
LastNamed == IF job.pc \in {"make", "name"} THEN used.builds - 1 ELSE used.builds
(* The second s is one of builds 1..n, or of two of them.                   *)
IsOf(s, n) == \E k \in 1..n : s = Second(k)
Twice(s, n) == \E k \in 2..n : s = Second(k) /\ s = Second(k - 1)

(* A build's name: its second, and a number other than 0 only where the build
   before it had the same second (_publish_pages).                          *)
IsName(f, n) ==
    /\ f = <<f[1], f[2]>> /\ f[1] \in Nat \ {0} /\ f[2] \in Nat
    /\ IsOf(f[1], n) /\ (f[2] = 0 \/ Twice(f[1], n))

(* The build under way is on screen, and has yet to be dated or recorded.   *)
Shown == job.pc \in {"prune", "date", "head", "baseline"} \/ (job.pc = "record" /\ job.new # None)

(* What _run and _publish_pages hold between two of their steps: from the swap
   on the newest name there is, then the screen, with the folder left behind. *)
JobInv ==
    /\ "pc" \in DOMAIN job
    /\ job.pc \in {"startup", "none", "make", "name", "swap", "prune", "date", "head", "baseline", "record"}
    /\ job.pc \notin {"startup", "none"} => /\ bstate.state = "running"
                                           /\ used.builds \in 1..Limits[kind].builds
    /\ job.pc \in {"startup", "none"} => bstate.state # "running"
    /\ job.pc = "none" => job = NoJob
    /\ job.pc = "startup" =>
          /\ read = NoRead /\ DOMAIN hist.by = {} /\ cur = None
          /\ Legacy \in Folders => /\ page[Legacy].time = 1 /\ known.of[Legacy] = 1 /\ Legacy \in known.shown
                                  /\ base \in {None, 1} /\ src.at # 0 /\ (src.at <= 1 => src.text = 1)
    /\ job.pc \in {"make", "name", "swap"} => "at" \in DOMAIN job /\ job.at \in Nat
    /\ job.pc \in {"name", "swap"} =>
          /\ {"at", "of", "time"} \subseteq DOMAIN job
          /\ job.of \in Texts12 /\ job.time \in Nat
    /\ job.pc = "record" => "new" \in DOMAIN job
    /\ job.pc = "swap" \/ Shown =>
          /\ {"at", "of", "time", "new"} \subseteq DOMAIN job
          /\ job.at \in Nat /\ job.of \in Texts12 /\ job.time \in Nat
          /\ job.new \in Folders /\ job.new # None /\ job.new # Legacy
          /\ page[job.new].of = job.of /\ page[job.new].time = job.time
          /\ \A f \in DOMAIN known.of \ {job.new} : Older(f, job.new)
    /\ job.pc = "swap" => CurPages # job.new
    /\ Shown => cur = job.new
    /\ job.pc = "prune" => "prev" \in DOMAIN job /\ job.prev = known.before

(* Every name, of a folder there is or was, was given in its build's second; a
   name whose folder is gone is of a build before the last one.             *)
NamesInv ==
    /\ \A f \in DOMAIN known.of : f = Legacy \/ IsName(f, LastNamed)
    /\ \A f \in DOMAIN known.of \ Folders : f = Legacy \/ IsOf(f[1], LastNamed - 1)
    /\ job.pc = "swap" \/ Shown =>
          \A f \in DOMAIN known.of \ {job.new} : f = Legacy \/ IsOf(f[1], used.builds - 1)
    /\ Folders \cup DOMAIN hist.by \cup known.shown \subseteq DOMAIN known.of
    /\ cur # None => cur \in Folders /\ cur \in known.shown
    /\ kind # "latex" => Legacy \notin DOMAIN known.of
    /\ \A f \in DOMAIN known.of : known.of[f] \in Texts12

Whole(f) == f = Legacy \/ page[f].files = Files

(* A folder is of the text it was made of, and whole, unless it is being removed. *)
FilesInv ==
    /\ \A f \in Folders :
          /\ page[f] = [of |-> page[f].of, time |-> page[f].time, files |-> page[f].files]
          /\ page[f].of = known.of[f] /\ page[f].time \in Nat
          /\ Whole(f) \/ (job.pc = "prune" /\ f \in Doomed)
    /\ CurPages \in Folders => "images" \in page[CurPages].files

(* The folder shown before is the one there is of those older.              *)
ScreenInv ==
    /\ \A f \in Folders : Older(f, CurPages) /\ job.pc # "prune" => f = known.before
    /\ known.before \in DOMAIN known.of \cup {Legacy}
    /\ known.before \in Folders /\ kind # "latex" => Older(known.before, CurPages)

(* No recorded time is ahead of the build it is about: neither the baseline nor
   an entry of the history.                                                 *)
TimesInv ==
    /\ src.at \in Nat /\ src.text \in Texts12
    /\ base # None => /\ base \in Nat /\ base <= src.at
                      /\ job.pc \in {"name", "swap"} => base <= job.time
                      /\ CurPages \in Folders => base <= page[CurPages].time
    /\ job.pc \in {"make", "name", "swap"} \/ Shown => job.at <= src.at
    /\ job.pc \in {"name", "swap"} \/ Shown => job.at <= job.time /\ job.time <= src.at
    /\ \A f \in DOMAIN hist.by : f \in Folders /\ hist.by[f].at # None => hist.by[f].at <= page[f].time

(* A build without a hash is the legacy one, of a source edited since.      *)
HistInv ==
    /\ hist.seq \in Nat /\ bstate.seq \in Nat
    /\ \A f \in DOMAIN hist.by : hist.by[f].hash \in {None, known.of[f]} /\ hist.by[f].at \in Nat \cup {None}
    /\ \A f \in DOMAIN hist.by : f # Legacy => hist.by[f].hash # None
    /\ Legacy \in DOMAIN hist.by /\ hist.by[Legacy].hash = None =>
          /\ hist.by[Legacy].at \in {None, 1} /\ src.at > 1
          /\ job.pc \in {"make", "name", "swap"} \/ Shown => job.at > 1
          /\ \A f \in DOMAIN hist.by \ {Legacy} : hist.by[f].at # None => hist.by[f].at > 1

(* What a cache keeps for a name is of that name's text.                    *)
CachesInv ==
    /\ \A i \in DOMAIN maps : maps[i].build \in DOMAIN known.of /\ maps[i].of = known.of[maps[i].build]
    /\ \A url \in DOMAIN browser : url[1] \in DOMAIN known.of /\ browser[url] = known.of[url[1]]

(* The records have their fields.                                           *)
ShapesInv ==
    /\ kind \in Kinds /\ used.builds \in Nat
    /\ known = [of |-> known.of, before |-> known.before, shown |-> known.shown]
    /\ hist = [seq |-> hist.seq, by |-> hist.by]
    /\ bstate = [state |-> bstate.state, seq |-> bstate.seq]
    /\ src = [text |-> src.text, at |-> src.at]
    /\ used = [writes |-> used.writes, builds |-> used.builds, reads |-> used.reads, mishaps |-> used.mishaps]
    /\ maps \in Seq([build : Nat \X Nat, time : Nat, of : Texts12])

BuildsInv == ShapesInv /\ JobInv /\ NamesInv /\ FilesInv /\ ScreenInv /\ TimesInv /\ HistInv /\ CachesInv

-----------------------------------------------------------------------------
(* A read under way *)

Has0 == {"op", "pc", "moved", "early", "lost"}

(* A read's record: it was overtaken by no swap, or says so, and knows the
   folders that were taken from it.                                         *)
ReadShape ==
    /\ Has0 \subseteq DOMAIN read /\ read.moved \in BOOLEAN /\ read.early \in BOOLEAN
    /\ read.op \in {"meta", "pick", "url", "position", "overlay", "companion"}
    /\ \A f \in Folders : f \in read.lost \/ Whole(f)
    /\ Undisturbed => job.pc \notin {"prune", "date", "head", "baseline"}

MetaSame == read.seq = bstate.seq /\ read.state # "running" /\ ~Publishing

(* /api/meta: while no build came between, what was read is of the screen.  *)
MetaInv ==
    /\ {"seq", "state"} \subseteq DOMAIN read
    /\ read.pc \in {"pages", "stale", "heading", "facts", "answered"}
    /\ read.pc \in {"stale", "heading", "facts", "answered"} => "build" \in DOMAIN read
    /\ read.pc \in {"heading", "facts", "answered"} => {"stale", "srcAt"} \subseteq DOMAIN read
    /\ read.pc \in {"facts", "answered"} => "dated" \in DOMAIN read
    /\ read.seq \in Nat /\ read.seq <= bstate.seq
    /\ MetaSame =>
          /\ read.pc \in {"stale", "heading", "facts", "answered"} => read.build = CurPages
          /\ read.pc \in {"heading", "facts", "answered"} /\ kind = "latex" /\ CurPages \in Folders /\ ~read.stale
                => read.srcAt - page[CurPages].time <= 2
          /\ read.pc \in {"facts", "answered"} => read.dated = dated

(* A pick works on the folder its tab named, or on one there was, and the
   region it found is of that folder's text.                                *)
PickInv ==
    /\ {"want", "page", "build", "text"} \subseteq DOMAIN read
    /\ read.pc \in {"dir", "pdf", "map", "trace", "answered"}
    /\ read.pc \in {"map", "trace"} => {"copy", "region"} \subseteq DOMAIN read
    /\ read.page \in Nat \ {0} /\ read.want \in Named
    /\ read.pc = "dir" => read.want = None \/ read.want \in Folders \/ read.want \in read.lost
    /\ read.pc \in {"pdf", "map", "trace"} =>
          /\ read.build # None /\ (read.build \in Folders \/ read.build \in read.lost)
          /\ read.want \in {None, read.build} \/ read.want \in read.lost
    /\ read.pc \in {"map", "trace"} /\ read.build \notin read.lost =>
          /\ read.copy => Has(read.build, "pdf")
          /\ kind = "figure" => read.region = known.of[read.build]

(* A URL that names a build is answered from that build.                    *)
UrlInv ==
    /\ {"want", "build", "file", "text"} \subseteq DOMAIN read
    /\ read.pc \in {"bytes", "answered"} /\ read.want \in Named
    /\ read.pc = "bytes" => read.want \in {None, read.build}

(* Two entries of one source are two builds of one text (SameSource).       *)
SameMeansSame(by) ==
    /\ DOMAIN by \subseteq DOMAIN known.of
    /\ \A f, g \in DOMAIN by : SameSource(by[f], by[g]) => known.of[f] = known.of[g]

(* A pin list compares the entries of one reading of the history.           *)
PositionInv ==
    /\ "build" \in DOMAIN read /\ read.pc \in {"history", "baseline", "answered"}
    /\ read.pc \in {"baseline", "answered"} => "by" \in DOMAIN read /\ SameMeansSame(read.by)

(* The changes view: the folders it listed are there, with the one shown before
   among them, unless a build came between.                                 *)
OverlayInv ==
    /\ kind = "figure" /\ read.pc \in {"list", "previous", "answered"}
    /\ read.pc = "previous" => /\ "names" \in DOMAIN read
                               /\ Undisturbed => /\ \A f \in read.names : Older(f, CurPages) => f \in Folders
                                                 /\ known.before \in Folders => known.before \in read.names

(* A companion is asked of the build named, or of the screen.               *)
CompanionInv ==
    /\ {"want", "build", "text"} \subseteq DOMAIN read /\ read.pc \in {"read", "answered"}
    /\ read.want \in Named /\ kind # "pdf"
    /\ read.want \in {None, read.build}

(* The read under way, by what it is for.                                   *)
ReadInv ==
  read # NoRead =>
    /\ ReadShape
    /\ read.op = "meta" => MetaInv
    /\ read.op = "pick" => PickInv
    /\ read.op = "url" => UrlInv
    /\ read.op = "position" => PositionInv
    /\ read.op = "overlay" => OverlayInv
    /\ read.op = "companion" => CompanionInv

(* The builds, the read under way, and what the answers promise.            *)
ReadersInv == BuildsInv /\ ReadInv /\ ReadsAreOfOneBuild /\ BuildsStayApart

-----------------------------------------------------------------------------
(* The operators the model is built from *)

(* A function laid over another, at every argument.                         *)
LEMMA WithIs ==
  ASSUME NEW f, NEW g
  PROVE  /\ DOMAIN With(f, g) = DOMAIN f \cup DOMAIN g
         /\ \A x \in DOMAIN g : With(f, g)[x] = g[x]
         /\ \A x \in DOMAIN f : x \notin DOMAIN g => With(f, g)[x] = f[x]
BY DEF With

LEMMA OnlyIs ==
  ASSUME NEW x, NEW y
  PROVE  DOMAIN Only(x, y) = {x} /\ Only(x, y)[x] = y
BY DEF Only

LEMMA WithOnly ==
  ASSUME NEW f, NEW x, NEW y
  PROVE  /\ DOMAIN With(f, Only(x, y)) = DOMAIN f \cup {x}
         /\ With(f, Only(x, y))[x] = y
         /\ \A z \in DOMAIN f : z # x => With(f, Only(x, y))[z] = f[z]
BY DEF With, Only

(* A folder's name.                                                         *)
IsPair(f) == f = <<f[1], f[2]>> /\ f[1] \in Nat /\ f[2] \in Nat

(* The names are ordered by their seconds, then their numbers.              *)
LEMMA OlderIsOrder ==
  ASSUME NEW f, IsPair(f), NEW g, IsPair(g)
  PROVE  /\ Older(f, g) => ~Older(g, f) /\ f # g
         /\ f # g => Older(f, g) \/ Older(g, f)
<1> DEFINE a == f[1]  b == f[2]  c == g[1]  d == g[2]
<1>1. a \in Nat /\ b \in Nat /\ c \in Nat /\ d \in Nat BY DEF IsPair
<1>2. f # g => a # c \/ b # d BY DEF IsPair
<1>3. (Older(f, g) <=> (a < c \/ (a = c /\ b < d))) /\ (Older(g, f) <=> (c < a \/ (c = a /\ d < b)))
  BY DEF Older
<1>4. f = g => a = c /\ b = d OBVIOUS
<1> HIDE DEF a, b, c, d
<1> QED BY <1>1, <1>2, <1>3, <1>4

LEMMA OlderGoesOn ==
  ASSUME NEW f, IsPair(f), NEW g, IsPair(g), NEW h, IsPair(h), Older(f, g), Older(g, h)
  PROVE  Older(f, h)
BY DEF Older, IsPair

(* The old layout's folder comes before every name.                         *)
LEMMA LegacyIsFirst ==
  /\ IsPair(Legacy) /\ \A f : IsPair(f) => ~Older(f, Legacy)
  /\ \A f : IsPair(f) /\ f # Legacy => Older(Legacy, f)
<1>1. IsPair(Legacy) BY DEF IsPair, Legacy
<1>2. ASSUME NEW f, IsPair(f) PROVE ~Older(f, Legacy) BY <1>2 DEF IsPair, Legacy, Older
<1> QED BY <1>1, <1>2, OlderIsOrder

LEMMA TextsAreSome == \A t \in Texts12 : t # None
BY BuildReadersAssumption DEF Texts12

LEMMA PairsAreSome == \A f : IsPair(f) => f # None /\ f \in Nat \X Nat
<1>1. ASSUME NEW f, IsPair(f) PROVE f \in Nat \X Nat
  <2>1. <<f[1], f[2]>> \in Nat \X Nat BY <1>1 DEF IsPair
  <2> QED BY <1>1, <2>1 DEF IsPair
<1> QED BY <1>1, BuildReadersAssumption

(* What is known of is a name, and so is what is on screen.                 *)
LEMMA KnownArePairs ==
  ASSUME NamesInv
  PROVE  /\ \A f \in DOMAIN known.of : IsPair(f) /\ f # None
         /\ IsPair(CurPages) /\ CurPages # None /\ None \notin Folders
<1>1. \A f \in DOMAIN known.of : IsPair(f)
  BY LegacyIsFirst DEF NamesInv, IsName, IsPair
<1>2. IsPair(CurPages) BY <1>1, LegacyIsFirst DEF CurPages, NamesInv
<1> QED BY <1>1, <1>2, PairsAreSome DEF NamesInv

-----------------------------------------------------------------------------
(* The name of a new build *)

(* Min and Max of the library, where they are used.                         *)
LEMMA LeastIs ==
  ASSUME NEW S, S \subseteq Nat, NEW m \in S, \A j \in S : m <= j
  PROVE  Min(S) = m
<1>1. \E x \in S : \A y \in S : x <= y OBVIOUS
<1>2. Min(S) \in S /\ \A y \in S : Min(S) <= y BY <1>1 DEF Min
<1>3. Min(S) <= m /\ m <= Min(S) /\ Min(S) \in Nat /\ m \in Nat BY <1>2
<1> HIDE DEF Min
<1> QED BY <1>3

LEMMA GreaterOfTwo ==
  ASSUME NEW a \in Nat, NEW b \in Nat
  PROVE  Max({a, b}) \in Nat /\ a <= Max({a, b}) /\ b <= Max({a, b})
<1>1. \E x \in {a, b} : \A y \in {a, b} : x >= y
  <2>1. CASE a <= b
    <3>1. b >= a /\ b >= b BY <2>1
    <3> QED BY <3>1
  <2>2. CASE b <= a
    <3>1. a >= b /\ a >= a BY <2>2
    <3> QED BY <3>1
  <2> QED BY <2>1, <2>2
<1>2. Max({a, b}) \in {a, b} /\ \A y \in {a, b} : Max({a, b}) >= y BY <1>1 DEF Max
<1>3. Max({a, b}) \in Nat /\ Max({a, b}) >= a /\ Max({a, b}) >= b BY <1>2
<1> QED BY <1>3

(* The seconds of the builds up to the one under way.                       *)
InTime(n) ==
    /\ n \in Nat /\ \A k \in 1..n : Second(k) \in Nat \ {0} /\ Second(k) <= Second(n)
    /\ \A k \in 1..(n - 2) : Second(k) < Second(n)

(* Local time is not set back: a build's second is no build's after it.     *)
LEMMA TimeIs ==
  ASSUME SecondsGoOn, kind \in Kinds, NEW n \in 1..Limits[kind].builds
  PROVE  InTime(n)
<1>1. \A j, k \in 1..Limits[kind].builds :
         /\ Second(k) \in Nat \ {0}
         /\ j < k => Second(j) <= Second(k)
         /\ j + 1 < k => Second(j) < Second(k)
  BY DEF SecondsGoOn
<1>2. Limits[kind].builds \in Nat BY BuildReadersAssumption
<1>3. ASSUME NEW k \in 1..n
      PROVE  /\ Second(k) \in Nat \ {0} /\ Second(k) <= Second(n)
             /\ k <= n - 2 => Second(k) < Second(n)
  <2>1. k \in 1..Limits[kind].builds /\ k \in Nat /\ n \in Nat BY <1>2
  <2>2. Second(k) \in Nat \ {0} /\ Second(n) \in Nat \ {0} BY <1>1, <2>1
  <2>3. k < n => Second(k) <= Second(n) BY <1>1, <2>1
  <2>4. k + 1 < n => Second(k) < Second(n) BY <1>1, <2>1
  <2>5. k = n => Second(k) <= Second(n) BY <2>2
  <2> QED BY <2>1, <2>2, <2>3, <2>4, <2>5
<1>4. n \in Nat BY <1>2
<1>5. \A k \in 1..(n - 2) : k \in 1..n /\ k <= n - 2 BY <1>4
<1> QED BY <1>3, <1>4, <1>5 DEF InTime

(* The name given to a build was never given before, and comes after them all. *)
LEMMA NewNameIs ==
  ASSUME SecondsGoOn, ShapesInv, JobInv, NamesInv, job.pc = "name"
  PROVE  /\ IsName(NewName, used.builds) /\ IsPair(NewName)
         /\ NewName \notin DOMAIN known.of /\ NewName # None /\ NewName # Legacy
         /\ \A f \in DOMAIN known.of : Older(f, NewName)
<1> DEFINE n == used.builds
           s == Second(n)
           free == {i \in 0..Limits[kind].builds : <<s, i>> \notin Folders \cup DOMAIN hist.by}
<1>1. n \in 1..Limits[kind].builds /\ kind \in Kinds /\ LastNamed = n - 1
  BY DEF ShapesInv, JobInv, LastNamed
<1>2. Limits[kind].builds \in Nat BY <1>1, BuildReadersAssumption
<1>3. InTime(n) BY <1>1, TimeIs
<1>4. n \in Nat /\ n \in 1..n BY <1>1, <1>2
<1>5. s \in Nat \ {0} BY <1>3, <1>4 DEF InTime
<1>6. ~IsOf(s, n - 2)
  <2>1. SUFFICES ASSUME NEW k \in 1..(n - 2), s = Second(k) PROVE FALSE BY DEF IsOf
  <2>2. Second(k) < s BY <1>3 DEF InTime
  <2> QED BY <1>5, <2>1, <2>2
<1>7. ~Twice(s, n - 1)
  <2>1. SUFFICES ASSUME NEW k \in 2..(n - 1), s = Second(k - 1) PROVE FALSE BY DEF Twice
  <2>2. k - 1 \in 1..(n - 2) BY <1>4
  <2>3. Second(k - 1) < s BY <1>3, <2>2 DEF InTime
  <2> QED BY <1>5, <2>1, <2>3
<1>8. ASSUME NEW f \in DOMAIN known.of, f # Legacy
      PROVE  /\ IsPair(f) /\ f[1] <= s
             /\ f[1] = s => f = <<s, 0>> /\ f \in Folders /\ Twice(s, n)
  <2>1. IsName(f, n - 1) BY <1>1, <1>8 DEF NamesInv
  <2>2. PICK k \in 1..(n - 1) : f[1] = Second(k) BY <2>1 DEF IsName, IsOf
  <2>3. k \in 1..n BY <1>4
  <2>4. f[1] <= s BY <1>3, <2>2, <2>3 DEF InTime
  <2>5. ASSUME f[1] = s PROVE f = <<s, 0>> /\ f \in Folders /\ Twice(s, n)
    <3>1. f[2] = 0 BY <1>7, <2>1, <2>5 DEF IsName
    <3>2. f = <<f[1], f[2]>> BY <2>1 DEF IsName
    <3>3. f \in Folders
      <4>1. (n - 1) - 1 = n - 2 BY <1>4
      <4>2. f \notin Folders => IsOf(f[1], n - 2) BY <1>1, <1>8, <4>1 DEF NamesInv
      <4> QED BY <1>6, <2>5, <4>2
    <3>4. k = n - 1
      <4>1. k \notin 1..(n - 2) BY <1>6, <2>2, <2>5 DEF IsOf
      <4> QED BY <1>4, <4>1
    <3>5. n \in 2..n BY <1>4, <3>4, <2>2
    <3> QED BY <2>2, <2>5, <3>1, <3>2, <3>3, <3>4, <3>5 DEF Twice
  <2> QED BY <2>1, <2>4, <2>5 DEF IsName, IsPair
<1>9. NewName = <<s, Min(free)>> BY DEF NewName
<1>10. Legacy[1] = 0 /\ \A i : Legacy # <<s, i>> BY <1>5 DEF Legacy
<1>11. IsOf(s, n) BY <1>4 DEF IsOf
<1>12. free \subseteq Nat BY <1>2
<1>13. /\ Folders \cup DOMAIN hist.by \subseteq DOMAIN known.of
  BY DEF NamesInv
<1>14. \A i : <<s, i>>[1] = s /\ <<s, i>>[2] = i OBVIOUS
<1>15. \A i : i # 0 => <<s, i>> \notin DOMAIN known.of
  <2>1. ASSUME NEW i, i # 0, <<s, i>> \in DOMAIN known.of PROVE FALSE
    <3>1. <<s, i>> = <<s, 0>> BY <1>8, <1>10, <1>14, <2>1
    <3> QED BY <1>14, <2>1, <3>1
  <2> QED BY <2>1
<1>16. \E i \in {0, 1} : /\ NewName = <<s, i>> /\ (i = 0 \/ Twice(s, n))
                         /\ <<s, i>> \notin DOMAIN known.of
                         /\ i = 0 => <<s, 0>> \notin DOMAIN known.of
  <2>1. CASE 0 \in free
    <3>1. \A j \in free : 0 <= j BY <1>12
    <3>2. Min(free) = 0 BY <1>12, <2>1, <3>1, LeastIs
    <3>3. <<s, 0>> \notin DOMAIN known.of
      <4>1. SUFFICES ASSUME <<s, 0>> \in DOMAIN known.of PROVE FALSE OBVIOUS
      <4>2. <<s, 0>> \in Folders BY <1>8, <1>10, <1>14, <4>1
      <4> QED BY <2>1, <4>2
    <3> QED BY <1>9, <3>2, <3>3
  <2>2. CASE 0 \notin free
    <3>1. <<s, 0>> \in DOMAIN known.of BY <1>2, <1>13, <2>2
    <3>2. Twice(s, n) BY <1>8, <1>10, <1>14, <3>1
    <3>3. 1 \in 0..Limits[kind].builds BY <1>1, <1>2
    <3>4. <<s, 1>> \notin DOMAIN known.of BY <1>15
    <3>5. 1 \in free BY <1>13, <3>3, <3>4
    <3>6. \A j \in free : 1 <= j BY <1>12, <2>2
    <3>7. Min(free) = 1 BY <1>12, <3>5, <3>6, LeastIs
    <3> QED BY <1>9, <3>2, <3>4, <3>7
  <2> QED BY <2>1, <2>2
<1>17. PICK i \in {0, 1} : /\ NewName = <<s, i>> /\ (i = 0 \/ Twice(s, n))
                           /\ <<s, i>> \notin DOMAIN known.of
  BY <1>16
<1>18. IsName(NewName, n) /\ IsPair(NewName)
  BY <1>5, <1>11, <1>14, <1>17 DEF IsName, IsPair
<1>19. ASSUME NEW f \in DOMAIN known.of PROVE Older(f, NewName)
  <2>1. CASE f = Legacy BY <1>10, <1>17, <1>18, <2>1, LegacyIsFirst
  <2>2. CASE f # Legacy
    <3>1. IsPair(f) /\ f[1] <= s /\ (f[1] = s => f = <<s, 0>>) BY <1>8, <2>2
    <3>2. f[1] = s => i = 1 BY <1>17, <3>1
    <3>3. f[1] = s => f[2] = 0 BY <1>14, <3>1
    <3>4. f[1] \in Nat BY <3>1 DEF IsPair
    <3> HIDE DEF s
    <3>5. f[1] < s \/ f[1] = s BY <3>1, <3>4, <1>5
    <3> QED BY <1>14, <1>17, <3>2, <3>3, <3>5 DEF Older
  <2> QED BY <2>1, <2>2
<1> QED BY <1>10, <1>17, <1>18, <1>19, PairsAreSome

-----------------------------------------------------------------------------
(* What the publisher's steps keep *)

(* A name of the first n builds is one of the first m.                      *)
LEMMA NamesGrow ==
  ASSUME NEW n \in Int, NEW m \in Int, n <= m
  PROVE  /\ \A f : IsName(f, n) => IsName(f, m)
         /\ \A s : IsOf(s, n) => IsOf(s, m)
<1>1. \A k : (k \in 1..n => k \in 1..m) /\ (k \in 2..n => k \in 2..m) OBVIOUS
<1>2. \A s : IsOf(s, n) => IsOf(s, m) BY <1>1 DEF IsOf
<1>3. \A s : Twice(s, n) => Twice(s, m) BY <1>1 DEF Twice
<1> QED BY <1>2, <1>3 DEF IsName

LEMMA NumbersAreInts ==
  ASSUME ShapesInv, JobInv
  PROVE  used.builds \in Nat /\ LastNamed \in Int
BY DEF ShapesInv, LastNamed

(* Folders, pages.cur and what is known of them stay.                       *)
FoldersStay == UNCHANGED <<page, cur, known, kind>>

(* A part of the invariant stands where what it is about stays.             *)
LEMMA NamesStay ==
  ASSUME ShapesInv, JobInv, NamesInv, FoldersStay, DOMAIN hist'.by \subseteq DOMAIN known.of,
         LastNamed' \in Int, LastNamed <= LastNamed',
         job'.pc = "swap" \/ Shown' =>
            (job.pc = "swap" \/ Shown) /\ job'.new = job.new /\ used'.builds = used.builds
  PROVE  NamesInv'
<1> DEFINE n == LastNamed  m == LastNamed'
<1>1. n \in Int /\ m \in Int /\ n <= m /\ n - 1 \in Int /\ m - 1 \in Int /\ n - 1 <= m - 1
  BY NumbersAreInts
<1>2. /\ \A f : IsName(f, n) => IsName(f, m)
      /\ \A s : IsOf(s, n - 1) => IsOf(s, m - 1)
  BY <1>1, NamesGrow
<1>3. known' = known /\ Folders' = Folders /\ cur' = cur /\ kind' = kind BY DEF FoldersStay, Folders
<1>4. \A f \in DOMAIN known'.of : f = Legacy \/ IsName(f, m) BY <1>2, <1>3 DEF NamesInv
<1>5. \A f \in DOMAIN known'.of \ Folders' : f = Legacy \/ IsOf(f[1], m - 1) BY <1>2, <1>3 DEF NamesInv
<1>6. job'.pc = "swap" \/ Shown' =>
          \A f \in DOMAIN known'.of \ {job'.new} : f = Legacy \/ IsOf(f[1], used'.builds - 1)
  BY <1>3 DEF NamesInv
<1>7. Folders' \cup DOMAIN hist'.by \cup known'.shown \subseteq DOMAIN known'.of BY <1>3 DEF NamesInv
<1>8. /\ cur' # None => cur' \in Folders' /\ cur' \in known'.shown
      /\ kind' # "latex" => Legacy \notin DOMAIN known'.of
      /\ \A f \in DOMAIN known'.of : known'.of[f] \in Texts12
  BY <1>3 DEF NamesInv, Texts12
<1> QED BY <1>4, <1>5, <1>6, <1>7, <1>8 DEF NamesInv, IsName, IsOf, Twice

LEMMA FilesStay ==
  ASSUME FilesInv, FoldersStay, job.pc # "prune"
  PROVE  FilesInv'
BY DEF FilesInv, FoldersStay, Whole, CurPages, Folders

LEMMA ScreenStays ==
  ASSUME ScreenInv, FoldersStay, job.pc # "prune"
  PROVE  ScreenInv'
BY DEF ScreenInv, FoldersStay, Older, CurPages, Folders

LEMMA CachesStay ==
  ASSUME CachesInv, FoldersStay, UNCHANGED clients
  PROVE  CachesInv'
BY DEF CachesInv, FoldersStay, clients

(* Each step of the source and of the publisher, as it keeps the invariant. *)
LEMMA WritesKeep ==
  ASSUME BuildsInv, WriteSource
  PROVE  BuildsInv'
<1> USE DEF BuildsInv
<1>1. /\ FoldersStay /\ UNCHANGED clients /\ job' = job /\ hist' = hist /\ base' = base
      /\ job.pc \in {"none", "make"} /\ read' = read /\ bstate' = bstate
  BY DEF WriteSource, FoldersStay, marks
<1>2. used'.builds = used.builds
      /\ used' = [writes |-> used'.writes, builds |-> used'.builds, reads |-> used'.reads, mishaps |-> used'.mishaps]
  BY DEF WriteSource, Spend, ShapesInv
<1>3. PICK t \in Texts, gap \in {1, 3} : src' = [text |-> t, at |-> src.at + gap] BY DEF WriteSource
<1>4. src'.at = src.at + gap /\ src'.text \in Texts12 /\ src' = [text |-> src'.text, at |-> src'.at]
  BY <1>3 DEF Texts12
<1>5. src.at \in Nat /\ src'.at \in Nat /\ src.at <= src'.at
  <2>1. src.at \in Nat BY DEF TimesInv
  <2> QED BY <1>4, <2>1
<1>6. ~Shown /\ ~Shown' BY <1>1 DEF Shown
<1>7. ShapesInv' BY <1>1, <1>2, <1>4 DEF ShapesInv, FoldersStay, clients
<1>8. JobInv' BY <1>1, <1>2, <1>6 DEF JobInv, FoldersStay
<1>9. NamesInv'
  <2>1. LastNamed' = LastNamed /\ LastNamed \in Int BY <1>1, <1>2, NumbersAreInts DEF LastNamed
  <2>2. DOMAIN hist'.by \subseteq DOMAIN known.of BY <1>1 DEF NamesInv
  <2> QED BY <1>1, <1>6, <2>1, <2>2, NamesStay
<1>10. FilesInv' /\ ScreenInv' /\ CachesInv' BY <1>1, FilesStay, ScreenStays, CachesStay
<1>11. TimesInv'
  <2>1. job.pc = "make" => job.at \in Nat /\ job.at <= src'.at BY <1>5 DEF TimesInv, JobInv
  <2>2. base # None => base \in Nat /\ base <= src'.at BY <1>5 DEF TimesInv
  <2> QED BY <1>1, <1>4, <1>5, <1>6, <2>1, <2>2 DEF TimesInv, FoldersStay, CurPages, Folders
<1>12. HistInv' BY <1>1, <1>5, <1>6 DEF HistInv, FoldersStay
<1> QED BY <1>7, <1>8, <1>9, <1>10, <1>11, <1>12

LEMMA BeginBuildKeeps ==
  ASSUME BuildsInv, BeginBuild
  PROVE  BuildsInv'
<1> USE DEF BuildsInv
<1>1. /\ FoldersStay /\ UNCHANGED clients /\ UNCHANGED <<src, base, hist, read>>
      /\ job.pc = "none" /\ used.builds < Limits[kind].builds
  BY DEF BeginBuild, FoldersStay, marks, NoJob
<1>2. job' = [pc |-> "make", at |-> src.at] /\ bstate' = [bstate EXCEPT !.state = "running"]
  BY DEF BeginBuild
<1>3. /\ used'.builds = used.builds + 1
      /\ used' = [writes |-> used'.writes, builds |-> used'.builds, reads |-> used'.reads, mishaps |-> used'.mishaps]
  BY DEF BeginBuild, Spend, ShapesInv
<1>4. /\ bstate'.state = "running" /\ bstate'.seq = bstate.seq
      /\ bstate' = [state |-> bstate'.state, seq |-> bstate'.seq]
  BY <1>2 DEF ShapesInv
<1>5. used.builds \in Nat /\ Limits[kind].builds \in Nat /\ src.at \in Nat
  BY BuildReadersAssumption DEF ShapesInv, TimesInv
<1>6. job'.pc = "make" /\ job'.at = src.at /\ "at" \in DOMAIN job' /\ "pc" \in DOMAIN job' BY <1>2
<1>7. ~Shown' /\ ~Shown BY <1>1, <1>6 DEF Shown
<1>8. ShapesInv' BY <1>1, <1>3, <1>4, <1>5 DEF ShapesInv, FoldersStay, clients
<1>9. JobInv' BY <1>1, <1>3, <1>4, <1>5, <1>6, <1>7 DEF JobInv, FoldersStay
<1>10. NamesInv'
  <2>1. LastNamed = used.builds /\ LastNamed' = used.builds BY <1>1, <1>3, <1>5, <1>6 DEF LastNamed
  <2>2. DOMAIN hist'.by \subseteq DOMAIN known.of BY <1>1 DEF NamesInv
  <2> QED BY <1>1, <1>5, <1>6, <1>7, <2>1, <2>2, NamesStay
<1>11. FilesInv' /\ ScreenInv' /\ CachesInv' BY <1>1, FilesStay, ScreenStays, CachesStay
<1>12. TimesInv' BY <1>1, <1>5, <1>6, <1>7 DEF TimesInv, FoldersStay, CurPages, Folders
<1>13. HistInv' BY <1>1, <1>4, <1>6, <1>7 DEF HistInv, FoldersStay
<1> QED BY <1>8, <1>9, <1>10, <1>11, <1>12, <1>13

LEMMA MakeKeeps ==
  ASSUME BuildsInv, Make
  PROVE  BuildsInv'
<1> USE DEF BuildsInv
<1>1. /\ FoldersStay /\ UNCHANGED clients /\ UNCHANGED <<src, base, hist, bstate, used, read>>
      /\ job.pc = "make" /\ job' = [pc |-> "name", at |-> job.at, of |-> src.text, time |-> src.at]
  BY DEF Make, FoldersStay, marks
<1>2. job.at \in Nat /\ job.at <= src.at /\ src.at \in Nat /\ src.text \in Texts12
  BY <1>1 DEF JobInv, TimesInv
<1>3. /\ job'.pc = "name" /\ job'.at = job.at /\ job'.of = src.text /\ job'.time = src.at
      /\ {"pc", "at", "of", "time"} \subseteq DOMAIN job'
  BY <1>1
<1>4. ~Shown /\ ~Shown' BY <1>1, <1>3 DEF Shown
<1>5. ShapesInv' BY <1>1 DEF ShapesInv, FoldersStay, clients
<1>6. JobInv' BY <1>1, <1>2, <1>3, <1>4 DEF JobInv, FoldersStay, Texts12
<1>7. NamesInv'
  <2>1. LastNamed' = LastNamed /\ LastNamed \in Int BY <1>1, <1>3, NumbersAreInts DEF LastNamed
  <2>2. DOMAIN hist'.by \subseteq DOMAIN known.of BY <1>1 DEF NamesInv
  <2> QED BY <1>1, <1>3, <1>4, <2>1, <2>2, NamesStay
<1>8. FilesInv' /\ ScreenInv' /\ CachesInv' BY <1>1, FilesStay, ScreenStays, CachesStay
<1>9. TimesInv' BY <1>1, <1>2, <1>3, <1>4 DEF TimesInv, FoldersStay, CurPages, Folders, Texts12
<1>10. HistInv' BY <1>1, <1>3, <1>4 DEF HistInv, FoldersStay
<1> QED BY <1>5, <1>6, <1>7, <1>8, <1>9, <1>10

(* A build that fails, before it is shown or after, leaves the rest as it was. *)
LEMMA FailsKeeps ==
  ASSUME BuildsInv, Fails, FoldersStay, job.pc \notin {"startup", "none", "prune"}, UNCHANGED clients,
         Spend("mishaps"), UNCHANGED <<src, base, hist, bstate, read>>
  PROVE  BuildsInv'
<1> USE DEF BuildsInv
<1>1. job'.pc = "record" /\ job'.new = None /\ {"pc", "new"} \subseteq DOMAIN job' BY DEF Fails
<1>2. /\ used'.builds = used.builds
      /\ used' = [writes |-> used'.writes, builds |-> used'.builds, reads |-> used'.reads, mishaps |-> used'.mishaps]
  BY DEF Spend, ShapesInv
<1>3. ~Shown' BY <1>1 DEF Shown
<1>4. ShapesInv' BY <1>2 DEF ShapesInv, FoldersStay, clients
<1>5. JobInv' BY <1>1, <1>2, <1>3 DEF JobInv, FoldersStay
<1>6. NamesInv'
  <2>1. used.builds \in Nat BY DEF ShapesInv
  <2>2. LastNamed' = used.builds /\ LastNamed \in Int /\ LastNamed <= used.builds
    BY <1>1, <1>2, <2>1 DEF LastNamed
  <2>3. DOMAIN hist'.by \subseteq DOMAIN known.of BY DEF NamesInv
  <2> QED BY <1>1, <1>3, <2>1, <2>2, <2>3, NamesStay
<1>7. FilesInv' /\ ScreenInv' /\ CachesInv' BY FilesStay, ScreenStays, CachesStay
<1>8. TimesInv' BY <1>1, <1>3 DEF TimesInv, FoldersStay, CurPages, Folders
<1>9. HistInv' BY <1>1, <1>3 DEF HistInv, FoldersStay
<1> QED BY <1>4, <1>5, <1>6, <1>7, <1>8, <1>9

LEMMA PublisherFailsKeeps ==
  ASSUME BuildsInv, PublisherFails
  PROVE  BuildsInv'
BY FailsKeeps DEF PublisherFails, FoldersStay, marks

(* The build shown goes on to the next thing it writes.                     *)
GoesOn(pc) == job' = [job EXCEPT !.pc = pc]

(* A shown build that has written one of its files goes on to the next.     *)
LEMMA GoingOn ==
  ASSUME BuildsInv, FoldersStay, Shown, job.pc # "prune", UNCHANGED clients, UNCHANGED <<src, hist, bstate, read>>,
         used' = used \/ Spend("mishaps"), NEW pc \in {"head", "baseline", "record"}, GoesOn(pc)
  PROVE  /\ ShapesInv' /\ JobInv' /\ NamesInv' /\ FilesInv' /\ ScreenInv' /\ CachesInv' /\ HistInv'
         /\ Shown' /\ job'.pc = pc
         /\ job'.at = job.at /\ job'.time = job.time /\ job'.new = job.new
<1> USE DEF BuildsInv
<1>1. {"pc", "at", "of", "time", "new"} \subseteq DOMAIN job /\ job.new # None /\ job.pc \notin {"startup", "none", "make", "name"}
  BY DEF JobInv, Shown
<1>2. /\ DOMAIN job' = DOMAIN job /\ job'.pc = pc /\ job'.at = job.at /\ job'.of = job.of
      /\ job'.time = job.time /\ job'.new = job.new
  BY <1>1 DEF GoesOn
<1>3. used'.builds = used.builds BY DEF ShapesInv, Spend
<1>4. Shown' BY <1>1, <1>2 DEF Shown
<1>5. ShapesInv' BY DEF ShapesInv, FoldersStay, clients, Spend
<1>6. JobInv' BY <1>1, <1>2, <1>3, <1>4 DEF JobInv, FoldersStay, Shown, Folders, CurPages
<1>7. NamesInv'
  <2>1. used.builds \in Nat /\ LastNamed' = used.builds /\ LastNamed = used.builds
    BY <1>1, <1>2, <1>3 DEF LastNamed, ShapesInv
  <2> QED BY <1>2, <1>3, <2>1, NamesStay DEF NamesInv
<1>8. FilesInv' /\ ScreenInv' /\ CachesInv' BY FilesStay, ScreenStays, CachesStay
<1>9. HistInv' BY <1>2, <1>4 DEF HistInv, FoldersStay, Shown
<1> QED BY <1>2, <1>4, <1>5, <1>6, <1>7, <1>8, <1>9

LEMMA DateKeeps ==
  ASSUME BuildsInv, Date
  PROVE  BuildsInv'
<1>1. /\ FoldersStay /\ UNCHANGED clients /\ UNCHANGED <<src, base, hist, bstate, read>>
      /\ job.pc \in {"date", "head"}
  BY DEF Date, FoldersStay
<1>2. CASE Fails /\ Spend("mishaps") BY <1>1, <1>2, FailsKeeps
<1>3. CASE job' = [job EXCEPT !.pc = IF @ = "date" THEN "head" ELSE "baseline"] /\ used' = used
  <2>1. \E pc \in {"head", "baseline", "record"} : GoesOn(pc)
    <3>1. GoesOn("head") \/ GoesOn("baseline") BY <1>3 DEF GoesOn
    <3> QED BY <3>1
  <2>2. PICK pc \in {"head", "baseline", "record"} : GoesOn(pc) BY <2>1
  <2>3. Shown /\ job.pc # "prune" BY <1>1 DEF Shown
  <2>4. /\ ShapesInv' /\ JobInv' /\ NamesInv' /\ FilesInv' /\ ScreenInv' /\ CachesInv' /\ HistInv'
        /\ Shown' /\ job'.pc = pc /\ job'.at = job.at /\ job'.time = job.time /\ job'.new = job.new
    BY <1>1, <1>3, <2>2, <2>3, GoingOn
  <2>5. TimesInv' BY <1>1, <2>3, <2>4 DEF BuildsInv, TimesInv, FoldersStay, CurPages, Folders
  <2> QED BY <2>4, <2>5 DEF BuildsInv
<1> QED BY <1>2, <1>3 DEF Date

LEMMA BaselineKeeps ==
  ASSUME BuildsInv, WriteBaseline
  PROVE  BuildsInv'
<1>1. /\ FoldersStay /\ UNCHANGED clients /\ UNCHANGED <<src, hist, bstate, read>>
      /\ job.pc = "baseline" /\ GoesOn("record") /\ (used' = used \/ Spend("mishaps"))
      /\ base' \in {base, job.at}
  BY DEF WriteBaseline, FoldersStay, GoesOn
<1>2. Shown /\ job.pc # "prune" BY <1>1 DEF Shown
<1>3. /\ ShapesInv' /\ JobInv' /\ NamesInv' /\ FilesInv' /\ ScreenInv' /\ CachesInv' /\ HistInv'
      /\ Shown' /\ job'.pc = "record" /\ job'.at = job.at /\ job'.time = job.time /\ job'.new = job.new
  BY <1>1, <1>2, GoingOn
<1>4. job.at \in Nat /\ job.time \in Nat /\ job.new = CurPages /\ page[CurPages].time = job.time
      /\ job.at <= job.time /\ job.at <= src.at /\ src.at \in Nat
  BY <1>2 DEF BuildsInv, JobInv, TimesInv, CurPages
<1>5. TimesInv' BY <1>1, <1>2, <1>3, <1>4 DEF BuildsInv, TimesInv, FoldersStay, CurPages, Folders
<1> QED BY <1>3, <1>5 DEF BuildsInv

(* What the history holds once a build is over.                             *)
LEMMA EntriesAre ==
  ASSUME BuildsInv, job.pc = "record"
  PROVE  /\ DOMAIN Entries \subseteq DOMAIN known.of
         /\ \A f \in DOMAIN Entries :
              \/ f \in DOMAIN hist.by /\ Entries[f] = hist.by[f]
              \/ /\ Shown /\ f = job.new /\ f \in Folders /\ f # Legacy
                 /\ Entries[f].hash = known.of[f] /\ Entries[f].hash # None
                 /\ Entries[f].at = job.at /\ job.at \in Nat /\ job.at <= page[f].time
         /\ Legacy \in DOMAIN Entries => Legacy \in DOMAIN hist.by
<1> USE DEF BuildsInv
<1>1. CASE job.new = None
  <2>1. Entries = hist.by BY <1>1 DEF Entries
  <2> QED BY <2>1 DEF NamesInv
<1>2. CASE job.new # None
  <2> DEFINE e == [hash |-> job.of, at |-> job.at]
  <2>1. /\ Shown /\ job.new \in Folders /\ job.new # Legacy /\ page[job.new].of = job.of /\ page[job.new].time = job.time
        /\ job.at \in Nat /\ job.of \in Texts12
    BY <1>2 DEF JobInv, Shown
  <2>2. job.at <= page[job.new].time BY <2>1 DEF TimesInv
  <2>3. known.of[job.new] = job.of /\ job.new \in DOMAIN known.of BY <2>1 DEF FilesInv, NamesInv
  <2>4. job.of # None BY <2>1, TextsAreSome
  <2>5. Entries = With(hist.by, Only(job.new, e)) BY <1>2 DEF Entries
  <2>6. e.hash = job.of /\ e.at = job.at OBVIOUS
  <2> HIDE DEF e
  <2>7. /\ DOMAIN Entries = DOMAIN hist.by \cup {job.new} /\ Entries[job.new] = e
        /\ \A f \in DOMAIN hist.by : f # job.new => Entries[f] = hist.by[f]
    BY <2>5 DEF With, Only
  <2>8. DOMAIN hist.by \subseteq DOMAIN known.of BY DEF NamesInv
  <2> QED BY <2>1, <2>2, <2>3, <2>4, <2>6, <2>7, <2>8
<1> QED BY <1>1, <1>2

LEMMA RecordKeeps ==
  ASSUME BuildsInv, Record
  PROVE  BuildsInv' /\ bstate.seq < bstate'.seq
<1> USE DEF BuildsInv
<1>1. /\ FoldersStay /\ UNCHANGED clients /\ UNCHANGED <<src, base, read>>
      /\ job.pc = "record" /\ job' = NoJob /\ bstate' = Publication
      /\ hist' = hist \/ hist' = [seq |-> NextSeq, by |-> Entries]
      /\ used' = used \/ Spend("mishaps")
  BY DEF Record, FoldersStay
<1>2. NextSeq \in Nat /\ bstate.seq < NextSeq
  <2>1. hist.seq \in Nat /\ bstate.seq \in Nat BY DEF HistInv
  <2> DEFINE m == Max({hist.seq, bstate.seq})
  <2>2. m \in Nat /\ bstate.seq <= m BY <2>1, GreaterOfTwo
  <2>3. NextSeq = m + 1 BY DEF NextSeq
  <2> HIDE DEF m
  <2> QED BY <2>1, <2>2, <2>3
<1>3. /\ bstate'.seq = NextSeq /\ bstate'.state # "running"
      /\ bstate' = [state |-> bstate'.state, seq |-> bstate'.seq]
  BY <1>1 DEF Publication
<1>4. /\ used'.builds = used.builds
      /\ used' = [writes |-> used'.writes, builds |-> used'.builds, reads |-> used'.reads, mishaps |-> used'.mishaps]
  BY <1>1 DEF Spend, ShapesInv
<1>5. job'.pc = "none" /\ ~Shown' /\ "pc" \in DOMAIN job' BY <1>1 DEF NoJob, Shown
<1>6. /\ hist'.seq \in Nat /\ hist' = [seq |-> hist'.seq, by |-> hist'.by]
      /\ hist'.by \in {hist.by, Entries}
  BY <1>1, <1>2 DEF HistInv, ShapesInv
<1>7. /\ DOMAIN hist'.by \subseteq DOMAIN known.of
      /\ \A f \in DOMAIN hist'.by :
           \/ f \in DOMAIN hist.by /\ hist'.by[f] = hist.by[f]
           \/ /\ Shown /\ f = job.new /\ f \in Folders /\ f # Legacy
              /\ hist'.by[f].hash = known.of[f] /\ hist'.by[f].hash # None
              /\ hist'.by[f].at = job.at /\ job.at \in Nat /\ job.at <= page[f].time
      /\ Legacy \in DOMAIN hist'.by => Legacy \in DOMAIN hist.by
  <2>1. CASE hist'.by = hist.by BY <2>1 DEF NamesInv
  <2>2. CASE hist'.by = Entries BY <1>1, <2>2, EntriesAre
  <2> QED BY <1>6, <2>1, <2>2
<1>8. ShapesInv' BY <1>1, <1>3, <1>4, <1>6 DEF ShapesInv, FoldersStay, clients
<1>9. JobInv' BY <1>1, <1>3, <1>5 DEF JobInv
<1>10. NamesInv'
  <2>1. LastNamed' = LastNamed /\ LastNamed \in Int BY <1>1, <1>4, <1>5, NumbersAreInts DEF LastNamed
  <2> QED BY <1>1, <1>5, <1>7, <2>1, NamesStay
<1>11. FilesInv' /\ ScreenInv' /\ CachesInv' BY <1>1, FilesStay, ScreenStays, CachesStay
<1>12. TimesInv'
  <2>1. \A f \in DOMAIN hist'.by : f \in Folders /\ hist'.by[f].at # None => hist'.by[f].at <= page[f].time
    BY <1>7 DEF TimesInv
  <2> QED BY <1>1, <1>5, <2>1 DEF TimesInv, FoldersStay, CurPages, Folders
<1>13. HistInv'
  <2>1. \A f \in DOMAIN hist'.by : hist'.by[f].hash \in {None, known.of[f]} /\ hist'.by[f].at \in Nat \cup {None}
    BY <1>7 DEF HistInv
  <2>2. \A f \in DOMAIN hist'.by : f # Legacy => hist'.by[f].hash # None BY <1>7 DEF HistInv
  <2>3. ASSUME Legacy \in DOMAIN hist'.by, hist'.by[Legacy].hash = None
        PROVE  /\ hist'.by[Legacy].at \in {None, 1} /\ src.at > 1
               /\ \A f \in DOMAIN hist'.by \ {Legacy} : hist'.by[f].at # None => hist'.by[f].at > 1
    <3>1. Legacy \in DOMAIN hist.by /\ hist'.by[Legacy] = hist.by[Legacy] BY <1>7, <2>3
    <3>2. /\ hist.by[Legacy].at \in {None, 1} /\ src.at > 1 /\ (Shown => job.at > 1)
          /\ \A f \in DOMAIN hist.by \ {Legacy} : hist.by[f].at # None => hist.by[f].at > 1
      BY <2>3, <3>1 DEF HistInv
    <3> QED BY <1>7, <3>1, <3>2
  <2> QED BY <1>1, <1>2, <1>3, <1>5, <1>6, <2>1, <2>2, <2>3 DEF HistInv, FoldersStay
<1> QED BY <1>2, <1>3, <1>8, <1>9, <1>10, <1>11, <1>12, <1>13

LEMMA StartupKeeps ==
  ASSUME BuildsInv, Startup
  PROVE  BuildsInv'
<1> USE DEF BuildsInv
<1>1. /\ UNCHANGED clients /\ UNCHANGED <<kind, src, base, bstate, read, known>>
      /\ job.pc = "startup" /\ job' = NoJob /\ (used' = used \/ Spend("mishaps"))
      /\ cur' = IF Legacy \in Folders THEN Legacy ELSE cur
      /\ page' = page \/ (Legacy \in Folders /\ page' = [page EXCEPT ![Legacy].files = @ \cup {"pdf"}])
  BY DEF Startup
<1>2. /\ DOMAIN hist.by = {} /\ cur = None
      /\ Legacy \in Folders => /\ page[Legacy].time = 1 /\ known.of[Legacy] = 1 /\ Legacy \in known.shown
                              /\ base \in {None, 1} /\ src.at # 0 /\ (src.at <= 1 => src.text = 1)
  BY <1>1 DEF JobInv
<1>3. /\ used'.builds = used.builds
      /\ used' = [writes |-> used'.writes, builds |-> used'.builds, reads |-> used'.reads, mishaps |-> used'.mishaps]
  BY <1>1 DEF Spend, ShapesInv
<1>4. /\ Folders' = Folders
      /\ \A f \in Folders : /\ page'[f] = [of |-> page[f].of, time |-> page[f].time, files |-> page'[f].files]
                            /\ page[f].files \subseteq page'[f].files
                            /\ f # Legacy => page'[f] = page[f]
  <2>1. CASE page' = page BY <2>1 DEF Folders, FilesInv
  <2>2. CASE Legacy \in Folders /\ page' = [page EXCEPT ![Legacy].files = @ \cup {"pdf"}]
    <3>1. page[Legacy] = [of |-> page[Legacy].of, time |-> page[Legacy].time, files |-> page[Legacy].files]
      BY <2>2 DEF FilesInv
    <3>2. DOMAIN page' = DOMAIN page /\ page'[Legacy] = [page[Legacy] EXCEPT !.files = @ \cup {"pdf"}]
          /\ \A f \in DOMAIN page : f # Legacy => page'[f] = page[f]
      BY <2>2 DEF Folders
    <3>3. page'[Legacy].files = page[Legacy].files \cup {"pdf"}
          /\ page'[Legacy] = [of |-> page[Legacy].of, time |-> page[Legacy].time, files |-> page'[Legacy].files]
      BY <3>1, <3>2
    <3> QED BY <3>2, <3>3 DEF Folders, FilesInv
  <2> QED BY <1>1, <2>1, <2>2
<1>41. \A f \in Folders : page'[f].of = page[f].of /\ page'[f].time = page[f].time
  <2>1. ASSUME NEW f \in Folders PROVE page'[f].of = page[f].of /\ page'[f].time = page[f].time
    <3> DEFINE o == page[f].of  t == page[f].time  fs == page'[f].files
    <3>1. page'[f] = [of |-> o, time |-> t, files |-> fs] BY <1>4
    <3> HIDE DEF o, t, fs
    <3>2. page'[f].of = o /\ page'[f].time = t BY <3>1
    <3> QED BY <3>2 DEF o, t
  <2> QED BY <2>1
<1>5. CurPages = Legacy /\ CurPages' = Legacy
  <2>1. None \notin Folders BY KnownArePairs
  <2> QED BY <1>1, <1>2, <1>4, <2>1 DEF CurPages
<1>6. job'.pc = "none" /\ ~Shown' /\ ~Shown /\ "pc" \in DOMAIN job' BY <1>1 DEF NoJob, Shown
<1>7. bstate.state # "running" BY <1>1 DEF JobInv
<1>8. IF Legacy \in Folders
      THEN /\ DOMAIN hist'.by = {Legacy}
           /\ hist' = [seq |-> hist.seq, by |-> hist'.by]
           /\ hist'.by[Legacy].hash \in {None, 1} /\ hist'.by[Legacy].at \in {None, 1}
           /\ hist'.by[Legacy].hash = None => src.at > 1
      ELSE hist' = hist
  <2>1. CASE Legacy \in Folders
    <3> DEFINE ref == IF base # None THEN base ELSE page[Legacy].time
               same == src.at <= ref
               entry == [hash |-> IF same THEN src.text ELSE None,
                         at |-> IF base # None THEN base ELSE IF same THEN src.at ELSE None]
    <3>1. hist' = [hist EXCEPT !.by = Only(Legacy, entry)] BY <2>1 DEF Startup
    <3>2. ref = 1 BY <1>2, <2>1
    <3>3. src.at \in Nat BY DEF TimesInv
    <3>4. same => src.at = 1 /\ src.text = 1 BY <1>2, <2>1, <3>2, <3>3
    <3>5. ~same => src.at > 1 BY <3>2, <3>3
    <3>6. entry.hash \in {None, 1} /\ entry.at \in {None, 1} /\ (entry.hash = None => src.at > 1)
      <4>1. 1 # None BY BuildReadersAssumption
      <4>2. entry.hash = IF same THEN src.text ELSE None OBVIOUS
      <4>3. entry.at = IF base # None THEN base ELSE IF same THEN src.at ELSE None OBVIOUS
      <4> HIDE DEF same, entry
      <4> QED BY <1>2, <2>1, <3>4, <3>5, <4>1, <4>2, <4>3
    <3> HIDE DEF entry
    <3>7. DOMAIN Only(Legacy, entry) = {Legacy} /\ Only(Legacy, entry)[Legacy] = entry BY OnlyIs
    <3>8. hist' = [seq |-> hist.seq, by |-> Only(Legacy, entry)] BY <3>1 DEF ShapesInv
    <3> QED BY <2>1, <3>6, <3>7, <3>8
  <2>2. CASE Legacy \notin Folders BY <2>2 DEF Startup
  <2> QED BY <2>1, <2>2
<1>9. ShapesInv'
  <2>1. hist' = [seq |-> hist'.seq, by |-> hist'.by] BY <1>8 DEF ShapesInv
  <2> QED BY <1>1, <1>3, <2>1 DEF ShapesInv, clients
<1>10. JobInv' BY <1>1, <1>6, <1>7 DEF JobInv
<1>11. Legacy \in Folders => Legacy \in DOMAIN known.of /\ Legacy \in known.shown BY <1>2 DEF NamesInv
<1>12. NamesInv'
  <2>1. LastNamed' = used.builds /\ LastNamed = used.builds BY <1>1, <1>3, <1>6 DEF LastNamed
  <2>2. DOMAIN hist'.by \subseteq DOMAIN known.of BY <1>2, <1>8, <1>11
  <2>3. Folders' \cup DOMAIN hist'.by \cup known'.shown \subseteq DOMAIN known'.of BY <1>1, <1>4, <2>2 DEF NamesInv
  <2>4. cur' # None => cur' \in Folders' /\ cur' \in known'.shown BY <1>1, <1>2, <1>4
  <2>5. \A f \in DOMAIN known.of : f = Legacy \/ IsName(f, LastNamed') BY <2>1 DEF NamesInv
  <2>6. \A f \in DOMAIN known.of \ Folders' : f = Legacy \/ IsOf(f[1], LastNamed' - 1) BY <1>4, <2>1 DEF NamesInv
  <2>7. /\ kind' # "latex" => Legacy \notin DOMAIN known'.of
        /\ \A f \in DOMAIN known'.of : known'.of[f] \in Texts12
    BY <1>1 DEF NamesInv, Texts12
  <2> QED BY <1>1, <1>6, <2>3, <2>4, <2>5, <2>6, <2>7 DEF NamesInv, IsName, IsOf, Twice
<1>13. FilesInv'
  <2>1. \A f \in Folders : Whole(f)' BY <1>1, <1>4 DEF FilesInv, Whole
  <2>2. \A f \in Folders : page[f].of = known.of[f] /\ page[f].time \in Nat BY DEF FilesInv
  <2>3. Legacy \in Folders => "images" \in page'[Legacy].files BY <1>4, <1>5 DEF FilesInv
  <2>4. \A f \in Folders : page'[f].of = page[f].of /\ page'[f].time = page[f].time BY <1>41
  <2> QED BY <1>1, <1>4, <1>5, <2>1, <2>2, <2>3, <2>4 DEF FilesInv
<1>14. ScreenInv' BY <1>1, <1>4, <1>5 DEF ScreenInv, Older
<1>15. TimesInv'
  <2>1. \A f \in DOMAIN hist'.by : f \in Folders' /\ hist'.by[f].at # None => hist'.by[f].at <= page'[f].time
    <3>1. CASE Legacy \in Folders
      <4>1. page'[Legacy].time = 1 BY <1>2, <1>41, <3>1
      <4>2. \A f \in DOMAIN hist'.by : f = Legacy /\ hist'.by[f].at \in {None, 1} BY <1>8, <3>1
      <4> QED BY <4>1, <4>2
    <3>2. CASE Legacy \notin Folders BY <1>2, <1>8, <3>2
    <3> QED BY <3>1, <3>2
  <2> QED BY <1>1, <1>4, <1>41, <1>5, <1>6, <2>1 DEF TimesInv, Texts12
<1>16. HistInv'
  <2>1. CASE Legacy \in Folders
    <3>1. known.of[Legacy] = 1 BY <1>2, <2>1
    <3> QED BY <1>1, <1>6, <1>8, <2>1, <3>1 DEF HistInv
  <2>2. CASE Legacy \notin Folders BY <1>1, <1>2, <1>8, <2>2 DEF HistInv
  <2> QED BY <2>1, <2>2
<1>17. CachesInv' BY <1>1 DEF CachesInv, clients
<1> QED BY <1>9, <1>10, <1>12, <1>13, <1>14, <1>15, <1>16, <1>17

LEMMA NameKeeps ==
  ASSUME SecondsGoOn, BuildsInv, NameFolder
  PROVE  /\ BuildsInv'
         /\ NewName \notin DOMAIN known.of /\ ~Older(NewName, CurPages) /\ NewName # CurPages
         /\ Folders' = Folders \cup {NewName} /\ DOMAIN known'.of = DOMAIN known.of \cup {NewName}
         /\ \A f \in DOMAIN known.of : known'.of[f] = known.of[f]
         /\ \A f \in Folders : page'[f] = page[f]
         /\ page'[NewName].files = Files
         /\ CurPages' = CurPages /\ known'.before = known.before /\ known'.shown = known.shown /\ job'.pc = "swap"
<1> USE DEF BuildsInv
<1> DEFINE new == NewName
           made == [of |-> job.of, time |-> job.time, files |-> Files]
<1>1. /\ job.pc = "name" /\ UNCHANGED clients
      /\ UNCHANGED <<kind, src, cur, dated, base, hist, bstate, used, read>>
      /\ page' = With(page, Only(new, made))
      /\ known' = [known EXCEPT !.of = With(@, Only(new, job.of))]
      /\ job' = With(job, [pc |-> "swap", new |-> new])
  BY DEF NameFolder, marks
<1>2. /\ IsName(new, used.builds) /\ IsPair(new)
      /\ new \notin DOMAIN known.of /\ new # None /\ new # Legacy
      /\ \A f \in DOMAIN known.of : Older(f, new)
  BY <1>1, NewNameIs
<1>3. made.of = job.of /\ made.time = job.time /\ made.files = Files
      /\ made = [of |-> made.of, time |-> made.time, files |-> made.files]
  OBVIOUS
<1> HIDE DEF new, made
<1>4. /\ {"pc", "at", "of", "time"} \subseteq DOMAIN job /\ job.at \in Nat /\ job.of \in Texts12 /\ job.time \in Nat
      /\ used.builds \in 1..Limits[kind].builds /\ bstate.state = "running"
  BY <1>1 DEF JobInv
<1>5. /\ Folders' = Folders \cup {new} /\ page'[new] = made
      /\ \A f \in Folders : f # new => page'[f] = page[f]
  BY <1>1 DEF With, Only, Folders
<1>6. /\ known'.of = With(known.of, Only(new, job.of)) /\ known'.before = known.before /\ known'.shown = known.shown
      /\ known' = [of |-> known'.of, before |-> known'.before, shown |-> known'.shown]
  BY <1>1 DEF ShapesInv
<1>7. /\ DOMAIN known'.of = DOMAIN known.of \cup {new} /\ known'.of[new] = job.of
      /\ \A f \in DOMAIN known.of : known'.of[f] = known.of[f]
  BY <1>2, <1>6 DEF With, Only
<1>8. /\ DOMAIN job' = DOMAIN job \cup {"pc", "new"} /\ job'.pc = "swap" /\ job'.new = new
      /\ job'.at = job.at /\ job'.of = job.of /\ job'.time = job.time
  BY <1>1, <1>4 DEF With
<1>9. Folders \subseteq DOMAIN known.of /\ new \notin Folders BY <1>2 DEF NamesInv
<1>10. /\ CurPages' = CurPages /\ CurPages \in DOMAIN known.of \cup {Legacy} /\ CurPages # new
       /\ CurPages \in Folders' => CurPages \in Folders
  <2>1. cur # new BY <1>2, <1>9 DEF NamesInv
  <2> QED BY <1>1, <1>2, <1>5, <1>9, <2>1 DEF CurPages
<1>11. ~Older(new, CurPages)
  <2>1. IsPair(CurPages) BY KnownArePairs
  <2>2. CurPages = Legacy \/ Older(CurPages, new) BY <1>2, <1>10
  <2> QED BY <1>2, <2>1, <2>2, LegacyIsFirst, OlderIsOrder
<1>12. ~Shown /\ ~Shown' BY <1>1, <1>8 DEF Shown
<1>13. ShapesInv' BY <1>1, <1>6 DEF ShapesInv, clients
<1>14. JobInv'
  <2>1. page'[new].of = job.of /\ page'[new].time = job.time BY <1>3, <1>5
  <2>2. \A f \in DOMAIN known'.of \ {new} : Older(f, new) BY <1>2, <1>7
  <2> QED BY <1>1, <1>2, <1>4, <1>5, <1>8, <1>10, <1>12, <2>1, <2>2 DEF JobInv, Texts12, Older
<1>15. NamesInv'
  <2>1. used.builds \in Nat /\ LastNamed = used.builds - 1 /\ LastNamed' = used.builds
    BY <1>1, <1>8 DEF LastNamed, ShapesInv
  <2> DEFINE n == used.builds
  <2>2. /\ \A f : IsName(f, n - 1) => IsName(f, n)
        /\ \A s : IsOf(s, (n - 1) - 1) => IsOf(s, n - 1)
    <3>1. n \in Int /\ n - 1 \in Int /\ (n - 1) - 1 \in Int /\ n - 1 <= n /\ (n - 1) - 1 <= n - 1 BY <2>1
    <3> QED BY <3>1, NamesGrow
  <2>3. \A f \in DOMAIN known'.of : f = Legacy \/ IsName(f, n) BY <1>2, <1>7, <2>1, <2>2 DEF NamesInv
  <2>4. \A f \in DOMAIN known'.of \ Folders' : f = Legacy \/ IsOf(f[1], n - 1)
    BY <1>5, <1>7, <2>1, <2>2 DEF NamesInv
  <2>5. \A f \in DOMAIN known'.of \ {new} : f = Legacy \/ IsOf(f[1], n - 1)
    BY <1>7, <2>1 DEF NamesInv, IsName
  <2>6. Folders' \cup DOMAIN hist'.by \cup known'.shown \subseteq DOMAIN known'.of
    BY <1>1, <1>5, <1>6, <1>7 DEF NamesInv
  <2>7. cur' # None => cur' \in Folders' /\ cur' \in known'.shown BY <1>1, <1>5, <1>6 DEF NamesInv
  <2>8. kind' # "latex" => Legacy \notin DOMAIN known'.of BY <1>1, <1>2, <1>7 DEF NamesInv
  <2>9. \A f \in DOMAIN known'.of : known'.of[f] \in Texts12 BY <1>4, <1>7 DEF NamesInv
  <2> QED BY <1>1, <1>8, <1>12, <2>1, <2>3, <2>4, <2>5, <2>6, <2>7, <2>8, <2>9
      DEF NamesInv, IsName, IsOf, Twice, Texts12
<1>16. FilesInv'
  <2>1. ASSUME NEW f \in Folders'
        PROVE  /\ page'[f] = [of |-> page'[f].of, time |-> page'[f].time, files |-> page'[f].files]
               /\ page'[f].of = known'.of[f] /\ page'[f].time \in Nat /\ Whole(f)'
    <3>1. CASE f = new BY <1>3, <1>4, <1>5, <1>7, <3>1 DEF Whole
    <3>2. CASE f # new
      <4>1. f \in Folders /\ page'[f] = page[f] /\ known'.of[f] = known.of[f] BY <1>5, <1>7, <1>9, <3>2
      <4>2. Whole(f) BY <1>1, <4>1 DEF FilesInv
      <4> QED BY <4>1, <4>2 DEF FilesInv, Whole
    <3> QED BY <3>1, <3>2
  <2>2. CurPages' \in Folders' => "images" \in page'[CurPages'].files BY <1>5, <1>10 DEF FilesInv
  <2> QED BY <2>1, <2>2 DEF FilesInv
<1>17. ScreenInv'
  <2>1. \A f \in Folders' : Older(f, CurPages) => f = known.before BY <1>1, <1>5, <1>11 DEF ScreenInv
  <2>2. known.before # new BY <1>2 DEF ScreenInv
  <2> QED BY <1>1, <1>5, <1>6, <1>7, <1>10, <2>1, <2>2 DEF ScreenInv, Older
<1>18. TimesInv'
  <2>1. \A f \in DOMAIN hist'.by : f \in Folders' /\ hist'.by[f].at # None => hist'.by[f].at <= page'[f].time
    <3>1. new \notin DOMAIN hist.by BY <1>2 DEF NamesInv
    <3> QED BY <1>1, <1>5, <3>1 DEF TimesInv
  <2>2. CurPages \in Folders' => page'[CurPages].time = page[CurPages].time BY <1>5, <1>10
  <2> QED BY <1>1, <1>8, <1>10, <1>12, <2>1, <2>2 DEF TimesInv, Texts12
<1>19. HistInv'
  <2>1. \A f \in DOMAIN hist.by : known'.of[f] = known.of[f] BY <1>7 DEF NamesInv
  <2> QED BY <1>1, <1>8, <1>12, <2>1 DEF HistInv
<1>20. CachesInv' BY <1>1, <1>7 DEF CachesInv, clients
<1>21. /\ \A f \in Folders : page'[f] = page[f]
       /\ page'[new].files = Files
  BY <1>3, <1>5, <1>9
<1> QED BY <1>2, <1>5, <1>6, <1>7, <1>8, <1>10, <1>11, <1>13, <1>14, <1>15, <1>16, <1>17, <1>18, <1>19, <1>20, <1>21 DEF new

LEMMA SwapKeeps ==
  ASSUME BuildsInv, Swap
  PROVE  /\ BuildsInv' /\ job'.pc = "prune" /\ Shown'
         /\ page' = page /\ known'.of = known.of /\ known.shown \subseteq known'.shown
<1> USE DEF BuildsInv
<1> DEFINE new == job.new
<1>1. /\ job.pc = "swap" /\ UNCHANGED clients
      /\ UNCHANGED <<kind, src, page, dated, base, hist, bstate, used>>
      /\ cur' = new
      /\ known' = [known EXCEPT !.before = CurPages, !.shown = @ \cup {new}]
      /\ job' = With(job, [pc |-> "prune", prev |-> CurPages])
  BY DEF Swap, marks
<1>2. /\ {"pc", "at", "of", "time", "new"} \subseteq DOMAIN job /\ job.at \in Nat /\ job.of \in Texts12 /\ job.time \in Nat
      /\ new \in Folders /\ new # None /\ new # Legacy /\ CurPages # new
      /\ page[new].of = job.of /\ page[new].time = job.time
      /\ \A f \in DOMAIN known.of \ {new} : Older(f, new)
      /\ used.builds \in 1..Limits[kind].builds /\ bstate.state = "running"
  BY <1>1 DEF JobInv
<1>3. /\ known'.of = known.of /\ known'.before = CurPages /\ known'.shown = known.shown \cup {new}
      /\ known' = [of |-> known'.of, before |-> known'.before, shown |-> known'.shown]
  BY <1>1 DEF ShapesInv
<1>4. /\ DOMAIN job' = DOMAIN job \cup {"pc", "prev"} /\ job'.pc = "prune" /\ job'.new = new /\ job'.prev = CurPages
      /\ job'.at = job.at /\ job'.of = job.of /\ job'.time = job.time
  BY <1>1, <1>2 DEF With
<1>5. Folders' = Folders /\ CurPages' = new /\ Shown' /\ ~Shown
  BY <1>1, <1>2, <1>4 DEF Folders, CurPages, Shown
<1>6. ShapesInv' BY <1>1, <1>3 DEF ShapesInv, clients
<1>7. JobInv' BY <1>1, <1>2, <1>3, <1>4, <1>5 DEF JobInv, Older
<1>8. NamesInv'
  <2>1. LastNamed = used.builds /\ LastNamed' = used.builds BY <1>1, <1>4 DEF LastNamed
  <2>2. new \in DOMAIN known.of BY <1>2 DEF NamesInv
  <2>3. Folders' \cup DOMAIN hist'.by \cup known'.shown \subseteq DOMAIN known'.of
    BY <1>1, <1>3, <1>5, <2>2 DEF NamesInv
  <2>4. \A f \in DOMAIN known'.of : f = Legacy \/ IsName(f, LastNamed') BY <1>3, <2>1 DEF NamesInv
  <2>5. \A f \in DOMAIN known'.of \ Folders' : f = Legacy \/ IsOf(f[1], LastNamed' - 1)
    BY <1>3, <1>5, <2>1 DEF NamesInv
  <2>6. \A f \in DOMAIN known'.of \ {new} : f = Legacy \/ IsOf(f[1], used.builds - 1) BY <1>1, <1>3 DEF NamesInv
  <2> QED BY <1>1, <1>2, <1>3, <1>4, <1>5, <2>3, <2>4, <2>5, <2>6 DEF NamesInv, IsName, IsOf, Twice
<1>9. FilesInv'
  <2>1. \A f \in Folders : Whole(f) BY <1>1 DEF FilesInv
  <2>2. "images" \in page[new].files BY <1>2, <2>1 DEF Whole, Files
  <2> QED BY <1>1, <1>3, <1>5, <2>1, <2>2 DEF FilesInv, Whole
<1>10. ScreenInv'
  <2>1. CurPages \in DOMAIN known.of \cup {Legacy} BY DEF CurPages, NamesInv
  <2>2. CurPages \in Folders => Older(CurPages, new) BY <1>2 DEF NamesInv
  <2> QED BY <1>1, <1>3, <1>4, <1>5, <2>1, <2>2 DEF ScreenInv, Older
<1>11. TimesInv' BY <1>1, <1>2, <1>4, <1>5 DEF TimesInv
<1>12. HistInv' BY <1>1, <1>3, <1>4, <1>5 DEF HistInv
<1>13. CachesInv' BY <1>1, <1>3 DEF CachesInv, clients
<1> QED BY <1>1, <1>3, <1>4, <1>5, <1>6, <1>7, <1>8, <1>9, <1>10, <1>11, <1>12, <1>13

(* What the pruning of a folder leaves.                                     *)
Pruned(f) ==
    /\ f \in Doomed /\ Folders' \subseteq Folders
    /\ \A g \in Folders : g # f => g \in Folders' /\ page'[g] = page[g]
    /\ f \in Folders' => page'[f] = [page[f] EXCEPT !.files = page'[f].files]

(* A pass of the removal: over, or with one file or folder less.            *)
LEMMA PruneIs ==
  ASSUME BuildsInv, Prune
  PROVE  /\ job.pc = "prune" /\ UNCHANGED clients
         /\ UNCHANGED <<kind, src, cur, known, dated, base, hist, bstate, used>>
         /\ \/ Doomed = {} /\ GoesOn("date") /\ page' = page /\ read' = read
            \/ \E f \in Doomed : Pruned(f) /\ job' = job /\ Mark(FALSE, {f})
<1>1. job.pc = "prune" /\ UNCHANGED clients
      /\ UNCHANGED <<kind, src, cur, known, dated, base, hist, bstate, used>>
  BY DEF Prune, marks
<1>2. CASE Doomed = {} BY <1>1, <1>2 DEF Prune, GoesOn
<1>3. CASE Doomed # {}
  <2> DEFINE f == CHOOSE f \in Doomed : TRUE
  <2>1. f \in Doomed BY <1>3
  <2>2. /\ job' = job /\ Mark(FALSE, {f})
        /\ \/ \E file \in page[f].files : page' = [page EXCEPT ![f].files = @ \ {file}]
           \/ page' = Restrict(page, Folders \ {f})
    BY <1>3 DEF Prune
  <2> HIDE DEF f
  <2>3. f \in Folders BY <2>1 DEF Doomed
  <2>4. page[f] = [of |-> page[f].of, time |-> page[f].time, files |-> page[f].files] BY <2>3 DEF BuildsInv, FilesInv
  <2>5. CASE \E file \in page[f].files : page' = [page EXCEPT ![f].files = @ \ {file}]
    <3>1. PICK file : page' = [page EXCEPT ![f].files = @ \ {file}] BY <2>5
    <3>2. DOMAIN page' = DOMAIN page /\ page'[f] = [page[f] EXCEPT !.files = @ \ {file}]
          /\ \A g \in DOMAIN page : g # f => page'[g] = page[g]
      BY <2>3, <3>1 DEF Folders
    <3>3. page'[f].files = page[f].files \ {file} BY <2>4, <3>2
    <3> QED BY <2>1, <2>2, <3>2, <3>3, <1>1 DEF Pruned, Folders
  <2>6. CASE page' = Restrict(page, Folders \ {f})
    <3>1. DOMAIN page' = Folders \ {f} /\ \A g \in Folders \ {f} : page'[g] = page[g] BY <2>6 DEF Restrict
    <3> QED BY <1>1, <2>1, <2>2, <3>1 DEF Pruned, Folders
  <2> QED BY <2>2, <2>5, <2>6
<1> QED BY <1>2, <1>3

LEMMA PruneKeeps ==
  ASSUME BuildsInv, Prune
  PROVE  BuildsInv' /\ Shown' /\ CurPages' = CurPages /\ page'[CurPages] = page[CurPages] /\ CurPages \in Folders'
<1> USE DEF BuildsInv
<1>1. /\ job.pc = "prune" /\ UNCHANGED clients
      /\ UNCHANGED <<kind, src, cur, known, dated, base, hist, bstate, used>>
      /\ \/ Doomed = {} /\ GoesOn("date") /\ page' = page /\ read' = read
         \/ \E f \in Doomed : Pruned(f) /\ job' = job /\ Mark(FALSE, {f})
  BY PruneIs
<1>2. /\ Shown /\ {"pc", "at", "of", "time", "new", "prev"} \subseteq DOMAIN job /\ cur = job.new /\ job.new \in Folders
      /\ job.new # None /\ job.new # Legacy /\ job.prev = known.before
      /\ job.at \in Nat /\ job.of \in Texts12 /\ job.time \in Nat
      /\ page[job.new].of = job.of /\ page[job.new].time = job.time
      /\ \A f \in DOMAIN known.of \ {job.new} : Older(f, job.new)
      /\ used.builds \in 1..Limits[kind].builds /\ bstate.state = "running"
  BY <1>1 DEF JobInv, Shown
<1>3. CurPages = job.new BY <1>2 DEF CurPages
<1>4. CASE Doomed = {} /\ GoesOn("date") /\ page' = page /\ read' = read
  <2>1. /\ DOMAIN job' = DOMAIN job /\ job'.pc = "date" /\ job'.at = job.at /\ job'.of = job.of
        /\ job'.time = job.time /\ job'.new = job.new
    BY <1>2, <1>4 DEF GoesOn
  <2>2. Shown' /\ Folders' = Folders /\ CurPages' = CurPages BY <1>1, <1>4, <2>1 DEF Shown, Folders, CurPages
  <2>3. ShapesInv' BY <1>1 DEF ShapesInv, clients
  <2>4. JobInv' BY <1>1, <1>2, <1>4, <2>1, <2>2 DEF JobInv, Older
  <2>5. FoldersStay BY <1>1, <1>4 DEF FoldersStay
  <2>6. NamesInv'
    <3>1. LastNamed' = LastNamed /\ LastNamed \in Int BY <1>1, <2>1, NumbersAreInts DEF LastNamed
    <3>2. DOMAIN hist'.by \subseteq DOMAIN known.of BY <1>1 DEF NamesInv
    <3> QED BY <1>1, <1>2, <2>1, <2>5, <3>1, <3>2, NamesStay
  <2>7. FilesInv' BY <1>1, <1>4, <2>2 DEF FilesInv, Whole
  <2>8. ScreenInv'
    <3>1. ASSUME NEW f \in Folders, Older(f, CurPages) PROVE f = known.before
      <4>1. f \in {job.new, job.prev} BY <1>4 DEF Doomed
      <4>2. f # job.new
        <5>1. IsPair(CurPages) BY KnownArePairs
        <5> QED BY <1>3, <3>1, <5>1, OlderIsOrder
      <4> QED BY <1>2, <4>1, <4>2
    <3> QED BY <1>1, <2>2, <3>1 DEF ScreenInv, Older
  <2>9. TimesInv' BY <1>1, <1>2, <1>4, <2>1, <2>2 DEF TimesInv
  <2>10. HistInv' BY <1>1, <1>2, <2>1, <2>2 DEF HistInv
  <2>11. CachesInv' BY <1>1 DEF CachesInv, clients
  <2> QED BY <1>2, <1>3, <1>4, <2>2, <2>3, <2>4, <2>6, <2>7, <2>8, <2>9, <2>10, <2>11
<1>5. ASSUME NEW f \in Doomed, Pruned(f), job' = job
      PROVE  BuildsInv' /\ Shown' /\ CurPages' = CurPages /\ page'[CurPages] = page[CurPages] /\ CurPages \in Folders'
  <2>1. f \in Folders /\ f # job.new /\ f # job.prev BY DEF Doomed
  <2>2. job.new \in Folders' /\ page'[job.new] = page[job.new] BY <1>2, <1>5, <2>1 DEF Pruned
  <2>3. Shown' /\ CurPages' = CurPages BY <1>1, <1>2, <1>5, <2>2 DEF Shown, CurPages
  <2>4. page[f] = [of |-> page[f].of, time |-> page[f].time, files |-> page[f].files]
    BY <2>1 DEF FilesInv
  <2>5. \A g \in Folders' : /\ g \in Folders /\ page'[g].of = page[g].of /\ page'[g].time = page[g].time
                            /\ page'[g] = [of |-> page'[g].of, time |-> page'[g].time, files |-> page'[g].files]
                            /\ g # f => page'[g] = page[g]
    <3>1. f \in Folders' => /\ page'[f].of = page[f].of /\ page'[f].time = page[f].time
                            /\ page'[f] = [of |-> page'[f].of, time |-> page'[f].time, files |-> page'[f].files]
      BY <1>5, <2>4 DEF Pruned
    <3> QED BY <1>5, <3>1 DEF Pruned, FilesInv
  <2>6. ShapesInv' BY <1>1 DEF ShapesInv, clients
  <2>7. JobInv' BY <1>1, <1>2, <1>5, <2>2, <2>3 DEF JobInv, Older
  <2>8. NamesInv'
    <3>1. LastNamed' = used.builds /\ LastNamed = used.builds BY <1>1, <1>5 DEF LastNamed
    <3>2. \A g \in DOMAIN known.of \ Folders' : g = Legacy \/ IsOf(g[1], LastNamed' - 1)
      <4>1. SUFFICES ASSUME NEW g \in DOMAIN known.of, g \notin Folders', g # Legacy PROVE IsOf(g[1], used.builds - 1)
        BY <3>1
      <4>2. g # job.new BY <2>2, <4>1
      <4> QED BY <1>2, <4>1, <4>2 DEF NamesInv
    <3>3. Folders' \subseteq Folders BY <1>5 DEF Pruned
    <3>4. \A g \in DOMAIN known.of : g = Legacy \/ IsName(g, LastNamed') BY <3>1 DEF NamesInv
    <3>5. \A g \in DOMAIN known.of \ {job.new} : g = Legacy \/ IsOf(g[1], used.builds - 1) BY <1>2 DEF NamesInv
    <3>6. Folders' \cup DOMAIN hist'.by \cup known'.shown \subseteq DOMAIN known.of BY <1>1, <3>3 DEF NamesInv
    <3>7. cur' # None => cur' \in Folders' /\ cur' \in known'.shown BY <1>1, <1>2, <2>2 DEF NamesInv
    <3> QED BY <1>1, <1>5, <3>2, <3>4, <3>5, <3>6, <3>7 DEF NamesInv, IsName, IsOf, Twice
  <2>9. FilesInv'
    <3>1. \A g \in Folders' : Whole(g)' \/ (job'.pc = "prune" /\ g \in Doomed')
      <4>1. SUFFICES ASSUME NEW g \in Folders', g \notin Doomed' PROVE Whole(g)' BY <1>1, <1>5
      <4>2. g \in {job.new, job.prev} BY <1>5, <4>1 DEF Doomed
      <4>3. g # f /\ g \in Folders /\ g \notin Doomed BY <2>1, <2>5, <4>2 DEF Doomed
      <4>4. Whole(g) BY <4>3 DEF FilesInv
      <4> QED BY <2>5, <4>1, <4>3, <4>4 DEF Whole
    <3>2. \A g \in Folders' : page'[g].of = known.of[g] /\ page'[g].time \in Nat BY <2>5 DEF FilesInv
    <3>3. "images" \in page'[CurPages].files BY <1>2, <1>3, <2>2 DEF FilesInv
    <3> QED BY <1>1, <2>3, <2>5, <3>1, <3>2, <3>3 DEF FilesInv
  <2>10. ScreenInv' BY <1>1, <1>5, <2>3, <2>5 DEF ScreenInv, Older
  <2>11. TimesInv'
    <3>1. \A g \in DOMAIN hist'.by : g \in Folders' /\ hist'.by[g].at # None => hist'.by[g].at <= page'[g].time
      BY <1>1, <2>5 DEF TimesInv
    <3> QED BY <1>1, <1>2, <1>3, <1>5, <2>2, <2>3, <3>1 DEF TimesInv
  <2>12. HistInv' BY <1>1, <1>5, <1>2, <2>3 DEF HistInv
  <2>13. CachesInv' BY <1>1 DEF CachesInv, clients
  <2> QED BY <1>3, <2>2, <2>3, <2>6, <2>7, <2>8, <2>9, <2>10, <2>11, <2>12, <2>13
<1> QED BY <1>1, <1>4, <1>5

(* The builds stay as the invariant says, whichever step is taken.          *)
LEMMA PublishKeeps ==
  ASSUME SecondsGoOn, BuildsInv, WriteSource \/ PublisherSteps
  PROVE  BuildsInv'
BY WritesKeep, BeginBuildKeeps, MakeKeeps, PublisherFailsKeeps, DateKeeps, BaselineKeeps, RecordKeeps, StartupKeeps,
   NameKeeps, SwapKeeps, PruneKeeps DEF PublisherSteps

-----------------------------------------------------------------------------
(* What a publication means to a read under way *)

Late == {"prune", "date", "head", "baseline"}
(* The read is marked, and else as it was.                                  *)
Carried ==
    /\ read' # NoRead /\ DOMAIN read' = DOMAIN read
    /\ \A x \in DOMAIN read : x \notin {"moved", "lost"} => read'[x] = read[x]
    /\ read.lost \subseteq read'.lost /\ read'.moved \in BOOLEAN /\ (read.moved => read'.moved)
(* A folder is new and whole, or as it was, or lost.                        *)
FoldersCome ==
    /\ \A f \in Folders' : \/ f \in Folders /\ page'[f] = page[f]
                           \/ f \in read'.lost
                           \/ f \notin DOMAIN known.of /\ page'[f].files = Files
    /\ \A f \in Folders : f \in Folders' \/ f \in read'.lost
    /\ \A f \in DOMAIN known.of : f \in DOMAIN known'.of /\ known'.of[f] = known.of[f]
    /\ known.shown \subseteq known'.shown /\ kind' = kind
(* While no build is recorded and none is being published, the screen stays.*)
SeqGoesOn ==
    /\ bstate.seq <= bstate'.seq
    /\ bstate'.seq = bstate.seq /\ ~Publishing' =>
          /\ ~Publishing /\ dated' = dated /\ CurPages' = CurPages
          /\ CurPages \in Folders' => CurPages \in Folders /\ page'[CurPages] = page[CurPages]
(* To a read that saw no page folder come up, none older did.               *)
CalmGoesOn ==
    ~read'.early /\ ~read'.moved =>
        /\ job'.pc \notin Late /\ CurPages' = CurPages /\ known'.before = known.before /\ Folders \subseteq Folders'
        /\ \A f \in Folders' : Older(f, CurPages) => f \in Folders
OnReader == Carried /\ FoldersCome /\ SeqGoesOn /\ CalmGoesOn

(* A step that leaves the read alone, or only marks it.                     *)
LEMMA SameReader ==
  ASSUME read # NoRead, ReadShape, read' = read
  PROVE  Carried
BY DEF Carried, ReadShape, Has0

LEMMA MarkIs ==
  ASSUME read # NoRead, ReadShape
  PROVE  /\ Mark(TRUE, {}) => Carried /\ read'.moved
         /\ \A f : Mark(FALSE, {f}) => Carried /\ f \in read'.lost /\ (read'.moved <=> read.moved)
<1>1. Has0 \subseteq DOMAIN read /\ read.moved \in BOOLEAN /\ read.pc = read.pc BY DEF ReadShape
<1>3. ASSUME Mark(TRUE, {}) PROVE Carried /\ read'.moved
  <2>1. read' = [read EXCEPT !.moved = TRUE, !.lost = @ \cup {}]
    BY <1>1, <1>3 DEF Mark
  <2>2. DOMAIN read' = DOMAIN read /\ read'.moved = TRUE /\ read'.lost = read.lost
        /\ \A x \in DOMAIN read : x \notin {"moved", "lost"} => read'[x] = read[x]
    BY <1>1, <2>1 DEF Has0
  <2>3. read' # NoRead
    <3>1. "lost" \in DOMAIN read' BY <1>1, <2>2 DEF Has0
    <3>2. DOMAIN NoRead = {"pc"} BY DEF NoRead
    <3> QED BY <3>1, <3>2
  <2> QED BY <2>2, <2>3 DEF Carried
<1>4. ASSUME NEW f, Mark(FALSE, {f}) PROVE Carried /\ f \in read'.lost /\ (read'.moved <=> read.moved)
  <2>1. read' = [read EXCEPT !.moved = @ \/ FALSE, !.lost = @ \cup {f}]
    BY <1>4 DEF Mark
  <2>2. DOMAIN read' = DOMAIN read /\ read'.lost = read.lost \cup {f}
        /\ \A x \in DOMAIN read : x \notin {"moved", "lost"} => read'[x] = read[x]
    BY <1>1, <2>1 DEF Has0
  <2>3. read'.moved = (read.moved \/ FALSE) BY <1>1, <2>1 DEF Has0
  <2>4. read'.moved \in BOOLEAN /\ (read'.moved <=> read.moved) BY <1>1, <2>3
  <2>5. read' # NoRead
    <3>1. "lost" \in DOMAIN read' BY <1>1, <2>2 DEF Has0
    <3>2. DOMAIN NoRead = {"pc"} BY DEF NoRead
    <3> QED BY <3>1, <3>2
  <2> QED BY <2>2, <2>4, <2>5 DEF Carried
<1> QED BY <1>3, <1>4

(* A step that leaves the folders alone changes nothing for the read, where a
   build's end shows in the history's number.                               *)
LEMMA StandingBy ==
  ASSUME read # NoRead, ReadShape, FoldersStay, read' = read, bstate.seq \in Nat, bstate'.seq \in Nat,
         bstate.seq < bstate'.seq \/ (bstate'.seq = bstate.seq /\ (Publishing' \/ (~Publishing /\ dated' = dated))),
         job.pc \in Late \/ job'.pc \notin Late
  PROVE  OnReader
<1>1. Carried BY SameReader
<1>2. FoldersCome BY DEF FoldersCome, FoldersStay, Folders
<1>3. CurPages' = CurPages /\ Folders' = Folders /\ page' = page /\ known' = known BY DEF FoldersStay, CurPages, Folders
<1>4. SeqGoesOn BY <1>3 DEF SeqGoesOn
<1>5. CalmGoesOn BY <1>3 DEF CalmGoesOn, ReadShape, Undisturbed, Late, FoldersStay
<1> QED BY <1>1, <1>2, <1>4, <1>5 DEF OnReader

(* The steps of the publisher that name, move and remove no folder.         *)
LEMMA QuietMeetsReader ==
  ASSUME BuildsInv, read # NoRead, ReadShape,
         WriteSource \/ BeginBuild \/ Make \/ PublisherFails \/ Date \/ WriteBaseline \/ Record
  PROVE  OnReader
<1>1. FoldersStay /\ read' = read
  BY DEF WriteSource, BeginBuild, Make, PublisherFails, Date, WriteBaseline, Record, FoldersStay
<1>2. bstate.seq \in Nat /\ "pc" \in DOMAIN job /\ bstate = [state |-> bstate.state, seq |-> bstate.seq]
  BY DEF BuildsInv, HistInv, JobInv, ShapesInv
<1>3. CASE WriteSource \/ BeginBuild \/ Make
  <2>1. bstate'.seq = bstate.seq /\ dated' = dated
    BY <1>2, <1>3 DEF WriteSource, BeginBuild, Make, marks
  <2>2. ~Publishing /\ job'.pc \notin Late
    BY <1>3 DEF WriteSource, BeginBuild, Make, NoJob, Publishing, Late
  <2> QED BY <1>1, <1>2, <2>1, <2>2, StandingBy
<1>4. CASE PublisherFails
  <2>1. bstate'.seq = bstate.seq /\ Publishing' /\ job'.pc \notin Late
    BY <1>4 DEF PublisherFails, Fails, Publishing, Late
  <2> QED BY <1>1, <1>2, <2>1, StandingBy
<1>5. CASE Date
  <2>1. bstate'.seq = bstate.seq /\ job.pc \in {"date", "head"} BY <1>5 DEF Date
  <2>2. Publishing'
    <3>1. CASE Fails BY <3>1 DEF Fails, Publishing
    <3>2. CASE job' = [job EXCEPT !.pc = IF @ = "date" THEN "head" ELSE "baseline"]
      <4>1. job'.pc = IF job.pc = "date" THEN "head" ELSE "baseline" BY <1>2, <3>2
      <4> QED BY <4>1 DEF Publishing
    <3> QED BY <1>5, <3>1, <3>2 DEF Date
  <2>3. job.pc \in Late BY <2>1 DEF Late
  <2> QED BY <1>1, <1>2, <2>1, <2>2, <2>3, StandingBy
<1>6. CASE WriteBaseline
  <2>1. bstate'.seq = bstate.seq /\ job'.pc = "record" /\ job.pc = "baseline"
    BY <1>2, <1>6 DEF WriteBaseline
  <2> QED BY <1>1, <1>2, <2>1, StandingBy DEF Publishing, Late
<1>7. CASE Record
  <2>1. bstate.seq < bstate'.seq /\ bstate'.seq \in Nat BY <1>7, RecordKeeps DEF BuildsInv, HistInv
  <2>2. job'.pc \notin Late BY <1>7 DEF Record, NoJob, Late
  <2> QED BY <1>1, <1>2, <2>1, <2>2, StandingBy
<1> QED BY <1>3, <1>4, <1>5, <1>6, <1>7

LEMMA NameMeetsReader ==
  ASSUME SecondsGoOn, BuildsInv, read # NoRead, ReadShape, NameFolder
  PROVE  OnReader
<1>1. /\ NewName \notin DOMAIN known.of /\ ~Older(NewName, CurPages) /\ NewName # CurPages
      /\ Folders' = Folders \cup {NewName} /\ DOMAIN known'.of = DOMAIN known.of \cup {NewName}
      /\ \A f \in DOMAIN known.of : known'.of[f] = known.of[f]
      /\ \A f \in Folders : page'[f] = page[f]
      /\ page'[NewName].files = Files
      /\ CurPages' = CurPages /\ known'.before = known.before /\ known'.shown = known.shown /\ job'.pc = "swap"
  BY NameKeeps
<1>2. read' = read /\ bstate' = bstate /\ dated' = dated /\ kind' = kind /\ job.pc = "name"
  BY DEF NameFolder, marks
<1>3. Carried BY <1>2, SameReader
<1>4. FoldersCome BY <1>1, <1>2 DEF FoldersCome
<1>5. SeqGoesOn BY <1>1, <1>2 DEF SeqGoesOn, Publishing, BuildsInv, HistInv
<1>6. CalmGoesOn BY <1>1, <1>2 DEF CalmGoesOn, Late
<1> QED BY <1>3, <1>4, <1>5, <1>6 DEF OnReader

LEMMA SwapMeetsReader ==
  ASSUME BuildsInv, read # NoRead, ReadShape, Swap
  PROVE  OnReader
<1>1. /\ job'.pc = "prune" /\ page' = page /\ known'.of = known.of /\ known.shown \subseteq known'.shown
  BY SwapKeeps
<1>2. Mark(TRUE, {}) /\ bstate' = bstate /\ kind' = kind BY DEF Swap
<1>3. Carried /\ read'.moved BY <1>2, MarkIs
<1>4. FoldersCome BY <1>1, <1>2 DEF FoldersCome, Folders
<1>5. SeqGoesOn BY <1>1, <1>2 DEF SeqGoesOn, Publishing, BuildsInv, HistInv
<1>6. CalmGoesOn BY <1>3 DEF CalmGoesOn
<1> QED BY <1>3, <1>4, <1>5, <1>6 DEF OnReader

LEMMA PruneMeetsReader ==
  ASSUME BuildsInv, read # NoRead, ReadShape, Prune
  PROVE  OnReader
<1>1. /\ job.pc = "prune"
      /\ UNCHANGED <<kind, src, cur, known, dated, base, hist, bstate, used>>
      /\ \/ Doomed = {} /\ GoesOn("date") /\ page' = page /\ read' = read
         \/ \E f \in Doomed : Pruned(f) /\ job' = job /\ Mark(FALSE, {f})
  BY PruneIs
<1>2. Shown' /\ CurPages' = CurPages BY PruneKeeps
<1>3. SeqGoesOn
  <2>1. Publishing'
    <3>1. CASE GoesOn("date")
      <4>1. job'.pc = "date" BY <3>1 DEF GoesOn, BuildsInv, JobInv
      <4> QED BY <4>1 DEF Publishing
    <3> QED BY <1>1, <3>1 DEF Publishing
  <2> QED BY <1>1, <2>1 DEF SeqGoesOn, BuildsInv, HistInv
<1>4. ASSUME Carried, read'.moved <=> read.moved PROVE CalmGoesOn
  <2>1. "early" \in DOMAIN read BY DEF ReadShape, Has0
  <2>2. read'.early = read.early BY <1>4, <2>1 DEF Carried
  <2>3. ~Undisturbed BY <1>1 DEF ReadShape
  <2> QED BY <1>4, <2>2, <2>3 DEF CalmGoesOn, Undisturbed
<1>5. CASE page' = page /\ read' = read
  <2>1. Carried BY <1>5, SameReader
  <2>2. FoldersCome BY <1>1, <1>5 DEF FoldersCome, Folders
  <2> QED BY <1>3, <1>4, <1>5, <2>1, <2>2 DEF OnReader
<1>6. ASSUME NEW f \in Doomed, Pruned(f), Mark(FALSE, {f}) PROVE OnReader
  <2>1. Carried /\ f \in read'.lost /\ (read'.moved <=> read.moved) BY <1>6, MarkIs
  <2>2. FoldersCome BY <1>1, <1>6, <2>1 DEF FoldersCome, Pruned
  <2> QED BY <1>3, <1>4, <2>1, <2>2 DEF OnReader
<1> QED BY <1>1, <1>5, <1>6

(* Whatever the publisher does, the read goes on as OnReader says.          *)
LEMMA PublicationMeetsReader ==
  ASSUME SecondsGoOn, BuildsInv, read # NoRead, ReadShape, WriteSource \/ PublisherSteps
  PROVE  OnReader
<1>1. ~Startup BY DEF Startup, BuildsInv, JobInv
<1> QED BY <1>1, QuietMeetsReader, NameMeetsReader, SwapMeetsReader, PruneMeetsReader DEF PublisherSteps

(* A read under way stays as it is described, whatever is published.                    *)
LEMMA ShapeCarried ==
  ASSUME OnReader, ReadShape
  PROVE  ReadShape'
<1> USE DEF OnReader
<1>1. /\ Has0 \subseteq DOMAIN read' /\ read'.moved \in BOOLEAN /\ read'.early = read.early /\ read'.op = read.op
      /\ read.lost \subseteq read'.lost
  BY DEF Carried, ReadShape, Has0
<1>2. \A f \in Folders' : f \in read'.lost \/ Whole(f)'
  <2>1. SUFFICES ASSUME NEW f \in Folders', f \notin read'.lost PROVE f = Legacy \/ page'[f].files = Files BY DEF Whole
  <2>2. CASE f \in Folders /\ page'[f] = page[f] BY <1>1, <2>1, <2>2 DEF ReadShape, Whole
  <2> QED BY <2>1, <2>2 DEF FoldersCome
<1>3. Undisturbed' => job'.pc \notin {"prune", "date", "head", "baseline"}
  BY DEF Undisturbed, CalmGoesOn, Late
<1> QED BY <1>1, <1>2, <1>3 DEF ReadShape

LEMMA MetaCarried ==
  ASSUME OnReader, ReadShape, MetaInv, bstate'.seq \in Nat, bstate.seq \in Nat
  PROVE  MetaInv'
<1> USE DEF OnReader
<1>1. /\ DOMAIN read' = DOMAIN read /\ read'.pc = read.pc /\ read'.seq = read.seq /\ read'.state = read.state
      /\ "build" \in DOMAIN read => read'.build = read.build
      /\ "stale" \in DOMAIN read => read'.stale = read.stale
      /\ "srcAt" \in DOMAIN read => read'.srcAt = read.srcAt
      /\ "dated" \in DOMAIN read => read'.dated = read.dated
  BY DEF Carried, ReadShape, Has0, MetaInv
<1>2. read'.seq <= bstate'.seq BY <1>1 DEF MetaInv, SeqGoesOn
<1>3. ASSUME MetaSame'
      PROVE  /\ MetaSame /\ dated' = dated /\ CurPages' = CurPages
             /\ CurPages \in Folders' => CurPages \in Folders /\ page'[CurPages] = page[CurPages]
  <2>1. bstate'.seq = bstate.seq BY <1>1, <1>3 DEF MetaSame, SeqGoesOn, MetaInv
  <2> QED BY <1>1, <1>3, <2>1 DEF MetaSame, SeqGoesOn
<1>4. kind' = kind BY DEF FoldersCome
<1>5. MetaSame' =>
          /\ read'.pc \in {"stale", "heading", "facts", "answered"} => read'.build = CurPages'
          /\ read'.pc \in {"heading", "facts", "answered"} /\ kind' = "latex" /\ CurPages' \in Folders' /\ ~read'.stale
                => read'.srcAt - page'[CurPages'].time <= 2
          /\ read'.pc \in {"facts", "answered"} => read'.dated = dated'
  BY <1>1, <1>3, <1>4 DEF MetaInv
<1> QED BY <1>1, <1>2, <1>5 DEF MetaInv

LEMMA PickCarried ==
  ASSUME OnReader, ReadShape, PickInv, NamesInv
  PROVE  PickInv'
<1> USE DEF OnReader
<1>1. /\ DOMAIN read' = DOMAIN read /\ read'.pc = read.pc /\ read'.want = read.want /\ read'.page = read.page
      /\ read'.build = read.build /\ read'.text = read.text /\ read.lost \subseteq read'.lost
      /\ "copy" \in DOMAIN read => read'.copy = read.copy
      /\ "region" \in DOMAIN read => read'.region = read.region
  BY DEF Carried, ReadShape, Has0, PickInv
<1>2. read'.want \in Named' BY <1>1 DEF PickInv, Named, FoldersCome
<1>3. \A f \in Folders : f \in Folders' \/ f \in read'.lost BY DEF FoldersCome
<1>4. ASSUME read.pc \in {"map", "trace"}, read.build \notin read'.lost
      PROVE  /\ read.copy => Has(read.build, "pdf")'
             /\ kind' = "figure" => read.region = known'.of[read.build]
  <2>1. read.build \notin read.lost /\ read.build \in Folders BY <1>1, <1>4 DEF PickInv
  <2>2. read.build \in Folders' /\ read.build \in DOMAIN known.of BY <1>3, <1>4, <2>1 DEF NamesInv
  <2>3. page'[read.build] = page[read.build] BY <1>4, <2>1, <2>2 DEF FoldersCome
  <2>4. kind' = kind /\ known'.of[read.build] = known.of[read.build] BY <2>2 DEF FoldersCome
  <2> QED BY <1>1, <1>4, <2>1, <2>2, <2>3, <2>4 DEF PickInv, Has
<1>5. /\ {"want", "page", "build", "text"} \subseteq DOMAIN read' /\ read'.pc \in {"dir", "pdf", "map", "trace", "answered"}
      /\ read'.pc \in {"map", "trace"} => {"copy", "region"} \subseteq DOMAIN read'
      /\ read'.page \in Nat \ {0}
  BY <1>1 DEF PickInv
<1>6. read'.pc = "dir" => read'.want = None \/ read'.want \in Folders' \/ read'.want \in read'.lost
  BY <1>1, <1>3 DEF PickInv
<1>7. read'.pc \in {"pdf", "map", "trace"} =>
        /\ read'.build # None /\ (read'.build \in Folders' \/ read'.build \in read'.lost)
        /\ read'.want \in {None, read'.build} \/ read'.want \in read'.lost
  BY <1>1, <1>3 DEF PickInv
<1>8. read'.pc \in {"map", "trace"} /\ read'.build \notin read'.lost =>
        /\ read'.copy => (read'.build \in Folders' /\ "pdf" \in page'[read'.build].files)
        /\ kind' = "figure" => read'.region = known'.of[read'.build]
  BY <1>1, <1>4, <1>5 DEF Has
<1> QED BY <1>2, <1>5, <1>6, <1>7, <1>8 DEF PickInv, Has

LEMMA UrlCarried ==
  ASSUME OnReader, ReadShape, UrlInv
  PROVE  UrlInv'
<1>1. /\ DOMAIN read' = DOMAIN read /\ read'.pc = read.pc /\ read'.want = read.want /\ read'.build = read.build
  BY DEF OnReader, Carried, ReadShape, Has0, UrlInv
<1> QED BY <1>1 DEF OnReader, FoldersCome, UrlInv, Named

LEMMA CompanionCarried ==
  ASSUME OnReader, ReadShape, CompanionInv
  PROVE  CompanionInv'
<1>1. /\ DOMAIN read' = DOMAIN read /\ read'.pc = read.pc /\ read'.want = read.want /\ read'.build = read.build
  BY DEF OnReader, Carried, ReadShape, Has0, CompanionInv
<1> QED BY <1>1 DEF OnReader, FoldersCome, CompanionInv, Named

LEMMA PositionCarried ==
  ASSUME OnReader, ReadShape, PositionInv
  PROVE  PositionInv'
<1>1. /\ DOMAIN read' = DOMAIN read /\ read'.pc = read.pc
      /\ "by" \in DOMAIN read => read'.by = read.by
  BY DEF OnReader, Carried, ReadShape, Has0
<1>3. read.pc \in {"baseline", "answered"} => SameMeansSame(read.by)'
  <2>1. SUFFICES ASSUME read.pc \in {"baseline", "answered"} PROVE SameMeansSame(read.by)' OBVIOUS
  <2>2. SameMeansSame(read.by) /\ read'.by = read.by BY <1>1, <2>1 DEF PositionInv
  <2> QED BY <2>2 DEF SameMeansSame, SameSource, OnReader, FoldersCome
<1> QED BY <1>1, <1>3 DEF PositionInv

LEMMA OverlayCarried ==
  ASSUME OnReader, ReadShape, OverlayInv, ScreenInv'
  PROVE  OverlayInv'
<1> USE DEF OnReader
<1>1. /\ DOMAIN read' = DOMAIN read /\ read'.pc = read.pc
      /\ read'.early = read.early /\ (read.moved => read'.moved)
      /\ "names" \in DOMAIN read => read'.names = read.names
  BY DEF Carried, ReadShape, Has0
<1>2. kind' = kind BY DEF FoldersCome
<1>3. ASSUME read.pc = "previous", Undisturbed'
      PROVE  /\ \A f \in read.names : Older(f, CurPages') => f \in Folders'
             /\ known'.before \in Folders' => known'.before \in read.names
  <2>1. Undisturbed BY <1>1, <1>3 DEF Undisturbed, ReadShape
  <2>2. CurPages' = CurPages /\ known'.before = known.before /\ Folders \subseteq Folders'
        /\ \A f \in Folders' : Older(f, CurPages) => f \in Folders
    BY <1>1, <1>3 DEF CalmGoesOn, Undisturbed
  <2>3. known'.before \in Folders' => Older(known'.before, CurPages')
    BY <1>2 DEF OverlayInv, ScreenInv, Older
  <2>4. known'.before \in Folders' => known.before \in Folders BY <2>2, <2>3 DEF Older
  <2> QED BY <1>3, <2>1, <2>2, <2>4 DEF OverlayInv, Older
<1> QED BY <1>1, <1>2, <1>3 DEF OverlayInv, Older

(* What the invariant says of a read holds on while others take their steps. *)
LEMMA ReadCarried ==
  ASSUME OnReader, BuildsInv, BuildsInv', ReadInv, read # NoRead
  PROVE  ReadInv'
<1>1. ReadShape BY DEF ReadInv
<1>2. ReadShape' BY <1>1, ShapeCarried
<1>3. read'.op = read.op BY <1>1 DEF OnReader, Carried, ReadShape, Has0
<1>4. read'.op = "meta" => MetaInv' BY <1>1, <1>3, MetaCarried DEF ReadInv, BuildsInv, HistInv
<1>5. read'.op = "pick" => PickInv' BY <1>1, <1>3, PickCarried DEF ReadInv, BuildsInv
<1>6. read'.op = "url" => UrlInv' BY <1>1, <1>3, UrlCarried DEF ReadInv
<1>7. read'.op = "position" => PositionInv' BY <1>1, <1>3, PositionCarried DEF ReadInv
<1>8. read'.op = "overlay" => OverlayInv' BY <1>1, <1>3, OverlayCarried DEF ReadInv, BuildsInv
<1>9. read'.op = "companion" => CompanionInv' BY <1>1, <1>3, CompanionCarried DEF ReadInv
<1> QED BY <1>2, <1>4, <1>5, <1>6, <1>7, <1>8, <1>9 DEF ReadInv

-----------------------------------------------------------------------------
(* The steps of a read *)

(* One look of a read adds what it saw; the last one answers.               *)
LEMMA ThenIs ==
  ASSUME NEW more, Then(more)
  PROVE  /\ DOMAIN read' = DOMAIN read \cup DOMAIN more
         /\ \A x \in DOMAIN more : read'[x] = more[x]
         /\ \A x \in DOMAIN read : x \notin DOMAIN more => read'[x] = read[x]
         /\ UNCHANGED <<kind, src, out, page, cur, dated, base, hist, bstate, job, known, used>>
BY DEF Then, With, marks

LEMMA AnswerIs ==
  ASSUME NEW more, Answer(more)
  PROVE  /\ DOMAIN read' = DOMAIN read \cup DOMAIN more \cup {"pc"} /\ read'.pc = "answered"
         /\ \A x \in DOMAIN more : x # "pc" => read'[x] = more[x]
         /\ \A x \in DOMAIN read : x \notin DOMAIN more \cup {"pc"} => read'[x] = read[x]
         /\ UNCHANGED <<kind, src, out, page, cur, dated, base, hist, bstate, job, known, used>>
<1> DEFINE m == With(more, [pc |-> "answered"])
<1>1. /\ DOMAIN m = DOMAIN more \cup {"pc"} /\ m.pc = "answered"
      /\ \A x \in DOMAIN more : x # "pc" => m[x] = more[x]
  BY DEF With
<1>2. Then(m) BY DEF Answer
<1> HIDE DEF m
<1> QED BY <1>1, <1>2, ThenIs

(* What every look leaves as it was.                                        *)
Looked ==
    /\ read # NoRead /\ DOMAIN read \subseteq DOMAIN read'
    /\ read'.op = read.op /\ read'.moved = read.moved /\ read'.early = read.early /\ read'.lost = read.lost
    /\ UNCHANGED <<kind, src, page, cur, dated, base, hist, bstate, job, known, used>>

MapEntry == [build : Nat \X Nat, time : Nat, of : Texts12]
CachesGood == /\ maps \in Seq(MapEntry)
              /\ \A i \in DOMAIN maps : maps[i].build \in DOMAIN known.of /\ maps[i].of = known.of[maps[i].build]
              /\ \A url \in DOMAIN browser : url[1] \in DOMAIN known.of /\ browser[url] = known.of[url[1]]

(* The caches say what was made, and a read that only looks leaves all as it is. *)
LEMMA CachesAreGood ==
  ASSUME BuildsInv
  PROVE  CachesGood
BY DEF BuildsInv, ShapesInv, CachesInv, CachesGood, MapEntry

LEMMA StandingStill ==
  ASSUME BuildsInv, UNCHANGED <<kind, src, page, cur, dated, base, hist, bstate, job, known>>, job.pc # "startup",
         used' = used \/ used' = [used EXCEPT !.reads = @ + 1], CachesGood'
  PROVE  BuildsInv'
<1> USE DEF BuildsInv
<1>1. used'.builds = used.builds
      /\ used' = [writes |-> used'.writes, builds |-> used'.builds, reads |-> used'.reads, mishaps |-> used'.mishaps]
  BY DEF ShapesInv
<1>2. Shown' = Shown /\ LastNamed' = LastNamed /\ Folders' = Folders /\ CurPages' = CurPages
  BY <1>1 DEF Shown, LastNamed, Folders, CurPages
<1>3. ShapesInv' BY <1>1 DEF ShapesInv, CachesGood, MapEntry
<1>4. JobInv' BY <1>1, <1>2 DEF JobInv, Older, Texts12
<1>5. NamesInv' BY <1>1, <1>2 DEF NamesInv, IsName, IsOf, Twice, Texts12
<1>6. FilesInv' BY <1>2 DEF FilesInv, Whole, Doomed
<1>7. ScreenInv' BY <1>2 DEF ScreenInv, Older
<1>8. TimesInv' BY <1>2 DEF TimesInv, Texts12
<1>9. HistInv' BY <1>2 DEF HistInv
<1>10. CachesInv' BY DEF CachesInv, CachesGood
<1> QED BY <1>3, <1>4, <1>5, <1>6, <1>7, <1>8, <1>9, <1>10

(* A look that keeps the caches good leaves the builds as the invariant says. *)
LEMMA LookedKeeps ==
  ASSUME BuildsInv, ReadInv, Looked, CachesGood'
  PROVE  BuildsInv' /\ ReadShape'
<1>1. ReadShape BY DEF ReadInv, Looked
<1>2. job.pc # "startup" BY DEF BuildsInv, JobInv, Looked
<1>3. BuildsInv' BY <1>2, StandingStill DEF Looked
<1>4. ReadShape' BY <1>1 DEF ReadShape, Looked, Whole, Folders, Undisturbed, Has0
<1> QED BY <1>3, <1>4

(* An answer tells of one read alone, and a read not answered of none.      *)
LEMMA NothingSaid ==
  ASSUME BuildsInv', read'.pc # "answered"
  PROVE  ReadsAreOfOneBuild' /\ BuildsStayApart'
BY DEF BuildsInv, CachesInv, ReadsAreOfOneBuild, BuildsStayApart, MetaIsOfTheScreen, PickIsOnItsBuild, OverlayIsTwoBuilds,
       BuildsAnswerForThemselves, ExactIsSameSource, Answered

(* An answer of one kind promises what is said of that kind.                *)
LEMMA OneSaid ==
  ASSUME BuildsInv',
         \/ read'.op = "meta" /\ MetaIsOfTheScreen'
         \/ read'.op = "pick" /\ PickIsOnItsBuild'
         \/ read'.op = "overlay" /\ OverlayIsTwoBuilds'
         \/ read'.op = "position" /\ ExactIsSameSource'
         \/ read'.op \in {"url", "companion"} /\ BuildsAnswerForThemselves'
  PROVE  ReadsAreOfOneBuild' /\ BuildsStayApart'
BY DEF BuildsInv, CachesInv, ReadsAreOfOneBuild, BuildsStayApart, MetaIsOfTheScreen, PickIsOnItsBuild, OverlayIsTwoBuilds,
       BuildsAnswerForThemselves, ExactIsSameSource, Answered

-----------------------------------------------------------------------------
(* The map cache *)

(* A folder's element map is of the text the folder was made of.            *)
LEMMA MapTells ==
  ASSUME BuildsInv, NEW f
  PROVE  /\ ReadMap(f) = IF Has(f, "companion") THEN known.of[f] ELSE None
         /\ \A file : Has(f, file) => /\ f \in DOMAIN known.of /\ page[f].of = known.of[f] /\ known.of[f] # None
                                      /\ known.of[f] \in Texts12 /\ page[f].time \in Nat /\ f \in Nat \X Nat
<1>1. ASSUME NEW file, Has(f, file)
      PROVE  /\ f \in DOMAIN known.of /\ page[f].of = known.of[f] /\ known.of[f] # None
             /\ known.of[f] \in Texts12 /\ page[f].time \in Nat /\ f \in Nat \X Nat
  <2>1. f \in Folders BY <1>1 DEF Has
  <2>2. f \in DOMAIN known.of /\ known.of[f] \in Texts12 BY <2>1 DEF BuildsInv, NamesInv
  <2>3. page[f].of = known.of[f] /\ page[f].time \in Nat BY <2>1 DEF BuildsInv, FilesInv
  <2>4. f \in Nat \X Nat BY <2>2, KnownArePairs, PairsAreSome DEF BuildsInv
  <2> QED BY <2>2, <2>3, <2>4, TextsAreSome
<1>2. CASE ~Has(f, "companion") BY <1>1, <1>2 DEF ReadMap
<1>3. CASE Has(f, "companion") /\ ~MapHit(f) BY <1>1, <1>3 DEF ReadMap
<1>4. CASE Has(f, "companion") /\ MapHit(f)
  <2> DEFINE m == CHOOSE m \in Range(maps) : m.build = f /\ m.time = page[f].time
  <2>1. \E x \in Range(maps) : x.build = f /\ x.time = page[f].time BY <1>4 DEF MapHit, Range
  <2>2. m \in Range(maps) /\ m.build = f BY <2>1
  <2>3. MapOf(f) = m.of BY DEF MapOf
  <2> HIDE DEF m
  <2>4. PICK i \in DOMAIN maps : m = maps[i] BY <2>2 DEF Range
  <2>5. m.of = known.of[f] BY <2>2, <2>4 DEF BuildsInv, CachesInv
  <2> QED BY <1>1, <1>4, <2>3, <2>5 DEF ReadMap
<1> QED BY <1>1, <1>2, <1>3, <1>4

LEMMA CacheMapKeeps ==
  ASSUME BuildsInv, NEW f, CacheMap(f), browser' = browser, known' = known
  PROVE  CachesGood'
<1>1. CachesGood BY CachesAreGood
<1>2. CASE maps' = maps BY <1>1, <1>2 DEF CachesGood, MapEntry, Texts12
<1>3. CASE Has(f, "companion") /\ ~MapHit(f)
  <2> DEFINE e == [build |-> f, time |-> page[f].time, of |-> page[f].of]
             s == Append(maps, e)
  <2>1. f \in DOMAIN known.of /\ page[f].of = known.of[f] /\ known.of[f] \in Texts12 /\ page[f].time \in Nat /\ f \in Nat \X Nat
    BY <1>3, MapTells
  <2>2. e \in MapEntry /\ e.build \in DOMAIN known.of /\ e.of = known.of[e.build] BY <2>1 DEF MapEntry
  <2>3. maps' = Evicted(s) BY <1>3 DEF CacheMap
  <2> HIDE DEF e
  <2>4. maps \in Seq(MapEntry) BY <1>1 DEF CachesGood
  <2>5. /\ s \in Seq(MapEntry) /\ Len(s) = Len(maps) + 1 /\ s[Len(maps) + 1] = e
        /\ \A i \in 1..Len(maps) : s[i] = maps[i]
    BY <2>2, <2>4, AppendProperties
  <2>6. \A i \in DOMAIN s : s[i].build \in DOMAIN known.of /\ s[i].of = known.of[s[i].build]
    <3>1. SUFFICES ASSUME NEW i \in 1..Len(s) PROVE s[i].build \in DOMAIN known.of /\ s[i].of = known.of[s[i].build]
      BY <2>5
    <3>2. CASE i \in 1..Len(maps) BY <1>1, <2>4, <2>5, <3>2 DEF CachesGood
    <3>3. CASE i = Len(maps) + 1 BY <2>2, <2>5, <3>3
    <3> QED BY <2>4, <2>5, <3>2, <3>3
  <2> HIDE DEF s
  <2>7. s # <<>>
    <3>1. Len(maps) \in Nat BY <2>4
    <3> QED BY <2>5, <3>1
  <2>8. /\ Tail(s) \in Seq(MapEntry)
        /\ \A i \in DOMAIN Tail(s) : i + 1 \in DOMAIN s /\ Tail(s)[i] = s[i + 1]
    BY <2>5, <2>7
  <2>9. /\ maps' \in Seq(MapEntry)
        /\ \A i \in DOMAIN maps' : maps'[i].build \in DOMAIN known.of /\ maps'[i].of = known.of[maps'[i].build]
    <3>1. CASE maps' = s BY <2>5, <2>6, <3>1
    <3>2. CASE maps' = Tail(s) BY <2>6, <2>8, <3>2
    <3> QED BY <2>3, <3>1, <3>2 DEF Evicted
  <2> QED BY <1>1, <2>9 DEF CachesGood, MapEntry, Texts12
<1> QED BY <1>2, <1>3 DEF CacheMap

-----------------------------------------------------------------------------
(* The first look *)

(* A read that begins finds the builds as they are.                         *)
LEMMA BeginIs ==
  ASSUME BuildsInv, NEW op, NEW more, BeginRead(op, more), UNCHANGED clients, "pc" \in DOMAIN more,
         {"op", "moved", "early", "lost"} \cap DOMAIN more = {}
  PROVE  /\ BuildsInv' /\ ReadShape' /\ read = NoRead
         /\ DOMAIN read' = Has0 \cup DOMAIN more /\ read'.op = op
         /\ \A x \in DOMAIN more : read'[x] = more[x]
         /\ UNCHANGED <<kind, src, page, cur, dated, base, hist, bstate, job, maps, browser, known>>
<1> DEFINE mine == [op |-> op, moved |-> FALSE, early |-> Publishing, lost |-> IF job.pc = "prune" THEN Doomed ELSE {}]
<1>1. /\ op \in Limits[kind].ops /\ read = NoRead /\ job.pc # "startup"
      /\ read' = With(more, mine) /\ used' = [used EXCEPT !.reads = @ + 1]
      /\ UNCHANGED <<kind, src, page, cur, dated, base, hist, bstate, job, maps, browser, known>>
  BY DEF BeginRead, Spend, marks, clients
<1>2. /\ DOMAIN mine = {"op", "moved", "early", "lost"} /\ mine.op = op /\ mine.moved = FALSE
      /\ mine.early = Publishing /\ mine.lost = IF job.pc = "prune" THEN Doomed ELSE {}
  OBVIOUS
<1> HIDE DEF mine
<1>3. /\ DOMAIN read' = Has0 \cup DOMAIN more /\ read'.op = op /\ read'.moved = FALSE /\ read'.early = Publishing
      /\ read'.lost = IF job.pc = "prune" THEN Doomed ELSE {}
      /\ \A x \in DOMAIN more : read'[x] = more[x]
  BY <1>1, <1>2 DEF With, Has0
<1>4. CachesGood'
  <2>1. CachesGood BY CachesAreGood
  <2> QED BY <1>1, <2>1 DEF CachesGood, MapEntry, Texts12
<1>5. BuildsInv' BY <1>1, <1>4, StandingStill
<1>6. ReadShape'
  <2>1. op \in {"meta", "pick", "url", "position", "overlay", "companion"}
    BY <1>1, BuildReadersAssumption DEF BuildsInv, ShapesInv
  <2>2. \A f \in Folders' : f \in read'.lost \/ Whole(f)'
    BY <1>1, <1>3 DEF BuildsInv, FilesInv, Whole, Folders
  <2>3. Publishing \in BOOLEAN BY DEF Publishing
  <2>4. ~Publishing => job.pc \notin {"prune", "date", "head", "baseline"} BY DEF Publishing
  <2> QED BY <1>1, <1>3, <2>1, <2>2, <2>3, <2>4 DEF ReadShape, Undisturbed
<1> QED BY <1>1, <1>3, <1>5, <1>6

(* A read is asked for, and not answered yet or answered at once.           *)
LEMMA MetaBegins ==
  ASSUME BuildsInv, MetaState
  PROVE  BuildsInv' /\ ReadInv' /\ read'.pc # "answered"
<1> DEFINE more == [pc |-> "pages", seq |-> bstate.seq, state |-> bstate.state]
<1>1. BeginRead("meta", more) /\ UNCHANGED clients BY DEF MetaState, BeginRead
<1>2. DOMAIN more = {"pc", "seq", "state"} /\ more.pc = "pages" /\ more.seq = bstate.seq OBVIOUS
<1> HIDE DEF more
<1>3. /\ BuildsInv' /\ ReadShape' /\ DOMAIN read' = Has0 \cup DOMAIN more /\ read'.op = "meta"
      /\ read'.pc = "pages" /\ read'.seq = bstate.seq /\ bstate' = bstate
  BY <1>1, <1>2, BeginIs
<1>4. bstate.seq \in Nat BY DEF BuildsInv, HistInv
<1>5. MetaInv' BY <1>2, <1>3, <1>4 DEF MetaInv
<1> QED BY <1>3, <1>5 DEF ReadInv

LEMMA PickBegins ==
  ASSUME BuildsInv, PickAsks
  PROVE  BuildsInv' /\ ReadInv' /\ ReadsAreOfOneBuild' /\ BuildsStayApart'
<1> DEFINE more(want, n) == [pc |-> IF want # None /\ want \notin Folders THEN "answered" ELSE "dir",
                             want |-> want, page |-> n, build |-> None, text |-> None]
<1>1. PICK want \in Named, n \in 1..Max({PagesOf(t) : t \in Texts}) : BeginRead("pick", more(want, n)) BY DEF PickAsks
<1> DEFINE m == more(want, n)
<1>2. /\ DOMAIN m = {"pc", "want", "page", "build", "text"} /\ m.want = want /\ m.page = n /\ m.build = None
      /\ m.pc = IF want # None /\ want \notin Folders THEN "answered" ELSE "dir"
  OBVIOUS
<1>3. BeginRead("pick", m) /\ UNCHANGED clients BY <1>1 DEF BeginRead
<1> HIDE DEF m, more
<1>4. /\ BuildsInv' /\ ReadShape' /\ DOMAIN read' = Has0 \cup DOMAIN m /\ read'.op = "pick" /\ read'.pc = m.pc
      /\ read'.want = want /\ read'.page = n /\ read'.build = None /\ UNCHANGED <<kind, page, known>>
  BY <1>2, <1>3, BeginIs
<1>5. n \in Nat \ {0} BY <1>1
<1>6. PickInv' BY <1>1, <1>2, <1>4, <1>5 DEF PickInv, Named, Folders
<1>7. PickIsOnItsBuild' BY <1>4 DEF PickIsOnItsBuild
<1> QED BY <1>4, <1>6, <1>7, OneSaid DEF ReadInv

LEMMA UrlBegins ==
  ASSUME BuildsInv, UrlAsks
  PROVE  BuildsInv' /\ ReadInv' /\ ReadsAreOfOneBuild' /\ BuildsStayApart'
<1> DEFINE more(want, file) == [pc |-> IF BuildFile(want) = None THEN "answered" ELSE "bytes",
                                want |-> want, build |-> BuildFile(want), file |-> file, text |-> None]
<1>1. PICK want \in Named, file \in {"images", "pdf"} : BeginRead("url", more(want, file)) BY DEF UrlAsks
<1> DEFINE m == more(want, file)
<1>2. /\ DOMAIN m = {"pc", "want", "build", "file", "text"} /\ m.want = want /\ m.build = BuildFile(want) /\ m.text = None
      /\ m.pc = IF BuildFile(want) = None THEN "answered" ELSE "bytes"
  OBVIOUS
<1>3. BeginRead("url", m) /\ UNCHANGED clients BY <1>1 DEF BeginRead
<1> HIDE DEF m, more
<1>4. /\ BuildsInv' /\ ReadShape' /\ DOMAIN read' = Has0 \cup DOMAIN m /\ read'.op = "url" /\ read'.pc = m.pc
      /\ read'.want = want /\ read'.build = BuildFile(want) /\ read'.text = None /\ UNCHANGED <<kind, page, known>>
  BY <1>2, <1>3, BeginIs
<1>5. BuildFile(want) # None => want = None \/ want = BuildFile(want) BY DEF BuildFile
<1>6. UrlInv' BY <1>1, <1>2, <1>4, <1>5 DEF UrlInv, Named
<1>7. BuildsAnswerForThemselves'
  <2>1. CASE read'.pc = "answered"
    <3>1. read'.build = None BY <1>2, <1>4, <2>1
    <3> QED BY <1>4, <3>1 DEF BuildsAnswerForThemselves, Answered, BuildsInv, CachesInv
  <2>2. CASE read'.pc # "answered" BY <1>4, <2>2 DEF BuildsAnswerForThemselves, Answered, BuildsInv, CachesInv
  <2> QED BY <2>1, <2>2
<1> QED BY <1>4, <1>6, <1>7, OneSaid DEF ReadInv

LEMMA PositionBegins ==
  ASSUME BuildsInv, PositionAsks
  PROVE  BuildsInv' /\ ReadInv' /\ read'.pc # "answered"
<1> DEFINE m == [pc |-> "history", build |-> CurPages]
<1>1. DOMAIN m = {"pc", "build"} /\ m.pc = "history" OBVIOUS
<1>2. BeginRead("position", m) /\ UNCHANGED clients BY DEF PositionAsks, BeginRead
<1> HIDE DEF m
<1>3. BuildsInv' /\ ReadShape' /\ DOMAIN read' = Has0 \cup DOMAIN m /\ read'.op = "position" /\ read'.pc = "history"
  BY <1>1, <1>2, BeginIs
<1>4. PositionInv' BY <1>1, <1>3 DEF PositionInv
<1> QED BY <1>3, <1>4 DEF ReadInv

LEMMA OverlayBegins ==
  ASSUME BuildsInv, OverlayAsks
  PROVE  BuildsInv' /\ ReadInv' /\ read'.pc # "answered"
<1> DEFINE m == [pc |-> "list", build |-> CurPages]
<1>1. DOMAIN m = {"pc", "build"} /\ m.pc = "list" OBVIOUS
<1>2. BeginRead("overlay", m) /\ UNCHANGED clients /\ kind = "figure" BY DEF OverlayAsks, BeginRead
<1> HIDE DEF m
<1>3. BuildsInv' /\ ReadShape' /\ DOMAIN read' = Has0 \cup DOMAIN m /\ read'.op = "overlay" /\ read'.pc = "list" /\ kind' = kind
  BY <1>1, <1>2, BeginIs
<1>4. OverlayInv' BY <1>1, <1>2, <1>3 DEF OverlayInv
<1> QED BY <1>3, <1>4 DEF ReadInv

LEMMA CompanionBegins ==
  ASSUME BuildsInv, CompanionAsks
  PROVE  BuildsInv' /\ ReadInv' /\ read'.pc # "answered"
<1> DEFINE more(want) == [pc |-> "read", build |-> IF want = None THEN CurPages ELSE want, want |-> want, text |-> None]
<1>1. PICK want \in Named : BeginRead("companion", more(want)) BY DEF CompanionAsks
<1> DEFINE m == more(want)
<1>2. /\ DOMAIN m = {"pc", "build", "want", "text"} /\ m.pc = "read" /\ m.want = want
      /\ m.build = IF want = None THEN CurPages ELSE want
  OBVIOUS
<1>3. BeginRead("companion", m) /\ UNCHANGED clients /\ kind # "pdf" BY <1>1 DEF CompanionAsks, BeginRead
<1> HIDE DEF m, more
<1>4. /\ BuildsInv' /\ ReadShape' /\ DOMAIN read' = Has0 \cup DOMAIN m /\ read'.op = "companion" /\ read'.pc = "read"
      /\ read'.want = want /\ read'.build = m.build /\ UNCHANGED <<kind, page, known>>
  BY <1>2, <1>3, BeginIs
<1>5. CompanionInv' BY <1>1, <1>2, <1>3, <1>4 DEF CompanionInv, Named
<1> QED BY <1>4, <1>5 DEF ReadInv

-----------------------------------------------------------------------------
(* GET /api/meta *)

(* A read of which a step is taken is under way.                            *)
LEMMA PendingIs ==
  ASSUME ReadInv, NEW op, NEW pc, Look(op, pc), pc # "none"
  PROVE  read # NoRead /\ ReadShape /\ read.op = op /\ read.pc = pc
BY DEF Look, NoRead, ReadInv

(* The looks before the last keep what is said of the screen.               *)
LEMMA MetaLooks ==
  ASSUME BuildsInv, ReadInv, MetaPages \/ MetaStale \/ MetaHeading
  PROVE  BuildsInv' /\ ReadInv' /\ read'.pc # "answered"
<1>1. PICK pc \in {"pages", "stale", "heading"} : Look("meta", pc)
  BY DEF MetaPages, MetaStale, MetaHeading
<1>2. read # NoRead /\ ReadShape /\ read.op = "meta" /\ read.pc = pc /\ MetaInv BY <1>1, PendingIs DEF ReadInv
<1>3. UNCHANGED clients BY DEF MetaPages, MetaStale, MetaHeading
<1> DEFINE Goes(more, fields) ==
      /\ DOMAIN read' = DOMAIN read \cup fields
      /\ \A x \in DOMAIN read : x \notin fields => read'[x] = read[x]
<1>4. ASSUME NEW more, Then(more), "pc" \in DOMAIN more, DOMAIN more \subseteq {"pc", "build", "stale", "srcAt", "dated"}
      PROVE  /\ Goes(more, DOMAIN more) /\ \A x \in DOMAIN more : read'[x] = more[x]
             /\ BuildsInv' /\ ReadShape' /\ Looked /\ read'.seq = read.seq /\ read'.state = read.state
             /\ CurPages' = CurPages /\ Folders' = Folders /\ (MetaSame' <=> MetaSame)
  <2>1. /\ Goes(more, DOMAIN more) /\ \A x \in DOMAIN more : read'[x] = more[x]
        /\ UNCHANGED <<kind, src, out, page, cur, dated, base, hist, bstate, job, known, used>>
    BY <1>4, ThenIs
  <2>2. /\ Looked /\ read'.seq = read.seq /\ read'.state = read.state
    BY <1>2, <1>4, <2>1 DEF Looked, ReadShape, Has0, MetaInv
  <2>3. CachesGood'
    <3>1. CachesGood BY CachesAreGood
    <3> QED BY <1>3, <2>1, <3>1 DEF CachesGood, MapEntry, Texts12, clients
  <2>4. BuildsInv' /\ ReadShape' BY <2>2, <2>3, LookedKeeps
  <2> QED BY <2>1, <2>2, <2>4 DEF CurPages, Folders, MetaSame, Publishing
<1>5. CASE MetaPages
  <2> DEFINE m == [pc |-> "stale", build |-> CurPages]
  <2>1. DOMAIN m = {"pc", "build"} /\ m.pc = "stale" /\ m.build = CurPages OBVIOUS
  <2>2. Then(m) /\ read.pc = "pages" BY <1>5 DEF MetaPages, Look
  <2> HIDE DEF m
  <2>3. /\ Goes(m, DOMAIN m) /\ read'.pc = "stale" /\ read'.build = CurPages
        /\ BuildsInv' /\ ReadShape' /\ Looked /\ read'.seq = read.seq /\ read'.state = read.state
        /\ CurPages' = CurPages /\ Folders' = Folders /\ (MetaSame' <=> MetaSame)
    BY <1>4, <2>1, <2>2
  <2>4. MetaInv' BY <1>2, <2>1, <2>3 DEF MetaInv, Looked
  <2> QED BY <1>2, <2>3, <2>4 DEF ReadInv, Looked
<1>6. CASE MetaStale
  <2> DEFINE new == kind = "latex" /\ SourceNewer(RefMtime)
             m == [pc |-> "heading", stale |-> new, srcAt |-> src.at]
  <2>1. DOMAIN m = {"pc", "stale", "srcAt"} /\ m.pc = "heading" /\ m.stale = new /\ m.srcAt = src.at OBVIOUS
  <2>2. Then(m) /\ read.pc = "stale" BY <1>6 DEF MetaStale, Look
  <2> HIDE DEF m
  <2>3. /\ Goes(m, DOMAIN m) /\ read'.pc = "heading" /\ read'.stale = new /\ read'.srcAt = src.at
        /\ BuildsInv' /\ ReadShape' /\ Looked /\ read'.seq = read.seq /\ read'.state = read.state
        /\ CurPages' = CurPages /\ Folders' = Folders /\ (MetaSame' <=> MetaSame)
    BY <1>4, <2>1, <2>2
  <2>4. ASSUME kind = "latex", CurPages \in Folders, ~new PROVE src.at - page[CurPages].time <= 2
    <3> DEFINE t == page[CurPages].time
    <3>1. t \in Nat /\ src.at \in Nat BY <2>4 DEF BuildsInv, FilesInv, TimesInv
    <3>2. RefMtime \in Nat /\ RefMtime <= t
      <4>1. CASE CurPages \in DOMAIN hist.by /\ hist.by[CurPages].at # None
        <5>1. RefMtime = hist.by[CurPages].at BY <4>1 DEF RefMtime
        <5>2. hist.by[CurPages].at \in Nat BY <4>1 DEF BuildsInv, HistInv
        <5>3. hist.by[CurPages].at <= t BY <2>4, <4>1 DEF BuildsInv, TimesInv
        <5> QED BY <5>1, <5>2, <5>3
      <4>2. CASE ~(CurPages \in DOMAIN hist.by /\ hist.by[CurPages].at # None) /\ base # None
        <5>1. RefMtime = base BY <4>2 DEF RefMtime
        <5>2. base \in Nat /\ base <= t BY <2>4, <4>2 DEF BuildsInv, TimesInv
        <5> QED BY <5>1, <5>2
      <4>3. CASE ~(CurPages \in DOMAIN hist.by /\ hist.by[CurPages].at # None) /\ base = None
        <5>1. RefMtime = t BY <2>4, <4>3 DEF RefMtime
        <5> QED BY <3>1, <5>1
      <4> QED BY <4>1, <4>2, <4>3
    <3>3. RefMtime # None BY <3>2, BuildReadersAssumption
    <3>4. ~(src.at - RefMtime > 2) BY <2>4, <3>3 DEF SourceNewer
    <3> HIDE DEF t
    <3>5. src.at - t <= 2 BY <3>1, <3>2, <3>4
    <3> QED BY <3>5 DEF t
  <2>5. read'.build = read.build BY <1>2, <2>1, <2>2, <2>3 DEF MetaInv
  <2> HIDE DEF new
  <2>6. MetaInv' BY <1>2, <2>1, <2>2, <2>3, <2>4, <2>5 DEF MetaInv, Looked
  <2> QED BY <1>2, <2>3, <2>6 DEF ReadInv, Looked
<1>7. CASE MetaHeading
  <2> DEFINE m == [pc |-> "facts", dated |-> dated]
  <2>1. DOMAIN m = {"pc", "dated"} /\ m.pc = "facts" /\ m.dated = dated OBVIOUS
  <2>2. Then(m) /\ read.pc = "heading" BY <1>7 DEF MetaHeading, Look
  <2> HIDE DEF m
  <2>3. /\ Goes(m, DOMAIN m) /\ read'.pc = "facts" /\ read'.dated = dated
        /\ BuildsInv' /\ ReadShape' /\ Looked /\ read'.seq = read.seq /\ read'.state = read.state
        /\ CurPages' = CurPages /\ Folders' = Folders /\ (MetaSame' <=> MetaSame)
    BY <1>4, <2>1, <2>2
  <2>4. read'.build = read.build /\ read'.stale = read.stale /\ read'.srcAt = read.srcAt
    BY <1>2, <2>1, <2>2, <2>3 DEF MetaInv
  <2>5. MetaInv' BY <1>2, <2>1, <2>2, <2>3, <2>4 DEF MetaInv, Looked
  <2> QED BY <1>2, <2>3, <2>5 DEF ReadInv, Looked
<1> QED BY <1>5, <1>6, <1>7

LEMMA MetaAnswers ==
  ASSUME BuildsInv, ReadInv, MetaFacts
  PROVE  BuildsInv' /\ ReadInv' /\ ReadsAreOfOneBuild' /\ BuildsStayApart'
<1> DEFINE images == IF Has(read.build, "images") THEN page[read.build].of ELSE None
           m == [images |-> images]
<1>1. Look("meta", "facts") /\ Answer(m) /\ browser' = browser BY DEF MetaFacts
<1>2. read # NoRead /\ ReadShape /\ read.op = "meta" /\ read.pc = "facts" /\ MetaInv BY <1>1, PendingIs DEF ReadInv
<1>3. DOMAIN m = {"images"} /\ m.images = images OBVIOUS
<1> HIDE DEF m, images
<1>4. /\ DOMAIN read' = DOMAIN read \cup {"images", "pc"} /\ read'.pc = "answered" /\ read'.images = images
      /\ \A x \in DOMAIN read : x \notin {"images", "pc"} => read'[x] = read[x]
      /\ UNCHANGED <<kind, src, out, page, cur, dated, base, hist, bstate, job, known, used>>
  BY <1>1, <1>3, AnswerIs
<1>5. /\ Looked /\ read'.seq = read.seq /\ read'.state = read.state /\ read'.build = read.build
      /\ read'.stale = read.stale /\ read'.srcAt = read.srcAt /\ read'.dated = read.dated
  BY <1>2, <1>4 DEF Looked, ReadShape, Has0, MetaInv
<1>6. CachesGood'
  <2>1. CASE kind = "figure" BY <1>1, <1>4, <2>1, CacheMapKeeps DEF MetaFacts
  <2>2. CASE kind # "figure"
    <3>1. maps' = maps BY <2>2 DEF MetaFacts
    <3> QED BY <1>1, <1>4, <3>1, CachesAreGood DEF CachesGood, MapEntry, Texts12
  <2> QED BY <2>1, <2>2
<1>7. BuildsInv' /\ ReadShape' BY <1>5, <1>6, LookedKeeps
<1>8. CurPages' = CurPages /\ Folders' = Folders /\ (MetaSame' <=> MetaSame) BY <1>4, <1>5 DEF CurPages, Folders, MetaSame, Publishing
<1>9. MetaInv' BY <1>2, <1>4, <1>5, <1>8 DEF MetaInv
<1>10. MetaIsOfTheScreen'
  <2>1. SUFFICES ASSUME MetaSame
                 PROVE  /\ read.build = CurPages /\ read.dated = dated
                        /\ images = IF CurPages \in Folders THEN page[CurPages].of ELSE None
                        /\ kind = "latex" /\ CurPages \in Folders /\ ~read.stale => read.srcAt - page[CurPages].time <= 2
    BY <1>4, <1>5, <1>8 DEF MetaIsOfTheScreen, MetaSame, Publishing
  <2>2. read.build = CurPages BY <1>2, <2>1 DEF MetaInv
  <2>3. images = IF CurPages \in Folders THEN page[CurPages].of ELSE None
    BY <2>2 DEF images, Has, BuildsInv, FilesInv
  <2> QED BY <1>2, <2>1, <2>2, <2>3 DEF MetaInv
<1> QED BY <1>2, <1>5, <1>7, <1>9, <1>10, OneSaid DEF ReadInv, Looked

-----------------------------------------------------------------------------
(* POST /api/pick *)

(* The fields of a read that a look of a pick leaves.                       *)
LEMMA PickIsPending ==
  ASSUME ReadInv, NEW pc \in {"dir", "pdf", "map", "trace"}, Look("pick", pc)
  PROVE  /\ read # NoRead /\ ReadShape /\ read.op = "pick" /\ read.pc = pc /\ PickInv
         /\ Has0 \cup {"want", "page", "build", "text"} \subseteq DOMAIN read
BY PendingIs DEF ReadInv, ReadShape, PickInv

(* What is known of the build picked on, until it is lost.                  *)
LEMMA PickedBuild ==
  ASSUME BuildsInv, ReadInv, NEW pc \in {"pdf", "map", "trace"}, Look("pick", pc), read.build \notin read.lost
  PROVE  /\ read.build \in Folders /\ read.build \in DOMAIN known.of /\ page[read.build].of = known.of[read.build]
         /\ kind = "figure" => Has(read.build, "companion")
<1>1. PickInv /\ ReadShape /\ read.pc = pc BY PickIsPending
<1>2. read.build \in Folders BY <1>1 DEF PickInv
<1>3. read.build \in DOMAIN known.of /\ page[read.build].of = known.of[read.build]
  BY <1>2 DEF BuildsInv, FilesInv, NamesInv
<1>4. ASSUME kind = "figure" PROVE Has(read.build, "companion")
  <2>1. read.build # Legacy BY <1>3, <1>4 DEF BuildsInv, NamesInv
  <2>2. page[read.build].files = Files BY <1>1, <1>2, <2>1 DEF ReadShape, Whole
  <2> QED BY <1>2, <2>2 DEF Has, Files
<1> QED BY <1>2, <1>3, <1>4

LEMMA PickDirLooks ==
  ASSUME BuildsInv, ReadInv, PickDir
  PROVE  BuildsInv' /\ ReadInv' /\ ReadsAreOfOneBuild' /\ BuildsStayApart'
<1> DEFINE f == PagesDirFor(read.want)
<1>1. /\ Look("pick", "dir") /\ UNCHANGED clients
      /\ IF read.page <= PageList(f) THEN Then([pc |-> "pdf", build |-> f]) ELSE Answer([build |-> None])
  BY DEF PickDir
<1>2. /\ read # NoRead /\ ReadShape /\ read.op = "pick" /\ read.pc = "dir" /\ PickInv
      /\ Has0 \cup {"want", "page", "build", "text"} \subseteq DOMAIN read
  BY <1>1, PickIsPending
<1>3. f = IF read.want \in Folders THEN read.want ELSE CurPages BY DEF PagesDirFor
<1> HIDE DEF f
<1>4. UNCHANGED <<known, maps, browser>> => CachesGood'
  BY CachesAreGood DEF CachesGood, MapEntry, Texts12
<1>5. CASE read.page <= PageList(f)
  <2> DEFINE m == [pc |-> "pdf", build |-> f]
  <2>1. DOMAIN m = {"pc", "build"} /\ m.pc = "pdf" /\ m.build = f OBVIOUS
  <2>2. Then(m) BY <1>1, <1>5
  <2> HIDE DEF m
  <2>3. /\ DOMAIN read' = DOMAIN read /\ read'.pc = "pdf" /\ read'.build = f
        /\ \A x \in DOMAIN read : x \notin {"pc", "build"} => read'[x] = read[x]
        /\ UNCHANGED <<kind, src, out, page, cur, dated, base, hist, bstate, job, known, used>>
    BY <1>2, <2>1, <2>2, ThenIs DEF Has0
  <2>4. Looked /\ read'.want = read.want /\ read'.page = read.page /\ read'.text = read.text
    BY <1>2, <2>3 DEF Looked, Has0
  <2>5. BuildsInv' /\ ReadShape' BY <1>1, <1>4, <2>3, <2>4, LookedKeeps DEF clients
  <2>6. f \in Folders
    <3>1. read.page \in Nat \ {0} BY <1>2 DEF PickInv
    <3>2. f \notin Folders => PageList(f) = 0 BY DEF PageList, Has
    <3> QED BY <1>5, <3>1, <3>2
  <2>7. f # None BY <2>6, KnownArePairs DEF BuildsInv
  <2>8. read.want \in {None, f} \/ read.want \in read.lost BY <1>2, <1>3 DEF PickInv
  <2>9. PickInv' BY <1>2, <2>3, <2>4, <2>6, <2>7, <2>8 DEF PickInv, Named, Folders, Looked
  <2>10. read'.op = "pick" BY <1>2, <2>4 DEF Looked
  <2> QED BY <2>3, <2>5, <2>9, <2>10, NothingSaid DEF ReadInv
<1>6. CASE ~(read.page <= PageList(f))
  <2> DEFINE m == [build |-> None]
  <2>1. DOMAIN m = {"build"} /\ m.build = None OBVIOUS
  <2>2. Answer(m) BY <1>1, <1>6
  <2> HIDE DEF m
  <2>3. /\ DOMAIN read' = DOMAIN read /\ read'.pc = "answered" /\ read'.build = None
        /\ \A x \in DOMAIN read : x \notin {"pc", "build"} => read'[x] = read[x]
        /\ UNCHANGED <<kind, src, out, page, cur, dated, base, hist, bstate, job, known, used>>
    BY <1>2, <2>1, <2>2, AnswerIs DEF Has0
  <2>4. Looked /\ read'.want = read.want /\ read'.page = read.page /\ read'.text = read.text
    BY <1>2, <2>3 DEF Looked, Has0
  <2>5. BuildsInv' /\ ReadShape' BY <1>1, <1>4, <2>3, <2>4, LookedKeeps DEF clients
  <2>6. PickInv' BY <1>2, <2>3, <2>4 DEF PickInv, Named
  <2>7. read'.op = "pick" BY <1>2, <2>4 DEF Looked
  <2>8. PickIsOnItsBuild' BY <2>3 DEF PickIsOnItsBuild
  <2> QED BY <2>5, <2>6, <2>7, <2>8, OneSaid DEF ReadInv
<1> QED BY <1>5, <1>6

LEMMA PickPdfLooks ==
  ASSUME BuildsInv, ReadInv, PickPdf
  PROVE  BuildsInv' /\ ReadInv' /\ ReadsAreOfOneBuild' /\ BuildsStayApart'
<1> DEFINE pc == IF kind = "figure" THEN "map" ELSE "trace"
           copy == Has(read.build, "pdf")
           region == IF kind = "figure" THEN ReadMap(read.build) ELSE None
           m == [pc |-> pc, copy |-> copy, region |-> region]
<1>1. Look("pick", "pdf") /\ Then(m) /\ browser' = browser BY DEF PickPdf
<1>2. /\ read # NoRead /\ ReadShape /\ read.op = "pick" /\ read.pc = "pdf" /\ PickInv
      /\ Has0 \cup {"want", "page", "build", "text"} \subseteq DOMAIN read
  BY <1>1, PickIsPending
<1>3. DOMAIN m = {"pc", "copy", "region"} /\ m.pc = pc /\ m.copy = copy /\ m.region = region OBVIOUS
<1>4. pc \in {"map", "trace"} OBVIOUS
<1>5. ASSUME read.build \notin read.lost, kind = "figure" PROVE region = known.of[read.build]
  <2>1. Has(read.build, "companion") BY <1>1, <1>5, PickedBuild
  <2> QED BY <1>5, <2>1, MapTells
<1> HIDE DEF m, region
<1>6. /\ DOMAIN read' = DOMAIN read \cup {"pc", "copy", "region"} /\ read'.pc = pc
      /\ read'.copy = copy /\ read'.region = region
      /\ \A x \in DOMAIN read : x \notin {"pc", "copy", "region"} => read'[x] = read[x]
      /\ UNCHANGED <<kind, src, out, page, cur, dated, base, hist, bstate, job, known, used>>
  BY <1>1, <1>3, ThenIs
<1>7. /\ Looked /\ read'.want = read.want /\ read'.page = read.page /\ read'.text = read.text /\ read'.build = read.build
  BY <1>2, <1>6 DEF Looked, Has0
<1>8. CachesGood'
  <2>1. CASE kind = "figure" BY <1>1, <1>6, <2>1, CacheMapKeeps DEF PickPdf
  <2>2. CASE kind # "figure"
    <3>1. maps' = maps BY <2>2 DEF PickPdf
    <3> QED BY <1>1, <1>6, <3>1, CachesAreGood DEF CachesGood, MapEntry, Texts12
  <2> QED BY <2>1, <2>2
<1>9. BuildsInv' /\ ReadShape' BY <1>7, <1>8, LookedKeeps
<1> HIDE DEF pc, copy
<1>11. PickInv'
  <2>1. read'.copy => Has(read.build, "pdf") BY <1>6 DEF copy
  <2>2. read'.pc \in {"map", "trace"} /\ read'.build \notin read'.lost =>
          /\ read'.copy => read'.build \in Folders' /\ "pdf" \in page'[read'.build].files
          /\ kind' = "figure" => read'.region = known'.of[read'.build]
    BY <1>5, <1>6, <1>7, <2>1 DEF Looked, Has, Folders
  <2>3. /\ read'.build # None /\ (read'.build \in Folders' \/ read'.build \in read'.lost)
        /\ read'.want \in {None, read'.build} \/ read'.want \in read'.lost
    BY <1>2, <1>6, <1>7 DEF PickInv, Looked, Folders
  <2>4. /\ {"want", "page", "build", "text"} \subseteq DOMAIN read' /\ {"copy", "region"} \subseteq DOMAIN read'
        /\ read'.page \in Nat \ {0} /\ read'.want \in Named'
    BY <1>2, <1>6, <1>7 DEF PickInv, Named
  <2> QED BY <1>4, <1>6, <2>2, <2>3, <2>4 DEF PickInv, Has
<1>12. read'.op = "pick" /\ read'.pc # "answered" BY <1>2, <1>4, <1>6, <1>7 DEF Looked
<1> QED BY <1>9, <1>11, <1>12, NothingSaid DEF ReadInv

(* A pick answered by what was read of its build.                           *)
LEMMA PickAnswers ==
  ASSUME BuildsInv, ReadInv, NEW pc \in {"map", "trace"}, Look("pick", pc), NEW text, Answer([text |-> text]), CachesGood',
         read.build \notin read.lost /\ read.copy => text = known.of[read.build]
  PROVE  BuildsInv' /\ ReadInv' /\ ReadsAreOfOneBuild' /\ BuildsStayApart'
<1> DEFINE m == [text |-> text]
<1>1. /\ read # NoRead /\ ReadShape /\ read.op = "pick" /\ read.pc = pc /\ PickInv
      /\ Has0 \cup {"want", "page", "build", "text", "copy", "region"} \subseteq DOMAIN read
  BY PickIsPending DEF PickInv
<1>2. DOMAIN m = {"text"} /\ m.text = text /\ Answer(m) OBVIOUS
<1> HIDE DEF m
<1>3. /\ DOMAIN read' = DOMAIN read /\ read'.pc = "answered" /\ read'.text = text
      /\ \A x \in DOMAIN read : x \notin {"pc", "text"} => read'[x] = read[x]
      /\ UNCHANGED <<kind, src, out, page, cur, dated, base, hist, bstate, job, known, used>>
  BY <1>1, <1>2, AnswerIs DEF Has0
<1>4. /\ Looked /\ read'.want = read.want /\ read'.page = read.page /\ read'.build = read.build
      /\ read'.copy = read.copy /\ read'.region = read.region
  BY <1>1, <1>3 DEF Looked, Has0
<1>5. BuildsInv' /\ ReadShape' BY <1>4, LookedKeeps
<1>6. PickInv' BY <1>1, <1>3, <1>4 DEF PickInv, Named
<1>7. PickIsOnItsBuild'
  <2>1. SUFFICES ASSUME read.build # None, {read.want, read.build} \cap read.lost = {}
                 PROVE  /\ read.want \in {None, read.build}
                        /\ read.copy => text = known.of[read.build]
                        /\ kind = "figure" => read.region = known.of[read.build]
    BY <1>3, <1>4 DEF PickIsOnItsBuild, Looked
  <2>2. read.build \notin read.lost /\ read.want \notin read.lost BY <2>1
  <2> QED BY <1>1, <2>2 DEF PickInv
<1>8. read'.op = "pick" BY <1>1, <1>4 DEF Looked
<1> QED BY <1>5, <1>6, <1>7, <1>8, OneSaid DEF ReadInv

LEMMA PickElementLooks ==
  ASSUME BuildsInv, ReadInv, PickElement
  PROVE  BuildsInv' /\ ReadInv' /\ ReadsAreOfOneBuild' /\ BuildsStayApart'
<1>1. /\ Look("pick", "map") /\ CacheMap(read.build) /\ browser' = browser /\ known' = known
  BY DEF PickElement, Answer, Then
<1>2. CachesGood' BY <1>1, CacheMapKeeps
<1>3. CASE ReadMap(read.build) # None /\ Answer([text |-> ReadMap(read.build)])
  <2> DEFINE text == ReadMap(read.build)
  <2>1. text = known.of[read.build] BY <1>3, MapTells
  <2>2. Answer([text |-> text]) BY <1>3
  <2> HIDE DEF text
  <2> QED BY <1>1, <1>2, <2>1, <2>2, PickAnswers
<1>4. CASE Then([pc |-> "trace"])
  <2> DEFINE m == [pc |-> "trace"]
  <2>1. DOMAIN m = {"pc"} /\ m.pc = "trace" /\ Then(m) BY <1>4
  <2> HIDE DEF m
  <2>2. /\ read # NoRead /\ ReadShape /\ read.op = "pick" /\ read.pc = "map" /\ PickInv
        /\ Has0 \cup {"want", "page", "build", "text", "copy", "region"} \subseteq DOMAIN read
    BY <1>1, PickIsPending DEF PickInv
  <2>3. /\ DOMAIN read' = DOMAIN read /\ read'.pc = "trace"
        /\ \A x \in DOMAIN read : x # "pc" => read'[x] = read[x]
        /\ UNCHANGED <<kind, src, out, page, cur, dated, base, hist, bstate, job, known, used>>
    BY <2>1, <2>2, ThenIs DEF Has0
  <2>4. /\ Looked /\ read'.want = read.want /\ read'.page = read.page /\ read'.build = read.build
        /\ read'.copy = read.copy /\ read'.region = read.region
    BY <2>2, <2>3 DEF Looked, Has0
  <2>5. BuildsInv' /\ ReadShape' BY <1>2, <2>4, LookedKeeps
  <2>6. PickInv' BY <2>2, <2>3, <2>4 DEF PickInv, Named, Looked, Has, Folders
  <2>7. read'.op = "pick" BY <2>2, <2>4 DEF Looked
  <2> QED BY <2>3, <2>5, <2>6, <2>7, NothingSaid DEF ReadInv
<1> QED BY <1>3, <1>4 DEF PickElement

LEMMA PickTraces ==
  ASSUME BuildsInv, ReadInv, PickLines \/ PickRegion
  PROVE  BuildsInv' /\ ReadInv' /\ ReadsAreOfOneBuild' /\ BuildsStayApart'
<1>1. Look("pick", "trace") /\ Answer([text |-> Traced]) /\ UNCHANGED clients /\ known' = known
  BY DEF PickLines, PickRegion, Answer, Then
<1>2. CachesGood' BY <1>1, CachesAreGood DEF CachesGood, MapEntry, Texts12, clients
<1>3. PickInv /\ read.pc = "trace" BY <1>1, PickIsPending
<1>4. ASSUME read.build \notin read.lost, read.copy PROVE Traced = known.of[read.build]
  <2>1. Has(read.build, "pdf") BY <1>3, <1>4 DEF PickInv
  <2>2. page[read.build].of = known.of[read.build] BY <1>1, <1>4, PickedBuild
  <2> QED BY <2>1, <2>2 DEF Traced, Pdf
<1> DEFINE text == Traced
<1>5. Answer([text |-> text]) BY <1>1
<1> HIDE DEF text
<1>6. read.build \notin read.lost /\ read.copy => text = known.of[read.build] BY <1>4 DEF text
<1> QED BY <1>1, <1>2, <1>5, <1>6, PickAnswers

-----------------------------------------------------------------------------
(* The pages and the PDF of a build *)

LEMMA UrlLooks ==
  ASSUME BuildsInv, ReadInv, UrlAnswers
  PROVE  BuildsInv' /\ ReadInv' /\ ReadsAreOfOneBuild' /\ BuildsStayApart'
<1> DEFINE text == IF Has(read.build, read.file) THEN page[read.build].of ELSE None
           m == [text |-> text]
<1>1. /\ Look("url", "bytes") /\ Answer(m) /\ maps' = maps
      /\ browser' = IF text # None /\ read.want \notin {None, Legacy}
                    THEN With(browser, Only(<<read.want, read.file>>, text)) ELSE browser
  BY DEF UrlAnswers
<1>2. /\ read # NoRead /\ ReadShape /\ read.op = "url" /\ read.pc = "bytes" /\ UrlInv
      /\ Has0 \cup {"want", "build", "file", "text"} \subseteq DOMAIN read
  BY <1>1, PendingIs DEF ReadInv, ReadShape, UrlInv
<1>3. DOMAIN m = {"text"} /\ m.text = text OBVIOUS
<1>4. text # None => text = known.of[read.build] /\ read.build \in DOMAIN known.of BY MapTells
<1> HIDE DEF m, text
<1>5. /\ DOMAIN read' = DOMAIN read /\ read'.pc = "answered" /\ read'.text = text
      /\ \A x \in DOMAIN read : x \notin {"pc", "text"} => read'[x] = read[x]
      /\ UNCHANGED <<kind, src, out, page, cur, dated, base, hist, bstate, job, known, used>>
  BY <1>1, <1>2, <1>3, AnswerIs DEF Has0
<1>6. Looked /\ read'.want = read.want /\ read'.build = read.build BY <1>2, <1>5 DEF Looked, Has0
<1>7. read.want \in {None, read.build} BY <1>2 DEF UrlInv
<1>8. CachesGood'
  <2>1. CachesGood BY CachesAreGood
  <2>2. CASE text # None /\ read.want \notin {None, Legacy}
    <3>1. browser' = With(browser, Only(<<read.want, read.file>>, text)) BY <1>1, <2>2
    <3>2. read.want = read.build /\ text = known.of[read.want] /\ read.want \in DOMAIN known.of BY <1>4, <1>7, <2>2
    <3>3. /\ DOMAIN browser' = DOMAIN browser \cup {<<read.want, read.file>>}
          /\ browser'[<<read.want, read.file>>] = text
          /\ \A url \in DOMAIN browser : url # <<read.want, read.file>> => browser'[url] = browser[url]
      BY <3>1 DEF With, Only
    <3>4. ASSUME NEW url \in DOMAIN browser' PROVE url[1] \in DOMAIN known.of /\ browser'[url] = known.of[url[1]]
      <4>1. CASE url = <<read.want, read.file>>
        <5>1. url[1] = read.want BY <4>1
        <5> QED BY <3>2, <3>3, <4>1, <5>1
      <4>2. CASE url # <<read.want, read.file>> BY <2>1, <3>3, <4>2 DEF CachesGood
      <4> QED BY <4>1, <4>2
    <3> QED BY <1>1, <1>5, <2>1, <3>4 DEF CachesGood, MapEntry, Texts12
  <2>3. CASE ~(text # None /\ read.want \notin {None, Legacy})
    BY <1>1, <1>5, <2>1, <2>3 DEF CachesGood, MapEntry, Texts12
  <2> QED BY <2>2, <2>3
<1>9. BuildsInv' /\ ReadShape' BY <1>6, <1>8, LookedKeeps
<1>10. UrlInv' BY <1>2, <1>5, <1>6 DEF UrlInv, Named
<1>11. read'.op = "url" BY <1>2, <1>6 DEF Looked
<1>12. BuildsAnswerForThemselves'
  <2>1. \A url \in DOMAIN browser' : browser'[url] = known'.of[url[1]] BY <1>9 DEF BuildsInv, CachesInv
  <2>2. read'.text \in {None} \cup IF read'.build \in DOMAIN known'.of THEN {known'.of[read'.build]} ELSE {}
    BY <1>4, <1>5, <1>6
  <2>3. read'.want # None => read'.build \in {None, read'.want} BY <1>6, <1>7
  <2> QED BY <1>11, <2>1, <2>2, <2>3 DEF BuildsAnswerForThemselves, Answered
<1> QED BY <1>9, <1>10, <1>11, <1>12, OneSaid DEF ReadInv

-----------------------------------------------------------------------------
(* The builds a pin list takes for exact *)

(* builds.json never takes two texts for one source.                        *)
LEMMA HistoryTells ==
  ASSUME BuildsInv
  PROVE  SameMeansSame(hist.by)
<1> DEFINE by == hist.by
<1>1. DOMAIN by \subseteq DOMAIN known.of BY DEF BuildsInv, NamesInv
<1>2. ASSUME NEW f \in DOMAIN by, NEW g \in DOMAIN by, SameSource(by[f], by[g])
      PROVE  known.of[f] = known.of[g]
  <2>1. /\ by[f].hash \in {None, known.of[f]} /\ by[g].hash \in {None, known.of[g]}
        /\ by[f].hash = None => f = Legacy
        /\ by[g].hash = None => g = Legacy
    BY DEF BuildsInv, HistInv
  <2>2. CASE by[f].hash # None /\ by[g].hash # None BY <1>2, <2>1, <2>2 DEF SameSource
  <2>3. CASE f # g /\ (by[f].hash = None \/ by[g].hash = None)
    <3>1. by[f].at # None /\ by[f].at = by[g].at BY <1>2, <2>3 DEF SameSource
    <3>2. PICK h \in {f, g}, o \in {f, g} : h = Legacy /\ o # Legacy /\ by[h].hash = None BY <2>1, <2>3
    <3>3. by[h].at \in {None, 1} /\ (by[o].at # None => by[o].at > 1)
      BY <3>2 DEF BuildsInv, HistInv
    <3>4. by[h].at = 1 /\ by[o].at = 1 BY <3>1, <3>2, <3>3
    <3> QED BY <3>1, <3>2, <3>3, <3>4
  <2> QED BY <2>2, <2>3
<1> QED BY <1>1, <1>2 DEF SameMeansSame

LEMMA PositionLooks ==
  ASSUME BuildsInv, ReadInv, PositionHistory \/ PositionAnswers
  PROVE  BuildsInv' /\ ReadInv' /\ ReadsAreOfOneBuild' /\ BuildsStayApart'
<1>1. PICK pc \in {"history", "baseline"} : Look("position", pc) BY DEF PositionHistory, PositionAnswers
<1>2. /\ read # NoRead /\ ReadShape /\ read.op = "position" /\ read.pc = pc /\ PositionInv
      /\ Has0 \cup {"build"} \subseteq DOMAIN read
  BY <1>1, PendingIs DEF ReadInv, ReadShape, PositionInv
<1>3. UNCHANGED <<maps, browser>> BY DEF PositionHistory, PositionAnswers, clients
<1>4. known' = known => CachesGood' BY <1>3, CachesAreGood DEF CachesGood, MapEntry, Texts12
<1>5. CASE PositionHistory
  <2> DEFINE m == [pc |-> "baseline", by |-> hist.by]
  <2>1. DOMAIN m = {"pc", "by"} /\ m.pc = "baseline" /\ m.by = hist.by OBVIOUS
  <2>2. Then(m) BY <1>5 DEF PositionHistory
  <2> HIDE DEF m
  <2>3. /\ DOMAIN read' = DOMAIN read \cup {"pc", "by"} /\ read'.pc = "baseline" /\ read'.by = hist.by
        /\ \A x \in DOMAIN read : x \notin {"pc", "by"} => read'[x] = read[x]
        /\ UNCHANGED <<kind, src, out, page, cur, dated, base, hist, bstate, job, known, used>>
    BY <2>1, <2>2, ThenIs
  <2>4. Looked BY <1>2, <2>3 DEF Looked, Has0
  <2>5. BuildsInv' /\ ReadShape' BY <1>4, <2>3, <2>4, LookedKeeps
  <2>6. SameMeansSame(hist.by)' BY <2>5, HistoryTells, <2>3 DEF SameMeansSame, SameSource
  <2>7. SameMeansSame(read.by)' BY <2>3, <2>6 DEF SameMeansSame, SameSource
  <2>8. PositionInv' BY <1>2, <2>3, <2>7 DEF PositionInv
  <2>9. read'.op = "position" BY <1>2, <2>4 DEF Looked
  <2> QED BY <2>3, <2>5, <2>8, <2>9, NothingSaid DEF ReadInv
<1>6. CASE PositionAnswers
  <2> DEFINE exact == Exact(read.build, read.by)
             m == [exact |-> exact]
  <2>1. DOMAIN m = {"exact"} /\ m.exact = exact OBVIOUS
  <2>2. Answer(m) /\ read.pc = "baseline" BY <1>6 DEF PositionAnswers, Look
  <2> HIDE DEF m
  <2>3. read.build \in DOMAIN read.by => \A f \in exact : known.of[f] = known.of[read.build]
    <3> DEFINE by == read.by
               made == read.build
               all == With(Only(made, [hash |-> None, at |-> base]), by)
    <3>1. SUFFICES ASSUME made \in DOMAIN by, NEW f \in exact PROVE known.of[f] = known.of[made] OBVIOUS
    <3>2. DOMAIN all = DOMAIN by /\ \A g \in DOMAIN by : all[g] = by[g] BY <3>1 DEF With, Only
    <3>3. f \in DOMAIN all /\ SameSource(all[f], all[made]) BY <3>1 DEF Exact
    <3>4. SameMeansSame(by) BY <1>2, <2>2 DEF PositionInv
    <3> HIDE DEF all
    <3>5. f \in DOMAIN by /\ SameSource(by[f], by[made]) BY <3>1, <3>2, <3>3
    <3> QED BY <3>1, <3>4, <3>5 DEF SameMeansSame
  <2> HIDE DEF exact
  <2>4. /\ DOMAIN read' = DOMAIN read \cup {"pc", "exact"} /\ read'.pc = "answered" /\ read'.exact = exact
        /\ \A x \in DOMAIN read : x \notin {"pc", "exact"} => read'[x] = read[x]
        /\ UNCHANGED <<kind, src, out, page, cur, dated, base, hist, bstate, job, known, used>>
    BY <2>1, <2>2, AnswerIs
  <2>5. "by" \in DOMAIN read /\ SameMeansSame(read.by) BY <1>2, <2>2 DEF PositionInv
  <2>6. Looked /\ read'.build = read.build /\ read'.by = read.by BY <1>2, <2>4, <2>5 DEF Looked, Has0
  <2>7. BuildsInv' /\ ReadShape' BY <1>4, <2>4, <2>6, LookedKeeps
  <2>8. SameMeansSame(read.by)' BY <2>4, <2>5, <2>6 DEF SameMeansSame, SameSource
  <2>9. PositionInv' BY <1>2, <2>4, <2>5, <2>6, <2>8 DEF PositionInv
  <2>10. read'.op = "position" BY <1>2, <2>6 DEF Looked
  <2>11. ExactIsSameSource' BY <2>3, <2>4, <2>6 DEF ExactIsSameSource
  <2> QED BY <2>7, <2>9, <2>10, <2>11, OneSaid DEF ReadInv
<1> QED BY <1>5, <1>6

-----------------------------------------------------------------------------
(* The changes view of a figure *)

LEMMA OverlayLooks ==
  ASSUME BuildsInv, ReadInv, OverlayLists \/ OverlayAnswers
  PROVE  BuildsInv' /\ ReadInv' /\ ReadsAreOfOneBuild' /\ BuildsStayApart'
<1>1. PICK pc \in {"list", "previous"} : Look("overlay", pc) BY DEF OverlayLists, OverlayAnswers
<1>2. /\ read # NoRead /\ ReadShape /\ read.op = "overlay" /\ read.pc = pc /\ OverlayInv
      /\ Has0 \subseteq DOMAIN read
  BY <1>1, PendingIs DEF ReadInv, ReadShape, OverlayInv
<1>3. UNCHANGED <<maps, browser>> BY DEF OverlayLists, OverlayAnswers, clients
<1>4. known' = known => CachesGood' BY <1>3, CachesAreGood DEF CachesGood, MapEntry, Texts12
<1>5. CASE OverlayLists
  <2> DEFINE m == [pc |-> "previous", names |-> Folders]
  <2>1. DOMAIN m = {"pc", "names"} /\ m.pc = "previous" /\ m.names = Folders OBVIOUS
  <2>2. Then(m) BY <1>5 DEF OverlayLists
  <2> HIDE DEF m
  <2>3. /\ DOMAIN read' = DOMAIN read \cup {"pc", "names"} /\ read'.pc = "previous" /\ read'.names = Folders
        /\ \A x \in DOMAIN read : x \notin {"pc", "names"} => read'[x] = read[x]
        /\ UNCHANGED <<kind, src, out, page, cur, dated, base, hist, bstate, job, known, used>>
    BY <2>1, <2>2, ThenIs
  <2>4. Looked BY <1>2, <2>3 DEF Looked, Has0
  <2>5. BuildsInv' /\ ReadShape' BY <1>4, <2>3, <2>4, LookedKeeps
  <2>6. Folders' = Folders BY <2>3 DEF Folders
  <2>7. OverlayInv' BY <1>2, <2>3, <2>6 DEF OverlayInv
  <2>8. read'.op = "overlay" BY <1>2, <2>4 DEF Looked
  <2> QED BY <2>3, <2>5, <2>7, <2>8, NothingSaid DEF ReadInv
<1>6. CASE OverlayAnswers
  <2> DEFINE prev == PreviousBuild(read.names, CurPages)
             m == [prev |-> prev]
  <2>1. DOMAIN m = {"prev"} /\ m.prev = prev OBVIOUS
  <2>2. Answer(m) /\ read.pc = "previous" BY <1>6 DEF OverlayAnswers, Look
  <2> HIDE DEF m
  <2>3. ASSUME Undisturbed PROVE prev = IF known.before \in Folders THEN known.before ELSE None
    <3> DEFINE old == {g \in read.names : Older(g, CurPages)}
    <3>1. job.pc # "prune" BY <1>2, <2>3 DEF ReadShape
    <3>2. \A g \in old : g \in Folders /\ g = known.before
      BY <1>2, <2>2, <2>3, <3>1 DEF OverlayInv, BuildsInv, ScreenInv
    <3>3. known.before \in Folders => known.before \in old
      BY <1>2, <2>2, <2>3 DEF OverlayInv, BuildsInv, ScreenInv
    <3>4. prev = IF old = {} THEN None ELSE CHOOSE g \in old : \A h \in old \ {g} : Older(h, g)
      BY DEF PreviousBuild
    <3> HIDE DEF old, prev
    <3>5. CASE known.before \in Folders
      <4>1. old = {known.before} BY <3>2, <3>3, <3>5
      <4>2. \E g \in old : \A h \in old \ {g} : Older(h, g) BY <4>1
      <4>3. (CHOOSE g \in old : \A h \in old \ {g} : Older(h, g)) \in old BY <4>2
      <4> QED BY <3>4, <3>5, <4>1, <4>3
    <3>6. CASE known.before \notin Folders
      <4>1. old = {} BY <3>2, <3>6
      <4> QED BY <3>4, <3>6, <4>1
    <3> QED BY <3>5, <3>6
  <2> HIDE DEF prev
  <2>4. /\ DOMAIN read' = DOMAIN read \cup {"pc", "prev"} /\ read'.pc = "answered" /\ read'.prev = prev
        /\ \A x \in DOMAIN read : x \notin {"pc", "prev"} => read'[x] = read[x]
        /\ UNCHANGED <<kind, src, out, page, cur, dated, base, hist, bstate, job, known, used>>
    BY <2>1, <2>2, AnswerIs
  <2>5. Looked BY <1>2, <2>4 DEF Looked, Has0
  <2>6. BuildsInv' /\ ReadShape' BY <1>4, <2>4, <2>5, LookedKeeps
  <2>7. OverlayInv' BY <1>2, <2>4 DEF OverlayInv
  <2>8. read'.op = "overlay" BY <1>2, <2>5 DEF Looked
  <2>9. OverlayIsTwoBuilds' BY <2>3, <2>4, <2>5 DEF OverlayIsTwoBuilds, Undisturbed, Looked, Folders
  <2> QED BY <2>6, <2>7, <2>8, <2>9, OneSaid DEF ReadInv
<1> QED BY <1>5, <1>6

-----------------------------------------------------------------------------
(* The companion of a build *)

LEMMA CompanionLooks ==
  ASSUME BuildsInv, ReadInv, CompanionAnswers
  PROVE  BuildsInv' /\ ReadInv' /\ ReadsAreOfOneBuild' /\ BuildsStayApart'
<1> DEFINE text == IF Has(read.build, "companion") THEN known.of[read.build] ELSE None
           m == [text |-> text]
<1>1. /\ Look("companion", "read") /\ browser' = browser
      /\ IF kind = "figure"
         THEN Answer([text |-> ReadMap(read.build)]) /\ CacheMap(read.build)
         ELSE Answer([text |-> IF Has(read.build, "companion") THEN page[read.build].of ELSE None])
              /\ UNCHANGED maps
  BY DEF CompanionAnswers
<1>2. /\ read # NoRead /\ ReadShape /\ read.op = "companion" /\ read.pc = "read" /\ CompanionInv
      /\ Has0 \cup {"want", "build", "text"} \subseteq DOMAIN read
  BY <1>1, PendingIs DEF ReadInv, ReadShape, CompanionInv
<1>3. Answer(m)
  <2>1. ReadMap(read.build) = text BY MapTells
  <2>2. (IF Has(read.build, "companion") THEN page[read.build].of ELSE None) = text BY MapTells
  <2> HIDE DEF text
  <2> QED BY <1>1, <2>1, <2>2
<1>4. DOMAIN m = {"text"} /\ m.text = text OBVIOUS
<1>5. Has(read.build, "companion") => /\ read.build \in DOMAIN known.of /\ text = known.of[read.build] /\ text # None
  BY MapTells
<1>6. ~Has(read.build, "companion") => text = None OBVIOUS
<1> HIDE DEF m, text
<1>7. /\ DOMAIN read' = DOMAIN read /\ read'.pc = "answered" /\ read'.text = text
      /\ \A x \in DOMAIN read : x \notin {"pc", "text"} => read'[x] = read[x]
      /\ UNCHANGED <<kind, src, out, page, cur, dated, base, hist, bstate, job, known, used>>
  BY <1>2, <1>3, <1>4, AnswerIs DEF Has0
<1>8. Looked /\ read'.want = read.want /\ read'.build = read.build BY <1>2, <1>7 DEF Looked, Has0
<1>9. CachesGood'
  <2>1. CASE kind = "figure" BY <1>1, <1>7, <2>1, CacheMapKeeps
  <2>2. CASE kind # "figure" BY <1>1, <1>7, <2>2, CachesAreGood DEF CachesGood, MapEntry, Texts12
  <2> QED BY <2>1, <2>2
<1>10. BuildsInv' /\ ReadShape' BY <1>8, <1>9, LookedKeeps
<1>11. CompanionInv' BY <1>2, <1>7, <1>8 DEF CompanionInv, Named
<1>12. read'.op = "companion" BY <1>2, <1>8 DEF Looked
<1>13. BuildsAnswerForThemselves'
  <2>1. \A url \in DOMAIN browser' : browser'[url] = known'.of[url[1]] BY <1>10 DEF BuildsInv, CachesInv
  <2>2. read'.text \in {None} \cup IF read'.build \in DOMAIN known'.of THEN {known'.of[read'.build]} ELSE {}
    BY <1>5, <1>6, <1>7, <1>8
  <2>3. read'.want # None => read'.build \in {None, read'.want} BY <1>2, <1>8 DEF CompanionInv
  <2>4. (read'.build \in Folders' /\ "companion" \in page'[read'.build].files) => read'.text # None
    BY <1>5, <1>7, <1>8 DEF Has, Folders
  <2> QED BY <1>12, <2>1, <2>2, <2>3, <2>4 DEF BuildsAnswerForThemselves, Answered, Has
<1> QED BY <1>10, <1>11, <1>12, <1>13, OneSaid DEF ReadInv

-----------------------------------------------------------------------------
(* Every step *)

LEMMA ReadsKeep ==
  ASSUME BuildsInv, ReadInv, Read
  PROVE  BuildsInv' /\ ReadInv' /\ ReadsAreOfOneBuild' /\ BuildsStayApart'
<1>1. CASE MetaState \/ PositionAsks \/ OverlayAsks \/ CompanionAsks
  BY <1>1, MetaBegins, PositionBegins, OverlayBegins, CompanionBegins, NothingSaid
<1>2. CASE MetaPages \/ MetaStale \/ MetaHeading BY <1>2, MetaLooks, NothingSaid
<1>3. CASE PickAsks \/ UrlAsks BY <1>3, PickBegins, UrlBegins
<1>4. CASE PickDir \/ PickPdf \/ PickElement \/ PickLines \/ PickRegion
  BY <1>4, PickDirLooks, PickPdfLooks, PickElementLooks, PickTraces
<1>5. CASE MetaFacts \/ UrlAnswers \/ PositionHistory \/ PositionAnswers
  BY <1>5, MetaAnswers, UrlLooks, PositionLooks
<1>6. CASE OverlayLists \/ OverlayAnswers \/ CompanionAnswers BY <1>6, OverlayLooks, CompanionLooks
<1> QED BY <1>1, <1>2, <1>3, <1>4, <1>5, <1>6 DEF Read

LEMMA PublicationsKeep ==
  ASSUME SecondsGoOn, BuildsInv, ReadInv, read.pc # "answered", WriteSource \/ PublisherSteps
  PROVE  BuildsInv' /\ ReadInv' /\ ReadsAreOfOneBuild' /\ BuildsStayApart'
<1>1. BuildsInv' BY PublishKeeps
<1>2. CASE read # NoRead
  <2>1. ReadShape BY <1>2 DEF ReadInv
  <2>2. OnReader BY <1>2, <2>1, PublicationMeetsReader
  <2>3. ReadInv' BY <1>1, <1>2, <2>2, ReadCarried
  <2>4. read'.pc = read.pc BY <2>1, <2>2 DEF OnReader, Carried, ReadShape, Has0
  <2> QED BY <1>1, <2>3, <2>4, NothingSaid
<1>3. CASE read = NoRead
  <2>1. read' = NoRead
    <3>1. CASE Prune BY <1>3, <3>1, PruneIs DEF Mark
    <3>2. CASE Swap BY <1>3, <3>2 DEF Swap, Mark
    <3>3. CASE WriteSource \/ Startup \/ BeginBuild \/ Make \/ NameFolder \/ Date \/ PublisherFails \/ WriteBaseline \/ Record
      BY <1>3, <3>3 DEF WriteSource, Startup, BeginBuild, Make, NameFolder, Date, PublisherFails, WriteBaseline, Record
    <3> QED BY <3>1, <3>2, <3>3 DEF PublisherSteps
  <2>2. ReadInv' BY <2>1 DEF ReadInv, NoRead
  <2>3. read'.pc # "answered" BY <2>1 DEF NoRead
  <2> QED BY <1>1, <2>2, <2>3, NothingSaid
<1> QED BY <1>2, <1>3

LEMMA SentKeeps ==
  ASSUME BuildsInv, Sent
  PROVE  BuildsInv' /\ ReadInv' /\ ReadsAreOfOneBuild' /\ BuildsStayApart'
<1>1. /\ read.pc = "answered" /\ read' = NoRead /\ UNCHANGED clients
      /\ UNCHANGED <<kind, src, page, cur, dated, base, hist, bstate, job, known, used>>
  BY DEF Sent, marks
<1>2. job.pc # "startup" BY <1>1 DEF BuildsInv, JobInv, NoRead
<1>3. CachesGood' BY <1>1, CachesAreGood DEF CachesGood, MapEntry, Texts12, clients
<1>4. BuildsInv' BY <1>1, <1>2, <1>3, StandingStill
<1>5. ReadInv' /\ read'.pc # "answered" BY <1>1 DEF ReadInv, NoRead
<1> QED BY <1>4, <1>5, NothingSaid

LEMMA StutteringKeeps ==
  ASSUME ReadersInv, UNCHANGED readersVars
  PROVE  ReadersInv'
<1>1. UNCHANGED <<kind, src, out, page, cur, dated, base, hist, bstate, job, read, maps, browser, known, used>> BY DEF readersVars
<1> USE DEF ReadersInv
<1>2. BuildsInv' BY <1>1 DEF BuildsInv, ShapesInv, JobInv, NamesInv, FilesInv, ScreenInv, TimesInv, HistInv, CachesInv,
    LastNamed, IsName, IsOf, Twice, Shown, Whole, Folders, CurPages, Older, Doomed, Texts12
<1>3. ReadInv' BY <1>1 DEF ReadInv, ReadShape, MetaInv, PickInv, UrlInv, PositionInv, OverlayInv, CompanionInv, Whole,
    Undisturbed, Folders, MetaSame, Publishing, CurPages, Named, Has, SameMeansSame, SameSource, Older
<1>4. ReadsAreOfOneBuild' /\ BuildsStayApart' BY <1>1 DEF ReadsAreOfOneBuild, BuildsStayApart, MetaIsOfTheScreen,
    PickIsOnItsBuild, OverlayIsTwoBuilds, BuildsAnswerForThemselves, ExactIsSameSource, Answered, Publishing, CurPages,
    Folders, Undisturbed, Has
<1> QED BY <1>2, <1>3, <1>4

LEMMA InitReaders ==
  ASSUME ReadersInit
  PROVE  ReadersInv
<1>1. PICK start \in Starts :
        LET old == start # "new" /\ kind = "latex"
        IN /\ page = IF old THEN LegacyPage ELSE <<>>
           /\ known = [of |-> IF old THEN Only(Legacy, 1) ELSE <<>>, before |-> Legacy,
                       shown |-> IF old THEN {Legacy} ELSE {}]
           /\ src = IF start = "legacy_edited" THEN [text |-> 2, at |-> 4] ELSE [text |-> 1, at |-> 1]
           /\ base \in IF old THEN {None, 1} ELSE {None}
  BY DEF ReadersInit
<1> DEFINE old == start # "new" /\ kind = "latex"
<1>2. /\ kind \in Kinds /\ cur = None /\ hist = [seq |-> 0, by |-> <<>>] /\ bstate = [state |-> "idle", seq |-> 0]
      /\ job = [pc |-> "startup"] /\ read = NoRead /\ maps = <<>> /\ browser = <<>>
      /\ used = [writes |-> 0, builds |-> IF Legacy \in Folders THEN 1 ELSE 0, reads |-> 0, mishaps |-> 0]
  BY DEF ReadersInit
<1>3. /\ src \in {[text |-> 1, at |-> 1], [text |-> 2, at |-> 4]} BY <1>1
<1>4. /\ src = [text |-> src.text, at |-> src.at] /\ src.at \in {1, 4} /\ src.text \in {1, 2} /\ (src.at <= 1 => src.text = 1)
  BY <1>3
<1>5. IF old THEN page = LegacyPage ELSE page = <<>> BY <1>1
<1>6. /\ known = [of |-> known.of, before |-> Legacy, shown |-> known.shown]
      /\ known.of = IF old THEN Only(Legacy, 1) ELSE <<>>
      /\ known.shown = IF old THEN {Legacy} ELSE {}
      /\ known.before = Legacy
  BY <1>1
<1>7. /\ Folders = IF old THEN {Legacy} ELSE {}
      /\ DOMAIN known.of = Folders /\ known.shown = Folders
      /\ \A f \in Folders : /\ f = Legacy /\ known.of[f] = 1 /\ page[f] = [of |-> 1, time |-> 1, files |-> {"images"}]
                            /\ kind = "latex"
  <2>1. CASE old
    <3>1. page = Only(Legacy, [of |-> 1, time |-> 1, files |-> {"images"}]) /\ known.of = Only(Legacy, 1) BY <1>5, <1>6, <2>1 DEF LegacyPage
    <3> QED BY <1>6, <2>1, <3>1 DEF Only, Folders
  <2>2. CASE ~old BY <1>5, <1>6, <2>2 DEF Folders
  <2> QED BY <2>1, <2>2
<1>8. base \in {None, 1} BY <1>1
<1>9. CurPages = Legacy BY <1>2, <1>7 DEF CurPages
<1>10. DOMAIN hist.by = {} /\ hist.seq = 0 /\ hist = [seq |-> hist.seq, by |-> hist.by]
       /\ bstate.seq = 0 /\ bstate.state = "idle" /\ bstate = [state |-> bstate.state, seq |-> bstate.seq]
  BY <1>2
<1>11. job.pc = "startup" /\ "pc" \in DOMAIN job /\ ~Shown BY <1>2 DEF Shown
<1>12. used.builds \in Nat
       /\ used = [writes |-> used.writes, builds |-> used.builds, reads |-> used.reads, mishaps |-> used.mishaps]
  <2>1. used.builds = IF Legacy \in Folders THEN 1 ELSE 0 BY <1>2
  <2> QED BY <1>2, <2>1
<1>13. \A f \in Folders : page[f].of = 1 /\ page[f].time = 1 /\ page[f].files = {"images"}
                          /\ page[f] = [of |-> page[f].of, time |-> page[f].time, files |-> page[f].files]
  BY <1>7
<1> HIDE DEF old
<1>14. ShapesInv
  <2>1. maps \in Seq([build : Nat \X Nat, time : Nat, of : Texts12]) BY <1>2
  <2>2. known = [of |-> known.of, before |-> known.before, shown |-> known.shown] BY <1>6
  <2> QED BY <1>2, <1>4, <1>10, <1>12, <2>1, <2>2 DEF ShapesInv
<1>15. JobInv BY <1>2, <1>4, <1>7, <1>8, <1>10, <1>11, <1>13 DEF JobInv
<1>16. NamesInv BY <1>2, <1>7, <1>10, <1>11 DEF NamesInv, Texts12
<1>17. FilesInv BY <1>7, <1>9, <1>11, <1>13 DEF FilesInv, Whole
<1>18. ScreenInv BY <1>6, <1>7 DEF ScreenInv
<1>19. TimesInv
  <2>1. base # None => base = 1 BY <1>8
  <2> QED BY <1>4, <1>7, <1>9, <1>10, <1>11, <1>13, <2>1 DEF TimesInv, Texts12
<1>20. HistInv BY <1>10 DEF HistInv
<1>21. CachesInv
  <2>1. DOMAIN maps = {} /\ DOMAIN browser = {} BY <1>2
  <2> QED BY <2>1 DEF CachesInv
<1>22. BuildsInv BY <1>14, <1>15, <1>16, <1>17, <1>18, <1>19, <1>20, <1>21 DEF BuildsInv
<1>23. ReadInv /\ read.pc # "answered" BY <1>2 DEF ReadInv, NoRead
<1>24. ReadsAreOfOneBuild /\ BuildsStayApart
  BY <1>21, <1>23 DEF CachesInv, ReadsAreOfOneBuild, BuildsStayApart, MetaIsOfTheScreen, PickIsOnItsBuild, OverlayIsTwoBuilds,
       BuildsAnswerForThemselves, ExactIsSameSource, Answered
<1> QED BY <1>22, <1>23, <1>24 DEF ReadersInv

(* Whatever the publisher and a reader do to one another: names stay apart, folders
   stay of one text, and a read under way knows what it may still say (queries.py,
   artifacts.py, _run and _publish_pages). Time goes on: see SecondsGoOn.   *)
THEOREM ReadersInvHolds ==
  ASSUME SecondsGoOn
  PROVE  ReadersSpec => []ReadersInv
<1>1. ReadersInit => ReadersInv BY InitReaders
<1>2. ReadersInv /\ [ReadersNext]_readersVars => ReadersInv'
  <2>1. SUFFICES ASSUME ReadersInv, ReadersNext PROVE ReadersInv' BY StutteringKeeps
  <2>2. CASE Sent BY <2>1, <2>2, SentKeeps DEF ReadersInv
  <2>3. CASE read.pc # "answered" /\ Read BY <2>1, <2>3, ReadsKeep DEF ReadersInv
  <2>4. CASE read.pc # "answered" /\ (WriteSource \/ PublisherSteps) BY <2>1, <2>4, PublicationsKeep DEF ReadersInv
  <2> QED BY <2>1, <2>2, <2>3, <2>4 DEF ReadersNext
<1> QED BY <1>1, <1>2, PTL DEF ReadersSpec

(* Page stamps, picks and the changes view each tell of one build, while builds are
   published and removed between their looks.                               *)
THEOREM ReadsAlwaysOfOneBuild ==
  ASSUME SecondsGoOn
  PROVE  ReadersSpec => []ReadsAreOfOneBuild
<1>1. ReadersInv => ReadsAreOfOneBuild BY DEF ReadersInv
<1> QED BY <1>1, ReadersInvHolds, PTL

(* No build is taken for another: not by a URL the browser keeps, by the map cache,
   by a companion or by the builds a pin list takes for exact.              *)
THEOREM BuildsAlwaysApart ==
  ASSUME SecondsGoOn
  PROVE  ReadersSpec => []BuildsStayApart
<1>1. ReadersInv => BuildsStayApart BY DEF ReadersInv
<1> QED BY <1>1, ReadersInvHolds, PTL
=============================================================================
