---------------------------- MODULE BuildProofs ----------------------------
(***************************************************************************)
(* Proofs about LatexBuild, for every set of texts and every bound: the    *)
(* page folders implement Screen, the memo and the build count are told of *)
(* the build on screen, and pages made on kept byproducts, the pages a     *)
(* rebuild keeps and the hash a history records are those of one           *)
(* manuscript.  The last part is about FigureImport as MCBuilds composes   *)
(* it: the watch overlooks no change of a figure's files.                  *)
(***************************************************************************)
EXTENDS MCBuilds, TLAPS

-----------------------------------------------------------------------------
(* The values the state is made of *)

Mans     == [text : Texts, textAt : Nat, fig : Nat, figAt : Nat]
Machines == [tools : Nat, outside : Nat]
Figs     == Nat \cup {None}
Colds    == [text : Texts, fig : Figs, machine : Machines]
Hashes   == [text : Texts, fig : Figs]
Digests  == [in : Hashes, outside : Nat]
Recipes  == [dpi : Nat, cold : Nat, digest : Digests \cup {None}]
Warms    == [made : Colds, reads : BOOLEAN, rec : BOOLEAN, left : BOOLEAN,
             old : BOOLEAN, at : Nat, errors : BOOLEAN]
Pages    == [recipe : Recipes, made : Colds, want : Colds, reads : BOOLEAN,
             pdfAt : Nat, left : BOOLEAN, stale : BOOLEAN]
States   == {"idle", "running", "ok", "ok_errors", "fail", "down"}
Entries  == [at : Figs, hash : Hashes \cup {None}, guess : BOOLEAN]
Counts   == [writes : Nat, names : Nat, builds : Nat, reads : Nat, mishaps : Nat,
             unwritten : BOOLEAN, lost : BOOLEAN]

(* No value of the model is the value None.                                *)
NoneIsNoValue == /\ None \notin Nat /\ None \notin Warms
                 /\ None \notin Hashes /\ None \notin Digests

(* A build, by how far it is.                                              *)
Waiting   == [pc : {"measure"}, force : BOOLEAN, at : {None}]
Measured  == [pc : {"copy"}, force : BOOLEAN, at : Nat]
Copied    == [pc : {"decide"}, force : BOOLEAN, at : Nat, copy : Mans]
Skipped   == [pc : {"kept"}, at : Nat, copy : Mans, machine : Machines]
Compiling == [pc : {"latex", "render"}, at : Nat, copy : Mans, rerun : BOOLEAN, machine : Machines]
Showing   == [pc : {"swap", "expire", "prune", "date"}, new : Nat, at : Nat, hash : Hashes]
Published == [pc : {"baseline", "record"}, res : {"ok", "ok_errors"}, at : Nat, new : Nat, hash : Hashes]
Unchanged == [pc : {"baseline", "record"}, res : {"unchanged"}, at : Nat, new : {None}, hash : {None}]
Failed    == [pc : {"record"}, res : {"fail"}, at : Figs, new : {None}, hash : {None}]

Jobs == {NoJob} \cup Waiting \cup Measured \cup Copied \cup Skipped \cup Compiling
        \cup Showing \cup Published \cup Unchanged \cup Failed

(* What the world, the byproducts, the history and the rest may hold.      *)
WorldTyped == /\ man \in Mans /\ man.textAt <= Now /\ man.figAt <= Now
              /\ machine \in Machines
              /\ dpi \in Nat
              /\ used \in Counts

FoldersTyped == /\ DOMAIN page \subseteq 1..used.names
                /\ \A f \in Folders : page[f] \in Pages
                /\ cur \in Folders \cup {0}
                /\ before \in Nat /\ before <= used.names

HistoryTyped == /\ hist = [seq |-> hist.seq, last |-> hist.last, by |-> hist.by]
                /\ hist.seq \in Nat
                /\ hist.last \in [state : States, build : Figs]
                /\ DOMAIN hist.by \subseteq 1..used.names
                /\ \A f \in DOMAIN hist.by : hist.by[f] \in Entries
                /\ bsm \in Figs

Tabs == [seq : Nat, shown : Nat, asking : BOOLEAN, missed : BOOLEAN]

ReadersTyped == /\ memo \in [held : Figs, reader : Figs, late : BOOLEAN]
                /\ tab \in Tabs
                /\ tab.shown <= used.names

BuildTyped == /\ warm \in Warms \cup {None}
              /\ bstate \in [state : States, seq : Nat, unchanged : BOOLEAN]
              /\ job \in Jobs
              /\ job # NoJob => bstate.state = "running"
              /\ job.pc \in {"render", "swap", "expire", "prune", "date"} => warm # None

(* A build that has not drawn its pages has still to give a name.          *)
Unnamed == job.pc \in {"measure", "copy", "decide", "kept", "latex", "render"}

NamesCounted == /\ used.names <= used.builds /\ used.builds <= MaxBuilds
                /\ Unnamed => used.names < used.builds

(* A folder about to be shown is there, complete, and newer than the screen. *)
NewIsThere == /\ job.pc \in {"swap", "expire", "prune", "date"} => job.new \in Folders
              /\ job.pc = "swap" => cur < job.new
              /\ job.pc \in {"expire", "prune", "date"} => cur = job.new
              /\ job.pc \in {"baseline", "record"} /\ job.res \in {"ok", "ok_errors"}
                   => cur = job.new /\ cur \in Folders

Typed == /\ WorldTyped /\ FoldersTyped /\ HistoryTyped /\ ReadersTyped
         /\ BuildTyped /\ NamesCounted /\ NewIsThere

-----------------------------------------------------------------------------
(* What readers are told of the screen *)

(* A measurement in flight that is not late is of the folder on screen, until
   the screen moved and did not yet say so.                                  *)
MemoInv == /\ MemoIsAboutScreen
           /\ memo.reader # None /\ ~memo.late /\ job.pc # "expire" => memo.reader = cur

(* The screen moved, or may have moved, and the count did not.               *)
Moved == \/ job.pc \in {"expire", "prune", "date"}
         \/ job.pc \in {"baseline", "record"} /\ job.res # "unchanged"

(* A tab shows the screen, or still asks for it, or lost what it asked for.   *)
Follows == tab.asking \/ tab.missed \/ tab.shown = cur

(* The count in memory is never behind the file's, nor a tab before it.      *)
SeqInv ==
  /\ Up => /\ hist.seq <= bstate.seq
           /\ ~used.unwritten => hist.seq = bstate.seq
  /\ Up /\ ~used.lost => /\ tab.seq <= bstate.seq
                         /\ tab.seq = bstate.seq /\ ~Moved => Follows
  /\ ~Up /\ ~used.lost => /\ ~used.unwritten
                          /\ tab.seq <= hist.seq
                          /\ tab.seq = hist.seq => Follows

-----------------------------------------------------------------------------
(* What the pages are made of *)

(* A page folder's recipe tells the copy and the machine its pages came from. *)
RecipeTells(p) ==
  LET digest == p.recipe.digest
  IN /\ p.reads => p.want.text \in Figured
     /\ p.want.text \notin Figured => p.want.fig = None
     /\ digest # None => digest.in = [text |-> p.want.text, fig |-> IF p.reads THEN p.want.fig ELSE None]
     /\ ~p.stale => p.recipe.cold = p.want.machine.tools
     /\ ~p.stale /\ digest # None => digest.outside = p.want.machine.outside
     /\ ~p.stale /\ ~p.left /\ digest # None /\ p.want.text \in Figured => p.reads
     /\ p.left \/ p.stale \/ p.made = p.want

PagesInv == \A f \in Folders : RecipeTells(page[f])

(* Byproducts that nothing is known against are those of the pages in f.      *)
AreOf(f) == /\ f \in Folders
            /\ page[f].left = warm.left /\ page[f].stale = warm.old
            /\ page[f].made = warm.made

(* What latexmk's records say of the byproducts is all there is to say, or nothing. *)
WarmReads == warm # None => (warm.reads <=> warm.rec /\ warm.made.text \in Figured)

(* Between builds, and in a build until latexmk ran, they are of the screen;
   once the pages are drawn, of the new folder.                               *)
WarmIsShown == warm # None /\ ~warm.left /\ ~warm.old
                 /\ job.pc \notin {"render", "swap", "expire", "prune", "date"} => AreOf(cur)
WarmIsNew   == job.pc \in {"swap", "expire", "prune", "date"} => AreOf(job.new)

ForcedIsCold == job.pc \in {"copy", "decide"} => (job.force => warm = None)

(* Without -g the recipe of the screen was found to hold for this copy.       *)
LatexKnows == job.pc = "latex"
                => (~job.rerun => /\ Recorded(cur)
                                  /\ page[cur].recipe.digest = ReadsDigest(job.copy, page[cur].reads, job.machine)
                                  /\ warm # None => page[cur].recipe.cold = job.machine.tools)

(* What is about to be drawn is what a cold run would have made.              *)
RenderKnows == job.pc = "render"
                 => /\ warm.reads => job.copy.text \in Figured
                    /\ warm.left \/ warm.old \/ job.machine # machine \/ warm.made = Cold(job.copy, job.machine)

MachineGoesOn == job.pc \in {"kept", "latex", "render"} => /\ job.machine.tools <= machine.tools
                                                           /\ job.machine.outside <= machine.outside

WarmInv == /\ WarmReads /\ WarmIsShown /\ WarmIsNew /\ ForcedIsCold
           /\ LatexKnows /\ RenderKnows /\ MachineGoesOn

-----------------------------------------------------------------------------
(* What times tell of the manuscript *)

(* What manuscript m did not write after t is as copy c has it, or as the pages
   p do.                                                                      *)
SinceCopy(m, t, c) == /\ m.textAt <= t => m.text = c.text
                      /\ m.figAt <= t => m.fig = c.fig

SincePages(m, t, p) == /\ m.textAt <= t => m.text = p.want.text
                       /\ p.reads /\ m.figAt <= t => m.fig = p.want.fig

TimesArePast == /\ bsm # None => bsm <= Now
                /\ job # NoJob => (job.at # None => job.at <= Now)

CopyTimes == job.pc \in {"decide", "kept", "latex", "render"}
               => /\ job.copy.textAt <= Now /\ job.copy.figAt <= Now
                  /\ SinceCopy(man, job.at, job.copy)
                  /\ SinceCopy(man, job.copy.figAt, job.copy)
                  /\ bsm # None => SinceCopy(man, bsm, job.copy)

NewTimes == job.pc \in {"swap", "expire", "prune", "date"}
              => /\ SincePages(man, job.at, page[job.new])
                 /\ bsm # None => SincePages(man, bsm, page[job.new])

ShownTimes == /\ job.pc \in {"kept", "baseline"} => cur # 0 /\ SincePages(man, job.at, page[cur])
              /\ bsm # None /\ cur # 0 => SincePages(man, bsm, page[cur])

TimesInv == TimesArePast /\ CopyTimes /\ NewTimes /\ ShownTimes

(* The hash a build is about to record is that of its pages.                  *)
HashOf(hash, p) == /\ hash.text = p.want.text
                   /\ p.reads => hash.fig = p.want.fig

NewHash == /\ job.pc \in {"swap", "expire", "prune", "date"} => HashOf(job.hash, page[job.new])
           /\ job.pc \in {"baseline", "record"}
                => (job.res \in {"ok", "ok_errors"} => HashOf(job.hash, page[job.new]))

HashInv == HashTellsPages /\ NewHash

BuildInv == /\ Typed /\ PagesInv /\ WarmInv /\ SkipIsSound /\ TimesInv /\ HashInv

-----------------------------------------------------------------------------
(* Lemmas about values *)

LEMMA LargerOfTwo == ASSUME NEW x \in Int, NEW y \in Int
                     PROVE  /\ Max({x, y}) \in {x, y}
                            /\ x <= Max({x, y}) /\ y <= Max({x, y})
BY DEF Max

LEMMA ColdIsCold == ASSUME NEW c \in Mans, NEW m \in Machines
                    PROVE  Cold(c, m) \in Colds
BY DEF Cold, Colds, Mans, Figs

LEMMA FingerprintIsHash == ASSUME NEW c \in Mans, NEW r \in BOOLEAN
                           PROVE  Fingerprint(c, r) \in Hashes
BY DEF Fingerprint, Hashes, Mans, Figs

LEMMA DigestIsDigest == ASSUME NEW c \in Mans, NEW r \in BOOLEAN, NEW m \in Machines
                        PROVE  ReadsDigest(c, r, m) \in Digests
BY FingerprintIsHash DEF ReadsDigest, Digests, Machines

(* src_mtime is the time of one of the writes so far.                        *)
LEMMA SrcMtimeIsPast == ASSUME WorldTyped
                        PROVE  SrcMtime \in Nat /\ SrcMtime <= Now
<1>1. man.textAt \in Int /\ man.figAt \in Int /\ man.textAt \in Nat /\ man.figAt \in Nat
  BY DEF WorldTyped, Mans
<1> QED BY <1>1, LargerOfTwo DEF SrcMtime, WorldTyped

LEMMA NewestReadIsOneOf == ASSUME NEW at \in Nat, NEW c \in Mans, NEW r
                           PROVE  /\ NewestRead(at, c, r) \in Nat
                                  /\ NewestRead(at, c, r) \in {at, c.figAt}
<1>1. at \in Int /\ c.figAt \in Nat /\ c.figAt \in Int
  BY DEF Mans
<1> QED BY <1>1, LargerOfTwo DEF NewestRead

-----------------------------------------------------------------------------
(* Types *)

LEMMA JobsHaveShapes ==
  ASSUME job \in Jobs
  PROVE  /\ job.pc = "none" => job = NoJob
         /\ job.pc = "measure" => job \in Waiting
         /\ job.pc = "copy" => job \in Measured
         /\ job.pc = "decide" => job \in Copied
         /\ job.pc = "kept" => job \in Skipped
         /\ job.pc \in {"latex", "render"} => job \in Compiling
         /\ job.pc \in {"swap", "expire", "prune", "date"} => job \in Showing
         /\ job.pc = "baseline" => job \in Published \cup Unchanged
         /\ job.pc = "record" => job \in Published \cup Unchanged \cup Failed
BY DEF Jobs, NoJob, Waiting, Measured, Copied, Skipped, Compiling, Showing, Published, Unchanged, Failed

LEMMA SpendCounts ==
  ASSUME used \in Counts, NEW what \in {"writes", "names", "builds", "reads", "mishaps"}, Spend(what)
  PROVE  /\ used' \in Counts
         /\ used'.writes = IF what = "writes" THEN used.writes + 1 ELSE used.writes
         /\ used'.names = IF what = "names" THEN used.names + 1 ELSE used.names
         /\ used'.builds = IF what = "builds" THEN used.builds + 1 ELSE used.builds
         /\ used'.unwritten = used.unwritten /\ used'.lost = used.lost
BY DEF Counts, Spend

LEMMA MishapCounts ==
  ASSUME used \in Counts, NEW flag \in BOOLEAN,
         \/ used' = [used EXCEPT !.mishaps = @ + 1, !.unwritten = flag]
         \/ used' = [used EXCEPT !.mishaps = @ + 1, !.lost = flag]
         \/ used' = [used EXCEPT !.unwritten = flag]
  PROVE  /\ used' \in Counts
         /\ used'.writes = used.writes /\ used'.names = used.names /\ used'.builds = used.builds
<1>1. used.mishaps + 1 \in Nat
  BY DEF Counts
<1>2. used'.writes = used.writes /\ used'.names = used.names /\ used'.builds = used.builds
  BY DEF Counts
<1>3. CASE flag = TRUE
  BY <1>1, <1>3 DEF Counts
<1>4. CASE flag = FALSE
  BY <1>1, <1>4 DEF Counts
<1> QED BY <1>2, <1>3, <1>4

LEMMA RecordCounts ==
  ASSUME used \in Counts, Record
  PROVE  /\ used' \in Counts
         /\ used'.writes = used.writes /\ used'.names = used.names /\ used'.builds = used.builds
         /\ used'.lost = used.lost
<1>1. CASE used' = [used EXCEPT !.unwritten = @ /\ job.res = "unchanged"]
  <2>1. (used.unwritten /\ job.res = "unchanged") \in BOOLEAN
    OBVIOUS
  <2> QED BY <1>1, <2>1, MishapCounts, Zenon DEF Counts
<1>2. CASE used' = [used EXCEPT !.mishaps = @ + 1, !.unwritten = @ \/ job.res # "unchanged"]
  <2>1. (used.unwritten \/ job.res # "unchanged") \in BOOLEAN
    OBVIOUS
  <2> QED BY <1>2, <2>1, MishapCounts, Zenon DEF Counts
<1> QED BY <1>1, <1>2 DEF Record

LEMMA CrashCounts ==
  ASSUME used \in Counts, Crash
  PROVE  /\ used' \in Counts
         /\ used'.writes = used.writes /\ used'.names = used.names /\ used'.builds = used.builds
         /\ used'.lost <=> \/ used.lost \/ used.unwritten
                           \/ job.pc \in {"expire", "prune", "date", "baseline", "record"}
<1> DEFINE gone == \/ used.lost \/ used.unwritten
                   \/ job.pc \in {"expire", "prune", "date", "baseline", "record"}
<1>1. used' = [used EXCEPT !.mishaps = @ + 1, !.lost = gone]
  BY DEF Crash
<1>2. gone \in BOOLEAN
  OBVIOUS
<1> HIDE DEF gone
<1>3. used'.lost = gone
  BY <1>1 DEF Counts
<1>4. /\ used' \in Counts
      /\ used'.writes = used.writes /\ used'.names = used.names /\ used'.builds = used.builds
  BY <1>1, <1>2, MishapCounts
<1> QED BY <1>3, <1>4 DEF gone

(* The steps that neither write the manuscript, nor begin a build, nor name a
   folder.                                                                    *)
Writing == WriteText \/ TouchText \/ WriteFigure
Beginning == \E force \in BOOLEAN : BeginBuild(force)
Tabbing == TabClaims \/ TabRefreshes \/ RefreshIsLost
Quiet == \/ MachineMoves \/ ReadSrcMtime \/ StoreSrcMtime \/ Crash \/ Restart \/ Tabbing
         \/ ThreadDoesNotStart \/ Measure \/ Copy \/ CopyFails \/ SkipUnchanged \/ DecideToCompile
         \/ KeepBuild \/ LatexRuns \/ LatexFindsItUpToDate \/ LatexFails \/ RenderFails
         \/ Swap \/ SwapFails \/ Expire \/ Prune \/ DatePages \/ WriteBaseline \/ Record

LEMMA StepsAre == [Next]_vars => Writing \/ Beginning \/ Render \/ Quiet \/ UNCHANGED vars
BY DEF Next, Build, TabSteps, Tabbing, Writing, Beginning, Quiet

LEMMA QuietCounts ==
  ASSUME used \in Counts, Quiet
  PROVE  /\ used' \in Counts /\ man' = man
         /\ used'.writes = used.writes /\ used'.names = used.names /\ used'.builds = used.builds
<1> DEFINE Goal == /\ used' \in Counts /\ man' = man
                   /\ used'.writes = used.writes /\ used'.names = used.names /\ used'.builds = used.builds
<1> SUFFICES Goal
  OBVIOUS
<1>1. CASE used' = used /\ man' = man
  BY <1>1
<1>2. CASE Spend("reads") /\ man' = man
  BY <1>2, SpendCounts
<1>3. CASE Spend("mishaps") /\ man' = man
  BY <1>3, SpendCounts
<1>4. CASE Crash
  BY <1>4, CrashCounts DEF Crash
<1>5. CASE Record
  BY <1>5, RecordCounts DEF Record
<1>6. CASE \/ MachineMoves \/ ReadSrcMtime \/ StoreSrcMtime \/ Restart \/ Tabbing
           \/ ThreadDoesNotStart \/ Measure \/ Copy \/ CopyFails \/ SkipUnchanged \/ DecideToCompile
  <2> HIDE DEF Goal
  <2> QED BY <1>1, <1>2, <1>3, <1>6 DEF MachineMoves, ReadSrcMtime, StoreSrcMtime, Restart, Tabbing, TabClaims, TabRefreshes, RefreshIsLost,
             ThreadDoesNotStart, Measure, Copy, CopyFails, SkipUnchanged, DecideToCompile
<1>7. CASE \/ KeepBuild \/ LatexRuns \/ LatexFindsItUpToDate \/ LatexFails \/ RenderFails
           \/ Swap \/ SwapFails \/ Expire \/ Prune \/ DatePages \/ WriteBaseline
  <2> HIDE DEF Goal
  <2> QED BY <1>1, <1>2, <1>3, <1>7 DEF KeepBuild, LatexRuns, LatexFindsItUpToDate, LatexFails, RenderFails,
             Swap, SwapFails, Expire, Prune, DatePages, WriteBaseline
<1> HIDE DEF Goal
<1> QED BY <1>4, <1>5, <1>6, <1>7 DEF Quiet

LEMMA WorldStays ==
  ASSUME WorldTyped, [Next]_vars
  PROVE  WorldTyped' /\ used.names <= used.names' /\ used.writes <= used.writes'
<1>0. used \in Counts /\ man \in Mans /\ machine \in Machines /\ dpi \in Nat
  BY DEF WorldTyped
<1>1. CASE UNCHANGED vars
  BY <1>1 DEF vars, WorldTyped, Now, Counts
<1>2. CASE Writing
  <2>1. Spend("writes") /\ machine' = machine /\ dpi' = dpi
    BY <1>2 DEF Writing, WriteText, TouchText, WriteFigure
  <2>2. /\ used' \in Counts /\ used'.writes = used.writes + 1
        /\ used'.names = used.names /\ used.names \in Nat /\ used.writes \in Nat
    BY <1>0, <2>1, SpendCounts DEF Counts
  <2>3. man.textAt \in Nat /\ man.figAt \in Nat /\ man.fig \in Nat /\ man.fig + 1 \in Nat /\ Now + 1 \in Nat
    BY <1>0, <2>2 DEF Mans, Now
  <2>4. PICK t \in Texts : \/ man' = [man EXCEPT !.text = t, !.textAt = Now + 1]
                           \/ man' = [man EXCEPT !.textAt = Now + 1]
                           \/ man' = [man EXCEPT !.fig = man.fig + 1, !.figAt = Now + 1]
    BY <1>0, <1>2 DEF Writing, WriteText, TouchText, WriteFigure, Mans
  <2>5. man' \in Mans
    BY <1>0, <2>3, <2>4 DEF Mans
  <2>6. man'.textAt \in {man.textAt, Now + 1} /\ man'.figAt \in {man.figAt, Now + 1}
    BY <1>0, <2>4 DEF Mans
  <2>7. man'.textAt <= Now' /\ man'.figAt <= Now'
    BY <2>2, <2>3, <2>6 DEF WorldTyped, Now
  <2> QED BY <1>0, <2>1, <2>2, <2>5, <2>7 DEF WorldTyped
<1>3. CASE Beginning
  <2>1. Spend("builds") /\ man' = man /\ machine' = machine /\ dpi' = dpi
    BY <1>3 DEF Beginning, BeginBuild
  <2>2. /\ used' \in Counts /\ used'.writes = used.writes /\ used'.names = used.names
        /\ used.names \in Nat /\ used.writes \in Nat
    BY <1>0, <2>1, SpendCounts DEF Counts
  <2> QED BY <1>0, <2>1, <2>2 DEF WorldTyped, Now
<1>4. CASE Render
  <2>1. Spend("names") /\ man' = man /\ machine' = machine /\ dpi' = dpi
    BY <1>4 DEF Render
  <2>2. /\ used' \in Counts /\ used'.writes = used.writes /\ used'.names = used.names + 1
        /\ used.names \in Nat /\ used.writes \in Nat
    BY <1>0, <2>1, SpendCounts DEF Counts
  <2> QED BY <1>0, <2>1, <2>2 DEF WorldTyped, Now
<1>5. CASE Quiet
  <2>1. /\ used' \in Counts /\ man' = man
        /\ used'.writes = used.writes /\ used'.names = used.names
        /\ used.names \in Nat /\ used.writes \in Nat
    BY <1>0, <1>5, QuietCounts DEF Counts
  <2>2. machine' \in Machines
    <3>1. CASE MachineMoves
      BY <1>0, <3>1 DEF MachineMoves, Machines
    <3>2. CASE ~MachineMoves
      BY <1>0, <1>5, <3>2 DEF Quiet, ReadSrcMtime, StoreSrcMtime, Restart, Tabbing, TabClaims, TabRefreshes, RefreshIsLost, Crash,
             ThreadDoesNotStart, Measure, Copy, CopyFails, SkipUnchanged, DecideToCompile,
             KeepBuild, LatexRuns, LatexFindsItUpToDate, LatexFails, RenderFails,
             Swap, SwapFails, Expire, Prune, DatePages, WriteBaseline, Record
    <3> QED BY <3>1, <3>2
  <2>3. dpi' \in Nat
    <3>1. CASE Restart
      BY <3>1 DEF Restart
    <3>2. CASE ~Restart
      BY <1>0, <1>5, <3>2 DEF Quiet, MachineMoves, ReadSrcMtime, StoreSrcMtime, Tabbing, TabClaims, TabRefreshes, RefreshIsLost, Crash,
             ThreadDoesNotStart, Measure, Copy, CopyFails, SkipUnchanged, DecideToCompile,
             KeepBuild, LatexRuns, LatexFindsItUpToDate, LatexFails, RenderFails,
             Swap, SwapFails, Expire, Prune, DatePages, WriteBaseline, Record
    <3> QED BY <3>1, <3>2
  <2> QED BY <2>1, <2>2, <2>3 DEF WorldTyped, Now
<1> QED BY <1>1, <1>2, <1>3, <1>4, <1>5, StepsAre

(* How a build ends, spelt out.                                               *)
LEMMA HowItEnds ==
  /\ Ends("fail") => /\ job' = [pc |-> "record", res |-> "fail", at |-> job.at, new |-> None, hash |-> None]
                     /\ warm' = None
  /\ Ends("unchanged") => /\ job' = [pc |-> "baseline", res |-> "unchanged", at |-> job.at,
                                     new |-> None, hash |-> None]
                          /\ warm' = warm
  /\ \A r \in {"ok", "ok_errors"} :
       Ends(r) => /\ job' = [pc |-> "baseline", res |-> r, at |-> job.at, new |-> job.new, hash |-> job.hash]
                  /\ warm' \in {warm, None}
BY DEF Ends

LEMMA JobsEnd ==
  ASSUME job \in Jobs, job # NoJob
  PROVE  /\ Ends("fail") => job' \in Failed
         /\ job.pc = "kept" /\ Ends("unchanged") => job' \in Unchanged
         /\ \A r \in {"ok", "ok_errors"} : job.pc = "date" /\ Ends(r) => job' \in Published
<1>1. job.at \in Figs
  BY DEF Jobs, NoJob, Waiting, Measured, Copied, Skipped, Compiling, Showing, Published, Unchanged, Failed, Figs
<1>2. Ends("fail") => job' \in Failed
  BY <1>1, HowItEnds DEF Failed
<1>3. job.pc = "kept" /\ Ends("unchanged") => job' \in Unchanged
  BY JobsHaveShapes, HowItEnds DEF Skipped, Unchanged
<1>4. \A r \in {"ok", "ok_errors"} : job.pc = "date" /\ Ends(r) => job' \in Published
  BY JobsHaveShapes, HowItEnds DEF Showing, Published
<1> QED BY <1>2, <1>3, <1>4

LEMMA JobsStay ==
  ASSUME WorldTyped, job \in Jobs, FoldersTyped,
         warm \in Warms \cup {None}, job.pc = "render" => warm # None,
         Beginning \/ Render \/ Quiet
  PROVE  job' \in Jobs
<1> USE JobsHaveShapes
<1>1. CASE Beginning
  <2>1. job' \in Waiting
    BY <1>1 DEF Beginning, BeginBuild, Waiting
  <2> QED BY <2>1 DEF Jobs
<1>2. CASE \/ MachineMoves \/ ReadSrcMtime \/ StoreSrcMtime \/ Restart \/ Tabbing
  BY <1>2 DEF MachineMoves, ReadSrcMtime, StoreSrcMtime, Restart, Tabbing, TabClaims, TabRefreshes, RefreshIsLost
<1>3. CASE Crash \/ Record
  BY <1>3 DEF Crash, Record, Jobs
<1>4. CASE ThreadDoesNotStart
  <2>1. job' \in Failed
    BY <1>4 DEF ThreadDoesNotStart, Failed, Figs
  <2> QED BY <2>1 DEF Jobs
<1>5. CASE Measure
  <2>1. job \in Waiting
    BY <1>5 DEF Measure
  <2>2. job' \in Measured
    BY <1>5, <2>1, SrcMtimeIsPast DEF Measure, Waiting, Measured
  <2> QED BY <2>2 DEF Jobs
<1>6. CASE Copy
  <2>1. job \in Measured /\ man \in Mans
    BY <1>6 DEF Copy, WorldTyped
  <2>2. job' \in Copied
    BY <1>6, <2>1 DEF Copy, Measured, Copied
  <2> QED BY <2>2 DEF Jobs
<1>7. CASE CopyFails \/ LatexFails \/ RenderFails \/ SwapFails
  <2>1. job # NoJob /\ Ends("fail")
    BY <1>7 DEF CopyFails, LatexFails, RenderFails, SwapFails, NoJob
  <2> QED BY <2>1, JobsEnd DEF Jobs
<1>8. CASE SkipUnchanged
  <2>1. /\ job.pc = "decide" /\ machine \in Machines /\ machine' = machine
        /\ job' = [pc |-> "kept", at |-> NewestRead(job.at, job.copy, page[cur].reads),
                   copy |-> job.copy, machine |-> machine]
    BY <1>8 DEF SkipUnchanged, WorldTyped
  <2>2. job \in Copied
    BY <2>1
  <2>3. job.at \in Nat /\ job.copy \in Mans
    BY <2>2 DEF Copied
  <2>5. NewestRead(job.at, job.copy, page[cur].reads) \in Nat
    BY <2>3, NewestReadIsOneOf
  <2>6. job' \in Skipped
    BY <2>1, <2>3, <2>5 DEF Skipped
  <2> QED BY <2>6 DEF Jobs
<1>9. CASE DecideToCompile
  <2>1. /\ job.pc = "decide" /\ machine \in Machines
        /\ job' = [pc |-> "latex", at |-> job.at, copy |-> job.copy, rerun |-> Rerun, machine |-> machine]
        /\ Rerun \in BOOLEAN
    BY <1>9 DEF DecideToCompile, WorldTyped, Rerun
  <2>2. job \in Copied
    BY <2>1
  <2>3. job.at \in Nat /\ job.copy \in Mans
    BY <2>2 DEF Copied
  <2>4. job' \in Compiling
    BY <2>1, <2>3 DEF Compiling
  <2> QED BY <2>4 DEF Jobs
<1>10. CASE KeepBuild
  <2>1. job # NoJob /\ job.pc = "kept" /\ (Ends("unchanged") \/ Ends("fail"))
    BY <1>10 DEF KeepBuild, NoJob
  <2> QED BY <2>1, JobsEnd DEF Jobs
<1>11. CASE LatexRuns \/ LatexFindsItUpToDate
  <2>1. job.pc = "latex" /\ job' = [job EXCEPT !.pc = "render"]
    BY <1>11 DEF LatexRuns, LatexFindsItUpToDate
  <2>2. job' \in Compiling
    BY <2>1 DEF Compiling
  <2> QED BY <2>2 DEF Jobs
<1>12. CASE Render
  <2>1. /\ job.pc = "render"
        /\ job' = [pc |-> "swap", new |-> NewName, at |-> NewestRead(job.at, job.copy, warm.reads),
                   hash |-> Fingerprint(job.copy, warm.reads)]
    BY <1>12 DEF Render
  <2>2. job \in Compiling /\ warm \in Warms
    BY <2>1
  <2>3. job.at \in Nat /\ job.copy \in Mans /\ warm.reads \in BOOLEAN
    BY <2>2 DEF Compiling, Warms
  <2>4. /\ NewestRead(job.at, job.copy, warm.reads) \in Nat
        /\ Fingerprint(job.copy, warm.reads) \in Hashes
    BY <2>3, NewestReadIsOneOf, FingerprintIsHash
  <2>5. NewName \in Nat
    BY DEF NewName, WorldTyped, Counts
  <2>6. job' \in Showing
    BY <2>1, <2>4, <2>5 DEF Showing
  <2> QED BY <2>6 DEF Jobs
<1>13. CASE Swap \/ Expire \/ Prune
  <2>1. /\ job.pc \in {"swap", "expire", "prune"}
        /\ \E p \in {"expire", "prune", "date"} : job' = [job EXCEPT !.pc = p]
    BY <1>13 DEF Swap, Expire, Prune
  <2>2. job' \in Showing
    BY <2>1 DEF Showing
  <2> QED BY <2>2 DEF Jobs
<1>14. CASE DatePages
  <2>1. job # NoJob /\ job.pc = "date" /\ (Ends("ok") \/ Ends("ok_errors") \/ Ends("fail"))
    BY <1>14 DEF DatePages, NoJob
  <2> QED BY <2>1, JobsEnd DEF Jobs
<1>15. CASE WriteBaseline
  <2>1. job.pc = "baseline" /\ job' = [job EXCEPT !.pc = "record"]
    BY <1>15 DEF WriteBaseline
  <2>2. job' \in Published \cup Unchanged
    BY <2>1 DEF Published, Unchanged
  <2> QED BY <2>2 DEF Jobs
<1> QED BY <1>1, <1>2, <1>3, <1>4, <1>5, <1>6, <1>7, <1>8, <1>9, <1>10, <1>11, <1>12, <1>13, <1>14, <1>15 DEF Quiet

LEMMA ByproductsStay ==
  ASSUME WorldTyped, BuildTyped, NoneIsNoValue, [Next]_vars
  PROVE  /\ warm' \in Warms \cup {None}
         /\ job'.pc \in {"render", "swap", "expire", "prune", "date"} => warm' # None
<1>0. /\ warm \in Warms \cup {None}
      /\ job.pc \in {"render", "swap", "expire", "prune", "date"} => warm # None
      /\ job \in Jobs
  BY DEF BuildTyped
<1> DEFINE Goal == /\ warm' \in Warms \cup {None}
                   /\ job'.pc \in {"render", "swap", "expire", "prune", "date"} => warm' # None
<1> SUFFICES Goal
  OBVIOUS
<1>1. CASE \/ UNCHANGED vars \/ Writing \/ MachineMoves \/ ReadSrcMtime \/ StoreSrcMtime \/ Restart \/ Tabbing
  BY <1>0, <1>1 DEF vars, Writing, WriteText, TouchText, WriteFigure, MachineMoves, ReadSrcMtime,
                    StoreSrcMtime, Restart, Tabbing, TabClaims, TabRefreshes, RefreshIsLost
<1>2. CASE Beginning \/ ThreadDoesNotStart \/ Copy \/ WriteBaseline \/ Record \/ Expire \/ Prune
  BY <1>0, <1>2 DEF Beginning, BeginBuild, ThreadDoesNotStart, Copy, WriteBaseline, Record, Expire, Prune, NoJob,
                    Jobs, Waiting, Measured, Copied, Skipped, Compiling, Showing, Published, Unchanged, Failed
<1>3. CASE Measure \/ SkipUnchanged \/ DecideToCompile
  <2>1. warm' \in {warm, None}
    BY <1>3 DEF Measure, SkipUnchanged, DecideToCompile
  <2>2. job'.pc \in {"copy", "kept", "latex"}
    <3>1. CASE Measure
      BY <1>0, <3>1, JobsHaveShapes DEF Measure, Waiting
    <3>2. CASE SkipUnchanged \/ DecideToCompile
      BY <3>2 DEF SkipUnchanged, DecideToCompile
    <3> QED BY <1>3, <3>1, <3>2
  <2> QED BY <1>0, <2>1, <2>2
<1>4. CASE Swap
  BY <1>0, <1>4, JobsHaveShapes DEF Swap, Showing
<1>5. CASE CopyFails \/ KeepBuild \/ LatexFails \/ RenderFails \/ SwapFails \/ DatePages
  <2>1. \/ Ends("fail") \/ Ends("unchanged") \/ \E r \in {"ok", "ok_errors"} : Ends(r)
    BY <1>5 DEF CopyFails, KeepBuild, LatexFails, RenderFails, SwapFails, DatePages
  <2>2. job'.pc \in {"baseline", "record"} /\ warm' \in {warm, None}
    BY <2>1, HowItEnds
  <2> QED BY <1>0, <2>2
<1>6. CASE LatexRuns \/ LatexFindsItUpToDate
  <2>1. CASE LatexRuns
    <3>1. job \in Compiling
      BY <1>0, <2>1, JobsHaveShapes DEF LatexRuns
    <3>2. Cold(job.copy, machine) \in Colds
      BY <3>1, ColdIsCold DEF Compiling, WorldTyped
    <3>3. /\ BuildReads(job.copy, machine.tools \notin Unrecorded) \in BOOLEAN
          /\ (machine.tools \notin Unrecorded) \in BOOLEAN
          /\ (Cold(job.copy, machine).text \in Faulty) \in BOOLEAN
          /\ Now \in Nat
      BY DEF BuildReads, WorldTyped, Counts, Now
    <3>4. warm' \in Warms
      BY <2>1, <3>2, <3>3 DEF LatexRuns, Compiled, Warms
    <3> QED BY <3>4 DEF NoneIsNoValue
  <2>2. CASE LatexFindsItUpToDate
    <3>1. warm \in Warms
      BY <1>0, <2>2 DEF LatexFindsItUpToDate, Vouched
    <3>2. PICK rec \in BOOLEAN : warm' = [warm EXCEPT !.rec = rec, !.reads = rec /\ @]
      BY <2>2 DEF LatexFindsItUpToDate
    <3>3. (rec /\ warm.reads) \in BOOLEAN
      OBVIOUS
    <3>4. warm' \in Warms
      BY <3>1, <3>2, <3>3 DEF Warms
    <3> QED BY <3>4 DEF NoneIsNoValue
  <2> QED BY <1>6, <2>1, <2>2
<1>7. CASE Render
  <2>1. warm \in Warms
    BY <1>0, <1>7 DEF Render
  <2>2. PICK stale \in BOOLEAN : warm' = [warm EXCEPT !.old = stale]
    BY <1>7 DEF Render
  <2>3. warm' \in Warms
    BY <2>1, <2>2 DEF Warms
  <2> QED BY <2>3 DEF NoneIsNoValue
<1>8. CASE Crash
  <2>1. warm' = warm \/ (warm # None /\ warm' = [warm EXCEPT !.left = TRUE])
    BY <1>8 DEF Crash
  <2>2. warm' \in Warms \cup {None}
    BY <1>0, <2>1 DEF Warms
  <2> QED BY <1>8, <2>2 DEF Crash, NoJob
<1> HIDE DEF Goal
<1> QED BY <1>1, <1>2, <1>3, <1>4, <1>5, <1>6, <1>7, <1>8, StepsAre DEF Quiet

LEMMA NextSeqIsLarger == ASSUME hist.seq \in Nat, bstate.seq \in Nat
                         PROVE  NextSeq \in Nat /\ hist.seq < NextSeq /\ bstate.seq < NextSeq
<1>1. hist.seq \in Int /\ bstate.seq \in Int
  OBVIOUS
<1>2. Max({hist.seq, bstate.seq}) \in {hist.seq, bstate.seq}
      /\ hist.seq <= Max({hist.seq, bstate.seq}) /\ bstate.seq <= Max({hist.seq, bstate.seq})
  BY <1>1, LargerOfTwo
<1> QED BY <1>2 DEF NextSeq

LEMMA BuildStays ==
  ASSUME WorldTyped, FoldersTyped, HistoryTyped, BuildTyped, NoneIsNoValue, [Next]_vars
  PROVE  BuildTyped'
<1>1. job' \in Jobs
  <2>1. CASE UNCHANGED vars \/ Writing
    BY <2>1 DEF vars, Writing, WriteText, TouchText, WriteFigure, BuildTyped
  <2>2. CASE Beginning \/ Render \/ Quiet
    BY <2>2, JobsStay DEF BuildTyped
  <2> QED BY <2>1, <2>2, StepsAre
<1>0. /\ bstate \in [state : States, seq : Nat, unchanged : BOOLEAN]
      /\ job # NoJob => bstate.state = "running"
      /\ hist.seq \in Nat /\ hist.last.state \in States
  BY DEF BuildTyped, HistoryTyped
<1>2. CASE Beginning
  <2>1. bstate' = [bstate EXCEPT !.state = "running", !.unchanged = FALSE]
    BY <1>2 DEF Beginning, BeginBuild
  <2>2. bstate' \in [state : States, seq : Nat, unchanged : BOOLEAN] /\ bstate'.state = "running"
    BY <1>0, <2>1 DEF States
  <2> QED BY <1>1, <2>2, ByproductsStay DEF BuildTyped
<1>3. CASE Crash
  <2>1. bstate' \in [state : States, seq : Nat, unchanged : BOOLEAN] /\ job' = NoJob
    BY <1>3 DEF Crash, States
  <2> QED BY <1>1, <2>1, ByproductsStay DEF BuildTyped
<1>4. CASE Restart
  <2>1. bstate' = [state |-> hist.last.state, seq |-> hist.seq, unchanged |-> FALSE] /\ job' = job /\ ~Up
    BY <1>4 DEF Restart, Restored
  <2>2. bstate' \in [state : States, seq : Nat, unchanged : BOOLEAN] /\ job' = NoJob
    BY <1>0, <2>1 DEF Up
  <2> QED BY <1>1, <2>2, ByproductsStay DEF BuildTyped
<1>5. CASE Record
  <2>1. job.pc = "record" /\ job' = NoJob
        /\ bstate' = [state |-> StateOf(job.res), unchanged |-> job.res = "unchanged",
                      seq |-> IF job.res = "unchanged" THEN bstate.seq ELSE NextSeq]
    BY <1>5 DEF Record
  <2>2. StateOf(job.res) \in States /\ (job.res = "unchanged") \in BOOLEAN
    BY <2>1, JobsHaveShapes DEF BuildTyped, StateOf, States, Published, Unchanged, Failed
  <2>3. bstate.seq \in Nat /\ NextSeq \in Nat
    BY <1>0, NextSeqIsLarger
  <2>4. bstate' \in [state : States, seq : Nat, unchanged : BOOLEAN]
    BY <2>1, <2>2, <2>3
  <2> QED BY <1>1, <2>1, <2>4, ByproductsStay DEF BuildTyped
<1>6. CASE ~(Beginning \/ Crash \/ Restart \/ Record)
  <2>1. bstate' = bstate /\ (job' # NoJob => job # NoJob)
    <3>1. CASE \/ UNCHANGED vars \/ Writing \/ MachineMoves \/ ReadSrcMtime \/ StoreSrcMtime \/ Tabbing
      BY <3>1 DEF vars, Writing, WriteText, TouchText, WriteFigure, MachineMoves, ReadSrcMtime,
                  StoreSrcMtime, Tabbing, TabClaims, TabRefreshes, RefreshIsLost
    <3>2. CASE \/ ThreadDoesNotStart \/ Measure \/ Copy \/ SkipUnchanged \/ DecideToCompile
               \/ CopyFails \/ KeepBuild \/ LatexRuns \/ LatexFindsItUpToDate \/ LatexFails \/ Render
               \/ RenderFails \/ Swap \/ SwapFails \/ Expire \/ Prune \/ DatePages \/ WriteBaseline
      <4>1. job.pc # "none"
        BY <3>2 DEF ThreadDoesNotStart, Measure, Copy, SkipUnchanged, DecideToCompile, CopyFails, KeepBuild, LatexRuns, LatexFindsItUpToDate,
                LatexFails, Render, RenderFails, Swap, SwapFails, Expire, Prune, DatePages, WriteBaseline
      <4>2. bstate' = bstate
        BY <3>2 DEF ThreadDoesNotStart, Measure, Copy, SkipUnchanged, DecideToCompile, CopyFails, KeepBuild, LatexRuns, LatexFindsItUpToDate,
                LatexFails, Render, RenderFails, Swap, SwapFails, Expire, Prune, DatePages, WriteBaseline
      <4> QED BY <4>1, <4>2 DEF NoJob
    <3> QED BY <1>6, <3>1, <3>2, StepsAre DEF Quiet
  <2> QED BY <1>0, <1>1, <2>1, ByproductsStay DEF BuildTyped
<1> QED BY <1>2, <1>3, <1>4, <1>5, <1>6

(* What each step leaves alone.                                               *)
LEMMA Frames ==
  ASSUME [Next]_vars
  PROVE  /\ page' = page \/ Render \/ Prune
         /\ (cur' = cur /\ before' = before) \/ Swap
         /\ hist' = hist \/ Record \/ Restart
         /\ bsm' = bsm \/ WriteBaseline
         /\ bstate' = bstate \/ Beginning \/ Crash \/ Restart \/ Record
         /\ memo' = memo \/ ReadSrcMtime \/ StoreSrcMtime \/ Measure \/ Expire \/ Crash
         /\ tab' = tab \/ Tabbing
         /\ machine' = machine \/ MachineMoves
         /\ man' = man \/ Writing
<1>1. page' = page \/ Render \/ Prune
  BY StepsAre DEF vars, Writing, Beginning, Quiet, WriteText, TouchText, WriteFigure,
              MachineMoves, ReadSrcMtime, StoreSrcMtime, BeginBuild, Crash, Restart, Tabbing, TabClaims, TabRefreshes, RefreshIsLost,
              ThreadDoesNotStart, Measure, Copy, CopyFails, SkipUnchanged, DecideToCompile,
              KeepBuild, LatexRuns, LatexFindsItUpToDate, LatexFails, RenderFails, Swap,
              SwapFails, Expire, DatePages, WriteBaseline, Record
<1>2. (cur' = cur /\ before' = before) \/ Swap
  BY StepsAre DEF vars, Writing, Beginning, Quiet, WriteText, TouchText, WriteFigure,
              MachineMoves, ReadSrcMtime, StoreSrcMtime, BeginBuild, Crash, Restart, Tabbing, TabClaims, TabRefreshes, RefreshIsLost,
              ThreadDoesNotStart, Measure, Copy, CopyFails, SkipUnchanged, DecideToCompile,
              KeepBuild, LatexRuns, LatexFindsItUpToDate, LatexFails, Render, RenderFails,
              SwapFails, Expire, Prune, DatePages, WriteBaseline, Record
<1>3. hist' = hist \/ Record \/ Restart
  BY StepsAre DEF vars, Writing, Beginning, Quiet, WriteText, TouchText, WriteFigure,
              MachineMoves, ReadSrcMtime, StoreSrcMtime, BeginBuild, Crash, Tabbing, TabClaims, TabRefreshes, RefreshIsLost,
              ThreadDoesNotStart, Measure, Copy, CopyFails, SkipUnchanged, DecideToCompile,
              KeepBuild, LatexRuns, LatexFindsItUpToDate, LatexFails, Render, RenderFails, Swap,
              SwapFails, Expire, Prune, DatePages, WriteBaseline
<1>4. bsm' = bsm \/ WriteBaseline
  BY StepsAre DEF vars, Writing, Beginning, Quiet, WriteText, TouchText, WriteFigure,
              MachineMoves, ReadSrcMtime, StoreSrcMtime, BeginBuild, Crash, Restart, Tabbing, TabClaims, TabRefreshes, RefreshIsLost,
              ThreadDoesNotStart, Measure, Copy, CopyFails, SkipUnchanged, DecideToCompile,
              KeepBuild, LatexRuns, LatexFindsItUpToDate, LatexFails, Render, RenderFails, Swap,
              SwapFails, Expire, Prune, DatePages, Record
<1>5. bstate' = bstate \/ Beginning \/ Crash \/ Restart \/ Record
  BY StepsAre DEF vars, Writing, Quiet, WriteText, TouchText, WriteFigure,
              MachineMoves, ReadSrcMtime, StoreSrcMtime, Tabbing, TabClaims, TabRefreshes, RefreshIsLost, ThreadDoesNotStart, Measure,
              Copy, CopyFails, SkipUnchanged, DecideToCompile, KeepBuild, LatexRuns,
              LatexFindsItUpToDate, LatexFails, Render, RenderFails, Swap, SwapFails, Expire,
              Prune, DatePages, WriteBaseline
<1>6. memo' = memo \/ ReadSrcMtime \/ StoreSrcMtime \/ Measure \/ Expire \/ Crash
  BY StepsAre DEF vars, Writing, Beginning, Quiet, WriteText, TouchText, WriteFigure,
              MachineMoves, BeginBuild, Restart, Tabbing, TabClaims, TabRefreshes, RefreshIsLost, ThreadDoesNotStart, Copy, CopyFails,
              SkipUnchanged, DecideToCompile, KeepBuild, LatexRuns, LatexFindsItUpToDate,
              LatexFails, Render, RenderFails, Swap, SwapFails, Prune, DatePages, WriteBaseline,
              Record
<1>7. tab' = tab \/ Tabbing
  BY StepsAre DEF vars, Writing, Beginning, Quiet, WriteText, TouchText, WriteFigure,
              MachineMoves, ReadSrcMtime, StoreSrcMtime, BeginBuild, Crash, Restart,
              ThreadDoesNotStart, Measure, Copy, CopyFails, SkipUnchanged, DecideToCompile,
              KeepBuild, LatexRuns, LatexFindsItUpToDate, LatexFails, Render, RenderFails, Swap,
              SwapFails, Expire, Prune, DatePages, WriteBaseline, Record
<1>8. machine' = machine \/ MachineMoves
  BY StepsAre DEF vars, Writing, Beginning, Quiet, WriteText, TouchText, WriteFigure,
              ReadSrcMtime, StoreSrcMtime, BeginBuild, Crash, Restart, Tabbing, TabClaims, TabRefreshes, RefreshIsLost,
              ThreadDoesNotStart, Measure, Copy, CopyFails, SkipUnchanged, DecideToCompile,
              KeepBuild, LatexRuns, LatexFindsItUpToDate, LatexFails, Render, RenderFails, Swap,
              SwapFails, Expire, Prune, DatePages, WriteBaseline, Record
<1>9. man' = man \/ Writing
  BY StepsAre DEF vars, Beginning, Quiet, MachineMoves, ReadSrcMtime, StoreSrcMtime,
              BeginBuild, Crash, Restart, Tabbing, TabClaims, TabRefreshes, RefreshIsLost, ThreadDoesNotStart, Measure, Copy, CopyFails,
              SkipUnchanged, DecideToCompile, KeepBuild, LatexRuns, LatexFindsItUpToDate,
              LatexFails, Render, RenderFails, Swap, SwapFails, Expire, Prune, DatePages,
              WriteBaseline, Record
<1> QED BY <1>1, <1>2, <1>3, <1>4, <1>5, <1>6, <1>7, <1>8, <1>9

LEMMA CountsMove ==
  ASSUME used \in Counts, [Next]_vars
  PROVE  /\ used' \in Counts
         /\ used'.names = used.names \/ (Render /\ used'.names = used.names + 1)
         /\ used'.builds = used.builds \/ (Beginning /\ used'.builds = used.builds + 1)
         /\ used'.writes = used.writes \/ (Writing /\ used'.writes = used.writes + 1)
<1>1. CASE UNCHANGED vars
  BY <1>1 DEF vars
<1>2. CASE Writing
  BY <1>2, SpendCounts DEF Writing, WriteText, TouchText, WriteFigure
<1>3. CASE Beginning
  BY <1>3, SpendCounts DEF Beginning, BeginBuild
<1>4. CASE Render
  BY <1>4, SpendCounts DEF Render
<1>5. CASE Quiet
  BY <1>5, QuietCounts
<1> QED BY <1>1, <1>2, <1>3, <1>4, <1>5, StepsAre

LEMMA DrawnIsPage ==
  ASSUME WorldTyped, warm \in Warms, job \in Compiling, NEW stale \in BOOLEAN
  PROVE  Drawn(job.copy, stale) \in Pages
<1>1. job.copy \in Mans /\ job.machine \in Machines /\ machine \in Machines /\ dpi \in Nat
  BY DEF Compiling, WorldTyped
<1>2. /\ warm.reads \in BOOLEAN /\ warm.left \in BOOLEAN /\ warm.at \in Nat /\ warm.made \in Colds
  BY DEF Warms
<1>3. Cold(job.copy, job.machine) \in Colds /\ ReadsDigest(job.copy, warm.reads, machine) \in Digests
  BY <1>1, <1>2, ColdIsCold, DigestIsDigest
<1>4. Recipe(job.copy) \in Recipes
  BY <1>1, <1>3 DEF Recipe, Recipes, ColdDigest, Machines
<1> QED BY <1>2, <1>3, <1>4 DEF Drawn, Pages

(* The new folder, and what a removal leaves.                                 *)
LEMMA RenderAdds ==
  ASSUME Render
  PROVE  /\ DOMAIN page' = Folders \cup {NewName}
         /\ \E stale \in BOOLEAN : /\ stale <=> (warm.old \/ job.machine # machine)
                                   /\ page'[NewName] = Drawn(job.copy, stale)
                                   /\ warm' = [warm EXCEPT !.old = stale]
         /\ NewName \notin Folders => \A f \in Folders : page'[f] = page[f]
<1> DEFINE stale == warm.old \/ job.machine # machine
<1>1. page' = Adding(page, NewName, Drawn(job.copy, stale)) /\ warm' = [warm EXCEPT !.old = stale]
  BY DEF Render
<1>2. stale \in BOOLEAN /\ (stale <=> (warm.old \/ job.machine # machine))
  OBVIOUS
<1> HIDE DEF stale
<1>3. /\ DOMAIN page' = Folders \cup {NewName}
      /\ page'[NewName] = Drawn(job.copy, stale)
      /\ NewName \notin Folders => \A f \in Folders : page'[f] = page[f]
  BY <1>1 DEF Adding, Folders
<1> QED BY <1>1, <1>2, <1>3

LEMMA PruneLeaves ==
  ASSUME Prune
  PROVE  /\ DOMAIN page' = Folders \cap {cur, before}
         /\ \A f \in DOMAIN page' : page'[f] = page[f]
BY DEF Prune, Kept, Restrict, Folders

LEMMA FoldersStay ==
  ASSUME Typed, NoneIsNoValue, [Next]_vars
  PROVE  FoldersTyped'
<1>0. /\ used \in Counts /\ used.names \in Nat /\ used'.names \in Nat /\ used.names <= used'.names
      /\ FoldersTyped /\ job \in Jobs
  BY WorldStays, CountsMove DEF Typed, WorldTyped, BuildTyped, Counts
<1>1. CASE Render
  <2>1. /\ used'.names = NewName /\ cur' = cur /\ before' = before
    <3>1. Spend("names") /\ cur' = cur /\ before' = before
      BY <1>1 DEF Render
    <3> QED BY <3>1, <1>0, SpendCounts DEF NewName
  <2>2. NewName \notin Folders
    BY <1>0 DEF FoldersTyped, Folders, NewName
  <2>3. job \in Compiling /\ warm \in Warms
    BY <1>1, JobsHaveShapes DEF Render, Typed, BuildTyped
  <2>4. page'[NewName] \in Pages
    BY <1>1, <2>3, RenderAdds, DrawnIsPage DEF Typed
  <2>5. DOMAIN page' \subseteq 1..used'.names
    BY <1>0, <1>1, <2>1, RenderAdds DEF FoldersTyped, Folders, NewName
  <2>6. \A f \in DOMAIN page' : page'[f] \in Pages
    BY <1>0, <1>1, <2>2, <2>4, RenderAdds DEF FoldersTyped
  <2>7. cur' \in DOMAIN page' \cup {0} /\ before' \in Nat /\ before' <= used'.names
    BY <1>0, <1>1, <2>1, RenderAdds DEF FoldersTyped
  <2> QED BY <2>5, <2>6, <2>7 DEF FoldersTyped, Folders
<1>2. CASE Prune
  <2>1. cur' = cur /\ before' = before
    BY <1>2 DEF Prune
  <2> QED BY <1>0, <1>2, <2>1, PruneLeaves DEF FoldersTyped, Folders
<1>3. CASE Swap
  <2>1. /\ page' = page /\ cur' = job.new /\ before' = CurPages /\ job.pc = "swap"
    BY <1>3 DEF Swap
  <2>2. cur' \in Folders
    BY <2>1 DEF Typed, NewIsThere
  <2>3. before' \in Nat /\ before' <= used'.names
    BY <1>0, <2>1 DEF FoldersTyped, Folders, CurPages
  <2> QED BY <1>0, <2>1, <2>2, <2>3 DEF FoldersTyped, Folders
<1>4. CASE page' = page /\ cur' = cur /\ before' = before
  BY <1>0, <1>4 DEF FoldersTyped, Folders
<1> QED BY <1>1, <1>2, <1>3, <1>4, Frames

(* What a step may make of the entries of the history: a publication's, or the
   one a restart gives the pages on screen.                                   *)
Entered(f, entry) == /\ DOMAIN hist'.by = DOMAIN hist.by \cup {f}
                     /\ hist'.by[f] = entry
                     /\ \A g \in DOMAIN hist.by : g # f => hist'.by[g] = hist.by[g]

LEMMA EntryAdded ==
  ASSUME NEW f, NEW entry, hist'.by = Adding(hist.by, f, entry)
  PROVE  Entered(f, entry)
<1> DEFINE new == [y \in DOMAIN hist.by \cup {f} |-> IF y = f THEN entry ELSE hist.by[y]]
<1>1. /\ DOMAIN new = DOMAIN hist.by \cup {f}
      /\ new[f] = entry
      /\ \A g \in DOMAIN hist.by : g # f => new[g] = hist.by[g]
  OBVIOUS
<1>2. hist'.by = new
  BY DEF Adding
<1> HIDE DEF new
<1> QED BY <1>1, <1>2 DEF Entered

LEMMA RecordWrites ==
  ASSUME HistoryTyped, hist' # hist, Record
  PROVE  \/ /\ job.res = "unchanged"
            /\ hist' = [seq |-> hist.seq, last |-> hist.last, by |-> hist'.by]
            /\ DOMAIN hist'.by = DOMAIN hist.by
            /\ \A f \in DOMAIN hist.by : \/ hist'.by[f] = hist.by[f]
                                         \/ hist'.by[f] = [hist.by[f] EXCEPT !.at = job.at]
         \/ /\ job.res # "unchanged"
            /\ hist' = [seq |-> NextSeq, last |-> [state |-> job.res, build |-> job.new], by |-> hist'.by]
            /\ \/ job.new = None /\ hist'.by = hist.by
               \/ job.new # None /\ Entered(job.new, [at |-> job.at, hash |-> job.hash, guess |-> FALSE])
<1>0. hist = [seq |-> hist.seq, last |-> hist.last, by |-> hist.by]
  BY DEF HistoryTyped
<1>1. CASE job.res = "unchanged"
  <2>1. hist' = Confirmed
    BY <1>1 DEF Record
  <2>2. hist' = [hist EXCEPT !.by = [f \in DOMAIN hist.by |->
                   IF f = cur THEN [hist.by[f] EXCEPT !.at = job.at] ELSE hist.by[f]]]
    BY <2>1 DEF Confirmed
  <2>3. /\ hist' = [seq |-> hist.seq, last |-> hist.last, by |-> hist'.by]
        /\ hist'.by = [f \in DOMAIN hist.by |->
                        IF f = cur THEN [hist.by[f] EXCEPT !.at = job.at] ELSE hist.by[f]]
    BY <1>0, <2>2
  <2> QED BY <1>1, <2>3
<1>2. CASE job.res # "unchanged"
  <2>1. hist' = Counted
    BY <1>2 DEF Record
  <2>2. hist' = [seq |-> NextSeq, last |-> [state |-> job.res, build |-> job.new], by |-> hist'.by]
    BY <2>1 DEF Counted
  <2>3. CASE job.new = None
    BY <1>2, <2>1, <2>2, <2>3 DEF Counted
  <2>4. CASE job.new # None
    <3> DEFINE entry == [at |-> job.at, hash |-> job.hash, guess |-> FALSE]
    <3>1. hist'.by = Adding(hist.by, job.new, entry)
      BY <2>1, <2>4 DEF Counted
    <3> HIDE DEF entry
    <3>2. Entered(job.new, entry)
      BY <3>1, EntryAdded
    <3> QED BY <1>2, <2>2, <2>4, <3>2 DEF entry
  <2> QED BY <2>3, <2>4
<1> QED BY <1>1, <1>2

LEMMA RestartAdopts ==
  ASSUME HistoryTyped, hist' # hist, Restart
  PROVE  /\ cur \in Folders /\ cur \notin DOMAIN hist.by
         /\ hist' = [seq |-> hist.seq, last |-> hist.last, by |-> hist'.by]
         /\ \E same \in BOOLEAN :
              /\ same <=> SrcMtime <= SeedReference
              /\ Entered(cur, [guess |-> same /\ bsm = None,
                               hash |-> IF same THEN Fingerprint(man, page[cur].reads) ELSE None,
                               at |-> IF bsm # None THEN bsm ELSE IF same THEN SrcMtime ELSE None])
<1>0. hist = [seq |-> hist.seq, last |-> hist.last, by |-> hist.by]
  BY DEF HistoryTyped
<1> DEFINE same == SrcMtime <= SeedReference
           entry == [guess |-> same /\ bsm = None,
                     hash |-> IF same THEN Fingerprint(man, page[cur].reads) ELSE None,
                     at |-> IF bsm # None THEN bsm ELSE IF same THEN SrcMtime ELSE None]
<1>1. hist' = Seeded
  BY DEF Restart
<1>2. cur \in Folders /\ cur \notin DOMAIN hist.by
  BY <1>1 DEF Seeded
<1>3. hist' = [hist EXCEPT !.by = Adding(hist.by, cur, entry)]
  BY <1>1, <1>2 DEF Seeded
<1>4. same \in BOOLEAN
  OBVIOUS
<1> HIDE DEF entry
<1>5. /\ hist' = [seq |-> hist.seq, last |-> hist.last, by |-> hist'.by]
      /\ hist'.by = Adding(hist.by, cur, entry)
  BY <1>0, <1>3
<1>6. Entered(cur, entry)
  BY <1>5, EntryAdded
<1> QED BY <1>2, <1>4, <1>5, <1>6 DEF entry

LEMMA HistoryStays ==
  ASSUME Typed, NoneIsNoValue, [Next]_vars
  PROVE  HistoryTyped'
<1>0. /\ HistoryTyped /\ used.names \in Nat /\ used'.names \in Nat /\ used.names <= used'.names
      /\ job \in Jobs /\ bsm \in Figs
  BY WorldStays, CountsMove DEF Typed, WorldTyped, BuildTyped, HistoryTyped, Counts
<1>1. bsm' \in Figs
  <2>1. CASE WriteBaseline
    <3>1. job.pc = "baseline" /\ bsm' \in {bsm, job.at}
      BY <2>1 DEF WriteBaseline
    <3>2. job.at \in Figs
      BY <1>0, <3>1, JobsHaveShapes DEF Published, Unchanged, Figs
    <3> QED BY <1>0, <3>1, <3>2
  <2> QED BY <1>0, <2>1, Frames
<1>2. CASE hist' = hist
  BY <1>0, <1>1, <1>2 DEF HistoryTyped
<1>3. CASE hist' # hist /\ Record
  <2>1. job.pc = "record" /\ job \in Published \cup Unchanged \cup Failed
    BY <1>0, <1>3, JobsHaveShapes DEF Record
  <2>2. CASE job.res = "unchanged"
    <3>1. job.at \in Figs
      BY <2>1, <2>2 DEF Published, Unchanged, Failed, Figs
    <3>2. /\ hist' = [seq |-> hist.seq, last |-> hist.last, by |-> hist'.by]
          /\ DOMAIN hist'.by = DOMAIN hist.by
          /\ \A f \in DOMAIN hist.by : \/ hist'.by[f] = hist.by[f]
                                       \/ hist'.by[f] = [hist.by[f] EXCEPT !.at = job.at]
      BY <1>0, <1>3, <2>2, RecordWrites
    <3>3. \A f \in DOMAIN hist'.by : hist'.by[f] \in Entries
      <4> SUFFICES ASSUME NEW f \in DOMAIN hist'.by PROVE hist'.by[f] \in Entries
        OBVIOUS
      <4>1. hist.by[f] \in Entries
        BY <1>0, <3>2 DEF HistoryTyped
      <4>2. [hist.by[f] EXCEPT !.at = job.at] \in Entries
        BY <3>1, <4>1 DEF Entries
      <4> QED BY <3>2, <4>1, <4>2
    <3> QED BY <1>0, <1>1, <3>2, <3>3 DEF HistoryTyped
  <2>3. CASE job.res # "unchanged"
    <3>1. /\ hist' = [seq |-> NextSeq, last |-> [state |-> job.res, build |-> job.new], by |-> hist'.by]
          /\ \/ job.new = None /\ hist'.by = hist.by
             \/ job.new # None /\ Entered(job.new, [at |-> job.at, hash |-> job.hash, guess |-> FALSE])
      BY <1>0, <1>3, <2>3, RecordWrites
    <3>2. [state |-> job.res, build |-> job.new] \in [state : States, build : Figs]
      BY <2>1, <2>3 DEF States, Published, Unchanged, Failed, Figs
    <3>3. NextSeq \in Nat
      BY <1>0, NextSeqIsLarger DEF HistoryTyped, Typed, BuildTyped
    <3>4. CASE job.new = None
      BY <1>0, <1>1, <3>1, <3>2, <3>3, <3>4 DEF HistoryTyped
    <3>5. CASE job.new # None
      <4>1. job \in Published
        BY <2>1, <3>5 DEF Published, Unchanged, Failed
      <4> DEFINE entry == [at |-> job.at, hash |-> job.hash, guess |-> FALSE]
      <4>2. entry \in Entries
        BY <4>1 DEF Published, Entries, Figs
      <4>3. job.new \in 1..used.names
        BY <1>0, <2>1, <4>1 DEF Typed, NewIsThere, FoldersTyped, Folders, Published
      <4>4. Entered(job.new, entry)
        BY <3>1, <3>5
      <4> HIDE DEF entry
      <4>5. DOMAIN hist'.by \subseteq 1..used'.names /\ \A f \in DOMAIN hist'.by : hist'.by[f] \in Entries
        BY <1>0, <4>2, <4>3, <4>4 DEF Entered, HistoryTyped
      <4> QED BY <1>1, <3>1, <3>2, <3>3, <4>5 DEF HistoryTyped
    <3> QED BY <3>4, <3>5
  <2> QED BY <2>2, <2>3
<1>4. CASE hist' # hist /\ Restart
  <2>1. PICK same \in BOOLEAN :
           Entered(cur, [guess |-> same /\ bsm = None,
                         hash |-> IF same THEN Fingerprint(man, page[cur].reads) ELSE None,
                         at |-> IF bsm # None THEN bsm ELSE IF same THEN SrcMtime ELSE None])
    BY <1>0, <1>4, RestartAdopts
  <2>2. /\ hist' = [seq |-> hist.seq, last |-> hist.last, by |-> hist'.by]
        /\ cur \in Folders
    BY <1>0, <1>4, RestartAdopts
  <2> DEFINE entry == [guess |-> same /\ bsm = None,
                       hash |-> IF same THEN Fingerprint(man, page[cur].reads) ELSE None,
                       at |-> IF bsm # None THEN bsm ELSE IF same THEN SrcMtime ELSE None]
  <2>3. entry \in Entries
    <3>1. SrcMtime \in Nat /\ Fingerprint(man, page[cur].reads) \in Hashes
      BY <2>2, SrcMtimeIsPast, FingerprintIsHash DEF Typed, WorldTyped, FoldersTyped, Pages
    <3>2. (same /\ bsm = None) \in BOOLEAN
      OBVIOUS
    <3> QED BY <1>0, <3>1, <3>2 DEF Entries, Figs
  <2>4. Entered(cur, entry)
    BY <2>1
  <2> HIDE DEF entry
  <2>5. DOMAIN hist'.by \subseteq 1..used'.names /\ \A f \in DOMAIN hist'.by : hist'.by[f] \in Entries
    BY <1>0, <2>2, <2>3, <2>4 DEF Entered, HistoryTyped, Typed, FoldersTyped, Folders
  <2> QED BY <1>0, <1>1, <2>2, <2>5 DEF HistoryTyped
<1> QED BY <1>2, <1>3, <1>4, Frames

LEMMA ReadersStay ==
  ASSUME Typed, NoneIsNoValue, [Next]_vars
  PROVE  ReadersTyped'
<1>0. /\ memo \in [held : Figs, reader : Figs, late : BOOLEAN]
      /\ tab \in Tabs /\ tab.shown <= used.names
      /\ used.names \in Nat /\ used'.names \in Nat /\ used.names <= used'.names
      /\ cur \in Nat /\ CurPages \in Nat /\ CurPages <= used.names /\ bstate.seq \in Nat
  BY WorldStays, CountsMove
     DEF Typed, WorldTyped, ReadersTyped, FoldersTyped, BuildTyped, Counts, CurPages, Folders
<1>1. memo' \in [held : Figs, reader : Figs, late : BOOLEAN]
  <2>0. cur \in Figs /\ None \in Figs /\ (memo.reader # None) \in BOOLEAN
    BY <1>0 DEF Figs
  <2>1. CASE ReadSrcMtime
    BY <1>0, <2>0, <2>1 DEF ReadSrcMtime
  <2>2. CASE StoreSrcMtime
    BY <1>0, <2>0, <2>2 DEF StoreSrcMtime
  <2>3. CASE Measure
    BY <1>0, <2>0, <2>3 DEF Measure
  <2>4. CASE Expire
    BY <1>0, <2>0, <2>4 DEF Expire, ExpireSrcMtime
  <2>5. CASE Crash
    BY <2>0, <2>5 DEF Crash
  <2> QED BY <1>0, <2>1, <2>2, <2>3, <2>4, <2>5, Frames
<1>2. tab' \in Tabs /\ tab'.shown <= used'.names
  <2>1. CASE TabClaims
    BY <1>0, <2>1 DEF TabClaims, Tabs
  <2>2. CASE TabRefreshes
    BY <1>0, <2>2 DEF TabRefreshes, Tabs
  <2>3. CASE RefreshIsLost
    <3>1. tab' = [tab EXCEPT !.asking = FALSE, !.missed = TRUE]
      BY <2>3 DEF RefreshIsLost
    <3>2. tab' \in Tabs /\ tab'.shown = tab.shown /\ tab.shown \in Nat
      BY ONLY <1>0, <3>1 DEF Tabs
    <3> QED BY ONLY <1>0, <3>2
  <2>4. CASE tab' = tab
    <3>1. tab.shown \in Nat
      BY ONLY <1>0 DEF Tabs
    <3> QED BY ONLY <1>0, <3>1, <2>4
  <2>5. tab' = tab \/ Tabbing
    BY Frames
  <2> QED BY ONLY <2>1, <2>2, <2>3, <2>4, <2>5 DEF Tabbing
<1> QED BY <1>1, <1>2 DEF ReadersTyped

(* Where a build may go from where it is.                                     *)
LEMMA PcMoves ==
  ASSUME [Next]_vars, job \in Jobs
  PROVE  \/ job' = job
         \/ job' = NoJob /\ (Crash \/ (Record /\ job.pc = "record"))
         \/ job.pc = "none" /\ job'.pc = "measure" /\ Beginning
         \/ job.pc = "measure" /\ job'.pc = "copy" /\ Measure
         \/ job.pc = "copy" /\ job'.pc = "decide" /\ Copy
         \/ job.pc = "decide" /\ job'.pc = "kept" /\ SkipUnchanged
         \/ job.pc = "decide" /\ job'.pc = "latex" /\ DecideToCompile
         \/ job.pc = "latex" /\ job'.pc = "render" /\ (LatexRuns \/ LatexFindsItUpToDate)
         \/ job.pc = "render" /\ job'.pc = "swap" /\ Render
         \/ job.pc = "swap" /\ job'.pc = "expire" /\ Swap
         \/ job.pc = "expire" /\ job'.pc = "prune" /\ Expire
         \/ job.pc = "prune" /\ job'.pc = "date" /\ Prune
         \/ job.pc = "kept" /\ job'.pc = "baseline" /\ job'.res = "unchanged" /\ KeepBuild
         \/ job.pc = "date" /\ job'.pc = "baseline" /\ job'.res \in {"ok", "ok_errors"} /\ DatePages
         \/ job.pc = "baseline" /\ job'.pc = "record" /\ job'.res = job.res /\ WriteBaseline
         \/ /\ job.pc \in {"measure", "copy", "kept", "latex", "render", "swap", "date"}
            /\ job'.pc = "record" /\ job'.res = "fail" /\ (job.pc # "measure" => warm' = None)
<1> USE JobsHaveShapes
<1>1. CASE \/ UNCHANGED vars \/ Writing \/ MachineMoves \/ ReadSrcMtime \/ StoreSrcMtime \/ Restart \/ Tabbing
  BY <1>1 DEF vars, Writing, WriteText, TouchText, WriteFigure, MachineMoves, ReadSrcMtime,
              StoreSrcMtime, Restart, Tabbing, TabClaims, TabRefreshes, RefreshIsLost
<1>2. CASE Beginning \/ Crash \/ Record \/ ThreadDoesNotStart
  BY <1>2 DEF Beginning, BeginBuild, NoJob, Crash, Record, ThreadDoesNotStart
<1>3. CASE CopyFails \/ LatexFails \/ RenderFails \/ SwapFails
  BY <1>3, HowItEnds DEF CopyFails, LatexFails, RenderFails, SwapFails
<1>4. CASE KeepBuild \/ DatePages
  BY <1>4, HowItEnds DEF KeepBuild, DatePages
<1>5. CASE Measure
  BY <1>5 DEF Measure, Waiting
<1>6. CASE Copy \/ SkipUnchanged \/ DecideToCompile \/ Render
  BY <1>6 DEF Copy, SkipUnchanged, DecideToCompile, Render
<1>7. CASE LatexRuns \/ LatexFindsItUpToDate
  BY <1>7 DEF LatexRuns, LatexFindsItUpToDate, Compiling
<1>8. CASE Swap \/ Expire \/ Prune
  BY <1>8 DEF Swap, Expire, Prune, Showing
<1>9. CASE WriteBaseline
  BY <1>9 DEF WriteBaseline, Published, Unchanged
<1> QED BY <1>1, <1>2, <1>3, <1>4, <1>5, <1>6, <1>7, <1>8, <1>9, StepsAre DEF Quiet

LEMMA NamesStay ==
  ASSUME Typed, NoneIsNoValue, [Next]_vars
  PROVE  NamesCounted'
<1>0. /\ used \in Counts /\ used.names \in Nat /\ used.builds \in Nat /\ MaxBuilds \in Nat
      /\ job \in Jobs /\ NamesCounted
  BY LatexBuildAssumption DEF Typed, WorldTyped, BuildTyped, Counts
<1>1. CASE Beginning
  <2>1. used.builds < MaxBuilds /\ Spend("builds")
    BY <1>1 DEF Beginning, BeginBuild
  <2> QED BY <1>0, <2>1, SpendCounts DEF NamesCounted
<1>2. CASE Render
  <2>1. job.pc = "render" /\ job'.pc = "swap" /\ Spend("names")
    BY <1>2 DEF Render
  <2> QED BY <1>0, <2>1, SpendCounts DEF NamesCounted, Unnamed
<1>3. CASE ~Beginning /\ ~Render
  <2>1. used'.names = used.names /\ used'.builds = used.builds
    BY <1>0, <1>3, CountsMove
  <2>2. Unnamed' => Unnamed
    BY <1>0, <1>3, PcMoves DEF Unnamed, NoJob
  <2> QED BY <1>0, <2>1, <2>2 DEF NamesCounted
<1> QED BY <1>1, <1>2, <1>3

LEMMA NewStays ==
  ASSUME Typed, NoneIsNoValue, [Next]_vars
  PROVE  NewIsThere'
<1>0. NewIsThere /\ FoldersTyped /\ job \in Jobs /\ job' \in Jobs
  BY BuildStays DEF Typed, BuildTyped
<1>1. CASE Render
  <2>1. job'.pc = "swap" /\ job'.new = NewName /\ cur' = cur
    BY <1>1 DEF Render
  <2>2. NewName \in DOMAIN page' /\ cur < NewName
    BY <1>1, RenderAdds DEF Typed, FoldersTyped, WorldTyped, Counts, Folders, NewName
  <2> QED BY <2>1, <2>2 DEF NewIsThere, Folders
<1>2. CASE Swap
  <2>1. job.pc = "swap" /\ page' = page /\ cur' = job.new /\ job' = [job EXCEPT !.pc = "expire"]
    BY <1>2 DEF Swap
  <2>2. job'.pc = "expire" /\ job'.new = job.new
    BY <1>0, <2>1, JobsHaveShapes DEF Showing
  <2> QED BY <1>0, <2>1, <2>2 DEF NewIsThere, Folders
<1>3. CASE Expire \/ Prune
  <2>1. job.pc \in {"expire", "prune"} /\ cur' = cur
    BY <1>3 DEF Expire, Prune
  <2>2. job'.pc \in {"prune", "date"} /\ job'.new = job.new
    BY <1>0, <1>3, <2>1, JobsHaveShapes DEF Expire, Prune, Showing
  <2>3. job.new \in DOMAIN page'
    BY <1>0, <1>3, <2>1, PruneLeaves DEF Expire, NewIsThere, Folders
  <2> QED BY <1>0, <2>1, <2>2, <2>3 DEF NewIsThere, Folders
<1>4. CASE DatePages \/ WriteBaseline
  <2>1. cur' = cur /\ page' = page /\ job.pc \in {"date", "baseline"}
    BY <1>4 DEF DatePages, WriteBaseline
  <2>2. /\ job'.pc \in {"baseline", "record"}
        /\ job'.res \in {"ok", "ok_errors"} => job'.new = job.new
                                               /\ (job.pc = "date" \/ job.res = job'.res)
    <3>1. CASE DatePages
      BY <3>1, <2>1, HowItEnds DEF DatePages
    <3>2. CASE WriteBaseline
      BY <1>0, <3>2, JobsHaveShapes DEF WriteBaseline, Published, Unchanged
    <3> QED BY <1>4, <3>1, <3>2
  <2> QED BY <1>0, <2>1, <2>2 DEF NewIsThere, Folders
<1>5. CASE ~(Render \/ Swap \/ Expire \/ Prune \/ DatePages \/ WriteBaseline)
  <2>1. cur' = cur /\ page' = page
    BY <1>5, Frames
  <2>2. \/ job' = job
        \/ job'.pc \notin {"swap", "expire", "prune", "date", "baseline", "record"}
        \/ job'.pc \in {"baseline", "record"} /\ job'.res \notin {"ok", "ok_errors"}
    BY <1>0, <1>5, PcMoves DEF NoJob
  <2> QED BY <1>0, <2>1, <2>2 DEF NewIsThere, Folders
<1> QED BY <1>1, <1>2, <1>3, <1>4, <1>5

(* Every value keeps its shape.                                               *)
LEMMA TypedStays ==
  ASSUME Typed, NoneIsNoValue, [Next]_vars
  PROVE  Typed'
BY WorldStays, FoldersStay, HistoryStays, ReadersStay, BuildStays, NamesStay, NewStays DEF Typed

LEMMA TypedAtFirst ==
  ASSUME Init, NoneIsNoValue
  PROVE  Typed
<1>1. WorldTyped
  BY DEF Init, WorldTyped, Mans, Machines, Counts, Now
<1>2. FoldersTyped
  BY DEF Init, FoldersTyped, Folders
<1>3. HistoryTyped
  BY DEF Init, HistoryTyped, EmptyBuilds, States, Figs
<1>4. ReadersTyped
  BY DEF Init, ReadersTyped, Tabs, Figs
<1>5. BuildTyped
  BY DEF Init, BuildTyped, NoJob, Jobs, States
<1>6. NamesCounted
  BY LatexBuildAssumption DEF Init, NamesCounted, Unnamed, NoJob
<1>7. NewIsThere
  BY DEF Init, NewIsThere, NoJob
<1> QED BY <1>1, <1>2, <1>3, <1>4, <1>5, <1>6, <1>7 DEF Typed

(* The parts of the state agree with one another, whatever fails.             *)
THEOREM TypesHold == ASSUME NoneIsNoValue PROVE Spec => []Typed
<1>1. Init => Typed
  BY TypedAtFirst
<1>2. Typed /\ [Next]_vars => Typed'
  BY TypedStays
<1> QED BY <1>1, <1>2, PTL DEF Spec

-----------------------------------------------------------------------------
(* The page folders are a Screen: a drawn folder is complete, a publication
   shows it, a removal spares the screen and the folder before it.            *)

LEMMA StepsOfTheScreen ==
  ASSUME Typed, NoneIsNoValue, [Next]_vars
  PROVE  [Abstract!Next]_<<cur, before, Folders>>
<1>0. FoldersTyped /\ used.names \in Nat
  BY DEF Typed, WorldTyped, Counts
<1>1. CASE Render
  <2>1. cur' = cur /\ before' = before /\ DOMAIN page' = Folders \cup {NewName}
    BY <1>1, RenderAdds DEF Render
  <2>2. \A g \in Folders \cup {cur, before} : g < NewName
    BY <1>0 DEF FoldersTyped, Folders, NewName
  <2>3. Abstract!Complete
    BY <2>1, <2>2 DEF Abstract!Complete, Folders
  <2> QED BY <2>3 DEF Abstract!Next
<1>2. CASE Swap
  <2>1. job.pc = "swap" /\ page' = page /\ cur' = job.new /\ before' = CurPages
    BY <1>2 DEF Swap
  <2>2. job.new \in Folders /\ job.new > cur /\ CurPages = cur
    BY <1>0, <2>1 DEF Typed, NewIsThere, FoldersTyped, Folders, CurPages
  <2>3. Abstract!Show
    BY <2>1, <2>2 DEF Abstract!Show, Folders
  <2> QED BY <2>3 DEF Abstract!Next
<1>3. CASE Prune
  <2>1. cur' = cur /\ before' = before /\ DOMAIN page' = Folders \cap {cur, before}
    BY <1>3, PruneLeaves DEF Prune
  <2>2. Abstract!Prune
    BY <2>1 DEF Abstract!Prune, Folders
  <2> QED BY <2>2 DEF Abstract!Next
<1>4. CASE page' = page /\ cur' = cur /\ before' = before
  BY <1>4 DEF Folders
<1> QED BY <1>1, <1>2, <1>3, <1>4, Frames

(* Whatever is interrupted or fails, what a client may ask for is a Screen: new
   folders appear whole, the screen moves to a newer one that is there, and the
   folder shown before stays until the next move (commit_pages, cur_pages).    *)
THEOREM FoldersAreTheScreen == ASSUME NoneIsNoValue PROVE Spec => ImplementsScreen
<1>1. Init => Abstract!Init
  BY DEF Init, Abstract!Init, Folders
<1>2. Typed /\ [Next]_vars => [Abstract!Next]_<<cur, before, Folders>>
  BY StepsOfTheScreen
<1> QED BY <1>1, <1>2, TypesHold, PTL DEF Spec, ImplementsScreen, Abstract!Spec, Abstract!screenVars

-----------------------------------------------------------------------------
(* What readers are told is of the build on screen *)

LEMMA MemoStays ==
  ASSUME Typed, NoneIsNoValue, MemoInv, [Next]_vars
  PROVE  MemoInv'
<1>0. /\ memo \in [held : Figs, reader : Figs, late : BOOLEAN] /\ job \in Jobs
      /\ MemoIsAboutScreen
      /\ memo.reader # None /\ ~memo.late /\ job.pc # "expire" => memo.reader = cur
  BY DEF Typed, ReadersTyped, BuildTyped, MemoInv
<1> USE DEF MemoInv, MemoIsAboutScreen
<1>1. CASE ReadSrcMtime
  <2>1. memo' = [memo EXCEPT !.reader = cur, !.late = FALSE] /\ cur' = cur /\ job' = job
    BY <1>1 DEF ReadSrcMtime
  <2> QED BY <1>0, <2>1
<1>2. CASE StoreSrcMtime
  <2>1. /\ memo' = [held |-> IF KeepSrcMtime(memo.late) THEN memo.reader ELSE memo.held,
                    reader |-> None, late |-> FALSE]
        /\ memo.reader # None /\ cur' = cur /\ job' = job
    BY <1>2 DEF StoreSrcMtime
  <2> QED BY <1>0, <2>1 DEF KeepSrcMtime
<1>3. CASE Measure
  <2>1. memo' = [memo EXCEPT !.held = cur] /\ cur' = cur /\ job.pc = "measure"
    BY <1>3 DEF Measure
  <2> QED BY <1>0, <2>1
<1>4. CASE Expire
  <2>1. memo' = [memo EXCEPT !.held = None, !.late = memo.reader # None]
    BY <1>4 DEF Expire, ExpireSrcMtime
  <2>2. memo'.held = None /\ (memo'.late <=> memo.reader # None) /\ memo'.reader = memo.reader
    BY <1>0, <2>1
  <2> QED BY <2>2
<1>5. CASE Crash
  <2>1. memo' = [held |-> None, reader |-> None, late |-> FALSE]
    BY <1>5 DEF Crash
  <2> QED BY <2>1
<1>6. CASE Swap
  <2>1. job.pc = "swap" /\ job' = [job EXCEPT !.pc = "expire"]
    BY <1>6 DEF Swap
  <2>2. job'.pc = "expire"
    BY <1>0, <2>1, JobsHaveShapes DEF Showing
  <2> QED BY <2>2
<1>7. CASE ~(ReadSrcMtime \/ StoreSrcMtime \/ Measure \/ Expire \/ Crash \/ Swap)
  <2>1. memo' = memo /\ cur' = cur
    BY <1>7, Frames
  <2>2. job'.pc # "expire" => job.pc # "expire"
    BY <1>0, <1>7, PcMoves
  <2> QED BY <1>0, <2>1, <2>2
<1> QED BY <1>1, <1>2, <1>3, <1>4, <1>5, <1>6, <1>7

LEMMA SeqStays ==
  ASSUME Typed, NoneIsNoValue, SeqInv, [Next]_vars
  PROVE  SeqInv'
<1>0. /\ job \in Jobs /\ bstate.seq \in Nat /\ hist.seq \in Nat /\ tab.seq \in Nat /\ tab \in Tabs
      /\ job # NoJob => bstate.state = "running"
      /\ used \in Counts /\ HistoryTyped
  BY DEF Typed, BuildTyped, HistoryTyped, ReadersTyped, WorldTyped, Tabs
<1>1. CASE Crash
  <2>1. /\ bstate'.state = "down" /\ job' = NoJob /\ hist' = hist /\ tab' = tab /\ cur' = cur /\ Up
        /\ used'.lost <=> \/ used.lost \/ used.unwritten
                          \/ job.pc \in {"expire", "prune", "date", "baseline", "record"}
    BY <1>0, <1>1, CrashCounts DEF Crash
  <2>2. ~used'.lost => ~used'.unwritten
    <3>1. used' = [used EXCEPT !.mishaps = @ + 1,
                               !.lost = @ \/ used.unwritten
                                          \/ job.pc \in {"expire", "prune", "date", "baseline", "record"}]
      BY <1>1 DEF Crash
    <3>2. used'.unwritten = used.unwritten
      BY <1>0, <3>1 DEF Counts
    <3> QED BY <2>1, <3>2
  <2>3. ~used'.lost => /\ ~used.lost /\ hist.seq = bstate.seq /\ ~Moved
    BY <2>1 DEF SeqInv, Moved, Follows
  <2> QED BY <2>1, <2>2, <2>3 DEF SeqInv, Up, Follows
<1>2. CASE Restart
  <2>1. /\ ~Up /\ bstate' = Restored /\ job' = job /\ cur' = cur /\ tab' = tab /\ used' = used
        /\ hist'.seq = hist.seq
    <3>1. hist'.seq = hist.seq
      BY <1>0, <1>2, RestartAdopts
    <3> QED BY <1>2, <3>1 DEF Restart
  <2>2. bstate'.seq = hist.seq
    BY <2>1 DEF Restored
  <2>3. job = NoJob
    BY <1>0, <2>1 DEF Up
  <2>4. ~used'.lost => tab.seq <= hist.seq /\ (tab.seq = hist.seq => Follows)
    BY <2>1 DEF SeqInv, Follows
  <2>5. ~used'.lost => ~used'.unwritten
    BY <2>1 DEF SeqInv, Follows
  <2> QED BY <1>0, <2>1, <2>2, <2>4, <2>5 DEF SeqInv, Follows
<1>3. CASE Record
  <2>1. job.pc = "record" /\ job' = NoJob /\ cur' = cur /\ tab' = tab /\ Up
        /\ bstate' = [state |-> StateOf(job.res), unchanged |-> job.res = "unchanged",
                      seq |-> IF job.res = "unchanged" THEN bstate.seq ELSE NextSeq]
    BY <1>0, <1>3 DEF Record, NoJob, Up
  <2>2. used'.lost = used.lost
    BY <1>0, <1>3, RecordCounts
  <2>3. bstate'.state # "down"
    BY <1>0, <2>1, JobsHaveShapes DEF StateOf, Published, Unchanged, Failed
  <2>4. NextSeq \in Nat /\ hist.seq < NextSeq /\ bstate.seq < NextSeq
    BY <1>0, NextSeqIsLarger
  <2>5. CASE job.res = "unchanged"
    <3>1. bstate'.seq = bstate.seq /\ hist'.seq = hist.seq
      BY <1>0, <1>3, <2>1, <2>5, RecordWrites
    <3>2. ~used'.unwritten => ~used.unwritten
      BY <1>0, <1>3, <2>5 DEF Record, Counts
    <3>3. ~Moved
      BY <2>1, <2>5 DEF Moved
    <3> QED BY <1>0, <2>1, <2>2, <2>3, <3>1, <3>2, <3>3 DEF SeqInv, Up, Follows
  <2>6. CASE job.res # "unchanged"
    <3>1. bstate'.seq = NextSeq
      BY <2>1, <2>6
    <3>2. hist'.seq \in {hist.seq, NextSeq}
      BY <1>0, <1>3, <2>6, RecordWrites
    <3>3. ~used'.unwritten => hist'.seq = NextSeq
      <4>1. CASE hist' = Counted
        BY <4>1 DEF Counted
      <4>2. CASE used' = [used EXCEPT !.mishaps = @ + 1, !.unwritten = @ \/ job.res # "unchanged"]
        BY <1>0, <2>6, <4>2 DEF Counts
      <4> QED BY <1>3, <2>6, <4>1, <4>2 DEF Record
    <3>4. Up /\ ~used.lost => tab.seq < NextSeq
      BY <1>0, <2>4 DEF SeqInv, Follows
    <3> QED BY <1>0, <2>1, <2>2, <2>3, <2>4, <3>1, <3>2, <3>3, <3>4 DEF SeqInv, Up, Follows
  <2> QED BY <2>5, <2>6
<1>4. CASE Tabbing
  <2>1. /\ hist' = hist /\ bstate' = bstate /\ cur' = cur /\ job' = job
        /\ used'.lost = used.lost /\ used'.unwritten = used.unwritten
    <3>1. used' = used \/ Spend("mishaps")
      BY <1>4 DEF Tabbing, TabClaims, TabRefreshes, RefreshIsLost
    <3>2. used'.lost = used.lost /\ used'.unwritten = used.unwritten
      BY <1>0, <3>1, SpendCounts
    <3> QED BY <1>4, <3>2 DEF Tabbing, TabClaims, TabRefreshes, RefreshIsLost
  <2>2. CurPages = cur
    BY DEF Typed, FoldersTyped, CurPages
  <2>3. CASE TabClaims
    <3>1. Up /\ tab'.seq = bstate.seq /\ tab'.asking
      BY <1>0, <2>3 DEF TabClaims, Tabs
    <3> QED BY <1>0, <2>1, <3>1 DEF SeqInv, Up, Follows
  <2>4. CASE TabRefreshes
    <3>1. Up /\ tab'.seq = tab.seq /\ tab'.shown = cur
      BY <1>0, <2>2, <2>4 DEF TabRefreshes, Tabs
    <3> QED BY <1>0, <2>1, <3>1 DEF SeqInv, Up, Follows
  <2>5. CASE RefreshIsLost
    <3>1. tab' = [tab EXCEPT !.asking = FALSE, !.missed = TRUE]
      BY <2>5 DEF RefreshIsLost
    <3>2. tab'.seq = tab.seq /\ tab'.missed
      BY <1>0, <3>1 DEF Tabs
    <3>3. Moved' <=> Moved
      BY <2>1 DEF Moved
    <3> QED BY <1>0, <2>1, <3>2, <3>3 DEF SeqInv, Up, Follows
  <2> QED BY <1>4, <2>3, <2>4, <2>5 DEF Tabbing
<1>5. CASE ~(Crash \/ Restart \/ Record \/ Tabbing)
  <2>1. hist' = hist /\ tab' = tab
    BY <1>5, Frames
  <2>2. bstate'.seq = bstate.seq /\ (Up <=> Up')
    <3>1. CASE Beginning
      BY <1>0, <3>1 DEF Beginning, BeginBuild, Up, Typed, BuildTyped
    <3> QED BY <1>5, <3>1, Frames DEF Up
  <2>3. used'.lost = used.lost /\ used'.unwritten = used.unwritten
    <3>1. UNCHANGED used \/ Spend("writes") \/ Spend("names") \/ Spend("builds") \/ Spend("reads")
          \/ Spend("mishaps")
      BY <1>5, StepsAre DEF vars, Writing, Beginning, Quiet, WriteText, TouchText, WriteFigure,
              MachineMoves, ReadSrcMtime, StoreSrcMtime, BeginBuild,
              ThreadDoesNotStart, Measure, Copy, CopyFails, SkipUnchanged, DecideToCompile,
              KeepBuild, LatexRuns, LatexFindsItUpToDate, LatexFails, Render, RenderFails, Swap,
              SwapFails, Expire, Prune, DatePages, WriteBaseline
    <3> QED BY <1>0, <3>1, SpendCounts
  <2>4. cur' = cur \/ Moved'
    <3>1. CASE Swap
      BY <1>0, <3>1, JobsHaveShapes DEF Swap, Moved, Showing
    <3> QED BY <3>1, Frames
  <2>5. ~Moved' => ~Moved
    BY <1>0, <1>5, PcMoves DEF Moved, NoJob
  <2>6. ~Up => cur' = cur
    <3>1. ~Up => job.pc = "none"
      BY <1>0 DEF Up, NoJob
    <3>2. Swap => job.pc = "swap"
      BY DEF Swap
    <3> QED BY <3>1, <3>2, Frames
  <2>7. CASE Up
    BY <1>0, <2>1, <2>2, <2>3, <2>4, <2>5, <2>7 DEF SeqInv, Follows
  <2>8. CASE ~Up
    BY <1>0, <2>1, <2>2, <2>3, <2>6, <2>8 DEF SeqInv, Follows
  <2> QED BY <2>7, <2>8
<1> QED BY <1>1, <1>2, <1>3, <1>4, <1>5

(* The memo of src_mtime holds a measurement against the build on screen
   (expire_src_mtime).  A tab that has claimed the count it is told shows the pages
   that count stands for, or is asking for them, or lost the one refresh it asks
   for a count (pollBuildOnce); what a crash cost the history is not covered.     *)
THEOREM ReadersAreToldTheScreen == ASSUME NoneIsNoValue PROVE Spec => []ReadersMeetScreen
<1>1. Init => MemoInv /\ SeqInv
  BY DEF Init, MemoInv, MemoIsAboutScreen, SeqInv, Follows, EmptyBuilds, Up
<1>2. Typed /\ MemoInv /\ SeqInv /\ [Next]_vars => MemoInv' /\ SeqInv'
  BY MemoStays, SeqStays
<1>3. Typed /\ MemoInv /\ SeqInv => ReadersMeetScreen
  <2>1. ASSUME BuildTyped, bstate.state # "running"
        PROVE  ~Moved
    BY <2>1 DEF BuildTyped, Moved, NoJob
  <2> QED BY <2>1 DEF MemoInv, SeqInv, Follows, ReadersMeetScreen, SeqTellsScreen, Typed
<1> QED BY <1>1, <1>2, <1>3, TypesHold, PTL DEF Spec

-----------------------------------------------------------------------------
(* The pages and the byproducts *)

(* A recorded digest that comes out the same now over copy c and machine m
   vouches for the pages: a cold build would make them again.                 *)
LEMMA DigestVouches ==
  ASSUME NEW p \in Pages, RecipeTells(p), NEW c \in Mans, NEW m \in Machines, NoneIsNoValue,
         p.recipe.digest = ReadsDigest(c, p.reads, m)
  PROVE  /\ p.want.text = c.text
         /\ p.reads => c.text \in Figured /\ p.want.fig = c.fig
         /\ ~p.left /\ ~p.stale /\ p.recipe.cold = m.tools => p.made = Cold(c, m)
<1>1. /\ p.want \in Colds /\ p.reads \in BOOLEAN /\ p.recipe.digest # None
  BY DigestIsDigest DEF Pages, NoneIsNoValue
<1>2. /\ p.recipe.digest.in = Fingerprint(c, p.reads) /\ p.recipe.digest.outside = m.outside
  BY DEF ReadsDigest
<1>3. p.recipe.digest.in = [text |-> p.want.text, fig |-> IF p.reads THEN p.want.fig ELSE None]
  BY <1>1 DEF RecipeTells
<1>4. p.want.text = c.text
  BY <1>2, <1>3 DEF Fingerprint
<1>5. p.reads => p.want.fig = c.fig
  <2>1. CASE p.reads
    <3>1. p.recipe.digest.in.fig = p.want.fig
      BY <1>3, <2>1
    <3>2. p.recipe.digest.in.fig = c.fig
      BY <1>2, <2>1 DEF Fingerprint
    <3> QED BY <3>1, <3>2
  <2> QED BY <2>1
<1>6. p.reads => c.text \in Figured
  BY <1>4 DEF RecipeTells
<1>7. ASSUME ~p.left, ~p.stale, p.recipe.cold = m.tools
      PROVE  p.made = Cold(c, m)
  <2>1. /\ p.made = p.want /\ p.want.machine.tools = m.tools /\ p.want.machine.outside = m.outside
        /\ p.want.text \in Figured => p.reads
        /\ p.want.text \notin Figured => p.want.fig = None
    BY <1>1, <1>2, <1>7 DEF RecipeTells
  <2>2. p.want.machine = m
    BY <1>1, <2>1 DEF Colds, Machines
  <2>3. p.want.fig = IF c.text \in Figured THEN c.fig ELSE None
    BY <1>4, <1>5, <2>1
  <2>4. p.want = [text |-> p.want.text, fig |-> p.want.fig, machine |-> p.want.machine]
    BY <1>1 DEF Colds
  <2> QED BY <1>4, <2>1, <2>2, <2>3, <2>4 DEF Cold
<1> QED BY <1>4, <1>5, <1>6, <1>7

LEMMA DrawnTells ==
  ASSUME Typed, WarmInv, NoneIsNoValue, job.pc = "render",
         NEW stale \in BOOLEAN, stale <=> (warm.old \/ job.machine # machine)
  PROVE  RecipeTells(Drawn(job.copy, stale))
<1> DEFINE p == Drawn(job.copy, stale)
           c == job.copy
<1>1. /\ job \in Compiling /\ warm \in Warms /\ machine \in Machines
  BY JobsHaveShapes DEF Typed, BuildTyped, WorldTyped
<1>2. /\ p.recipe = Recipe(c) /\ p.made = warm.made /\ p.want = Cold(c, job.machine)
      /\ p.reads = warm.reads /\ p.left = warm.left /\ p.stale = stale
  BY DEF Drawn
<1>3. /\ Recipe(c).cold = machine.tools
      /\ Recipe(c).digest = IF warm.rec THEN ReadsDigest(c, warm.reads, machine) ELSE None
  BY DEF Recipe, ColdDigest
<1>4. /\ p.want.text = c.text /\ p.want.machine = job.machine
      /\ p.want.fig = IF c.text \in Figured THEN c.fig ELSE None
  BY <1>2 DEF Cold
<1>5. /\ warm.reads <=> warm.rec /\ warm.made.text \in Figured
      /\ warm.reads => c.text \in Figured
      /\ warm.left \/ warm.old \/ job.machine # machine \/ warm.made = Cold(c, job.machine)
  BY <1>1 DEF WarmInv, WarmReads, RenderKnows, NoneIsNoValue
<1>6. ASSUME p.recipe.digest # None
      PROVE  /\ warm.rec
             /\ p.recipe.digest.in = Fingerprint(c, warm.reads)
             /\ p.recipe.digest.outside = machine.outside
  BY <1>2, <1>3, <1>6 DEF ReadsDigest
<1>7. Fingerprint(c, warm.reads) = [text |-> c.text, fig |-> IF warm.reads THEN c.fig ELSE None]
  BY DEF Fingerprint
<1> HIDE DEF p
<1>8. p.reads => p.want.text \in Figured
  BY <1>2, <1>4, <1>5
<1>9. p.want.text \notin Figured => p.want.fig = None
  BY <1>4
<1>10. p.recipe.digest # None
         => p.recipe.digest.in = [text |-> p.want.text, fig |-> IF p.reads THEN p.want.fig ELSE None]
  BY <1>2, <1>4, <1>5, <1>6, <1>7
<1>11. ~p.stale => /\ p.recipe.cold = p.want.machine.tools
                   /\ p.recipe.digest # None => p.recipe.digest.outside = p.want.machine.outside
  BY <1>2, <1>3, <1>4, <1>6
<1>12. ~p.stale /\ ~p.left => p.made = p.want
  BY <1>2, <1>5
<1>13. ~p.stale /\ ~p.left /\ p.recipe.digest # None /\ p.want.text \in Figured => p.reads
  BY <1>2, <1>4, <1>5, <1>6, <1>12
<1> QED BY <1>8, <1>9, <1>10, <1>11, <1>12, <1>13 DEF RecipeTells, p

LEMMA PagesStay ==
  ASSUME Typed, NoneIsNoValue, PagesInv, WarmInv, [Next]_vars
  PROVE  PagesInv'
<1>1. CASE Render
  <2>1. PICK stale \in BOOLEAN : /\ stale <=> (warm.old \/ job.machine # machine)
                                 /\ page'[NewName] = Drawn(job.copy, stale)
    BY <1>1, RenderAdds
  <2>2. job.pc = "render"
    BY <1>1 DEF Render
  <2>3. RecipeTells(page'[NewName])
    BY <2>1, <2>2, DrawnTells
  <2>4. NewName \notin Folders
    BY DEF Typed, FoldersTyped, WorldTyped, Counts, Folders, NewName
  <2>5. DOMAIN page' = Folders \cup {NewName} /\ \A f \in Folders : page'[f] = page[f]
    BY <1>1, <2>4, RenderAdds
  <2> QED BY <2>3, <2>5 DEF PagesInv, Folders
<1>2. CASE Prune
  BY <1>2, PruneLeaves DEF PagesInv, Folders
<1>3. CASE page' = page
  BY <1>3 DEF PagesInv, Folders
<1> QED BY <1>1, <1>2, <1>3, Frames

(* A step that leaves the build where it is leaves its material alone.        *)
LEMMA JobUntouched ==
  ASSUME [Next]_vars, job \in Jobs, job' = job
  PROVE  warm' = warm /\ page' = page /\ cur' = cur /\ before' = before /\ bsm' = bsm
<1>1. CASE \/ UNCHANGED vars \/ Writing \/ MachineMoves \/ ReadSrcMtime \/ StoreSrcMtime \/ Restart \/ Tabbing
  BY <1>1 DEF vars, Writing, WriteText, TouchText, WriteFigure, MachineMoves, ReadSrcMtime,
              StoreSrcMtime, Restart, Tabbing, TabClaims, TabRefreshes, RefreshIsLost
<1>2. CASE Crash
  <2>1. job.pc = "none"
    BY <1>2 DEF Crash, NoJob
  <2>2. warm' = warm
    BY <1>2, <2>1 DEF Crash
  <2> QED BY <1>2, <2>2 DEF Crash
<1>3. CASE Record
  BY <1>3 DEF Record, NoJob
<1>4. CASE Beginning \/ ThreadDoesNotStart \/ Measure \/ Copy \/ SkipUnchanged \/ DecideToCompile \/ Render
  <2>1. job'.pc # job.pc
    <3>1. CASE Measure
      BY <3>1, JobsHaveShapes DEF Measure, Waiting
    <3>2. CASE ~Measure
      BY <1>4, <3>2 DEF Beginning, BeginBuild, NoJob, ThreadDoesNotStart, Copy, SkipUnchanged,
                        DecideToCompile, Render
    <3> QED BY <3>1, <3>2
  <2> QED BY <2>1
<1>5. CASE LatexRuns \/ LatexFindsItUpToDate \/ Swap \/ Expire \/ Prune \/ WriteBaseline
  <2>1. job'.pc # job.pc
    BY <1>5, JobsHaveShapes DEF LatexRuns, LatexFindsItUpToDate, Compiling, Swap, Expire, Prune, Showing,
                                WriteBaseline, Published, Unchanged
  <2> QED BY <2>1
<1>6. CASE CopyFails \/ KeepBuild \/ LatexFails \/ RenderFails \/ SwapFails \/ DatePages
  <2>1. job'.pc # job.pc
    BY <1>6, HowItEnds DEF CopyFails, KeepBuild, LatexFails, RenderFails, SwapFails, DatePages
  <2> QED BY <2>1
<1> QED BY <1>1, <1>2, <1>3, <1>4, <1>5, <1>6, StepsAre DEF Quiet

(* What becomes of the byproducts.                                            *)
LEMMA WarmMoves ==
  ASSUME [Next]_vars
  PROVE  \/ warm' \in {warm, None}
         \/ LatexRuns \/ LatexFindsItUpToDate \/ Render \/ Crash
<1>1. CASE CopyFails \/ KeepBuild \/ LatexFails \/ RenderFails \/ SwapFails \/ DatePages
  BY <1>1, HowItEnds DEF CopyFails, KeepBuild, LatexFails, RenderFails, SwapFails, DatePages
<1>2. CASE ~(CopyFails \/ KeepBuild \/ LatexFails \/ RenderFails \/ SwapFails \/ DatePages)
  BY <1>2, StepsAre DEF vars, Writing, Beginning, Quiet, WriteText, TouchText, WriteFigure,
     MachineMoves, ReadSrcMtime, StoreSrcMtime, BeginBuild, Restart, Tabbing, TabClaims, TabRefreshes, RefreshIsLost,
     ThreadDoesNotStart, Measure, Copy, SkipUnchanged, DecideToCompile,
     Swap, Expire, Prune, WriteBaseline, Record
<1> QED BY <1>1, <1>2

(* latexmk ran its rules, or took the byproducts of the screen for up to date. *)
LEMMA LatexLeaves ==
  ASSUME Typed, NoneIsNoValue, PagesInv, WarmInv, LatexRuns \/ LatexFindsItUpToDate
  PROVE  WarmReads' /\ RenderKnows'
<1>1. /\ job \in Compiling /\ job.pc = "latex" /\ job' = [job EXCEPT !.pc = "render"]
      /\ warm \in Warms \cup {None} /\ page' = page /\ machine' = machine
  BY JobsHaveShapes DEF LatexRuns, LatexFindsItUpToDate, Typed, BuildTyped
<1>2. /\ job'.copy = job.copy /\ job'.machine = job.machine
      /\ job.copy \in Mans /\ job.machine \in Machines
  BY <1>1 DEF Compiling
<1>3. CASE LatexRuns
  <2>1. PICK rec \in BOOLEAN :
           warm' = Compiled(Cold(job.copy, machine), BuildReads(job.copy, rec), rec, FALSE, FALSE)
    BY <1>3 DEF LatexRuns
  <2>2. /\ warm'.made = Cold(job.copy, machine) /\ warm'.rec = rec
        /\ warm'.reads = BuildReads(job.copy, rec)
    BY <2>1 DEF Compiled
  <2>3. warm'.reads <=> rec /\ job.copy.text \in Figured
    BY <2>2 DEF BuildReads
  <2>4. warm'.made.text = job.copy.text
    BY <2>2 DEF Cold
  <2> QED BY <1>1, <1>2, <2>2, <2>3, <2>4 DEF WarmReads, RenderKnows
<1>4. CASE LatexFindsItUpToDate
  <2> DEFINE rec == warm.rec /\ Recorded(cur) /\ warm.reads = page[cur].reads
  <2>1. warm # None /\ ~job.rerun /\ warm' = [warm EXCEPT !.rec = rec, !.reads = rec /\ @]
    BY <1>4 DEF LatexFindsItUpToDate, Vouched
  <2>2. warm \in Warms
    BY <1>1, <2>1
  <2> DEFINE reads == rec /\ warm.reads
  <2>3. rec \in BOOLEAN /\ reads \in BOOLEAN
    OBVIOUS
  <2>4. /\ Recorded(cur) /\ page[cur].recipe.cold = job.machine.tools
        /\ page[cur].recipe.digest = ReadsDigest(job.copy, page[cur].reads, job.machine)
    BY <1>1, <2>1 DEF WarmInv, LatexKnows
  <2>5. page[cur] \in Pages /\ RecipeTells(page[cur])
    BY <2>4 DEF Recorded, Typed, FoldersTyped, PagesInv
  <2>6. /\ page[cur].reads => job.copy.text \in Figured
        /\ ~page[cur].left /\ ~page[cur].stale => page[cur].made = Cold(job.copy, job.machine)
    BY <1>2, <2>4, <2>5, DigestVouches
  <2>7. rec => warm.rec /\ warm.reads = page[cur].reads
    OBVIOUS
  <2>8. warm.reads <=> warm.rec /\ warm.made.text \in Figured
    BY <2>1 DEF WarmInv, WarmReads
  <2>9. ~warm.left /\ ~warm.old => /\ ~page[cur].left /\ ~page[cur].stale
                                   /\ page[cur].made = warm.made
    BY <1>1, <2>1 DEF WarmInv, WarmIsShown, AreOf
  <2>10. reads => job.copy.text \in Figured
    BY <2>6
  <2>11. reads <=> rec /\ warm.made.text \in Figured
    BY <2>7, <2>8
  <2> HIDE DEF rec, reads
  <2>12. warm' = [warm EXCEPT !.rec = rec, !.reads = reads]
    BY <2>1 DEF reads
  <2>13. /\ warm'.rec = rec /\ warm'.reads = reads /\ warm'.made = warm.made
         /\ warm'.left = warm.left /\ warm'.old = warm.old
    BY <2>2, <2>12 DEF Warms
  <2>14. RenderKnows'
    BY <1>1, <1>2, <2>6, <2>9, <2>10, <2>13 DEF RenderKnows
  <2>15. WarmReads'
    BY <2>11, <2>13 DEF WarmReads
  <2> QED BY <2>14, <2>15
<1> QED BY <1>3, <1>4

(* The new folder holds what the byproducts made, under the marks they carry.  *)
LEMMA RenderMarks ==
  ASSUME Typed, NoneIsNoValue, Render
  PROVE  /\ job'.pc = "swap" /\ job'.new = NewName
         /\ AreOf(job.new)'
         /\ warm'.made = warm.made /\ warm'.rec = warm.rec /\ warm'.reads = warm.reads
<1>1. warm \in Warms /\ job' = [pc |-> "swap", new |-> NewName,
                                at |-> NewestRead(job.at, job.copy, warm.reads),
                                hash |-> Fingerprint(job.copy, warm.reads)]
  BY DEF Render, Typed, BuildTyped
<1>2. PICK stale \in BOOLEAN : /\ page'[NewName] = Drawn(job.copy, stale)
                               /\ warm' = [warm EXCEPT !.old = stale]
  BY RenderAdds
<1>3. /\ warm'.made = warm.made /\ warm'.rec = warm.rec /\ warm'.reads = warm.reads
      /\ warm'.left = warm.left /\ warm'.old = stale
  BY <1>1, <1>2 DEF Warms
<1>4. NewName \in DOMAIN page'
  BY RenderAdds
<1>5. /\ page'[NewName].left = warm.left /\ page'[NewName].stale = stale
      /\ page'[NewName].made = warm.made
  BY <1>2 DEF Drawn
<1> QED BY <1>1, <1>3, <1>4, <1>5 DEF AreOf, Folders

LEMMA WarmReadsStays ==
  ASSUME Typed, NoneIsNoValue, PagesInv, WarmInv, [Next]_vars
  PROVE  WarmReads'
<1>0. WarmReads /\ warm \in Warms \cup {None} /\ job \in Jobs
  BY DEF WarmInv, Typed, BuildTyped
<1>1. CASE LatexRuns \/ LatexFindsItUpToDate
  BY <1>1, LatexLeaves
<1>2. CASE Render
  <2>1. warm # None
    BY <1>2 DEF Render, Typed, BuildTyped
  <2> QED BY <1>0, <1>2, <2>1, RenderMarks DEF WarmReads
<1>3. CASE Crash
  <2>1. warm' = warm \/ (warm \in Warms /\ warm' = [warm EXCEPT !.left = TRUE])
    BY <1>0, <1>3 DEF Crash
  <2> QED BY <1>0, <2>1 DEF WarmReads, Warms, NoneIsNoValue
<1>4. CASE warm' \in {warm, None}
  BY <1>0, <1>4 DEF WarmReads
<1> QED BY <1>1, <1>2, <1>3, <1>4, WarmMoves

LEMMA WarmIsShownStays ==
  ASSUME Typed, NoneIsNoValue, PagesInv, WarmInv, [Next]_vars
  PROVE  WarmIsShown'
<1> DEFINE Used == {"render", "swap", "expire", "prune", "date"}
<1>0. WarmIsShown /\ WarmIsNew /\ warm \in Warms \cup {None} /\ job \in Jobs
  BY DEF WarmInv, Typed, BuildTyped
<1> SUFFICES ASSUME warm' # None, ~warm'.left, ~warm'.old, job'.pc \notin Used
             PROVE  AreOf(cur)'
  BY DEF WarmIsShown
<1>1. ~Render /\ ~Prune /\ ~Swap /\ ~LatexRuns /\ ~LatexFindsItUpToDate
  <2>1. ~Render
    BY RenderMarks
  <2>2. ~Prune /\ ~Swap
    BY <1>0, JobsHaveShapes DEF Prune, Swap, Showing
  <2>3. ~LatexRuns /\ ~LatexFindsItUpToDate
    BY <1>0, JobsHaveShapes DEF LatexRuns, LatexFindsItUpToDate, Compiling
  <2> QED BY <2>1, <2>2, <2>3
<1>2. page' = page /\ cur' = cur
  BY <1>1, Frames
<1>3. CASE Crash
  <2>1. warm' = IF warm # None /\ job.pc \in {"latex", "render", "swap", "expire", "prune", "date"}
                THEN [warm EXCEPT !.left = TRUE] ELSE warm
    BY <1>3 DEF Crash
  <2>2. ~(warm # None /\ job.pc \in {"latex", "render", "swap", "expire", "prune", "date"})
    <3>1. warm \in Warms => [warm EXCEPT !.left = TRUE].left
      BY DEF Warms
    <3> QED BY <1>0, <2>1, <3>1
  <2>3. warm' = warm /\ job.pc \notin Used
    BY <2>1, <2>2
  <2> QED BY <1>0, <1>2, <2>3 DEF WarmIsShown, AreOf, Folders
<1>4. CASE ~Crash
  <2>1. warm' = warm
    BY <1>1, <1>4, WarmMoves
  <2>2. CASE job.pc \notin Used
    BY <1>0, <1>2, <2>1, <2>2 DEF WarmIsShown, AreOf, Folders
  <2>3. CASE job.pc \in Used
    <3>1. job.pc = "date"
      BY <1>0, <1>1, <1>4, <2>3, PcMoves
    <3>2. AreOf(job.new) /\ cur = job.new
      BY <1>0, <3>1 DEF WarmIsNew, Typed, NewIsThere
    <3> QED BY <1>2, <2>1, <3>2 DEF AreOf, Folders
  <2> QED BY <2>2, <2>3
<1> QED BY <1>3, <1>4

LEMMA WarmIsNewStays ==
  ASSUME Typed, NoneIsNoValue, PagesInv, WarmInv, [Next]_vars
  PROVE  WarmIsNew'
<1> DEFINE Drawing == {"swap", "expire", "prune", "date"}
<1>0. WarmIsNew /\ job \in Jobs
  BY DEF WarmInv, Typed, BuildTyped
<1> SUFFICES ASSUME job'.pc \in Drawing
             PROVE  AreOf(job.new)'
  BY DEF WarmIsNew
<1>1. CASE Render
  BY <1>1, RenderMarks
<1>2. CASE job' = job
  BY <1>0, <1>2, JobUntouched DEF WarmIsNew, AreOf, Folders
<1>3. CASE ~Render /\ job' # job
  <2>1. Swap \/ Expire \/ Prune
    BY <1>0, <1>3, PcMoves DEF NoJob
  <2>2. job.pc \in Drawing /\ job'.new = job.new /\ warm' = warm
    BY <1>0, <2>1, JobsHaveShapes DEF Swap, Expire, Prune, Showing
  <2>3. AreOf(job.new)
    BY <1>0, <2>2 DEF WarmIsNew
  <2>4. job.new \in DOMAIN page' /\ page'[job.new] = page[job.new]
    <3>1. CASE Prune
      <4>1. job.new = cur /\ job.new \in Folders
        BY <3>1 DEF Prune, Typed, NewIsThere
      <4> QED BY <3>1, <4>1, PruneLeaves
    <3>2. CASE Swap \/ Expire
      BY <2>3, <3>2 DEF Swap, Expire, AreOf, Folders
    <3> QED BY <2>1, <3>1, <3>2
  <2> QED BY <2>2, <2>3, <2>4 DEF AreOf, Folders
<1> QED BY <1>1, <1>2, <1>3

LEMMA ForcedIsColdStays ==
  ASSUME Typed, NoneIsNoValue, WarmInv, [Next]_vars
  PROVE  ForcedIsCold'
<1>0. ForcedIsCold /\ job \in Jobs
  BY DEF WarmInv, Typed, BuildTyped
<1>1. CASE job' = job
  BY <1>0, <1>1, JobUntouched DEF ForcedIsCold
<1>2. CASE Measure
  <2>1. warm' = (IF job.force THEN None ELSE warm) /\ job'.force = job.force
    BY <1>0, <1>2, JobsHaveShapes DEF Measure, Waiting
  <2> QED BY <2>1 DEF ForcedIsCold
<1>3. CASE Copy
  <2>1. job.pc = "copy" /\ warm' = warm /\ job'.force = job.force
    BY <1>3 DEF Copy
  <2> QED BY <1>0, <2>1 DEF ForcedIsCold
<1>4. CASE job' # job /\ ~Measure /\ ~Copy
  <2>1. job'.pc \notin {"copy", "decide"}
    BY <1>0, <1>4, PcMoves DEF NoJob
  <2> QED BY <2>1 DEF ForcedIsCold
<1> QED BY <1>1, <1>2, <1>3, <1>4

LEMMA LatexKnowsStays ==
  ASSUME Typed, NoneIsNoValue, WarmInv, [Next]_vars
  PROVE  LatexKnows'
<1>0. LatexKnows /\ ForcedIsCold /\ job \in Jobs
  BY DEF WarmInv, Typed, BuildTyped
<1>1. CASE job' = job
  BY <1>0, <1>1, JobUntouched DEF LatexKnows, Recorded, Folders
<1>2. CASE DecideToCompile
  <2>1. /\ job.pc = "decide" /\ page' = page /\ cur' = cur /\ machine' = machine
        /\ warm' = IF ~job.force /\ GoesCold THEN None ELSE warm
        /\ job'.copy = job.copy /\ job'.machine = machine /\ job'.rerun = Rerun
    BY <1>2 DEF DecideToCompile
  <2>2. SUFFICES ASSUME ~Rerun
                 PROVE  /\ Recorded(cur)
                        /\ page[cur].recipe.digest = ReadsDigest(job.copy, page[cur].reads, machine)
                        /\ warm' # None => page[cur].recipe.cold = machine.tools
    BY <2>1, <2>2 DEF LatexKnows, Recorded, Folders
  <2>3. Recorded(cur) /\ page[cur].recipe.digest = ReadsDigest(job.copy, page[cur].reads, machine)
    BY <2>2 DEF Rerun, DigestNow
  <2>4. warm' # None => ~GoesCold
    BY <1>0, <2>1 DEF ForcedIsCold
  <2> QED BY <2>3, <2>4 DEF GoesCold, ColdDigest
<1>3. CASE job' # job /\ ~DecideToCompile
  <2>1. job'.pc # "latex"
    BY <1>0, <1>3, PcMoves DEF NoJob
  <2> QED BY <2>1 DEF LatexKnows
<1> QED BY <1>1, <1>2, <1>3

LEMMA MachineGoesOnStays ==
  ASSUME Typed, NoneIsNoValue, WarmInv, [Next]_vars
  PROVE  MachineGoesOn'
<1>0. MachineGoesOn /\ job \in Jobs /\ machine \in Machines
  BY DEF WarmInv, Typed, BuildTyped, WorldTyped
<1>1. CASE MachineMoves
  <2>1. PICK what \in {"tools", "outside"} : machine' = [machine EXCEPT ![what] = @ + 1]
    BY <1>1 DEF MachineMoves
  <2>2. machine.tools <= machine'.tools /\ machine.outside <= machine'.outside
        /\ machine'.tools \in Nat /\ machine'.outside \in Nat /\ machine.tools \in Nat /\ machine.outside \in Nat
    BY <1>0, <2>1 DEF Machines
  <2>3. job' = job
    BY <1>1 DEF MachineMoves
  <2>4. job.pc \in {"kept", "latex", "render"} => job.machine.tools \in Nat /\ job.machine.outside \in Nat
    BY <1>0, JobsHaveShapes DEF Skipped, Compiling, Machines
  <2> QED BY <1>0, <2>2, <2>3, <2>4 DEF MachineGoesOn
<1>2. CASE ~MachineMoves
  <2>1. machine' = machine
    BY <1>2, Frames
  <2>2. CASE job' = job
    BY <1>0, <2>1, <2>2 DEF MachineGoesOn
  <2>3. CASE SkipUnchanged \/ DecideToCompile
    <3>1. job'.machine = machine
      BY <2>3 DEF SkipUnchanged, DecideToCompile
    <3> QED BY <1>0, <2>1, <3>1 DEF MachineGoesOn, Machines
  <2>4. CASE LatexRuns \/ LatexFindsItUpToDate
    <3>1. job.pc = "latex" /\ job'.machine = job.machine
      BY <1>0, <2>4, JobsHaveShapes DEF LatexRuns, LatexFindsItUpToDate, Compiling
    <3> QED BY <1>0, <2>1, <3>1 DEF MachineGoesOn
  <2>5. CASE job' # job /\ ~(SkipUnchanged \/ DecideToCompile \/ LatexRuns \/ LatexFindsItUpToDate)
    <3>1. job'.pc \notin {"kept", "latex", "render"}
      BY <1>0, <2>5, PcMoves DEF NoJob
    <3> QED BY <3>1 DEF MachineGoesOn
  <2> QED BY <2>2, <2>3, <2>4, <2>5
<1> QED BY <1>1, <1>2

LEMMA RenderKnowsStays ==
  ASSUME Typed, NoneIsNoValue, PagesInv, WarmInv, [Next]_vars
  PROVE  RenderKnows'
<1>0. RenderKnows /\ MachineGoesOn /\ job \in Jobs /\ machine \in Machines
  BY DEF WarmInv, Typed, BuildTyped, WorldTyped
<1>1. CASE LatexRuns \/ LatexFindsItUpToDate
  BY <1>1, LatexLeaves
<1>2. CASE job' = job
  <2>1. warm' = warm
    BY <1>0, <1>2, JobUntouched
  <2>2. CASE machine' = machine
    BY <1>0, <1>2, <2>1, <2>2 DEF RenderKnows
  <2>3. CASE MachineMoves
    <3>1. PICK what \in {"tools", "outside"} : machine' = [machine EXCEPT ![what] = @ + 1]
      BY <2>3 DEF MachineMoves
    <3>2. \/ machine.tools < machine'.tools /\ machine.tools \in Nat /\ machine'.tools \in Nat
          \/ machine.outside < machine'.outside /\ machine.outside \in Nat /\ machine'.outside \in Nat
      BY <1>0, <3>1 DEF Machines
    <3>3. job.pc = "render" => job.machine # machine'
      <4>1. job.pc = "render" => job.machine.tools \in Nat /\ job.machine.outside \in Nat
        BY <1>0, JobsHaveShapes DEF Compiling, Machines
      <4> QED BY <1>0, <3>2, <4>1 DEF MachineGoesOn
    <3> QED BY <1>0, <1>2, <2>1, <3>3 DEF RenderKnows
  <2> QED BY <2>2, <2>3, Frames
<1>3. CASE job' # job /\ ~(LatexRuns \/ LatexFindsItUpToDate)
  <2>1. job'.pc # "render"
    BY <1>0, <1>3, PcMoves DEF NoJob
  <2> QED BY <2>1 DEF RenderKnows
<1> QED BY <1>1, <1>2, <1>3

LEMMA WarmStays ==
  ASSUME Typed, NoneIsNoValue, PagesInv, WarmInv, [Next]_vars
  PROVE  WarmInv'
BY WarmReadsStays, WarmIsShownStays, WarmIsNewStays, ForcedIsColdStays, LatexKnowsStays, RenderKnowsStays,
   MachineGoesOnStays DEF WarmInv

(* What a rebuild keeps is what it would have made.                           *)
LEMMA SkipStays ==
  ASSUME Typed, NoneIsNoValue, PagesInv, SkipIsSound, [Next]_vars
  PROVE  SkipIsSound'
<1>0. job \in Jobs
  BY DEF Typed, BuildTyped
<1>1. CASE job' = job
  BY <1>0, <1>1, JobUntouched DEF SkipIsSound
<1>2. CASE SkipUnchanged
  <2>1. /\ job.pc = "decide" /\ RecipeHolds /\ page' = page /\ cur' = cur
        /\ job'.copy = job.copy /\ job'.machine = machine
    BY <1>2 DEF SkipUnchanged
  <2>2. /\ Recorded(cur) /\ page[cur].recipe.cold = machine.tools
        /\ page[cur].recipe.digest = ReadsDigest(job.copy, page[cur].reads, machine)
    BY <2>1 DEF RecipeHolds, DigestNow, ColdDigest
  <2>3. /\ page[cur] \in Pages /\ RecipeTells(page[cur]) /\ job.copy \in Mans /\ machine \in Machines
    BY <1>0, <2>1, <2>2, JobsHaveShapes
       DEF Recorded, Typed, FoldersTyped, WorldTyped, PagesInv, Copied
  <2>4. ~page[cur].left /\ ~page[cur].stale => page[cur].made = Cold(job.copy, machine)
    BY <2>2, <2>3, DigestVouches
  <2> QED BY <2>1, <2>4 DEF SkipIsSound
<1>3. CASE job' # job /\ ~SkipUnchanged
  <2>1. job'.pc # "kept"
    BY <1>0, <1>3, PcMoves DEF NoJob
  <2> QED BY <2>1 DEF SkipIsSound
<1> QED BY <1>1, <1>2, <1>3

-----------------------------------------------------------------------------
(* The times, and what they tell of the manuscript *)

(* A write carries a time above all before it: what is not newer than a time
   that is past was not written.                                              *)
LEMMA WritesAreNew ==
  ASSUME WorldTyped, [Next]_vars, NEW t \in Nat, t <= Now
  PROVE  /\ man'.textAt <= t => man.textAt <= t /\ man'.text = man.text
         /\ man'.figAt <= t => man.figAt <= t /\ man'.fig = man.fig
<1>1. CASE man' = man
  BY <1>1
<1>2. CASE Writing
  <2>1. man \in Mans /\ Now \in Nat /\ man.textAt \in Nat /\ man.figAt \in Nat
    BY DEF WorldTyped, Mans, Counts, Now
  <2>2. CASE WriteText
    <3>1. PICK x \in Texts : man' = [man EXCEPT !.text = x, !.textAt = Now + 1]
      BY <2>2 DEF WriteText
    <3>2. man'.textAt = Now + 1 /\ man'.figAt = man.figAt /\ man'.fig = man.fig
      BY <2>1, <3>1 DEF Mans
    <3> QED BY <2>1, <3>2
  <2>3. CASE TouchText
    <3>1. man' = [man EXCEPT !.textAt = Now + 1]
      BY <2>3 DEF TouchText
    <3>2. man'.textAt = Now + 1 /\ man'.figAt = man.figAt /\ man'.fig = man.fig
      BY <2>1, <3>1 DEF Mans
    <3> QED BY <2>1, <3>2
  <2>4. CASE WriteFigure
    <3>1. man' = [man EXCEPT !.fig = @ + 1, !.figAt = Now + 1]
      BY <2>4 DEF WriteFigure
    <3>2. man'.figAt = Now + 1 /\ man'.textAt = man.textAt /\ man'.text = man.text
      BY <2>1, <3>1 DEF Mans
    <3> QED BY <2>1, <3>2
  <2> QED BY <1>2, <2>2, <2>3, <2>4 DEF Writing
<1> QED BY <1>1, <1>2, Frames

LEMMA SinceCopyStays ==
  ASSUME WorldTyped, [Next]_vars, NEW t \in Nat, t <= Now, NEW c, SinceCopy(man, t, c)
  PROVE  SinceCopy(man', t, c)
BY WritesAreNew DEF SinceCopy

LEMMA SincePagesStays ==
  ASSUME WorldTyped, [Next]_vars, NEW t \in Nat, t <= Now, NEW p, SincePages(man, t, p)
  PROVE  SincePages(man', t, p)
BY WritesAreNew DEF SincePages

(* The time a build goes by: measured before the copy, and moved to the time of a
   figure the build read.                                                     *)
LEMMA AtMoves ==
  ASSUME [Next]_vars, job \in Jobs, job' # NoJob
  PROVE  \/ job'.at = None
         \/ job # NoJob /\ job'.at = job.at
         \/ Measure /\ job'.at = SrcMtime
         \/ SkipUnchanged /\ job'.at = NewestRead(job.at, job.copy, page[cur].reads)
         \/ Render /\ job'.at = NewestRead(job.at, job.copy, warm.reads)
<1> USE JobsHaveShapes
<1>1. CASE job' = job
  BY <1>1
<1>2. CASE Beginning \/ ThreadDoesNotStart \/ Measure
  <2>1. CASE Measure
    BY <2>1 DEF Measure, Waiting
  <2>2. CASE Beginning \/ ThreadDoesNotStart
    BY <2>2 DEF Beginning, BeginBuild, ThreadDoesNotStart
  <2> QED BY <1>2, <2>1, <2>2
<1>3. CASE SkipUnchanged \/ Render
  BY <1>3 DEF SkipUnchanged, Render
<1>4. CASE Copy \/ DecideToCompile \/ CopyFails \/ KeepBuild \/ LatexFails \/ RenderFails \/ SwapFails \/ DatePages
  <2>1. job # NoJob
    BY <1>4 DEF Copy, DecideToCompile, CopyFails, KeepBuild, LatexFails, RenderFails, SwapFails, DatePages, NoJob
  <2>2. job'.at = job.at
    <3>1. CASE Copy \/ DecideToCompile
      BY <3>1 DEF Copy, DecideToCompile
    <3>2. CASE CopyFails \/ KeepBuild \/ LatexFails \/ RenderFails \/ SwapFails \/ DatePages
      BY <3>2, HowItEnds DEF CopyFails, KeepBuild, LatexFails, RenderFails, SwapFails, DatePages
    <3> QED BY <1>4, <3>1, <3>2
  <2> QED BY <2>1, <2>2
<1>5. CASE LatexRuns \/ LatexFindsItUpToDate \/ Swap \/ Expire \/ Prune \/ WriteBaseline
  <2>1. job # NoJob
    <3>1. job.pc \in {"latex", "swap", "expire", "prune", "baseline"}
      BY <1>5 DEF LatexRuns, LatexFindsItUpToDate, Swap, Expire, Prune, WriteBaseline
    <3> QED BY <3>1 DEF NoJob
  <2>2. job'.at = job.at
    <3>1. CASE LatexRuns \/ LatexFindsItUpToDate
      BY <3>1 DEF LatexRuns, LatexFindsItUpToDate, Compiling
    <3>2. CASE Swap \/ Expire \/ Prune
      BY <3>2 DEF Swap, Expire, Prune, Showing
    <3>3. CASE WriteBaseline
      BY <3>3 DEF WriteBaseline, Published, Unchanged
    <3> QED BY <1>5, <3>1, <3>2, <3>3
  <2> QED BY <2>1, <2>2
<1>6. CASE \/ UNCHANGED vars \/ Writing \/ MachineMoves \/ ReadSrcMtime \/ StoreSrcMtime \/ Restart \/ Tabbing
           \/ Crash \/ Record
  BY <1>1, <1>6 DEF vars, Writing, WriteText, TouchText, WriteFigure, MachineMoves, ReadSrcMtime,
              StoreSrcMtime, Restart, Tabbing, TabClaims, TabRefreshes, RefreshIsLost, Crash, Record
<1> QED BY <1>2, <1>3, <1>4, <1>5, <1>6, StepsAre DEF Quiet

LEMMA TimesArePastStays ==
  ASSUME Typed, NoneIsNoValue, TimesInv, [Next]_vars
  PROVE  TimesArePast'
<1>0. /\ WorldTyped /\ job \in Jobs /\ job' \in Jobs /\ TimesArePast /\ CopyTimes
      /\ Now \in Nat /\ Now' \in Nat /\ Now <= Now' /\ bsm \in Figs
  BY WorldStays, CountsMove, BuildStays DEF Typed, WorldTyped, BuildTyped, HistoryTyped, TimesInv, Counts, Now
<1>1. ASSUME job' # NoJob, job'.at # None
      PROVE  job'.at \in Nat /\ job'.at <= Now
  <2>0. job'.at \in Nat
    BY <1>0, <1>1 DEF Jobs, NoJob, Waiting, Measured, Copied, Skipped, Compiling, Showing, Published, Unchanged,
                      Failed, Figs
  <2>1. CASE job # NoJob /\ job'.at = job.at
    BY <1>0, <1>1, <2>0, <2>1 DEF TimesArePast
  <2>2. CASE Measure /\ job'.at = SrcMtime
    BY <1>0, <2>0, <2>2, SrcMtimeIsPast
  <2>3. ASSUME NEW r, job \in Copied \cup Compiling, job'.at = NewestRead(job.at, job.copy, r)
        PROVE  job'.at <= Now
    <3>1. job.at \in Nat /\ job.copy \in Mans /\ job # NoJob /\ job.pc \in {"decide", "latex", "render"}
      BY <2>3 DEF Copied, Compiling, NoJob
    <3>2. job.at <= Now /\ job.copy.figAt <= Now
      BY <1>0, <3>1 DEF TimesArePast, CopyTimes, NoneIsNoValue
    <3> QED BY <2>3, <3>1, <3>2, NewestReadIsOneOf
  <2>4. CASE SkipUnchanged /\ job'.at = NewestRead(job.at, job.copy, page[cur].reads)
    BY <1>0, <2>0, <2>3, <2>4, JobsHaveShapes DEF SkipUnchanged
  <2>5. CASE Render /\ job'.at = NewestRead(job.at, job.copy, warm.reads)
    BY <1>0, <2>0, <2>3, <2>5, JobsHaveShapes DEF Render
  <2> QED BY <1>0, <1>1, <2>1, <2>2, <2>4, <2>5, AtMoves
<1>2. bsm' # None => bsm' \in Nat /\ bsm' <= Now
  <2>1. CASE WriteBaseline
    <3>1. job # NoJob /\ bsm' \in {bsm, job.at}
      BY <2>1 DEF WriteBaseline, NoJob
    <3>2. job.at \in Nat
      BY <1>0, <2>1, JobsHaveShapes DEF WriteBaseline, Published, Unchanged
    <3> QED BY <1>0, <3>1, <3>2 DEF TimesArePast, NoneIsNoValue, Figs
  <2> QED BY <1>0, <2>1, Frames DEF TimesArePast, Figs
<1> QED BY <1>0, <1>1, <1>2 DEF TimesArePast

LEMMA CopyTimesStays ==
  ASSUME Typed, NoneIsNoValue, TimesInv, [Next]_vars
  PROVE  CopyTimes'
<1> DEFINE Holding == {"decide", "kept", "latex", "render"}
<1>0. /\ WorldTyped /\ job \in Jobs /\ TimesArePast /\ CopyTimes
      /\ Now \in Nat /\ Now' \in Nat /\ Now <= Now' /\ bsm \in Figs
  BY WorldStays, CountsMove DEF Typed, WorldTyped, BuildTyped, HistoryTyped, TimesInv, Counts, Now
<1>1. ASSUME job.pc \in Holding, job'.pc \in Holding, job'.copy = job.copy, bsm' = bsm,
             job'.at \in {job.at, job.copy.figAt}
      PROVE  CopyTimes'
  <2>1. /\ job.at \in Nat /\ job.copy \in Mans /\ job # NoJob
    BY <1>0, <1>1, JobsHaveShapes DEF Copied, Skipped, Compiling, NoJob
  <2> DEFINE c == job.copy
  <2>2. /\ c.textAt \in Nat /\ c.figAt \in Nat /\ c.textAt <= Now /\ c.figAt <= Now /\ job.at <= Now
        /\ SinceCopy(man, job.at, c) /\ SinceCopy(man, c.figAt, c)
        /\ bsm # None => bsm \in Nat /\ bsm <= Now /\ SinceCopy(man, bsm, c)
    BY <1>0, <1>1, <2>1 DEF Mans, CopyTimes, TimesArePast, NoneIsNoValue, Figs
  <2> HIDE DEF c
  <2>3. /\ SinceCopy(man', job.at, c) /\ SinceCopy(man', c.figAt, c)
        /\ bsm # None => SinceCopy(man', bsm, c)
    BY <1>0, <2>1, <2>2, SinceCopyStays
  <2>4. c.textAt <= Now' /\ c.figAt <= Now'
    BY <1>0, <2>2
  <2> QED BY <1>1, <2>3, <2>4 DEF CopyTimes, c
<1>2. CASE job' = job
  BY <1>0, <1>1, <1>2, JobUntouched DEF CopyTimes
<1>3. CASE Copy
  <2>1. job'.pc = "decide" /\ job'.copy = man /\ man' = man
    BY <1>3 DEF Copy
  <2>2. man.textAt <= Now /\ man.figAt <= Now /\ man.textAt \in Nat /\ man.figAt \in Nat
    BY <1>0 DEF WorldTyped, Mans
  <2>3. \A t : SinceCopy(man', t, man)
    BY <2>1 DEF SinceCopy
  <2> QED BY <1>0, <2>1, <2>2, <2>3 DEF CopyTimes
<1>4. CASE SkipUnchanged
  <2>1. /\ job.pc = "decide" /\ job'.pc = "kept" /\ job'.copy = job.copy /\ bsm' = bsm
        /\ job'.at = NewestRead(job.at, job.copy, page[cur].reads)
    BY <1>4 DEF SkipUnchanged
  <2>2. job.at \in Nat /\ job.copy \in Mans
    BY <1>0, <2>1, JobsHaveShapes DEF Copied
  <2> QED BY <1>1, <2>1, <2>2, NewestReadIsOneOf
<1>5. CASE DecideToCompile
  BY <1>1, <1>5 DEF DecideToCompile
<1>6. CASE LatexRuns \/ LatexFindsItUpToDate
  <2>1. job.pc = "latex" /\ job' = [job EXCEPT !.pc = "render"] /\ bsm' = bsm
    BY <1>6 DEF LatexRuns, LatexFindsItUpToDate
  <2>2. job'.pc = "render" /\ job'.copy = job.copy /\ job'.at = job.at
    BY <1>0, <2>1, JobsHaveShapes DEF Compiling
  <2> QED BY <1>1, <2>1, <2>2
<1>7. CASE job' # job /\ ~(Copy \/ SkipUnchanged \/ DecideToCompile \/ LatexRuns \/ LatexFindsItUpToDate)
  <2>1. job'.pc \notin Holding
    BY <1>0, <1>7, PcMoves DEF NoJob
  <2> QED BY <2>1 DEF CopyTimes
<1> QED BY <1>2, <1>3, <1>4, <1>5, <1>6, <1>7

(* The pages drawn of a copy tell what the copy tells.                         *)
LEMMA DrawnSince ==
  ASSUME Typed, NoneIsNoValue, WarmInv, job.pc = "render", NEW stale \in BOOLEAN,
         NEW t, SinceCopy(man, t, job.copy)
  PROVE  SincePages(man, t, Drawn(job.copy, stale))
<1>1. warm.reads => job.copy.text \in Figured
  BY DEF WarmInv, RenderKnows
<1>2. /\ Drawn(job.copy, stale).want.text = job.copy.text
      /\ Drawn(job.copy, stale).reads = warm.reads
      /\ job.copy.text \in Figured => Drawn(job.copy, stale).want.fig = job.copy.fig
  BY DEF Drawn, Cold
<1> QED BY <1>1, <1>2 DEF SincePages, SinceCopy

LEMMA NewTimesStays ==
  ASSUME Typed, NoneIsNoValue, WarmInv, TimesInv, [Next]_vars
  PROVE  NewTimes'
<1> DEFINE Drawing == {"swap", "expire", "prune", "date"}
<1>0. /\ WorldTyped /\ job \in Jobs /\ TimesArePast /\ CopyTimes /\ NewTimes /\ bsm \in Figs
  BY DEF Typed, BuildTyped, HistoryTyped, TimesInv
<1>1. CASE Render
  <2>1. /\ job.pc = "render" /\ bsm' = bsm /\ man' = man
        /\ job' = [pc |-> "swap", new |-> NewName, at |-> NewestRead(job.at, job.copy, warm.reads),
                   hash |-> Fingerprint(job.copy, warm.reads)]
    BY <1>1 DEF Render
  <2>2. PICK stale \in BOOLEAN : page'[NewName] = Drawn(job.copy, stale)
    BY <1>1, RenderAdds
  <2>3. job.at \in Nat /\ job.copy \in Mans
    BY <1>0, <2>1, JobsHaveShapes DEF Compiling
  <2>4. job'.at \in {job.at, job.copy.figAt}
    BY <2>1, <2>3, NewestReadIsOneOf
  <2>5. SinceCopy(man, job'.at, job.copy) /\ (bsm # None => SinceCopy(man, bsm, job.copy))
    BY <1>0, <2>1, <2>4 DEF CopyTimes
  <2>6. /\ SincePages(man, job'.at, Drawn(job.copy, stale))
        /\ bsm # None => SincePages(man, bsm, Drawn(job.copy, stale))
    BY <2>1, <2>5, DrawnSince
  <2>7. job'.new = NewName
    BY <2>1
  <2> QED BY <2>1, <2>2, <2>6, <2>7 DEF NewTimes
<1>2. CASE ~Render /\ job'.pc \in Drawing
  <2>1. job' = job \/ Swap \/ Expire \/ Prune
    BY <1>0, <1>2, PcMoves DEF NoJob
  <2>2. job.pc \in Drawing /\ job'.new = job.new /\ job'.at = job.at /\ bsm' = bsm
    <3>1. CASE job' = job
      BY <1>0, <1>2, <3>1, JobUntouched
    <3>2. CASE Swap \/ Expire \/ Prune
      BY <1>0, <3>2, JobsHaveShapes DEF Swap, Expire, Prune, Showing
    <3> QED BY <2>1, <3>1, <3>2
  <2>3. page'[job.new] = page[job.new]
    <3>1. CASE Prune
      <4>1. job.new = cur /\ job.new \in Folders
        BY <3>1 DEF Prune, Typed, NewIsThere
      <4> QED BY <3>1, <4>1, PruneLeaves
    <3>2. CASE ~Prune
      BY <1>2, <3>2, Frames
    <3> QED BY <3>1, <3>2
  <2> DEFINE p == page[job.new]
  <2>4. /\ job.at \in Nat /\ job # NoJob
    BY <1>0, <2>2, JobsHaveShapes DEF Showing, NoJob
  <2>5. /\ job.at <= Now /\ SincePages(man, job.at, p)
        /\ bsm # None => bsm \in Nat /\ bsm <= Now /\ SincePages(man, bsm, p)
    BY <1>0, <2>2, <2>4 DEF NewTimes, TimesArePast, NoneIsNoValue, Figs
  <2> HIDE DEF p
  <2>6. SincePages(man', job.at, p) /\ (bsm # None => SincePages(man', bsm, p))
    BY <1>0, <2>4, <2>5, SincePagesStays
  <2> QED BY <2>2, <2>3, <2>6 DEF NewTimes, p
<1>3. CASE job'.pc \notin Drawing
  BY <1>3 DEF NewTimes
<1> QED BY <1>1, <1>2, <1>3

(* The page folder on screen stays as it is, when the screen stays.            *)
LEMMA ScreenStays ==
  ASSUME Typed, [Next]_vars, ~Swap, cur \in Folders
  PROVE  cur' = cur /\ page'[cur] = page[cur]
<1>1. cur' = cur
  BY Frames
<1>2. CASE Render
  <2>1. NewName \notin Folders
    BY DEF Typed, FoldersTyped, WorldTyped, Counts, Folders, NewName
  <2> QED BY <1>1, <1>2, <2>1, RenderAdds
<1>3. CASE Prune
  BY <1>1, <1>3, PruneLeaves
<1> QED BY <1>1, <1>2, <1>3, Frames

LEMMA ShownTimesStays ==
  ASSUME Typed, NoneIsNoValue, PagesInv, TimesInv, [Next]_vars
  PROVE  ShownTimes'
<1>0. /\ WorldTyped /\ job \in Jobs /\ TimesArePast /\ CopyTimes /\ NewTimes /\ ShownTimes /\ bsm \in Figs
      /\ cur # 0 => cur \in Folders
  BY DEF Typed, BuildTyped, HistoryTyped, TimesInv, FoldersTyped
<1>1. CASE Swap
  <2>1. job.pc = "swap" /\ cur' = job.new /\ page' = page /\ bsm' = bsm /\ man' = man /\ job'.pc = "expire"
    BY <1>0, <1>1, JobsHaveShapes DEF Swap, Showing
  <2> QED BY <1>0, <2>1 DEF NewTimes, ShownTimes
<1>2. CASE ~Swap
  <2>1. cur' = cur /\ (cur # 0 => page'[cur] = page[cur])
    BY <1>0, <1>2, ScreenStays, Frames
  <2> DEFINE p == page[cur]
  <2>2. ASSUME NEW t \in Nat, t <= Now, SincePages(man, t, p)
        PROVE  SincePages(man', t, p)
    BY <1>0, <2>2, SincePagesStays
  <2>3. job'.pc \in {"kept", "baseline"} => /\ cur # 0
                                            /\ job'.at \in Nat /\ job'.at <= Now /\ SincePages(man, job'.at, p)
    <3> SUFFICES ASSUME job'.pc \in {"kept", "baseline"}
                 PROVE  cur # 0 /\ job'.at \in Nat /\ job'.at <= Now /\ SincePages(man, job'.at, p)
      OBVIOUS
    <3>0. job' \in Jobs /\ TimesArePast' /\ Now \in Nat
      BY BuildStays, TimesArePastStays DEF Typed, BuildTyped, WorldTyped, Counts, Now
    <3>1. CASE SkipUnchanged
      <4>1. /\ job.pc = "decide" /\ RecipeHolds
            /\ job'.at = NewestRead(job.at, job.copy, page[cur].reads)
        BY <3>1 DEF SkipUnchanged
      <4>2. Recorded(cur) /\ page[cur].recipe.digest = ReadsDigest(job.copy, page[cur].reads, machine)
        BY <4>1 DEF RecipeHolds, DigestNow
      <4>3. /\ p \in Pages /\ RecipeTells(p) /\ job.copy \in Mans /\ machine \in Machines /\ job.at \in Nat
            /\ cur # 0 /\ job # NoJob
        BY <1>0, <4>1, <4>2, JobsHaveShapes
           DEF Recorded, Typed, FoldersTyped, WorldTyped, PagesInv, Copied, Counts, Folders, NoJob
      <4>4. p.want.text = job.copy.text /\ (p.reads => p.want.fig = job.copy.fig)
        BY <4>2, <4>3, DigestVouches DEF p
      <4>5. job'.at \in {job.at, job.copy.figAt} /\ job'.at \in Nat
        BY <4>1, <4>3, NewestReadIsOneOf
      <4>6. SinceCopy(man, job'.at, job.copy)
        BY <1>0, <4>1, <4>5 DEF CopyTimes
      <4>7. job'.at <= Now
        BY <1>0, <4>1, <4>3, <4>5 DEF CopyTimes, TimesArePast, NoneIsNoValue
      <4>8. SincePages(man, job'.at, p)
        BY <4>4, <4>6 DEF SincePages, SinceCopy
      <4> QED BY <4>3, <4>5, <4>7, <4>8
    <3>2. CASE ~SkipUnchanged
      <4>1. \/ job' = job
            \/ job.pc = "kept" /\ KeepBuild
            \/ job.pc = "date" /\ DatePages
        BY <1>0, <1>2, <3>2, PcMoves DEF NoJob
      <4>2. job # NoJob /\ job.at \in Nat /\ job'.at = job.at
        <5>1. CASE job' = job
          BY <1>0, <5>1, JobsHaveShapes DEF NoJob, Skipped, Published, Unchanged
        <5>2. CASE job.pc = "kept" /\ KeepBuild
          BY <1>0, <5>2, JobsHaveShapes, HowItEnds DEF NoJob, Skipped, KeepBuild
        <5>3. CASE job.pc = "date" /\ DatePages
          BY <1>0, <5>3, JobsHaveShapes, HowItEnds DEF NoJob, Showing, DatePages
        <5> QED BY <4>1, <5>1, <5>2, <5>3
      <4>3. job.at <= Now
        BY <1>0, <4>2 DEF TimesArePast, NoneIsNoValue
      <4>4. cur # 0 /\ SincePages(man, job.at, p)
        <5>1. CASE job.pc \in {"kept", "baseline"}
          BY <1>0, <5>1 DEF ShownTimes
        <5>2. CASE job.pc = "date"
          <6>1. cur = job.new /\ cur \in Folders
            BY <5>2 DEF Typed, NewIsThere
          <6>2. cur # 0
            BY <6>1 DEF Typed, FoldersTyped, WorldTyped, Counts, Folders
          <6> QED BY <1>0, <5>2, <6>1, <6>2 DEF NewTimes
        <5> QED BY <4>1, <5>1, <5>2
      <4> QED BY <4>2, <4>3, <4>4
    <3> QED BY <3>1, <3>2
  <2>4. bsm' # None /\ cur # 0 => bsm' \in Nat /\ bsm' <= Now /\ SincePages(man, bsm', p)
    <3>1. CASE WriteBaseline
      <4>1. job.pc = "baseline" /\ bsm' \in {bsm, job.at}
        BY <3>1 DEF WriteBaseline
      <4>2. job.at \in Nat /\ job # NoJob
        BY <1>0, <4>1, JobsHaveShapes DEF Published, Unchanged, NoJob
      <4> QED BY <1>0, <4>1, <4>2 DEF ShownTimes, TimesArePast, NoneIsNoValue, Figs
    <3>2. CASE ~WriteBaseline
      BY <1>0, <3>2, Frames DEF ShownTimes, TimesArePast, Figs
    <3> QED BY <3>1, <3>2
  <2> HIDE DEF p
  <2> QED BY <2>1, <2>2, <2>3, <2>4 DEF ShownTimes, p
<1> QED BY <1>1, <1>2

-----------------------------------------------------------------------------
(* The hash of a history is that of the pages *)

(* What is drawn of a copy has the hash the build keeps for its entry.         *)
LEMMA DrawnHash ==
  ASSUME Typed, WarmInv, job.pc = "render", NEW stale \in BOOLEAN
  PROVE  HashOf(Fingerprint(job.copy, warm.reads), Drawn(job.copy, stale))
<1>1. warm.reads => job.copy.text \in Figured
  BY DEF WarmInv, RenderKnows
<1>2. /\ Drawn(job.copy, stale).want.text = job.copy.text
      /\ Drawn(job.copy, stale).reads = warm.reads
      /\ job.copy.text \in Figured => Drawn(job.copy, stale).want.fig = job.copy.fig
  BY DEF Drawn, Cold
<1>3. /\ Fingerprint(job.copy, warm.reads).text = job.copy.text
      /\ warm.reads => Fingerprint(job.copy, warm.reads).fig = job.copy.fig
  BY DEF Fingerprint
<1> QED BY <1>1, <1>2, <1>3 DEF HashOf

(* A build that publishes keeps the folder and the hash it goes by.            *)
LEMMA PublishedKeeps ==
  ASSUME Typed, [Next]_vars, ~Render,
         \/ job'.pc \in {"swap", "expire", "prune", "date"}
         \/ job'.pc \in {"baseline", "record"} /\ job'.res \in {"ok", "ok_errors"}
  PROVE  /\ \/ job.pc \in {"swap", "expire", "prune", "date"}
            \/ job.pc \in {"baseline", "record"} /\ job.res \in {"ok", "ok_errors"}
         /\ job'.new = job.new /\ job'.hash = job.hash
         /\ page'[job.new] = page[job.new]
<1>0. job \in Jobs /\ NewIsThere
  BY DEF Typed, BuildTyped
<1>1. CASE job' = job
  BY <1>0, <1>1, JobUntouched
<1>2. CASE Swap \/ Expire
  BY <1>0, <1>2, JobsHaveShapes DEF Swap, Expire, Showing
<1>3. CASE Prune
  <2>1. job.pc = "prune" /\ job'.new = job.new /\ job'.hash = job.hash
    BY <1>0, <1>3, JobsHaveShapes DEF Prune, Showing
  <2>2. job.new = cur /\ job.new \in Folders
    BY <1>0, <2>1 DEF NewIsThere
  <2> QED BY <1>3, <2>1, <2>2, PruneLeaves
<1>4. CASE DatePages /\ job'.res \in {"ok", "ok_errors"}
  BY <1>0, <1>4, HowItEnds DEF DatePages
<1>5. CASE WriteBaseline
  BY <1>0, <1>5, JobsHaveShapes DEF WriteBaseline, Published, Unchanged
<1> QED BY <1>0, <1>1, <1>2, <1>3, <1>4, <1>5, PcMoves DEF NoJob

LEMMA NewHashStays ==
  ASSUME Typed, NoneIsNoValue, WarmInv, NewHash, [Next]_vars
  PROVE  NewHash'
<1>1. CASE Render
  <2>1. /\ job.pc = "render"
        /\ job'.pc = "swap" /\ job'.new = NewName /\ job'.hash = Fingerprint(job.copy, warm.reads)
    BY <1>1 DEF Render
  <2>2. PICK stale \in BOOLEAN : page'[NewName] = Drawn(job.copy, stale)
    BY <1>1, RenderAdds
  <2> QED BY <2>1, <2>2, DrawnHash DEF NewHash
<1>2. CASE ~Render
  <2>1. CASE \/ job'.pc \in {"swap", "expire", "prune", "date"}
             \/ job'.pc \in {"baseline", "record"} /\ job'.res \in {"ok", "ok_errors"}
    <3>1. /\ \/ job.pc \in {"swap", "expire", "prune", "date"}
             \/ job.pc \in {"baseline", "record"} /\ job.res \in {"ok", "ok_errors"}
          /\ job'.new = job.new /\ job'.hash = job.hash
          /\ page'[job.new] = page[job.new]
      BY <1>2, <2>1, PublishedKeeps
    <3>2. HashOf(job.hash, page[job.new])
      BY <3>1 DEF NewHash
    <3> QED BY <3>1, <3>2 DEF NewHash
  <2>2. CASE ~(\/ job'.pc \in {"swap", "expire", "prune", "date"}
               \/ job'.pc \in {"baseline", "record"} /\ job'.res \in {"ok", "ok_errors"})
    BY <2>2 DEF NewHash
  <2> QED BY <2>1, <2>2
<1> QED BY <1>1, <1>2

(* What an entry of the history says of a folder's pages.                      *)
EntryTells(e, p) == e.hash # None /\ ~e.guess => HashOf(e.hash, p)

LEMMA EntriesTell ==
  HashTellsPages <=> \A f \in Folders \cap DOMAIN hist.by : EntryTells(hist.by[f], page[f])
BY DEF HashTellsPages, EntryTells, HashOf

(* What a restart takes for the manuscript of the pages on screen is it.       *)
LEMMA AdoptedTells ==
  ASSUME Typed, NoneIsNoValue, TimesInv, cur \in Folders, bsm # None, SrcMtime <= SeedReference
  PROVE  HashOf(Fingerprint(man, page[cur].reads), page[cur])
<1>1. bsm \in Nat /\ man.textAt \in Int /\ man.figAt \in Int
  BY DEF Typed, HistoryTyped, WorldTyped, Figs, Mans
<1>2. SrcMtime \in Nat /\ SrcMtime <= bsm
  BY SrcMtimeIsPast DEF Typed, SeedReference
<1>3. man.textAt <= bsm /\ (page[cur].reads => man.figAt <= bsm)
  <2>1. CASE page[cur].reads
    <3>1. SrcMtime = Max({man.textAt, man.figAt})
      BY <2>1 DEF SrcMtime, ReadsFigure
    <3>2. man.textAt <= SrcMtime /\ man.figAt <= SrcMtime
      BY <1>1, <3>1, LargerOfTwo
    <3> QED BY <1>1, <1>2, <3>2
  <2>2. CASE ~page[cur].reads
    BY <1>2, <2>2 DEF SrcMtime, ReadsFigure
  <2> QED BY <2>1, <2>2
<1>4. cur # 0
  BY DEF Typed, FoldersTyped, WorldTyped, Counts, Folders
<1>5. SincePages(man, bsm, page[cur])
  BY <1>4 DEF TimesInv, ShownTimes
<1> QED BY <1>3, <1>5 DEF HashOf, Fingerprint, SincePages

LEMMA HashTellsPagesStays ==
  ASSUME Typed, NoneIsNoValue, TimesInv, HashInv, [Next]_vars
  PROVE  HashTellsPages'
<1>0. /\ HistoryTyped /\ job \in Jobs
      /\ \A f \in Folders \cap DOMAIN hist.by : EntryTells(hist.by[f], page[f])
  BY EntriesTell DEF Typed, BuildTyped, HashInv
<1> SUFFICES ASSUME NEW f \in DOMAIN page', f \in DOMAIN hist'.by
             PROVE  EntryTells(hist'.by[f], page'[f])
  BY DEF HashTellsPages, EntryTells, HashOf, Folders
<1>1. CASE hist' = hist
  <2>1. f \in Folders /\ page'[f] = page[f]
    <3>1. CASE Render
      <4>1. NewName \notin Folders /\ NewName \notin DOMAIN hist.by
        BY DEF Typed, FoldersTyped, HistoryTyped, WorldTyped, Counts, Folders, NewName
      <4> QED BY <1>1, <3>1, <4>1, RenderAdds
    <3>2. CASE Prune
      BY <3>2, PruneLeaves
    <3>3. CASE page' = page
      BY <3>3 DEF Folders
    <3> QED BY <3>1, <3>2, <3>3, Frames
  <2> QED BY <1>0, <1>1, <2>1
<1>2. CASE hist' # hist /\ Record
  <2>1. page' = page /\ job.pc = "record"
    BY <1>2 DEF Record
  <2>2. CASE job.res = "unchanged"
    <3>1. /\ f \in DOMAIN hist.by
          /\ hist'.by[f] = hist.by[f] \/ hist'.by[f] = [hist.by[f] EXCEPT !.at = job.at]
      BY <1>0, <1>2, <2>2, RecordWrites
    <3>2. hist'.by[f].hash = hist.by[f].hash /\ (hist'.by[f].guess <=> hist.by[f].guess)
      <4>1. hist.by[f] \in Entries
        BY <1>0, <3>1 DEF HistoryTyped
      <4> QED BY <3>1, <4>1 DEF Entries
    <3> QED BY <1>0, <2>1, <3>1, <3>2 DEF EntryTells, Folders
  <2>3. CASE job.res # "unchanged"
    <3>1. \/ job.new = None /\ hist'.by = hist.by
          \/ job.new # None /\ Entered(job.new, [at |-> job.at, hash |-> job.hash, guess |-> FALSE])
      BY <1>0, <1>2, <2>3, RecordWrites
    <3>2. CASE hist'.by = hist.by
      BY <1>0, <2>1, <3>2 DEF Folders
    <3>3. CASE /\ job.new # None
               /\ Entered(job.new, [at |-> job.at, hash |-> job.hash, guess |-> FALSE])
      <4>1. job.res \in {"ok", "ok_errors"}
        BY <1>0, <2>1, <2>3, <3>3, JobsHaveShapes DEF Published, Unchanged, Failed
      <4>2. HashOf(job.hash, page[job.new])
        BY <2>1, <4>1 DEF HashInv, NewHash
      <4>3. CASE f = job.new
        BY <2>1, <3>3, <4>2, <4>3 DEF Entered, EntryTells
      <4>4. CASE f # job.new
        BY <1>0, <2>1, <3>3, <4>4 DEF Entered, Folders
      <4> QED BY <4>3, <4>4
    <3> QED BY <3>1, <3>2, <3>3
  <2> QED BY <2>2, <2>3
<1>3. CASE hist' # hist /\ Restart
  <2>1. page' = page
    BY <1>3 DEF Restart
  <2>2. cur \in Folders
    BY <1>0, <1>3, RestartAdopts
  <2>3. PICK same \in BOOLEAN :
          /\ same <=> SrcMtime <= SeedReference
          /\ Entered(cur, [guess |-> same /\ bsm = None,
                           hash |-> IF same THEN Fingerprint(man, page[cur].reads) ELSE None,
                           at |-> IF bsm # None THEN bsm ELSE IF same THEN SrcMtime ELSE None])
    BY <1>0, <1>3, RestartAdopts
  <2>4. CASE f # cur
    BY <1>0, <2>1, <2>3, <2>4 DEF Entered, Folders
  <2>5. CASE f = cur
    <3>1. hist'.by[f] = [guess |-> same /\ bsm = None,
                         hash |-> IF same THEN Fingerprint(man, page[cur].reads) ELSE None,
                         at |-> IF bsm # None THEN bsm ELSE IF same THEN SrcMtime ELSE None]
      BY <2>3, <2>5 DEF Entered
    <3>2. CASE same
      <4> DEFINE guess == same /\ bsm = None
                 hash == IF same THEN Fingerprint(man, page[cur].reads) ELSE None
                 at == IF bsm # None THEN bsm ELSE IF same THEN SrcMtime ELSE None
      <4>0. /\ hist'.by[f] = [guess |-> guess, hash |-> hash, at |-> at]
            /\ guess <=> bsm = None
            /\ hash = Fingerprint(man, page[cur].reads)
        BY <3>1, <3>2
      <4> HIDE DEF guess, hash, at
      <4>1. hist'.by[f].hash = Fingerprint(man, page[cur].reads) /\ (hist'.by[f].guess <=> bsm = None)
        BY <4>0
      <4>2. SrcMtime <= SeedReference
        BY <2>3, <3>2
      <4>3. bsm # None => HashOf(Fingerprint(man, page[cur].reads), page[cur])
        BY <2>2, <4>2, AdoptedTells
      <4> QED BY <2>1, <2>5, <4>1, <4>3 DEF EntryTells
    <3>3. CASE ~same
      BY <3>1, <3>3 DEF EntryTells
    <3> QED BY <3>2, <3>3
  <2> QED BY <2>4, <2>5
<1> QED BY <1>1, <1>2, <1>3, Frames

-----------------------------------------------------------------------------
(* The pages, and the hash recorded for them, are of one manuscript: pages made
   on kept byproducts, and the pages a rebuild keeps, are the ones a cold build
   of the same copy makes, and builds.json tells the manuscript they came from,
   also when a restart adopted them.                                           *)
THEOREM PagesAreToldAlways == ASSUME NoneIsNoValue PROVE Spec => []PagesAreTold
<1>1. Init => BuildInv
  <2> SUFFICES ASSUME Init PROVE BuildInv
    OBVIOUS
  <2>1. Typed
    BY TypedAtFirst
  <2>2. /\ job.pc = "none" /\ warm = None /\ bsm = None /\ cur = 0 /\ Folders = {} /\ DOMAIN hist.by = {}
        /\ job = NoJob
    BY DEF Init, NoJob, EmptyBuilds, Folders
  <2>3. PagesInv /\ WarmInv /\ SkipIsSound
    BY <2>2 DEF PagesInv, WarmInv, WarmReads, WarmIsShown, WarmIsNew, ForcedIsCold, LatexKnows,
                RenderKnows, MachineGoesOn, SkipIsSound
  <2>4. TimesInv /\ HashInv
    BY <2>2 DEF TimesInv, TimesArePast, CopyTimes, NewTimes, ShownTimes, HashInv, HashTellsPages, NewHash
  <2> QED BY <2>1, <2>3, <2>4 DEF BuildInv
<1>2. BuildInv /\ [Next]_vars => BuildInv'
  BY TypedStays, PagesStay, WarmStays, SkipStays, TimesArePastStays, CopyTimesStays, NewTimesStays,
     ShownTimesStays, NewHashStays, HashTellsPagesStays DEF BuildInv, TimesInv, HashInv
<1>3. BuildInv => PagesAreTold
  <2> SUFFICES ASSUME BuildInv PROVE PagesAreTold
    OBVIOUS
  <2>1. TypeOK
    <3>1. /\ used.names \in Nat /\ used.names <= MaxBuilds /\ MaxBuilds \in Nat
      BY LatexBuildAssumption DEF BuildInv, Typed, WorldTyped, NamesCounted, Counts
    <3>2. 1..used.names \subseteq 1..MaxBuilds
      BY <3>1
    <3>3. tab.shown \in 0..MaxBuilds
      BY <3>1 DEF BuildInv, Typed, ReadersTyped, Tabs
    <3>4. /\ cur \in Folders \cup {0} /\ Folders \subseteq 1..used.names
          /\ bstate.state \in {"idle", "running", "ok", "ok_errors", "fail", "down"}
          /\ (job # NoJob) => (bstate.state = "running")
      BY DEF BuildInv, Typed, FoldersTyped, BuildTyped, Folders, States
    <3>5. hist.seq \in Nat /\ DOMAIN hist.by \subseteq 1..MaxBuilds
      BY <3>2 DEF BuildInv, Typed, HistoryTyped
    <3> QED BY <3>3, <3>4, <3>5 DEF TypeOK
  <2>2. WarmMeansCold
    BY DEF BuildInv, PagesInv, RecipeTells, WarmMeansCold
  <2> QED BY <2>1, <2>2 DEF BuildInv, PagesAreTold, PagesAreTrue, HashInv
<1> QED BY <1>1, <1>2, <1>3, PTL DEF Spec

-----------------------------------------------------------------------------
(* The watched files: what is remembered of them                           *)

FigureMaps == [stat : Nat, good : BOOLEAN, sha : Nat]
FigureSigs == [map : FigureMaps \cup {None}, pdf : Nat]
Shows      == [map : FigureMaps \cup {None}, content : Nat]
NoneIsNoFile == None \notin FigureMaps /\ None \notin FigureSigs /\ None \notin Shows

(* Every stat is older than the next one; a PDF that is not there has none. *)
DiskTyped ==
  /\ kind \in {"figure", "pdf"} /\ (kind = "pdf" => map = None)
  /\ map \in FigureMaps \cup {None} /\ (map # None => map.stat < Watched!Fresh)
  /\ pdf \in [is : {"file", "locked", "big", "none"}, content : Nat, stat : Nat]
  /\ pdf.stat < Watched!Fresh /\ (pdf.is = "none" <=> pdf.stat = 0)
  /\ spent \in [writes : Nat, calls : Nat, mishaps : Nat] /\ spent.writes <= MaxFileWrites
  /\ unseen \in [pdf : BOOLEAN, lost : BOOLEAN]

(* A map that was there once; the one there with its stat corrects it.     *)
Past(m) == /\ m \in FigureMaps /\ m.stat < Watched!Fresh
           /\ (map # None /\ m.stat = map.stat) => m.sha <= map.sha /\ (m.good => map.good)

(* ... and will not be there again.                                        *)
GoneMap(m) == map = None \/ m.stat # map.stat \/ m.sha < map.sha \/ (~m.good /\ map.good)

(* A signature of files that were there once, and of ones that will never  *)
(* be there again.                                                         *)
Seen(sig) == /\ sig \in FigureSigs /\ sig.pdf < Watched!Fresh
             /\ IF kind = "figure" THEN Past(sig.map) /\ (sig.pdf # 0 => sig.map.good)
                ELSE sig.map = None /\ sig.pdf # 0
Gone(sig) == sig.pdf # 0 /\ (pdf.stat # sig.pdf \/ (kind = "figure" /\ GoneMap(sig.map)))

(* The PDF of this stat has this content, as far as a stat can tell.       *)
Holds(stat, content) == unseen.pdf \/ pdf.stat # stat \/ pdf.content = content

(* The files of this signature are no figure.                              *)
NoPair(sig) == /\ kind = "figure"
               /\ sig.pdf = 0 \/ unseen.pdf \/ pdf.stat # sig.pdf \/ pdf.is # "file" \/ pdf.content # sig.map.sha

(* Files that were read and fit.                                           *)
Fits(r) == /\ Seen(r.sig) /\ r.sig.pdf # 0 /\ r.map = r.sig.map /\ r.content \in Nat
           /\ Holds(r.sig.pdf, r.content)
           /\ kind = "figure" => r.map.sha = r.content

(* The pages on screen are of the files of this signature.                 *)
OnScreen(sig) == /\ shown # None /\ sig.pdf # 0 /\ shown.map = sig.map /\ Holds(sig.pdf, shown.content)

(* Why a settled signature need not be looked at again.                    *)
Answered(sig) == sig \in failed \/ NoPair(sig) \/ Gone(sig) \/ OnScreen(sig) \/ unseen.lost \/ unseen.pdf

SettledInv == settled # None => Seen(settled) /\ (Answered(settled) \/ import.pc = "settle")

ImportInv ==
  /\ import = Watched!NoJob \/ import.pc \in {"map", "pdf", "sig", "stage", "render", "giveup", "settle"}
  /\ ~up => import = Watched!NoJob
  /\ import.pc \in {"map", "pdf"} => kind = "figure"
  /\ import.pc \in {"sig", "stage"} => kind = "pdf"
  /\ import.pc = "pdf" => Past(import.map) /\ import.map.good
  /\ import.pc = "render" => Fits(import.ready)
  /\ import.pc \in {"stage", "giveup", "settle"} => Seen(import.sig)
  /\ import.pc = "settle" => OnScreen(import.sig)

LookOk(x) ==
  /\ x.pc \in {"idle", "stat", "due", "read", "open", "defer", "start"}
  /\ x.pc # "idle" => up
  /\ x.pc \in {"stat", "read", "open", "defer"} => kind = "figure"
  /\ x.pc = "open" => Past(x.map) /\ x.map.good /\ x.seen \in Nat /\ x.seen # 0 /\ x.seen < Watched!Fresh
  /\ x.pc = "defer" => Seen(x.sig) /\ (NoPair(x.sig) \/ Gone(x.sig))
  /\ (x.pc = "start" /\ kind = "figure") => Fits(x.ready)

ShownInv == shown # None => shown \in Shows /\ (kind = "figure" => shown.map # None /\ shown.map.sha = shown.content)

FilesInv == /\ DiskTyped /\ SettledInv /\ ImportInv /\ ShownInv
            /\ look = [l \in Watched!Lookers |-> look[l]] /\ \A l \in Watched!Lookers : LookOk(look[l])


(* What the program that makes the files may do: a new version is new, and *)
(* one that keeps its stat corrects the map, or no stat can tell.          *)
GoOn ==
  /\ DiskTyped /\ DiskTyped' /\ kind' = kind /\ spent'.writes >= spent.writes
  /\ \/ map' = None
     \/ map' # None /\ map'.stat >= Watched!Fresh
     \/ map' # None /\ map # None /\ map'.stat = map.stat /\ map.sha <= map'.sha /\ (map.good => map'.good)
  /\ \/ pdf'.stat = 0 \/ pdf'.stat >= Watched!Fresh
     \/ pdf'.stat = pdf.stat /\ (pdf' = pdf \/ unseen'.pdf)
  /\ unseen.pdf => unseen'.pdf

LEMMA PastStays ==
  ASSUME GoOn, NEW m
  PROVE  /\ Past(m) => Past(m)'
         /\ Past(m) /\ GoneMap(m) => GoneMap(m)'
<1>1. /\ spent.writes \in Nat /\ spent'.writes \in Nat /\ spent'.writes >= spent.writes
      /\ map # None => map.stat \in Nat /\ map.sha \in Nat /\ map.good \in BOOLEAN
      /\ map' # None => map'.stat \in Nat /\ map'.sha \in Nat /\ map'.good \in BOOLEAN
  BY DEF GoOn, DiskTyped, FigureMaps
<1>2. ASSUME Past(m)
      PROVE  /\ m \in FigureMaps /\ m.stat \in Nat /\ m.sha \in Nat /\ m.good \in BOOLEAN
             /\ m.stat < spent.writes + 2
             /\ (map # None /\ m.stat = map.stat) => m.sha <= map.sha /\ (m.good => map.good)
  BY <1>2 DEF Past, FigureMaps, Watched!Fresh
<1>3. ASSUME Past(m) PROVE Past(m)'
  <2>1. m.stat < spent'.writes + 2
    BY <1>1, <1>2, <1>3
  <2>2. CASE map' = None
    BY <1>2, <1>3, <2>1, <2>2 DEF Past, Watched!Fresh
  <2>3. CASE map' # None /\ map'.stat >= spent.writes + 2
    BY <1>1, <1>2, <1>3, <2>1, <2>3 DEF Past, Watched!Fresh
  <2>4. CASE map' # None /\ map # None /\ map'.stat = map.stat /\ map.sha <= map'.sha /\ (map.good => map'.good)
    <3>1. m.stat = map'.stat => m.sha <= map'.sha /\ (m.good => map'.good)
      BY <1>1, <1>2, <1>3, <2>4
    <3> QED BY <1>2, <1>3, <2>1, <3>1 DEF Past, Watched!Fresh
  <2> QED BY <2>2, <2>3, <2>4 DEF GoOn, Watched!Fresh
<1>4. ASSUME Past(m), GoneMap(m) PROVE GoneMap(m)'
  <2>1. CASE map' = None
    BY <2>1 DEF GoneMap
  <2>2. CASE map' # None /\ map'.stat >= spent.writes + 2
    <3>1. m.stat # map'.stat
      BY <1>1, <1>2, <1>4, <2>2
    <3> QED BY <3>1 DEF GoneMap
  <2>3. CASE map' # None /\ map # None /\ map'.stat = map.stat /\ map.sha <= map'.sha /\ (map.good => map'.good)
    <3>1. m.stat # map'.stat \/ m.sha < map'.sha \/ (~m.good /\ map'.good)
      BY <1>1, <1>2, <1>4, <2>3 DEF GoneMap
    <3> QED BY <3>1 DEF GoneMap
  <2> QED BY <2>1, <2>2, <2>3 DEF GoOn, Watched!Fresh
<1> QED BY <1>3, <1>4

LEMMA SigsStay ==
  ASSUME GoOn, NEW sig, Seen(sig)
  PROVE  /\ Seen(sig)'
         /\ Gone(sig) => Gone(sig)'
         /\ NoPair(sig) => NoPair(sig)'
<1>1. /\ spent.writes \in Nat /\ spent'.writes \in Nat /\ spent'.writes >= spent.writes
      /\ sig.pdf \in Nat /\ sig.pdf < spent.writes + 2 /\ sig \in FigureSigs /\ kind' = kind
      /\ pdf.stat \in Nat /\ pdf'.stat \in Nat
  BY DEF GoOn, DiskTyped, Seen, FigureSigs, Watched!Fresh
<1>2. sig.pdf < spent'.writes + 2
  BY <1>1
<1>3. Seen(sig)'
  BY <1>1, <1>2, PastStays DEF Seen, Watched!Fresh
<1>4. ASSUME sig.pdf # 0
      PROVE  pdf.stat # sig.pdf => pdf'.stat # sig.pdf
  BY <1>1, <1>4 DEF GoOn, Watched!Fresh
<1>5. Gone(sig) => Gone(sig)'
  BY <1>1, <1>4, PastStays DEF Gone, Seen
<1>6. ASSUME NoPair(sig) PROVE NoPair(sig)'
  <2>1. CASE sig.pdf = 0 \/ unseen'.pdf
    BY <1>1, <1>6, <2>1 DEF NoPair
  <2>2. CASE sig.pdf # 0 /\ ~unseen'.pdf /\ pdf'.stat # sig.pdf
    BY <1>1, <1>6, <2>2 DEF NoPair
  <2>3. CASE sig.pdf # 0 /\ ~unseen'.pdf /\ pdf'.stat = sig.pdf
    <3>1. pdf' = pdf /\ ~unseen.pdf
      BY <1>1, <2>3 DEF GoOn, Watched!Fresh
    <3> QED BY <1>1, <1>6, <2>3, <3>1 DEF NoPair
  <2> QED BY <2>1, <2>2, <2>3
<1> QED BY <1>3, <1>5, <1>6

LEMMA HoldsStays ==
  ASSUME GoOn, NEW stat \in Nat, stat < Watched!Fresh, stat # 0, NEW content, Holds(stat, content)
  PROVE  Holds(stat, content)'
<1>1. /\ spent.writes \in Nat /\ pdf.stat \in Nat /\ pdf'.stat \in Nat
      /\ unseen.pdf \in BOOLEAN /\ unseen'.pdf \in BOOLEAN
  BY DEF GoOn, DiskTyped
<1>2. ASSUME ~unseen'.pdf, pdf'.stat = stat PROVE pdf' = pdf /\ ~unseen.pdf
  BY <1>1, <1>2 DEF GoOn, Watched!Fresh
<1> QED BY <1>2 DEF Holds

LEMMA FitsStays ==
  ASSUME GoOn, NEW r, Fits(r)
  PROVE  Fits(r)'
<1>1. Seen(r.sig)' /\ kind' = kind
  BY SigsStay DEF Fits, GoOn
<1>2. r.sig.pdf \in Nat /\ r.sig.pdf < Watched!Fresh
  BY DEF Fits, Seen, FigureSigs
<1>3. Holds(r.sig.pdf, r.content)'
  BY <1>2, HoldsStays DEF Fits
<1> QED BY <1>1, <1>3 DEF Fits

LEMMA OnScreenStays ==
  ASSUME GoOn, NEW sig, Seen(sig), OnScreen(sig), shown' = shown
  PROVE  OnScreen(sig)'
<1>1. sig.pdf \in Nat /\ sig.pdf < Watched!Fresh /\ sig.pdf # 0
  BY DEF OnScreen, Seen, FigureSigs
<1>2. Holds(sig.pdf, shown.content)'
  BY <1>1, HoldsStays DEF OnScreen, Holds
<1> QED BY <1>2 DEF OnScreen

-----------------------------------------------------------------------------
(* What a step leaves alone                                                *)

LEMMA LookStays ==
  ASSUME GoOn, NEW x, LookOk(x), up => up'
  PROVE  LookOk(x)'
<1>1. kind' = kind /\ spent.writes \in Nat /\ spent'.writes \in Nat /\ spent'.writes >= spent.writes
  BY DEF GoOn, DiskTyped
<1>2. x.pc = "open" => Past(x.map)' /\ x.map.good /\ x.seen \in Nat /\ x.seen # 0 /\ x.seen < Watched!Fresh'
  <2>1. x.pc = "open" => Past(x.map) /\ x.map.good /\ x.seen \in Nat /\ x.seen # 0 /\ x.seen < Watched!Fresh
    BY DEF LookOk
  <2>2. x.seen \in Nat /\ x.seen < Watched!Fresh => x.seen < Watched!Fresh'
    BY <1>1 DEF Watched!Fresh
  <2> QED BY <2>1, <2>2, PastStays
<1>3. x.pc = "defer" => Seen(x.sig)' /\ (NoPair(x.sig)' \/ Gone(x.sig)')
  BY SigsStay DEF LookOk
<1>4. (x.pc = "start" /\ kind = "figure") => Fits(x.ready)'
  BY FitsStays DEF LookOk
<1> QED BY <1>1, <1>2, <1>3, <1>4 DEF LookOk

LEMMA ImportStays ==
  ASSUME GoOn, ImportInv, UNCHANGED <<import, shown, up>>
  PROVE  ImportInv'
<1>1. kind' = kind
  BY DEF GoOn
<1>2. import.pc = "pdf" => Past(import.map)' /\ import.map.good
  BY PastStays DEF ImportInv
<1>3. import.pc = "render" => Fits(import.ready)'
  BY FitsStays DEF ImportInv
<1>4. import.pc \in {"stage", "giveup", "settle"} => Seen(import.sig)'
  BY SigsStay DEF ImportInv
<1>5. import.pc = "settle" => OnScreen(import.sig)'
  BY OnScreenStays DEF ImportInv
<1> QED BY <1>1, <1>2, <1>3, <1>4, <1>5 DEF ImportInv, Watched!NoJob

LEMMA SettledStays ==
  ASSUME GoOn, SettledInv, UNCHANGED <<settled, shown>>, failed \subseteq failed',
         unseen.lost => unseen'.lost, import.pc = "settle" => import'.pc = "settle"
  PROVE  SettledInv'
<1>1. SUFFICES ASSUME settled # None PROVE Seen(settled)' /\ (Answered(settled)' \/ import'.pc = "settle")
  BY DEF SettledInv
<1>2. Seen(settled) /\ (Answered(settled) \/ import.pc = "settle")
  BY <1>1 DEF SettledInv
<1>3. Seen(settled)'
  BY <1>2, SigsStay
<1>4. Answered(settled) => Answered(settled)'
  <2>1. unseen.pdf => unseen'.pdf
    BY DEF GoOn
  <2> QED BY <1>2, <2>1, SigsStay, OnScreenStays DEF Answered
<1> QED BY <1>2, <1>3, <1>4

LEMMA ShownStays ==
  ASSUME GoOn, ShownInv, shown' = shown
  PROVE  ShownInv'
BY DEF ShownInv, GoOn


-----------------------------------------------------------------------------
(* The program that makes the files                                        *)

Counts3 == [writes : Nat, calls : Nat, mishaps : Nat]

LEMMA Spends ==
  ASSUME spent \in Counts3
  PROVE  /\ Watched!Spend("writes") => spent' \in Counts3 /\ spent'.writes = spent.writes + 1
         /\ Watched!Spend("calls") => spent' \in Counts3 /\ spent'.writes = spent.writes
         /\ Watched!Spend("mishaps") => spent' \in Counts3 /\ spent'.writes = spent.writes
BY DEF Counts3, Watched!Spend

(* A step that leaves the files alone.                                     *)
LEMMA DiskRests ==
  ASSUME DiskTyped, UNCHANGED <<kind, map, pdf>>,
         spent' = spent \/ Watched!Spend("calls") \/ Watched!Spend("mishaps"),
         unseen' \in [pdf : BOOLEAN, lost : BOOLEAN], unseen'.pdf = unseen.pdf
  PROVE  GoOn
<1>1. spent \in Counts3 /\ spent' \in Counts3 /\ spent'.writes = spent.writes /\ spent.writes \in Nat
  BY Spends DEF DiskTyped, Counts3
<1>2. DiskTyped'
  BY <1>1 DEF DiskTyped, Counts3, Watched!Fresh
<1>3. map' = None \/ (map' # None /\ map # None /\ map'.stat = map.stat /\ map.sha <= map'.sha /\ (map.good => map'.good))
  BY DEF DiskTyped, FigureMaps
<1>4. spent'.writes >= spent.writes
  BY <1>1
<1> QED BY <1>2, <1>3, <1>4 DEF GoOn

(* A step of the program, of which no look and no build knows.             *)
LEMMA FilesMove ==
  ASSUME FilesInv, GoOn, UNCHANGED <<looks, settled, look, import, shown, failed, first, up>>,
         unseen.lost => unseen'.lost
  PROVE  FilesInv'
<1>1. DiskTyped' /\ SettledInv' /\ ImportInv' /\ ShownInv'
  BY SettledStays, ImportStays, ShownStays DEF FilesInv, GoOn
<1>2. \A l \in Watched!Lookers : LookOk(look[l])'
  BY LookStays DEF FilesInv
<1>3. look' = [l \in Watched!Lookers |-> look'[l]]
  BY DEF FilesInv
<1> QED BY <1>1, <1>2, <1>3 DEF FilesInv

LEMMA WritePdfStep ==
  ASSUME FilesInv, PdfContents \subseteq Nat, MaxFileWrites \in Nat, Watched!WritePdf
  PROVE  FilesInv'
<1>1. /\ UNCHANGED <<kind, map, looks, settled, look, import, shown, failed, first, up, unseen>>
      /\ Watched!Spend("writes") /\ spent.writes < MaxFileWrites
  BY DEF Watched!WritePdf
<1>2. PICK c \in PdfContents, is \in {"file", "locked", "big", "none"} :
        pdf' = [is |-> is, content |-> c, stat |-> IF is = "none" THEN 0 ELSE Watched!Fresh]
  BY DEF Watched!WritePdf, Watched!NoFile
<1>3. /\ spent \in Counts3 /\ spent' \in Counts3 /\ spent'.writes = spent.writes + 1
      /\ spent.writes \in Nat /\ c \in Nat /\ Watched!Fresh = spent.writes + 2 /\ Watched!Fresh' = spent.writes + 3
  BY <1>1, Spends DEF FilesInv, DiskTyped, Counts3, Watched!Fresh
<1>4. PICK stat \in Nat : /\ stat = IF is = "none" THEN 0 ELSE Watched!Fresh
                          /\ pdf' = [is |-> is, content |-> c, stat |-> stat]
  BY <1>2, <1>3
<1>5. /\ pdf'.stat = stat /\ stat < Watched!Fresh' /\ (is = "none" <=> stat = 0) /\ (stat = 0 \/ stat >= Watched!Fresh)
      /\ pdf'.is = is /\ pdf' \in [is : {"file", "locked", "big", "none"}, content : Nat, stat : Nat]
  BY <1>3, <1>4
<1>6. spent'.writes <= MaxFileWrites /\ spent'.writes >= spent.writes /\ (map # None => map.stat < Watched!Fresh')
  BY <1>1, <1>3 DEF FilesInv, DiskTyped, FigureMaps
<1>7. DiskTyped'
  BY <1>1, <1>3, <1>5, <1>6 DEF FilesInv, DiskTyped, Counts3
<1>8. map' = None \/ (map' # None /\ map # None /\ map'.stat = map.stat /\ map.sha <= map'.sha /\ (map.good => map'.good))
  BY <1>1 DEF FilesInv, DiskTyped, FigureMaps
<1>9. GoOn
  BY <1>1, <1>5, <1>6, <1>7, <1>8 DEF GoOn, FilesInv
<1> QED BY <1>1, <1>9, FilesMove

LEMMA WriteMapStep ==
  ASSUME FilesInv, NoneIsNoFile, PdfContents \subseteq Nat, MaxFileWrites \in Nat, Watched!WriteMap
  PROVE  FilesInv'
<1>1. /\ UNCHANGED <<kind, pdf, looks, settled, look, import, shown, failed, first, up, unseen>>
      /\ Watched!Spend("writes") /\ spent.writes < MaxFileWrites /\ kind = "figure"
  BY DEF Watched!WriteMap
<1>2. map' = None \/ \E good \in BOOLEAN, c \in PdfContents : map' = [stat |-> Watched!Fresh, good |-> good, sha |-> c]
  BY DEF Watched!WriteMap
<1>3. /\ spent \in Counts3 /\ spent' \in Counts3 /\ spent'.writes = spent.writes + 1
      /\ spent.writes \in Nat /\ Watched!Fresh = spent.writes + 2 /\ Watched!Fresh' = spent.writes + 3
  BY <1>1, Spends DEF FilesInv, DiskTyped, Counts3, Watched!Fresh
<1>4. map' = None \/ (map' \in FigureMaps /\ map' # None /\ map'.stat = Watched!Fresh)
  <2>1. ASSUME NEW good \in BOOLEAN, NEW c \in PdfContents, map' = [stat |-> Watched!Fresh, good |-> good, sha |-> c]
        PROVE  map' \in FigureMaps /\ map'.stat = Watched!Fresh
    BY <1>3, <2>1 DEF FigureMaps
  <2> QED BY <1>2, <2>1 DEF NoneIsNoFile
<1>5. /\ spent'.writes <= MaxFileWrites /\ spent'.writes >= spent.writes
      /\ (map' # None => map'.stat < Watched!Fresh') /\ pdf.stat < Watched!Fresh'
  BY <1>1, <1>3, <1>4 DEF FilesInv, DiskTyped
<1>6. DiskTyped'
  BY <1>1, <1>3, <1>4, <1>5 DEF FilesInv, DiskTyped, Counts3
<1>7. map' = None \/ (map' # None /\ map'.stat >= Watched!Fresh)
  BY <1>3, <1>4
<1>8. GoOn
  BY <1>1, <1>5, <1>6, <1>7 DEF GoOn, FilesInv
<1> QED BY <1>1, <1>8, FilesMove

LEMMA FixMapStep ==
  ASSUME FilesInv, NoneIsNoFile, PdfContents \subseteq Nat, MaxFileWrites \in Nat, Watched!FixMap
  PROVE  FilesInv'
<1>1. /\ UNCHANGED <<kind, pdf, looks, settled, look, import, shown, failed, first, up, unseen>>
      /\ Watched!Spend("writes") /\ spent.writes < MaxFileWrites /\ kind = "figure" /\ map # None
  BY DEF Watched!FixMap
<1>2. PICK c \in PdfContents : c >= map.sha /\ map' = [map EXCEPT !.sha = c, !.good = TRUE]
  BY DEF Watched!FixMap
<1>3. /\ spent \in Counts3 /\ spent' \in Counts3 /\ spent'.writes = spent.writes + 1
      /\ spent.writes \in Nat /\ Watched!Fresh = spent.writes + 2 /\ Watched!Fresh' = spent.writes + 3
  BY <1>1, Spends DEF FilesInv, DiskTyped, Counts3, Watched!Fresh
<1>4. map \in FigureMaps /\ map.stat \in Nat /\ map.sha \in Nat /\ map.stat < Watched!Fresh /\ c \in Nat
  BY <1>1 DEF FilesInv, DiskTyped, FigureMaps
<1>5. map' \in FigureMaps /\ map' # None /\ map'.stat = map.stat /\ map'.sha = c /\ map'.good
  <2>1. map' = [stat |-> map.stat, good |-> TRUE, sha |-> c]
    BY <1>2, <1>4 DEF FigureMaps
  <2>2. map' \in FigureMaps /\ map'.stat = map.stat /\ map'.sha = c /\ map'.good = TRUE
    BY <1>4, <2>1 DEF FigureMaps
  <2> QED BY <2>2 DEF NoneIsNoFile
<1>6. /\ spent'.writes <= MaxFileWrites /\ spent'.writes >= spent.writes
      /\ map'.stat < Watched!Fresh' /\ pdf.stat < Watched!Fresh' /\ map.sha <= map'.sha
  BY <1>1, <1>2, <1>3, <1>4, <1>5 DEF FilesInv, DiskTyped
<1>7. DiskTyped'
  BY <1>1, <1>3, <1>5, <1>6 DEF FilesInv, DiskTyped, Counts3
<1>8. GoOn
  BY <1>1, <1>5, <1>6, <1>7 DEF GoOn, FilesInv
<1> QED BY <1>1, <1>8, FilesMove

LEMMA ChangePdfUnseenStep ==
  ASSUME FilesInv, PdfContents \subseteq Nat, Watched!ChangePdfUnseen
  PROVE  FilesInv'
<1>1. /\ UNCHANGED <<kind, map, looks, settled, look, import, shown, failed, first, up>>
      /\ Watched!Spend("mishaps") /\ unseen' = [unseen EXCEPT !.pdf = TRUE] /\ pdf.is # "none"
  BY DEF Watched!ChangePdfUnseen
<1>2. PICK c \in PdfContents : pdf' = [pdf EXCEPT !.is = "file", !.content = c]
  BY DEF Watched!ChangePdfUnseen
<1>3. /\ spent \in Counts3 /\ spent' \in Counts3 /\ spent'.writes = spent.writes /\ spent.writes \in Nat
  BY <1>1, Spends DEF FilesInv, DiskTyped, Counts3
<1>4. /\ pdf \in [is : {"file", "locked", "big", "none"}, content : Nat, stat : Nat] /\ pdf.stat # 0
      /\ unseen \in [pdf : BOOLEAN, lost : BOOLEAN]
  BY <1>1 DEF FilesInv, DiskTyped
<1>5. pdf' = [is |-> "file", content |-> c, stat |-> pdf.stat]
  BY <1>2, <1>4
<1>6. unseen' \in [pdf : BOOLEAN, lost : BOOLEAN] /\ unseen'.pdf /\ unseen'.lost = unseen.lost
  <2>1. unseen' = [pdf |-> TRUE, lost |-> unseen.lost]
    BY <1>1, <1>4
  <2> QED BY <1>4, <2>1
<1>7. /\ pdf'.stat = pdf.stat /\ pdf'.is = "file" /\ c \in Nat
      /\ pdf' \in [is : {"file", "locked", "big", "none"}, content : Nat, stat : Nat]
  BY <1>4, <1>5
<1>8. DiskTyped'
  BY <1>1, <1>3, <1>4, <1>6, <1>7 DEF FilesInv, DiskTyped, Counts3, Watched!Fresh
<1>9. map' = None \/ (map' # None /\ map # None /\ map'.stat = map.stat /\ map.sha <= map'.sha /\ (map.good => map'.good))
  BY <1>1 DEF FilesInv, DiskTyped, FigureMaps
<1>10. spent'.writes >= spent.writes
  BY <1>3
<1>11. GoOn
  BY <1>1, <1>6, <1>7, <1>8, <1>9, <1>10 DEF GoOn, FilesInv
<1> QED BY <1>1, <1>6, <1>11, FilesMove


-----------------------------------------------------------------------------
(* A look                                                                  *)

LEMMA LookMoves ==
  ASSUME FilesInv, GoOn, NEW l \in Watched!Lookers, NEW x, Watched!Goto(l, x), LookOk(x),
         SettledInv', ImportInv', shown' = shown, up' = up
  PROVE  FilesInv'
<1>1. /\ look' = [j \in Watched!Lookers |-> look'[j]] /\ look'[l] = x
      /\ \A j \in Watched!Lookers \ {l} : look'[j] = look[j]
  BY DEF FilesInv, Watched!Goto
<1>2. ASSUME NEW j \in Watched!Lookers PROVE LookOk(look[j])'
  <2>1. PICK y : y = look'[j] /\ LookOk(y)
    BY <1>1 DEF FilesInv
  <2>2. LookOk(y)'
    BY <2>1, LookStays
  <2> QED BY <2>1, <2>2
<1>3. DiskTyped' /\ ShownInv'
  BY ShownStays DEF FilesInv, GoOn
<1> QED BY <1>1, <1>2, <1>3 DEF FilesInv

(* A look that settles nothing and starts nothing.                         *)
LEMMA LookGoesOn ==
  ASSUME FilesInv, NEW l \in Watched!Lookers, NEW x, Watched!Goto(l, x), LookOk(x),
         UNCHANGED <<kind, map, pdf, settled, import, shown, failed, up, unseen>>,
         spent' = spent \/ Watched!Spend("calls")
  PROVE  FilesInv'
<1>1. GoOn
  BY DiskRests DEF FilesInv, DiskTyped
<1>2. SettledInv' /\ ImportInv'
  BY <1>1, SettledStays, ImportStays DEF FilesInv
<1> QED BY <1>1, <1>2, LookMoves

LEMMA Idles == LookOk(Watched!Idle)
BY DEF LookOk, Watched!Idle

LEMMA BeginLookStep ==
  ASSUME FilesInv, NEW l \in Watched!Lookers, Watched!BeginLook(l)
  PROVE  FilesInv'
<1>1. UNCHANGED <<kind, map, pdf, settled, import, shown, failed, up, unseen>>
  BY DEF Watched!BeginLook, Watched!files
<1>2. spent' = spent \/ Watched!Spend("calls")
  BY DEF Watched!BeginLook, Watched!Spend
<1>3. PICK x : /\ Watched!Goto(l, x)
               /\ \/ x = Watched!Idle
                  \/ kind = "figure" /\ x = [pc |-> "stat", map |-> map, named |-> Watched!Recall(map)]
                  \/ x = [pc |-> "due", now |-> Watched!DiskSignature]
  <2>1. CASE kind = "pdf"
    BY <2>1 DEF Watched!BeginLook
  <2>2. CASE kind # "pdf"
    BY <2>2 DEF Watched!BeginLook, FilesInv, DiskTyped
  <2> QED BY <2>1, <2>2
<1>4. LookOk(x)
  BY <1>3, Idles DEF LookOk, Watched!BeginLook
<1> QED BY <1>1, <1>2, <1>3, <1>4, LookGoesOn

LEMMA LookAtPdfStep ==
  ASSUME FilesInv, NEW l \in Watched!Lookers, Watched!LookAtPdf(l)
  PROVE  FilesInv'
<1>1. UNCHANGED <<kind, map, pdf, settled, import, shown, failed, up, unseen, spent>>
  BY DEF Watched!LookAtPdf, Watched!files
<1>2. PICK now : Watched!Goto(l, [pc |-> "due", now |-> now])
  BY DEF Watched!LookAtPdf
<1>3. LookOk([pc |-> "due", now |-> now])
  BY DEF LookOk, FilesInv, Watched!LookAtPdf
<1> QED BY <1>1, <1>2, <1>3, LookGoesOn

LEMMA DecideStep ==
  ASSUME FilesInv, NEW l \in Watched!Lookers, Watched!Decide(l)
  PROVE  FilesInv'
<1>1. UNCHANGED <<kind, map, pdf, settled, import, shown, failed, up, unseen, spent>>
  BY DEF Watched!Decide, Watched!files
<1>2. PICK x : /\ Watched!Goto(l, x)
               /\ \/ x = Watched!Idle
                  \/ kind = "pdf" /\ x = [pc |-> "start", ready |-> None]
                  \/ kind = "figure" /\ x = [pc |-> "read"]
  BY DEF Watched!Decide, FilesInv, DiskTyped
<1>3. LookOk(x)
  BY <1>2, Idles DEF LookOk, FilesInv, Watched!Decide
<1> QED BY <1>1, <1>2, <1>3, LookGoesOn

(* The map that is there is one that was there.                            *)
LEMMA Present ==
  ASSUME DiskTyped, map # None
  PROVE  Past(map) /\ map \in FigureMaps
BY DEF DiskTyped, Past, FigureMaps

LEMMA PairSeen ==
  ASSUME kind = "figure", NEW m, Past(m), NEW s \in Nat, s < Watched!Fresh, s # 0 => m.good
  PROVE  /\ Seen(Watched!PairSignature(m, s))
         /\ Watched!PairSignature(m, s).map = m /\ Watched!PairSignature(m, s).pdf = s
BY DEF Past, Seen, FigureSigs, Watched!PairSignature, Watched!MapSignature

LEMMA ReadMapStep ==
  ASSUME FilesInv, NEW l \in Watched!Lookers, Watched!ReadMap(l)
  PROVE  FilesInv'
<1>1. UNCHANGED <<kind, map, pdf, settled, import, shown, failed, up, unseen, spent>>
  BY DEF Watched!ReadMap, Watched!files
<1>2. kind = "figure" /\ DiskTyped /\ up
  BY DEF Watched!ReadMap, FilesInv, LookOk
<1>3. CASE map = None
  <2>1. Watched!Goto(l, Watched!Idle)
    BY <1>3 DEF Watched!ReadMap
  <2> QED BY <1>1, <2>1, Idles, LookGoesOn
<1>4. CASE map # None /\ map.good /\ pdf.is # "none"
  <2>1. PICK x : x = [pc |-> "open", map |-> map, seen |-> pdf.stat] /\ Watched!Goto(l, x)
    BY <1>4 DEF Watched!ReadMap, Watched!FileSignature
  <2>2. LookOk(x)
    BY <1>2, <1>4, <2>1, Present DEF LookOk, DiskTyped
  <2> QED BY <1>1, <2>1, <2>2, LookGoesOn
<1>5. CASE map # None /\ ~(map.good /\ pdf.is # "none")
  <2>1. PICK sig : /\ sig = Watched!PairSignature(map, 0)
                   /\ Watched!Goto(l, [pc |-> "defer", sig |-> sig])
    BY <1>5 DEF Watched!ReadMap, Watched!NoFile
  <2>2. 0 < Watched!Fresh
    BY <1>2 DEF DiskTyped, Watched!Fresh
  <2>3. Seen(sig) /\ sig.pdf = 0
    BY <1>2, <1>5, <2>1, <2>2, Present, PairSeen
  <2>4. LookOk([pc |-> "defer", sig |-> sig])
    BY <1>2, <2>3 DEF LookOk, NoPair
  <2> QED BY <1>1, <2>1, <2>4, LookGoesOn
<1> QED BY <1>3, <1>4, <1>5

(* The PDF's content and stat as one open descriptor gives them.           *)
LEMMA ReadFits ==
  ASSUME DiskTyped, kind = "figure", NEW m, Past(m), m.good, Watched!Verified(m)
  PROVE  Fits([map |-> m, content |-> pdf.content, sig |-> Watched!PairSignature(m, pdf.stat)])
<1>1. pdf.is = "file" /\ m.sha = pdf.content
  BY DEF Watched!Verified, Watched!AcceptPdf
<1>2. pdf.stat \in Nat /\ pdf.stat # 0 /\ pdf.stat < Watched!Fresh /\ pdf.content \in Nat
  BY <1>1 DEF DiskTyped
<1>3. PICK sig : sig = Watched!PairSignature(m, pdf.stat)
  OBVIOUS
<1>4. Seen(sig) /\ sig.map = m /\ sig.pdf = pdf.stat
  BY <1>2, <1>3, PairSeen
<1>5. Holds(sig.pdf, pdf.content)
  BY <1>4 DEF Holds
<1>6. Fits([map |-> m, content |-> pdf.content, sig |-> sig])
  BY <1>1, <1>2, <1>4, <1>5 DEF Fits
<1> QED BY <1>3, <1>6

LEMMA ReadPdfStep ==
  ASSUME FilesInv, NEW l \in Watched!Lookers, Watched!ReadPdf(l)
  PROVE  FilesInv'
<1> PICK m, seen : m = look[l].map /\ seen = look[l].seen
  OBVIOUS
<1>1. UNCHANGED <<kind, map, pdf, settled, import, shown, failed, up, unseen, spent>>
  BY DEF Watched!ReadPdf, Watched!files
<1>2. /\ kind = "figure" /\ DiskTyped /\ up /\ Past(m) /\ m.good
      /\ seen \in Nat /\ seen # 0 /\ seen < Watched!Fresh
  BY DEF Watched!ReadPdf, FilesInv, LookOk
<1>3. CASE Watched!Verified(m)
  <2>1. PICK r : /\ r = [map |-> m, content |-> pdf.content, sig |-> Watched!PairSignature(m, pdf.stat)]
                 /\ Watched!Goto(l, [pc |-> "start", ready |-> r])
    BY <1>3 DEF Watched!ReadPdf
  <2>2. Fits(r)
    BY <1>2, <1>3, <2>1, ReadFits
  <2>3. LookOk([pc |-> "start", ready |-> r])
    BY <1>2, <2>2 DEF LookOk
  <2> QED BY <1>1, <2>1, <2>3, LookGoesOn
<1>4. CASE ~Watched!Verified(m)
  <2>1. PICK s : s = IF pdf.is \in {"file", "big"} THEN pdf.stat ELSE seen
    OBVIOUS
  <2>2. PICK sig : /\ sig = Watched!PairSignature(m, s)
                   /\ Watched!Goto(l, [pc |-> "defer", sig |-> sig])
    BY <1>4, <2>1 DEF Watched!ReadPdf, Watched!DeferralSignature
  <2>3. s \in Nat /\ s # 0 /\ s < Watched!Fresh
    BY <1>2, <2>1 DEF DiskTyped
  <2>4. Seen(sig) /\ sig.map = m /\ sig.pdf = s
    BY <1>2, <2>2, <2>3, PairSeen
  <2>5. NoPair(sig)
    BY <1>2, <1>4, <2>4 DEF NoPair, Watched!Verified, Watched!AcceptPdf
  <2>6. LookOk([pc |-> "defer", sig |-> sig])
    BY <1>2, <2>4, <2>5 DEF LookOk
  <2> QED BY <1>1, <2>2, <2>6, LookGoesOn
<1> QED BY <1>3, <1>4

(* What is settled with a reason stays so if it cannot be written.         *)
LEMMA DeferStep ==
  ASSUME FilesInv, NEW l \in Watched!Lookers, Watched!Defer(l)
  PROVE  FilesInv'
<1> PICK sig : sig = look[l].sig
  OBVIOUS
<1>1. /\ UNCHANGED <<kind, map, pdf, import, shown, failed, up, unseen>> /\ Watched!Goto(l, Watched!Idle)
      /\ ((settled' = sig /\ spent' = spent) \/ (Watched!Spend("mishaps") /\ settled' = settled))
  BY DEF Watched!Defer, Watched!Settle, Watched!files
<1>2. GoOn
  BY <1>1, DiskRests DEF FilesInv, DiskTyped
<1>3. Seen(sig) /\ Answered(sig)
  BY DEF Watched!Defer, FilesInv, LookOk, Answered
<1>4. SettledInv'
  <2>1. CASE settled' = settled
    BY <1>1, <1>2, <2>1, SettledStays DEF FilesInv
  <2>2. CASE settled' = sig /\ spent' = spent
    <3>1. kind' = kind /\ map' = map /\ pdf' = pdf /\ spent' = spent /\ unseen' = unseen /\ shown' = shown /\ failed' = failed
      BY <1>1, <2>2
    <3>2. Seen(sig)' /\ Answered(sig)'
      BY <1>3, <3>1 DEF Seen, Past, Watched!Fresh, Answered, NoPair, Gone, GoneMap, OnScreen, Holds
    <3> QED BY <2>2, <3>2 DEF SettledInv
  <2> QED BY <1>1, <2>1, <2>2
<1>5. ImportInv'
  BY <1>1, <1>2, ImportStays DEF FilesInv
<1> QED BY <1>1, <1>2, <1>4, <1>5, Idles, LookMoves

LEMMA StartImportStep ==
  ASSUME FilesInv, NEW l \in Watched!Lookers, Watched!StartImport(l)
  PROVE  FilesInv'
<1>1. /\ UNCHANGED <<kind, map, pdf, settled, shown, failed, up, unseen, spent>> /\ Watched!Goto(l, Watched!Idle)
      /\ look[l].pc = "start" /\ up
  BY DEF Watched!StartImport, Watched!files, FilesInv, LookOk
<1>2. GoOn
  BY <1>1, DiskRests DEF FilesInv, DiskTyped
<1>3. ImportInv' /\ (import.pc = "settle" => import'.pc = "settle")
  <2>1. CASE import' = import
    BY <1>1, <1>2, <2>1, ImportStays DEF FilesInv
  <2>2. CASE import = Watched!NoJob /\ kind = "pdf" /\ import' = [pc |-> "sig"] /\ up
    BY <1>1, <2>2 DEF ImportInv, Watched!NoJob
  <2>3. CASE import = Watched!NoJob /\ kind = "figure" /\ import' = [pc |-> "render", ready |-> look[l].ready] /\ up
    <3>1. PICK r : r = look[l].ready
      OBVIOUS
    <3>2. Fits(r)'
      BY <1>1, <1>2, <2>3, <3>1, FitsStays DEF FilesInv, LookOk
    <3> QED BY <1>1, <2>3, <3>1, <3>2 DEF ImportInv, Watched!NoJob
  <2> QED BY <1>1, <2>1, <2>2, <2>3 DEF Watched!StartImport, FilesInv, DiskTyped
<1>4. SettledInv'
  BY <1>1, <1>2, <1>3, SettledStays DEF FilesInv
<1> QED BY <1>1, <1>2, <1>3, <1>4, Idles, LookMoves


-----------------------------------------------------------------------------
(* The build of a watched document                                         *)

LEMMA ImportMoves ==
  ASSUME FilesInv, GoOn, UNCHANGED <<look, up>>, SettledInv', ImportInv', ShownInv'
  PROVE  FilesInv'
BY LookStays DEF FilesInv, GoOn

(* A step of a build that settles nothing.                                 *)
LEMMA ImportGoesOn ==
  ASSUME FilesInv, UNCHANGED <<kind, map, pdf, settled, look, shown, up, unseen>>, failed \subseteq failed',
         spent' = spent \/ Watched!Spend("calls") \/ Watched!Spend("mishaps"),
         import.pc # "settle", NEW x, import' = x, x = Watched!NoJob \/ up,
         \/ x = Watched!NoJob
         \/ x.pc \in {"map", "pdf"} /\ kind = "figure" /\ (x.pc = "pdf" => Past(x.map) /\ x.map.good)
         \/ x.pc = "sig" /\ kind = "pdf"
         \/ x.pc = "stage" /\ kind = "pdf" /\ Seen(x.sig)
         \/ x.pc = "giveup" /\ Seen(x.sig)
         \/ x.pc = "render" /\ Fits(x.ready)
  PROVE  FilesInv'
<1>1. GoOn
  BY DiskRests DEF FilesInv, DiskTyped
<1>2. SettledInv' /\ ShownInv'
  BY <1>1, SettledStays, ShownStays DEF FilesInv
<1>3. /\ x.pc \in {"stage", "giveup"} => Seen(x.sig)'
      /\ x.pc = "render" => Fits(x.ready)'
      /\ x.pc = "pdf" => Past(x.map)'
  BY <1>1, SigsStay, FitsStays, PastStays DEF Watched!NoJob
<1>4. ImportInv'
  BY <1>3 DEF ImportInv, Watched!NoJob
<1> QED BY <1>1, <1>2, <1>4, ImportMoves

LEMMA Building ==
  ASSUME FilesInv
  PROVE  /\ import.pc \in {"map", "pdf", "sig", "stage", "render", "giveup", "settle"} => up
         /\ import = Watched!NoJob => import.pc # "settle"
BY DEF FilesInv, ImportInv, Watched!NoJob

LEMMA RebuildStep ==
  ASSUME FilesInv, Watched!Rebuild
  PROVE  FilesInv'
<1>1. /\ UNCHANGED <<kind, map, pdf, settled, look, shown, up, unseen, failed>> /\ Watched!Spend("calls")
      /\ import = Watched!NoJob /\ up /\ kind = "figure"
  BY DEF Watched!Rebuild, Watched!files
<1>2. PICK x : x = [pc |-> "map"] /\ import' = x
  BY DEF Watched!Rebuild
<1>3. x.pc = "map"
  BY <1>2
<1> QED BY <1>1, <1>2, <1>3, Building, ImportGoesOn

LEMMA JobReadsMapStep ==
  ASSUME FilesInv, Watched!JobReadsMap
  PROVE  FilesInv'
<1>1. UNCHANGED <<kind, map, pdf, settled, look, shown, up, unseen, failed, spent>> /\ import.pc = "map"
  BY DEF Watched!JobReadsMap, Watched!files
<1>2. kind = "figure" /\ up /\ DiskTyped
  BY <1>1, Building DEF FilesInv, ImportInv, Watched!NoJob
<1>3. CASE import' = Watched!NoJob
  BY <1>1, <1>3, ImportGoesOn
<1>4. CASE map # None /\ map.good /\ import' = [pc |-> "pdf", map |-> map]
  <2>1. PICK x : x = [pc |-> "pdf", map |-> map] /\ import' = x
    BY <1>4
  <2>2. x.pc = "pdf" /\ Past(x.map) /\ x.map.good
    BY <1>2, <1>4, <2>1, Present
  <2> QED BY <1>1, <1>2, <2>1, <2>2, ImportGoesOn
<1> QED BY <1>3, <1>4 DEF Watched!JobReadsMap

LEMMA JobReadsPdfStep ==
  ASSUME FilesInv, Watched!JobReadsPdf
  PROVE  FilesInv'
<1> PICK m : m = import.map
  OBVIOUS
<1>1. UNCHANGED <<kind, map, pdf, settled, look, shown, up, unseen, failed, spent>> /\ import.pc = "pdf"
  BY DEF Watched!JobReadsPdf, Watched!files
<1>2. kind = "figure" /\ up /\ DiskTyped /\ Past(m) /\ m.good
  BY <1>1, Building DEF FilesInv, ImportInv, Watched!NoJob
<1>3. CASE import' = Watched!NoJob
  BY <1>1, <1>3, ImportGoesOn
<1>4. CASE Watched!Verified(m) /\ import' # Watched!NoJob
  <2>1. PICK r : /\ r = [map |-> m, content |-> pdf.content, sig |-> Watched!PairSignature(m, pdf.stat)]
                 /\ import' = [pc |-> "render", ready |-> r]
    BY <1>4 DEF Watched!JobReadsPdf
  <2>2. Fits(r)
    BY <1>2, <1>4, <2>1, ReadFits
  <2>3. PICK x : x = [pc |-> "render", ready |-> r] /\ import' = x
    BY <2>1
  <2>4. x.pc = "render" /\ x.ready = r
    BY <2>3
  <2> QED BY <1>1, <1>2, <2>2, <2>3, <2>4, ImportGoesOn
<1> QED BY <1>3, <1>4 DEF Watched!JobReadsPdf

(* The signature of a view-only PDF that is there.                         *)
LEMMA PdfSeen ==
  ASSUME DiskTyped, kind = "pdf", pdf.is # "none", NEW sig, sig = [map |-> None, pdf |-> pdf.stat]
  PROVE  Seen(sig) /\ sig.map = None /\ sig.pdf = pdf.stat /\ sig.pdf # 0
BY DEF DiskTyped, Seen, FigureSigs

LEMMA JobSignsStep ==
  ASSUME FilesInv, Watched!JobSigns
  PROVE  FilesInv'
<1>1. UNCHANGED <<kind, map, pdf, settled, look, shown, up, unseen, failed, spent>> /\ import.pc = "sig"
  BY DEF Watched!JobSigns, Watched!files
<1>2. kind = "pdf" /\ up /\ DiskTyped
  BY <1>1, Building DEF FilesInv, ImportInv, Watched!NoJob
<1>3. CASE import' = Watched!NoJob
  BY <1>1, <1>3, ImportGoesOn
<1>4. CASE pdf.is # "none" /\ import' = [pc |-> "stage", sig |-> Watched!DiskSignature]
  <2>1. PICK sig : sig = [map |-> None, pdf |-> pdf.stat] /\ import' = [pc |-> "stage", sig |-> sig]
    BY <1>2, <1>4 DEF Watched!DiskSignature
  <2>2. PICK x : x = [pc |-> "stage", sig |-> sig] /\ import' = x
    BY <2>1
  <2>3. x.pc = "stage" /\ Seen(x.sig)
    BY <1>2, <1>4, <2>1, <2>2, PdfSeen
  <2> QED BY <1>1, <1>2, <2>2, <2>3, ImportGoesOn
<1> QED BY <1>3, <1>4 DEF Watched!JobSigns

LEMMA JobStagesStep ==
  ASSUME FilesInv, Watched!JobStages
  PROVE  FilesInv'
<1>1. UNCHANGED <<kind, map, pdf, settled, look, shown, up, unseen, failed, spent>> /\ import.pc = "stage"
  BY DEF Watched!JobStages, Watched!files
<1>2. kind = "pdf" /\ up /\ DiskTyped /\ Seen(import.sig)
  BY <1>1, Building DEF FilesInv, ImportInv, Watched!NoJob
<1>3. CASE pdf.is \in {"file", "big"}
  <2>1. PICK sig : sig = [map |-> None, pdf |-> pdf.stat]
    OBVIOUS
  <2>2. Seen(sig) /\ sig.map = None /\ sig.pdf = pdf.stat /\ sig.pdf # 0
    BY <1>2, <1>3, <2>1, PdfSeen
  <2>3. PICK r : r = [map |-> None, content |-> pdf.content, sig |-> sig] /\ import' = [pc |-> "render", ready |-> r]
    BY <1>3, <2>1 DEF Watched!JobStages, Watched!SnapshotSignature
  <2>4. Fits(r)
    BY <1>2, <2>2, <2>3 DEF Fits, Holds, DiskTyped
  <2>5. PICK x : x = [pc |-> "render", ready |-> r] /\ import' = x
    BY <2>3
  <2>6. x.pc = "render" /\ x.ready = r
    BY <2>5
  <2> QED BY <1>1, <1>2, <2>4, <2>5, <2>6, ImportGoesOn
<1>4. CASE pdf.is \notin {"file", "big"}
  <2>1. PICK x : x = [pc |-> "giveup", sig |-> import.sig] /\ import' = x
    BY <1>4 DEF Watched!JobStages
  <2>2. x.pc = "giveup" /\ x.sig = import.sig
    BY <2>1
  <2> QED BY <1>1, <1>2, <2>1, <2>2, ImportGoesOn
<1> QED BY <1>3, <1>4

LEMMA RenderFailsStep ==
  ASSUME FilesInv, Watched!RenderFails
  PROVE  FilesInv'
<1>1. /\ UNCHANGED <<kind, map, pdf, settled, look, shown, up, unseen, failed>>
      /\ import.pc = "render" /\ Watched!Spend("mishaps")
  BY DEF Watched!RenderFails, Watched!files
<1>2. up /\ Seen(import.ready.sig)
  BY <1>1, Building DEF FilesInv, ImportInv, Fits, Watched!NoJob
<1>3. PICK x : x = [pc |-> "giveup", sig |-> import.ready.sig] /\ import' = x
  BY DEF Watched!RenderFails
<1>4. x.pc = "giveup" /\ x.sig = import.ready.sig
  BY <1>3
<1> QED BY <1>1, <1>2, <1>3, <1>4, ImportGoesOn

LEMMA ShowFailsStep ==
  ASSUME FilesInv, Watched!ShowFails
  PROVE  FilesInv'
<1>1. /\ UNCHANGED <<kind, map, pdf, settled, look, shown, up, unseen, failed>>
      /\ import.pc = "render" /\ Watched!Spend("mishaps") /\ import' = Watched!NoJob
  BY DEF Watched!ShowFails, Watched!files
<1> QED BY <1>1, ImportGoesOn

LEMMA GiveUpStep ==
  ASSUME FilesInv, Watched!GiveUp
  PROVE  FilesInv'
<1> PICK sig : sig = import.sig
  OBVIOUS
<1>1. /\ UNCHANGED <<kind, map, pdf, look, shown, up, unseen>> /\ failed' = failed \cup {sig}
      /\ import.pc = "giveup" /\ import' = Watched!NoJob
      /\ (settled' = sig /\ spent' = spent) \/ (Watched!Spend("mishaps") /\ settled' = settled)
  BY DEF Watched!GiveUp, Watched!files, Watched!Settle
<1>2. GoOn
  BY <1>1, DiskRests DEF FilesInv, DiskTyped
<1>3. Seen(sig)'
  BY <1>1, <1>2, SigsStay DEF FilesInv, ImportInv, Watched!NoJob
<1>4. SettledInv'
  <2>1. CASE settled' = settled
    BY <1>1, <1>2, <2>1, SettledStays DEF FilesInv
  <2>2. CASE settled' = sig
    BY <1>1, <1>3, <2>2 DEF SettledInv, Answered
  <2> QED BY <1>1, <2>1, <2>2
<1>5. ImportInv'
  BY <1>1 DEF ImportInv, Watched!NoJob
<1>6. ShownInv'
  BY <1>1, <1>2, ShownStays DEF FilesInv
<1> QED BY <1>1, <1>2, <1>4, <1>5, <1>6, ImportMoves

LEMMA ShowStep ==
  ASSUME FilesInv, NoneIsNoFile, Watched!Show
  PROVE  FilesInv'
<1> PICK r, sig : r = import.ready /\ sig = r.sig
  OBVIOUS
<1>1. /\ UNCHANGED <<kind, map, pdf, look, up, unseen, settled, failed, spent>>
      /\ import.pc = "render" /\ import' = [pc |-> "settle", sig |-> sig]
      /\ shown' = [map |-> r.map, content |-> r.content]
  BY DEF Watched!Show, Watched!files
<1>2. GoOn
  BY <1>1, DiskRests DEF FilesInv, DiskTyped
<1>3. Fits(r)'  /\ Fits(r) /\ up
  BY <1>1, <1>2, Building, FitsStays DEF FilesInv, ImportInv, Watched!NoJob
<1>4. /\ sig \in FigureSigs /\ r.map = sig.map /\ r.map \in FigureMaps \cup {None} /\ r.content \in Nat
      /\ kind = "figure" => r.map \in FigureMaps /\ r.map.sha = r.content
  BY <1>3 DEF Fits, Seen, FigureSigs, Past
<1>5. shown' \in Shows /\ shown' # None /\ shown'.map = r.map /\ shown'.content = r.content
  BY <1>1, <1>4 DEF Shows, NoneIsNoFile
<1>6. ShownInv'
  BY <1>1, <1>4, <1>5 DEF ShownInv, NoneIsNoFile
<1>7. import'.pc = "settle" /\ import'.sig = sig
  BY <1>1
<1>8. ImportInv'
  <2>1. Seen(sig)' /\ OnScreen(sig)'
    BY <1>3, <1>5 DEF Fits, OnScreen
  <2> QED BY <1>1, <1>3, <1>7, <2>1 DEF ImportInv, Watched!NoJob
<1>9. SettledInv'
  <2> PICK s : s = settled
    OBVIOUS
  <2>1. settled' = s
    BY <1>1
  <2>2. s # None => Seen(s)'
    BY <1>2, SigsStay DEF FilesInv, SettledInv
  <2>3. s # None => Seen(settled)'
    BY <2>1, <2>2 DEF Seen
  <2> QED BY <1>7, <2>1, <2>3 DEF SettledInv
<1> QED BY <1>1, <1>2, <1>6, <1>8, <1>9, ImportMoves

(* A settled signature that is not the one on disk is of files that are no *)
(* figure, or will not be there again.                                     *)
LEMMA Elsewhere ==
  ASSUME DiskTyped, Seen(settled), settled # Watched!DiskSignature
  PROVE  NoPair(settled) \/ Gone(settled)
<1> PICK sig : sig = settled
  OBVIOUS
<1>1. sig \in FigureSigs /\ sig = [map |-> sig.map, pdf |-> sig.pdf] /\ sig.pdf \in Nat
  BY DEF Seen, FigureSigs
<1>2. CASE kind = "pdf"
  <2>1. sig.map = None /\ sig.pdf # 0
    BY <1>2 DEF Seen
  <2>2. CASE pdf.is = "none"
    BY <2>1, <2>2 DEF Gone, DiskTyped
  <2>3. CASE pdf.is # "none"
    <3>1. sig # [map |-> None, pdf |-> pdf.stat]
      BY <1>2, <2>3 DEF Watched!DiskSignature
    <3>2. sig.pdf # pdf.stat
      BY <1>1, <2>1, <3>1
    <3> QED BY <2>1, <3>2 DEF Gone
  <2> QED BY <2>2, <2>3
<1>3. CASE kind = "figure"
  <2>1. Past(sig.map) /\ (sig.pdf # 0 => sig.map.good)
    BY <1>3 DEF Seen
  <2>2. CASE sig.pdf = 0
    BY <1>3, <2>2 DEF NoPair
  <2>3. CASE sig.pdf # 0 /\ (pdf.stat # sig.pdf \/ map = None)
    BY <1>3, <2>3 DEF Gone, GoneMap
  <2>4. CASE sig.pdf # 0 /\ pdf.stat = sig.pdf /\ map # None
    <3>1. pdf.is # "none"
      BY <2>4 DEF DiskTyped
    <3>2. sig # [map |-> map, pdf |-> IF map.good THEN pdf.stat ELSE 0]
      BY <1>3, <2>4, <3>1 DEF Watched!DiskSignature, Watched!PairSignature, Watched!MapSignature,
                              Watched!FileSignature, Watched!NoFile
    <3>3. sig.map # map
      <4>1. ASSUME sig.map = map PROVE FALSE
        <5>1. map.good
          BY <2>1, <2>4, <4>1
        <5>2. sig # [map |-> map, pdf |-> pdf.stat]
          BY <3>2, <5>1
        <5> QED BY <1>1, <2>4, <4>1, <5>2
      <4> QED BY <4>1
    <3>4. GoneMap(sig.map)
      <4> PICK m : m = sig.map
        OBVIOUS
      <4>1. /\ m \in FigureMaps /\ map \in FigureMaps /\ m # map
            /\ m.stat = map.stat => m.sha <= map.sha /\ (m.good => map.good)
        BY <2>1, <2>4, <3>3 DEF Past, DiskTyped
      <4>2. m.stat # map.stat \/ m.good # map.good \/ m.sha # map.sha
        BY <4>1 DEF FigureMaps
      <4>3. /\ m.sha \in Nat /\ map.sha \in Nat /\ m.good \in BOOLEAN /\ map.good \in BOOLEAN
        BY <4>1 DEF FigureMaps
      <4>4. m.stat # map.stat \/ m.sha < map.sha \/ (~m.good /\ map.good)
        BY <4>1, <4>2, <4>3
      <4> QED BY <4>4 DEF GoneMap
    <3> QED BY <1>3, <2>4, <3>4 DEF Gone
  <2> QED BY <2>2, <2>3, <2>4
<1> QED BY <1>2, <1>3 DEF DiskTyped

(* The pages on screen are not settled, and what is settled stays.         *)
LEMMA Unsettled ==
  ASSUME FilesInv, GoOn, import.pc = "settle", UNCHANGED <<settled, shown, failed>>,
         unseen.lost => unseen'.lost, Watched!Overtaken => unseen'.lost
  PROVE  SettledInv'
<1>1. SUFFICES ASSUME settled # None PROVE Seen(settled)' /\ Answered(settled)'
  BY DEF SettledInv
<1>2. Seen(settled) /\ DiskTyped
  BY <1>1 DEF FilesInv, SettledInv
<1>3. Seen(settled)'
  BY <1>2, SigsStay
<1>4. CASE settled = import.sig
  <2>1. OnScreen(settled)'
    BY <1>2, <1>4, OnScreenStays DEF FilesInv, ImportInv, Watched!NoJob
  <2> QED BY <1>3, <2>1 DEF Answered
<1>5. CASE settled # Watched!DiskSignature
  <2>1. NoPair(settled)' \/ Gone(settled)'
    BY <1>2, <1>5, Elsewhere, SigsStay
  <2> QED BY <1>3, <2>1 DEF Answered
<1>6. CASE settled # import.sig /\ settled = Watched!DiskSignature
  BY <1>1, <1>3, <1>6 DEF Watched!Overtaken, Answered
<1> QED BY <1>4, <1>5, <1>6

LEMMA SettleShownStep ==
  ASSUME FilesInv, Watched!SettleShown
  PROVE  FilesInv'
<1> PICK sig : sig = import.sig
  OBVIOUS
<1>1. /\ UNCHANGED <<kind, map, pdf, look, up, shown, failed>>
      /\ import.pc = "settle" /\ import' = Watched!NoJob
      /\ (settled' = sig /\ spent' = spent) \/ (Watched!Spend("mishaps") /\ settled' = settled)
      /\ unseen' = [unseen EXCEPT !.lost = @ \/ (settled' # sig /\ Watched!Overtaken)]
  BY DEF Watched!SettleShown, Watched!files, Watched!Settle
<1>2. PICK b \in BOOLEAN : /\ b <=> (unseen.lost \/ (settled' # sig /\ Watched!Overtaken))
                           /\ unseen' = [unseen EXCEPT !.lost = b]
  <2> DEFINE b == unseen.lost \/ (settled' # sig /\ Watched!Overtaken)
  <2>1. b \in BOOLEAN /\ unseen' = [unseen EXCEPT !.lost = b]
    BY <1>1
  <2>2. b <=> (unseen.lost \/ (settled' # sig /\ Watched!Overtaken))
    OBVIOUS
  <2> HIDE DEF b
  <2> QED BY <2>1, <2>2
<1>3. unseen' \in [pdf : BOOLEAN, lost : BOOLEAN] /\ unseen'.pdf = unseen.pdf /\ unseen'.lost = b
  BY <1>2 DEF FilesInv, DiskTyped
<1>4. GoOn
  BY <1>1, <1>3, DiskRests DEF FilesInv
<1>5. SettledInv'
  <2>1. CASE settled' = sig
    <3>1. Seen(sig)' /\ OnScreen(sig)'
      BY <1>1, <1>4, SigsStay, OnScreenStays DEF FilesInv, ImportInv, Watched!NoJob
    <3> QED BY <2>1, <3>1 DEF SettledInv, Answered
  <2>2. CASE settled' # sig
    BY <1>1, <1>2, <1>3, <1>4, <2>2, Unsettled
  <2> QED BY <2>1, <2>2
<1>6. ImportInv'
  BY <1>1 DEF ImportInv, Watched!NoJob
<1>7. ShownInv'
  BY <1>1, <1>4, ShownStays DEF FilesInv
<1> QED BY <1>1, <1>4, <1>5, <1>6, <1>7, ImportMoves

LEMMA CrashStep ==
  ASSUME FilesInv, Watched!Crash
  PROVE  FilesInv'
<1>1. /\ UNCHANGED <<kind, map, pdf, settled, shown, failed>> /\ up' = FALSE
      /\ look' = [l \in Watched!Lookers |-> Watched!Idle] /\ import' = Watched!NoJob
      /\ Watched!Spend("mishaps")
      /\ unseen' = [unseen EXCEPT !.lost = @ \/ (import.pc = "settle" /\ Watched!Overtaken)]
  BY DEF Watched!Crash, Watched!files
<1>2. PICK b \in BOOLEAN : /\ b <=> (unseen.lost \/ (import.pc = "settle" /\ Watched!Overtaken))
                           /\ unseen' = [unseen EXCEPT !.lost = b]
  <2> DEFINE b == unseen.lost \/ (import.pc = "settle" /\ Watched!Overtaken)
  <2>1. b \in BOOLEAN /\ unseen' = [unseen EXCEPT !.lost = b]
    BY <1>1
  <2>2. b <=> (unseen.lost \/ (import.pc = "settle" /\ Watched!Overtaken))
    OBVIOUS
  <2> HIDE DEF b
  <2> QED BY <2>1, <2>2
<1>3. unseen' \in [pdf : BOOLEAN, lost : BOOLEAN] /\ unseen'.pdf = unseen.pdf /\ unseen'.lost = b
  BY <1>2 DEF FilesInv, DiskTyped
<1>4. GoOn
  BY <1>1, <1>3, DiskRests DEF FilesInv
<1>5. SettledInv'
  <2>1. CASE import.pc = "settle"
    BY <1>1, <1>2, <1>3, <1>4, <2>1, Unsettled
  <2>2. CASE import.pc # "settle"
    BY <1>1, <1>2, <1>3, <1>4, <2>2, SettledStays DEF FilesInv
  <2> QED BY <2>1, <2>2
<1>6. ImportInv' /\ ShownInv'
  BY <1>1, <1>4, ShownStays DEF FilesInv, ImportInv, Watched!NoJob
<1>7. \A l \in Watched!Lookers : LookOk(look[l])'
  <2>1. ASSUME NEW l \in Watched!Lookers PROVE look'[l] = Watched!Idle /\ Watched!Idle.pc = "idle"
    BY <1>1 DEF Watched!Idle
  <2> QED BY <2>1 DEF LookOk
<1>8. look' = [l \in Watched!Lookers |-> look'[l]]
  BY <1>1
<1> QED BY <1>4, <1>5, <1>6, <1>7, <1>8 DEF FilesInv, GoOn

LEMMA RestartStep ==
  ASSUME FilesInv, Watched!Restart
  PROVE  FilesInv'
<1>1. UNCHANGED <<kind, map, pdf, settled, look, import, shown, failed, spent, unseen>> /\ up' = TRUE
  BY DEF Watched!Restart, Watched!files
<1>2. GoOn
  BY <1>1, DiskRests DEF FilesInv, DiskTyped
<1>3. SettledInv' /\ ShownInv'
  BY <1>1, <1>2, SettledStays, ShownStays DEF FilesInv
<1>4. ImportInv'
  BY <1>1 DEF FilesInv, ImportInv, Fits, Seen, Past, OnScreen, Holds, Watched!Fresh, Watched!NoJob
<1>5. \A l \in Watched!Lookers : LookOk(look[l])'
  BY <1>1, <1>2, LookStays DEF FilesInv
<1>6. look' = [l \in Watched!Lookers |-> look'[l]]
  BY <1>1 DEF FilesInv
<1> QED BY <1>2, <1>3, <1>4, <1>5, <1>6 DEF FilesInv, GoOn

-----------------------------------------------------------------------------
(* Theorem                                                                 *)

LEMMA FilesAtFirst ==
  ASSUME Watched!Init, MaxFileWrites \in Nat
  PROVE  FilesInv
<1>1. /\ settled = None /\ shown = None /\ import = Watched!NoJob
      /\ look = [l \in Watched!Lookers |-> Watched!Idle] /\ up = TRUE
      /\ spent = [writes |-> 0, calls |-> 0, mishaps |-> 0] /\ unseen = [pdf |-> FALSE, lost |-> FALSE]
      /\ kind \in {"figure", "pdf"}
  BY DEF Watched!Init
<1>2. map = None \/ (map \in FigureMaps /\ map.stat = 1)
  <2>1. map = None \/ map \in [stat : {1}, good : {TRUE}, sha : {1}]
    BY DEF Watched!Init
  <2>2. ASSUME NEW m \in [stat : {1}, good : {TRUE}, sha : {1}] PROVE m \in FigureMaps /\ m.stat = 1
    <3>1. m = [stat |-> m.stat, good |-> m.good, sha |-> m.sha] /\ m.stat = 1 /\ m.good = TRUE /\ m.sha = 1
      OBVIOUS
    <3>2. [stat |-> 1, good |-> TRUE, sha |-> 1] \in [stat : Nat, good : BOOLEAN, sha : Nat]
      OBVIOUS
    <3>3. m = [stat |-> 1, good |-> TRUE, sha |-> 1]
      BY <3>1
    <3> QED BY <3>1, <3>2, <3>3 DEF FigureMaps
  <2> QED BY <2>1, <2>2
<1>3. /\ pdf \in [is : {"file", "locked", "big", "none"}, content : Nat, stat : Nat]
      /\ pdf.stat < 2 /\ (pdf.is = "none" <=> pdf.stat = 0)
  BY DEF Watched!Init, Watched!NoFile
<1>4. kind = "pdf" => map = None
  BY DEF Watched!Init
<1>5. DiskTyped
  BY <1>1, <1>2, <1>3, <1>4 DEF DiskTyped, Watched!Fresh
<1>6. ImportInv /\ SettledInv /\ ShownInv
  BY <1>1 DEF ImportInv, SettledInv, ShownInv, Watched!NoJob
<1>7. \A l \in Watched!Lookers : LookOk(look[l])
  BY <1>1, Idles
<1>8. look = [l \in Watched!Lookers |-> look[l]]
  BY <1>1
<1> QED BY <1>5, <1>6, <1>7, <1>8 DEF FilesInv

LEMMA FilesStay ==
  ASSUME FilesInv, NoneIsNoFile, PdfContents \subseteq Nat, MaxFileWrites \in Nat, [Watched!Next]_Watched!vars
  PROVE  FilesInv'
<1>1. CASE UNCHANGED Watched!vars
  <2>1. UNCHANGED <<kind, map, pdf, looks, settled, look, import, shown, failed, first, up, spent, unseen>>
    BY <1>1 DEF Watched!vars
  <2>2. GoOn
    BY <2>1, DiskRests DEF FilesInv, DiskTyped
  <2> QED BY <2>1, <2>2, FilesMove
<1>2. CASE Watched!WritePdf \/ Watched!WriteMap \/ Watched!FixMap \/ Watched!ChangePdfUnseen
  BY <1>2, WritePdfStep, WriteMapStep, FixMapStep, ChangePdfUnseenStep
<1>3. ASSUME NEW l \in Watched!Lookers, Watched!BeginLook(l) \/ Watched!Look(l) PROVE FilesInv'
  BY <1>3, BeginLookStep, LookAtPdfStep, DecideStep, ReadMapStep, ReadPdfStep, DeferStep, StartImportStep DEF Watched!Look
<1>4. CASE Watched!Rebuild \/ Watched!Job
  BY <1>4, RebuildStep, JobReadsMapStep, JobReadsPdfStep, JobSignsStep, JobStagesStep, RenderFailsStep, GiveUpStep,
     ShowStep, ShowFailsStep, SettleShownStep DEF Watched!Job
<1> QED BY <1>1, <1>2, <1>3, <1>4, CrashStep, RestartStep DEF Watched!Next

LEMMA NothingSwallowed ==
  ASSUME FilesInv
  PROVE  Watched!NoChangeSwallowed
<1> SUFFICES ASSUME settled # None, settled = Watched!DiskSignature, Watched!DiskReady, import = Watched!NoJob,
                    ~unseen.pdf, ~unseen.lost, settled \notin failed
             PROVE  Watched!ShowsDisk
  BY DEF Watched!NoChangeSwallowed
<1> PICK sig : sig = settled
  OBVIOUS
<1>1. DiskTyped /\ Seen(sig) /\ (NoPair(sig) \/ Gone(sig) \/ OnScreen(sig))
  BY DEF FilesInv, SettledInv, Answered, Watched!NoJob
<1>2. CASE kind = "pdf"
  <2>1. pdf.is # "none" /\ sig = [map |-> None, pdf |-> pdf.stat]
    BY <1>2 DEF Watched!DiskReady, Watched!DiskSignature
  <2>2. OnScreen(sig) /\ sig.pdf = pdf.stat
    BY <1>1, <1>2, <2>1 DEF NoPair, Gone
  <2> QED BY <1>2, <2>2 DEF OnScreen, Holds, Watched!ShowsDisk
<1>3. CASE kind = "figure"
  <2>1. map # None /\ map.good /\ pdf.is = "file" /\ map.sha = pdf.content
    BY <1>3 DEF Watched!DiskReady, Watched!AcceptPdf, DiskTyped
  <2>2. sig = [map |-> map, pdf |-> pdf.stat]
    BY <1>3, <2>1 DEF Watched!DiskSignature, Watched!PairSignature, Watched!MapSignature, Watched!FileSignature
  <2>3. sig.map = map /\ sig.pdf = pdf.stat /\ pdf.stat # 0
    BY <1>1, <2>1, <2>2 DEF DiskTyped
  <2>4. ~NoPair(sig)
    BY <2>1, <2>3 DEF NoPair
  <2>5. ~Gone(sig)
    BY <1>1, <2>1, <2>3 DEF Gone, GoneMap, DiskTyped, FigureMaps
  <2> QED BY <1>1, <1>3, <2>3, <2>4, <2>5 DEF OnScreen, Holds, Watched!ShowsDisk
<1> QED BY <1>1, <1>2, <1>3 DEF DiskTyped

(* The pages of a watched document are of one map and one PDF, and a       *)
(* signature that is settled is of the pages on screen, of a failed render *)
(* or of files that cannot be imported, for any contents and any number of *)
(* writes, looks, builds, failed renders and crashes (builds/figure.py,    *)
(* engine.py): the watch overlooks no change a stat can show.              *)
THEOREM FilesAreAlwaysTold ==
  ASSUME NoneIsNoFile, PdfContents \subseteq Nat, MaxFileWrites \in Nat
  PROVE  Watched!Spec => []FilesAreTold
<1>1. Watched!Init => FilesInv
  BY FilesAtFirst
<1>2. FilesInv /\ [Watched!Next]_Watched!vars => FilesInv'
  BY FilesStay
<1>3. FilesInv => FilesAreTold
  <2> SUFFICES ASSUME FilesInv PROVE FilesAreTold
    OBVIOUS
  <2>1. Watched!TypeOK
    <3>1. \A l \in Watched!Lookers : look[l].pc \in {"idle", "stat", "due", "read", "open", "defer", "start"}
      BY DEF FilesInv, LookOk
    <3>2. spent.writes \in 0..MaxFileWrites /\ kind \in {"figure", "pdf"}
      BY DEF FilesInv, DiskTyped
    <3>3. /\ import.pc \in {"none", "map", "pdf", "sig", "stage", "render", "giveup", "settle"}
          /\ ~up => import = Watched!NoJob
      BY DEF FilesInv, ImportInv, Watched!NoJob
    <3>4. settled # None => settled.pdf \in Nat
      BY DEF FilesInv, SettledInv, Seen, FigureSigs
    <3> QED BY <3>1, <3>2, <3>3, <3>4 DEF Watched!TypeOK
  <2>2. Watched!PagesHoldOnePair
    BY DEF FilesInv, ShownInv, Watched!PagesHoldOnePair
  <2> QED BY <2>1, <2>2, NothingSwallowed DEF FilesAreTold, Watched!FilesAreTold
<1> QED BY <1>1, <1>2, <1>3, PTL DEF Watched!Spec
=============================================================================
