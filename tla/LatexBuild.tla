----------------------------- MODULE LatexBuild -----------------------------
(***************************************************************************)
(* The build of one LaTeX document (src/limn/builds): the manuscript is    *)
(* copied, a rebuild of an unchanged manuscript is skipped, latexmk runs   *)
(* on the byproducts the last build left, the pages are drawn into a new   *)
(* folder, the pointer pages.cur moves to it, and the outcome is written   *)
(* to built_src_mtime.txt, builds.json and the build state a tab polls.    *)
(* The manuscript, the toolchain and the figures of other documents change *)
(* at any moment; any write may fail and the process may be killed.        *)
(*                                                                         *)
(* Times: `now` counts the writes to the manuscript, so every write has an *)
(* mtime above those before it.  A page folder is the number of its name.  *)
(***************************************************************************)
EXTENDS Integers, FiniteSets, FiniteSetsExt, Functions

CONSTANTS None,         \* no value
          Texts,        \* what the .tex files may hold
          Figured,      \* the texts that include another document's figure
          Faulty,       \* the texts that leave LaTeX errors in the log
          Unrecorded,   \* the toolchains that run with the recorder off
          MaxWrites, MaxBuilds, MaxReads, MaxMishaps

ASSUME LatexBuildAssumption ==
  /\ Figured \subseteq Texts /\ Faulty \subseteq Texts
  /\ {MaxWrites, MaxBuilds, MaxReads, MaxMishaps} \subseteq Nat

VARIABLES
  man,      \* the manuscript: its text, the figure's version, their mtimes
  machine,  \* what latexmk does not track (tools) and files outside the copy
  warm,     \* the byproducts in the build copy, or None
  page,     \* the page folders, by name
  cur,      \* pages.cur
  bsm,      \* built_src_mtime.txt, or None
  hist,     \* builds.json: seq, last, and entries by folder
  bstate,   \* the build state GET /api/build answers, "down" without a process
  job,      \* the build that holds the document's lock, or None
  memo,     \* the src_mtime memo and a measurement in flight
  dpi,      \* the run's page resolution
  tab,      \* one browser tab: the seq it has claimed, the folder it shows, whether
            \* it is asking for the pages, and whether its last asking was lost
  used,     \* how often each bounded thing happened, and the folder names given
  before    \* the folder on screen before cur (no file holds it)

vars == <<man, machine, warm, page, cur, bsm, hist, bstate, job, memo, dpi, tab, used, before>>

Now == used.writes + 1
Folders == DOMAIN page
Up == bstate.state # "down"
Adding(f, x, v) == [y \in DOMAIN f \cup {x} |-> IF y = x THEN v ELSE f[y]]
Spend(what) == used' = [used EXCEPT ![what] = @ + 1]
MayFail == used.mishaps < MaxMishaps

-----------------------------------------------------------------------------
(* What latexmk makes, and what the build computes of its inputs *)

\* The pages a cold latexmk makes of copy c on machine m.
Cold(c, m) == [text |-> c.text, fig |-> IF c.text \in Figured THEN c.fig ELSE None, machine |-> m]

\* build_inputs: does the recorder file kept with folder f list the figure?
ReadsFigure(f) == f \in Folders /\ page[f].reads

\* source_fingerprint: a set-apart figure counts only when the build read it.
Fingerprint(c, reads) == [text |-> c.text, fig |-> IF reads THEN c.fig ELSE None]

\* src_mtime, measured against the build on screen.
SrcMtime == IF ReadsFigure(cur) THEN Max({man.textAt, man.figAt}) ELSE man.textAt

\* What the recorder and latexmk's database say this run read: with the recorder
\* off nothing is known, so the figure does not count.
BuildReads(c, rec) == rec /\ c.text \in Figured

\* cold_digest: the rc files, the tools and the side tools' styles.
ColdDigest(m) == m.tools

\* _reads_digest: the bytes read in the copy and the stat of files outside it.
ReadsDigest(c, reads, m) == [in |-> Fingerprint(c, reads), outside |-> m.outside]

\* scan_sources over the copy, with the mtimes of the source: newest_read_apart.
NewestRead(at, c, reads) == IF reads THEN Max({at, c.figAt}) ELSE at

\* cur_pages: what pages.cur names, when it is there.
CurPages == IF cur \in Folders THEN cur ELSE 0

-----------------------------------------------------------------------------
(* The world around the server *)

WriteText == /\ used.writes < MaxWrites
             /\ \E t \in Texts \ {man.text} :
                  man' = [man EXCEPT !.text = t, !.textAt = Now + 1]
             /\ Spend("writes")
             /\ UNCHANGED <<machine, warm, page, cur, bsm, hist, bstate, job, memo, dpi, tab, before>>

\* The same bytes with a new mtime: git checkout, touch.
TouchText == /\ used.writes < MaxWrites
             /\ man' = [man EXCEPT !.textAt = Now + 1]
             /\ Spend("writes")
             /\ UNCHANGED <<machine, warm, page, cur, bsm, hist, bstate, job, memo, dpi, tab, before>>

WriteFigure == /\ used.writes < MaxWrites
               /\ man' = [man EXCEPT !.fig = @ + 1, !.figAt = Now + 1]
               /\ Spend("writes")
               /\ UNCHANGED <<machine, warm, page, cur, bsm, hist, bstate, job, memo, dpi, tab, before>>

\* An rc file or a tool on PATH changes, or a style outside the copy.
MachineMoves == /\ MayFail
                /\ \E what \in {"tools", "outside"} : machine' = [machine EXCEPT ![what] = @ + 1]
                /\ Spend("mishaps")
                /\ UNCHANGED <<man, warm, page, cur, bsm, hist, bstate, job, memo, dpi, tab, before>>

-----------------------------------------------------------------------------
(* The src_mtime memo that request threads share *)

\* The memo's 2 seconds have passed: a reader starts to measure against the
\* build on screen.
ReadSrcMtime == /\ Up /\ memo.reader = None /\ used.reads < MaxReads
                /\ memo' = [memo EXCEPT !.reader = cur, !.late = FALSE]
                /\ Spend("reads")
                /\ UNCHANGED <<man, machine, warm, page, cur, bsm, hist, bstate, job, dpi, tab, before>>

\* A measurement is kept unless the screen moved since it began.
KeepSrcMtime(late) == ~late

StoreSrcMtime == /\ memo.reader # None
                 /\ memo' = [held |-> IF KeepSrcMtime(memo.late) THEN memo.reader ELSE memo.held,
                             reader |-> None, late |-> FALSE]
                 /\ UNCHANGED <<man, machine, warm, page, cur, bsm, hist, bstate, job, dpi, tab, used, before>>

ExpireSrcMtime == memo' = [memo EXCEPT !.held = None, !.late = memo.reader # None]

-----------------------------------------------------------------------------
(* One build: run_tracked around compile_tex *)

NoJob == [pc |-> "none"]

\* build_now or build_in_background: the lock is free and the state turns running.
BeginBuild(force) ==
  /\ Up /\ job = NoJob /\ used.builds < MaxBuilds
  /\ bstate' = [bstate EXCEPT !.state = "running", !.unchanged = FALSE]
  /\ job' = [pc |-> "measure", force |-> force, at |-> None]
  /\ Spend("builds")
  /\ UNCHANGED <<man, machine, warm, page, cur, bsm, hist, memo, dpi, tab, before>>

\* The outcome of a build: what compile_tex does on the way out, and where
\* run_tracked goes on.
Ends(res) == /\ job' = [pc |-> IF res \in {"ok", "ok_errors", "unchanged"} THEN "baseline" ELSE "record",
                        res |-> res, at |-> job.at,
                        new |-> IF res \in {"ok", "ok_errors"} THEN job.new ELSE None,
                        hash |-> IF res \in {"ok", "ok_errors"} THEN job.hash ELSE None]
             /\ warm' = IF res \in {"ok", "unchanged"} THEN warm ELSE None

\* Mutant: a thread that does not start only gives the lock back.
ThreadLost == /\ job.pc = "measure" /\ MayFail
              /\ job' = NoJob
              /\ Spend("mishaps")
              /\ UNCHANGED <<man, machine, warm, page, cur, bsm, hist, bstate, memo, dpi, tab, before>>

\* The thread cannot start: finish_crash records worker_crashed.
ThreadDoesNotStart == /\ job.pc = "measure" /\ MayFail
                      /\ job' = [pc |-> "record", res |-> "fail", at |-> None, new |-> None, hash |-> None]
                      /\ Spend("mishaps")
                      /\ UNCHANGED <<man, machine, warm, page, cur, bsm, hist, bstate, memo, dpi, tab, before>>

\* A forced build clears the byproducts; compiled_at is measured, which fills the memo.
Measure == /\ job.pc = "measure"
           /\ warm' = IF job.force THEN None ELSE warm
           /\ memo' = [memo EXCEPT !.held = cur]
           /\ job' = [job EXCEPT !.pc = "copy", !.at = SrcMtime]
           /\ UNCHANGED <<man, machine, page, cur, bsm, hist, bstate, dpi, tab, used, before>>

Copy == /\ job.pc = "copy"
        /\ job' = [pc |-> "decide", force |-> job.force, at |-> job.at, copy |-> man]
        /\ UNCHANGED <<man, machine, warm, page, cur, bsm, hist, bstate, memo, dpi, tab, used, before>>

CopyFails == /\ job.pc = "copy" /\ MayFail
             /\ Ends("fail")
             /\ Spend("mishaps")
             /\ UNCHANGED <<man, machine, page, cur, bsm, hist, bstate, memo, dpi, tab, before>>

Recorded(f) == f \in Folders /\ page[f].recipe.digest # None

\* The digest of what the build on screen read, made now over the new copy.
DigestNow == IF Recorded(cur) THEN ReadsDigest(job.copy, page[cur].reads, machine) ELSE None

\* recipe_matches and keeps_pages: may the rebuild be skipped?
RecipeHolds == /\ Recorded(cur)
               /\ page[cur].recipe = [dpi |-> dpi, cold |-> ColdDigest(machine), digest |-> DigestNow]

KeepsPages == /\ hist.last.state = "ok" /\ hist.last.build = cur
              /\ cur \in DOMAIN hist.by
              /\ hist.by[cur].hash = Fingerprint(job.copy, page[cur].reads)

GoesCold == cur \notin Folders \/ page[cur].recipe.cold # ColdDigest(machine)

\* Mutant: only unknown reads force the rules.
RerunUnknown == DigestNow = None

\* Is latexmk given -g?
Rerun == DigestNow = None \/ page[cur].recipe.digest # DigestNow

SkipUnchanged ==
  /\ job.pc = "decide" /\ ~job.force /\ RecipeHolds /\ KeepsPages
  /\ job' = [pc |-> "kept", at |-> NewestRead(job.at, job.copy, page[cur].reads),
             copy |-> job.copy, machine |-> machine]
  /\ UNCHANGED <<man, machine, warm, page, cur, bsm, hist, bstate, memo, dpi, tab, used, before>>

DecideToCompile ==
  /\ job.pc = "decide" /\ (job.force \/ ~RecipeHolds \/ ~KeepsPages)
  /\ warm' = IF ~job.force /\ GoesCold THEN None ELSE warm
  /\ job' = [pc |-> "latex", at |-> job.at, copy |-> job.copy, rerun |-> Rerun, machine |-> machine]
  /\ UNCHANGED <<man, machine, page, cur, bsm, hist, bstate, memo, dpi, tab, used, before>>

\* The skip still writes head.txt; a write that fails kills the build.
KeepBuild == /\ job.pc = "kept"
             /\ \/ Ends("unchanged") /\ UNCHANGED used
                \/ MayFail /\ Ends("fail") /\ Spend("mishaps")
             /\ UNCHANGED <<man, machine, page, cur, bsm, hist, bstate, memo, dpi, tab, before>>

\* latexmk meets byproducts it takes for up to date: they are, or the changed
\* files kept their size and second.  It does not look at the tools.
Vouched == warm # None /\ ~job.rerun /\ ~warm.errors

\* latexmk has to run its rules.
UpToDate == /\ Vouched
            /\ warm.made.text = job.copy.text
            /\ warm.made.machine.outside = machine.outside
            /\ warm.made.fig = Cold(job.copy, machine).fig

\* The byproducts and the PDF that latexmk leaves.
Compiled(made, reads, rec, left, old) ==
  [made |-> made, reads |-> reads, rec |-> rec, left |-> left, old |-> old, at |-> Now,
   errors |-> made.text \in Faulty]

LatexRuns == /\ job.pc = "latex" /\ ~UpToDate
             /\ LET rec == machine.tools \notin Unrecorded
                IN warm' = Compiled(Cold(job.copy, machine), BuildReads(job.copy, rec), rec, FALSE, FALSE)
             /\ job' = [job EXCEPT !.pc = "render"]
             /\ UNCHANGED <<man, machine, page, cur, bsm, hist, bstate, memo, dpi, tab, used, before>>

LatexFindsItUpToDate ==
  /\ job.pc = "latex" /\ Vouched
  /\ LET rec == warm.rec /\ Recorded(cur) /\ warm.reads = page[cur].reads  \* its .fls is the one on screen
     IN warm' = [warm EXCEPT !.rec = rec, !.reads = rec /\ @]
  /\ job' = [job EXCEPT !.pc = "render"]
  /\ UNCHANGED <<man, machine, page, cur, bsm, hist, bstate, memo, dpi, tab, used, before>>

\* A timeout, no PDF or no SyncTeX.
LatexFails == /\ job.pc = "latex" /\ MayFail
              /\ Ends("fail")
              /\ Spend("mishaps")
              /\ UNCHANGED <<man, machine, page, cur, bsm, hist, bstate, memo, dpi, tab, before>>

\* recipe.json: its digests are taken when the pages are drawn, after latexmk.
Recipe(c) == [dpi |-> dpi, cold |-> ColdDigest(machine),
              digest |-> IF warm.rec THEN ReadsDigest(c, warm.reads, machine) ELSE None]

\* _new_build_name: later than every name given before.
NewName == used.names + 1

\* The folder the pages of copy c are drawn into.
Drawn(c, stale) == [recipe |-> Recipe(c), made |-> warm.made, want |-> Cold(c, job.machine), reads |-> warm.reads,
                    pdfAt |-> warm.at, left |-> warm.left, stale |-> stale]

\* The pages are drawn into a hidden folder that gets its name, complete, in one rename.
Render ==
  /\ job.pc = "render"
  /\ LET stale == warm.old \/ job.machine # machine
     IN /\ page' = Adding(page, NewName, Drawn(job.copy, stale))
        /\ warm' = [warm EXCEPT !.old = stale]
  /\ job' = [pc |-> "swap", new |-> NewName, at |-> NewestRead(job.at, job.copy, warm.reads),
             hash |-> Fingerprint(job.copy, warm.reads)]
  /\ Spend("names")
  /\ UNCHANGED <<man, machine, cur, bsm, hist, bstate, memo, dpi, tab, before>>

\* A page cannot be drawn or a companion cannot be stored.
RenderFails == /\ job.pc = "render" /\ MayFail
               /\ Ends("fail")
               /\ Spend("mishaps")
               /\ UNCHANGED <<man, machine, page, cur, bsm, hist, bstate, memo, dpi, tab, before>>

\* commit_pages: pages.cur is replaced in one step, or not at all.
Swap == /\ job.pc = "swap"
        /\ cur' = job.new /\ before' = CurPages
        /\ job' = [job EXCEPT !.pc = "expire"]
        /\ UNCHANGED <<man, machine, warm, page, bsm, hist, bstate, memo, dpi, tab, used>>

SwapFails == /\ job.pc = "swap" /\ MayFail
             /\ Ends("fail")
             /\ Spend("mishaps")
             /\ UNCHANGED <<man, machine, page, cur, bsm, hist, bstate, memo, dpi, tab, before>>

Expire == /\ job.pc = "expire"
          /\ ExpireSrcMtime
          /\ job' = [job EXCEPT !.pc = "prune"]
          /\ UNCHANGED <<man, machine, warm, page, cur, bsm, hist, bstate, dpi, tab, used, before>>

\* Mutant: one generation too few.
KeptScreen == {cur}

Kept == {cur, before}

Prune == /\ job.pc = "prune"
         /\ page' = Restrict(page, Folders \cap Kept)
         /\ job' = [job EXCEPT !.pc = "date"]
         /\ UNCHANGED <<man, machine, warm, cur, bsm, hist, bstate, memo, dpi, tab, used, before>>

\* built_at.txt and head.txt; a failed write kills a build whose pages are shown.
DatePages == /\ job.pc = "date"
             /\ \/ Ends(IF warm.errors THEN "ok_errors" ELSE "ok") /\ UNCHANGED used
                \/ MayFail /\ Ends("fail") /\ Spend("mishaps")
             /\ UNCHANGED <<man, machine, page, cur, bsm, hist, bstate, memo, dpi, tab, before>>

\* write_built_src_mtime keeps a failed write to itself.
WriteBaseline == /\ job.pc = "baseline"
                 /\ \/ bsm' = job.at /\ UNCHANGED used
                    \/ MayFail /\ Spend("mishaps") /\ UNCHANGED bsm
                 /\ job' = [job EXCEPT !.pc = "record"]
                 /\ UNCHANGED <<man, machine, warm, page, cur, hist, bstate, memo, dpi, tab, before>>

\* Mutant: the count on disk alone.
NextSeqOnDisk == hist.seq + 1

\* record_build counts from the file and from memory.
NextSeq == Max({hist.seq, bstate.seq}) + 1

StateOf(res) == IF res = "unchanged" THEN "ok" ELSE res

\* record_build: a finished build becomes last, and a publication gets its entry.
Counted == [seq |-> NextSeq,
            last |-> [state |-> job.res, build |-> job.new],
            by |-> IF job.new = None THEN hist.by
                   ELSE Adding(hist.by, job.new, [at |-> job.at, hash |-> job.hash, guess |-> FALSE])]

\* confirm_build: only the kept build's baseline moves.
Confirmed == [hist EXCEPT !.by = [f \in DOMAIN @ |-> IF f = cur THEN [@[f] EXCEPT !.at = job.at] ELSE @[f]]]

\* finish_build or keep_build, and the lock goes back: a history that cannot be
\* written only warns.
Record == /\ job.pc = "record"
          /\ \/ /\ hist' = IF job.res = "unchanged" THEN Confirmed ELSE Counted
                /\ used' = [used EXCEPT !.unwritten = @ /\ job.res = "unchanged"]
             \/ /\ MayFail /\ UNCHANGED hist
                /\ used' = [used EXCEPT !.mishaps = @ + 1, !.unwritten = @ \/ job.res # "unchanged"]
          /\ bstate' = [state |-> StateOf(job.res), unchanged |-> job.res = "unchanged",
                        seq |-> IF job.res = "unchanged" THEN bstate.seq ELSE NextSeq]
          /\ job' = NoJob
          /\ UNCHANGED <<man, machine, warm, page, cur, bsm, memo, dpi, tab, before>>

-----------------------------------------------------------------------------
(* The process dies and starts again *)

\* A kill leaves the byproducts of a latexmk whose outcome nobody saw.
Crash == /\ Up /\ MayFail
         /\ bstate' = [state |-> "down", seq |-> 0, unchanged |-> FALSE]
         /\ job' = NoJob
         /\ memo' = [held |-> None, reader |-> None, late |-> FALSE]
         /\ warm' = IF warm # None /\ job.pc \in {"latex", "render", "swap", "expire", "prune", "date"}
                    THEN [warm EXCEPT !.left = TRUE] ELSE warm
         /\ used' = [used EXCEPT !.mishaps = @ + 1,
                                 !.lost = @ \/ used.unwritten
                                              \/ job.pc \in {"expire", "prune", "date", "baseline", "record"}]
         /\ UNCHANGED <<man, machine, page, cur, bsm, hist, dpi, tab, before>>

\* What a restart adopts the pages by: the baseline, else the PDF's time.
SeedReference == IF bsm # None THEN bsm ELSE page[cur].pdfAt

\* seed_builds: the build on screen joins the history once; the manuscript as it
\* is now is taken for its own when nothing in it is newer than that build.
Seeded == IF cur \in Folders /\ cur \notin DOMAIN hist.by
          THEN LET same == SrcMtime <= SeedReference
               IN [hist EXCEPT !.by = Adding(@, cur, [guess |-> same /\ bsm = None,
                                                      hash |-> IF same THEN Fingerprint(man, page[cur].reads) ELSE None,
                                                      at |-> IF bsm # None THEN bsm
                                                             ELSE IF same THEN SrcMtime ELSE None])]
          ELSE hist

\* _restored_last: the state of the last finished build; the seq is the file's.
Restored == [state |-> hist.last.state, seq |-> hist.seq, unchanged |-> FALSE]

Restart == /\ ~Up
           /\ \E d \in {1, 2} : dpi' = d
           /\ hist' = Seeded
           /\ bstate' = Restored
           /\ UNCHANGED <<man, machine, warm, page, cur, bsm, job, memo, tab, used, before>>

-----------------------------------------------------------------------------
(* A browser tab: it asks for the pages once for every seq it has not seen *)

\* pollBuildOnce: the seq is claimed before the pages are asked for, so that no
\* completion is handled twice; pollBuild is single-flight until the refresh ends.
TabClaims == /\ Up /\ bstate.state # "running" /\ tab.seq # bstate.seq /\ ~tab.asking
             /\ tab' = [tab EXCEPT !.seq = bstate.seq, !.asking = TRUE, !.missed = FALSE]
             /\ UNCHANGED <<man, machine, warm, page, cur, bsm, hist, bstate, job, memo, dpi, used, before>>

\* refreshDoc: GET /api/meta is answered with the pages as they are by then.  (An
\* answer that stays on its way meets nothing of the tab's: it shows what was read.)
TabRefreshes == /\ Up /\ tab.asking
                /\ tab' = [tab EXCEPT !.shown = CurPages, !.asking = FALSE]
                /\ UNCHANGED <<man, machine, warm, page, cur, bsm, hist, bstate, job, memo, dpi, used, before>>

\* The request or its answer is lost.  The failure is swallowed and the seq stays
\* claimed: nothing is asked again until another build is counted.
RefreshIsLost == /\ tab.asking
                 /\ IF Up THEN MayFail /\ Spend("mishaps") ELSE UNCHANGED used
                 /\ tab' = [tab EXCEPT !.asking = FALSE, !.missed = TRUE]
                 /\ UNCHANGED <<man, machine, warm, page, cur, bsm, hist, bstate, job, memo, dpi, before>>

TabSteps == TabClaims \/ TabRefreshes

-----------------------------------------------------------------------------
\* load_builds on a missing or broken file.
EmptyBuilds == [seq |-> 0, last |-> [state |-> "idle", build |-> None], by |-> <<>>]

Init ==
  /\ man \in [text : Texts, textAt : {1}, fig : {1}, figAt : {1}]
  /\ machine = [tools |-> 1, outside |-> 1]
  /\ warm = None /\ page = <<>> /\ cur = 0 /\ bsm = None /\ before = 0
  /\ hist = EmptyBuilds
  /\ bstate = [state |-> "idle", seq |-> 0, unchanged |-> FALSE]
  /\ job = NoJob
  /\ memo = [held |-> None, reader |-> None, late |-> FALSE]
  /\ dpi = 1
  /\ tab = [seq |-> 0, shown |-> 0, asking |-> FALSE, missed |-> FALSE]
  /\ used = [writes |-> 0, names |-> 0, builds |-> 0, reads |-> 0, mishaps |-> 0,
             unwritten |-> FALSE, lost |-> FALSE]

Build == \/ ThreadDoesNotStart \/ Measure \/ Copy \/ CopyFails \/ SkipUnchanged \/ DecideToCompile \/ KeepBuild
         \/ LatexRuns \/ LatexFindsItUpToDate \/ LatexFails \/ Render \/ RenderFails \/ Swap \/ SwapFails
         \/ Expire \/ Prune \/ DatePages \/ WriteBaseline \/ Record

Next == \/ WriteText \/ TouchText \/ WriteFigure \/ MachineMoves
        \/ ReadSrcMtime \/ StoreSrcMtime
        \/ \E force \in BOOLEAN : BeginBuild(force)
        \/ Build \/ Crash \/ Restart \/ TabSteps \/ RefreshIsLost

\* A build that began goes on (its thread runs), a killed server is started
\* again, and a tab on screen keeps polling.
Fairness == WF_vars(Build) /\ WF_vars(Restart) /\ WF_vars(TabSteps)

Spec == Init /\ [][Next]_vars /\ Fairness

-----------------------------------------------------------------------------
(* Properties *)

\* The parts of the state keep their shapes, and the screen names a folder that
\* is there (cur_pages never has to fall back once pages were shown).
TypeOK == /\ cur \in Folders \cup {0} /\ Folders \subseteq 1..used.names
          /\ bstate.state \in {"idle", "running", "ok", "ok_errors", "fail", "down"}
          /\ (job # NoJob) => (bstate.state = "running")
          /\ hist.seq \in Nat /\ DOMAIN hist.by \subseteq 1..MaxBuilds
          /\ tab.shown \in 0..MaxBuilds

\* Pages made on kept byproducts are the pages a cold build of the same copy
\* would have made: byproducts that may not meet this run were cleared, or -g
\* made latexmk run its rules (warm.py, engine.py:490-527).  Pages drawn from
\* what a killed build left, and rebuilds of a build during which the machine
\* changed, are not covered.
WarmMeansCold == \A f \in Folders : page[f].left \/ page[f].stale \/ page[f].made = page[f].want

\* A rebuild that keeps the pages keeps what this build would make
\* (engine.py:486-489), with the same two exceptions.
SkipIsSound == job.pc = "kept" => \/ page[cur].left \/ page[cur].stale
                                  \/ page[cur].made = Cold(job.copy, job.machine)

\* The two together: the pages on screen are the ones this build would make.
PagesAreTrue == WarmMeansCold /\ SkipIsSound

\* The fingerprint builds.json holds for a folder is the one of the manuscript
\* its pages came from, whether the build wrote it or a restart adopted it.
\* The guess a restart makes when no baseline was ever written is not covered.
HashTellsPages ==
  \A f \in Folders \cap DOMAIN hist.by :
    LET hash == hist.by[f].hash
    IN hash # None /\ ~hist.by[f].guess
         => /\ hash.text = page[f].want.text
            /\ page[f].reads => hash.fig = page[f].want.fig

\* The src_mtime memo holds a measurement against the build on screen: one that
\* began before the screen moved is never stored after it (expire_src_mtime).
MemoIsAboutScreen == memo.held # None /\ job.pc # "expire" => memo.held = cur

\* Two finished builds with different pages never carry one seq: a tab that has
\* claimed the seq it is told shows the pages on screen, or has asked for them and
\* waits, or lost the one refresh it asks for that seq (build-chip.js swallows its
\* failure).  What a crash cost the history (an unwritten builds.json, pages swapped
\* but not recorded) is not covered.
SeqTellsScreen == Up /\ bstate.state # "running" /\ tab.seq = bstate.seq /\ ~used.lost
                    => tab.asking \/ tab.missed \/ tab.shown = cur

\* A build is not running for ever: again and again its lock is back and the state
\* says how it ended, also when the thread never started (run.py:84-134).
RunningEnds == []<>(bstate.state # "running" /\ job = NoJob)

\* A tab ends up on the pages on screen, whatever it missed of earlier builds; only
\* a refresh lost for the last build that was counted leaves it where it was.
TabFollows == <>[](used.lost \/ tab.missed \/ tab.shown = cur)

\* Builds end and tabs follow: what a reader is owed once the edits stop.
BuildsEnd == RunningEnds /\ TabFollows

Abstract == INSTANCE Screen WITH shown <- cur, previous <- before, available <- Folders

\* The screen promises of Screen: whole new folders, one move at a time, the
\* folder shown before kept until the next move.
ImplementsScreen == Abstract!Spec

\* Together: the pages, and the hash recorded for them, are of one manuscript.
PagesAreTold == TypeOK /\ PagesAreTrue /\ HashTellsPages

\* Together: what others are told of the build on screen is of that build.
ReadersMeetScreen == MemoIsAboutScreen /\ SeqTellsScreen
=============================================================================
