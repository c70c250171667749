---------------------------- MODULE FigureImport ----------------------------
(***************************************************************************)
(* The documents whose files Limn watches (src/limn/builds/figure.py, the  *)
(* view-only half of engine.py, the watch of service.py): a figure, whose  *)
(* program writes a PDF and an element map naming that PDF by its hash,    *)
(* and a view-only PDF.  A look compares what is on disk with the settled  *)
(* signature, reads the files, and either settles a deferral or starts a   *)
(* build that settles once its pages are shown.  The program that writes   *)
(* the files stops nowhere in particular; the watch, an agent's close and  *)
(* a rebuild call look at the same files at once.                          *)
(*                                                                         *)
(* A stat is a number, fresh for every write that moves (mtime, size,      *)
(* inode); what the map's PDF name resolves to is the file `pdf`.          *)
(***************************************************************************)
EXTENDS Integers, FiniteSets

CONSTANTS None,       \* no value
          Kinds,      \* "figure" and "pdf": which watched document this is
          Contents,   \* what the PDF may hold, numbers from 1
          MaxWrites, MaxCalls, MaxMishaps  \* bounds

VARIABLES
  kind,     \* which kind of document this is
  map,      \* the element map: its stat, whether it parses, the PDF content it is for
  pdf,      \* the PDF: "file", "locked" (no one may open it), "big" or "none", content, stat
  looks,    \* MapLooks: the last map signature parsed, and whether it named a PDF
  settled,  \* pdf_sig.txt
  look,     \* what each looker is doing
  job,      \* the build that holds the document's lock, or NoJob
  shown,    \* the pages on screen: the map and PDF content they were made of
  failed,   \* the signatures settled by a failed render
  first,    \* the next look of the watch is startup's
  up,       \* the server runs
  used,     \* how often each bounded thing happened
  unseen    \* a PDF changed and no signature moved; a lost settle met a newer one

vars == <<kind, map, pdf, looks, settled, look, job, shown, failed, first, up, used, unseen>>
files == <<map, pdf>>

Lookers == {"watch", "agent"}
Idle == [pc |-> "idle"]
NoJob == [pc |-> "none"]
MayFail == used.mishaps < MaxMishaps
Spend(what) == used' = [used EXCEPT ![what] = @ + 1]
NoFile == 0

\* Mutant: the stat of the map alone.
StatSignature(m) == [m EXCEPT !.sha = 1, !.good = TRUE]

\* map_signature: the stat and the digest of the bytes read.
MapSignature(m) == m

\* _file_signature: the stat of the regular file the map's name leads to, if any.
FileSignature(p) == IF p.is = "none" THEN NoFile ELSE p.stat

\* _pair_signature; a rejected map names no PDF.
PairSignature(m, pdfSig) == [map |-> MapSignature(m), pdf |-> pdfSig]

\* What watch_signature, or pdf_signature, answers for the files as they are.
DiskSignature ==
  IF kind = "pdf" THEN IF pdf.is = "none" THEN None ELSE [map |-> None, pdf |-> pdf.stat]
  ELSE IF map = None THEN None
  ELSE PairSignature(map, IF map.good THEN FileSignature(pdf) ELSE NoFile)

\* accept_pdf: the PDF bytes are the ones the map describes.
AcceptPdf(m, content) == m.sha = content

-----------------------------------------------------------------------------
(* The program that makes the files *)

Fresh == used.writes + 2

\* A new PDF, put in place by a rename or written over the old one.
WritePdf == /\ used.writes < MaxWrites
            /\ \E c \in Contents, is \in {"file", "locked", "big", "none"} :
                 /\ is \in {"locked", "none"} => c = 1   \* nobody reads it
                 /\ pdf' = [is |-> is, content |-> c, stat |-> IF is = "none" THEN NoFile ELSE Fresh]
            /\ Spend("writes")
            /\ UNCHANGED <<kind, map, looks, settled, look, job, shown, failed, first, up, unseen>>

WriteMap == /\ kind = "figure" /\ used.writes < MaxWrites
            /\ \/ map' = None
               \/ \E good \in BOOLEAN, c \in Contents : /\ ~good => c = 1   \* it names no PDF
                                                 /\ map' = [stat |-> Fresh, good |-> good, sha |-> c]
            /\ Spend("writes")
            /\ UNCHANGED <<kind, pdf, looks, settled, look, job, shown, failed, first, up, unseen>>

\* The program corrects the map right after it wrote it: the stat is kept.
FixMap == /\ kind = "figure" /\ used.writes < MaxWrites /\ map # None
          /\ \E c \in Contents : c >= map.sha /\ map' = [map EXCEPT !.sha = c, !.good = TRUE]
          /\ map' # map
          /\ Spend("writes")
          /\ UNCHANGED <<kind, pdf, looks, settled, look, job, shown, failed, first, up, unseen>>

\* The PDF is overwritten in place within one tick, or becomes readable, and its
\* stat stays: no signature can tell.
ChangePdfUnseen == /\ MayFail /\ pdf.is # "none"
                   /\ \E c \in Contents : pdf' = [pdf EXCEPT !.is = "file", !.content = c]
                   /\ pdf' # pdf
                   /\ unseen' = [unseen EXCEPT !.pdf = TRUE]
                   /\ Spend("mishaps")
                   /\ UNCHANGED <<kind, map, looks, settled, look, job, shown, failed, first, up>>

-----------------------------------------------------------------------------
(* A look: the watch's tick, startup's look, or an agent's close *)

Goto(l, state) == look' = [look EXCEPT ![l] = state]

\* looks.recall, and the parse when nothing is remembered.
Recall(m) == IF looks.sig = MapSignature(m) THEN looks.named ELSE m.good

Remember(m, named) == looks' = [sig |-> MapSignature(m), named |-> named]

\* While the document is building the watch looks at nothing; a close waits.
BeginLook(l) ==
  /\ up /\ look[l] = Idle /\ job = NoJob
  /\ (l = "agent") => (used.calls < MaxCalls /\ ~first)
  /\ used' = IF l = "agent" THEN [used EXCEPT !.calls = @ + 1] ELSE used
  /\ IF kind = "pdf"
     THEN /\ Goto(l, IF pdf.is = "none" THEN Idle
                     ELSE [pc |-> "due", now |-> DiskSignature])
          /\ UNCHANGED looks
     ELSE IF map = None
     THEN Goto(l, Idle) /\ UNCHANGED looks
     ELSE /\ Remember(map, Recall(map))
          /\ Goto(l, [pc |-> "stat", map |-> map, named |-> Recall(map)])
  /\ first' = IF l = "watch" /\ look'[l] = Idle THEN FALSE ELSE first
  /\ UNCHANGED <<kind, files, settled, job, shown, failed, up, unseen>>

\* watch_signature resolves and stats the PDF anew, whatever the memo holds.
LookAtPdf(l) ==
  /\ look[l].pc = "stat"
  /\ Goto(l, [pc |-> "due", now |-> PairSignature(look[l].map,
                                                  IF look[l].named THEN FileSignature(pdf) ELSE NoFile)])
  /\ UNCHANGED <<kind, files, looks, settled, job, shown, failed, first, up, used, unseen>>

\* import_due, needs_build and pdf_changed.
ImportDue(now, missing) == now # settled \/ missing

Decide(l) ==
  /\ look[l].pc = "due"
  /\ LET missing == l = "watch" /\ first /\ shown = None
     IN Goto(l, IF ~ImportDue(look[l].now, missing) THEN Idle
                ELSE IF kind = "pdf" THEN [pc |-> "start", ready |-> None]
                ELSE [pc |-> "read"])
  /\ first' = IF l = "watch" THEN FALSE ELSE first
  /\ UNCHANGED <<kind, files, looks, settled, job, shown, failed, up, used, unseen>>

\* read_figure_import reads the map again, and stats the PDF before it opens it.
ReadMap(l) ==
  /\ look[l].pc = "read"
  /\ IF map = None
     THEN Goto(l, Idle) /\ UNCHANGED looks
     ELSE /\ Remember(map, map.good)
          /\ Goto(l, IF map.good /\ pdf.is # "none" THEN [pc |-> "open", map |-> map, seen |-> FileSignature(pdf)]
                     ELSE [pc |-> "defer", sig |-> PairSignature(map, NoFile)])
  /\ UNCHANGED <<kind, files, settled, job, shown, failed, first, up, used, unseen>>

\* The deferral of a PDF that was read (too large, not the map's) has that
\* read's stat; of one that could not be opened, the stat taken before.
DeferralSignature(m, seen) == PairSignature(m, IF pdf.is \in {"file", "big"} THEN pdf.stat ELSE seen)

\* The pair is verified from the bytes of the two reads.
Verified(m) == pdf.is = "file" /\ AcceptPdf(m, pdf.content)

ReadPdf(l) ==
  /\ look[l].pc = "open"
  /\ LET m == look[l].map
     IN Goto(l, IF Verified(m)
                THEN [pc |-> "start", ready |-> [map |-> m, content |-> pdf.content, sig |-> PairSignature(m, pdf.stat)]]
                ELSE [pc |-> "defer", sig |-> DeferralSignature(m, look[l].seen)])
  /\ UNCHANGED <<kind, files, looks, settled, job, shown, failed, first, up, used, unseen>>

\* settle keeps a failed write to itself.
Settle(sig) == \/ settled' = sig /\ UNCHANGED used
               \/ MayFail /\ Spend("mishaps") /\ UNCHANGED settled

Defer(l) == /\ look[l].pc = "defer"
            /\ Settle(look[l].sig)
            /\ Goto(l, Idle)
            /\ UNCHANGED <<kind, files, looks, job, shown, failed, first, up, unseen>>

\* build_in_background, or build_now at startup: a busy document settles nothing.
StartImport(l) ==
  /\ look[l].pc = "start"
  /\ job' = IF job # NoJob THEN job
            ELSE IF kind = "pdf" THEN [pc |-> "sig"]
            ELSE [pc |-> "render", ready |-> look[l].ready]
  /\ Goto(l, Idle)
  /\ UNCHANGED <<kind, files, looks, settled, shown, failed, first, up, used, unseen>>

Look(l) == LookAtPdf(l) \/ Decide(l) \/ ReadMap(l) \/ ReadPdf(l) \/ Defer(l) \/ StartImport(l)

-----------------------------------------------------------------------------
(* The tracked build of a watched document *)

\* POST /api/rebuild: a view-only PDF has none; a figure reads its files itself.
Rebuild == /\ up /\ kind = "figure" /\ job = NoJob /\ used.calls < MaxCalls
           /\ job' = [pc |-> "map"]
           /\ Spend("calls")
           /\ UNCHANGED <<kind, files, looks, settled, look, shown, failed, first, up, unseen>>

\* import_now without a pair: files that do not agree abort, and settle nothing.
JobReadsMap == /\ job.pc = "map"
               /\ job' = IF map = None \/ ~map.good THEN NoJob ELSE [pc |-> "pdf", map |-> map]
               /\ UNCHANGED <<kind, files, looks, settled, look, shown, failed, first, up, used, unseen>>

JobReadsPdf == /\ job.pc = "pdf"
               /\ job' = IF Verified(job.map)
                         THEN [pc |-> "render",
                               ready |-> [map |-> job.map, content |-> pdf.content, sig |-> PairSignature(job.map, pdf.stat)]]
                         ELSE NoJob
               /\ UNCHANGED <<kind, files, looks, settled, look, shown, failed, first, up, used, unseen>>

\* render_pdf_doc takes the signature; a missing PDF aborts.
JobSigns == /\ job.pc = "sig"
            /\ job' = IF pdf.is = "none" THEN NoJob ELSE [pc |-> "stage", sig |-> DiskSignature]
            /\ UNCHANGED <<kind, files, looks, settled, look, shown, failed, first, up, used, unseen>>

\* _stage_pdf: the signature comes from the descriptor that was copied.
SnapshotSignature == [map |-> None, pdf |-> pdf.stat]

JobStages == /\ job.pc = "stage"
             /\ job' = IF pdf.is \in {"file", "big"}
                       THEN [pc |-> "render", ready |-> [map |-> None, content |-> pdf.content, sig |-> SnapshotSignature]]
                       ELSE [pc |-> "giveup", sig |-> job.sig]
             /\ UNCHANGED <<kind, files, looks, settled, look, shown, failed, first, up, used, unseen>>

\* A page cannot be drawn, or a file cannot be stored.
RenderFails == /\ job.pc = "render" /\ MayFail
               /\ job' = [pc |-> "giveup", sig |-> job.ready.sig]
               /\ Spend("mishaps")
               /\ UNCHANGED <<kind, files, looks, settled, look, shown, failed, first, up, unseen>>

\* The failed version is settled: it is retried only when a file changes.
GiveUp == /\ job.pc = "giveup"
          /\ Settle(job.sig)
          /\ failed' = failed \cup {job.sig}
          /\ job' = NoJob
          /\ UNCHANGED <<kind, files, looks, look, shown, first, up, unseen>>

\* render_pages and commit_pages: the page folder holds the copies that were
\* checked, and the pointer moves to it.
Show == /\ job.pc = "render"
        /\ shown' = [map |-> job.ready.map, content |-> job.ready.content]
        /\ job' = [pc |-> "settle", sig |-> job.ready.sig]
        /\ UNCHANGED <<kind, files, looks, settled, look, failed, first, up, used, unseen>>

\* pages.cur cannot be written: an unexpected error, and nothing is settled.
ShowFails == /\ job.pc = "render" /\ MayFail
             /\ job' = NoJob
             /\ Spend("mishaps")
             /\ UNCHANGED <<kind, files, looks, settled, look, shown, failed, first, up, unseen>>

\* The pages on screen are settled by no one while pdf_sig.txt holds another
\* build's signature, which is what is on disk.
Overtaken == settled # None /\ settled # job.sig /\ settled = DiskSignature

SettleShown == /\ job.pc = "settle"
               /\ Settle(job.sig)
               /\ unseen' = [unseen EXCEPT !.lost = @ \/ (settled' # job.sig /\ Overtaken)]
               /\ job' = NoJob
               /\ UNCHANGED <<kind, files, looks, look, shown, failed, first, up>>

Job == \/ JobReadsMap \/ JobReadsPdf \/ JobSigns \/ JobStages \/ RenderFails \/ GiveUp \/ Show \/ ShowFails
       \/ SettleShown

-----------------------------------------------------------------------------
\* The memo of maps, the locks and every look die with the process.
Crash == /\ up /\ MayFail
         /\ up' = FALSE
         /\ look' = [l \in Lookers |-> Idle]
         /\ looks' = [sig |-> None, named |-> FALSE]
         /\ unseen' = [unseen EXCEPT !.lost = @ \/ (job.pc = "settle" /\ Overtaken)]
         /\ job' = NoJob
         /\ Spend("mishaps")
         /\ UNCHANGED <<kind, files, settled, shown, failed, first>>

Restart == /\ ~up
           /\ up' = TRUE /\ first' = TRUE
           /\ UNCHANGED <<kind, files, looks, settled, look, job, shown, failed, used, unseen>>

Init == /\ kind \in Kinds
        /\ map \in {None} \cup [stat : {1}, good : {TRUE}, sha : {1}]
        /\ pdf \in [is : {"none"}, content : {1}, stat : {NoFile}] \cup [is : {"file"}, content : {1}, stat : {1}]
        /\ (kind = "pdf" \/ pdf.is = "none") => map = None
        /\ looks = [sig |-> None, named |-> FALSE]
        /\ settled = None
        /\ look = [l \in Lookers |-> Idle]
        /\ job = NoJob
        /\ shown = None /\ failed = {}
        /\ first = TRUE /\ up = TRUE
        /\ used = [writes |-> 0, calls |-> 0, mishaps |-> 0]
        /\ unseen = [pdf |-> FALSE, lost |-> FALSE]

Next == \/ WritePdf \/ WriteMap \/ FixMap \/ ChangePdfUnseen
        \/ \E l \in Lookers : BeginLook(l) \/ Look(l)
        \/ Rebuild \/ Job
        \/ Crash \/ Restart

\* The watch ticks for ever, a look and a build that began go on, and a killed
\* server is started again.
Fairness == /\ WF_vars(BeginLook("watch"))
            /\ \A l \in Lookers : WF_vars(Look(l))
            /\ WF_vars(Job) /\ WF_vars(Restart)

Spec == Init /\ [][Next]_vars /\ Fairness

-----------------------------------------------------------------------------
(* Properties *)

TypeOK == /\ kind \in Kinds /\ used.writes \in 0..MaxWrites
          /\ \A l \in Lookers : look[l].pc \in {"idle", "stat", "due", "read", "open", "defer", "start"}
          /\ job.pc \in {"none", "map", "pdf", "sig", "stage", "render", "giveup", "settle"}
          /\ (~up) => (job = NoJob)
          /\ settled # None => settled.pdf \in Nat

\* The map published with a figure's pages describes the PDF they were drawn
\* from, although the two were read at different moments and written by a
\* program that never stopped.
PagesHoldOnePair == kind = "figure" /\ shown # None => shown.map.sha = shown.content

DiskReady == IF kind = "pdf" THEN pdf.is \in {"file", "big"}
             ELSE map # None /\ map.good /\ pdf.is = "file" /\ AcceptPdf(map, pdf.content)

ShowsDisk == shown # None /\ shown.content = pdf.content /\ (kind = "figure" => shown.map = map)

\* Once a signature is settled the watch does not look again.  So when it is the
\* signature of files that can be imported, their pages are on screen or their
\* render failed.  Not covered: a PDF changed without its stat (figure.py:194-196).
NoChangeSwallowed == settled # None /\ settled = DiskSignature /\ DiskReady /\ job = NoJob
                       => ShowsDisk \/ settled \in failed \/ unseen.pdf \/ unseen.lost

\* When the program has stopped with files that agree, the pages end up being
\* theirs, whatever was read half-written before.
PagesFollowFiles == <>[](DiskReady => ShowsDisk \/ DiskSignature \in failed \/ unseen.pdf \/ unseen.lost)

\* When the files stop changing the watch stops building: what it settles is
\* what its next tick computes, after a deferral too.
WatchGoesQuiet == <>[](job = NoJob /\ \A l \in Lookers : look[l].pc \in {"idle", "stat", "due"})

\* Together: the pages are of one map and PDF, and of the last ones settled.
FilesAreTold == TypeOK /\ PagesHoldOnePair /\ NoChangeSwallowed

\* Together: once the files rest, the pages are theirs and the watch is quiet.
WatchComesToRest == PagesFollowFiles /\ WatchGoesQuiet
=============================================================================
