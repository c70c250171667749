------------------------------ MODULE MCBuilds ------------------------------
(***************************************************************************)
(* The document whose pages are being made, for TLC: a LaTeX document      *)
(* (LatexBuild), or one whose files Limn watches, a figure or a view-only  *)
(* PDF (FigureImport).  part says which of them is served; the other stays *)
(* as it started.                                                          *)
(***************************************************************************)
EXTENDS LatexBuild

CONSTANTS broken, figured, PdfContents, MaxFileWrites, MaxCalls, MaxFileMishaps

TextsMC   == {broken, figured}
FiguredMC == {figured}
FaultyMC  == {broken}

VARIABLES part, kind, map, pdf, looks, settled, look, import, shown, failed,
          first, up, spent, unseen

Watched == INSTANCE FigureImport WITH
             Kinds <- {"figure", "pdf"}, Contents <- PdfContents,
             MaxWrites <- MaxFileWrites, MaxMishaps <- MaxFileMishaps,
             job <- import, used <- spent

fileVars == <<kind, map, pdf, looks, settled, look, import, shown, failed, first,
              up, spent, unseen>>
allVars == <<part, vars, fileVars>>

(* The part that is not served is in one state; what is watched is there.    *)
MCInit == /\ Init /\ Watched!Init
          /\ \/ part = "latex" /\ kind = "pdf" /\ pdf.is = "none"
             \/ part = "files" /\ man.text = figured /\ Watched!DiskReady

OfLatex == part = "latex" /\ UNCHANGED <<part, fileVars>>
OfFiles == part = "files" /\ UNCHANGED <<part, vars>>

MCNext ==
  \/ OfLatex /\ WriteText
  \/ OfLatex /\ TouchText
  \/ OfLatex /\ WriteFigure
  \/ OfLatex /\ MachineMoves
  \/ OfLatex /\ ReadSrcMtime
  \/ OfLatex /\ StoreSrcMtime
  \/ \E force \in BOOLEAN : OfLatex /\ BeginBuild(force)
  \/ OfLatex /\ ThreadDoesNotStart
  \/ OfLatex /\ Measure
  \/ OfLatex /\ Copy
  \/ OfLatex /\ CopyFails
  \/ OfLatex /\ SkipUnchanged
  \/ OfLatex /\ DecideToCompile
  \/ OfLatex /\ KeepBuild
  \/ OfLatex /\ LatexRuns
  \/ OfLatex /\ LatexFindsItUpToDate
  \/ OfLatex /\ LatexFails
  \/ OfLatex /\ Render
  \/ OfLatex /\ RenderFails
  \/ OfLatex /\ Swap
  \/ OfLatex /\ SwapFails
  \/ OfLatex /\ Expire
  \/ OfLatex /\ Prune
  \/ OfLatex /\ DatePages
  \/ OfLatex /\ WriteBaseline
  \/ OfLatex /\ Record
  \/ OfLatex /\ Crash
  \/ OfLatex /\ Restart
  \/ OfLatex /\ TabClaims
  \/ OfLatex /\ TabRefreshes
  \/ OfLatex /\ RefreshIsLost
  \/ OfFiles /\ Watched!WritePdf
  \/ OfFiles /\ Watched!WriteMap
  \/ OfFiles /\ Watched!FixMap
  \/ OfFiles /\ Watched!ChangePdfUnseen
  \/ \E l \in Watched!Lookers : OfFiles /\ Watched!BeginLook(l)
  \/ \E l \in Watched!Lookers : OfFiles /\ Watched!LookAtPdf(l)
  \/ \E l \in Watched!Lookers : OfFiles /\ Watched!Decide(l)
  \/ \E l \in Watched!Lookers : OfFiles /\ Watched!ReadMap(l)
  \/ \E l \in Watched!Lookers : OfFiles /\ Watched!ReadPdf(l)
  \/ \E l \in Watched!Lookers : OfFiles /\ Watched!Defer(l)
  \/ \E l \in Watched!Lookers : OfFiles /\ Watched!StartImport(l)
  \/ OfFiles /\ Watched!Rebuild
  \/ OfFiles /\ Watched!JobReadsMap
  \/ OfFiles /\ Watched!JobReadsPdf
  \/ OfFiles /\ Watched!JobSigns
  \/ OfFiles /\ Watched!JobStages
  \/ OfFiles /\ Watched!RenderFails
  \/ OfFiles /\ Watched!GiveUp
  \/ OfFiles /\ Watched!Show
  \/ OfFiles /\ Watched!ShowFails
  \/ OfFiles /\ Watched!SettleShown
  \/ OfFiles /\ Watched!Crash
  \/ OfFiles /\ Watched!Restart

(* Each part's fairness; only one part runs, so one condition holds two.   *)
Builds   == (OfLatex /\ Build) \/ (OfFiles /\ Watched!Job)
Restarts == (OfLatex /\ Restart) \/ (OfFiles /\ Watched!Restart)
Ticks    == (OfLatex /\ TabSteps) \/ (OfFiles /\ Watched!BeginLook("watch"))
Looks(l) == OfFiles /\ Watched!Look(l)

MCSpec == /\ MCInit /\ [][MCNext]_allVars
          /\ WF_allVars(Builds) /\ WF_allVars(Restarts) /\ WF_allVars(Ticks)
          /\ \A l \in Watched!Lookers : WF_allVars(Looks(l))

(* FigureImport's invariant, of the files here.                              *)
FilesAreTold == Watched!FilesAreTold

(* Builds end, tabs follow the screen, the pages follow the files, and the   *)
(* watch goes quiet, whatever was read half-written or interrupted before.   *)
WorkComesToAnEnd == BuildsEnd /\ Watched!WatchComesToRest
=============================================================================
