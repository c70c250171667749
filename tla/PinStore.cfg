\* Requests, maintenance, crashes and I/O errors over an older directory whose
\* JSONL files both start with a line nobody can parse.
SPECIFICATION FairSpec
CONSTANTS
  Threads = {t1, t2}
  NoThread = NoThread
  MaxId = 2
  MaxRev = 2
  MaxClock = 1
  TrashTicks = 0
  MaxFaults = 2
  LegacyIds = {1}
  Unreadable = {"live", "trash"}
  SeqReadMayFail = FALSE
SYMMETRY Symmetry
INVARIANTS CopiesAreTrue NoAckedChangeLost IdsNeverReused Numbering
PROPERTIES FilesKeepTheirs MdCatchesUp ImplementsShelf
