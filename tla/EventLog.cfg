\* Two tabs, a log of two records, answers of one notice.
SPECIFICATION FairSpec
CONSTANTS
  Tabs = {tab1, tab2}
  Keep = 2
  Most = 1
  MaxSeq = 3
  MaxFaults = 1
INVARIANTS CursorHolds
PROPERTIES NoticesArrive
