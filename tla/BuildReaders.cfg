SPECIFICATION ReadersSpec
CONSTANTS
  None = None
  Kinds = {"latex", "figure", "pdf"}
  Texts = {1, 2}
  PagesOf <- Pages
  Second <- Seconds
  Starts = {"new", "legacy_edited"}
  Limits <- MCLimits
  MapCacheMax = 1
  MaxWrites = 1
INVARIANTS ReadsAreOfOneBuild BuildsStayApart
CHECK_DEADLOCK FALSE
