\* A LaTeX document: one write, three builds, one mishap.  A figure or a
\* view-only PDF: two writes, one call, one mishap.
SPECIFICATION MCSpec
CONSTANTS
  None = None
  broken = broken
  figured = figured
  Texts <- TextsMC
  Figured <- FiguredMC
  Faulty <- FaultyMC
  Unrecorded = {2}
  MaxWrites = 1
  MaxBuilds = 3
  MaxReads = 1
  MaxMishaps = 1
  PdfContents = {1, 2}
  MaxFileWrites = 2
  MaxCalls = 1
  MaxFileMishaps = 1
INVARIANTS PagesAreTold ReadersMeetScreen FilesAreTold
PROPERTIES ImplementsScreen WorkComesToAnEnd
CHECK_DEADLOCK FALSE
