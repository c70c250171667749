SPECIFICATION Spec
CONSTANTS
    Listed = {"figure"}
    FloatKinds = {"figure"}
    Document = "document"
    NoWord = "none"
    LadderEnvs = 3
    Gap = 2
    Common = 1
    Drafts <- MCDrafts
    FollowedFiles <- MCFollowed
    Scripts <- MCScripts
    RawMaps <- MCRawMaps
    Drags <- MCDrags
    Boxes <- MCBoxes
    NewTexts <- MCNewTexts
    Home <- MCHome
    PinnedRel <- MCPinnedRel
    OtherRel <- MCOtherRel
    Roots <- MCRoots
    DocFolder <- MCDocFolder
    Decoy <- MCDecoy
    Private = {"hidden"}
    MaxEdits = 2
    MaxMoves = 2
    MaxChanges = 3
    MaxLen = 3
    Grid = 8
    MinSide = 2
    LadderMax = 2
    MaxDepth = 3
    MaxElements = 4
    NoParent = "none"
INVARIANTS RungsAreSound PinsKeepTheirPlace
PROPERTIES EditsLandOnSeenLines
CHECK_DEADLOCK FALSE
