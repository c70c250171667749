SPECIFICATION Spec
CONSTANTS
    SurfaceOf <- MCSurfaceOf
    Clients = {"c", "d"}
    People = {"c"}
    Kinds = {"latex", "figure", "pdf"}
    Texts = {"a", "b", "x"}
    FirstLines <- MCFirstLines
    Words <- MCWords
    VerdictsMax = 2
    SuggestLinesMax = 1
    SuggestMax = 1
    RootOf <- MCRootOf
    Exact <- MCExact
    NewPins <- MCNewPins
    Changes <- MCChanges
    MaxAsked <- MCMaxAsked
    MaxWrites <- MCMaxWrites
    MaxWordWrites <- MCMaxWordWrites
    Warm = {"latex", "figure"}
    MaxBuilds <- MCMaxBuilds
    MaxTurns <- MCMaxTurns
INVARIANTS VerdictsAgree
PROPERTIES AcceptedStands
CHECK_DEADLOCK FALSE
