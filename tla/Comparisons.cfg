\* Two requests, one slot, a window of five commits; HEAD, a folder or the pin
\* change twice in all, one git command fails.
SPECIFICATION Spec
CONSTANTS
    None = None
    NoPath = NoPath
    Context = 2
    Short = {}
    Commits = {1, 2, 3, 4, 5, 6, 7}
    Heads = {4, 5, 7}
    Touching = {1, 2, 3, 4, 5, 6, 7}
    Window = 5
    Recent = 3
    Fix = 3
    File = "ch1.tex"
    MaxTree = 6
    MaxOne = 3
    MaxFiles = 4
    Clients = {c1, c2}
    Slots = 1
    KeepScopes = 1
    MaxMoves = 2
    MaxFaults = 1
    MaxQueries = 2
    MaxEvents = 2
    Parents <- MCParents
    NumberOf <- MCNumberOf
    Repo <- MCRepo
    Folder <- MCFolder
    Scripts <- MCScripts
    Worked <- MCWorked
    Others <- MCOthers
    PinFacts <- MCPinFacts
    Trees <- MCTrees
    Queries <- MCQueries
SYMMETRY Symmetric
INVARIANTS AnswersHold PartsHold
CHECK_DEADLOCK FALSE
