SPECIFICATION Spec
CONSTANTS
    Logins = {"ana", "bo"}
    Tokens = {"t1", "t2", "t3"}
    Saved = {"t1"}
    NoOne = "none"
    LoopbackNames = {"localhost", "127.0.0.1"}
    TsNetNames = {"paper.ts.net"}
    ThisMachine = "127.0.0.1"
    NoName = ""
    Malformed = "malformed"
    Owner = "owner"
    LocalAgent = "local"
    NoRole = "no role"
    Settings <- MCSettings
    Requests <- MCRequests
    Listed <- MCListed
    MemberSteps <- MCMemberSteps
    TokenSteps <- MCTokenSteps
    Conns = {c1, c2}
    Shells = {k1, k2}
    MaxRequests = 2
    MaxCommands = 2
    MaxFaults = 1
    MaxBreaks = 1
    MaxEvents = 3
SYMMETRY Symmetric
INVARIANTS AnswersAreCurrent RequestsStayApart RecordsHold
CHECK_DEADLOCK FALSE
