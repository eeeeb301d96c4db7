\* Each part in turn; clients die anywhere.
SPECIFICATION Spec
CONSTANTS
    Parts = {"ledger", "undo", "grants", "index", "packs", "dag", "memory",
             "usage", "route", "credential", "migrate", "config", "doctor", "tab"}
    None = None
    Client = {c1, c2}
    One = o1
    Task = {k1, k2}
    Signature = {v1, v2}
    MaxIdentical = 2
    MaxRuns = 4
    Path = {k1, k2}
    Text = {v1, v2}
    MaxUndo = 2
    MaxWrites = 3
    Scope = {k1, k2}
    MaxGrants = 2
    File = {k1, k2}
    Dirs <- EachAlone
    MaxEdits = 2
    p1 = p1
    p2 = p2
    MaxLeft = 1
    Nodes <- ThreeNodes
    Unknown = "d"
    Session = {k1, k2}
    Word = {v1, v2}
    Limit = 1
    MaxFacts = 2
    HourLimit = 1
    MAX_BUCKETS = 1
    MaxEvents = 3
    MaxTiers = 3
    MaxNodes = 2
    MaxCalls = 3
    Token = {k1, k2}
    View = {spec, audit}
    AuditView = audit
INVARIANTS TypeOK AnswerExact UndoLeadsBack GrantsKept AnswerIsTheTree PacksStay DagIsFollowed RecallIsRight LimitAlmostHolds ReportAddsUp RouteFits OneCredential UpgradeIsWhole LaterLayerWins OperatorDecides SessionsApart
SYMMETRY AllSymmetry
CHECK_DEADLOCK FALSE
