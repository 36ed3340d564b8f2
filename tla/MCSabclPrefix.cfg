SPECIFICATION SealedCallsAlone
CONSTANTS
    Requests = {"r1"}
    MaxLogouts = 2
    Messages = {"m1", "m2"}
    Deliveries = {"d1", "d2", "d3"}
    MsgOf <- MCMsgOf
    Lag <- MCLag
    Direct = {"d2"}
    Permitted = {"m1"}
    Ttl = 1
    ClockSkew = 0
    RateLimit = 1
    Window = 2
    SharedPrefix = TRUE
    SabclTime = 3
    Keys = {"a", "b", "c"}
    Limit = 1
    Length = 2
    MaxEntries = 2
    RateTime = 3
    MaxRequests = 2
    MaxFacts = 3
    Controls = {"revoke", "ask"}
    Revokes = {"revoke"}
    StepUps = {"ask"}
    Applications = {"a1", "a2", "a3"}
    KeyOf <- MCKeyOf
    Releases = {"r1"}
    Evaluations = {"e1", "e2"}
    Calls = {"k1", "k2", "k3"}
    EvaluationOf <- MCEvaluationOf
    Scores = {0, 25}
    MaxTaken = 1
    MaxBegun = 3
    Lifetime = 1
    ControlTime = 1
    Events = {"t", "f"}
    TransferEvents = {"t"}
    Posts = {"d1", "d2", "d3"}
    EventOf <- MCEventOf
    SourceLimit = 2
    Period = 1
    EventTime = 2
    Tabs = {t1, t2}
    MaxSessions = 2
    OperatorTtl = 2
    OperatorTime = 3
    Services = {"ledger", "payments"}
    Operators = {"ann", "ben"}
    Scope <- MCScope
    Sets = {"b1", "b2"}
    Latest = {"r1"}
    Explicit <- MCExplicit
    Transfers = {"t"}
    BackupTime = 1
    MaxDamage = 1
    Exports = {"node"}
    MaxInits = 3
    MaxEdits = 3
    Order <- MCOrder
    Optional = {"router"}
INVARIANT ReplayedWasSeen
CHECK_DEADLOCK FALSE
