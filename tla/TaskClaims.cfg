\* Two agents race for one task: claims, takeovers, heartbeats, results.
CONSTANTS
    Agents = {a1, a2}
    Tasks = {t1}
    Messages = {m1, m2}
    InProject = {}
    Keys = {}
    UpdateIds = {}
    Tokens = {k1, k2}
    NULL = NULL
    TaskLease = 2
    VerificationLease = 1
    AlertLease = 1
    MaxAttempts = 1
    MaxLag = 2
    MaxClaims = 2
    MaxCalls = 1
SPECIFICATION Spec
SYMMETRY Symmetry
INVARIANTS TypeOK RowsAgree ResultFromLastClaim OneResultPerTask
PROPERTIES ImplementsBoard
