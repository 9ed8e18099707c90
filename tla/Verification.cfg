\* Two tasks, one idempotency key, alerts and /retry; one attempt in a round.
CONSTANTS
    Agents = {a1, a2}
    Tasks = {t1, t2}
    Messages = {m1}
    InProject = {}
    Keys = {key1}
    UpdateIds = {u1}
    Tokens = {k1, k2}
    NULL = NULL
    TaskLease = 1
    VerificationLease = 1
    AlertLease = 1
    MaxAttempts = 1
    MaxLag = 1
    MaxClaims = 1
    MaxCalls = 1
SPECIFICATION Spec
SYMMETRY Symmetry
INVARIANTS DecidedByOneVerdict AttemptsAccounted SentMeansDelivered OneTaskPerKey
PROPERTIES LateAttemptsNeverCommit RetryOncePerUpdate
