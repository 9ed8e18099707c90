\* Abandoned claims, lost attempts, alerts and restarts under fairness; no symmetry with liveness.
CONSTANTS
    Agents = {a1, a2}
    Tasks = {t1}
    Messages = {m1}
    InProject = {t1}
    Keys = {}
    UpdateIds = {}
    Tokens = {k1, k2}
    NULL = NULL
    TaskLease = 1
    VerificationLease = 1
    AlertLease = 1
    MaxAttempts = 2
    MaxLag = 1
    MaxClaims = 1
    MaxCalls = 1
SPECIFICATION FairSpec
PROPERTIES AbandonedClaimEnds SubmittedIsDecidedOrAlerted
