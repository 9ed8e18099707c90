\* One state file, two agents, four keys, two overlapping requests, two
\* operator commands, two spellings of the base URL.
CONSTANTS
    Agents = {a1, a2}
    Creds = {c1, c2, c3, c4}
    Connections = {r1, r2}
    Updates = {u1, u2}
    Bases = {b1, b2}
    WritesAtStart = FALSE
    NULL = NULL
SPECIFICATION IdentitySpec
SYMMETRY Symmetry
INVARIANTS OneActiveKey RevokedForGood OnlyLossLocksOut
PROPERTY IdentityKept
\* Every agent and key of the instance is used up: nothing is left to do.
CHECK_DEADLOCK FALSE
