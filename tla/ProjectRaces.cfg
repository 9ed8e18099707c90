\* Two overlapping requests of every kind, two agents, every kind of charter.
CONSTANTS
    Agents = {a1, a2}
    Connections = {r1, r2}
    Charters <- Every
    Requests = {"invite", "apply", "decide", "remove", "setRole", "transfer", "decideTransfer"}
    NULL = NULL
SPECIFICATION Spec
SYMMETRY Symmetry
INVARIANTS ArchivedNotPending PendingHasNoAuthority
PROPERTIES NominationUsedOnce JoinsByConsent OwnerLetsGo
