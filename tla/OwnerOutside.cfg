\* A nominee that has left accepts the transfer.
CONSTANTS
    Agents = {a1, a2, a3}
    Connections = {r1}
    Charters <- Hidden
    Requests = {"remove", "transfer", "decideTransfer"}
    NULL = NULL
SPECIFICATION Spec
SYMMETRY Symmetry
INVARIANTS OwnerIsMember
