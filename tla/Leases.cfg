\* Two agents; a unit of time is fifteen seconds and the times are those of the
\* code, but for what is cut off a stored time: a unit instead of a second.
CONSTANTS
    Agents = {a1, a2}
    Stranger = Stranger
    TaskLease = 20
    AttemptLease = 20
    Timeout = 4
    Ticker = 4
    Budget = 16
    Second = 2
SPECIFICATION LeaseSpec
SYMMETRY Symmetry
INVARIANTS WorkersStopWithTheClaim VerifiersStopWithTheAttempt
