----------------------------- MODULE RateLimiter -----------------------------
(***************************************************************************)
(* The limiter of httpapi/ratelimit.go: a counter for each key that has    *)
(* come, dropped by a sweep that runs at most once in a window, and only   *)
(* when somebody comes.  allow holds the mutex from end to end, so it is   *)
(* one step.  Time passes in ticks, any number of requests in each; the    *)
(* wait for the mutex, between reading the clock and counting, is taken to *)
(* be shorter than a tick.                                                 *)
(***************************************************************************)
EXTENDS Naturals

CONSTANTS
    Keys,         \* client addresses, or agents
    MaxRequests,  \* requests a window lets pass
    Window,       \* ticks from the first request of a window to its resetAt
    MaxTime       \* bound: ticks

ASSUME LimiterAssumption ==
    MaxRequests \in Nat \ {0} /\ Window \in Nat \ {0} /\ MaxTime \in Nat

VARIABLES
    now,
    counters,   \* the map, a function on the keys in it
    nextSweep,
    passed      \* requests of each key let pass so far

vars == <<now, counters, nextSweep, passed>>

Init ==
    /\ now = 0
    /\ counters = [k \in {} |-> [n |-> 0, resetAt |-> 0]]
    /\ nextSweep = 0
    /\ passed = [k \in Keys |-> 0]

Over(c) == now > c.resetAt

\* Mutant: the sweep forgets every counter.
SweptAll == IF now > nextSweep THEN [k \in {} |-> counters[k]] ELSE counters

\* Mutant: nothing is ever dropped.
SweptNone == counters

\* The map after the sweep.
Swept ==
    IF now > nextSweep
    THEN [k \in {k \in DOMAIN counters : ~Over(counters[k])} |-> counters[k]]
    ELSE counters

With(map, k, c) == [j \in DOMAIN map \cup {k} |-> IF j = k THEN c ELSE map[j]]

Fresh(k) == k \notin DOMAIN Swept \/ Over(Swept[k])

Passes(k) == Fresh(k) \/ Swept[k].n < MaxRequests

\* The map after a request.
Counted(k) ==
    IF Fresh(k) THEN With(Swept, k, [n |-> 1, resetAt |-> now + Window])
    ELSE IF Passes(k) THEN With(Swept, k, [Swept[k] EXCEPT !.n = @ + 1])
    ELSE Swept

allow(k) ==
    /\ nextSweep' = IF now > nextSweep THEN now + Window ELSE nextSweep
    /\ counters' = Counted(k)
    /\ passed' = IF Passes(k) THEN [passed EXCEPT ![k] = @ + 1] ELSE passed
    /\ UNCHANGED now

Tick ==
    /\ now < MaxTime
    /\ now' = now + 1
    /\ UNCHANGED <<counters, nextSweep, passed>>

Next == Tick \/ \E k \in Keys : allow(k)

Spec == Init /\ [][Next]_vars

-----------------------------------------------------------------------------
(* Properties *)

\* "Letting it grow forever would be its own memory exhaustion" (allow): no
\* counter stays in the map for longer than one sweep after its window, so the
\* map holds the clients of the last two windows at most.
OldCountersGo ==
    \A k \in DOMAIN counters : counters[k].resetAt + Window >= nextSweep

\* The sweep, the lazy expiry and the map are invisible: the limiter is the plain
\* fixed window of RateLimit, so a client that sits across the border of two
\* windows gets two budgets in the length of one and never more.
Limit == INSTANCE RateLimit WITH
    budget <- [k \in Keys |->
        IF k \in DOMAIN counters /\ ~Over(counters[k])
        THEN [left |-> MaxRequests - counters[k].n, ticks |-> counters[k].resetAt - now + 1]
        ELSE [left |-> MaxRequests, ticks |-> 0]]

ImplementsRateLimit == Limit!Spec
=============================================================================
