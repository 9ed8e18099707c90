------------------------------ MODULE RateLimit ------------------------------
(***************************************************************************)
(* What a fixed-window limiter promises: the window of a key opens with    *)
(* its first request, lets MaxRequests requests pass and is forgotten when *)
(* it is over.                                                             *)
(***************************************************************************)
EXTENDS Naturals

CONSTANTS Keys, MaxRequests, Window, MaxTime

VARIABLES
    now,
    passed, \* requests of each key let pass so far
    budget  \* for each key the requests its window lets pass yet and the ticks it lasts

vars == <<now, passed, budget>>

Closed == [left |-> MaxRequests, ticks |-> 0]

Init ==
    /\ now = 0
    /\ passed = [k \in Keys |-> 0]
    /\ budget = [k \in Keys |-> Closed]

Pass(k) ==
    /\ budget[k].left > 0
    /\ passed' = [passed EXCEPT ![k] = @ + 1]
    /\ budget' = [budget EXCEPT ![k] =
          [left |-> @.left - 1, ticks |-> IF @ = Closed THEN Window + 1 ELSE @.ticks]]
    /\ UNCHANGED now

Tick ==
    /\ now < MaxTime
    /\ now' = now + 1
    /\ budget' = [k \in Keys |->
          IF budget[k].ticks <= 1 THEN Closed ELSE [budget[k] EXCEPT !.ticks = @ - 1]]
    /\ UNCHANGED passed

Next == Tick \/ \E k \in Keys : Pass(k)

Spec == Init /\ [][Next]_vars
=============================================================================
