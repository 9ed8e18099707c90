-------------------------- MODULE RateLimiter_proofs --------------------------
(***************************************************************************)
(* The limiter implements the plain fixed window of RateLimit, for any     *)
(* clients, budget and window.                                             *)
(***************************************************************************)
EXTENDS RateLimiter, TLAPS

Counter == [n: 1 .. MaxRequests, resetAt: Nat]

TypeOK ==
    /\ now \in Nat
    /\ nextSweep \in Nat
    /\ passed \in [Keys -> Nat]
    /\ DOMAIN counters \subseteq Keys
    /\ \A k \in DOMAIN counters : counters[k] \in Counter

\* No sweep and no window is further away than the length of a window.
InTime ==
    /\ nextSweep <= now + Window
    /\ \A k \in DOMAIN counters : counters[k].resetAt <= now + Window

IInv == TypeOK /\ InTime /\ OldCountersGo

\* What RateLimit sees of the counter of a key.
Seen(k) ==
    IF k \in DOMAIN counters /\ ~Over(counters[k])
    THEN [left |-> MaxRequests - counters[k].n, ticks |-> counters[k].resetAt - now + 1]
    ELSE [left |-> MaxRequests, ticks |-> 0]

-----------------------------------------------------------------------------
(* The map after a request. *)

\* The sweep drops counters whose window is over, and only those.
LEMMA SweptMap ==
    /\ DOMAIN Swept \subseteq DOMAIN counters
    /\ \A k \in DOMAIN Swept : Swept[k] = counters[k]
    /\ \A k \in DOMAIN counters \ DOMAIN Swept : Over(counters[k])
    /\ now > nextSweep => \A k \in DOMAIN Swept : ~Over(counters[k])
<1>1. CASE now > nextSweep
  <2>1. Swept = [k \in {k \in DOMAIN counters : ~Over(counters[k])} |-> counters[k]]
    BY <1>1 DEF Swept
  <2>2. QED BY <2>1
<1>2. CASE ~(now > nextSweep)
  <2>1. Swept = counters BY <1>2 DEF Swept
  <2>2. QED BY <1>2, <2>1
<1>3. QED BY <1>1, <1>2

\* So it does not matter whether it ran.
LEMMA FreshKey ==
    ASSUME NEW k
    PROVE  Fresh(k) <=> (k \notin DOMAIN counters \/ Over(counters[k]))
BY SweptMap DEF Fresh

\* The map a request leaves: its own counter, and the others as they were.
LEMMA CountedMap ==
    ASSUME NEW k \in Keys
    PROVE  /\ DOMAIN Counted(k) = DOMAIN Swept \cup {k}
           /\ \A j \in DOMAIN Swept \ {k} : Counted(k)[j] = Swept[j]
           /\ Fresh(k) => Counted(k)[k] = [n |-> 1, resetAt |-> now + Window]
           /\ ~Fresh(k) /\ Passes(k) => Counted(k)[k] = [Swept[k] EXCEPT !.n = @ + 1]
           /\ ~Passes(k) => Counted(k)[k] = Swept[k]
<1>1. CASE Fresh(k) BY <1>1 DEF Counted, With, Passes
<1>2. CASE ~Fresh(k) /\ Passes(k)
  <2>1. k \in DOMAIN Swept BY <1>2 DEF Fresh
  <2>2. Counted(k) = With(Swept, k, [Swept[k] EXCEPT !.n = @ + 1]) BY <1>2 DEF Counted
  <2>3. QED BY <1>2, <2>1, <2>2 DEF With
<1>3. CASE ~Passes(k)
  <2>1. ~Fresh(k) /\ k \in DOMAIN Swept BY <1>3 DEF Passes, Fresh
  <2>2. Counted(k) = Swept BY <1>3, <2>1 DEF Counted
  <2>3. QED BY <1>3, <2>1, <2>2
<1>4. QED BY <1>1, <1>2, <1>3

\* The counter of a key that has asked.
LEMMA CountedKey ==
    ASSUME TypeOK, InTime, NEW k \in Keys
    PROVE  /\ Counted(k)[k] \in Counter
           /\ Counted(k)[k].resetAt <= now + Window
           /\ Counted(k)[k].resetAt >= now
           /\ Fresh(k) => Counted(k)[k].n = 1 /\ Counted(k)[k].resetAt = now + Window
           /\ ~Fresh(k) => /\ k \in DOMAIN counters /\ ~Over(counters[k])
                           /\ Counted(k)[k].resetAt = counters[k].resetAt
                           /\ Passes(k) <=> counters[k].n < MaxRequests
                           /\ Counted(k)[k].n =
                                 IF Passes(k) THEN counters[k].n + 1 ELSE counters[k].n
<1> USE LimiterAssumption
<1>1. CASE Fresh(k)
  <2>1. Counted(k)[k] = [n |-> 1, resetAt |-> now + Window] BY <1>1, CountedMap
  <2>2. QED BY <1>1, <2>1 DEF Counter, TypeOK, LimiterAssumption
<1>2. CASE ~Fresh(k)
  <2>1. k \in DOMAIN counters /\ ~Over(counters[k]) BY <1>2, FreshKey
  <2>2. k \in DOMAIN Swept /\ Swept[k] = counters[k] BY <1>2, SweptMap DEF Fresh
  <2>3. counters[k] \in Counter /\ counters[k].resetAt <= now + Window /\ now \in Nat
    BY <2>1 DEF TypeOK, InTime
  <2>4. Passes(k) <=> counters[k].n < MaxRequests BY <1>2, <2>2 DEF Passes
  <2>5. counters[k].resetAt >= now BY <2>1, <2>3 DEF Over, Counter
  <2>6. CASE Passes(k)
    <3>1. Counted(k)[k] = [counters[k] EXCEPT !.n = @ + 1] BY <1>2, <2>2, <2>6, CountedMap
    <3>2. counters[k].n + 1 \in 1 .. MaxRequests
      BY <2>3, <2>4, <2>6 DEF Counter, LimiterAssumption
    <3>3. QED BY <1>2, <2>1, <2>3, <2>4, <2>5, <2>6, <3>1, <3>2 DEF Counter
  <2>7. CASE ~Passes(k)
    <3>1. Counted(k)[k] = counters[k] BY <2>2, <2>7, CountedMap
    <3>2. QED BY <1>2, <2>1, <2>3, <2>4, <2>5, <2>7, <3>1
  <2>8. QED BY <2>6, <2>7
<1>3. QED BY <1>1, <1>2

-----------------------------------------------------------------------------
(* Types, and counters that go. *)

\* The empty map satisfies the invariant.
LEMMA InitInv == Init => IInv
BY LimiterAssumption DEF LimiterAssumption, Init, IInv, TypeOK, InTime, OldCountersGo

\* A request leaves the other counters alone or drops them.
LEMMA AllowInv == ASSUME IInv, NEW k \in Keys, allow(k) PROVE IInv'
<1> USE LimiterAssumption DEF IInv, LimiterAssumption
<1>1. DOMAIN counters' = DOMAIN Swept \cup {k} /\ counters'[k] = Counted(k)[k]
      /\ \A j \in DOMAIN Swept \ {k} : counters'[j] = counters[j]
  BY CountedMap, SweptMap DEF allow
<1>2. now' = now /\ now \in Nat /\ nextSweep \in Nat BY DEF allow, TypeOK
<1>3. nextSweep' = IF now > nextSweep THEN now + Window ELSE nextSweep BY DEF allow
<1>4. TypeOK'
  <2>1. passed' \in [Keys -> Nat] BY DEF allow, TypeOK
  <2>2. \A j \in DOMAIN counters' : j \in Keys /\ counters'[j] \in Counter
    BY <1>1, SweptMap, CountedKey DEF TypeOK
  <2>3. QED BY <1>2, <1>3, <2>1, <2>2 DEF TypeOK
<1>5. InTime'
  <2>1. nextSweep' <= now' + Window BY <1>2, <1>3 DEF InTime
  <2>2. \A j \in DOMAIN counters' : counters'[j].resetAt <= now' + Window
    BY <1>1, <1>2, SweptMap, CountedKey DEF InTime
  <2>3. QED BY <2>1, <2>2 DEF InTime
<1>6. OldCountersGo'
  <2> SUFFICES ASSUME NEW j \in DOMAIN counters'
      PROVE  counters'[j].resetAt + Window >= nextSweep'
    BY DEF OldCountersGo
  <2>1. nextSweep' <= now + Window BY <1>2, <1>3 DEF InTime
  <2>2. CASE j = k
    <3>1. counters'[k].resetAt \in Nat /\ counters'[k].resetAt >= now
      BY <1>1, CountedKey DEF Counter
    <3>2. QED BY <1>2, <1>3, <2>1, <2>2, <3>1
  <2>3. CASE j # k
    <3>1. j \in DOMAIN Swept /\ counters'[j] = counters[j] /\ j \in DOMAIN counters
      BY <1>1, <2>3, SweptMap
    <3>2. counters[j].resetAt \in Nat BY <3>1 DEF TypeOK, Counter
    <3>3. CASE now > nextSweep
      <4>1. ~(now > counters[j].resetAt) BY <3>1, <3>3, SweptMap DEF Over
      <4>2. counters[j].resetAt >= now BY <1>2, <3>2, <4>1
      <4>3. nextSweep' = now + Window BY <1>3, <3>3
      <4>4. QED BY <1>2, <3>1, <3>2, <4>2, <4>3
    <3>4. CASE ~(now > nextSweep) BY <1>3, <3>1, <3>4 DEF OldCountersGo
    <3>5. QED BY <3>3, <3>4
  <2>4. QED BY <2>2, <2>3
<1>7. QED BY <1>4, <1>5, <1>6

\* A tick changes no counter.
LEMMA TickInv == ASSUME IInv, Tick PROVE IInv'
<1>1. TypeOK' BY DEF IInv, TypeOK, Tick
<1>2. \A k \in DOMAIN counters : counters[k].resetAt \in Nat BY DEF IInv, TypeOK, Counter
<1>3. InTime'
  BY <1>2, LimiterAssumption DEF LimiterAssumption, IInv, TypeOK, InTime, Tick
<1>4. OldCountersGo' BY DEF IInv, OldCountersGo, Tick
<1>5. QED BY <1>1, <1>3, <1>4 DEF IInv

\* Every step preserves the invariant.
LEMMA StepInv == IInv /\ [Next]_vars => IInv'
<1> SUFFICES ASSUME IInv, [Next]_vars PROVE IInv'
  OBVIOUS
<1>1. CASE UNCHANGED vars BY <1>1 DEF vars, IInv, TypeOK, InTime, OldCountersGo
<1>2. QED BY <1>1, AllowInv, TickInv DEF Next

\* The inductive invariant: types, bounds of the times, and counters that go.
LEMMA Invariant == Spec => []IInv
<1>1. QED BY InitInv, StepInv, PTL DEF Spec

\* No counter stays in the map for longer than one sweep after its window
\* (allow), whoever comes and whenever.
THEOREM CountersGo == Spec => []OldCountersGo
<1>1. IInv => OldCountersGo BY DEF IInv
<1>2. QED BY <1>1, Invariant, PTL

-----------------------------------------------------------------------------
(* The refinement. *)

\* The empty map is an unused budget for everybody.
LEMMA Initially == Init => Limit!Init
BY DEF Init, Limit!Init, Limit!Closed

\* A request that passes takes one from the budget, one that does not changes
\* nothing, and the sweep is invisible.
LEMMA AllowRefines ==
    ASSUME IInv, NEW k \in Keys, allow(k)
    PROVE  Limit!Pass(k) \/ UNCHANGED Limit!vars
<1> USE LimiterAssumption DEF LimiterAssumption
<1>a. TypeOK /\ InTime BY DEF IInv
<1>1. DOMAIN counters' = DOMAIN Swept \cup {k} /\ counters'[k] = Counted(k)[k]
      /\ \A j \in DOMAIN Swept \ {k} : counters'[j] = counters[j]
  BY CountedMap, SweptMap DEF allow
<1>2. now' = now /\ now \in Nat BY <1>a DEF allow, TypeOK
<1>3. \A j \in Keys \ {k} : Seen(j)' = Seen(j)
  <2> SUFFICES ASSUME NEW j \in Keys \ {k} PROVE Seen(j)' = Seen(j)
    OBVIOUS
  <2>1. CASE j \in DOMAIN Swept
    <3>1. j \in DOMAIN counters /\ j \in DOMAIN counters' /\ counters'[j] = counters[j]
      BY <2>1, <1>1, SweptMap
    <3>2. QED BY <3>1, <1>2 DEF Seen, Over
  <2>2. CASE j \notin DOMAIN Swept
    <3>1. j \notin DOMAIN counters' BY <2>2, <1>1
    <3>2. j \notin DOMAIN counters \/ Over(counters[j]) BY <2>2, SweptMap
    <3>3. QED BY <3>1, <3>2 DEF Seen
  <2>3. QED BY <2>1, <2>2
<1>4. Seen(k)' = [left |-> MaxRequests - Counted(k)[k].n,
                  ticks |-> Counted(k)[k].resetAt - now + 1]
  <2>1. ~(now > Counted(k)[k].resetAt) BY <1>2, <1>a, CountedKey DEF Counter
  <2>2. QED BY <2>1, <1>1, <1>2 DEF Seen, Over
<1>5. CASE Passes(k)
  <2>1. passed' = [passed EXCEPT ![k] = @ + 1] BY <1>5 DEF allow
  <2>2. Seen(k).left > 0
        /\ Seen(k)' = [left |-> Seen(k).left - 1,
                       ticks |-> IF Seen(k) = Limit!Closed THEN Window + 1 ELSE Seen(k).ticks]
    <3>1. CASE Fresh(k)
      <4>1. Seen(k) = [left |-> MaxRequests, ticks |-> 0] BY <3>1, FreshKey DEF Seen
      <4>2. Counted(k)[k].n = 1 /\ Counted(k)[k].resetAt = now + Window
        BY <3>1, <1>a, CountedKey
      <4>3. now + Window - now + 1 = Window + 1 BY <1>2
      <4>4. Seen(k)' = [left |-> MaxRequests - 1, ticks |-> Window + 1]
        <5>1. MaxRequests - Counted(k)[k].n = MaxRequests - 1 BY <4>2
        <5>2. Counted(k)[k].resetAt - now + 1 = Window + 1 BY <1>2, <4>2, <4>3
        <5>3. QED BY <1>4, <5>1, <5>2, Zenon
      <4>5. Seen(k) = Limit!Closed /\ Seen(k).left = MaxRequests
        BY <4>1 DEF Limit!Closed
      <4>6. QED BY <4>4, <4>5
    <3>2. CASE ~Fresh(k)
      <4>1. /\ k \in DOMAIN counters /\ ~Over(counters[k])
            /\ Counted(k)[k].resetAt = counters[k].resetAt
            /\ counters[k].n < MaxRequests
            /\ Counted(k)[k].n = counters[k].n + 1
        BY <3>2, <1>5, <1>a, CountedKey
      <4>2. counters[k].n \in 1 .. MaxRequests BY <4>1, <1>a DEF TypeOK, Counter
      <4>3. Seen(k) = [left |-> MaxRequests - counters[k].n,
                       ticks |-> counters[k].resetAt - now + 1]
        BY <4>1 DEF Seen
      <4>4. Seen(k).left < MaxRequests /\ Seen(k).left > 0 BY <4>1, <4>2, <4>3
      <4>5. Seen(k) # Limit!Closed BY <4>4, <4>2 DEF Limit!Closed
      <4>6. MaxRequests - (counters[k].n + 1) = MaxRequests - counters[k].n - 1 BY <4>2
      <4>7. QED BY <1>4, <4>1, <4>3, <4>4, <4>5, <4>6
    <3>3. QED BY <3>1, <3>2
  <2>3. Limit!Pass(k) BY <1>2, <1>3, <2>1, <2>2 DEF Limit!Pass, Seen
  <2>4. QED BY <2>3
<1>6. CASE ~Passes(k)
  <2>1. ~Fresh(k) BY <1>6 DEF Passes
  <2>2. /\ k \in DOMAIN counters /\ ~Over(counters[k])
        /\ Counted(k)[k].resetAt = counters[k].resetAt
        /\ Counted(k)[k].n = counters[k].n
    BY <2>1, <1>6, <1>a, CountedKey
  <2>3. Seen(k)' = Seen(k) BY <1>4, <2>2 DEF Seen
  <2>4. passed' = passed BY <1>6 DEF allow
  <2>5. UNCHANGED Limit!vars BY <1>2, <1>3, <2>3, <2>4 DEF Limit!vars, Seen
  <2>6. QED BY <2>5
<1>7. QED BY <1>5, <1>6

\* A tick shortens every window, and closes the one in its last tick.
LEMMA TickRefines == ASSUME IInv, Tick PROVE Limit!Tick
<1> USE LimiterAssumption DEF LimiterAssumption
<1>1. now \in Nat /\ now' = now + 1 /\ now < MaxTime /\ UNCHANGED <<counters, passed>>
  BY DEF Tick, IInv, TypeOK
<1>2. ASSUME NEW k \in Keys
      PROVE  Seen(k)' = IF Seen(k).ticks <= 1 THEN Limit!Closed
                        ELSE [Seen(k) EXCEPT !.ticks = @ - 1]
  <2>1. CASE k \in DOMAIN counters /\ ~Over(counters[k])
    <3>1. counters[k].resetAt \in Nat /\ counters[k].resetAt >= now
      BY <1>1, <2>1 DEF IInv, TypeOK, Counter, Over
    <3>2. Seen(k) = [left |-> MaxRequests - counters[k].n,
                     ticks |-> counters[k].resetAt - now + 1]
      BY <2>1 DEF Seen
    <3>3. CASE counters[k].resetAt = now
      <4>1. Over(counters[k])' BY <1>1, <3>3 DEF Over
      <4>2. QED BY <1>1, <3>2, <3>3, <4>1 DEF Seen, Over, Limit!Closed
    <3>4. CASE counters[k].resetAt > now
      <4>1. ~Over(counters[k])' BY <1>1, <3>1, <3>4 DEF Over
      <4>2. \A r, n \in Nat : r - (n + 1) + 1 = r - n + 1 - 1
        OBVIOUS
      <4>3. ~(Seen(k).ticks <= 1) BY <1>1, <3>1, <3>2, <3>4
      <4>4. Seen(k)' = [left |-> MaxRequests - counters[k].n,
                        ticks |-> counters[k].resetAt - (now + 1) + 1]
        BY <1>1, <2>1, <4>1 DEF Seen
      <4>5. counters[k].resetAt - (now + 1) + 1 = (counters[k].resetAt - now + 1) - 1
        BY <1>1, <3>1, <4>2
      <4>6. [Seen(k) EXCEPT !.ticks = @ - 1]
            = [left |-> MaxRequests - counters[k].n,
               ticks |-> (counters[k].resetAt - now + 1) - 1]
        BY <3>2
      <4>7. QED BY <4>3, <4>4, <4>5, <4>6
    <3>5. QED BY <3>1, <3>3, <3>4, <1>1
  <2>2. CASE ~(k \in DOMAIN counters /\ ~Over(counters[k]))
    <3>1. Seen(k) = Limit!Closed /\ Seen(k).ticks = 0 BY <2>2 DEF Seen, Limit!Closed
    <3>2. k \notin DOMAIN counters \/ Over(counters[k])'
      BY <1>1, <2>2 DEF IInv, TypeOK, Counter, Over
    <3>3. Seen(k)' = Limit!Closed BY <3>2, <1>1 DEF Seen, Limit!Closed
    <3>4. QED BY <3>1, <3>3
  <2>3. QED BY <2>1, <2>2
<1>3. QED BY <1>1, <1>2 DEF Limit!Tick, Seen

\* The limiter with its sweeps and lazy expiry implements the plain fixed
\* window: no client gets more than its budget in a window, or less.
THEOREM FixedWindow == Spec => ImplementsRateLimit
<1>1. IInv /\ [Next]_vars => [Limit!Next]_Limit!vars
  <2> SUFFICES ASSUME IInv, [Next]_vars PROVE [Limit!Next]_Limit!vars
    OBVIOUS
  <2>1. CASE UNCHANGED vars BY <2>1 DEF vars, Limit!vars, Over
  <2>2. CASE Tick BY <2>2, TickRefines DEF Limit!Next
  <2>3. ASSUME NEW k \in Keys, allow(k) PROVE [Limit!Next]_Limit!vars
    BY <2>3, AllowRefines DEF Limit!Next
  <2>4. QED BY <2>1, <2>2, <2>3 DEF Next
<1>2. QED BY <1>1, Initially, Invariant, PTL DEF Spec, ImplementsRateLimit, Limit!Spec
=============================================================================
