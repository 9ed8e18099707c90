------------------------ MODULE OperatorInbox_proofs ------------------------
(***************************************************************************)
(* The inbox and the operator channel, for any requests, replies, size of  *)
(* a page and bounds: nothing is skipped, nothing comes twice, and a reply *)
(* that is stored is never passed over.                                    *)
(***************************************************************************)
EXTENDS OperatorInbox, FiniteSetTheorems, SequenceTheorems, TLAPS

-----------------------------------------------------------------------------
(* Rows in the order of their seq *)

\* The more rows before a place, the later it is.
LEMMA BeforeGrows ==
    ASSUME NEW S \in SUBSET Nat, IsFiniteSet(S), NEW s \in Nat, NEW t \in Nat, s <= t
    PROVE  /\ Before(S, s) \in Nat /\ Before(S, t) \in Nat
           /\ Before(S, s) <= Before(S, t)
<1> DEFINE L(x) == {u \in S : u < x}
<1>1. IsFiniteSet(L(s)) /\ IsFiniteSet(L(t)) BY FS_Subset
<1>2. L(s) \in SUBSET L(t)
  <2>1. \A u \in S : u \in Nat OBVIOUS
  <2>2. \A u \in S : u < s => u < t BY <2>1
  <2>3. QED BY <2>2
<1>3. Cardinality(L(s)) <= Cardinality(L(t)) BY <1>1, <1>2, FS_Subset
<1>4. Cardinality(L(s)) \in Nat /\ Cardinality(L(t)) \in Nat BY <1>1, FS_CardinalityType
<1>5. QED BY <1>3, <1>4 DEF Before

\* The rows of a set have the places 0, 1, 2 and so on, in their order.
LEMMA Places ==
    ASSUME NEW S \in SUBSET Nat, IsFiniteSet(S)
    PROVE  /\ Cardinality(S) \in Nat
           /\ \A s \in S : Before(S, s) \in 0 .. Cardinality(S) - 1
           /\ \A s, t \in S : s < t => Before(S, s) < Before(S, t)
           /\ \A i \in 0 .. Cardinality(S) - 1 : \E s \in S : Before(S, s) = i
<1> DEFINE n == Cardinality(S)
           L(x) == {u \in S : u < x}
           place == [s \in S |-> Before(S, s)]
<1>a. \A u \in S : u \in Nat OBVIOUS
<1>1. n \in Nat BY FS_CardinalityType
<1>2. ASSUME NEW s \in S PROVE Before(S, s) \in 0 .. n - 1
  <2>1. L(s) \in SUBSET S /\ L(s) # S OBVIOUS
  <2>2. IsFiniteSet(L(s)) /\ Cardinality(L(s)) <= n /\ Cardinality(L(s)) # n
    BY <2>1, FS_Subset
  <2>3. Cardinality(L(s)) \in Nat BY <2>2, FS_CardinalityType
  <2>4. QED BY <1>1, <2>2, <2>3 DEF Before
<1>3. ASSUME NEW s \in S, NEW t \in S, s < t PROVE Before(S, s) < Before(S, t)
  <2>1. IsFiniteSet(L(t)) BY FS_Subset
  <2>2. L(s) \in SUBSET L(t) /\ s \in L(t) /\ s \notin L(s)
    <3>1. \A u \in S : u < s => u < t BY <1>a, <1>3
    <3>2. L(s) \in SUBSET L(t) BY <3>1
    <3>3. s \in L(t) /\ s \notin L(s) BY <1>a, <1>3
    <3>4. QED BY <3>2, <3>3
  <2>3. /\ IsFiniteSet(L(s)) /\ Cardinality(L(s)) <= Cardinality(L(t))
        /\ Cardinality(L(s)) # Cardinality(L(t))
    BY <2>1, <2>2, FS_Subset
  <2>4. Cardinality(L(s)) \in Nat /\ Cardinality(L(t)) \in Nat
    BY <2>1, <2>3, FS_CardinalityType
  <2>5. QED BY <2>3, <2>4 DEF Before
<1>4. \A s, t \in S : Before(S, s) = Before(S, t) => s = t
  <2>1. SUFFICES ASSUME NEW s \in S, NEW t \in S, Before(S, s) = Before(S, t), s # t
                 PROVE  FALSE
    OBVIOUS
  <2>2. s < t \/ t < s BY <2>1
  <2>3. Before(S, s) \in Int BY <1>1, <1>2
  <2>4. QED BY <1>3, <2>1, <2>2, <2>3
<1>5. place \in Injection(S, 0 .. n - 1) BY <1>2, <1>4 DEF Injection, IsInjective
<1>6. IsFiniteSet(0 .. n - 1) /\ Cardinality(0 .. n - 1) = n
  <2>1. 0 \in Int /\ n - 1 \in Int /\ (0 > n - 1 => n = 0) BY <1>1
  <2>2. QED BY <1>1, <2>1, FS_Interval
<1>7. place \in Surjection(S, 0 .. n - 1) BY <1>5, <1>6, FS_Injection
<1>8. \A i \in 0 .. n - 1 : \E s \in S : place[s] = i
  BY <1>7 DEF Surjection
<1>9. QED BY <1>1, <1>2, <1>3, <1>8

\* A page has a last row.
LEMMA MaxOfRows ==
    ASSUME NEW S \in SUBSET Nat, IsFiniteSet(S), S # {}
    PROVE  Max(S) \in S /\ \A s \in S : s <= Max(S)
<1>1. Cardinality(S) \in Nat /\ Cardinality(S) # 0 BY FS_CardinalityType, FS_EmptySet
<1>2. PICK s \in S : Before(S, s) = Cardinality(S) - 1 BY <1>1, Places
<1>3. \A t \in S : Before(S, t) <= Before(S, s) /\ Before(S, t) \in Int
  BY <1>1, <1>2, Places
<1>4. \A t \in S : ~(s < t) BY <1>3, Places
<1>5. \A t \in S : s >= t BY <1>4
<1>6. \E x \in S : \A y \in S : x >= y BY <1>5
<1>7. QED BY <1>6 DEF Max

\* ORDER BY seq lists each row once, in ascending order.
LEMMA Ordered ==
    ASSUME NEW S \in SUBSET Nat, IsFiniteSet(S)
    PROVE  /\ InOrder(S) \in Seq(S) /\ Len(InOrder(S)) = Cardinality(S)
           /\ \A i, j \in 1 .. Len(InOrder(S)) :
                 i < j => InOrder(S)[i] < InOrder(S)[j]
           /\ \A s \in S : \E i \in 1 .. Len(InOrder(S)) : InOrder(S)[i] = s
<1> DEFINE n == Cardinality(S)
           at(i) == CHOOSE s \in S : Before(S, s) = i - 1
<1>a. /\ n \in Nat
      /\ \A s \in S : s \in Nat /\ Before(S, s) \in 0 .. n - 1
      /\ \A i \in 0 .. n - 1 : \E s \in S : Before(S, s) = i
  BY Places
<1>b. \A s, t \in S : Before(S, s) < Before(S, t) => s < t
  <2>1. SUFFICES ASSUME NEW s \in S, NEW t \in S, Before(S, s) < Before(S, t), ~(s < t)
                 PROVE  FALSE
    OBVIOUS
  <2>2. t < s \/ t = s BY <1>a, <2>1
  <2>3. Before(S, s) \in Int /\ Before(S, t) \in Int BY <1>a
  <2>4. CASE t = s BY <2>1, <2>3, <2>4
  <2>5. CASE t < s
    <3>1. Before(S, t) < Before(S, s) BY <2>5, Places
    <3>2. QED BY <2>1, <2>3, <3>1
  <2>6. QED BY <2>2, <2>4, <2>5
<1>c. \A s, t \in S : Before(S, s) = Before(S, t) => s = t
  <2>1. SUFFICES ASSUME NEW s \in S, NEW t \in S, Before(S, s) = Before(S, t), s # t
                 PROVE  FALSE
    OBVIOUS
  <2>2. t < s \/ s < t BY <1>a, <2>1
  <2>3. Before(S, s) \in Int BY <1>a
  <2>4. Before(S, t) # Before(S, s) BY <2>2, <2>3, Places
  <2>5. QED BY <2>1, <2>4
<1>2. ASSUME NEW i \in 1 .. n PROVE at(i) \in S /\ Before(S, at(i)) = i - 1
  <2>1. i - 1 \in 0 .. n - 1 BY <1>a
  <2>2. \E s \in S : Before(S, s) = i - 1 BY <1>a, <2>1
  <2>3. QED BY <2>2
<1>3. InOrder(S) = [i \in 1 .. n |-> at(i)] BY DEF InOrder
<1> HIDE DEF at, n
<1>4. InOrder(S) \in Seq(S) /\ Len(InOrder(S)) = n BY <1>a, <1>2, <1>3
<1>5. ASSUME NEW i \in 1 .. n, NEW j \in 1 .. n, i < j PROVE at(i) < at(j)
  <2>1. i - 1 < j - 1 BY <1>a, <1>5
  <2>2. at(i) \in S /\ at(j) \in S /\ Before(S, at(i)) < Before(S, at(j))
    BY <1>2, <2>1
  <2>3. QED BY <1>b, <2>2
<1>6. ASSUME NEW s \in S PROVE \E i \in 1 .. n : at(i) = s
  <2>1. Before(S, s) + 1 \in 1 .. n BY <1>a
  <2>2. PICK i \in 1 .. n : i - 1 = Before(S, s) BY <1>a, <2>1
  <2>3. at(i) \in S /\ Before(S, at(i)) = Before(S, s) BY <1>2, <2>2
  <2>4. at(i) = s BY <1>c, <2>3
  <2>5. QED BY <2>4
<1>7. \A i \in 1 .. n : InOrder(S)[i] = at(i) BY <1>3
<1>8. QED BY <1>4, <1>5, <1>6, <1>7 DEF n
-----------------------------------------------------------------------------
(* The inbox *)

\* The variables of Inbox.
InboxTypes ==
    /\ messages \in Seq({"wanted", "unwanted"})
    /\ expired \subseteq 1 .. Len(messages)
    /\ handler \in {"idle", "subscribing", "waiting", "responding"}
    /\ reply \in [msgs: SUBSET Nat, next: Nat]
    /\ cursor \in 0 .. Len(messages)
    /\ received \in Seq(Nat)

\* A page for the client at c: its next_cursor passes over no wanted row that is
\* neither on it nor expired.
PageFrom(c, p) ==
    /\ p.next \in c .. Len(messages)
    /\ p.msgs \subseteq c + 1 .. p.next
    /\ \A s \in c + 1 .. p.next : messages[s] = "wanted" => s \in p.msgs \cup expired

\* While a request is handled the client stays where it asked from, so that
\* its page, however old, is one for the client's position.
InboxInv ==
    /\ InboxTypes
    /\ handler # "idle" => PageFrom(cursor, reply)
    /\ NothingSkipped
    /\ ReceivedInOrder
    /\ \A i \in DOMAIN received : received[i] <= cursor

\* MessageStore.List gives such a page, in every state of the table.
LEMMA ListPages ==
    ASSUME LimitAssumption, InboxTypes, NEW c \in 0 .. Len(messages)
    PROVE  /\ List(c) \in [msgs: SUBSET Nat, next: Nat]
           /\ PageFrom(c, List(c))
<1> DEFINE W == Wanted(c)
           F == Fetched(c)
           E == Examined(c)
<1>0. Len(messages) \in Nat /\ DOMAIN messages = 1 .. Len(messages) BY DEF InboxTypes
<1>1. \A s \in W : s \in c + 1 .. Len(messages) BY <1>0 DEF Wanted
<1>2. W \in SUBSET Nat /\ IsFiniteSet(W)
  <2>1. IsFiniteSet(c + 1 .. Len(messages)) BY <1>0, FS_Interval
  <2>2. W \in SUBSET (c + 1 .. Len(messages)) BY <1>1
  <2>3. IsFiniteSet(W) BY <2>1, <2>2, FS_Subset
  <2>4. QED BY <1>1, <2>3
<1>3. F \in SUBSET W BY DEF Fetched
<1>4. E \in SUBSET F BY DEF Examined
<1>5. F \in SUBSET Nat /\ IsFiniteSet(F) BY <1>2, <1>3, FS_Subset
<1>6. E \in SUBSET Nat /\ IsFiniteSet(E) BY <1>4, <1>5, FS_Subset
<1>7. F \ expired \in SUBSET Nat /\ IsFiniteSet(F \ expired) BY <1>5, FS_Subset
<1>8. \A s \in F, t \in W : t <= s => t \in F
  <2>1. SUFFICES ASSUME NEW s \in F, NEW t \in W, t <= s PROVE t \in F
    OBVIOUS
  <2>2. s \in Nat /\ t \in Nat BY <1>2, <1>5
  <2>3. /\ Before(W, t) \in Nat /\ Before(W, s) \in Nat
        /\ Before(W, t) <= Before(W, s)
    BY <1>2, <2>1, <2>2, BeforeGrows
  <2>4. Before(W, s) < Limit + 1 BY DEF Fetched
  <2>5. Before(W, t) < Limit + 1 BY <2>3, <2>4 DEF LimitAssumption
  <2>6. QED BY <2>5 DEF Fetched
<1>9. \A s \in E, t \in F : t <= s => t \in E
  <2>1. SUFFICES ASSUME NEW s \in E, NEW t \in F, t <= s PROVE t \in E
    OBVIOUS
  <2>2. s \in Nat /\ t \in Nat BY <1>5, <1>6
  <2>3. /\ Before(F \ expired, t) \in Nat /\ Before(F \ expired, s) \in Nat
        /\ Before(F \ expired, t) <= Before(F \ expired, s)
    BY <1>7, <2>1, <2>2, BeforeGrows
  <2>4. Before(F \ expired, s) < Limit BY DEF Examined
  <2>5. Before(F \ expired, t) < Limit BY <2>3, <2>4 DEF LimitAssumption
  <2>6. QED BY <2>5 DEF Examined
<1>10. \A s \in E, t \in W : t <= s => t \in E
  <2>1. SUFFICES ASSUME NEW s \in E, NEW t \in W, t <= s PROVE t \in E
    OBVIOUS
  <2>2. s \in F BY <1>4
  <2>3. t \in F BY <1>8, <2>1, <2>2
  <2>4. QED BY <1>9, <2>1, <2>3
<1>11. List(c) = [msgs |-> E \ expired, next |-> IF E = {} THEN c ELSE Max(E)]
  BY DEF List
<1>12. \A s \in E : s \in W /\ s \in c + 1 .. Len(messages) BY <1>1, <1>3, <1>4
<1> HIDE DEF W, F, E
<1>13. CASE E = {}
  <2>1. List(c).msgs = {} /\ List(c).next = c BY <1>11, <1>13
  <2>2. c \in Nat /\ c \in c .. Len(messages) /\ c + 1 .. c = {} BY <1>0
  <2>3. PageFrom(c, List(c)) BY <2>1, <2>2 DEF PageFrom
  <2>4. QED BY <1>11, <2>1, <2>2, <2>3
<1>14. CASE E # {}
  <2>1. Max(E) \in E /\ \A s \in E : s <= Max(E) BY <1>6, <1>14, MaxOfRows
  <2>2. List(c).msgs = E \ expired /\ List(c).next = Max(E) BY <1>11, <1>14
  <2>3. Max(E) \in c + 1 .. Len(messages) BY <1>12, <2>1
  <2>4. Max(E) \in c .. Len(messages) /\ Max(E) \in Nat BY <1>0, <2>3
  <2>5. \A s \in E : s \in c + 1 .. Max(E) BY <1>12, <2>1, <2>4
  <2>6. ASSUME NEW s \in c + 1 .. Max(E), messages[s] = "wanted"
        PROVE  s \in (E \ expired) \cup expired
    <3>1. s \in DOMAIN messages /\ s > c /\ s <= Max(E) BY <1>0, <2>3, <2>4
    <3>2. s \in W BY <2>6, <3>1 DEF W, Wanted
    <3>3. s \in E BY <1>10, <2>1, <3>1, <3>2
    <3>4. QED BY <3>3
  <2>7. PageFrom(c, List(c)) BY <2>2, <2>4, <2>5, <2>6 DEF PageFrom
  <2>8. QED BY <1>6, <1>11, <2>2, <2>4, <2>7
<1>15. QED BY <1>13, <1>14

\* An inbox as it begins.
LEMMA InboxInit == Init => InboxInv
<1> SUFFICES ASSUME Init PROVE InboxInv
  OBVIOUS
<1>1. messages = <<>> /\ received = <<>> /\ Len(messages) = 0 BY DEF Init
<1>2. InboxTypes BY <1>1 DEF Init, InboxTypes
<1>3. QED BY <1>1, <1>2 DEF Init, InboxInv, NothingSkipped, ReceivedInOrder

\* A page stays one when rows come in or expire.
LEMMA PageStays ==
    ASSUME InboxTypes, NEW c \in Nat, NEW p, PageFrom(c, p),
           Len(messages') \in Nat, Len(messages) <= Len(messages'),
           \A s \in 1 .. Len(messages) : messages'[s] = messages[s],
           expired \subseteq expired'
    PROVE  PageFrom(c, p)'
<1>1. Len(messages) \in Nat BY DEF InboxTypes
<1>2. p.next \in c .. Len(messages') BY <1>1 DEF PageFrom
<1>3. \A s \in c + 1 .. p.next : s \in 1 .. Len(messages) BY <1>1 DEF PageFrom
<1>4. QED BY <1>2, <1>3 DEF PageFrom

\* The steps of the table: rows are stored, announced and expire.
LEMMA TableStep ==
    ASSUME InboxInv, UNCHANGED <<handler, reply, cursor, received>>,
           messages' \in Seq({"wanted", "unwanted"}),
           Len(messages) <= Len(messages'),
           \A s \in 1 .. Len(messages) : messages'[s] = messages[s],
           expired \subseteq expired', expired' \subseteq 1 .. Len(messages')
    PROVE  InboxInv'
<1>1. InboxTypes /\ Len(messages) \in Nat /\ Len(messages') \in Nat /\ cursor \in Nat
  BY DEF InboxInv, InboxTypes
<1>2. InboxTypes' BY <1>1 DEF InboxTypes
<1>3. handler' # "idle" => PageFrom(cursor, reply)'
  <2>1. SUFFICES ASSUME handler # "idle" PROVE PageFrom(cursor, reply)'
    OBVIOUS
  <2>2. PICK c, p : c \in Nat /\ c = cursor /\ p = reply BY <1>1
  <2>3. c \in Nat /\ PageFrom(c, p) BY <2>1, <2>2 DEF InboxInv
  <2>4. PageFrom(c, p)' BY <1>1, <2>3, PageStays
  <2>5. QED BY <2>2, <2>4 DEF PageFrom
<1>4. NothingSkipped'
  <2>1. \A s \in 1 .. cursor : s \in 1 .. Len(messages) BY <1>1 DEF InboxTypes
  <2>2. QED BY <2>1 DEF InboxInv, NothingSkipped
<1>5. QED BY <1>2, <1>3, <1>4 DEF InboxInv, ReceivedInOrder

\* A page put behind what is there: in order, and nothing of either is lost.
LEMMA Appended ==
    ASSUME NEW r \in Seq(Nat), NEW c \in Nat, NEW n \in Nat, c <= n,
           \A i \in DOMAIN r : r[i] <= c,
           \A i, j \in DOMAIN r : i < j => r[i] < r[j],
           NEW S, S \subseteq c + 1 .. n
    PROVE  LET q == r \o InOrder(S)
           IN  /\ q \in Seq(Nat)
               /\ \A i \in DOMAIN q : q[i] <= n
               /\ \A i, j \in DOMAIN q : i < j => q[i] < q[j]
               /\ ToSet(r) \cup S \subseteq ToSet(q)
<1> DEFINE t == InOrder(S)
           q == r \o t
<1>1. S \in SUBSET Nat /\ IsFiniteSet(S)
  <2>1. IsFiniteSet(c + 1 .. n) BY FS_Interval
  <2>2. IsFiniteSet(S) BY <2>1, FS_Subset
  <2>3. \A s \in c + 1 .. n : s \in Nat OBVIOUS
  <2>4. QED BY <2>2, <2>3
<1>2. /\ t \in Seq(S)
      /\ \A i, j \in 1 .. Len(t) : i < j => t[i] < t[j]
      /\ \A s \in S : \E i \in 1 .. Len(t) : t[i] = s
  BY <1>1, Ordered
<1> HIDE DEF t
<1>a. /\ Len(t) \in Nat /\ Len(r) \in Nat /\ t \in [1 .. Len(t) -> S]
      /\ DOMAIN r = 1 .. Len(r)
  BY <1>2
<1>b. \A i \in 1 .. Len(t) : t[i] \in S BY <1>a
<1>3. t \in Seq(Nat) /\ Len(t) \in Nat /\ Len(r) \in Nat
  <2>1. t \in [1 .. Len(t) -> Nat] BY <1>1, <1>a, <1>b
  <2>2. QED BY <1>a, <2>1
<1>4. /\ q \in Seq(Nat) /\ Len(q) = Len(r) + Len(t)
      /\ \A i \in 1 .. Len(q) : q[i] = IF i <= Len(r) THEN r[i] ELSE t[i - Len(r)]
  BY <1>3
<1>5. \A i \in 1 .. Len(t) : t[i] \in c + 1 .. n BY <1>b
<1> HIDE DEF q
<1>6. DOMAIN q = 1 .. Len(q) /\ DOMAIN r = 1 .. Len(r) BY <1>4
<1>7. ASSUME NEW i \in 1 .. Len(q)
      PROVE  /\ i <= Len(r) => i \in DOMAIN r /\ q[i] = r[i] /\ q[i] <= c
             /\ i > Len(r) => /\ i - Len(r) \in 1 .. Len(t)
                              /\ q[i] = t[i - Len(r)] /\ q[i] \in c + 1 .. n
  <2>a. i <= Len(r) => i \in DOMAIN r /\ q[i] = r[i] BY <1>3, <1>4, <1>6
  <2>1. i <= Len(r) => i \in DOMAIN r /\ q[i] = r[i] /\ q[i] <= c BY <2>a
  <2>2. i > Len(r) => i - Len(r) \in 1 .. Len(t) /\ q[i] = t[i - Len(r)]
    BY <1>3, <1>4
  <2>3. QED BY <1>5, <2>1, <2>2
<1>8. \A i \in 1 .. Len(q) : q[i] \in Nat BY <1>4
<1>9. ASSUME NEW i \in 1 .. Len(q) PROVE q[i] <= n
  <2>1. i \in Nat /\ q[i] \in Nat BY <1>4, <1>8
  <2>2. CASE i <= Len(r)
    <3>1. q[i] <= c BY <1>7, <2>2
    <3>2. QED BY <2>1, <3>1
  <2>3. CASE i > Len(r)
    <3>1. q[i] \in c + 1 .. n BY <1>7, <2>3
    <3>2. QED BY <2>1, <3>1
  <2>4. QED BY <1>3, <2>1, <2>2, <2>3
<1>10. ASSUME NEW i \in 1 .. Len(q), NEW j \in 1 .. Len(q), i < j PROVE q[i] < q[j]
  <2>1. CASE j <= Len(r)
    <3>1. i <= Len(r) BY <1>3, <1>10, <2>1
    <3>2. i \in DOMAIN r /\ j \in DOMAIN r /\ q[i] = r[i] /\ q[j] = r[j]
      BY <1>7, <2>1, <3>1
    <3>3. QED BY <1>10, <3>2
  <2>2. CASE i <= Len(r) /\ j > Len(r)
    <3>1. q[i] <= c /\ q[j] \in c + 1 .. n BY <1>7, <2>2
    <3>2. QED BY <1>8, <3>1
  <2>3. CASE i > Len(r)
    <3>1. j > Len(r) BY <1>3, <1>10, <2>3
    <3>2. /\ i - Len(r) \in 1 .. Len(t) /\ j - Len(r) \in 1 .. Len(t)
          /\ q[i] = t[i - Len(r)] /\ q[j] = t[j - Len(r)]
      BY <1>7, <2>3, <3>1
    <3>3. i - Len(r) < j - Len(r) BY <1>3, <1>10
    <3>4. QED BY <1>2, <3>2, <3>3
  <2>4. QED BY <1>3, <2>1, <2>2, <2>3
<1>11. ASSUME NEW s \in ToSet(r) PROVE s \in ToSet(q)
  <2>1. PICK i \in 1 .. Len(r) : r[i] = s BY <1>6 DEF ToSet
  <2>2. i \in 1 .. Len(q) /\ q[i] = s BY <1>3, <1>4, <2>1
  <2>3. QED BY <1>6, <2>2 DEF ToSet
<1>12. ASSUME NEW s \in S PROVE s \in ToSet(q)
  <2>1. PICK i \in 1 .. Len(t) : t[i] = s BY <1>2
  <2>2. PICK k \in Nat : k = Len(r) + i BY <1>3
  <2>a. i \in Nat /\ i >= 1 /\ i <= Len(t) BY <1>3
  <2>b. k = Len(r) + i BY <2>2
  <2>c. Len(q) = Len(r) + Len(t) BY <1>4
  <2>3. k \in 1 .. Len(q) /\ ~(k <= Len(r)) /\ k - Len(r) = i BY <1>3, <2>a, <2>b, <2>c
  <2>4. q[k] = s BY <1>4, <2>1, <2>3
  <2>5. QED BY <1>6, <2>3, <2>4 DEF ToSet
<1>13. QED BY <1>4, <1>6, <1>9, <1>10, <1>11, <1>12 DEF q, t

\* The requests of the client.
LEMMA RequestStep ==
    ASSUME LimitAssumption, InboxInv, Request PROVE InboxInv'
<1>a. InboxTypes /\ cursor \in 0 .. Len(messages) /\ Len(messages) \in Nat
  BY DEF InboxInv, InboxTypes
<1>1. ASSUME reply' = List(cursor), handler' \in {"subscribing", "responding"},
             UNCHANGED <<table, client>>
      PROVE  InboxInv'
  <2>1. PICK c, p : c \in 0 .. Len(messages) /\ c = cursor /\ p = List(cursor) BY <1>a
  <2>2. p \in [msgs: SUBSET Nat, next: Nat] /\ PageFrom(c, p) BY <1>a, <2>1, ListPages
  <2>3. PageFrom(c, p)' BY <1>1, <2>2 DEF PageFrom, table
  <2>4. PageFrom(cursor, reply)'
    BY <1>1, <2>1, <2>3 DEF PageFrom, client
  <2>5. InboxTypes' BY <1>1, <1>a, <2>1, <2>2 DEF InboxTypes, table, client
  <2>6. QED
    BY <1>1, <2>4, <2>5 DEF InboxInv, NothingSkipped, ReceivedInOrder, table, client
<1>2. ASSUME handler # "idle", handler' \in {"waiting", "responding"},
             UNCHANGED <<table, reply, client>>
      PROVE  InboxInv'
  <2>1. PageFrom(cursor, reply)' BY <1>2 DEF InboxInv, PageFrom, table, client
  <2>2. InboxTypes' BY <1>2, <1>a DEF InboxTypes, table, client
  <2>3. QED
    BY <1>2, <2>1, <2>2 DEF InboxInv, NothingSkipped, ReceivedInOrder, table, client
<1>3. CASE FirstList
  <2>1. handler' \in {"subscribing", "responding"} BY <1>3 DEF FirstList
  <2>2. QED BY <1>1, <1>3, <2>1 DEF FirstList
<1>4. CASE SecondList BY <1>1, <1>4 DEF SecondList
<1>5. CASE Subscribe BY <1>2, <1>5 DEF Subscribe
<1>6. CASE TimeOut BY <1>2, <1>6 DEF TimeOut
<1>7. CASE Respond
  <2>1. PageFrom(cursor, reply) BY <1>7 DEF Respond, InboxInv
  <2>2. PICK c \in Nat, n \in Nat, S \in SUBSET Nat, r \in Seq(Nat) :
            c = cursor /\ n = reply.next /\ S = reply.msgs /\ r = received
    <3>1. /\ cursor \in Nat /\ reply.next \in Nat /\ reply.msgs \in SUBSET Nat
          /\ received \in Seq(Nat)
      BY <1>a DEF InboxTypes
    <3>2. QED BY <3>1
  <2>3. c <= n /\ n \in 0 .. Len(messages) /\ S \subseteq c + 1 .. n
    BY <1>a, <2>1, <2>2 DEF PageFrom
  <2>4. /\ \A i \in DOMAIN r : r[i] <= c
        /\ \A i, j \in DOMAIN r : i < j => r[i] < r[j]
    BY <2>2 DEF InboxInv, ReceivedInOrder
  <2>5. /\ received' = r \o InOrder(S) /\ cursor' = n /\ handler' = "idle"
        /\ UNCHANGED <<messages, expired, reply>>
    BY <1>7, <2>2 DEF Respond, table
  <2>6. /\ received' \in Seq(Nat)
        /\ \A i \in DOMAIN received' : received'[i] <= n
        /\ \A i, j \in DOMAIN received' : i < j => received'[i] < received'[j]
        /\ ToSet(r) \cup S \subseteq ToSet(received')
    BY <2>3, <2>4, <2>5, Appended
  <2>7. InboxTypes' BY <1>a, <2>3, <2>5, <2>6 DEF InboxTypes
  <2>8. NothingSkipped'
    <3>1. SUFFICES ASSUME NEW s \in 1 .. n, messages[s] = "wanted"
                   PROVE  s \in ToSet(received') \cup expired
      BY <2>5 DEF NothingSkipped, ToSet
    <3>2. CASE s <= c
      <4>1. s \in 1 .. cursor BY <2>2, <3>2
      <4>2. s \in ToSet(r) \cup expired BY <2>2, <3>1, <4>1 DEF InboxInv, NothingSkipped
      <4>3. QED BY <2>6, <4>2
    <3>3. CASE c < s
      <4>1. s \in c + 1 .. n BY <3>3
      <4>2. s \in S \cup expired BY <2>1, <2>2, <3>1, <4>1 DEF PageFrom
      <4>3. QED BY <2>6, <4>2
    <3>4. QED BY <3>2, <3>3
  <2>9. QED BY <2>5, <2>6, <2>7, <2>8 DEF InboxInv, ReceivedInOrder
<1>8. QED BY <1>3, <1>4, <1>5, <1>6, <1>7 DEF Request

\* Every step of the inbox, its losses and restarts included.
LEMMA InboxNext == LimitAssumption /\ InboxInv /\ [Next]_vars => InboxInv'
<1> SUFFICES ASSUME LimitAssumption, InboxInv, [Next]_vars PROVE InboxInv'
  OBVIOUS
<1>a. InboxTypes /\ messages \in Seq({"wanted", "unwanted"}) /\ Len(messages) \in Nat
  BY DEF InboxInv, InboxTypes
<1>b. expired \subseteq 1 .. Len(messages) BY <1>a DEF InboxTypes
<1>1. CASE UNCHANGED <<messages, expired, handler, reply, cursor, received>>
  BY <1>a, <1>b, <1>1, TableStep
<1>2. ASSUME NEW type \in {"wanted", "unwanted"}, Insert(type) PROVE InboxInv'
  <2>1. /\ messages' = Append(messages, type)
        /\ UNCHANGED <<expired, handler, reply, cursor, received>>
    BY <1>2 DEF Insert, client
  <2>2. /\ messages' \in Seq({"wanted", "unwanted"}) /\ Len(messages') = Len(messages) + 1
        /\ \A s \in 1 .. Len(messages) : messages'[s] = messages[s]
    BY <1>a, <2>1
  <2>3. Len(messages) <= Len(messages') BY <1>a, <2>2
  <2>4. expired' \subseteq 1 .. Len(messages') BY <1>a, <1>b, <2>1, <2>2
  <2>5. QED BY <2>1, <2>2, <2>3, <2>4, TableStep
<1>3. ASSUME NEW s, Publish(s) \/ PublishFails(s) PROVE InboxInv'
  <2>1. UNCHANGED <<messages, expired, handler, reply, cursor, received>>
    BY <1>3 DEF Publish, PublishFails, client
  <2>2. QED BY <1>1, <2>1
<1>4. ASSUME NEW s, Expire(s) PROVE InboxInv'
  <2>1. /\ s \in 1 .. Len(messages) /\ expired' = expired \cup {s}
        /\ UNCHANGED <<messages, handler, reply, cursor, received>>
    BY <1>4, <1>a DEF Expire, client
  <2>2. expired' \subseteq 1 .. Len(messages') BY <1>b, <2>1
  <2>3. Len(messages) <= Len(messages') BY <1>a, <2>1
  <2>4. QED BY <1>a, <2>1, <2>2, <2>3, TableStep
<1>5. CASE Request BY <1>5, RequestStep
<1>6. CASE RequestFails
  <2>1. handler' = "idle" /\ UNCHANGED <<messages, expired, reply, cursor, received>>
    BY <1>6 DEF RequestFails, table
  <2>2. InboxTypes' BY <1>a, <2>1 DEF InboxTypes
  <2>3. QED BY <2>1, <2>2 DEF InboxInv, NothingSkipped, ReceivedInOrder
<1>7. CASE RestartAgent
  <2>1. /\ handler' = "idle" /\ cursor' = 0 /\ received' = <<>>
        /\ UNCHANGED <<messages, expired, reply>>
    BY <1>7 DEF RestartAgent, table
  <2>2. InboxTypes' BY <1>a, <2>1 DEF InboxTypes
  <2>3. QED BY <2>1, <2>2 DEF InboxInv, NothingSkipped, ReceivedInOrder
<1>8. QED BY <1>1, <1>2, <1>3, <1>4, <1>5, <1>6, <1>7 DEF Next, vars

\* The inductive invariant of the inbox.
LEMMA InboxInvariant == Spec => []InboxInv
<1>1. QED BY InboxInit, InboxNext, LimitAssumption, PTL DEF Spec

-----------------------------------------------------------------------------
(* Requests to the operator and their replies *)

\* The variables of OperatorRequests.
OperatorTypes ==
    /\ status \in [Requests -> {"none", "pending", "sent", "failed", "answered"}]
    /\ linked \in [Requests -> BOOLEAN]
    /\ asking \in [Requests -> {"idle", "notifying", "linking", "failing"}]
    /\ posted \subseteq Requests
    /\ replies \in [Updates -> [to: Requests \cup {NULL}, linked: BOOLEAN]]
    /\ pending \subseteq Updates
    /\ updates \subseteq Updates
    /\ answers \in [Updates -> Nat]

\* Updates reply to requests; an update in the ledger replies to one that is
\* linked, which no handler is still at; a request that is not there yet was
\* neither posted nor linked.
OperatorLinks ==
    /\ \A u \in pending \cup updates : replies[u].to \in Requests
    /\ \A u \in updates : linked[replies[u].to]
    /\ \A q \in Requests : linked[q] => asking[q] = "idle"
    /\ \A q \in Requests : status[q] = "none" =>
          asking[q] = "idle" /\ q \notin posted /\ ~linked[q]

\* Who is answered, in terms of the ledger.
AnsweredByLedger ==
    \A q \in Requests : status[q] = "answered" <=> \E u \in updates : replies[u].to = q

OperatorInv == OperatorTypes /\ OperatorLinks /\ AnsweredOnce /\ AnsweredByLedger

\* The two ways to say who is answered agree.
LEMMA LedgerAnswers ==
    OperatorTypes /\ AnsweredOnce => (AnsweredMeansReplied <=> AnsweredByLedger)
<1> SUFFICES ASSUME OperatorTypes, AnsweredOnce
             PROVE  AnsweredMeansReplied <=> AnsweredByLedger
  OBVIOUS
<1>1. \A u \in Updates : answers[u] > 0 <=> u \in updates
  BY DEF AnsweredOnce, Operator!AnsweredOnce
<1>2. QED
  BY <1>1 DEF AnsweredMeansReplied, Operator!AnsweredMeansReplied, OperatorTypes,
              AnsweredByLedger

\* Nothing has been asked.
LEMMA OperatorInit == NullAssumption /\ Operator!Init => OperatorInv
<1> SUFFICES ASSUME Operator!Init PROVE OperatorInv
  OBVIOUS
<1>1. OperatorTypes BY DEF Operator!Init, OperatorTypes
<1>2. QED
  BY <1>1 DEF Operator!Init, OperatorInv, OperatorLinks, AnsweredOnce,
              Operator!AnsweredOnce, AnsweredByLedger

\* A step of a handler: it changes the row of its own request, which is not
\* linked as long as the handler is at it, and so not answered.
LEMMA HandlerStepKeeps ==
    ASSUME OperatorInv, NEW q \in Requests, Operator!HandlerStep(q)
    PROVE  OperatorInv'
<1>a. OperatorTypes /\ OperatorLinks /\ AnsweredOnce /\ AnsweredByLedger BY DEF OperatorInv
<1>1. UNCHANGED <<replies, pending, updates, answers>>
  BY DEF Operator!HandlerStep, Operator!Create, Operator!NotifyPosted,
         Operator!NotifyFailed, Operator!SetTelegramMessage, Operator!SetFailed,
         Operator!Abandon, Operator!replyVars
<1>2. AnsweredOnce' BY <1>a, <1>1 DEF AnsweredOnce, Operator!AnsweredOnce
<1>3. linked[q] => asking[q] = "idle" BY <1>a DEF OperatorLinks
<1>4. ~linked[q] => status[q] # "answered" /\ \A u \in updates : replies[u].to # q
  BY <1>a DEF OperatorLinks, AnsweredByLedger
<1>5. ASSUME NEW new \in {"pending", "sent", "failed"}, NEW at, NEW link,
             ~linked[q],
             status' = [status EXCEPT ![q] = new],
             asking' = [asking EXCEPT ![q] = at],
             linked' = [linked EXCEPT ![q] = link],
             at \in {"idle", "notifying"}, link \in BOOLEAN, link => at = "idle",
             posted' = posted
      PROVE  OperatorInv'
  <2>1. OperatorTypes' BY <1>a, <1>1, <1>5 DEF OperatorTypes
  <2>2. \A p \in Requests : p # q =>
            status'[p] = status[p] /\ asking'[p] = asking[p] /\ linked'[p] = linked[p]
    BY <1>a, <1>5 DEF OperatorTypes
  <2>3. status'[q] = new /\ asking'[q] = at /\ linked'[q] = link
    BY <1>a, <1>5 DEF OperatorTypes
  <2>4. OperatorLinks'
    <3>1. \A u \in pending' \cup updates' : replies'[u].to \in Requests
      BY <1>a, <1>1 DEF OperatorLinks
    <3>2. \A u \in updates : replies[u].to \in Requests /\ linked[replies[u].to]
      BY <1>a DEF OperatorLinks
    <3>3. \A u \in updates' : linked'[replies'[u].to]
      BY <1>1, <1>4, <1>5, <2>2, <3>2
    <3>4. \A p \in Requests : linked'[p] => asking'[p] = "idle"
      BY <1>a, <1>5, <2>2, <2>3 DEF OperatorLinks
    <3>5. \A p \in Requests : status'[p] = "none" =>
              asking'[p] = "idle" /\ p \notin posted' /\ ~linked'[p]
      BY <1>a, <1>5, <2>2, <2>3 DEF OperatorLinks
    <3>6. QED BY <3>1, <3>3, <3>4, <3>5 DEF OperatorLinks
  <2>5. AnsweredByLedger'
    BY <1>a, <1>1, <1>4, <1>5, <2>2, <2>3 DEF AnsweredByLedger
  <2>6. QED BY <1>2, <2>1, <2>4, <2>5 DEF OperatorInv
<1>6. ASSUME NEW at \in {"idle", "linking", "failing"}, asking[q] # "idle",
             asking' = [asking EXCEPT ![q] = at],
             posted' \in {posted, posted \cup {q}}, UNCHANGED <<status, linked>>
      PROVE  OperatorInv'
  <2>1. OperatorTypes' BY <1>a, <1>1, <1>6 DEF OperatorTypes
  <2>2. asking'[q] = at /\ \A p \in Requests : p # q => asking'[p] = asking[p]
    BY <1>a, <1>6 DEF OperatorTypes
  <2>3. ~linked[q] /\ status[q] # "none" BY <1>a, <1>6 DEF OperatorLinks
  <2>4. OperatorLinks' BY <1>a, <1>1, <1>6, <2>2, <2>3 DEF OperatorLinks
  <2>5. AnsweredByLedger' BY <1>a, <1>1, <1>6 DEF AnsweredByLedger
  <2>6. QED BY <1>2, <2>1, <2>4, <2>5 DEF OperatorInv
<1>7. CASE Operator!Create(q)
  <2>1. ~linked[q] BY <1>a, <1>7 DEF Operator!Create, OperatorLinks
  <2>2. linked' = [linked EXCEPT ![q] = FALSE]
    BY <1>a, <1>7, <2>1 DEF Operator!Create, OperatorTypes
  <2>3. QED BY <1>5, <1>7, <2>1, <2>2 DEF Operator!Create
<1>8. CASE Operator!SetTelegramMessage(q)
  BY <1>3, <1>5, <1>8 DEF Operator!SetTelegramMessage
<1>9. CASE Operator!SetFailed(q)
  <2>1. ~linked[q] BY <1>3, <1>9 DEF Operator!SetFailed
  <2>2. linked' = [linked EXCEPT ![q] = FALSE]
    BY <1>a, <1>9, <2>1 DEF Operator!SetFailed, OperatorTypes
  <2>3. QED BY <1>5, <1>9, <2>1, <2>2 DEF Operator!SetFailed
<1>10. CASE Operator!NotifyPosted(q) BY <1>6, <1>10 DEF Operator!NotifyPosted
<1>11. CASE Operator!NotifyFailed(q) BY <1>6, <1>11 DEF Operator!NotifyFailed
<1>12. CASE Operator!Abandon(q) BY <1>6, <1>12 DEF Operator!Abandon
<1>13. QED
  BY <1>7, <1>8, <1>9, <1>10, <1>11, <1>12 DEF Operator!HandlerStep

\* The operator replies to a message in the chat.
LEMMA ReplyKeeps ==
    ASSUME NullAssumption, OperatorInv, NEW u \in Updates, NEW q \in Requests,
           Operator!Reply(u, q)
    PROVE  OperatorInv'
<1>a. OperatorTypes /\ OperatorLinks /\ AnsweredOnce /\ AnsweredByLedger BY DEF OperatorInv
<1> DEFINE row == [to |-> q, linked |-> linked[q]]
<1>1. /\ replies[u].to = NULL /\ replies' = [replies EXCEPT ![u] = row]
      /\ pending' = pending \cup {u}
      /\ UNCHANGED <<status, linked, asking, posted, updates, answers>>
  BY DEF Operator!Reply, Operator!requestVars
<1>2. row \in [to: Requests \cup {NULL}, linked: BOOLEAN] /\ row.to = q
  BY <1>a DEF OperatorTypes
<1> HIDE DEF row
<1>3. /\ replies'[u] = row /\ \A v \in Updates : v # u => replies'[v] = replies[v]
  BY <1>a, <1>1 DEF OperatorTypes
<1>4. u \notin updates BY <1>a, <1>1 DEF OperatorLinks, NullAssumption
<1>5. OperatorTypes' BY <1>a, <1>1, <1>2 DEF OperatorTypes
<1>6. \A v \in updates : replies'[v] = replies[v] BY <1>a, <1>3, <1>4 DEF OperatorTypes
<1>7. \A v \in pending' : v \in Updates /\ (v = u \/ v \in pending)
  BY <1>a, <1>1 DEF OperatorTypes
<1>8. OperatorLinks'
  <2>1. \A v \in pending' \cup updates' : replies'[v].to \in Requests
    BY <1>a, <1>1, <1>2, <1>3, <1>6, <1>7 DEF OperatorLinks
  <2>2. QED BY <1>a, <1>1, <1>6, <2>1 DEF OperatorLinks
<1>9. AnsweredOnce' BY <1>a, <1>1 DEF AnsweredOnce, Operator!AnsweredOnce
<1>10. AnsweredByLedger' BY <1>a, <1>1, <1>6 DEF AnsweredByLedger
<1>11. QED BY <1>5, <1>8, <1>9, <1>10 DEF OperatorInv

\* Telegram delivers an update, for the first time or again.
LEMMA DeliverKeeps ==
    ASSUME OperatorInv, NEW u \in Updates, Operator!DeliverReply(u)
    PROVE  OperatorInv'
<1>a. OperatorTypes /\ OperatorLinks /\ AnsweredOnce /\ AnsweredByLedger BY DEF OperatorInv
<1> DEFINE q == replies[u].to
<1>1. /\ u \in pending /\ pending' \in {pending, pending \ {u}}
      /\ UNCHANGED <<linked, asking, posted, replies>>
  BY DEF Operator!DeliverReply
<1>2. q \in Requests BY <1>a, <1>1 DEF OperatorLinks
<1>3. pending' \subseteq pending BY <1>1
<1>4. CASE UNCHANGED <<answers, status, updates>>
  <2>1. OperatorTypes' BY <1>a, <1>1, <1>3, <1>4 DEF OperatorTypes
  <2>2. OperatorLinks' BY <1>a, <1>1, <1>3, <1>4 DEF OperatorLinks
  <2>3. AnsweredOnce' BY <1>a, <1>4 DEF AnsweredOnce, Operator!AnsweredOnce
  <2>4. AnsweredByLedger' BY <1>a, <1>1, <1>4 DEF AnsweredByLedger
  <2>5. QED BY <2>1, <2>2, <2>3, <2>4 DEF OperatorInv
<1>5. CASE /\ u \notin updates /\ linked[q]
           /\ answers' = [answers EXCEPT ![u] = @ + 1]
           /\ status' = [status EXCEPT ![q] = "answered"]
           /\ updates' = updates \cup {u}
  <2>1. OperatorTypes'
    <3>1. answers[u] + 1 \in Nat BY <1>a DEF OperatorTypes
    <3>2. answers' \in [Updates -> Nat] BY <1>a, <1>5, <3>1 DEF OperatorTypes
    <3>3. QED BY <1>a, <1>1, <1>3, <1>5, <3>2 DEF OperatorTypes
  <2>2. status'[q] = "answered" /\ \A p \in Requests : p # q => status'[p] = status[p]
    BY <1>a, <1>2, <1>5 DEF OperatorTypes
  <2>3. OperatorLinks'
    <3>1. \A v \in pending' \cup updates' : v \in pending \cup updates BY <1>1, <1>3, <1>5
    <3>2. \A v \in updates' : linked'[replies'[v].to]
      BY <1>a, <1>1, <1>5 DEF OperatorLinks
    <3>3. QED BY <1>a, <1>1, <2>2, <3>1, <3>2 DEF OperatorLinks
  <2>4. AnsweredOnce'
    <3>1. answers[u] = 0 BY <1>a, <1>5 DEF AnsweredOnce, Operator!AnsweredOnce
    <3>2. answers'[u] = 1 /\ \A v \in Updates : v # u => answers'[v] = answers[v]
      BY <1>a, <1>5, <3>1 DEF OperatorTypes
    <3>3. QED BY <1>a, <1>5, <3>2 DEF AnsweredOnce, Operator!AnsweredOnce
  <2>5. AnsweredByLedger'
    <3>1. ASSUME NEW p \in Requests
          PROVE  status'[p] = "answered" <=> \E v \in updates' : replies'[v].to = p
      <4>1. CASE p = q BY <1>1, <1>5, <2>2, <4>1
      <4>2. CASE p # q
        <5>1. (\E v \in updates' : replies'[v].to = p)
                <=> \E v \in updates : replies[v].to = p
          BY <1>1, <1>5, <4>2
        <5>2. QED BY <1>a, <2>2, <4>2, <5>1 DEF AnsweredByLedger
      <4>3. QED BY <4>1, <4>2
    <3>2. QED BY <3>1 DEF AnsweredByLedger
  <2>6. QED BY <2>1, <2>3, <2>4, <2>5 DEF OperatorInv
<1>6. QED BY <1>4, <1>5 DEF Operator!DeliverReply

\* Every step about a request.
LEMMA OperatorNext ==
    NullAssumption /\ OperatorInv /\ [Operator!Next]_operatorVars => OperatorInv'
<1> SUFFICES ASSUME NullAssumption, OperatorInv, [Operator!Next]_operatorVars
             PROVE  OperatorInv'
  OBVIOUS
<1>1. CASE UNCHANGED operatorVars
  BY <1>1 DEF operatorVars, OperatorInv, OperatorTypes, OperatorLinks, AnsweredOnce,
              Operator!AnsweredOnce, AnsweredByLedger
<1>2. QED
  BY <1>1, HandlerStepKeeps, ReplyKeeps, DeliverKeeps DEF Operator!Next

\* The inductive invariant of the operator's requests.
LEMMA OperatorInvariant == Operator!Spec => []OperatorInv
<1>1. OperatorInv /\ [Operator!Next]_(Operator!vars) => OperatorInv'
  BY OperatorNext, NullAssumption DEF Operator!vars, operatorVars
<1>2. QED BY <1>1, OperatorInit, NullAssumption, PTL DEF Operator!Spec

-----------------------------------------------------------------------------
(* Both together *)

\* A step of the channel is one of the inbox and one of the operator's requests,
\* or leaves the one or the other alone.
LEMMA ChannelSteps ==
    ASSUME [ChannelNext]_allVars
    PROVE  [Next]_vars /\ [Operator!Next]_operatorVars
<1>1. CASE UNCHANGED allVars BY <1>1 DEF allVars
<1>2. CASE OperatorSide
  <2>1. UNCHANGED vars BY <1>2 DEF OperatorSide
  <2>2. Operator!Next BY <1>2 DEF OperatorSide, Operator!Next
  <2>3. QED BY <2>1, <2>2
<1>3. ASSUME NEW u \in Updates, TelegramReply(u)
      PROVE  [Next]_vars /\ [Operator!Next]_operatorVars
  <2>1. Operator!Next BY <1>3 DEF TelegramReply, Operator!Next
  <2>2. Insert("wanted") \/ UNCHANGED vars BY <1>3 DEF TelegramReply
  <2>3. QED BY <2>1, <2>2 DEF Next
<1>4. ASSUME NEW type \in {"wanted", "unwanted"}, OtherPosts(type)
      PROVE  [Next]_vars /\ [Operator!Next]_operatorVars
  BY <1>4 DEF OtherPosts, Next
<1>5. CASE InboxSide BY <1>5 DEF InboxSide, Next
<1>6. CASE Polls BY <1>6 DEF Polls, Next
<1>7. QED BY <1>1, <1>2, <1>3, <1>4, <1>5, <1>6 DEF ChannelNext

\* The channel implements its two parts: a behaviour of both together is one of
\* the inbox and, its handler renamed, one of the operator's requests.
THEOREM ChannelParts == ChannelSpec => Spec /\ Operator!Spec
<1>1. ChannelInit => Init /\ Operator!Init BY DEF ChannelInit
<1>2. [ChannelNext]_allVars => [Next]_vars BY ChannelSteps
<1>3. [ChannelNext]_allVars => [Operator!Next]_(Operator!vars)
  BY ChannelSteps DEF Operator!vars, operatorVars
<1>4. QED BY <1>1, <1>2, <1>3, PTL DEF ChannelSpec, Spec, Operator!Spec

\* The inbox passes over no message the agent wants, unless its ttl is over
\* (MessageStore.List, Client.Inbox).
THEOREM CursorSkipsNothing == ChannelSpec => []NothingSkipped
<1>1. InboxInv => NothingSkipped BY DEF InboxInv
<1>2. QED BY <1>1, ChannelParts, InboxInvariant, PTL

\* A polling agent gets its messages in the order in which they were stored,
\* and none twice (MessageStore.List, Client.Inbox).
THEOREM MessagesInOrder == ChannelSpec => []ReceivedInOrder
<1>1. InboxInv => ReceivedInOrder BY DEF InboxInv
<1>2. QED BY <1>1, ChannelParts, InboxInvariant, PTL

\* A reply becomes one ANSWER, when its update enters the ledger (DeliverReply).
THEOREM RepliesCountOnce == ChannelSpec => []AnsweredOnce
<1>1. OperatorInv => AnsweredOnce BY DEF OperatorInv
<1>2. QED BY <1>1, ChannelParts, OperatorInvariant, PTL

\* A request reads answered exactly when a reply to it was delivered, whatever
\* its handler writes late (DeliverReply, SetTelegramMessage, SetFailed).
THEOREM AnsweredByReply == ChannelSpec => []AnsweredMeansReplied
<1>1. OperatorInv => AnsweredMeansReplied BY LedgerAnswers DEF OperatorInv
<1>2. QED BY <1>1, ChannelParts, OperatorInvariant, PTL

\* The ledger and the table agree: each update of the ledger has a row of its
\* own, which the agent wants and which does not expire.
RowsOfReplies ==
    /\ rowOf \in [Updates -> Nat]
    /\ \A u \in Updates : u \in updates <=> rowOf[u] # 0
    /\ \A u \in updates : /\ rowOf[u] \in 1 .. Len(messages)
                          /\ messages[rowOf[u]] = "wanted"
                          /\ rowOf[u] \notin expired
    /\ \A u, v \in updates : rowOf[u] = rowOf[v] => u = v

\* Every step of the channel keeps the rows of the replies.
LEMMA RowsOfRepliesKept ==
    InboxInv /\ OperatorInv /\ RowsOfReplies /\ [ChannelNext]_allVars => RowsOfReplies'
<1> SUFFICES ASSUME InboxInv, OperatorInv, RowsOfReplies, [ChannelNext]_allVars
             PROVE  RowsOfReplies'
  OBVIOUS
<1>a. /\ messages \in Seq({"wanted", "unwanted"}) /\ Len(messages) \in Nat
      /\ expired \subseteq 1 .. Len(messages)
  BY DEF InboxInv, InboxTypes
<1>b. updates \subseteq Updates BY DEF OperatorInv, OperatorTypes
<1>1. CASE UNCHANGED <<messages, expired, updates, rowOf>>
  BY <1>1 DEF RowsOfReplies
<1>2. ASSUME NEW type \in {"wanted", "unwanted"}, Insert(type)
      PROVE  /\ Len(messages') = Len(messages) + 1
             /\ \A s \in 1 .. Len(messages) : messages'[s] = messages[s]
             /\ messages'[Len(messages) + 1] = type
             /\ expired' = expired
  BY <1>2, <1>a DEF Insert
<1>3. CASE OperatorSide
  <2>1. updates' = updates
    BY <1>3 DEF OperatorSide, Operator!HandlerStep, Operator!Create,
         Operator!NotifyPosted, Operator!NotifyFailed, Operator!SetTelegramMessage,
         Operator!SetFailed, Operator!Abandon, Operator!replyVars, Operator!Reply
  <2>2. QED BY <1>1, <1>3, <2>1 DEF OperatorSide, vars
<1>4. ASSUME NEW u \in Updates, TelegramReply(u) PROVE RowsOfReplies'
  <2>1. updates' = updates \/ (u \notin updates /\ updates' = updates \cup {u})
    BY <1>4 DEF TelegramReply, Operator!DeliverReply
  <2>2. CASE updates' = updates
    <3>1. UNCHANGED <<vars, rowOf>> BY <1>4, <2>2 DEF TelegramReply
    <3>2. QED BY <1>1, <2>2, <3>1 DEF vars
  <2>3. CASE u \notin updates /\ updates' = updates \cup {u}
    <3>1. /\ Insert("wanted") /\ rowOf' = [rowOf EXCEPT ![u] = Len(messages) + 1]
      BY <1>4, <2>3 DEF TelegramReply
    <3>2. PICK n \in Nat : n = Len(messages) BY <1>a
    <3>3. /\ Len(messages') = n + 1
          /\ \A s \in 1 .. n : messages'[s] = messages[s]
          /\ messages'[n + 1] = "wanted" /\ expired' = expired
      BY <1>2, <3>1, <3>2
    <3>4. /\ rowOf' \in [Updates -> Nat] /\ rowOf'[u] = n + 1
          /\ \A v \in Updates : v # u => rowOf'[v] = rowOf[v]
      BY <3>1, <3>2 DEF RowsOfReplies
    <3>5. \A v \in updates :
             rowOf[v] \in 1 .. n /\ messages[rowOf[v]] = "wanted" /\ rowOf[v] \notin expired
      BY <3>2 DEF RowsOfReplies
    <3>6. \A v \in updates : v \in Updates /\ v # u /\ rowOf'[v] = rowOf[v]
      BY <1>b, <2>3, <3>4
    <3>7. n + 1 \notin expired /\ n + 1 # 0 BY <1>a, <3>2
    <3>8. \A v \in Updates : v \in updates' <=> rowOf'[v] # 0
      BY <2>3, <3>4, <3>7 DEF RowsOfReplies
    <3>9. \A v \in updates' : /\ rowOf'[v] \in 1 .. Len(messages')
                              /\ messages'[rowOf'[v]] = "wanted"
                              /\ rowOf'[v] \notin expired'
      BY <2>3, <3>3, <3>4, <3>5, <3>6, <3>7
    <3>10. \A v, w \in updates' : rowOf'[v] = rowOf'[w] => v = w
      <4>1. \A v, w \in updates : rowOf[v] = rowOf[w] => v = w BY DEF RowsOfReplies
      <4>2. \A v \in updates : rowOf'[v] # n + 1 BY <3>5, <3>6
      <4>3. QED BY <2>3, <3>4, <3>6, <4>1, <4>2
    <3>11. QED BY <3>4, <3>8, <3>9, <3>10 DEF RowsOfReplies
  <2>4. QED BY <2>1, <2>2, <2>3
<1>5. ASSUME NEW type \in {"wanted", "unwanted"}, OtherPosts(type) PROVE RowsOfReplies'
  <2>1. Insert(type) /\ UNCHANGED <<updates, rowOf>>
    BY <1>5 DEF OtherPosts, operatorVars
  <2>2. /\ Len(messages') = Len(messages) + 1
        /\ \A s \in 1 .. Len(messages) : messages'[s] = messages[s]
        /\ expired' = expired
    BY <1>2, <2>1
  <2>3. QED BY <1>a, <2>1, <2>2 DEF RowsOfReplies
<1>6. CASE InboxSide
  <2>1. UNCHANGED <<updates, rowOf>> BY <1>6 DEF InboxSide, operatorVars
  <2>2. CASE UNCHANGED <<messages, expired>> BY <1>1, <2>1, <2>2
  <2>3. ASSUME NEW s \in DOMAIN messages \ AnswerRows, Expire(s) PROVE RowsOfReplies'
    <3>1. expired' = expired \cup {s} /\ messages' = messages BY <2>3 DEF Expire
    <3>2. \A u \in updates : rowOf[u] # s
      BY <1>b, <2>3 DEF AnswerRows, RowsOfReplies
    <3>3. QED BY <2>1, <3>1, <3>2 DEF RowsOfReplies
  <2>4. QED
    BY <1>6, <2>2, <2>3 DEF InboxSide, Publish, PublishFails, RequestFails, RestartAgent,
                            table, client
<1>7. CASE Polls
  <2>1. UNCHANGED <<messages, expired>>
    BY <1>7 DEF Polls, Request, FirstList, Subscribe, SecondList, TimeOut, Respond, table
  <2>2. UNCHANGED <<updates, rowOf>> BY <1>7 DEF Polls, operatorVars
  <2>3. QED BY <1>1, <2>1, <2>2
<1>8. CASE UNCHANGED allVars BY <1>1, <1>8 DEF allVars, vars, operatorVars
<1>9. QED BY <1>3, <1>4, <1>5, <1>6, <1>7, <1>8 DEF ChannelNext

\* A reply to a message that was linked by then is with Telegram or in the ledger.
LinkedReplies ==
    \A u \in Updates : replies[u].linked =>
        /\ replies[u].to \in Requests /\ linked[replies[u].to]
        /\ u \in pending \cup updates

\* No step gives such a reply up: a link is never taken back, so the delivery
\* that is acknowledged finds it.
LEMMA LinkedKept ==
    OperatorInv /\ LinkedReplies /\ [Operator!Next]_operatorVars => LinkedReplies'
<1> SUFFICES ASSUME OperatorInv, LinkedReplies, [Operator!Next]_operatorVars
             PROVE  LinkedReplies'
  OBVIOUS
<1>a. OperatorTypes BY DEF OperatorInv
<1>1. CASE UNCHANGED operatorVars BY <1>1 DEF operatorVars, LinkedReplies
<1>2. ASSUME NEW q \in Requests, Operator!HandlerStep(q) PROVE LinkedReplies'
  <2>1. UNCHANGED <<replies, pending, updates>>
    BY <1>2 DEF Operator!HandlerStep, Operator!Create, Operator!NotifyPosted,
                Operator!NotifyFailed, Operator!SetTelegramMessage, Operator!SetFailed,
                Operator!Abandon, Operator!replyVars
  <2>2. linked' = linked \/ linked' = [linked EXCEPT ![q] = TRUE]
    BY <1>2 DEF Operator!HandlerStep, Operator!Create, Operator!NotifyPosted,
                Operator!NotifyFailed, Operator!SetTelegramMessage, Operator!SetFailed,
                Operator!Abandon
  <2>3. \A p \in Requests : linked[p] => linked'[p] BY <1>a, <2>2 DEF OperatorTypes
  <2>4. QED BY <2>1, <2>3 DEF LinkedReplies
<1>3. ASSUME NEW u \in Updates, NEW q \in Requests, Operator!Reply(u, q)
      PROVE  LinkedReplies'
  <2>1. /\ replies' = [replies EXCEPT ![u] = [to |-> q, linked |-> linked[q]]]
        /\ pending' = pending \cup {u} /\ linked' = linked /\ updates' = updates
    BY <1>3 DEF Operator!Reply, Operator!requestVars
  <2>2. /\ replies'[u].to = q /\ replies'[u].linked = linked[q]
        /\ \A v \in Updates : v # u => replies'[v] = replies[v]
    BY <1>a, <2>1 DEF OperatorTypes
  <2>3. QED BY <2>1, <2>2 DEF LinkedReplies
<1>4. ASSUME NEW u \in Updates, Operator!DeliverReply(u) PROVE LinkedReplies'
  <2>1. /\ pending \ {u} \subseteq pending' /\ updates \subseteq updates'
        /\ UNCHANGED <<linked, replies>>
    BY <1>4 DEF Operator!DeliverReply
  <2>2. linked[replies[u].to] => u \in updates' BY <1>4 DEF Operator!DeliverReply
  <2>3. QED BY <2>1, <2>2 DEF LinkedReplies
<1>5. QED BY <1>1, <1>2, <1>3, <1>4 DEF Operator!Next

\* A reply to a message whose id was stored is never lost: it is with Telegram,
\* which delivers it again, ahead of the agent's cursor, or in the agent's hands,
\* and no two share a row, whatever fails or starts again (what the platform owes
\* RepliesReachTheAgent; that Telegram delivers and the agent asks is fairness).
THEOREM RepliesNotLost ==
    ChannelSpec => []( /\ \A u \in Updates : replies[u].linked =>
                              \/ u \in pending
                              \/ rowOf[u] \in cursor + 1 .. Len(messages)
                              \/ rowOf[u] \in ToSet(received)
                       /\ \A u, v \in updates : rowOf[u] = rowOf[v] => u = v )
<1> DEFINE Kept ==
      /\ \A u \in Updates : replies[u].linked =>
             \/ u \in pending
             \/ rowOf[u] \in cursor + 1 .. Len(messages)
             \/ rowOf[u] \in ToSet(received)
      /\ \A u, v \in updates : rowOf[u] = rowOf[v] => u = v
<1>1. ChannelInit => RowsOfReplies /\ LinkedReplies
  BY DEF ChannelInit, Operator!Init, RowsOfReplies, LinkedReplies
<1>2. InboxInv /\ RowsOfReplies /\ LinkedReplies => Kept
  <2> SUFFICES ASSUME InboxInv, RowsOfReplies, NEW u \in updates,
                      rowOf[u] \notin cursor + 1 .. Len(messages)
               PROVE  rowOf[u] \in ToSet(received)
    BY DEF RowsOfReplies, LinkedReplies
  <2>1. cursor \in 0 .. Len(messages) /\ Len(messages) \in Nat
    BY DEF InboxInv, InboxTypes
  <2>2. rowOf[u] \in 1 .. Len(messages) BY DEF RowsOfReplies
  <2>3. rowOf[u] \in 1 .. cursor BY <2>1, <2>2
  <2>4. QED BY <2>3 DEF InboxInv, NothingSkipped, RowsOfReplies
<1>3. ChannelSpec => []RowsOfReplies
  BY <1>1, ChannelParts, InboxInvariant, OperatorInvariant, RowsOfRepliesKept, PTL
  DEF ChannelSpec
<1>4. [ChannelNext]_allVars => [Operator!Next]_operatorVars BY ChannelSteps
<1>5. ChannelSpec => []LinkedReplies
  BY <1>1, <1>4, ChannelParts, OperatorInvariant, LinkedKept, PTL DEF ChannelSpec
<1>6. QED BY <1>2, <1>3, <1>5, ChannelParts, InboxInvariant, PTL
=============================================================================
