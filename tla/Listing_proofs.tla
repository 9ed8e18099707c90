--------------------------- MODULE Listing_proofs ---------------------------
(***************************************************************************)
(* The pages of a listing, for any rows, ids, sizes of a page, clocks and  *)
(* changes between two pages: a walk returns what matched throughout, and  *)
(* its rows ascend.                                                        *)
(***************************************************************************)
EXTENDS Listing, FiniteSetTheorems, SequenceTheorems, TLAPS

-----------------------------------------------------------------------------
(* The order of created_at and the id *)

\* What the order compares, of a row or of a cursor.
Compared(r) == r.created \in Nat /\ r.id \in Nat

\* Rows of a table: their ids are primary keys.
Rows(S) ==
    /\ IsFiniteSet(S)
    /\ \A r \in S : Compared(r)
    /\ \A r, s \in S : r.id = s.id => r = s

\* The order is a strict one, and total but for the id.
LEMMA PositionsOrdered ==
    ASSUME NEW r, NEW s, NEW t, Compared(r), Compared(s), Compared(t)
    PROVE  /\ ~Before(r, r)
           /\ Before(r, s) => ~Before(s, r)
           /\ Before(r, s) /\ Before(s, t) => Before(r, t)
           /\ ~Before(s, r) /\ Before(s, t) => Before(r, t)
           /\ Before(r, s) /\ ~Before(t, s) => Before(r, t)
           /\ r.id # s.id => Before(r, s) \/ Before(s, r)
<1>1. /\ r.created \in Nat /\ r.id \in Nat /\ s.created \in Nat /\ s.id \in Nat
      /\ t.created \in Nat /\ t.id \in Nat
  BY DEF Compared
<1>2. QED BY <1>1 DEF Before

\* Some of the rows of a table.
LEMMA RowsAmong ==
    ASSUME NEW S, Rows(S), NEW T \in SUBSET S
    PROVE  Rows(T)
<1>1. IsFiniteSet(T) BY FS_Subset DEF Rows
<1>2. QED BY <1>1 DEF Rows

\* Of two rows one is before the other.
LEMMA RowsOrdered ==
    ASSUME NEW S, Rows(S)
    PROVE  /\ \A r \in S : ~Before(r, r)
           /\ \A r, s \in S : Before(r, s) => ~Before(s, r)
           /\ \A r, s, t \in S : Before(r, s) /\ Before(s, t) => Before(r, t)
           /\ \A r, s \in S : r # s => Before(r, s) \/ Before(s, r)
<1>1. \A r \in S : Compared(r) BY DEF Rows
<1>2. \A r \in S : ~Before(r, r) BY <1>1, PositionsOrdered
<1>3. \A r, s \in S : Before(r, s) => ~Before(s, r) BY <1>1, PositionsOrdered
<1>4. \A r, s, t \in S : Before(r, s) /\ Before(s, t) => Before(r, t)
  BY <1>1, PositionsOrdered
<1>5. ASSUME NEW r \in S, NEW s \in S, r # s PROVE Before(r, s) \/ Before(s, r)
  <2>1. r.id # s.id BY <1>5 DEF Rows
  <2>2. QED BY <1>1, <2>1, PositionsOrdered
<1>6. QED BY <1>2, <1>3, <1>4, <1>5

\* The rows of a set have the places 0, 1, 2 and so on, in their order.
LEMMA Places ==
    ASSUME NEW S, Rows(S)
    PROVE  /\ Cardinality(S) \in Nat
           /\ \A s \in S : Place(S, s) \in 0 .. Cardinality(S) - 1
           /\ \A s, t \in S : Before(s, t) => Place(S, s) < Place(S, t)
           /\ \A i \in 0 .. Cardinality(S) - 1 : \E s \in S : Place(S, s) = i
<1> DEFINE n == Cardinality(S)
           L(x) == {u \in S : Before(u, x)}
           place == [s \in S |-> Place(S, s)]
<1>a. IsFiniteSet(S) BY DEF Rows
<1>1. n \in Nat BY <1>a, FS_CardinalityType
<1>2. ASSUME NEW s \in S PROVE Place(S, s) \in 0 .. n - 1
  <2>a. ~Before(s, s) BY RowsOrdered
  <2>1. L(s) \in SUBSET S /\ L(s) # S BY <2>a
  <2>2. IsFiniteSet(L(s)) /\ Cardinality(L(s)) <= n /\ Cardinality(L(s)) # n
    BY <1>a, <2>1, FS_Subset
  <2>3. Cardinality(L(s)) \in Nat BY <2>2, FS_CardinalityType
  <2>4. QED BY <1>1, <2>2, <2>3 DEF Place
<1>3. ASSUME NEW s \in S, NEW t \in S, Before(s, t) PROVE Place(S, s) < Place(S, t)
  <2>1. IsFiniteSet(L(t)) BY <1>a, FS_Subset
  <2>a. \A u \in S : Before(u, s) => Before(u, t) BY <1>3, RowsOrdered
  <2>b. ~Before(s, s) BY RowsOrdered
  <2>2. L(s) \in SUBSET L(t) /\ s \in L(t) /\ s \notin L(s) BY <1>3, <2>a, <2>b
  <2>3. /\ IsFiniteSet(L(s)) /\ Cardinality(L(s)) <= Cardinality(L(t))
        /\ Cardinality(L(s)) # Cardinality(L(t))
    BY <2>1, <2>2, FS_Subset
  <2>4. Cardinality(L(s)) \in Nat /\ Cardinality(L(t)) \in Nat
    BY <2>1, <2>3, FS_CardinalityType
  <2>5. QED BY <2>3, <2>4 DEF Place
<1>4. \A s, t \in S : Place(S, s) = Place(S, t) => s = t
  <2>1. SUFFICES ASSUME NEW s \in S, NEW t \in S, Place(S, s) = Place(S, t), s # t
                 PROVE  FALSE
    OBVIOUS
  <2>2. Before(s, t) \/ Before(t, s) BY <2>1, RowsOrdered
  <2>3. Place(S, s) \in Int BY <1>1, <1>2
  <2>4. QED BY <1>3, <2>1, <2>2, <2>3
<1>5. place \in Injection(S, 0 .. n - 1) BY <1>2, <1>4 DEF Injection, IsInjective
<1>6. IsFiniteSet(0 .. n - 1) /\ Cardinality(0 .. n - 1) = n
  <2>1. 0 \in Int /\ n - 1 \in Int /\ (0 > n - 1 => n = 0) BY <1>1
  <2>2. QED BY <1>1, <2>1, FS_Interval
<1>7. place \in Surjection(S, 0 .. n - 1) BY <1>a, <1>5, <1>6, FS_Injection
<1>8. \A i \in 0 .. n - 1 : \E s \in S : place[s] = i
  BY <1>7 DEF Surjection
<1>9. QED BY <1>1, <1>2, <1>3, <1>8

\* The place of a row tells it from the others and tells what is before it.
LEMMA PlacesTell ==
    ASSUME NEW S, Rows(S)
    PROVE  /\ \A s, t \in S : Place(S, s) = Place(S, t) => s = t
           /\ \A s, t \in S : Place(S, s) < Place(S, t) => Before(s, t)
<1>1. \A s \in S : Place(S, s) \in Int
  <2>1. Cardinality(S) \in Nat /\ \A s \in S : Place(S, s) \in 0 .. Cardinality(S) - 1
    BY Places
  <2>2. QED BY <2>1
<1>2. \A s, t \in S : Before(s, t) => Place(S, s) < Place(S, t) BY Places
<1>3. \A s, t \in S : s # t => Before(s, t) \/ Before(t, s) BY RowsOrdered
<1>4. \A s, t \in S : Place(S, s) = Place(S, t) => s = t
  <2>1. SUFFICES ASSUME NEW s \in S, NEW t \in S, Place(S, s) = Place(S, t), s # t
                 PROVE  FALSE
    OBVIOUS
  <2>2. Place(S, s) < Place(S, t) \/ Place(S, t) < Place(S, s) BY <1>2, <1>3, <2>1
  <2>3. QED BY <1>1, <2>1, <2>2
<1>5. \A s, t \in S : Place(S, s) < Place(S, t) => Before(s, t)
  <2>1. SUFFICES ASSUME NEW s \in S, NEW t \in S, Place(S, s) < Place(S, t),
                        ~Before(s, t)
                 PROVE  FALSE
    OBVIOUS
  <2>2. s = t \/ Before(t, s) BY <1>3, <2>1
  <2>3. Place(S, s) = Place(S, t) \/ Place(S, t) < Place(S, s) BY <1>2, <2>2
  <2>4. QED BY <1>1, <2>1, <2>3
<1>6. QED BY <1>4, <1>5

\* ORDER BY lists each row once, in ascending order.
LEMMA Ordered ==
    ASSUME NEW S, Rows(S)
    PROVE  /\ InOrder(S) \in Seq(S)
           /\ \A i, j \in 1 .. Len(InOrder(S)) :
                 i < j => Before(InOrder(S)[i], InOrder(S)[j])
           /\ \A s \in S : \E i \in 1 .. Len(InOrder(S)) : InOrder(S)[i] = s
<1> DEFINE n == Cardinality(S)
           at(i) == CHOOSE s \in S : Place(S, s) = i - 1
<1>1. /\ n \in Nat
      /\ \A s \in S : Place(S, s) \in 0 .. n - 1
      /\ \A i \in 0 .. n - 1 : \E s \in S : Place(S, s) = i
  BY Places
<1>2. ASSUME NEW i \in 1 .. n PROVE at(i) \in S /\ Place(S, at(i)) = i - 1
  <2>1. i - 1 \in 0 .. n - 1 BY <1>1
  <2>2. \E s \in S : Place(S, s) = i - 1 BY <1>1, <2>1
  <2>3. QED BY <2>2
<1>3. InOrder(S) = [i \in 1 .. n |-> at(i)] BY DEF InOrder
<1> HIDE DEF at, n
<1>4. InOrder(S) \in Seq(S) /\ Len(InOrder(S)) = n BY <1>1, <1>2, <1>3
<1>5. ASSUME NEW i \in 1 .. n, NEW j \in 1 .. n, i < j PROVE Before(at(i), at(j))
  <2>1. i - 1 < j - 1 BY <1>1, <1>5
  <2>2. at(i) \in S /\ at(j) \in S /\ Place(S, at(i)) < Place(S, at(j))
    BY <1>2, <2>1
  <2>3. QED BY <2>2, PlacesTell
<1>6. ASSUME NEW s \in S PROVE \E i \in 1 .. n : at(i) = s
  <2>1. Place(S, s) + 1 \in 1 .. n BY <1>1
  <2>2. PICK i \in 1 .. n : i - 1 = Place(S, s) BY <1>1, <2>1
  <2>3. at(i) \in S /\ Place(S, at(i)) = Place(S, s) BY <1>2, <2>2
  <2>4. at(i) = s BY <2>3, PlacesTell
  <2>5. QED BY <2>4
<1>7. \A i \in 1 .. n : InOrder(S)[i] = at(i) BY <1>3
<1>8. QED BY <1>4, <1>5, <1>6, <1>7

\* A page that is not empty has a last row.
LEMMA LastOfRows ==
    ASSUME NEW S, Rows(S), S # {}
    PROVE  /\ LastRow(S) \in S
           /\ \A s \in S : s # LastRow(S) => Before(s, LastRow(S))
<1>1. Cardinality(S) \in Nat /\ Cardinality(S) # 0
  BY FS_CardinalityType, FS_EmptySet DEF Rows
<1>2. PICK r \in S : Place(S, r) = Cardinality(S) - 1 BY <1>1, Places
<1>3. \A s \in S : Place(S, s) \in 0 .. Cardinality(S) - 1 BY Places
<1>4. ASSUME NEW s \in S, s # r PROVE Before(s, r)
  <2>1. Place(S, s) # Place(S, r) BY <1>4, PlacesTell
  <2>2. Place(S, s) < Place(S, r) BY <1>1, <1>2, <1>3, <2>1
  <2>3. QED BY <2>2, PlacesTell
<1>5. \E x \in S : \A s \in S \ {x} : Before(s, x) BY <1>4
<1>6. LastRow(S) \in S /\ \A s \in S \ {LastRow(S)} : Before(s, LastRow(S))
  BY <1>5 DEF LastRow
<1>7. QED BY <1>6

-----------------------------------------------------------------------------
(* LIMIT *)

\* LIMIT n takes rows from the front, and all of them if there are no more.
LEMMA FirstRows ==
    ASSUME NEW S, Rows(S), NEW n \in Nat
    PROVE  /\ FirstOf(S, n) \in SUBSET S
           /\ \A r \in FirstOf(S, n), s \in S : Before(s, r) => s \in FirstOf(S, n)
           /\ Cardinality(S) <= n => FirstOf(S, n) = S
           /\ n # 0 /\ S # {} => FirstOf(S, n) # {}
<1>1. Cardinality(S) \in Nat /\ \A s \in S : Place(S, s) \in 0 .. Cardinality(S) - 1
  BY Places
<1>2. FirstOf(S, n) \in SUBSET S BY DEF FirstOf
<1>3. ASSUME NEW r \in FirstOf(S, n), NEW s \in S, Before(s, r)
      PROVE  s \in FirstOf(S, n)
  <2>1. r \in S /\ Place(S, r) < n BY DEF FirstOf
  <2>2. Place(S, s) < Place(S, r) BY <1>3, <2>1, Places
  <2>3. Place(S, s) \in Int /\ Place(S, r) \in Int BY <1>1, <2>1
  <2>4. Place(S, s) < n BY <2>1, <2>2, <2>3
  <2>5. QED BY <2>4 DEF FirstOf
<1>4. ASSUME Cardinality(S) <= n PROVE FirstOf(S, n) = S
  <2>1. \A s \in S : Place(S, s) < n BY <1>1, <1>4
  <2>2. QED BY <2>1 DEF FirstOf
<1>5. ASSUME n # 0, S # {} PROVE FirstOf(S, n) # {}
  <2>1. Cardinality(S) # 0 BY <1>5, FS_EmptySet DEF Rows
  <2>2. 0 \in 0 .. Cardinality(S) - 1 BY <1>1, <2>1
  <2>3. PICK s \in S : Place(S, s) = 0 BY <2>2, Places
  <2>4. Place(S, s) < n BY <1>5, <2>3
  <2>5. QED BY <2>4 DEF FirstOf
<1>6. QED BY <1>2, <1>3, <1>4, <1>5

\* A page that comes back with no more than n of n + 1 rows was the last one.
LEMMA NoMoreRows ==
    ASSUME NEW S, Rows(S), NEW n \in Nat, Cardinality(FirstOf(S, n + 1)) <= n
    PROVE  FirstOf(S, n + 1) = S
<1> DEFINE F == FirstOf(S, n + 1)
<1>1. Cardinality(S) \in Nat /\ \A s \in S : Place(S, s) \in 0 .. Cardinality(S) - 1
  BY Places
<1>2. SUFFICES ASSUME Cardinality(S) > n + 1 PROVE FALSE
  <2>1. n + 1 \in Nat /\ (Cardinality(S) <= n + 1 \/ Cardinality(S) > n + 1) BY <1>1
  <2>2. QED BY <2>1, FirstRows, <1>1
<1>3. n \in 0 .. Cardinality(S) - 1 BY <1>1, <1>2
<1>4. PICK r \in S : Place(S, r) = n BY <1>3, Places
<1>5. r \in F BY <1>4 DEF FirstOf
<1> DEFINE L == {s \in S : Before(s, r)}
<1>6. L \in SUBSET F
  <2>1. \A s \in L : Place(S, s) < n BY <1>4, Places
  <2>2. \A s \in L : Place(S, s) < n + 1 BY <1>1, <2>1
  <2>3. QED BY <2>2 DEF FirstOf
<1>7. r \notin L BY RowsOrdered
<1>8. F \in SUBSET S BY DEF FirstOf
<1>9. IsFiniteSet(F) BY <1>8, FS_Subset DEF Rows
<1>10. Cardinality(L) = n BY <1>4 DEF Place
<1>11. L # F BY <1>5, <1>7
<1> HIDE DEF F, L
<1>12. IsFiniteSet(L) /\ Cardinality(L) <= Cardinality(F) /\ Cardinality(L) # Cardinality(F)
  BY <1>6, <1>9, <1>11, FS_Subset
<1>13. Cardinality(F) \in Nat BY <1>9, FS_CardinalityType
<1>14. Cardinality(F) <= n BY DEF F
<1>15. QED BY <1>10, <1>12, <1>13, <1>14

\* What a page is of the rows S ahead of the cursor, and what is left of them.
LEMMA PageOfRows ==
    ASSUME NEW S, Rows(S), NEW n \in Nat \ {0}
    PROVE  LET fetched == FirstOf(S, n + 1)
               rowsOfPage == FirstOf(fetched, n)
           IN  /\ Cardinality(fetched) > n =>
                     /\ rowsOfPage \in SUBSET S /\ rowsOfPage # {}
                     /\ \A r \in rowsOfPage, s \in S : Before(s, r) => s \in rowsOfPage
               /\ ~(Cardinality(fetched) > n) => rowsOfPage = S
<1> DEFINE F == FirstOf(S, n + 1)
           P == FirstOf(F, n)
<1>1. n \in Nat /\ n + 1 \in Nat /\ n # 0 OBVIOUS
<1>2. /\ F \in SUBSET S
      /\ \A r \in F, s \in S : Before(s, r) => s \in F
  BY <1>1, FirstRows
<1>3. Rows(F) BY <1>2, RowsAmong
<1>a. Cardinality(F) \in Nat BY <1>3, Places
<1>4. ~(Cardinality(F) > n) => F = S
  <2>1. ~(Cardinality(F) > n) => Cardinality(F) <= n BY <1>1, <1>a
  <2>2. QED BY <1>1, <2>1, NoMoreRows
<1> HIDE DEF F
<1>5. /\ P \in SUBSET F
      /\ \A r \in P, s \in F : Before(s, r) => s \in P
      /\ Cardinality(F) <= n => P = F
      /\ F # {} => P # {}
  BY <1>1, <1>3, FirstRows
<1> HIDE DEF P
<1>6. ASSUME Cardinality(F) > n
      PROVE  /\ P \in SUBSET S /\ P # {}
             /\ \A r \in P, s \in S : Before(s, r) => s \in P
  <2>1. F # {}
    <3>1. Cardinality(F) # 0 BY <1>1, <1>6, <1>a
    <3>2. QED BY <3>1, FS_EmptySet
  <2>2. QED BY <1>2, <1>5, <2>1
<1>7. ASSUME ~(Cardinality(F) > n) PROVE P = S
  <2>1. Cardinality(F) <= n BY <1>1, <1>7, <1>a
  <2>2. QED BY <1>4, <1>5, <1>7, <2>1
<1>8. QED BY <1>6, <1>7 DEF P, F

\* The rows of the next page behind those of the pages before it.
LEMMA Appended ==
    ASSUME NEW R, Rows(R), NEW q \in Seq(R), NEW c, Compared(c),
           \A i \in DOMAIN q : ~Before(c, q[i]),
           \A i, j \in DOMAIN q : i < j => Before(q[i], q[j]),
           NEW S \in SUBSET R, \A s \in S : Before(c, s)
    PROVE  LET all == q \o InOrder(S)
           IN  /\ all \in Seq(R)
               /\ \A i, j \in DOMAIN all : i < j => Before(all[i], all[j])
               /\ ToSet(all) = ToSet(q) \cup S
<1> DEFINE t == InOrder(S)
           all == q \o t
<1>1. Rows(S) BY RowsAmong
<1>2. /\ t \in Seq(S)
      /\ \A i, j \in 1 .. Len(t) : i < j => Before(t[i], t[j])
      /\ \A s \in S : \E i \in 1 .. Len(t) : t[i] = s
  BY <1>1, Ordered
<1> HIDE DEF t
<1>3. /\ Len(t) \in Nat /\ Len(q) \in Nat /\ t \in [1 .. Len(t) -> S]
      /\ q \in [1 .. Len(q) -> R] /\ DOMAIN q = 1 .. Len(q)
  BY <1>2
<1>4. t \in Seq(R)
  <2>1. t \in [1 .. Len(t) -> R] BY <1>3
  <2>2. QED BY <1>3, <2>1
<1>5. /\ all \in Seq(R) /\ Len(all) = Len(q) + Len(t)
      /\ \A i \in 1 .. Len(q) + Len(t) :
            all[i] = IF i <= Len(q) THEN q[i] ELSE t[i - Len(q)]
  BY <1>4, ConcatProperties
<1> HIDE DEF all
<1>6. DOMAIN all = 1 .. Len(all) BY <1>5
<1>7. ASSUME NEW i \in 1 .. Len(all)
      PROVE  /\ i <= Len(q) => i \in DOMAIN q /\ all[i] = q[i]
             /\ i > Len(q) => i - Len(q) \in 1 .. Len(t) /\ all[i] = t[i - Len(q)]
  BY <1>3, <1>5
<1>8. \A i \in 1 .. Len(t) : t[i] \in S BY <1>3
<1>9. \A i \in DOMAIN q : q[i] \in R BY <1>3
<1>10. ASSUME NEW i \in 1 .. Len(all), NEW j \in 1 .. Len(all), i < j
       PROVE  Before(all[i], all[j])
  <2>1. CASE j <= Len(q)
    <3>1. i <= Len(q) BY <1>3, <1>10, <2>1
    <3>2. i \in DOMAIN q /\ j \in DOMAIN q /\ all[i] = q[i] /\ all[j] = q[j]
      BY <1>7, <2>1, <3>1
    <3>3. QED BY <1>10, <3>2
  <2>2. CASE i <= Len(q) /\ j > Len(q)
    <3>1. i \in DOMAIN q /\ all[i] = q[i] BY <1>7, <2>2
    <3>2. all[j] \in S BY <1>7, <1>8, <2>2
    <3>3. ~Before(c, all[i]) /\ Before(c, all[j]) BY <3>1, <3>2
    <3>4. Compared(all[i]) /\ Compared(all[j]) BY <1>9, <3>1, <3>2 DEF Rows
    <3>5. QED BY <3>3, <3>4, PositionsOrdered
  <2>3. CASE i > Len(q)
    <3>1. j > Len(q) BY <1>3, <1>10, <2>3
    <3>2. /\ i - Len(q) \in 1 .. Len(t) /\ j - Len(q) \in 1 .. Len(t)
          /\ all[i] = t[i - Len(q)] /\ all[j] = t[j - Len(q)]
      BY <1>7, <2>3, <3>1
    <3>3. i - Len(q) < j - Len(q) BY <1>3, <1>10
    <3>4. QED BY <1>2, <3>2, <3>3
  <2>4. QED BY <1>3, <2>1, <2>2, <2>3
<1>11. ASSUME NEW r \in ToSet(all) PROVE r \in ToSet(q) \cup S
  <2>1. PICK i \in 1 .. Len(all) : all[i] = r BY <1>6 DEF ToSet
  <2>2. CASE i <= Len(q) BY <1>7, <2>1, <2>2 DEF ToSet
  <2>3. CASE i > Len(q) BY <1>7, <1>8, <2>1, <2>3
  <2>4. QED BY <1>3, <2>2, <2>3
<1>12. ASSUME NEW r \in ToSet(q) PROVE r \in ToSet(all)
  <2>1. PICK i \in 1 .. Len(q) : q[i] = r BY <1>3 DEF ToSet
  <2>2. i \in 1 .. Len(all) /\ all[i] = r BY <1>3, <1>5, <2>1
  <2>3. QED BY <1>6, <2>2 DEF ToSet
<1>13. ASSUME NEW r \in S PROVE r \in ToSet(all)
  <2>1. PICK i \in 1 .. Len(t) : t[i] = r BY <1>2
  <2>2. PICK k \in Nat : k = Len(q) + i BY <1>3
  <2>3. k \in 1 .. Len(all) /\ ~(k <= Len(q)) /\ k - Len(q) = i BY <1>3, <1>5, <2>2
  <2>4. all[k] = r BY <1>5, <2>1, <2>3
  <2>5. QED BY <1>6, <2>3, <2>4 DEF ToSet
<1>14. ToSet(all) = ToSet(q) \cup S BY <1>11, <1>12, <1>13
<1>15. QED BY <1>5, <1>6, <1>10, <1>14 DEF all, t

-----------------------------------------------------------------------------
(* The walk *)

\* The types, and that the ids of the two sets are those of rows: a row that is
\* created does not match before.
ListingTypes ==
    /\ now \in Nat
    /\ Rows(rows) /\ \A r \in rows : r.id \in Ids
    /\ matching \subseteq {r.id : r \in rows}
    /\ steady \subseteq matching
    /\ Compared(cursor)
    /\ seen \in Seq(rows)

\* While there is a next page: what was returned is not after the cursor, and
\* of what is not after the cursor everything that matched throughout was.
WalkInv ==
    walking =>
      /\ \A i \in DOMAIN seen : ~Before(cursor, seen[i])
      /\ \A r \in rows : r.id \in steady /\ r.tagged /\ ~Before(cursor, r)
                            => r \in ToSet(seen)

ListingInv == ListingTypes /\ WalkInv /\ WalkMissesNothing /\ PagesAscend

\* No row of the walk is before a page is asked for.
LEMMA BeginsEmpty ==
    ASSUME IdsAssumption, ListingTypes
    PROVE  /\ Compared(Start)
           /\ \A r \in rows : Before(Start, r)
<1>1. Start.created = 0 /\ Start.id = 0 BY DEF Start
<1>2. \A r \in rows : r.created \in Nat /\ r.id \in Nat \ {0}
  BY DEF IdsAssumption, ListingTypes, Rows, Compared
<1>3. QED BY <1>1, <1>2 DEF Before, Compared

\* A page is returned.
LEMMA ReturnStep ==
    ASSUME IdsAssumption, ListingInv, NEW limit \in Nat \ {0},
           NEW S \in SUBSET Page(limit), \A r \in Page(limit) : r.tagged => r \in S,
           Return(limit, S)
    PROVE  ListingInv'
<1> DEFINE A == After(cursor)
           P == Page(limit)
           c == NextCursor(limit)
           q == seen \o InOrder(S)
<1>1. ListingTypes /\ walking /\ WalkInv /\ PagesAscend
  BY DEF ListingInv, Return
<1>2. /\ seen' = q /\ walking' = More(limit) /\ cursor' = c
      /\ UNCHANGED <<table, now, rows, matching, steady>>
  BY DEF Return
<1>3. A \in SUBSET rows /\ \A r \in A : Before(cursor, r) BY DEF After
<1>4. Rows(rows) /\ Rows(A) BY <1>1, <1>3, RowsAmong DEF ListingTypes
<1>5. /\ More(limit) =>
           /\ P \in SUBSET A /\ P # {}
           /\ \A r \in P, s \in A : Before(s, r) => s \in P
      /\ ~More(limit) => P = A
  BY <1>4, PageOfRows DEF Page, More, Fetched
<1>6. P \in SUBSET A /\ S \in SUBSET A BY <1>5
<1>7. S \in SUBSET rows /\ \A s \in S : Before(cursor, s) BY <1>3, <1>6
<1>8. seen \in Seq(rows) /\ Compared(cursor) /\ \A i \in DOMAIN seen : ~Before(cursor, seen[i])
  BY <1>1 DEF ListingTypes, WalkInv
<1>9. \A i, j \in DOMAIN seen : i < j => Before(seen[i], seen[j])
  BY <1>1 DEF PagesAscend
<1> HIDE DEF A, P, c
<1>10. /\ q \in Seq(rows)
       /\ \A i, j \in DOMAIN q : i < j => Before(q[i], q[j])
       /\ ToSet(q) = ToSet(seen) \cup S
  BY <1>4, <1>7, <1>8, <1>9, Appended
<1> HIDE DEF q
<1>11. PagesAscend' BY <1>2, <1>10 DEF PagesAscend
<1>12. ASSUME NEW r \in rows, r.id \in steady, r.tagged, r \in P \/ ~Before(cursor, r)
       PROVE  r \in ToSet(q)
  <2>1. CASE r \in P BY <1>10, <1>12, <2>1 DEF P
  <2>2. CASE ~Before(cursor, r)
    <3>1. r \in ToSet(seen) BY <1>1, <1>12, <2>2 DEF WalkInv
    <3>2. QED BY <1>10, <3>1
  <2>3. QED BY <1>12, <2>1, <2>2
<1>13. ASSUME NEW r \in rows, r.id \in steady, Before(cursor, r) PROVE r \in A
  BY <1>1, <1>13 DEF A, After, ListingTypes
<1>14. CASE More(limit)
  <2>1. P # {} /\ P \in SUBSET rows /\ Rows(P) BY <1>3, <1>4, <1>5, <1>14, RowsAmong
  <2>2. PICK p : p = LastRow(P) OBVIOUS
  <2>3. p \in P /\ \A s \in P : s # p => Before(s, p) BY <2>1, <2>2, LastOfRows
  <2>4. c.created = p.created /\ c.id = p.id
    BY <1>14, <2>2 DEF c, P, NextCursor, Position
  <2>5. Compared(p) /\ Compared(c) /\ Before(cursor, p) /\ p \in A /\ p \in rows
    <3>1. p \in A /\ p \in rows /\ Before(cursor, p) BY <1>3, <1>6, <2>1, <2>3
    <3>2. Compared(p) BY <2>1, <2>3 DEF Rows
    <3>3. QED BY <2>4, <3>1, <3>2 DEF Compared
  <2>6. \A r : Before(c, r) <=> Before(p, r) BY <2>4 DEF Before
  <2>7. ASSUME NEW i \in DOMAIN q PROVE ~Before(c, q[i])
    <3>1. q[i] \in ToSet(q) BY DEF ToSet
    <3>2. CASE q[i] \in ToSet(seen)
      <4>1. PICK j \in DOMAIN seen : seen[j] = q[i] BY <3>2 DEF ToSet
      <4>2. ~Before(cursor, q[i]) BY <1>8, <4>1
      <4>a. q[i] \in rows BY <1>8, <4>1
      <4>3. Compared(q[i]) BY <1>4, <4>a DEF Rows
      <4>4. Before(q[i], p) BY <1>8, <2>5, <4>2, <4>3, PositionsOrdered
      <4>5. ~Before(p, q[i]) BY <2>5, <4>3, <4>4, PositionsOrdered
      <4>6. QED BY <2>6, <4>5
    <3>3. CASE q[i] \in S
      <4>1. q[i] \in P BY <3>3 DEF P
      <4>2. q[i] = p \/ Before(q[i], p) BY <2>3, <4>1
      <4>3. ~Before(p, q[i]) BY <2>1, <2>3, <4>1, <4>2, RowsOrdered
      <4>4. QED BY <2>6, <4>3
    <3>4. QED BY <1>10, <3>1, <3>2, <3>3
  <2>8. ASSUME NEW r \in rows, r.id \in steady, r.tagged, ~Before(c, r)
        PROVE  r \in ToSet(q)
    <3>1. CASE ~Before(cursor, r) BY <1>12, <2>8, <3>1
    <3>2. CASE Before(cursor, r)
      <4>1. r \in A BY <1>13, <2>8, <3>2
      <4>2. ~Before(p, r) BY <2>6, <2>8
      <4>3. r = p \/ Before(r, p) BY <1>4, <2>5, <4>1, <4>2, RowsOrdered
      <4>4. r \in P BY <1>5, <1>14, <2>3, <4>1, <4>3
      <4>5. QED BY <1>12, <2>8, <4>4
    <3>3. QED BY <3>1, <3>2
  <2>9. ListingTypes' BY <1>1, <1>2, <1>10, <2>5 DEF ListingTypes
  <2>10. WalkInv' BY <1>2, <2>7, <2>8 DEF WalkInv
  <2>11. WalkMissesNothing' BY <1>2, <1>14 DEF WalkMissesNothing
  <2>12. QED BY <1>11, <2>9, <2>10, <2>11 DEF ListingInv
<1>15. CASE ~More(limit)
  <2>1. P = A BY <1>5, <1>15
  <2>2. c = Start BY <1>15 DEF c, NextCursor
  <2>3. ASSUME NEW r \in rows, r.id \in steady, r.tagged PROVE r \in ToSet(q)
    <3>1. r \in P \/ ~Before(cursor, r) BY <1>13, <2>1, <2>3
    <3>2. QED BY <1>12, <2>3, <3>1
  <2>4. ~walking' BY <1>2, <1>15
  <2>5. ListingTypes' BY <1>1, <1>2, <1>10, <2>2, <2>4, BeginsEmpty DEF ListingTypes
  <2>6. WalkInv' BY <2>4 DEF WalkInv
  <2>7. WalkMissesNothing' BY <1>2, <2>3 DEF WalkMissesNothing
  <2>8. QED BY <1>11, <2>5, <2>6, <2>7 DEF ListingInv
<1>16. QED BY <1>14, <1>15

\* A walk begins.
LEMMA BeginStep == IdsAssumption /\ ListingInv /\ Begin => ListingInv'
<1> SUFFICES ASSUME IdsAssumption, ListingInv, Begin PROVE ListingInv'
  OBVIOUS
<1>1. ListingTypes BY DEF ListingInv
<1>2. /\ walking' = TRUE /\ cursor' = Start /\ seen' = <<>> /\ steady' = matching
      /\ UNCHANGED <<table, now, rows, matching>>
  BY DEF Begin
<1>3. Compared(Start) /\ \A r \in rows : Before(Start, r) BY <1>1, BeginsEmpty
<1>4. DOMAIN seen' = {} /\ seen' \in Seq(rows) BY <1>2
<1>5. ListingTypes' BY <1>1, <1>2, <1>3, <1>4 DEF ListingTypes
<1>6. WalkInv' BY <1>2, <1>3, <1>4 DEF WalkInv
<1>7. WalkMissesNothing' BY <1>2 DEF WalkMissesNothing
<1>8. PagesAscend' BY <1>4 DEF PagesAscend
<1>9. QED BY <1>5, <1>6, <1>7, <1>8 DEF ListingInv

\* A row comes in, ahead of the cursor or behind it.
LEMMA CreateStep ==
    ASSUME IdsAssumption, ListingInv, NEW id \in Ids, NEW lag \in Nat, NEW tagged \in BOOLEAN,
           Create(id, lag, tagged)
    PROVE  ListingInv'
<1>1. ListingTypes /\ now \in Nat /\ WalkInv /\ WalkMissesNothing /\ PagesAscend
  BY DEF ListingInv, ListingTypes
<1>2. PICK row : row = NewRow(id, lag, tagged) OBVIOUS
<1>3. /\ \A r \in rows : r.id # id
      /\ lag <= now
      /\ rows' = rows \cup {row}
      /\ UNCHANGED <<table, now, walking, cursor, seen>>
  BY <1>2 DEF Create
<1>4. \/ /\ matching' = matching \cup {id}
         /\ steady' = IF walking /\ Before(cursor, row) THEN steady \cup {id} ELSE steady
      \/ UNCHANGED <<matching, steady>>
  BY <1>2 DEF Create
<1>5. row.id = id /\ row.created = now - lag /\ now - lag \in Nat
  BY <1>1, <1>2, <1>3 DEF NewRow
<1>6. Rows(rows')
  <2>1. IsFiniteSet(rows') BY <1>1, <1>3, FS_AddElement DEF ListingTypes, Rows
  <2>2. Compared(row) BY <1>5 DEF Compared, IdsAssumption
  <2>3. \A r \in rows' : Compared(r) BY <1>1, <1>3, <2>2 DEF ListingTypes, Rows
  <2>4. \A r, s \in rows' : r.id = s.id => r = s
    BY <1>1, <1>3, <1>5 DEF ListingTypes, Rows
  <2>5. QED BY <2>1, <2>3, <2>4 DEF Rows
<1>7. seen' \in Seq(rows')
  <2>1. seen \in [1 .. Len(seen) -> rows] /\ Len(seen) \in Nat BY <1>1 DEF ListingTypes
  <2>2. seen \in [1 .. Len(seen) -> rows'] BY <1>3, <2>1
  <2>3. QED BY <1>3, <2>1, <2>2
<1>8. id \notin matching /\ id \notin steady
  BY <1>1, <1>3 DEF ListingTypes
<1>9. matching' \subseteq {r.id : r \in rows'} /\ steady' \subseteq matching'
  BY <1>1, <1>3, <1>4, <1>5 DEF ListingTypes
<1>10. ListingTypes'
  <2>1. \A r \in rows' : r.id \in Ids BY <1>1, <1>3, <1>5 DEF ListingTypes
  <2>2. now' \in Nat /\ Compared(cursor')
    BY <1>1, <1>3 DEF ListingTypes
  <2>3. QED BY <1>6, <1>7, <1>9, <2>1, <2>2 DEF ListingTypes
<1>11. ASSUME NEW r \in rows', r.id \in steady', ~(walking /\ Before(cursor, r))
       PROVE  r \in rows /\ r.id \in steady
  BY <1>3, <1>4, <1>5, <1>8, <1>11
<1>12. WalkInv' BY <1>1, <1>3, <1>11 DEF WalkInv
<1>13. WalkMissesNothing' BY <1>1, <1>3, <1>11 DEF WalkMissesNothing
<1>14. PagesAscend' BY <1>1, <1>3 DEF PagesAscend
<1>15. QED BY <1>10, <1>12, <1>13, <1>14 DEF ListingInv

\* A row begins or ceases to match.
LEMMA ChangeStep ==
    ASSUME ListingInv, NEW r \in rows, Change(r)
    PROVE  ListingInv'
<1>1. ListingTypes /\ WalkInv /\ WalkMissesNothing /\ PagesAscend BY DEF ListingInv
<1>2. /\ matching' \subseteq matching \cup {r.id}
      /\ steady' \subseteq matching' /\ steady' \subseteq steady
      /\ UNCHANGED <<table, now, rows, walking, cursor, seen>>
  BY DEF Change
<1>3. ListingTypes' BY <1>1, <1>2 DEF ListingTypes
<1>4. WalkInv' BY <1>1, <1>2 DEF WalkInv
<1>5. WalkMissesNothing' BY <1>1, <1>2 DEF WalkMissesNothing
<1>6. PagesAscend' BY <1>1, <1>2 DEF PagesAscend
<1>7. QED BY <1>3, <1>4, <1>5, <1>6 DEF ListingInv

\* Every step of the listing.
LEMMA ListingNext ==
    IdsAssumption /\ BoundsAssumption /\ ListingInv /\ [Next]_vars => ListingInv'
<1> SUFFICES ASSUME IdsAssumption, BoundsAssumption, ListingInv, [Next]_vars
             PROVE  ListingInv'
  OBVIOUS
<1>1. ASSUME NEW limit \in Limits, ListTasks(limit) PROVE ListingInv'
  <2>1. limit \in Nat \ {0} BY DEF BoundsAssumption
  <2>2. Return(limit, Page(limit)) BY <1>1 DEF ListTasks
  <2>3. QED BY <2>1, <2>2, ReturnStep
<1>2. ASSUME NEW limit \in Limits, SearchKnowledge(limit) PROVE ListingInv'
  <2>1. limit \in Nat \ {0} BY DEF BoundsAssumption
  <2>2. PICK S : S = {r \in Page(limit) : r.tagged} OBVIOUS
  <2>3. Return(limit, S) BY <1>2, <2>2 DEF SearchKnowledge
  <2>4. S \in SUBSET Page(limit) /\ \A r \in Page(limit) : r.tagged => r \in S BY <2>2
  <2>5. QED BY <2>1, <2>3, <2>4, ReturnStep
<1>3. CASE Begin BY <1>3, BeginStep
<1>4. ASSUME NEW id \in Ids, NEW lag \in 0 .. MaxLag, NEW tagged \in BOOLEAN,
             Create(id, lag, tagged)
      PROVE  ListingInv'
  <2>1. lag \in Nat BY DEF BoundsAssumption
  <2>2. QED BY <1>4, <2>1, CreateStep
<1>5. ASSUME NEW r \in rows, Change(r) PROVE ListingInv' BY <1>5, ChangeStep
<1>6. CASE Tick \/ UNCHANGED vars
  <2>1. now' \in Nat /\ UNCHANGED <<table, rows, matching, walking, cursor, seen, steady>>
    BY <1>6 DEF Tick, vars, walk, ListingInv, ListingTypes
  <2>2. ListingTypes' BY <2>1 DEF ListingInv, ListingTypes
  <2>3. WalkInv' BY <2>1 DEF ListingInv, WalkInv
  <2>4. WalkMissesNothing' BY <2>1 DEF ListingInv, WalkMissesNothing
  <2>5. PagesAscend' BY <2>1 DEF ListingInv, PagesAscend
  <2>6. QED BY <2>2, <2>3, <2>4, <2>5 DEF ListingInv
<1>7. QED BY <1>1, <1>2, <1>3, <1>4, <1>5, <1>6 DEF Next

\* The invariant of the walk.
LEMMA ListingInvariant == Spec => []ListingInv
<1>1. ASSUME Init PROVE ListingInv
  <2>1. Rows(rows) BY <1>1, FS_EmptySet DEF Init, Rows
  <2>2. Compared(cursor) BY <1>1 DEF Init, Start, Compared
  <2>3. seen \in Seq(rows) /\ DOMAIN seen = {} BY <1>1 DEF Init
  <2>4. ListingTypes BY <1>1, <2>1, <2>2, <2>3 DEF Init, ListingTypes
  <2>5. WalkInv /\ WalkMissesNothing BY <1>1 DEF Init, WalkInv, WalkMissesNothing
  <2>6. PagesAscend BY <2>3 DEF PagesAscend
  <2>7. QED BY <2>4, <2>5, <2>6 DEF ListingInv
<1>2. QED BY <1>1, ListingNext, IdsAssumption, BoundsAssumption, PTL DEF Spec

\* A walk to the last page returns every row that matched throughout, though
\* rows share a second and come in late, and pages are cut after the tags are
\* looked at (TaskStore.List, KnowledgeStore.Search).
THEOREM NoRowIsMissed == Spec => []WalkMissesNothing
<1>1. ListingInv => WalkMissesNothing BY DEF ListingInv
<1>2. QED BY <1>1, ListingInvariant, PTL

\* The rows of a walk ascend by created_at and id, so none comes twice.
THEOREM RowsAscend == Spec => []PagesAscend
<1>1. ListingInv => PagesAscend BY DEF ListingInv
<1>2. QED BY <1>1, ListingInvariant, PTL
=============================================================================
