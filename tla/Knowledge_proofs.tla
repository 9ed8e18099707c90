--------------------------- MODULE Knowledge_proofs ---------------------------
(***************************************************************************)
(* The versions of shared memory are chains, and only insiders make them   *)
(* longer: for any agents, entries, projects and number of requests at a   *)
(* time.                                                                   *)
(***************************************************************************)
EXTENDS Knowledge, TLAPS

\* A row that is not there yet is linked to none.
NewUnlinked ==
    \A e \in Entries : entries[e].status = "none" =>
        entries[e].supersedes = NULL /\ entries[e].superseded_by = NULL

IInv == TypeOK /\ NewUnlinked /\ ChainsLinked /\ ArchivedMeansReplaced

-----------------------------------------------------------------------------
(* The rows after a step *)

\* The columns of a new row.
LEMMA ProposedRow ==
    ASSUME TypeOK, NEW r \in Connections, calls[r] # NULL,
           NEW prev \in Entries \cup {NULL}, NEW version \in Nat
    PROVE  /\ Proposed(r, prev, version) \in EntryRow
           /\ Proposed(r, prev, version).status = "proposed"
           /\ Proposed(r, prev, version).scope = calls[r].scope
           /\ Proposed(r, prev, version).author = calls[r].agent
           /\ Proposed(r, prev, version).supersedes = prev
           /\ Proposed(r, prev, version).superseded_by = NULL
           /\ Proposed(r, prev, version).version = version
<1>1. calls[r] \in [agent: Agents, scope: Scopes] BY DEF TypeOK, Call
<1>2. calls[r].agent \in Agents /\ calls[r].scope \in Scopes BY <1>1
<1>3. QED BY <1>2 DEF Proposed, EntryRow, EntryStatus

\* A replacement inserts one row and changes two columns of another.
LEMMA ReplacedRows ==
    ASSUME TypeOK, NEW r \in Connections, NEW id \in Entries, NEW prev \in Entries,
           Replace(r, id, prev)
    PROVE  /\ id # prev
           /\ entries' \in [Entries -> EntryRow]
           /\ \A e \in Entries \ {id, prev} : entries'[e] = entries[e]
           /\ entries'[id].status = "proposed" /\ entries'[id].supersedes = prev
           /\ entries'[id].superseded_by = NULL
           /\ entries'[id].version = entries[prev].version + 1
           /\ entries'[id].scope = entries[prev].scope
           /\ entries'[id].author = calls[r].agent
           /\ entries'[prev].status = "archived" /\ entries'[prev].superseded_by = id
           /\ entries'[prev].supersedes = entries[prev].supersedes
           /\ entries'[prev].version = entries[prev].version
           /\ entries'[prev].scope = entries[prev].scope
<1> DEFINE new == Proposed(r, prev, entries[prev].version + 1)
           old == [entries[prev] EXCEPT !.superseded_by = id, !.status = "archived"]
<1>1. id # prev BY DEF Replace, MayReplace
<1>2. entries[prev] \in EntryRow BY DEF TypeOK
<1>3. entries[prev].version + 1 \in Nat BY <1>2 DEF EntryRow
<1>4. /\ new \in EntryRow /\ new.status = "proposed" /\ new.supersedes = prev
      /\ new.superseded_by = NULL /\ new.version = entries[prev].version + 1
      /\ new.scope = calls[r].scope /\ new.author = calls[r].agent
  BY <1>3, ProposedRow DEF Replace
<1>5. /\ old \in EntryRow /\ old.status = "archived" /\ old.superseded_by = id
      /\ old.supersedes = entries[prev].supersedes
      /\ old.version = entries[prev].version /\ old.scope = entries[prev].scope
  BY <1>2 DEF EntryRow, EntryStatus
<1>6. calls[r].scope = entries[prev].scope BY DEF Replace, MayReplace
<1>7. entries'[id] = new /\ entries'[prev] = old
      /\ entries' \in [Entries -> EntryRow]
      /\ \A e \in Entries \ {id, prev} : entries'[e] = entries[e]
  <2>1. entries' = [entries EXCEPT ![id] = new, ![prev].superseded_by = id,
                                   ![prev].status = "archived"]
    BY DEF Replace
  <2> HIDE DEF new
  <2>2. QED BY <1>1, <1>2, <1>4, <1>5, <2>1 DEF TypeOK
<1> HIDE DEF new, old
<1>8. QED BY <1>1, <1>4, <1>5, <1>6, <1>7

-----------------------------------------------------------------------------
(* The invariant *)

\* An empty table has no links.
LEMMA InitInv == Init => IInv
<1> SUFFICES ASSUME Init PROVE IInv
  OBVIOUS
<1>1. \A e \in Entries : entries[e] = NoEntry BY DEF Init
<1>2. /\ NoEntry.status = "none" /\ NoEntry.supersedes = NULL
      /\ NoEntry.superseded_by = NULL /\ NoEntry \in EntryRow
  BY DEF NoEntry, EntryRow, EntryStatus
<1>3. TypeOK BY <1>2 DEF Init, TypeOK, Call
<1>4. NULL \notin Entries BY NullAssumption
<1>5. ChainsLinked BY <1>1, <1>2, <1>4 DEF ChainsLinked
<1>6. QED BY <1>1, <1>2, <1>3, <1>5 DEF IInv, NewUnlinked, ArchivedMeansReplaced

\* Steps that leave the table alone.
LEMMA QuietInv ==
    ASSUME IInv, entries' = entries, TypeOK'
    PROVE  IInv'
BY DEF IInv, NewUnlinked, ChainsLinked, ArchivedMeansReplaced

\* A request that has made its checks.
LEMMA BeginType ==
    ASSUME TypeOK, NEW r \in Connections, NEW a \in Agents, NEW scope \in Scopes,
           BeginCreate(r, a, scope)
    PROVE  TypeOK'
<1>1. [agent |-> a, scope |-> scope] \in Call BY DEF Call
<1>2. QED BY <1>1 DEF BeginCreate, TypeOK, environment

\* A request that has ended.
LEMMA AbandonType ==
    ASSUME TypeOK, NEW r \in Connections, calls' = [calls EXCEPT ![r] = NULL],
           entries' \in [Entries -> EntryRow], UNCHANGED environment
    PROVE  TypeOK'
BY DEF TypeOK, environment, Call

\* Projects that change.
LEMMA EnvironmentType == ASSUME TypeOK, Environment PROVE TypeOK'
<1>1. ASSUME NEW p \in Projects, NEW a \in Agents, ChangeMembers(p, a) PROVE TypeOK'
  BY <1>1 DEF ChangeMembers, TypeOK
<1>2. ASSUME NEW a \in Agents, NEW scope \in Scopes, ChangeGrants(a, scope) PROVE TypeOK'
  BY <1>2 DEF ChangeGrants, TypeOK
<1>3. ASSUME NEW p \in Projects, Archive(p) PROVE TypeOK'
  BY <1>3 DEF Archive, TypeOK
<1>4. QED BY <1>1, <1>2, <1>3 DEF Environment

\* A record that replaces none: nothing is linked to a row that was not there.
LEMMA CreateInv ==
    ASSUME IInv, NEW r \in Connections, NEW id \in Entries, Create(r, id)
    PROVE  IInv'
<1> DEFINE new == Proposed(r, NULL, 1)
<1>a. TypeOK BY DEF IInv
<1>b. NULL \notin Entries BY NullAssumption
<1>1. /\ new \in EntryRow /\ new.status = "proposed"
      /\ new.supersedes = NULL /\ new.superseded_by = NULL
  BY <1>a, ProposedRow DEF Create
<1>2. entries' = [entries EXCEPT ![id] = new] BY DEF Create
<1> HIDE DEF new
<1>3. /\ entries'[id] = new
      /\ \A e \in Entries \ {id} : entries'[e] = entries[e]
      /\ entries' \in [Entries -> EntryRow]
  BY <1>1, <1>2, <1>a DEF TypeOK
<1>4. TypeOK' BY <1>a, <1>3, AbandonType DEF Create
<1>5. entries[id].supersedes = NULL /\ entries[id].superseded_by = NULL
  BY DEF IInv, NewUnlinked, Create
<1>6. NewUnlinked' BY <1>1, <1>3 DEF IInv, NewUnlinked
<1>7. ChainsLinked'
  <2>1. \A e \in Entries : /\ entries'[e].superseded_by = entries[e].superseded_by
                           /\ entries'[e].supersedes = entries[e].supersedes
    BY <1>1, <1>3, <1>5
  <2>2. \A e, f \in Entries : entries[f].supersedes = e => e # id /\ f # id
    BY <1>5, <1>b DEF IInv, ChainsLinked
  <2>3. QED BY <1>3, <2>1, <2>2 DEF IInv, ChainsLinked
<1>8. ArchivedMeansReplaced' BY <1>1, <1>3 DEF IInv, ArchivedMeansReplaced
<1>9. QED BY <1>4, <1>6, <1>7, <1>8 DEF IInv

\* A replacement makes one chain longer: its end had no successor, the new row
\* had no neighbours.
LEMMA ReplaceInv ==
    ASSUME IInv, NEW r \in Connections, NEW id \in Entries, NEW prev \in Entries,
           Replace(r, id, prev)
    PROVE  IInv'
<1>a. TypeOK BY DEF IInv
<1>b. NULL \notin Entries BY NullAssumption
<1>1. /\ id # prev
      /\ entries' \in [Entries -> EntryRow]
      /\ \A e \in Entries \ {id, prev} : entries'[e] = entries[e]
      /\ entries'[id].status = "proposed" /\ entries'[id].supersedes = prev
      /\ entries'[id].superseded_by = NULL
      /\ entries'[id].version = entries[prev].version + 1
      /\ entries'[id].scope = entries[prev].scope
      /\ entries'[prev].status = "archived" /\ entries'[prev].superseded_by = id
      /\ entries'[prev].supersedes = entries[prev].supersedes
      /\ entries'[prev].version = entries[prev].version
      /\ entries'[prev].scope = entries[prev].scope
  BY <1>a, ReplacedRows
<1>2. TypeOK' BY <1>a, <1>1, AbandonType DEF Replace
<1>3. entries[prev].superseded_by = NULL BY DEF Replace, MayReplace
<1>4. entries[id].supersedes = NULL /\ entries[id].superseded_by = NULL
  BY DEF IInv, NewUnlinked, Replace
<1>5. \A f \in Entries : entries[f].supersedes # id /\ entries[f].supersedes # prev
  BY <1>3, <1>4, <1>b DEF IInv, ChainsLinked
<1>6. \A e \in Entries : entries[e].superseded_by # id
  BY <1>4, <1>b DEF IInv, ChainsLinked
<1>7. NewUnlinked' BY <1>1 DEF IInv, NewUnlinked
<1>8. ChainsLinked'
  <2>1. ASSUME NEW e \in Entries, NEW f \in Entries
        PROVE  (entries'[e].superseded_by = f) <=> (entries'[f].supersedes = e)
    <3>0. (entries[e].superseded_by = f) <=> (entries[f].supersedes = e)
      BY DEF IInv, ChainsLinked
    <3>1. CASE f = id
      <4>1. CASE e = prev BY <1>1, <3>1, <4>1
      <4>2. CASE e = id BY <1>1, <1>b, <3>1, <4>2
      <4>3. CASE e \notin {id, prev} BY <1>1, <1>6, <3>1, <4>3
      <4>4. QED BY <4>1, <4>2, <4>3
    <3>2. CASE f # id
      <4>1. entries'[f].supersedes = entries[f].supersedes BY <1>1, <3>2
      <4>2. CASE e = prev BY <1>1, <1>5, <3>2, <4>1, <4>2
      <4>3. CASE e = id BY <1>1, <1>5, <1>b, <4>1, <4>3
      <4>4. CASE e \notin {id, prev} BY <1>1, <3>0, <4>1, <4>4
      <4>5. QED BY <4>2, <4>3, <4>4
    <3>3. QED BY <3>1, <3>2
  <2>2. ASSUME NEW e \in Entries, NEW f \in Entries, entries'[f].supersedes = e
        PROVE  /\ entries'[f].version = entries'[e].version + 1
               /\ entries'[f].scope = entries'[e].scope
    <3>1. CASE f = id BY <1>1, <2>2, <3>1
    <3>2. CASE f # id
      <4>1. /\ entries'[f].supersedes = entries[f].supersedes
            /\ entries'[f].version = entries[f].version
            /\ entries'[f].scope = entries[f].scope
        BY <1>1, <3>2
      <4>2. e # id /\ e # prev BY <1>5, <2>2, <4>1
      <4>3. entries'[e] = entries[e] BY <1>1, <4>2
      <4>4. QED BY <2>2, <4>1, <4>3 DEF IInv, ChainsLinked
    <3>3. QED BY <3>1, <3>2
  <2>3. QED BY <2>1, <2>2 DEF ChainsLinked
<1>9. ArchivedMeansReplaced'
  <2> SUFFICES ASSUME NEW e \in Entries
      PROVE  (entries'[e].status = "archived") <=> (entries'[e].superseded_by # NULL)
    BY DEF ArchivedMeansReplaced
  <2>1. CASE e = id BY <1>1, <2>1
  <2>2. CASE e = prev BY <1>1, <1>b, <2>2
  <2>3. CASE e \notin {id, prev} BY <1>1, <2>3 DEF IInv, ArchivedMeansReplaced
  <2>4. QED BY <2>1, <2>2, <2>3
<1>10. QED BY <1>2, <1>7, <1>8, <1>9 DEF IInv

\* A review touches the status of a row that is proposed, so of none that is
\* archived.
LEMMA ReviewInv ==
    ASSUME IInv, NEW a \in Agents, NEW id \in Entries, Review(a, id)
    PROVE  IInv'
<1> DEFINE row == [entries[id] EXCEPT !.status = "reviewed"]
<1>1. entries[id] \in EntryRow BY DEF IInv, TypeOK
<1>2. /\ row \in EntryRow /\ row.status = "reviewed"
      /\ row.supersedes = entries[id].supersedes
      /\ row.superseded_by = entries[id].superseded_by
      /\ row.version = entries[id].version /\ row.scope = entries[id].scope
  BY <1>1 DEF EntryRow, EntryStatus
<1>3. entries' = [entries EXCEPT ![id] = row] BY DEF Review
<1> HIDE DEF row
<1>4. /\ entries'[id] = row
      /\ \A e \in Entries \ {id} : entries'[e] = entries[e]
      /\ entries' \in [Entries -> EntryRow]
  BY <1>2, <1>3 DEF IInv, TypeOK
<1>5. TypeOK' BY <1>4 DEF IInv, TypeOK, Review, environment
<1>6. \A e \in Entries :
          /\ entries'[e].supersedes = entries[e].supersedes
          /\ entries'[e].superseded_by = entries[e].superseded_by
          /\ entries'[e].version = entries[e].version
          /\ entries'[e].scope = entries[e].scope
          /\ e # id => entries'[e].status = entries[e].status
  BY <1>2, <1>4
<1>7. entries'[id].status = "reviewed" /\ entries[id].status = "proposed"
  BY <1>2, <1>4 DEF Review
<1>8. NewUnlinked' BY <1>6, <1>7 DEF IInv, NewUnlinked
<1>9. ChainsLinked' BY <1>6 DEF IInv, ChainsLinked
<1>10. ArchivedMeansReplaced' BY <1>6, <1>7 DEF IInv, ArchivedMeansReplaced
<1>11. QED BY <1>5, <1>8, <1>9, <1>10 DEF IInv

\* Every step preserves the invariant.
LEMMA StepInv == IInv /\ [Next]_vars => IInv'
<1> SUFFICES ASSUME IInv, [Next]_vars PROVE IInv'
  OBVIOUS
<1>a. TypeOK BY DEF IInv
<1>1. CASE UNCHANGED vars
  BY <1>1, <1>a, QuietInv DEF vars, environment, TypeOK
<1>2. ASSUME NEW r \in Connections, RequestStep(r) PROVE IInv'
  <2>1. ASSUME NEW a \in Agents, NEW scope \in Scopes, BeginCreate(r, a, scope) PROVE IInv'
    BY <2>1, <1>a, BeginType, QuietInv DEF BeginCreate
  <2>2. CASE Abandon(r)
    <3>1. TypeOK' BY <2>2, <1>a, AbandonType DEF Abandon, TypeOK
    <3>2. QED BY <2>2, <3>1, QuietInv DEF Abandon
  <2>3. QED BY <1>2, <2>1, <2>2, CreateInv, ReplaceInv DEF RequestStep
<1>3. CASE Environment
  <2>1. entries' = entries
    BY <1>3 DEF Environment, ChangeMembers, ChangeGrants, Archive
  <2>2. QED BY <1>3, <1>a, <2>1, EnvironmentType, QuietInv
<1>4. QED BY <1>1, <1>2, <1>3, ReviewInv DEF Next

\* The inductive invariant.
LEMMA Invariant == Spec => []IInv
<1>1. QED BY InitInv, StepInv, PTL DEF Spec

\* Every table keeps its type.
THEOREM TypeCorrect == Spec => []TypeOK
<1>1. IInv => TypeOK BY DEF IInv
<1>2. QED BY <1>1, Invariant, PTL

\* The versions of a record are one chain without forks, whoever races to
\* replace it (KnowledgeStore.Create).
THEOREM VersionsChained == Spec => []ChainsLinked
<1>1. IInv => ChainsLinked BY DEF IInv
<1>2. QED BY <1>1, Invariant, PTL

\* Archived rows are the replaced ones, and no review brings one back
\* (KnowledgeStore.Review).
THEOREM ArchivedReplaced == Spec => []ArchivedMeansReplaced
<1>1. IInv => ArchivedMeansReplaced BY DEF IInv
<1>2. QED BY <1>1, Invariant, PTL

\* Whoever replaces a record has the right to write into its project at that
\* moment (the checks in the transaction of KnowledgeStore.Create).
THEOREM InsidersReplace == Spec => ReplacedByInsiders
<1>1. IInv /\ [Next]_vars =>
        [\A e, f \in Entries :
            (entries[f].supersedes # e /\ entries'[f].supersedes = e)
                => MayWrite(entries'[f].author, entries[e].scope)]_vars
  <2> SUFFICES ASSUME IInv, Next, NEW e \in Entries, NEW f \in Entries,
                      entries[f].supersedes # e, entries'[f].supersedes = e
      PROVE  MayWrite(entries'[f].author, entries[e].scope)
    OBVIOUS
  <2>a. TypeOK BY DEF IInv
  <2>b. NULL \notin Entries BY NullAssumption
  <2>1. ASSUME NEW r \in Connections, NEW id \in Entries, NEW prev \in Entries,
               Replace(r, id, prev)
        PROVE  MayWrite(entries'[f].author, entries[e].scope)
    <3>1. f = id BY <2>1, <2>a, ReplacedRows
    <3>2. e = prev /\ entries'[f].author = calls[r].agent
      BY <2>1, <2>a, <3>1, ReplacedRows
    <3>3. MayWrite(calls[r].agent, entries[prev].scope)
      BY <2>1 DEF Replace, MayReplace
    <3>4. QED BY <3>2, <3>3
  <2>2. ASSUME NEW r \in Connections, NEW id \in Entries, Create(r, id) PROVE FALSE
    <3>1. Proposed(r, NULL, 1).supersedes = NULL BY <2>2, <2>a, ProposedRow DEF Create
    <3>2. entries' = [entries EXCEPT ![id] = Proposed(r, NULL, 1)] BY <2>2 DEF Create
    <3>3. QED BY <2>a, <2>b, <3>1, <3>2 DEF TypeOK
  <2>3. ASSUME NEW a \in Agents, NEW id \in Entries, Review(a, id) PROVE FALSE
    <3>1. entries' = [entries EXCEPT ![id].status = "reviewed"] BY <2>3 DEF Review
    <3>2. entries[id] \in EntryRow BY <2>a DEF TypeOK
    <3>3. entries'[f].supersedes = entries[f].supersedes
      BY <2>a, <3>1, <3>2 DEF TypeOK, EntryRow
    <3>4. QED BY <3>3
  <2>4. ASSUME entries' = entries PROVE FALSE BY <2>4
  <2>5. CASE Environment
    BY <2>4, <2>5 DEF Environment, ChangeMembers, ChangeGrants, Archive
  <2>6. QED
    BY <2>1, <2>2, <2>3, <2>4, <2>5 DEF Next, RequestStep, BeginCreate, Abandon
<1>2. QED BY <1>1, Invariant, PTL DEF Spec, ReplacedByInsiders
=============================================================================
