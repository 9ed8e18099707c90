--------------------------- MODULE Projects_proofs ---------------------------
(***************************************************************************)
(* What the guarded UPDATEs of the stores protect, for any agents, any     *)
(* number of overlapping requests and any kind of project.                 *)
(***************************************************************************)
EXTENDS Projects, TLAPS

\* The requests: a role that is set is a role.
CallsOK ==
    /\ calls \in [Connections -> Call \cup {Idle}]
    /\ \A r \in Connections : calls[r].op = "setRole" => calls[r].arg \in Roles

\* The tables.
TablesOK ==
    /\ charter \in Charters
    /\ project \in ProjectRow
    /\ members \in [Agents -> MemberRow]
    /\ ArchivedNotPending
    /\ PendingHasNoAuthority

IInv == CallsOK /\ TablesOK

-----------------------------------------------------------------------------
(* Requests *)

\* A connection at work handles a request.
LEMMA AtWork ==
    ASSUME CallsOK, NEW r \in Connections, calls[r].op \in Ops
    PROVE  /\ calls[r] \in Call
           /\ calls[r].by \in Agents /\ calls[r].who \in Agents
           /\ calls[r].heir \in Agents \cup {NULL}
           /\ calls[r] # Idle
<1>1. Idle.op = "none" /\ "none" \notin Ops BY DEF Idle, Ops
<1>2. calls[r] # Idle BY <1>1
<1>3. calls[r] \in Call BY <1>2 DEF CallsOK
<1>4. QED BY <1>2, <1>3 DEF Call

\* A request that has ended.
LEMMA DoneCalls ==
    ASSUME CallsOK, NEW r \in Connections, Done(r)
    PROVE  CallsOK'
<1>1. Idle.op = "none" BY DEF Idle
<1>2. QED BY <1>1 DEF Done, CallsOK

\* A request that has come to its next step.
LEMMA GotoCalls ==
    ASSUME CallsOK, NEW r \in Connections, calls[r].op \in Ops,
           NEW step \in {"checked", "looked", "leaving", "chosen"}, Goto(r, step)
    PROVE  CallsOK'
<1> DEFINE c == [calls[r] EXCEPT !.step = step]
<1>1. calls[r] \in Call BY AtWork
<1>2. c \in Call /\ c.op = calls[r].op /\ c.arg = calls[r].arg BY <1>1 DEF Call
<1>3. calls' = [calls EXCEPT ![r] = c] BY DEF Goto
<1> HIDE DEF c
<1>4. QED BY <1>2, <1>3 DEF CallsOK

\* A new request, and those it overlaps.
LEMMA BeginCalls ==
    ASSUME CallsOK, NEW r \in Connections, NEW c \in Call,
           c.op = "setRole" => c.arg \in Roles, Begin(r, c)
    PROVE  CallsOK'
<1> DEFINE others == {q \in Connections : calls[q] # Idle}
           new(q) == IF q = r THEN [c EXCEPT !.alone = (others = {})]
                     ELSE IF q \in others THEN [calls[q] EXCEPT !.alone = FALSE]
                     ELSE Idle
<1>1. ASSUME NEW q \in Connections
      PROVE  /\ new(q) \in Call \cup {Idle}
             /\ new(q).op = "setRole" => new(q).arg \in Roles
  <2>1. CASE q = r
    <3>1. [c EXCEPT !.alone = (others = {})] \in Call BY DEF Call
    <3>2. /\ [c EXCEPT !.alone = (others = {})].op = c.op
          /\ [c EXCEPT !.alone = (others = {})].arg = c.arg
      BY DEF Call
    <3>3. QED BY <2>1, <3>1, <3>2
  <2>2. CASE q # r /\ q \in others
    <3>1. calls[q] \in Call BY <2>2 DEF CallsOK
    <3>2. /\ [calls[q] EXCEPT !.alone = FALSE] \in Call
          /\ [calls[q] EXCEPT !.alone = FALSE].op = calls[q].op
          /\ [calls[q] EXCEPT !.alone = FALSE].arg = calls[q].arg
      BY <3>1 DEF Call
    <3>3. QED BY <2>2, <3>2 DEF CallsOK
  <2>3. CASE q # r /\ q \notin others BY <2>3 DEF Idle
  <2>4. QED BY <2>1, <2>2, <2>3
<1>2. calls' = [q \in Connections |-> new(q)] BY DEF Begin
<1> HIDE DEF new
<1>3. QED BY <1>1, <1>2 DEF CallsOK

\* The request a handler's checks let in.
LEMMA RequestCall ==
    ASSUME NEW op \in Ops, NEW a \in Agents, NEW b \in Agents,
           NEW arg \in {"member", "reviewer", "coordinator", "accept", "decline", "none"}
    PROVE  /\ Request(op, a, b, arg) \in Call
           /\ Request(op, a, b, arg).op = op /\ Request(op, a, b, arg).arg = arg
BY DEF Request, Call

\* A request whose checks are over, with nothing else changed.
LEMMA BeginRequest ==
    ASSUME CallsOK, NEW r \in Connections,
           NEW op \in Ops, NEW a \in Agents, NEW b \in Agents,
           NEW arg \in {"member", "reviewer", "coordinator", "accept", "decline", "none"},
           op = "setRole" => arg \in Roles, Begin(r, Request(op, a, b, arg))
    PROVE  CallsOK' /\ UNCHANGED <<charter, project, members>>
<1> DEFINE c == Request(op, a, b, arg)
<1>1. c \in Call /\ (c.op = "setRole" => c.arg \in Roles) BY RequestCall
<1>2. Begin(r, c) OBVIOUS
<1>3. UNCHANGED <<charter, project, members>> BY <1>2 DEF Begin
<1> HIDE DEF c
<1>4. QED BY <1>1, <1>2, <1>3, BeginCalls

\* The requests the handlers let in; none has touched a table yet.
LEMMA BeginStepCalls ==
    ASSUME CallsOK, NEW r \in Connections, BeginStep(r)
    PROVE  CallsOK' /\ UNCHANGED <<charter, project, members>>
<1>1. ASSUME NEW a \in Agents, NEW b \in Agents, NEW tier \in {"member", "reviewer"},
             BeginInvite(r, a, b, tier)
      PROVE  CallsOK' /\ UNCHANGED <<charter, project, members>>
  <2>1. Begin(r, Request("invite", a, b, tier)) BY <1>1 DEF BeginInvite
  <2>2. QED BY <2>1, BeginRequest DEF Ops
<1>2. ASSUME NEW a \in Agents, BeginApply(r, a)
      PROVE  CallsOK' /\ UNCHANGED <<charter, project, members>>
  <2>1. Begin(r, Request("apply", a, a, "member")) BY <1>2 DEF BeginApply
  <2>2. QED BY <2>1, BeginRequest DEF Ops
<1>3. ASSUME NEW a \in Agents, NEW b \in Agents, NEW answer \in {"accept", "decline"},
             BeginDecide(r, a, b, answer)
      PROVE  CallsOK' /\ UNCHANGED <<charter, project, members>>
  <2>1. Begin(r, Request("decide", a, b, answer)) BY <1>3 DEF BeginDecide
  <2>2. QED BY <2>1, BeginRequest DEF Ops
<1>4. ASSUME NEW a \in Agents, NEW b \in Agents, BeginRemove(r, a, b)
      PROVE  CallsOK' /\ UNCHANGED <<charter, project, members>>
  <2> DEFINE step == IF b = project.owner THEN "leaving" ELSE "checked"
           c == [Request("remove", a, b, "none") EXCEPT !.step = step]
  <2>1. Begin(r, c) BY <1>4 DEF BeginRemove
  <2>2. UNCHANGED <<charter, project, members>> BY <2>1 DEF Begin
  <2>3. step \in {"checked", "leaving"} OBVIOUS
  <2> HIDE DEF step
  <2>4. c \in Call /\ c.op = "remove" BY <2>3 DEF Request, Call, Ops
  <2> HIDE DEF c
  <2>5. QED BY <2>1, <2>2, <2>4, BeginCalls
<1>5. ASSUME NEW a \in Agents, NEW b \in Agents, NEW role \in Roles,
             BeginSetRole(r, a, b, role)
      PROVE  CallsOK' /\ UNCHANGED <<charter, project, members>>
  <2>1. Begin(r, Request("setRole", a, b, role)) BY <1>5 DEF BeginSetRole
  <2>2. QED BY <2>1, BeginRequest DEF Ops, Roles
<1>6. ASSUME NEW a \in Agents, NEW b \in Agents, BeginTransfer(r, a, b)
      PROVE  CallsOK' /\ UNCHANGED <<charter, project, members>>
  <2>1. Begin(r, Request("transfer", a, b, "none")) BY <1>6 DEF BeginTransfer
  <2>2. QED BY <2>1, BeginRequest DEF Ops
<1>7. ASSUME NEW a \in Agents, NEW answer \in {"accept", "decline"},
             BeginDecideTransfer(r, a, answer)
      PROVE  CallsOK' /\ UNCHANGED <<charter, project, members>>
  <2> DEFINE arg == IF a = project.owner THEN "decline" ELSE answer
  <2>1. Begin(r, Request("decideTransfer", a, a, arg)) BY <1>7 DEF BeginDecideTransfer
  <2>2. arg \in {"accept", "decline"} OBVIOUS
  <2> HIDE DEF arg
  <2>3. QED BY <2>1, <2>2, BeginRequest DEF Ops
<1>8. QED BY <1>1, <1>2, <1>3, <1>4, <1>5, <1>6, <1>7 DEF BeginStep

-----------------------------------------------------------------------------
(* The tables *)

\* Steps that leave the tables alone.
LEMMA QuietTables ==
    ASSUME TablesOK, UNCHANGED <<charter, project, members>>
    PROVE  TablesOK'
BY DEF TablesOK, ArchivedNotPending, PendingHasNoAuthority

\* One row of the roster is written.
LEMMA RosterTables ==
    ASSUME TablesOK, NEW b \in Agents, NEW row \in MemberRow,
           row.status \in {"invited", "reviewer"} => row.role = "member",
           members' = [members EXCEPT ![b] = row], UNCHANGED <<charter, project>>
    PROVE  TablesOK'
<1>1. members'[b] = row /\ \A a \in Agents \ {b} : members'[a] = members[a]
  BY DEF TablesOK
<1>2. members' \in [Agents -> MemberRow] BY DEF TablesOK
<1>3. PendingHasNoAuthority' BY <1>1 DEF TablesOK, PendingHasNoAuthority
<1>4. ArchivedNotPending' BY DEF TablesOK, ArchivedNotPending
<1>5. QED BY <1>2, <1>3, <1>4 DEF TablesOK

\* The columns of the rows that are written.
LEMMA WrittenRows ==
    ASSUME NEW row \in MemberRow, NEW status \in {"active", "left"}, NEW role \in Roles
    PROVE  /\ NoRow \in MemberRow /\ NoRow.status = "none"
           /\ OwnRow \in MemberRow /\ OwnRow.status = "active"
           /\ [row EXCEPT !.status = status] \in MemberRow
           /\ [row EXCEPT !.status = status].status = status
           /\ [row EXCEPT !.role = role] \in MemberRow
           /\ [row EXCEPT !.role = role].status = row.status
BY DEF MemberRow, NoRow, OwnRow, Roles

\* The statements of MembershipStore.
LEMMA RosterStepKeeps ==
    ASSUME IInv, NEW r \in Connections, RosterStep(r)
    PROVE  IInv'
<1>a. CallsOK /\ TablesOK BY DEF IInv
<1> DEFINE b == calls[r].who
<1>1. CASE LookInvite(r)
  <2>1. calls[r].op \in Ops BY <1>1 DEF LookInvite, At, Ops
  <2>2. CallsOK' BY <1>a, <1>1, <2>1, DoneCalls, GotoCalls DEF LookInvite
  <2>3. QED BY <1>a, <1>1, <2>2, QuietTables DEF LookInvite, IInv
<1>2. CASE LookDecide(r)
  <2>1. calls[r].op \in Ops BY <1>2 DEF LookDecide, At, Ops
  <2>2. CallsOK' BY <1>a, <1>2, <2>1, DoneCalls, GotoCalls DEF LookDecide
  <2>3. QED BY <1>a, <1>2, <2>2, QuietTables DEF LookDecide, IInv
<1>3. CASE FinishInvite(r)
  <2>1. calls[r].op \in Ops BY <1>3 DEF FinishInvite, At, Ops
  <2>2. b \in Agents BY <1>a, <2>1, AtWork
  <2>3. InvitedRow(calls[r]) \in MemberRow /\ InvitedRow(calls[r]).role = "member"
    BY DEF InvitedRow, MemberRow, Roles
  <2>4. TablesOK' BY <1>a, <1>3, <2>2, <2>3, RosterTables DEF FinishInvite
  <2>5. QED BY <1>a, <1>3, <2>4, DoneCalls DEF FinishInvite, IInv
<1>4. CASE FinishDecide(r)
  <2>1. calls[r].op \in Ops BY <1>4 DEF FinishDecide, At, Ops
  <2>2. b \in Agents /\ members[b] \in MemberRow BY <1>a, <2>1, AtWork DEF TablesOK
  <2>3. \/ members' = [members EXCEPT ![b] = NoRow]
        \/ members' = members
        \/ members' = [members EXCEPT ![b] = [members[b] EXCEPT !.status = "active"]]
    BY <1>4 DEF FinishDecide
  <2>4. TablesOK'
    BY <1>a, <1>4, <2>2, <2>3, WrittenRows, RosterTables, QuietTables
    DEF FinishDecide, Roles
  <2>5. QED BY <1>a, <1>4, <2>4, DoneCalls DEF FinishDecide, IInv
<1>5. CASE FinishRemove(r)
  <2>1. calls[r].op \in Ops BY <1>5 DEF FinishRemove, At, Ops
  <2>2. b \in Agents /\ members[b] \in MemberRow BY <1>a, <2>1, AtWork DEF TablesOK
  <2>3. \/ members' = members
        \/ members' = [members EXCEPT ![b] = [members[b] EXCEPT !.status = "left"]]
    BY <1>5 DEF FinishRemove
  <2>4. TablesOK'
    BY <1>a, <1>5, <2>2, <2>3, WrittenRows, RosterTables, QuietTables
    DEF FinishRemove, Roles
  <2>5. QED BY <1>a, <1>5, <2>4, DoneCalls DEF FinishRemove, IInv
<1>6. CASE FinishSetRole(r)
  <2>1. calls[r].op = "setRole" BY <1>6 DEF FinishSetRole, At
  <2>2. calls[r].op \in Ops /\ calls[r].arg \in Roles BY <1>a, <2>1 DEF CallsOK, Ops
  <2>3. b \in Agents /\ members[b] \in MemberRow BY <1>a, <2>2, AtWork DEF TablesOK
  <2>4. \/ members' = members
        \/ /\ members[b].status = "active"
           /\ members' = [members EXCEPT ![b] = [members[b] EXCEPT !.role = calls[r].arg]]
    BY <1>6 DEF FinishSetRole, Member
  <2>5. TablesOK'
    BY <1>a, <1>6, <2>2, <2>3, <2>4, WrittenRows, RosterTables, QuietTables
    DEF FinishSetRole
  <2>6. QED BY <1>a, <1>6, <2>5, DoneCalls DEF FinishSetRole, IInv
<1>7. QED BY <1>1, <1>2, <1>3, <1>4, <1>5, <1>6 DEF RosterStep

\* The row of the project is written.
LEMMA ProjectTables ==
    ASSUME TablesOK, UNCHANGED <<charter, members>>, project' \in ProjectRow,
           project'.status = "archived" => project'.pending = NULL
    PROVE  TablesOK'
BY DEF TablesOK, ArchivedNotPending, PendingHasNoAuthority

\* The statements of ProjectStore, and successorFor.
LEMMA OwnerStepKeeps ==
    ASSUME IInv, NEW r \in Connections, OwnerStep(r)
    PROVE  IInv'
<1>a. CallsOK /\ TablesOK /\ project \in ProjectRow BY DEF IInv, TablesOK
<1>1. CASE ChooseHeir(r)
  <2>1. calls[r].op = "remove" /\ calls[r].op \in Ops BY <1>1 DEF ChooseHeir, At, Ops
  <2>2. calls[r] \in Call BY <1>a, <2>1, AtWork
  <2>3. PICK heir \in Agents \cup {NULL} :
            calls' = [calls EXCEPT ![r].heir = heir, ![r].step = "chosen"]
    BY <1>1 DEF ChooseHeir, Coordinators
  <2> DEFINE c == [calls[r] EXCEPT !.heir = heir, !.step = "chosen"]
  <2>4. c \in Call /\ c.op = "remove" BY <2>1, <2>2 DEF Call
  <2>5. calls' = [calls EXCEPT ![r] = c] BY <2>3
  <2> HIDE DEF c
  <2>6. CallsOK' BY <1>a, <2>4, <2>5 DEF CallsOK
  <2>7. QED BY <1>a, <1>1, <2>6, QuietTables DEF ChooseHeir, IInv
<1>2. CASE Succeed(r)
  <2>1. calls[r].op \in Ops BY <1>2 DEF Succeed, At, Ops
  <2>2. calls[r].heir \in Agents \cup {NULL} BY <1>a, <2>1, AtWork
  <2>3. project' \in ProjectRow /\ project'.pending = NULL
    BY <1>a, <1>2, <2>2 DEF Succeed, ProjectRow
  <2>4. TablesOK' BY <1>a, <1>2, <2>3, ProjectTables DEF Succeed
  <2>5. QED BY <1>a, <1>2, <2>1, <2>4, GotoCalls DEF Succeed, IInv
<1>3. CASE Nominate(r)
  <2>1. calls[r].op \in Ops BY <1>3 DEF Nominate, At, Ops
  <2>2. calls[r].who \in Agents BY <1>a, <2>1, AtWork
  <2>3. project' \in ProjectRow /\ (project'.status = "archived" => project'.pending = NULL)
    BY <1>a, <1>3, <2>2 DEF Nominate, ProjectRow, TablesOK, ArchivedNotPending
  <2>4. TablesOK' BY <1>a, <1>3, <2>3, ProjectTables DEF Nominate
  <2>5. QED BY <1>a, <1>3, <2>4, DoneCalls DEF Nominate, IInv
<1>4. CASE CancelTransfer(r)
  <2>1. project' \in ProjectRow /\ project'.pending = NULL
    BY <1>a, <1>4 DEF CancelTransfer, ProjectRow
  <2>2. TablesOK' BY <1>a, <1>4, <2>1, ProjectTables DEF CancelTransfer
  <2>3. QED BY <1>a, <1>4, <2>2, DoneCalls DEF CancelTransfer, IInv
<1>5. CASE AcceptTransfer(r)
  <2> DEFINE old == project.owner
             a == calls[r].by
  <2>1. calls[r].op \in Ops BY <1>5 DEF AcceptTransfer, At, Ops
  <2>2. a \in Agents /\ old \in Agents /\ members[old] \in MemberRow
    BY <1>a, <2>1, AtWork DEF ProjectRow, TablesOK
  <2>3. CASE UNCHANGED <<project, members>>
    <3>1. TablesOK' BY <1>a, <1>5, <2>3, QuietTables DEF AcceptTransfer
    <3>2. QED BY <1>a, <1>5, <3>1, DoneCalls DEF AcceptTransfer, IInv
  <2>4. CASE /\ project' = [project EXCEPT !.owner = a, !.pending = NULL]
             /\ members' = IF ~Closed THEN members
                           ELSE IF members[old].status = "none"
                           THEN [members EXCEPT ![old] = OwnRow]
                           ELSE [members EXCEPT ![old].status = "active"]
    <3>1. project' \in ProjectRow /\ project'.pending = NULL
      BY <1>a, <2>2, <2>4 DEF ProjectRow
    <3>2. \/ members' = members
          \/ members' = [members EXCEPT ![old] = OwnRow]
          \/ members' = [members EXCEPT ![old] = [members[old] EXCEPT !.status = "active"]]
      BY <2>4
    <3>a. PICK row \in MemberRow :
              /\ row.status = "active"
              /\ members' = members \/ members' = [members EXCEPT ![old] = row]
      <4>1. /\ OwnRow \in MemberRow /\ OwnRow.status = "active"
            /\ [members[old] EXCEPT !.status = "active"] \in MemberRow
            /\ [members[old] EXCEPT !.status = "active"].status = "active"
        BY <2>2 DEF MemberRow, OwnRow, Roles
      <4>2. QED BY <3>2, <4>1
    <3>b. members \in [Agents -> MemberRow] BY <1>a DEF TablesOK
    <3>3. /\ members' \in [Agents -> MemberRow]
          /\ \A b \in Agents : members'[b] = members[b] \/ members'[b].status = "active"
      BY <3>a, <3>b
    <3>4. PendingHasNoAuthority' BY <1>a, <3>3 DEF TablesOK, PendingHasNoAuthority
    <3>5. TablesOK'
      BY <1>a, <1>5, <3>1, <3>3, <3>4 DEF TablesOK, ArchivedNotPending, AcceptTransfer
    <3>6. QED BY <1>a, <1>5, <3>5, DoneCalls DEF AcceptTransfer, IInv
  <2>5. QED BY <1>5, <2>3, <2>4 DEF AcceptTransfer
<1>6. QED BY <1>1, <1>2, <1>3, <1>4, <1>5 DEF OwnerStep

-----------------------------------------------------------------------------
(* Invariants *)

\* A project as Create makes it, with plain members that have joined.
LEMMA InitInv == Init => IInv
<1> SUFFICES ASSUME Init PROVE IInv
  OBVIOUS
<1>1. CallsOK BY DEF Init, CallsOK, Idle
<1>2. PICK a \in Agents, joined \in SUBSET Agents :
          /\ project = [status |-> "active", owner |-> a, pending |-> NULL]
          /\ members = [b \in Agents |->
                IF b = a /\ Closed THEN OwnRow
                ELSE IF b \in joined THEN JoinedRow
                ELSE NoRow]
  BY DEF Init
<1>3. /\ OwnRow \in MemberRow /\ JoinedRow \in MemberRow /\ NoRow \in MemberRow
      /\ OwnRow.role = "member" /\ JoinedRow.role = "member" /\ NoRow.role = "member"
  BY DEF OwnRow, JoinedRow, NoRow, MemberRow, Roles
<1>4. members \in [Agents -> MemberRow] /\ \A b \in Agents : members[b].role = "member"
  BY <1>2, <1>3
<1>5. project \in ProjectRow /\ project.status = "active" BY <1>2 DEF ProjectRow
<1>6. TablesOK
  BY <1>4, <1>5 DEF Init, TablesOK, ArchivedNotPending, PendingHasNoAuthority
<1>7. QED BY <1>1, <1>6 DEF IInv

\* Every step preserves the invariant.
LEMMA StepInv == IInv /\ [Next]_vars => IInv'
<1> SUFFICES ASSUME IInv, [Next]_vars PROVE IInv'
  OBVIOUS
<1>1. CASE UNCHANGED vars
  BY <1>1, QuietTables DEF vars, IInv, CallsOK
<1>2. ASSUME NEW r \in Connections, BeginStep(r) PROVE IInv'
  BY <1>2, BeginStepCalls, QuietTables DEF IInv
<1>3. QED BY <1>1, <1>2, RosterStepKeeps, OwnerStepKeeps DEF Next

\* The inductive invariant.
LEMMA Invariant == Spec => []IInv
<1>1. QED BY InitInv, StepInv, PTL DEF Spec

\* Every table keeps its type.
THEOREM TypeCorrect == Spec => []TypeOK
<1>1. IInv => TypeOK BY DEF IInv, CallsOK, TablesOK, TypeOK
<1>2. QED BY <1>1, Invariant, PTL

\* A nomination never lands in, or outlives, an archived project (Nominate's
\* WHERE status, Succeed).
THEOREM NoPendingArchive == Spec => []ArchivedNotPending
<1>1. IInv => ArchivedNotPending BY DEF IInv, TablesOK
<1>2. QED BY <1>1, Invariant, PTL

\* An invitation, an application or a grant carries no role but that of a
\* member, whatever the order of requests (Invite's upsert, SetRole).
THEOREM NoPendingAuthority == Spec => []PendingHasNoAuthority
<1>1. IInv => PendingHasNoAuthority BY DEF IInv, TablesOK
<1>2. QED BY <1>1, Invariant, PTL

\* Only the nomination of that moment or a departure moves the ownership
\* (AcceptTransfer, Succeed).
THEOREM OneUsePerNomination == Spec => NominationUsedOnce
<1> DEFINE Used ==
      project'.owner # project.owner =>
          /\ project'.pending = NULL
          /\ \E r \in Connections :
                /\ calls[r] # Idle
                /\ \/ /\ calls[r].op = "decideTransfer"
                      /\ calls[r].by = project'.owner
                      /\ project.pending = project'.owner
                   \/ calls[r].op = "remove" /\ calls[r].heir = project'.owner
<1>1. IInv /\ [Next]_vars => [Used]_vars
  <2> SUFFICES ASSUME IInv, Next, project'.owner # project.owner PROVE Used
    OBVIOUS
  <2>a. CallsOK /\ project \in ProjectRow BY DEF IInv, TablesOK
  <2>1. PICK r \in Connections : BeginStep(r) \/ RosterStep(r) \/ OwnerStep(r) BY DEF Next
  <2>2. project' # project OBVIOUS
  <2>3. ~BeginStep(r) BY <2>a, <2>2, BeginStepCalls
  <2>4. ~RosterStep(r)
    BY <2>2 DEF RosterStep, LookInvite, FinishInvite, LookDecide, FinishDecide,
                FinishRemove, FinishSetRole
  <2>5. CASE Succeed(r)
    <3>1. calls[r].op = "remove" /\ calls[r] # Idle
      BY <2>5, <2>a, AtWork DEF Succeed, At, Ops
    <3>2. project'.pending = NULL /\ project'.owner = calls[r].heir
      BY <2>5, <2>a DEF Succeed, ProjectRow
    <3>3. QED BY <3>1, <3>2
  <2>6. CASE AcceptTransfer(r)
    <3>1. calls[r].op = "decideTransfer" /\ calls[r] # Idle
      BY <2>6, <2>a, AtWork DEF AcceptTransfer, At, Ops
    <3>2. /\ project.pending = calls[r].by
          /\ project' = [project EXCEPT !.owner = calls[r].by, !.pending = NULL]
      BY <2>6, <2>2 DEF AcceptTransfer
    <3>3. project'.pending = NULL /\ project'.owner = calls[r].by
      BY <3>2, <2>a DEF ProjectRow
    <3>4. QED BY <3>1, <3>2, <3>3
  <2>7. CASE ChooseHeir(r) BY <2>7, <2>2 DEF ChooseHeir
  <2>8. CASE Nominate(r) BY <2>8, <2>a DEF Nominate, ProjectRow
  <2>9. CASE CancelTransfer(r) BY <2>9, <2>a DEF CancelTransfer, ProjectRow
  <2>10. QED BY <2>1, <2>3, <2>4, <2>5, <2>6, <2>7, <2>8, <2>9 DEF OwnerStep
<1>2. QED BY <1>1, Invariant, PTL DEF Spec, NominationUsedOnce
-----------------------------------------------------------------------------
(* Requests that overlap no other *)

\* What the handler's reading of the tables has found of a request, and what
\* is still so if nobody else was served since.
Rightful(c) ==
    /\ c.op \in {"invite", "apply"} /\ c.step = "looked" => ~Member(c.who)
    /\ c.op = "decide" =>
          /\ IF members[c.who].invited THEN c.by = c.who ELSE CanAdminister(c.by)
          /\ c.step = "looked" => members[c.who].status = "invited"
    /\ c.op = "remove" =>
          /\ c.step \in {"leaving", "chosen"} =>
                c.by = project.owner /\ c.who = project.owner
          /\ c.step = "chosen" /\ c.heir # NULL => Member(c.heir) /\ c.heir # c.who
          /\ c.step = "checked" => project.status = "archived" \/ c.who # project.owner

\* A request that has overlapped no other is the only one, and rightful.
AloneInv ==
    \A r \in Connections : calls[r] # Idle /\ calls[r].alone =>
        /\ \A q \in Connections \ {r} : calls[q] = Idle
        /\ Rightful(calls[r])

\* The step of a request that is alone finds no other.
LEMMA OthersIdle ==
    ASSUME CallsOK, AloneInv, NEW r \in Connections, calls[r].op \in Ops,
           NEW q \in Connections \ {r}, calls[q] # Idle
    PROVE  ~calls[q].alone
<1>1. calls[r] # Idle BY AtWork
<1>2. QED BY <1>1 DEF AloneInv

\* A request ends.
LEMMA DoneAlone ==
    ASSUME CallsOK, AloneInv, NEW r \in Connections, calls[r].op \in Ops, Done(r)
    PROVE  AloneInv'
<1>1. calls'[r] = Idle /\ \A q \in Connections \ {r} : calls'[q] = calls[q]
  BY DEF Done, CallsOK
<1>2. \A q \in Connections : calls'[q] = Idle \/ ~calls'[q].alone
  BY <1>1, OthersIdle
<1>3. QED BY <1>2 DEF AloneInv

\* A request goes on, to where it is rightful.
LEMMA GoesOnAlone ==
    ASSUME CallsOK, AloneInv, NEW r \in Connections, calls[r].op \in Ops,
           NEW c \in Call, c.alone = calls[r].alone,
           calls' = [calls EXCEPT ![r] = c],
           Rightful(calls[r]) => Rightful(c)'
    PROVE  AloneInv'
<1>1. calls'[r] = c /\ \A q \in Connections \ {r} : calls'[q] = calls[q]
  BY DEF CallsOK
<1>2. \A q \in Connections \ {r} : calls'[q] = Idle \/ ~calls'[q].alone
  BY <1>1, OthersIdle
<1>3. calls[r] # Idle BY AtWork
<1>4. ASSUME calls'[r].alone
      PROVE  /\ \A q \in Connections \ {r} : calls'[q] = Idle
             /\ Rightful(calls[r])'
  <2>1. calls[r].alone BY <1>1, <1>4
  <2>2. Rightful(calls[r]) /\ \A q \in Connections \ {r} : calls[q] = Idle
    BY <1>3, <2>1 DEF AloneInv
  <2>3. Rightful(c)' BY <2>2
  <2>4. Rightful(calls[r])' BY <1>1, <2>3 DEF Rightful, CanAdminister, Member
  <2>5. QED BY <1>1, <2>2, <2>4
<1>5. QED BY <1>2, <1>4 DEF AloneInv

\* A request begins: with others, none is alone; without, it is the only one.
LEMMA BeginAlone ==
    ASSUME CallsOK, NEW r \in Connections, NEW c \in Call, Begin(r, c), Rightful(c)
    PROVE  AloneInv'
<1> DEFINE others == {q \in Connections : calls[q] # Idle}
           new == [c EXCEPT !.alone = (others = {})]
<1>1. calls'[r] = new BY DEF Begin
<1>2. \A q \in Connections \ {r} :
          calls'[q] = IF q \in others THEN [calls[q] EXCEPT !.alone = FALSE] ELSE Idle
  BY DEF Begin
<1>3. \A q \in others : calls[q] \in Call BY DEF CallsOK
<1>4. \A q \in others : ~[calls[q] EXCEPT !.alone = FALSE].alone BY <1>3 DEF Call
<1>5. \A q \in Connections \ {r} : calls'[q] = Idle \/ ~calls'[q].alone
  BY <1>2, <1>4
<1>6. /\ new.alone = (others = {}) /\ new.op = c.op /\ new.by = c.by
      /\ new.who = c.who /\ new.step = c.step /\ new.heir = c.heir
  BY DEF Call
<1>7. others = {} => \A q \in Connections \ {r} : calls'[q] = Idle BY <1>2
<1>8. Rightful(calls[r])'
  <2>1. UNCHANGED <<charter, project, members>> BY DEF Begin
  <2> HIDE DEF new
  <2>2. QED BY <1>1, <1>6, <2>1 DEF Rightful, CanAdminister, Member
<1>9. calls'[r].alone => others = {} BY <1>1, <1>6
<1> HIDE DEF others
<1>10. QED BY <1>5, <1>7, <1>8, <1>9 DEF AloneInv

\* A request of one of the kinds a lone request must be rightful for only once
\* it goes on.
LEMMA BeginOther ==
    ASSUME CallsOK, NEW r \in Connections,
           NEW op \in {"invite", "apply", "setRole", "transfer", "decideTransfer"},
           NEW a \in Agents, NEW b \in Agents,
           NEW arg \in {"member", "reviewer", "coordinator", "accept", "decline", "none"},
           Begin(r, Request(op, a, b, arg))
    PROVE  AloneInv'
<1>1. Request(op, a, b, arg) \in Call /\ Request(op, a, b, arg).op = op
  BY RequestCall DEF Ops
<1>2. Request(op, a, b, arg).step = "checked" BY DEF Request
<1>3. Rightful(Request(op, a, b, arg)) BY <1>1, <1>2 DEF Rightful
<1>4. QED BY <1>1, <1>3, BeginAlone

\* The handlers' checks make a request rightful.
LEMMA BeginStepAlone ==
    ASSUME CallsOK, NEW r \in Connections, BeginStep(r)
    PROVE  AloneInv'
<1>1. ASSUME NEW a \in Agents, NEW b \in Agents, NEW tier \in {"member", "reviewer"},
             BeginInvite(r, a, b, tier)
      PROVE  AloneInv'
  <2>1. Begin(r, Request("invite", a, b, tier)) BY <1>1 DEF BeginInvite
  <2>2. QED BY <2>1, BeginOther
<1>2. ASSUME NEW a \in Agents, BeginApply(r, a)
      PROVE  AloneInv'
  <2>1. Begin(r, Request("apply", a, a, "member")) BY <1>2 DEF BeginApply
  <2>2. QED BY <2>1, BeginOther
<1>3. ASSUME NEW a \in Agents, NEW b \in Agents, NEW answer \in {"accept", "decline"},
             BeginDecide(r, a, b, answer)
      PROVE  AloneInv'
  <2> DEFINE c == Request("decide", a, b, answer)
  <2>1. c \in Call BY RequestCall DEF Ops
  <2>2. c.op = "decide" /\ c.by = a /\ c.who = b /\ c.step = "checked" BY DEF Request
  <2>3. IF members[b].invited THEN a = b ELSE CanAdminister(a) BY <1>3 DEF BeginDecide
  <2>4. Begin(r, c) BY <1>3 DEF BeginDecide
  <2> HIDE DEF c
  <2>5. Rightful(c) BY <2>2, <2>3 DEF Rightful
  <2>6. QED BY <2>1, <2>4, <2>5, BeginAlone
<1>4. ASSUME NEW a \in Agents, NEW b \in Agents, BeginRemove(r, a, b)
      PROVE  AloneInv'
  <2> DEFINE step == IF b = project.owner THEN "leaving" ELSE "checked"
             c == [Request("remove", a, b, "none") EXCEPT !.step = step]
  <2>1. Begin(r, c) BY <1>4 DEF BeginRemove
  <2>2. /\ step \in {"checked", "leaving"}
        /\ step = "leaving" => b = project.owner
        /\ step = "checked" => b # project.owner
    OBVIOUS
  <2>3. b = project.owner => a = b BY <1>4 DEF BeginRemove
  <2> HIDE DEF step
  <2>4. /\ c \in Call /\ c.op = "remove" /\ c.by = a /\ c.who = b /\ c.step = step
    BY <2>2 DEF Request, Call, Ops
  <2> HIDE DEF c
  <2>5. Rightful(c) BY <2>2, <2>3, <2>4 DEF Rightful
  <2>6. QED BY <2>1, <2>4, <2>5, BeginAlone
<1>5. ASSUME NEW a \in Agents, NEW b \in Agents, NEW role \in Roles,
             BeginSetRole(r, a, b, role)
      PROVE  AloneInv'
  <2>1. Begin(r, Request("setRole", a, b, role)) BY <1>5 DEF BeginSetRole
  <2>2. QED BY <2>1, BeginOther DEF Roles
<1>6. ASSUME NEW a \in Agents, NEW b \in Agents, BeginTransfer(r, a, b)
      PROVE  AloneInv'
  <2>1. Begin(r, Request("transfer", a, b, "none")) BY <1>6 DEF BeginTransfer
  <2>2. QED BY <2>1, BeginOther
<1>7. ASSUME NEW a \in Agents, NEW answer \in {"accept", "decline"},
             BeginDecideTransfer(r, a, answer)
      PROVE  AloneInv'
  <2> DEFINE arg == IF a = project.owner THEN "decline" ELSE answer
  <2>1. Begin(r, Request("decideTransfer", a, a, arg)) BY <1>7 DEF BeginDecideTransfer
  <2>2. arg \in {"accept", "decline"} OBVIOUS
  <2> HIDE DEF arg
  <2>3. QED BY <2>1, <2>2, BeginOther
<1>8. QED BY <1>1, <1>2, <1>3, <1>4, <1>5, <1>6, <1>7 DEF BeginStep

\* The next step of a request, one of the kinds that leave the tables alone.
LEMMA GotoAlone ==
    ASSUME CallsOK, AloneInv, NEW r \in Connections, calls[r].op \in Ops,
           calls[r].op # "remove", Goto(r, "looked"),
           UNCHANGED <<charter, project, members>>,
           calls[r].op = "decide" => members[calls[r].who].status = "invited",
           calls[r].op \in {"invite", "apply"} => ~Member(calls[r].who)
    PROVE  AloneInv'
<1>0. PICK c : c = [calls[r] EXCEPT !.step = "looked"] OBVIOUS
<1>1. calls[r] \in Call BY AtWork
<1>2. /\ c \in Call /\ c.op = calls[r].op /\ c.by = calls[r].by
      /\ c.who = calls[r].who /\ c.step = "looked" /\ c.alone = calls[r].alone
  BY <1>0, <1>1 DEF Call
<1>3. calls' = [calls EXCEPT ![r] = c] BY <1>0 DEF Goto
<1>4. Rightful(calls[r]) => Rightful(c)' BY <1>2 DEF Rightful, CanAdminister, Member
<1>5. QED BY <1>2, <1>3, <1>4, GoesOnAlone

\* A departure with an heir leaves the project to an active member, one without
\* leaves it archived.
LEMMA SucceedAlone ==
    ASSUME CallsOK, project \in ProjectRow, AloneInv, NEW r \in Connections, Succeed(r)
    PROVE  AloneInv'
<1>0. PICK c : c = [calls[r] EXCEPT !.step = "checked"] OBVIOUS
<1>1. calls[r].op = "remove" /\ calls[r].op \in Ops /\ calls[r].step = "chosen"
  BY DEF Succeed, At, Ops
<1>2. calls[r] \in Call BY <1>1, AtWork
<1>3. /\ c \in Call /\ c.op = "remove" /\ c.by = calls[r].by
      /\ c.who = calls[r].who /\ c.step = "checked" /\ c.alone = calls[r].alone
  BY <1>0, <1>1, <1>2 DEF Call
<1>4. calls' = [calls EXCEPT ![r] = c] BY <1>0 DEF Succeed, Goto
<1>5. IF calls[r].heir = NULL THEN project'.status = "archived"
      ELSE project'.owner = calls[r].heir
  BY DEF Succeed, ProjectRow
<1>6. Rightful(calls[r]) => Rightful(c)' BY <1>1, <1>3, <1>5 DEF Rightful
<1>7. QED BY <1>1, <1>3, <1>4, <1>6, GoesOnAlone

\* Every step keeps lone requests rightful.
LEMMA StepAlone == IInv /\ AloneInv /\ [Next]_vars => AloneInv'
<1> SUFFICES ASSUME IInv, AloneInv, [Next]_vars PROVE AloneInv'
  OBVIOUS
<1>a. CallsOK BY DEF IInv
<1>1. CASE UNCHANGED vars
  BY <1>1 DEF vars, AloneInv, Rightful, CanAdminister, Member
<1>2. ASSUME NEW r \in Connections, BeginStep(r) PROVE AloneInv'
  BY <1>a, <1>2, BeginStepAlone
<1>3. ASSUME NEW r \in Connections, RosterStep(r) PROVE AloneInv'
  <2>1. calls[r].op \in Ops
    BY <1>3 DEF RosterStep, LookInvite, FinishInvite, LookDecide, FinishDecide,
                FinishRemove, FinishSetRole, At, Ops
  <2>2. CASE Done(r) BY <1>a, <2>1, <2>2, DoneAlone
  <2>3. CASE LookInvite(r) /\ ~Done(r)
    <3>1. /\ Goto(r, "looked") /\ calls[r].op # "decide" /\ calls[r].op # "remove"
          /\ ~Member(calls[r].who)
          /\ UNCHANGED <<charter, project, members>>
      BY <2>3 DEF LookInvite, At, Member
    <3>2. QED BY <1>a, <2>1, <3>1, GotoAlone
  <2>4. CASE LookDecide(r) /\ ~Done(r)
    <3>1. /\ Goto(r, "looked") /\ calls[r].op = "decide"
          /\ members[calls[r].who].status = "invited"
          /\ UNCHANGED <<charter, project, members>>
      BY <2>4 DEF LookDecide, At
    <3>2. QED BY <1>a, <2>1, <3>1, GotoAlone
  <2>5. QED
    BY <1>3, <2>2, <2>3, <2>4 DEF RosterStep, FinishInvite, FinishDecide,
                                  FinishRemove, FinishSetRole
<1>4. ASSUME NEW r \in Connections, OwnerStep(r) PROVE AloneInv'
  <2>1. calls[r].op \in Ops
    BY <1>4 DEF OwnerStep, ChooseHeir, Succeed, Nominate, CancelTransfer,
                AcceptTransfer, At, Ops
  <2>2. CASE Done(r) BY <1>a, <2>1, <2>2, DoneAlone
  <2>3. CASE Succeed(r)
    <3>1. project \in ProjectRow BY DEF IInv, TablesOK
    <3>2. QED BY <1>a, <2>3, <3>1, SucceedAlone
  <2>4. CASE ChooseHeir(r)
    <3>1. calls[r].op = "remove" /\ calls[r].step = "leaving" BY <2>4 DEF ChooseHeir, At
    <3>2. calls[r] \in Call BY <1>a, <2>1, AtWork
    <3>3. PICK heir \in Agents \cup {NULL} :
              /\ calls' = [calls EXCEPT ![r].heir = heir, ![r].step = "chosen"]
              /\ heir # NULL => Member(heir) /\ heir # calls[r].who
      BY <2>4 DEF ChooseHeir, Coordinators
    <3>a. PICK c : c = [calls[r] EXCEPT !.heir = heir, !.step = "chosen"] OBVIOUS
    <3>4. /\ c \in Call /\ c.op = calls[r].op /\ c.by = calls[r].by
          /\ c.who = calls[r].who /\ c.alone = calls[r].alone
          /\ c.step = "chosen" /\ c.heir = heir
      BY <3>2, <3>a DEF Call
    <3>5. calls' = [calls EXCEPT ![r] = c] BY <3>3, <3>a
    <3>6. UNCHANGED <<charter, project, members>> BY <2>4 DEF ChooseHeir
    <3>7. Rightful(calls[r]) => Rightful(c)'
      BY <3>1, <3>3, <3>4, <3>6 DEF Rightful, Member
    <3>8. QED BY <1>a, <2>1, <3>4, <3>5, <3>7, GoesOnAlone
  <2>5. QED BY <1>4, <2>2, <2>3, <2>4 DEF OwnerStep, Nominate, CancelTransfer, AcceptTransfer
<1>5. QED BY <1>1, <1>2, <1>3, <1>4 DEF Next

\* Lone requests stay rightful.
LEMMA RightfulAlone == Spec => [](IInv /\ AloneInv)
<1>1. Init => IInv /\ AloneInv BY InitInv DEF Init, AloneInv
<1>2. IInv /\ AloneInv /\ [Next]_vars => (IInv /\ AloneInv)' BY StepInv, StepAlone
<1>3. QED BY <1>1, <1>2, PTL DEF Spec

\* A request that is served and overlaps no other is rightful.
LEMMA ServedAlone ==
    ASSUME IInv, AloneInv, ~Overlapping, NEW r \in Connections,
           calls[r].op \in Ops, calls'[r] # calls[r]
    PROVE  calls[r] # Idle /\ Rightful(calls[r])
<1>1. calls[r] # Idle BY AtWork DEF IInv
<1>2. calls[r].alone BY <1>1 DEF Overlapping
<1>3. QED BY <1>1, <1>2 DEF AloneInv

\* A request that ends is served.
LEMMA DoneServes ==
    ASSUME IInv, NEW r \in Connections, calls[r].op \in Ops, Done(r)
    PROVE  calls'[r] # calls[r]
<1>1. calls[r] # Idle BY AtWork DEF IInv
<1>2. calls'[r] = Idle BY DEF Done, IInv, CallsOK
<1>3. QED BY <1>1, <1>2

\* Nobody is put into a project without having agreed to it, by requests one
\* at a time (handleDecideMembership and the statement of Decide).
THEOREM JoinedByConsent == Spec => JoinsByConsent
<1> DEFINE Consent(a, r) ==
      \/ /\ Finishing(r, "decide")
         /\ calls[r].who = a
         /\ members[a].status = "invited"
         /\ IF members[a].invited THEN calls[r].by = a
            ELSE CanAdminister(calls[r].by)
      \/ Finishing(r, "decideTransfer") /\ project.owner = a
<1>1. ASSUME IInv, AloneInv, Next, ~Overlapping,
             NEW a \in Agents, ~Member(a), members'[a].status = "active"
      PROVE  \E r \in Connections : Consent(a, r)
  <2>a. /\ CallsOK /\ members \in [Agents -> MemberRow] /\ project \in ProjectRow
        /\ members[a].status # "active"
    BY <1>1 DEF IInv, TablesOK, Member
  <2>1. PICK r \in Connections : BeginStep(r) \/ RosterStep(r) \/ OwnerStep(r)
    BY <1>1 DEF Next
  <2>2. members' # members BY <1>1, <2>a
  <2>3. ~BeginStep(r) BY <2>a, <2>2, BeginStepCalls
  <2>4. CASE FinishDecide(r)
    <3>1. calls[r].op = "decide" /\ calls[r].op \in Ops /\ calls[r].step = "looked"
          /\ Done(r)
      BY <2>4 DEF FinishDecide, At, Ops
    <3>2. calls[r].who \in Agents BY <2>a, <3>1, AtWork
    <3>3. calls[r].who = a BY <1>1, <2>4, <2>a, <3>2 DEF FinishDecide
    <3>4. calls'[r] # calls[r] BY <1>1, <3>1, DoneServes
    <3>5. calls[r] # Idle /\ Rightful(calls[r]) BY <1>1, <3>1, <3>4, ServedAlone
    <3>6. Consent(a, r) BY <3>1, <3>3, <3>4, <3>5 DEF Rightful, Finishing
    <3>7. QED BY <3>6
  <2>5. CASE FinishInvite(r)
    <3>1. calls[r].op \in Ops BY <2>5 DEF FinishInvite, At, Ops
    <3>2. calls[r].who \in Agents BY <2>a, <3>1, AtWork
    <3>3. InvitedRow(calls[r]).status # "active" BY DEF InvitedRow
    <3>4. QED BY <1>1, <2>5, <2>a, <3>2, <3>3 DEF FinishInvite
  <2>6. CASE FinishRemove(r)
    <3>1. calls[r].op \in Ops BY <2>6 DEF FinishRemove, At, Ops
    <3>2. calls[r].who \in Agents BY <2>a, <3>1, AtWork
    <3>3. [members[calls[r].who] EXCEPT !.status = "left"].status = "left"
      BY <2>a, <3>2 DEF MemberRow
    <3>4. QED BY <1>1, <2>6, <2>a, <3>2, <3>3 DEF FinishRemove
  <2>7. CASE FinishSetRole(r)
    <3>1. calls[r].op \in Ops BY <2>7 DEF FinishSetRole, At, Ops
    <3>2. calls[r].who \in Agents BY <2>a, <3>1, AtWork
    <3>3. [members[calls[r].who] EXCEPT !.role = calls[r].arg].status
            = members[calls[r].who].status
      BY <2>a, <3>2 DEF MemberRow
    <3>4. QED BY <1>1, <2>7, <2>a, <3>2, <3>3 DEF FinishSetRole
  <2>8. CASE AcceptTransfer(r)
    <3>1. calls[r].op = "decideTransfer" /\ calls[r].op \in Ops /\ Done(r)
      BY <2>8 DEF AcceptTransfer, At, Ops
    <3>2. project.owner \in Agents BY <2>a DEF ProjectRow
    <3>3. project.owner = a BY <1>1, <2>8, <2>a, <3>2 DEF AcceptTransfer
    <3>4. calls'[r] # calls[r] /\ calls[r] # Idle
      BY <1>1, <2>a, <3>1, DoneServes, AtWork
    <3>5. Consent(a, r) BY <3>1, <3>3, <3>4 DEF Finishing
    <3>6. QED BY <3>5
  <2>9. ~LookInvite(r) /\ ~LookDecide(r) BY <2>2 DEF LookInvite, LookDecide
  <2>10. ~ChooseHeir(r) /\ ~Succeed(r) /\ ~Nominate(r) /\ ~CancelTransfer(r)
    BY <2>2 DEF ChooseHeir, Succeed, Nominate, CancelTransfer
  <2>11. QED
    BY <2>1, <2>3, <2>4, <2>5, <2>6, <2>7, <2>8, <2>9, <2>10 DEF RosterStep, OwnerStep
<1> DEFINE Joins(a) == ~Member(a) /\ members'[a].status = "active" /\ ~Overlapping =>
                           \E r \in Connections : Consent(a, r)
<1>2. IInv /\ AloneInv /\ [Next]_vars => [\A a \in Agents : Joins(a)]_vars
  BY <1>1
<1>3. QED BY <1>2, RightfulAlone, PTL DEF Spec, JoinsByConsent

\* An owner loses the project to the agent it nominated or by leaving itself,
\* by requests one at a time (AcceptTransfer, Succeed, handleRemoveMembership).
THEOREM OwnersLetGo == Spec => OwnerLetsGo
<1> DEFINE LetsGo ==
      project'.owner # project.owner /\ ~Overlapping =>
          \/ project'.owner = project.pending
          \/ \E r \in Connections :
                /\ Finishing(r, "remove")
                /\ calls[r].by = project.owner
                /\ calls[r].who = project.owner
<1>1. IInv /\ AloneInv /\ [Next]_vars => [LetsGo]_vars
  <2> SUFFICES ASSUME IInv, AloneInv, Next, ~Overlapping, project'.owner # project.owner
               PROVE  \/ project'.owner = project.pending
                      \/ \E r \in Connections :
                            /\ Finishing(r, "remove")
                            /\ calls[r].by = project.owner
                            /\ calls[r].who = project.owner
    OBVIOUS
  <2>a. CallsOK /\ project \in ProjectRow BY DEF IInv, TablesOK
  <2>1. PICK r \in Connections : BeginStep(r) \/ RosterStep(r) \/ OwnerStep(r) BY DEF Next
  <2>2. project' # project OBVIOUS
  <2>3. ~BeginStep(r) BY <2>a, <2>2, BeginStepCalls
  <2>4. ~RosterStep(r)
    BY <2>2 DEF RosterStep, LookInvite, FinishInvite, LookDecide, FinishDecide,
                FinishRemove, FinishSetRole
  <2>5. CASE Succeed(r)
    <3>1. calls[r].op = "remove" /\ calls[r].op \in Ops /\ calls[r].step = "chosen"
      BY <2>5 DEF Succeed, At, Ops
    <3>2. calls[r] \in Call BY <2>a, <3>1, AtWork
    <3>3. calls'[r].step = "checked"
      BY <2>5, <2>a, <3>2 DEF Succeed, Goto, CallsOK, Call
    <3>4. calls[r] # Idle /\ Rightful(calls[r]) BY <3>1, <3>3, ServedAlone
    <3>5. Finishing(r, "remove") BY <3>1, <3>3, <3>4 DEF Finishing
    <3>6. QED BY <3>1, <3>4, <3>5 DEF Rightful
  <2>6. CASE AcceptTransfer(r)
    <3>1. /\ project.pending = calls[r].by
          /\ project' = [project EXCEPT !.owner = calls[r].by, !.pending = NULL]
      BY <2>6, <2>2 DEF AcceptTransfer
    <3>2. project'.owner = project.pending BY <3>1, <2>a DEF ProjectRow
    <3>3. QED BY <3>2
  <2>7. CASE ChooseHeir(r) BY <2>7, <2>2 DEF ChooseHeir
  <2>8. CASE Nominate(r) BY <2>8, <2>a DEF Nominate, ProjectRow
  <2>9. CASE CancelTransfer(r) BY <2>9, <2>a DEF CancelTransfer, ProjectRow
  <2>10. QED BY <2>1, <2>3, <2>4, <2>5, <2>6, <2>7, <2>8, <2>9 DEF OwnerStep
<1>2. QED BY <1>1, RightfulAlone, PTL DEF Spec, OwnerLetsGo

-----------------------------------------------------------------------------
(* What holds of the properties that do not: OwnerIsMember, ArchivedKeepsOwner *)

\* The owner of an active closed project is a member of it.
OwnerOnRoster == Closed /\ project.status = "active" => Member(project.owner)

\* A nominee that is no member accepts the transfer.
OutsiderAccepts(r) ==
    /\ Finishing(r, "decideTransfer") /\ calls[r].arg = "accept"
    /\ project.pending = calls[r].by /\ ~Member(calls[r].by)

\* Of requests one at a time, an acceptance by a nominee that has left is the
\* only one that takes the owner of an active closed project off its roster:
\* no departure, removal, invitation or decision does (OwnerIsMember).
THEOREM OnlyAcceptanceLeavesRoster ==
    Spec => [][OwnerOnRoster /\ ~OwnerOnRoster' /\ ~Overlapping =>
                  \E r \in Connections : OutsiderAccepts(r)]_vars
<1>1. IInv /\ AloneInv /\ [Next]_vars =>
          [OwnerOnRoster /\ ~OwnerOnRoster' /\ ~Overlapping =>
              \E r \in Connections : OutsiderAccepts(r)]_vars
  <2> SUFFICES ASSUME IInv, AloneInv, Next, OwnerOnRoster, ~OwnerOnRoster', ~Overlapping
               PROVE  \E r \in Connections : OutsiderAccepts(r)
    OBVIOUS
  <2>a. CallsOK /\ project \in ProjectRow /\ members \in [Agents -> MemberRow]
    BY DEF IInv, TablesOK
  <2>1. PICK r \in Connections : BeginStep(r) \/ RosterStep(r) \/ OwnerStep(r) BY DEF Next
  <2>2. charter' = charter
    BY <2>1, <2>a, BeginStepCalls
    DEF RosterStep, LookInvite, FinishInvite, LookDecide, FinishDecide, FinishRemove,
        FinishSetRole, OwnerStep, ChooseHeir, Succeed, Nominate, CancelTransfer,
        AcceptTransfer
  <2>3. /\ project'.status = "active" /\ members'[project'.owner].status # "active"
        /\ project.status = "active" => members[project.owner].status = "active"
        /\ project.owner \in Agents
    BY <2>2, <2>a DEF OwnerOnRoster, Closed, Member, ProjectRow
  <2>4. ~(UNCHANGED <<project, members>>) BY <2>3
  <2>5. ~BeginStep(r) BY <2>a, <2>4, BeginStepCalls
  <2>6. ~LookInvite(r) /\ ~LookDecide(r) /\ ~ChooseHeir(r)
    BY <2>4 DEF LookInvite, LookDecide, ChooseHeir
  <2>7. ASSUME calls[r].op \in Ops, Done(r)
        PROVE  /\ calls[r] # Idle /\ calls'[r] # calls[r] /\ Rightful(calls[r])
               /\ calls[r].who \in Agents /\ calls[r].by \in Agents
    BY <2>7, <2>a, DoneServes, ServedAlone, AtWork
  <2>8. CASE FinishInvite(r)
    <3>1. calls[r].op \in {"invite", "apply"} /\ calls[r].op \in Ops
          /\ calls[r].step = "looked" /\ Done(r) /\ project' = project
      BY <2>8 DEF FinishInvite, At, Ops
    <3>2. ~Member(calls[r].who) BY <2>7, <3>1 DEF Rightful
    <3>3. members'[project.owner] = members[project.owner]
      BY <2>8, <2>3, <2>a, <3>1, <3>2 DEF FinishInvite, Member
    <3>4. QED BY <2>3, <3>1, <3>3
  <2>9. CASE FinishDecide(r)
    <3>1. calls[r].op = "decide" /\ calls[r].op \in Ops
          /\ calls[r].step = "looked" /\ Done(r) /\ project' = project
      BY <2>9 DEF FinishDecide, At, Ops
    <3>2. members[calls[r].who].status = "invited" BY <2>7, <3>1 DEF Rightful
    <3>3. members'[project.owner] = members[project.owner]
      BY <2>9, <2>3, <2>a, <3>1, <3>2 DEF FinishDecide
    <3>4. QED BY <2>3, <3>1, <3>3
  <2>10. CASE FinishRemove(r)
    <3>1. calls[r].op = "remove" /\ calls[r].op \in Ops
          /\ calls[r].step = "checked" /\ Done(r) /\ project' = project
      BY <2>10 DEF FinishRemove, At, Ops
    <3>2. calls[r].who # project.owner BY <2>3, <2>7, <3>1 DEF Rightful
    <3>3. members'[project.owner] = members[project.owner]
      BY <2>10, <2>3, <2>a, <3>2 DEF FinishRemove
    <3>4. QED BY <2>3, <3>1, <3>3
  <2>11. CASE FinishSetRole(r)
    <3>1. project' = project BY <2>11 DEF FinishSetRole
    <3>2. members[project.owner] \in MemberRow BY <2>3, <2>a
    <3>3. members'[project.owner].status = members[project.owner].status
      BY <2>11, <2>3, <2>a, <3>2 DEF FinishSetRole, MemberRow
    <3>4. QED BY <2>3, <3>1, <3>3
  <2>12. CASE Succeed(r)
    <3>1. calls[r].op = "remove" /\ calls[r].op \in Ops /\ calls[r].step = "chosen"
          /\ members' = members
      BY <2>12 DEF Succeed, At, Ops
    <3>2. calls[r] \in Call BY <2>a, <3>1, AtWork
    <3>3. calls'[r].step = "checked"
      BY <2>12, <2>a, <3>2 DEF Succeed, Goto, CallsOK, Call
    <3>4. Rightful(calls[r]) BY <3>1, <3>3, ServedAlone
    <3>5. calls[r].heir # NULL /\ project'.owner = calls[r].heir
      BY <2>12, <2>3, <2>a DEF Succeed, ProjectRow
    <3>6. QED BY <2>3, <3>1, <3>4, <3>5 DEF Rightful, Member
  <2>13. CASE Nominate(r)
    <3>1. members' = members /\ project'.owner = project.owner
          /\ project'.status = project.status
      BY <2>13, <2>a DEF Nominate, ProjectRow
    <3>2. QED BY <2>3, <3>1
  <2>14. CASE CancelTransfer(r)
    <3>1. members' = members /\ project'.owner = project.owner
          /\ project'.status = project.status
      BY <2>14, <2>a DEF CancelTransfer, ProjectRow
    <3>2. QED BY <2>3, <3>1
  <2>15. CASE AcceptTransfer(r)
    <3>1. calls[r].op = "decideTransfer" /\ calls[r].op \in Ops /\ Done(r)
          /\ calls[r].arg = "accept"
      BY <2>15 DEF AcceptTransfer, At, Ops
    <3>2. calls[r] # Idle /\ calls'[r] # calls[r] /\ calls[r].by \in Agents
      BY <2>7, <3>1
    <3>3. /\ project.pending = calls[r].by
          /\ project' = [project EXCEPT !.owner = calls[r].by, !.pending = NULL]
          /\ members' = IF ~Closed THEN members
                        ELSE IF members[project.owner].status = "none"
                        THEN [members EXCEPT ![project.owner] = OwnRow]
                        ELSE [members EXCEPT ![project.owner].status = "active"]
      BY <2>15, <2>4 DEF AcceptTransfer
    <3>4. project'.owner = calls[r].by BY <3>3, <2>a DEF ProjectRow
    <3>5. ~Member(calls[r].by)
      <4>1. SUFFICES ASSUME members[calls[r].by].status = "active" PROVE FALSE
        BY DEF Member
      <4>2. members[calls[r].by] \in MemberRow BY <2>a, <3>2
      <4>3. members'[calls[r].by].status = "active"
        BY <3>2, <3>3, <2>3, <2>a, <4>1, <4>2 DEF MemberRow, OwnRow
      <4>4. QED BY <2>3, <3>4, <4>3
    <3>6. OutsiderAccepts(r) BY <3>1, <3>2, <3>3, <3>5 DEF OutsiderAccepts, Finishing
    <3>7. QED BY <3>6
  <2>16. QED
    BY <2>1, <2>5, <2>6, <2>8, <2>9, <2>10, <2>11, <2>12, <2>13, <2>14, <2>15
    DEF RosterStep, OwnerStep
<1>2. QED BY <1>1, RightfulAlone, PTL DEF Spec

\* Archiving is final, and an archived project changes hands by succession only,
\* never by a transfer, however requests overlap (Succeed, AcceptTransfer).
THEOREM ArchivedOnlyInherited ==
    Spec => [][project.status = "archived" =>
                  /\ project'.status = "archived"
                  /\ project'.owner # project.owner =>
                        \E r \in Connections :
                            Succeed(r) /\ calls[r].heir = project'.owner]_vars
<1> DEFINE Inherited == \E r \in Connections :
                            Succeed(r) /\ calls[r].heir = project'.owner
<1>1. IInv /\ [Next]_vars =>
          [project.status = "archived" =>
              /\ project'.status = "archived"
              /\ project'.owner # project.owner => Inherited]_vars
  <2> SUFFICES ASSUME IInv, Next, project.status = "archived"
               PROVE  /\ project'.status = "archived"
                      /\ project'.owner # project.owner => Inherited
    OBVIOUS
  <2>a. CallsOK /\ project \in ProjectRow /\ project.pending = NULL
    BY DEF IInv, TablesOK, ArchivedNotPending
  <2>1. PICK r \in Connections : BeginStep(r) \/ RosterStep(r) \/ OwnerStep(r) BY DEF Next
  <2>2. CASE project' = project BY <2>2
  <2>3. CASE Succeed(r)
    <3>1. project'.status = "archived" BY <2>3, <2>a DEF Succeed, ProjectRow
    <3>2. project'.owner # project.owner => calls[r].heir = project'.owner
      BY <2>3, <2>a DEF Succeed, ProjectRow
    <3>3. QED BY <2>3, <3>1, <3>2
  <2>4. CASE AcceptTransfer(r)
    <3>1. calls[r].op \in Ops BY <2>4 DEF AcceptTransfer, At, Ops
    <3>2. calls[r].by # NULL BY <2>a, <3>1, AtWork, NullAssumption DEF NullAssumption
    <3>3. project' = project BY <2>4, <2>a, <3>2 DEF AcceptTransfer
    <3>4. QED BY <3>3
  <2>5. CASE CancelTransfer(r) BY <2>5, <2>a DEF CancelTransfer, ProjectRow
  <2>6. BeginStep(r) \/ RosterStep(r) \/ ChooseHeir(r) \/ Nominate(r) => project' = project
    BY <2>a, BeginStepCalls
    DEF RosterStep, LookInvite, FinishInvite, LookDecide, FinishDecide, FinishRemove,
        FinishSetRole, ChooseHeir, Nominate
  <2>7. QED BY <2>1, <2>2, <2>3, <2>4, <2>5, <2>6 DEF OwnerStep
<1>2. QED BY <1>1, Invariant, PTL DEF Spec
=============================================================================
