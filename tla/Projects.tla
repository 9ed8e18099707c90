------------------------------ MODULE Projects ------------------------------
(***************************************************************************)
(* One project: its owner, the pending transfer of ownership and the       *)
(* roster of a closed project.  httpapi/projects.go over store/projects.go *)
(* and store/membership.go.                                                *)
(*                                                                         *)
(* A handler runs several SQL statements outside any transaction: it reads *)
(* the project and the caller's standing, then the store reads the row it  *)
(* is about to change, then it writes.  Requests on different connections  *)
(* interleave between these, so every handler is a Begin action that takes *)
(* the handler's decision and later actions for the store's statements.    *)
(* The reads of one Begin are taken together.                              *)
(*                                                                         *)
(* revoked and left are one status here, "left": no code tells them apart. *)
(* joined_at is left out: any other active coordinator may be the one that *)
(* has been in the project longest.                                        *)
(***************************************************************************)
EXTENDS FiniteSets

CONSTANTS
    Agents,
    Connections,   \* requests the server handles at a time
    Charters,      \* what a project is created with
    Requests,      \* bound: the kinds of request made
    NULL

ASSUME NullAssumption == NULL \notin Agents

ASSUME ChartersAssumption ==
    Charters \subseteq [visibility: {"open", "closed"}, listed: BOOLEAN,
                        policy: {"invite_only", "invite_or_apply"}]

VARIABLES
    charter,   \* the columns of projects nothing changes
    project,   \* the columns of projects that change
    members,   \* table project_members, by agent
    calls      \* the request each connection is handling

vars == <<charter, project, members, calls>>

Roles == {"member", "coordinator"}
ProjectRow ==
    [status: {"active", "archived"}, owner: Agents, pending: Agents \cup {NULL}]
MemberRow ==
    [status: {"none", "invited", "active", "left", "reviewer"}, role: Roles,
     invited: BOOLEAN]   \* invited_by is not NULL
Ops == {"invite", "apply", "decide", "remove", "setRole", "transfer", "decideTransfer"}
Call ==
    [op: Ops, by: Agents, who: Agents,
     arg: {"member", "reviewer", "coordinator", "accept", "decline", "none"},
     heir: Agents \cup {NULL}, step: {"checked", "looked", "leaving", "chosen"},
     alone: BOOLEAN]   \* history: it has not overlapped another request

NoRow == [status |-> "none", role |-> "member", invited |-> FALSE]
OwnRow == [status |-> "active", role |-> "member", invited |-> FALSE]
JoinedRow == [status |-> "active", role |-> "member", invited |-> TRUE]
Idle == [op |-> "none"]

Closed == charter.visibility = "closed"
Member(a) == members[a].status = "active"

\* Create, with some agents that have joined since.
Init ==
    /\ charter \in Charters
    /\ calls = [r \in Connections |-> Idle]
    /\ \E a \in Agents, joined \in SUBSET Agents :
          /\ project = [status |-> "active", owner |-> a, pending |-> NULL]
          /\ joined # {} => Closed /\ a \notin joined
          /\ members = [b \in Agents |->
                IF b = a /\ Closed THEN OwnRow
                ELSE IF b \in joined THEN JoinedRow
                ELSE NoRow]

-----------------------------------------------------------------------------
(* What the handlers check *)

\* projectFor does not answer "not found".
Known(a) == ~Closed \/ Member(a) \/ project.owner = a \/ charter.listed

CanAdminister(a) ==
    \/ project.owner = a
    \/ Member(a) /\ members[a].role = "coordinator"

Coordinators == {b \in Agents : Member(b) /\ members[b].role = "coordinator"}

Request(op, a, b, arg) ==
    [op |-> op, by |-> a, who |-> b, arg |-> arg, heir |-> NULL, step |-> "checked",
     alone |-> TRUE]

\* A request comes in; from now on it and those under way overlap.
Begin(r, c) ==
    LET others == {q \in Connections : calls[q] # Idle}
    IN  /\ calls[r] = Idle
        /\ c.op \in Requests
        /\ calls' = [q \in Connections |->
              IF q = r THEN [c EXCEPT !.alone = (others = {})]
              ELSE IF q \in others THEN [calls[q] EXCEPT !.alone = FALSE]
              ELSE Idle]
        /\ UNCHANGED <<charter, project, members>>

\* Connection r handles a request of this kind and is at this step.
At(r, ops, step) == calls[r].op \in ops /\ calls[r].step = step

Goto(r, step) == calls' = [calls EXCEPT ![r].step = step]
Done(r) == calls' = [calls EXCEPT ![r] = Idle]

-----------------------------------------------------------------------------
(* Invitations and applications *)

BeginInvite(r, a, b, tier) ==
    /\ Known(a)
    /\ CanAdminister(a)
    /\ Closed
    /\ Begin(r, Request("invite", a, b, tier))

BeginApply(r, a) ==
    /\ Known(a)
    /\ Closed
    /\ charter.policy = "invite_or_apply"
    /\ Begin(r, Request("apply", a, a, "member"))

\* MembershipStore.Invite: the row read first, then the upsert.
LookInvite(r) ==
    /\ At(r, {"invite", "apply"}, "checked")
    /\ IF members[calls[r].who].status \in {"active", "invited"}
       THEN Done(r)
       ELSE Goto(r, "looked")
    /\ UNCHANGED <<charter, project, members>>

InvitedRow(c) ==
    [status |-> IF c.arg = "reviewer" THEN "reviewer" ELSE "invited",
     role |-> "member", invited |-> c.op = "invite"]

\* Mutant: the upsert leaves the role column alone.
FinishInviteKeepingRole(r) ==
    LET c == calls[r]
    IN  /\ At(r, {"invite", "apply"}, "looked")
        /\ members' = [members EXCEPT ![c.who] =
              [InvitedRow(c) EXCEPT !.role = members[c.who].role]]
        /\ Done(r)
        /\ UNCHANGED <<charter, project>>

FinishInvite(r) ==
    /\ At(r, {"invite", "apply"}, "looked")
    /\ members' = [members EXCEPT ![calls[r].who] = InvitedRow(calls[r])]
    /\ Done(r)
    /\ UNCHANGED <<charter, project>>

\* Mutant: either side may answer, whoever asked.
BeginDecideByEither(r, a, b, answer) ==
    /\ members[b].status # "none"
    /\ a = b \/ CanAdminister(a)
    /\ Begin(r, Request("decide", a, b, answer))

BeginDecide(r, a, b, answer) ==
    /\ members[b].status # "none"
    /\ IF members[b].invited THEN a = b ELSE CanAdminister(a)
    /\ Begin(r, Request("decide", a, b, answer))

LookDecide(r) ==
    /\ At(r, {"decide"}, "checked")
    /\ IF members[calls[r].who].status = "invited"
       THEN Goto(r, "looked")
       ELSE Done(r)
    /\ UNCHANGED <<charter, project, members>>

\* A DELETE or an UPDATE of whatever row is there by now.
FinishDecide(r) ==
    LET b == calls[r].who
    IN  /\ At(r, {"decide"}, "looked")
        /\ members' = IF calls[r].arg = "decline" THEN [members EXCEPT ![b] = NoRow]
                      ELSE IF members[b].status = "none" THEN members
                      ELSE [members EXCEPT ![b].status = "active"]
        /\ Done(r)
        /\ UNCHANGED <<charter, project>>

-----------------------------------------------------------------------------
(* Leaving and removing *)

\* Mutant: an administrator may remove the owner.
BeginRemoveAnyone(r, a, b) ==
    /\ Known(a)
    /\ a # b => CanAdminister(a)
    /\ Begin(r, [Request("remove", a, b, "none") EXCEPT
                    !.step = IF b = project.owner THEN "leaving" ELSE "checked"])

BeginRemove(r, a, b) ==
    /\ Known(a)
    /\ a # b => CanAdminister(a) /\ b # project.owner
    /\ Begin(r, [Request("remove", a, b, "none") EXCEPT
                    !.step = IF b = project.owner THEN "leaving" ELSE "checked"])

\* Mutant: the departing owner may inherit from itself.
ChooseAnyHeir(r) ==
    LET heirs == IF Closed THEN Coordinators ELSE {}
    IN  /\ At(r, {"remove"}, "leaving")
        /\ \E heir \in IF heirs = {} THEN {NULL} ELSE heirs :
              calls' = [calls EXCEPT ![r].heir = heir, ![r].step = "chosen"]
        /\ UNCHANGED <<charter, project, members>>

\* successorFor
ChooseHeir(r) ==
    LET heirs == IF Closed THEN Coordinators \ {calls[r].who} ELSE {}
    IN  /\ At(r, {"remove"}, "leaving")
        /\ \E heir \in IF heirs = {} THEN {NULL} ELSE heirs :
              calls' = [calls EXCEPT ![r].heir = heir, ![r].step = "chosen"]
        /\ UNCHANGED <<charter, project, members>>

\* Mutant: leaves the pending transfer.
SucceedKeepingPending(r) ==
    LET heir == calls[r].heir
    IN  /\ At(r, {"remove"}, "chosen")
        /\ project' = IF heir = NULL
                      THEN [project EXCEPT !.status = "archived"]
                      ELSE [project EXCEPT !.owner = heir]
        /\ Goto(r, "checked")
        /\ UNCHANGED <<charter, members>>

\* ProjectStore.Succeed
Succeed(r) ==
    LET heir == calls[r].heir
    IN  /\ At(r, {"remove"}, "chosen")
        /\ project' = IF heir = NULL
                      THEN [project EXCEPT !.status = "archived", !.pending = NULL]
                      ELSE [project EXCEPT !.owner = heir, !.pending = NULL]
        /\ Goto(r, "checked")
        /\ UNCHANGED <<charter, members>>

\* MembershipStore.SetStatus; there may be no row.
FinishRemove(r) ==
    LET b == calls[r].who
    IN  /\ At(r, {"remove"}, "checked")
        /\ members' = IF members[b].status = "none" THEN members
                      ELSE [members EXCEPT ![b].status = "left"]
        /\ Done(r)
        /\ UNCHANGED <<charter, project>>

-----------------------------------------------------------------------------
(* Roles and ownership *)

BeginSetRole(r, a, b, role) ==
    /\ Known(a)
    /\ project.owner = a
    /\ b # project.owner
    /\ Begin(r, Request("setRole", a, b, role))

FinishSetRole(r) ==
    LET b == calls[r].who
    IN  /\ At(r, {"setRole"}, "checked")
        /\ members' = IF Member(b) THEN [members EXCEPT ![b].role = calls[r].arg]
                      ELSE members
        /\ Done(r)
        /\ UNCHANGED <<charter, project>>

BeginTransfer(r, a, b) ==
    /\ Known(a)
    /\ project.owner = a
    /\ b # project.owner
    /\ Closed => Member(b)
    /\ Begin(r, Request("transfer", a, b, "none"))

\* Mutant: nominates whatever the status has become.
NominateAnyway(r) ==
    /\ At(r, {"transfer"}, "checked")
    /\ project' = [project EXCEPT !.pending = calls[r].who]
    /\ Done(r)
    /\ UNCHANGED <<charter, members>>

Nominate(r) ==
    /\ At(r, {"transfer"}, "checked")
    /\ project' = IF project.status = "active"
                  THEN [project EXCEPT !.pending = calls[r].who]
                  ELSE project
    /\ Done(r)
    /\ UNCHANGED <<charter, members>>

BeginDecideTransfer(r, a, answer) ==
    /\ project.pending # NULL
    /\ a \in {project.pending, project.owner}
    /\ Begin(r, Request("decideTransfer", a, a,
                        IF a = project.owner THEN "decline" ELSE answer))

CancelTransfer(r) ==
    /\ At(r, {"decideTransfer"}, "checked")
    /\ calls[r].arg = "decline"
    /\ project' = [project EXCEPT !.pending = NULL]
    /\ Done(r)
    /\ UNCHANGED <<charter, members>>

\* Mutant: trusts the handler's reading of the nomination.
AcceptTransferUnchecked(r) ==
    LET a == calls[r].by
        old == project.owner
    IN  /\ At(r, {"decideTransfer"}, "checked")
        /\ calls[r].arg = "accept"
        /\ project' = [project EXCEPT !.owner = a, !.pending = NULL]
        /\ members' = IF Closed THEN [members EXCEPT ![old].status = "active"] ELSE members
        /\ Done(r)
        /\ UNCHANGED charter

\* One transaction: a nomination that has gone meanwhile is a conflict.
AcceptTransfer(r) ==
    LET a == calls[r].by
        old == project.owner
    IN  /\ At(r, {"decideTransfer"}, "checked")
        /\ calls[r].arg = "accept"
        /\ \/ /\ project.pending = a
              /\ project' = [project EXCEPT !.owner = a, !.pending = NULL]
              /\ members' = IF ~Closed THEN members
                            ELSE IF members[old].status = "none"
                            THEN [members EXCEPT ![old] = OwnRow]
                            ELSE [members EXCEPT ![old].status = "active"]
           \/ /\ project.pending # a
              /\ UNCHANGED <<project, members>>
        /\ Done(r)
        /\ UNCHANGED charter

-----------------------------------------------------------------------------
BeginStep(r) ==
    \/ \E a, b \in Agents, tier \in {"member", "reviewer"} : BeginInvite(r, a, b, tier)
    \/ \E a \in Agents : BeginApply(r, a)
    \/ \E a, b \in Agents, answer \in {"accept", "decline"} : BeginDecide(r, a, b, answer)
    \/ \E a, b \in Agents : BeginRemove(r, a, b)
    \/ \E a, b \in Agents, role \in Roles : BeginSetRole(r, a, b, role)
    \/ \E a, b \in Agents : BeginTransfer(r, a, b)
    \/ \E a \in Agents, answer \in {"accept", "decline"} : BeginDecideTransfer(r, a, answer)

RosterStep(r) ==
    \/ LookInvite(r)
    \/ FinishInvite(r)
    \/ LookDecide(r)
    \/ FinishDecide(r)
    \/ FinishRemove(r)
    \/ FinishSetRole(r)

OwnerStep(r) ==
    \/ ChooseHeir(r)
    \/ Succeed(r)
    \/ Nominate(r)
    \/ CancelTransfer(r)
    \/ AcceptTransfer(r)

Next == \E r \in Connections : BeginStep(r) \/ RosterStep(r) \/ OwnerStep(r)

Spec == Init /\ [][Next]_vars

-----------------------------------------------------------------------------
(* Properties that hold however requests interleave *)

\* Every variable stays in its type.
TypeOK ==
    /\ charter \in Charters
    /\ project \in ProjectRow
    /\ members \in [Agents -> MemberRow]
    /\ calls \in [Connections -> Call \cup {Idle}]

\* An archived project has no transfer waiting to be accepted: a nomination
\* whose handler saw the project active does not land after it was archived
\* (Nominate's WHERE status against Succeed).
ArchivedNotPending == project.status = "archived" => project.pending = NULL

\* An invitation, an application or a reviewer grant carries no authority,
\* whatever the agent was before it left: a coordinator that was removed comes
\* back as a plain member (Invite's upsert, SetRole's WHERE status).
PendingHasNoAuthority ==
    \A a \in Agents :
        members[a].status \in {"invited", "reviewer"} => members[a].role = "member"

\* Ownership moves only to the agent nominated at that moment, who accepts it
\* and uses the nomination up, or from a departure: two accepts, or an accept
\* and a withdrawal, cannot both go through on one nomination.
NominationUsedOnce ==
    [][project'.owner # project.owner =>
          /\ project'.pending = NULL
          /\ \E r \in Connections :
                /\ calls[r] # Idle
                /\ \/ /\ calls[r].op = "decideTransfer"
                      /\ calls[r].by = project'.owner
                      /\ project.pending = project'.owner
                   \/ calls[r].op = "remove" /\ calls[r].heir = project'.owner]_vars

-----------------------------------------------------------------------------
(* Properties of requests that do not overlap another: the race of Decide     *)
(* with a removal breaks JoinsByConsent, and that of a departure with a       *)
(* transfer breaks OwnerLetsGo.                                               *)

\* The step is that of a request that overlaps another.
Overlapping == \E r \in Connections :
    calls[r] # Idle /\ calls'[r] # calls[r] /\ ~calls[r].alone

Finishing(r, op) == calls[r] # Idle /\ calls[r].op = op /\ calls'[r] # calls[r]

\* Nobody is in a project without having agreed to it: an agent becomes a
\* member when it accepts its own invitation, when an administrator approves
\* its own pending application, or when it hands its ownership over
\* (handleDecideMembership: "only the invited agent may answer an invitation").
JoinsByConsent ==
    [][\A a \in Agents : (~Member(a) /\ members'[a].status = "active" /\ ~Overlapping) =>
          \E r \in Connections :
             \/ /\ Finishing(r, "decide")
                /\ calls[r].who = a
                /\ members[a].status = "invited"
                /\ IF members[a].invited THEN calls[r].by = a
                   ELSE CanAdminister(calls[r].by)
             \/ Finishing(r, "decideTransfer") /\ project.owner = a]_vars

\* "Ownership moves only by an accepted transfer, or by succession when the
\* owner departs" (schema.sql): an owner loses the project to the agent that is
\* nominated, or by leaving itself.
OwnerLetsGo ==
    [][project'.owner # project.owner /\ ~Overlapping =>
          \/ project'.owner = project.pending
          \/ \E r \in Connections :
                /\ Finishing(r, "remove")
                /\ calls[r].by = project.owner
                /\ calls[r].who = project.owner]_vars

AtRest == \A r \in Connections : calls[r] = Idle

\* "The owner is a member, recorded as one" (store/projects.go): when no
\* request is being handled, the owner of an active closed project is on its
\* roster, so a departing owner has left somebody responsible behind.  Does not
\* hold: a nominee that has left may still accept (AcceptTransfer).
OwnerIsMember ==
    (AtRest /\ Closed /\ project.status = "active") => Member(project.owner)

\* "An archived project cannot change hands" (ownership_test.go).  Does not hold:
\* its owner may appoint a coordinator and leave once more.
ArchivedKeepsOwner ==
    [][project.status = "archived" => project'.owner = project.owner]_vars

\* Who is nominated is the choice of "the current owner" (schema.sql).  Does not
\* hold: the nomination of an owner that has handed over since still lands.
NominatedByOwner ==
    [][project'.pending \notin {NULL, project.pending} =>
          \E r \in Connections :
             Finishing(r, "transfer") /\ calls[r].by = project.owner]_vars

\* "Archiving must immediately stop the creation of invitations" (RFC-1250).
\* Does not hold: handleInvite does not look at the status.
ArchiveStopsInvitations ==
    [][\A a \in Agents :
          (project.status = "archived" /\ members'[a].status \in {"invited", "reviewer"})
              => members[a].status = members'[a].status]_vars
=============================================================================
