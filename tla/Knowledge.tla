------------------------------ MODULE Knowledge ------------------------------
(***************************************************************************)
(* Shared memory: entries are published, reviewed and replaced by a newer  *)
(* version.  store/knowledge.go, the handlers of httpapi/memory.go and the *)
(* scope rule of store/membership.go.                                      *)
(*                                                                         *)
(* A handler checks the project in statements of its own; the transaction  *)
(* that stores the entry comes later.  Projects change in between: their   *)
(* members, grants and archiving are those of Projects, here as steps of   *)
(* the environment.  A scope stands for the project_id and the task_id of  *)
(* an entry; the handler takes the project from the task, so a scope has   *)
(* one project.                                                            *)
(***************************************************************************)
EXTENDS Naturals

CONSTANTS
    Agents,
    Entries,      \* knowledge rows
    Projects,     \* projects, all of them closed but those of Open
    Open,
    Scopes,
    Home,         \* the project of each scope, or NULL: global
    Connections,  \* requests the server handles at a time
    NULL

ASSUME ScopesAssumption ==
    Open \subseteq Projects /\ Home \in [Scopes -> Projects \cup {NULL}]
ASSUME NullAssumption == NULL \notin Agents \cup Entries \cup Projects

VARIABLES
    entries,   \* table knowledge
    members,   \* active members of each project
    reviewers, \* live reviewer grants, <<agent, scope>>
    archived,  \* archived projects
    calls      \* requests whose checks are done and whose transaction is not

vars == <<entries, members, reviewers, archived, calls>>
environment == <<members, reviewers, archived>>

EntryStatus == {"none", "proposed", "reviewed", "archived"}
EntryRow == [status: EntryStatus, author: Agents \cup {NULL}, scope: Scopes \cup {NULL},
             supersedes: Entries \cup {NULL}, superseded_by: Entries \cup {NULL},
             version: Nat]
NoEntry == [status |-> "none", author |-> NULL, scope |-> NULL, supersedes |-> NULL,
            superseded_by |-> NULL, version |-> 0]

Call == [agent: Agents, scope: Scopes] \cup {NULL}

Init ==
    /\ entries = [e \in Entries |-> NoEntry]
    /\ members = [p \in Projects |-> {}]
    /\ reviewers = {}
    /\ archived = {}
    /\ calls = [r \in Connections |-> NULL]

-----------------------------------------------------------------------------
\* visibleScopeSQL without a task column, and CanRead
MemberSees(a, scope) ==
    Home[scope] \in Projects \ Open => a \in members[Home[scope]]

\* visibleScopeSQL("task_id")
Sees(a, scope) == MemberSees(a, scope) \/ <<a, scope>> \in reviewers

\* requireProjectWriter
MayWrite(a, scope) ==
    /\ Home[scope] \notin archived
    /\ MemberSees(a, scope)

\* handleCreateKnowledge, up to the transaction
BeginCreate(r, a, scope) ==
    /\ calls[r] = NULL
    /\ MayWrite(a, scope)
    /\ calls' = [calls EXCEPT ![r] = [agent |-> a, scope |-> scope]]
    /\ UNCHANGED <<entries, environment>>

Proposed(r, prev, version) ==
    [status |-> "proposed", author |-> calls[r].agent, scope |-> calls[r].scope,
     supersedes |-> prev, superseded_by |-> NULL, version |-> version]

\* KnowledgeStore.Create of an entry that replaces none: the project is not
\* looked at again, but for its existence.
Create(r, id) ==
    /\ calls[r] # NULL
    /\ entries[id].status = "none"
    /\ entries' = [entries EXCEPT ![id] = Proposed(r, NULL, 1)]
    /\ calls' = [calls EXCEPT ![r] = NULL]
    /\ UNCHANGED environment

\* Mutant: relies on the checks of the handler.
MayReplaceUnchecked(a, scope, prev) ==
    /\ entries[prev].status # "none"
    /\ entries[prev].scope = scope
    /\ entries[prev].superseded_by = NULL

\* Mutant: a record may be replaced twice.
MayReplaceAgain(a, scope, prev) ==
    /\ entries[prev].status # "none"
    /\ entries[prev].scope = scope
    /\ MayWrite(a, scope)

MayReplace(a, scope, prev) ==
    /\ entries[prev].status # "none"
    /\ entries[prev].scope = scope
    /\ MayWrite(a, scope)
    /\ entries[prev].superseded_by = NULL

\* KnowledgeStore.Create of an entry that replaces prev: one transaction
\* looks at the rights of the author again, inserts the one and archives the
\* other.
Replace(r, id, prev) ==
    /\ calls[r] # NULL
    /\ entries[id].status = "none"
    /\ MayReplace(calls[r].agent, calls[r].scope, prev)
    /\ entries' = [entries EXCEPT
          ![id] = Proposed(r, prev, entries[prev].version + 1),
          ![prev].superseded_by = id, ![prev].status = "archived"]
    /\ calls' = [calls EXCEPT ![r] = NULL]
    /\ UNCHANGED environment

\* The transaction answers with an error, or the request goes away.
Abandon(r) ==
    /\ calls[r] # NULL
    /\ calls' = [calls EXCEPT ![r] = NULL]
    /\ UNCHANGED <<entries, environment>>

\* Mutant: looks at the status of the entry before the UPDATE, not in it.
ReviewWhateverStatus(a, id) ==
    /\ entries[id].status # "none"
    /\ Sees(a, entries[id].scope)
    /\ entries' = [entries EXCEPT ![id].status = "reviewed"]
    /\ UNCHANGED <<calls, environment>>

\* One UPDATE; a reviewer of the task may, too.
Review(a, id) ==
    /\ entries[id].status = "proposed"
    /\ Sees(a, entries[id].scope)
    /\ entries' = [entries EXCEPT ![id].status = "reviewed"]
    /\ UNCHANGED <<calls, environment>>

-----------------------------------------------------------------------------
(* What other requests do to the projects meanwhile *)

ChangeMembers(p, a) ==
    /\ members' = [members EXCEPT ![p] = IF a \in @ THEN @ \ {a} ELSE @ \cup {a}]
    /\ UNCHANGED <<entries, reviewers, archived, calls>>

ChangeGrants(a, scope) ==
    /\ Home[scope] # NULL
    /\ reviewers' = IF <<a, scope>> \in reviewers THEN reviewers \ {<<a, scope>>}
                    ELSE reviewers \cup {<<a, scope>>}
    /\ UNCHANGED <<entries, members, archived, calls>>

Archive(p) ==
    /\ archived' = archived \cup {p}
    /\ UNCHANGED <<entries, members, reviewers, calls>>

Environment ==
    \/ \E p \in Projects, a \in Agents : ChangeMembers(p, a)
    \/ \E a \in Agents, scope \in Scopes : ChangeGrants(a, scope)
    \/ \E p \in Projects : Archive(p)

RequestStep(r) ==
    \/ \E a \in Agents, scope \in Scopes : BeginCreate(r, a, scope)
    \/ \E id \in Entries : Create(r, id)
    \/ \E id, prev \in Entries : Replace(r, id, prev)
    \/ Abandon(r)

Next ==
    \/ \E r \in Connections : RequestStep(r)
    \/ \E a \in Agents, id \in Entries : Review(a, id)
    \/ Environment

Spec == Init /\ [][Next]_vars

-----------------------------------------------------------------------------
(* Properties *)

\* Every variable stays in its type.
TypeOK ==
    /\ entries \in [Entries -> EntryRow]
    /\ members \in [Projects -> SUBSET Agents]
    /\ reviewers \subseteq Agents \X Scopes
    /\ archived \subseteq Projects
    /\ calls \in [Connections -> Call]

\* The versions of a record are one chain, linked both ways and never forked,
\* in one scope, with versions that count up ("superseding the same record
\* twice is a conflict, not a silent fork", knowledge_test.go), although
\* authors race to replace the same record.
ChainsLinked ==
    /\ \A e, f \in Entries :
          (entries[e].superseded_by = f) <=> (entries[f].supersedes = e)
    /\ \A e, f \in Entries : entries[f].supersedes = e =>
          /\ entries[f].version = entries[e].version + 1
          /\ entries[f].scope = entries[e].scope

\* A record is archived exactly when a newer version stands for it, so search
\* shows the last version of a chain and no other; a review that comes late
\* does not bring an old version back.
ArchivedMeansReplaced ==
    \A e \in Entries :
        entries[e].status = "archived" <=> entries[e].superseded_by # NULL

\* Nobody outside a project replaces a record in it, and nobody replaces one
\* once the project is archived, although the checks of the handler were made
\* before ("check mutation rights inside the transaction", Create).
ReplacedByInsiders ==
    [][\A e, f \in Entries :
          (entries[f].supersedes # e /\ entries'[f].supersedes = e)
              => MayWrite(entries'[f].author, entries[e].scope)]_vars
=============================================================================
