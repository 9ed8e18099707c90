----------------------------- MODULE Credentials -----------------------------
(***************************************************************************)
(* Bearer credentials: issued with an agent's registration, rotated and    *)
(* revoked by their holder, revoked all at once by the operator.           *)
(* store/credentials.go, httpapi/agents.go and the check of                *)
(* httpapi/middleware.go, which comes in a statement of its own before the *)
(* handler's transaction.                                                  *)
(***************************************************************************)
CONSTANTS
    Agents,
    Creds,         \* credentials rows
    Connections,   \* requests the server handles at a time
    Updates,       \* Telegram updates that are /revoke commands
    NULL

ASSUME NullAssumption == NULL \notin Agents \cup Creds

VARIABLES
    agents,      \* table agents
    creds,       \* table credentials, by credential id
    audit,       \* table credential_audit, as <<agent, credential or NULL for *, action>>
    revocations, \* table credential_operator_updates, by update id
    calls        \* what each connection has checked and not yet done

vars == <<agents, creds, audit, revocations, calls>>

\* A row of credentials: its status, its agent and the key it was rotated from.
NoCred == [status |-> "none", agent |-> NULL, from |-> NULL]
\* What RequireAuth and the handler have checked: for whom, by which key.
Idle == [op |-> "idle", agent |-> NULL, cred |-> NULL]

Init ==
    /\ agents = {}
    /\ creds = [c \in Creds |-> NoCred]
    /\ audit = {}
    /\ revocations = [u \in Updates |-> NULL]
    /\ calls = [r \in Connections |-> Idle]

Active(c) == creds[c].status = "active"
Unused(c) == creds[c].status = "none"
Revoked(c) == [creds EXCEPT ![c].status = "revoked"]

-----------------------------------------------------------------------------
(* Registration: a new agent, then its first credential.  A registration    *)
(* with a valid credential changes the profile only, which is not modelled. *)

CreateAgent(r, a) ==
    /\ calls[r] = Idle
    /\ a \notin agents
    /\ agents' = agents \cup {a}
    /\ calls' = [calls EXCEPT ![r] = [op |-> "register", agent |-> a, cred |-> NULL]]
    /\ UNCHANGED <<creds, audit, revocations>>

Issue(r, c) ==
    /\ calls[r].op = "register"
    /\ Unused(c)
    /\ creds' = [creds EXCEPT ![c] =
          [status |-> "active", agent |-> calls[r].agent, from |-> NULL]]
    /\ calls' = [calls EXCEPT ![r] = Idle]
    /\ UNCHANGED <<agents, audit, revocations>>

-----------------------------------------------------------------------------
(* Requests about the presented credential *)

\* RequireAuth
Authenticate(r, c, op) ==
    /\ calls[r] = Idle
    /\ Active(c)
    /\ calls' = [calls EXCEPT ![r] = [op |-> op, agent |-> creds[c].agent, cred |-> c]]
    /\ UNCHANGED <<agents, creds, audit, revocations>>

\* Mutant: trusts the check of the middleware.
RotateUnchecked(r, new) ==
    LET old == calls[r].cred
    IN  /\ calls[r].op = "rotate"
        /\ Unused(new)
        /\ creds' = [Revoked(old) EXCEPT ![new] =
              [status |-> "active", agent |-> creds[old].agent, from |-> old]]
        /\ audit' = audit \cup {<<creds[old].agent, old, "rotated">>}
        /\ calls' = [calls EXCEPT ![r] = Idle]
        /\ UNCHANGED <<agents, revocations>>

\* Mutant: the old key is left working.
RotateKeepingOld(r, new) ==
    LET old == calls[r].cred
    IN  /\ calls[r].op = "rotate"
        /\ IF Active(old)
           THEN /\ Unused(new)
                /\ creds' = [creds EXCEPT ![new] =
                      [status |-> "active", agent |-> creds[old].agent, from |-> old]]
                /\ audit' = audit \cup {<<creds[old].agent, old, "rotated">>}
           ELSE UNCHANGED <<creds, audit>>
        /\ calls' = [calls EXCEPT ![r] = Idle]
        /\ UNCHANGED <<agents, revocations>>

\* Mutant: the old key is revoked outside the transaction that stores the new
\* one, which fails.
RotateHalfway(r, new) ==
    LET old == calls[r].cred
    IN  /\ calls[r].op = "rotate"
        /\ Unused(new)
        /\ creds' = IF Active(old) THEN Revoked(old) ELSE creds
        /\ calls' = [calls EXCEPT ![r] = Idle]
        /\ UNCHANGED <<agents, audit, revocations>>

\* The credential is looked up again under the transaction.
Rotate(r, new) ==
    LET old == calls[r].cred
    IN  /\ calls[r].op = "rotate"
        /\ \/ /\ Active(old)
              /\ Unused(new)
              /\ creds' = [Revoked(old) EXCEPT ![new] =
                    [status |-> "active", agent |-> creds[old].agent, from |-> old]]
              /\ audit' = audit \cup {<<creds[old].agent, old, "rotated">>}
           \/ /\ ~Active(old)
              /\ UNCHANGED <<creds, audit>>
        /\ calls' = [calls EXCEPT ![r] = Idle]
        /\ UNCHANGED <<agents, revocations>>

RevokeCurrent(r) ==
    LET c == calls[r].cred
    IN  /\ calls[r].op = "revoke"
        /\ \/ /\ Active(c)
              /\ creds' = Revoked(c)
              /\ audit' = audit \cup {<<creds[c].agent, c, "revoked">>}
           \/ /\ ~Active(c)
              /\ UNCHANGED <<creds, audit>>
        /\ calls' = [calls EXCEPT ![r] = Idle]
        /\ UNCHANGED <<agents, revocations>>

\* The operator's /revoke.  The operator knows the id of an agent from what it
\* published, so after its registration was over; a repeated update does
\* nothing.
RevokeAgent(u, a) ==
    /\ revocations[u] = NULL
    /\ a \in agents
    /\ \E c \in Creds : creds[c].agent = a
    /\ creds' = [c \in Creds |->
          IF Active(c) /\ creds[c].agent = a THEN [creds[c] EXCEPT !.status = "revoked"]
          ELSE creds[c]]
    /\ audit' = audit \cup {<<a, NULL, "revoked_all">>}
    /\ revocations' = [revocations EXCEPT ![u] = a]
    /\ UNCHANGED <<agents, calls>>

\* The client hangs up or the server stops: the request is gone, between two
\* statements of it too.
Abandon(r) ==
    /\ calls[r] # Idle
    /\ calls' = [calls EXCEPT ![r] = Idle]
    /\ UNCHANGED <<agents, creds, audit, revocations>>

-----------------------------------------------------------------------------
RequestStep(r) ==
    \/ \E a \in Agents : CreateAgent(r, a)
    \/ \E c \in Creds : Issue(r, c)
    \/ \E c \in Creds, op \in {"rotate", "revoke"} : Authenticate(r, c, op)
    \/ \E c \in Creds : Rotate(r, c)
    \/ RevokeCurrent(r)
    \/ Abandon(r)

Next ==
    \/ \E r \in Connections : RequestStep(r)
    \/ \E u \in Updates, a \in Agents : RevokeAgent(u, a)

Spec == Init /\ [][Next]_vars

-----------------------------------------------------------------------------
(* Properties *)

\* An agent never has two working keys: requests that race to rotate one key
\* get one new key between them (Rotate's look-up under the transaction).
OneActiveKey ==
    \A c, d \in Creds :
        (Active(c) /\ Active(d) /\ creds[c].agent = creds[d].agent) => c = d

\* An agent the operator has revoked has no working key again, although its
\* requests that were authenticated before go on ("middleware authentication
\* may predate a revoke", Rotate).
RevokedForGood ==
    \A u \in Updates, c \in Creds :
        (revocations[u] # NULL /\ creds[c].agent = revocations[u]) => ~Active(c)
=============================================================================
