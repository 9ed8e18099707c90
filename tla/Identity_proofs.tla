---------------------------- MODULE Identity_proofs ----------------------------
(***************************************************************************)
(* The agent's identity: one working key per agent, the same agent after   *)
(* every restart, and a lock-out only with a trace, for any agents, keys,  *)
(* requests, operator commands and base URLs.                              *)
(***************************************************************************)
EXTENDS Identity, TLAPS

-----------------------------------------------------------------------------
(* The server *)

CredRow ==
    [status: {"none", "active", "revoked"}, agent: Agents \cup {NULL},
     from: Creds \cup {NULL}]
CallRow ==
    [op: {"idle", "register", "rotate", "revoke"}, agent: Agents \cup {NULL},
     cred: Creds \cup {NULL}]

ServerType ==
    /\ agents \subseteq Agents
    /\ creds \in [Creds -> CredRow]
    /\ revocations \in [Updates -> Agents \cup {NULL}]
    /\ calls \in [Connections -> CallRow]

Used(c) == creds[c].status # "none"

\* Only keys that exist belong to agents and follow others.
RowsOK ==
    \A c \in Creds :
        /\ IF Used(c) THEN creds[c].agent \in agents
           ELSE creds[c].agent = NULL /\ creds[c].from = NULL
        /\ creds[c].from # NULL => Used(creds[c].from)

\* A registration under way is that of an agent without a key.
RegistrationsOK ==
    \A r \in Connections : calls[r].op = "register" =>
        /\ calls[r].agent \in agents
        /\ \A c \in Creds : creds[c].agent # calls[r].agent
        /\ \A q \in Connections \ {r} :
              calls[q].op = "register" => calls[q].agent # calls[r].agent

\* A request was made with a key that exists.
PresentedOK ==
    \A r \in Connections : calls[r].op \in {"rotate", "revoke"} =>
        calls[r].cred \in Creds /\ Used(calls[r].cred)

\* The operator revokes agents whose registration is over.
RevocationsOK ==
    \A u \in Updates : revocations[u] # NULL =>
        \E c \in Creds : creds[c].agent = revocations[u]

\* A key that does not work any more has a trace in the audit table.
Audited ==
    \A c \in Creds : creds[c].status = "revoked" =>
        \/ <<creds[c].agent, NULL, "revoked_all">> \in audit
        \/ <<creds[c].agent, c, "revoked">> \in audit
        \/ /\ <<creds[c].agent, c, "rotated">> \in audit
           /\ \E d \in Creds : creds[d].from = c

ServerInv ==
    /\ ServerType /\ RowsOK /\ RegistrationsOK /\ PresentedOK /\ RevocationsOK
    /\ Audited /\ OneActiveKey /\ RevokedForGood

-----------------------------------------------------------------------------
(* The agent's process, its file and the holder of it *)

RuntimeRow ==
    [pc: {"down", "validate", "register", "await", "save", "announce", "running"},
     base: Bases \cup {NULL}, agent: Agents \cup {NULL}, cred: Creds \cup {NULL},
     conn: Connections \cup {NULL}]

LocalType ==
    /\ runtime \in RuntimeRow
    /\ file \in [base: Bases \cup {NULL}, agent: Agents \cup {NULL}, cred: Creds \cup {NULL}]
    /\ answer \in [agent: Agents \cup {NULL}, cred: Creds \cup {NULL}]
    /\ issued \subseteq Creds
    /\ lost \subseteq Creds

\* Whoever has a key has it with its agent.
KeyOf(c, a) == c \in Creds /\ Used(c) /\ creds[c].agent = a

KeysMatch ==
    /\ file # NoFile => KeyOf(file.cred, file.agent)
    /\ runtime.cred # NULL => KeyOf(runtime.cred, runtime.agent)
    /\ answer.cred # NULL => KeyOf(answer.cred, answer.agent)
    /\ \A c \in issued : Used(c)

\* A process is answered while it waits for it, by one of the two answers.
AnswerOK ==
    /\ answer # NoAnswer => runtime.pc = "await" /\ runtime.conn = NULL
    /\ answer # NoAnswer => (answer.cred # NULL \/ runtime.cred # NULL)
    /\ runtime.conn # NULL => runtime.pc = "await"
    /\ runtime.pc \in {"validate", "save"} => runtime.cred # NULL

\* A process that starts under the base URL of the file is the agent in it.
SameAgent ==
    (runtime.pc \in {"validate", "register", "await", "save"}
     /\ file # NoFile /\ runtime.base = file.base)
        => runtime.cred # NULL /\ runtime.agent = file.agent

LocalInv == LocalType /\ KeysMatch /\ AnswerOK /\ SameAgent

-----------------------------------------------------------------------------
(* The table of keys after a step *)

\* Keys are taken into use once, keep their agent and their predecessor, and
\* never work again once they stopped.
RowsGrow ==
    \A c \in Creds : Used(c) =>
        /\ creds'[c].status # "none"
        /\ creds'[c].status = "active" => creds[c].status = "active"
        /\ creds'[c].agent = creds[c].agent
        /\ creds'[c].from = creds[c].from

\* A request that ends.
LEMMA CallEnds ==
    ASSUME ServerType, NEW r \in Connections, calls' = [calls EXCEPT ![r] = Idle]
    PROVE  /\ calls' \in [Connections -> CallRow]
           /\ calls'[r] = Idle
           /\ \A q \in Connections \ {r} : calls'[q] = calls[q]
<1>1. Idle \in CallRow BY DEF Idle, CallRow
<1>2. QED BY <1>1 DEF ServerType

\* The first key of a new agent.
LEMMA IssuedRow ==
    ASSUME ServerType, NEW r \in Connections, NEW c \in Creds, Issue(r, c)
    PROVE  /\ creds' \in [Creds -> CredRow]
           /\ \A d \in Creds \ {c} : creds'[d] = creds[d]
           /\ creds'[c].status = "active" /\ creds'[c].agent = calls[r].agent
           /\ creds'[c].from = NULL
<1> DEFINE row == [status |-> "active", agent |-> calls[r].agent, from |-> NULL]
<1>1. calls[r] \in CallRow BY DEF ServerType
<1>2. /\ row \in CredRow /\ row.status = "active" /\ row.agent = calls[r].agent
      /\ row.from = NULL
  BY <1>1 DEF CallRow, CredRow
<1>3. creds' = [creds EXCEPT ![c] = row] BY DEF Issue
<1> HIDE DEF row
<1>4. QED BY <1>2, <1>3 DEF ServerType

\* A rotation that commits.
LEMMA RotatedRows ==
    ASSUME ServerType, PresentedOK, NEW r \in Connections, NEW new \in Creds,
           NEW old, old = calls[r].cred, Active(old), Rotate(r, new)
    PROVE  /\ old \in Creds /\ old # new
           /\ creds' \in [Creds -> CredRow]
           /\ \A d \in Creds \ {old, new} : creds'[d] = creds[d]
           /\ creds'[new].status = "active" /\ creds'[new].agent = creds[old].agent
           /\ creds'[new].from = old
           /\ creds'[old].status = "revoked" /\ creds'[old].agent = creds[old].agent
           /\ creds'[old].from = creds[old].from
<1> DEFINE row == [status |-> "active", agent |-> creds[old].agent, from |-> old]
           gone == [creds[old] EXCEPT !.status = "revoked"]
<1>1. old \in Creds BY DEF PresentedOK, Rotate
<1>2. old # new BY DEF Rotate, Active, Unused
<1>3. creds[old] \in CredRow BY <1>1 DEF ServerType
<1>4. /\ row \in CredRow /\ row.status = "active" /\ row.agent = creds[old].agent
      /\ row.from = old
  BY <1>1, <1>3 DEF CredRow
<1>5. /\ gone \in CredRow /\ gone.status = "revoked" /\ gone.agent = creds[old].agent
      /\ gone.from = creds[old].from
  BY <1>3 DEF CredRow
<1>6. creds' = [Revoked(old) EXCEPT ![new] = row] BY DEF Rotate
<1>7. Revoked(old) = [creds EXCEPT ![old] = gone] BY <1>1 DEF Revoked
<1> HIDE DEF row, gone
<1>8. creds' = [[creds EXCEPT ![old] = gone] EXCEPT ![new] = row] BY <1>6, <1>7
<1>9. QED BY <1>1, <1>2, <1>4, <1>5, <1>8 DEF ServerType

\* A revocation by the holder that commits.
LEMMA RevokedRow ==
    ASSUME ServerType, PresentedOK, NEW r \in Connections,
           NEW c, c = calls[r].cred, Active(c), RevokeCurrent(r)
    PROVE  /\ c \in Creds
           /\ creds' \in [Creds -> CredRow]
           /\ \A d \in Creds \ {c} : creds'[d] = creds[d]
           /\ creds'[c].status = "revoked" /\ creds'[c].agent = creds[c].agent
           /\ creds'[c].from = creds[c].from
<1> DEFINE gone == [creds[c] EXCEPT !.status = "revoked"]
<1>1. c \in Creds BY DEF PresentedOK, RevokeCurrent
<1>2. creds[c] \in CredRow BY <1>1 DEF ServerType
<1>3. /\ gone \in CredRow /\ gone.status = "revoked" /\ gone.agent = creds[c].agent
      /\ gone.from = creds[c].from
  BY <1>2 DEF CredRow
<1>4. creds' = [creds EXCEPT ![c] = gone] BY <1>1 DEF RevokeCurrent, Revoked
<1> HIDE DEF gone
<1>5. QED BY <1>1, <1>3, <1>4 DEF ServerType

\* The operator's revocation.
LEMMA RevokedRows ==
    ASSUME ServerType, NEW u \in Updates, NEW a \in Agents, RevokeAgent(u, a)
    PROVE  /\ creds' \in [Creds -> CredRow]
           /\ \A c \in Creds :
                /\ creds'[c].agent = creds[c].agent /\ creds'[c].from = creds[c].from
                /\ creds'[c].status = IF Active(c) /\ creds[c].agent = a THEN "revoked"
                                      ELSE creds[c].status
<1> SUFFICES ASSUME NEW c \in Creds
    PROVE  /\ creds'[c] \in CredRow
           /\ creds'[c].agent = creds[c].agent /\ creds'[c].from = creds[c].from
           /\ creds'[c].status = IF Active(c) /\ creds[c].agent = a THEN "revoked"
                                 ELSE creds[c].status
  BY DEF RevokeAgent
<1>1. creds[c] \in CredRow BY DEF ServerType
<1>2. creds'[c] = IF Active(c) /\ creds[c].agent = a
                  THEN [creds[c] EXCEPT !.status = "revoked"] ELSE creds[c]
  BY DEF RevokeAgent
<1>3. CASE Active(c) /\ creds[c].agent = a
  <2>1. creds'[c] = [creds[c] EXCEPT !.status = "revoked"] BY <1>2, <1>3
  <2>2. QED BY <1>1, <1>3, <2>1 DEF CredRow
<1>4. CASE ~(Active(c) /\ creds[c].agent = a) BY <1>1, <1>2, <1>4
<1>5. QED BY <1>3, <1>4

-----------------------------------------------------------------------------
(* The server's invariant *)

\* No agents, no keys, no requests.
LEMMA ServerInit == Init => ServerInv
<1> SUFFICES ASSUME Init PROVE ServerInv
  OBVIOUS
<1>1. /\ \A c \in Creds : creds[c] = NoCred
      /\ \A r \in Connections : calls[r] = Idle
      /\ \A u \in Updates : revocations[u] = NULL
  BY DEF Init
<1>2. /\ NoCred \in CredRow /\ NoCred.status = "none" /\ NoCred.agent = NULL
      /\ NoCred.from = NULL
  BY DEF NoCred, CredRow
<1>3. Idle \in CallRow /\ Idle.op = "idle" BY DEF Idle, CallRow
<1>4. ServerType BY <1>2, <1>3 DEF Init, ServerType
<1>5. RowsOK BY <1>1, <1>2 DEF RowsOK, Used
<1>6. RegistrationsOK /\ PresentedOK BY <1>1, <1>3 DEF RegistrationsOK, PresentedOK
<1>7. RevocationsOK /\ RevokedForGood BY <1>1 DEF RevocationsOK, RevokedForGood
<1>8. Audited /\ OneActiveKey BY <1>1, <1>2 DEF Audited, OneActiveKey, Active
<1>9. QED BY <1>4, <1>5, <1>6, <1>7, <1>8 DEF ServerInv

\* The end of a request that changes nothing else.
LEMMA IdleInv ==
    ASSUME ServerInv, NEW r \in Connections, calls' = [calls EXCEPT ![r] = Idle],
           UNCHANGED <<agents, creds, audit, revocations>>
    PROVE  ServerInv' /\ RowsGrow
<1>1. /\ calls' \in [Connections -> CallRow] /\ calls'[r] = Idle
      /\ \A q \in Connections \ {r} : calls'[q] = calls[q]
  BY CallEnds DEF ServerInv
<1>2. Idle.op = "idle" BY DEF Idle
<1>3. ServerType' /\ RowsOK' BY <1>1 DEF ServerInv, ServerType, RowsOK, Used
<1>4. RegistrationsOK' BY <1>1, <1>2 DEF ServerInv, RegistrationsOK
<1>5. PresentedOK' BY <1>1, <1>2 DEF ServerInv, PresentedOK, Used
<1>6. RevocationsOK' /\ Audited' BY DEF ServerInv, RevocationsOK, Audited
<1>7. OneActiveKey' /\ RevokedForGood'
  BY DEF ServerInv, OneActiveKey, RevokedForGood, Active
<1>8. RowsGrow BY DEF RowsGrow, Used
<1>9. QED BY <1>3, <1>4, <1>5, <1>6, <1>7, <1>8 DEF ServerInv

\* A new agent has no key and no other registration.
LEMMA CreateInv ==
    ASSUME ServerInv, NEW r \in Connections, NEW a \in Agents, CreateAgent(r, a)
    PROVE  ServerInv' /\ RowsGrow
<1> DEFINE call == [op |-> "register", agent |-> a, cred |-> NULL]
<1>1. call \in CallRow /\ call.op = "register" /\ call.agent = a BY DEF CallRow
<1>2. calls' = [calls EXCEPT ![r] = call] BY DEF CreateAgent
<1> HIDE DEF call
<1>3. /\ calls' \in [Connections -> CallRow] /\ calls'[r] = call
      /\ \A q \in Connections \ {r} : calls'[q] = calls[q]
  BY <1>1, <1>2 DEF ServerInv, ServerType
<1>4. /\ agents' = agents \cup {a} /\ a \notin agents
      /\ UNCHANGED <<creds, audit, revocations>>
  BY DEF CreateAgent
<1>5. a # NULL BY NullAssumption
<1>6. ServerType' BY <1>3, <1>4 DEF ServerInv, ServerType
<1>7. RowsOK' BY <1>4 DEF ServerInv, RowsOK, Used
<1>8. RegistrationsOK'
  <2>1. \A c \in Creds : creds[c].agent # a
    BY <1>4, <1>5 DEF ServerInv, RowsOK
  <2>2. \A q \in Connections : calls[q].op = "register" => calls[q].agent # a
    BY <1>4 DEF ServerInv, RegistrationsOK
  <2>3. QED BY <1>1, <1>3, <1>4, <2>1, <2>2 DEF ServerInv, RegistrationsOK
<1>9. PresentedOK' BY <1>1, <1>3, <1>4 DEF ServerInv, PresentedOK, Used
<1>10. RevocationsOK' /\ Audited' BY <1>4 DEF ServerInv, RevocationsOK, Audited
<1>11. OneActiveKey' /\ RevokedForGood'
  BY <1>4 DEF ServerInv, OneActiveKey, RevokedForGood, Active
<1>12. RowsGrow BY <1>4 DEF RowsGrow, Used
<1>13. QED BY <1>6, <1>7, <1>8, <1>9, <1>10, <1>11, <1>12 DEF ServerInv

\* A request with a key that works.
LEMMA AuthenticateInv ==
    ASSUME ServerInv, NEW r \in Connections, NEW c \in Creds,
           NEW op \in {"rotate", "revoke"}, Authenticate(r, c, op)
    PROVE  /\ ServerInv' /\ RowsGrow
           /\ calls'[r].cred = c
           /\ \A q \in Connections \ {r} : calls'[q] = calls[q]
<1> DEFINE call == [op |-> op, agent |-> creds[c].agent, cred |-> c]
<1>0. creds[c] \in CredRow BY DEF ServerInv, ServerType
<1>1. call \in CallRow /\ call.op \in {"rotate", "revoke"} /\ call.cred = c
  BY <1>0 DEF CallRow, CredRow
<1>2. calls' = [calls EXCEPT ![r] = call] BY DEF Authenticate
<1> HIDE DEF call
<1>3. /\ calls' \in [Connections -> CallRow] /\ calls'[r] = call
      /\ \A q \in Connections \ {r} : calls'[q] = calls[q]
  BY <1>1, <1>2 DEF ServerInv, ServerType
<1>4. UNCHANGED <<agents, creds, audit, revocations>> BY DEF Authenticate
<1>5. ServerType' /\ RowsOK' BY <1>3, <1>4 DEF ServerInv, ServerType, RowsOK, Used
<1>6. RegistrationsOK' BY <1>1, <1>3, <1>4 DEF ServerInv, RegistrationsOK
<1>7. PresentedOK'
  <2>1. Used(c) BY DEF Authenticate, Active, Used
  <2>2. QED BY <1>1, <1>3, <1>4, <2>1 DEF ServerInv, PresentedOK, Used
<1>8. RevocationsOK' /\ Audited' BY <1>4 DEF ServerInv, RevocationsOK, Audited
<1>9. OneActiveKey' /\ RevokedForGood'
  BY <1>4 DEF ServerInv, OneActiveKey, RevokedForGood, Active
<1>10. RowsGrow BY <1>4 DEF RowsGrow, Used
<1>11. QED BY <1>1, <1>3, <1>5, <1>6, <1>7, <1>8, <1>9, <1>10 DEF ServerInv

\* The first key of an agent: nobody else has its agent's name, and the operator
\* cannot have revoked it.
LEMMA IssueInv ==
    ASSUME ServerInv, NEW r \in Connections, NEW c \in Creds, Issue(r, c)
    PROVE  ServerInv' /\ RowsGrow
<1>1. /\ creds' \in [Creds -> CredRow]
      /\ \A d \in Creds \ {c} : creds'[d] = creds[d]
      /\ creds'[c].status = "active" /\ creds'[c].agent = calls[r].agent
      /\ creds'[c].from = NULL
  BY IssuedRow DEF ServerInv
<1>2. /\ calls' \in [Connections -> CallRow] /\ calls'[r] = Idle
      /\ \A q \in Connections \ {r} : calls'[q] = calls[q]
  BY CallEnds DEF ServerInv, Issue
<1>3. /\ UNCHANGED <<agents, audit, revocations>>
      /\ creds[c].status = "none" /\ calls[r].op = "register"
  BY DEF Issue, Unused
<1>4. Idle.op = "idle" BY DEF Idle
<1>5. /\ calls[r].agent \in agents
      /\ \A d \in Creds : creds[d].agent # calls[r].agent
      /\ \A q \in Connections \ {r} :
            calls[q].op = "register" => calls[q].agent # calls[r].agent
  BY <1>3 DEF ServerInv, RegistrationsOK
<1>6. creds[c].agent = NULL /\ creds[c].from = NULL
  BY <1>3 DEF ServerInv, RowsOK, Used
<1>7. ServerType' BY <1>1, <1>2, <1>3 DEF ServerInv, ServerType
<1>8. RowsOK'
  <2>1. \A d \in Creds : creds[d].from # NULL =>
            creds[d].from \in Creds /\ creds[creds[d].from].status # "none"
    BY DEF ServerInv, ServerType, CredRow, RowsOK, Used
  <2>2. \A d \in Creds : creds[d].status # "none" => creds'[d].status # "none"
    BY <1>1
  <2>3. ASSUME NEW d \in Creds, creds'[d].from # NULL
        PROVE  creds'[creds'[d].from].status # "none"
    BY <1>1, <2>1, <2>2, <2>3
  <2>4. ASSUME NEW d \in Creds
        PROVE  IF creds'[d].status # "none" THEN creds'[d].agent \in agents'
               ELSE creds'[d].agent = NULL /\ creds'[d].from = NULL
    BY <1>1, <1>3, <1>5 DEF ServerInv, RowsOK, Used
  <2>5. QED BY <2>3, <2>4 DEF RowsOK, Used
<1>9. RegistrationsOK' BY <1>1, <1>2, <1>3, <1>4, <1>5 DEF ServerInv, RegistrationsOK
<1>10. PresentedOK' BY <1>1, <1>2, <1>3, <1>4 DEF ServerInv, PresentedOK, Used
<1>11. RevocationsOK' BY <1>1, <1>3, <1>6 DEF ServerInv, RevocationsOK
<1>12. Audited'
  <2>1. \A d \in Creds : creds'[d].status = "revoked" => d # c /\ creds'[d] = creds[d]
    BY <1>1
  <2>2. \A d, e \in Creds : creds[e].from = d => creds'[e].from = d \/ d = NULL
    BY <1>1, <1>6
  <2>3. NULL \notin Creds BY NullAssumption
  <2>4. QED BY <1>3, <2>1, <2>2, <2>3 DEF ServerInv, Audited
<1>13. OneActiveKey' BY <1>1, <1>5 DEF ServerInv, OneActiveKey, Active
<1>14. RevokedForGood'
  <2>1. \A u \in Updates : revocations[u] # NULL => revocations[u] # calls[r].agent
    BY <1>5 DEF ServerInv, RevocationsOK
  <2>2. QED BY <1>1, <1>3, <2>1 DEF ServerInv, RevokedForGood, Active
<1>15. RowsGrow BY <1>1, <1>3 DEF RowsGrow, Used
<1>16. QED BY <1>7, <1>8, <1>9, <1>10, <1>11, <1>12, <1>13, <1>14, <1>15 DEF ServerInv

\* A rotation that commits: the old key was the agent's only working one, so the
\* new one is.
LEMMA RotateInv ==
    ASSUME ServerInv, NEW r \in Connections, NEW new \in Creds,
           Active(calls[r].cred), Rotate(r, new)
    PROVE  ServerInv' /\ RowsGrow
<1> DEFINE old == calls[r].cred
<1>1. /\ old \in Creds /\ old # new
      /\ creds' \in [Creds -> CredRow]
      /\ \A d \in Creds \ {old, new} : creds'[d] = creds[d]
      /\ creds'[new].status = "active" /\ creds'[new].agent = creds[old].agent
      /\ creds'[new].from = old
      /\ creds'[old].status = "revoked" /\ creds'[old].agent = creds[old].agent
      /\ creds'[old].from = creds[old].from
  BY RotatedRows DEF ServerInv
<1>2. /\ calls' \in [Connections -> CallRow] /\ calls'[r] = Idle
      /\ \A q \in Connections \ {r} : calls'[q] = calls[q]
  BY CallEnds DEF ServerInv, Rotate
<1>3. /\ UNCHANGED <<agents, revocations>>
      /\ audit' = audit \cup {<<creds[old].agent, old, "rotated">>}
      /\ creds[new].status = "none" /\ creds[old].status = "active"
  BY DEF Rotate, Unused, Active
<1> HIDE DEF old
<1>4. Idle.op = "idle" BY DEF Idle
<1>5. creds[new].agent = NULL /\ creds[new].from = NULL
  BY <1>3 DEF ServerInv, RowsOK, Used
<1>6. creds[old].agent \in agents BY <1>1, <1>3 DEF ServerInv, RowsOK, Used
<1>7. ServerType' BY <1>1, <1>2, <1>3 DEF ServerInv, ServerType
<1>8. \A d \in Creds : Used(d) => creds'[d].status # "none" BY <1>1, <1>3 DEF Used
<1>9. RowsOK'
  <2> SUFFICES ASSUME NEW d \in Creds
      PROVE  /\ IF creds'[d].status # "none" THEN creds'[d].agent \in agents
                ELSE creds'[d].agent = NULL /\ creds'[d].from = NULL
             /\ creds'[d].from # NULL => creds'[creds'[d].from].status # "none"
    BY <1>3 DEF RowsOK, Used
  <2>0. /\ IF creds[d].status # "none" THEN creds[d].agent \in agents
           ELSE creds[d].agent = NULL /\ creds[d].from = NULL
        /\ creds[d].from # NULL =>
              creds[d].from \in Creds /\ creds[creds[d].from].status # "none"
    <3>1. creds[d].from \in Creds \cup {NULL} BY DEF ServerInv, ServerType, CredRow
    <3>2. QED BY <3>1 DEF ServerInv, RowsOK, Used
  <2>1. CASE d = new BY <1>1, <1>6, <2>1
  <2>2. CASE d = old BY <1>1, <1>3, <1>8, <2>0, <2>2 DEF Used
  <2>3. CASE d \notin {old, new} BY <1>1, <1>8, <2>0, <2>3 DEF Used
  <2>4. QED BY <2>1, <2>2, <2>3
<1>10. RegistrationsOK'
  <2>1. \A q \in Connections : calls[q].op = "register" =>
            calls[q].agent # creds[old].agent
    BY <1>1 DEF ServerInv, RegistrationsOK
  <2>2. \A d \in Creds : creds'[d].agent = creds[d].agent \/ creds'[d].agent = creds[old].agent
    BY <1>1
  <2>3. QED BY <1>2, <1>3, <1>4, <2>1, <2>2 DEF ServerInv, RegistrationsOK
<1>11. PresentedOK' BY <1>2, <1>4, <1>8 DEF ServerInv, PresentedOK, Used
<1>12. RevocationsOK'
  <2>1. \A d \in Creds : creds'[d].agent = creds[d].agent \/ creds[d].agent = NULL
    BY <1>1, <1>5
  <2>2. QED BY <1>3, <2>1 DEF ServerInv, RevocationsOK
<1>13. Audited'
  <2> SUFFICES ASSUME NEW d \in Creds, creds'[d].status = "revoked"
      PROVE  \/ <<creds'[d].agent, NULL, "revoked_all">> \in audit'
             \/ <<creds'[d].agent, d, "revoked">> \in audit'
             \/ /\ <<creds'[d].agent, d, "rotated">> \in audit'
                /\ \E e \in Creds : creds'[e].from = d
    BY DEF Audited
  <2>1. CASE d = old BY <1>1, <1>3, <2>1
  <2>2. CASE d # old
    <3>1. creds'[d] = creds[d] BY <1>1, <2>2
    <3>2. NULL \notin Creds BY NullAssumption
    <3>3. \A e \in Creds : creds[e].from = d => creds'[e].from = d
      BY <1>1, <1>5, <3>2
    <3>4. QED BY <1>3, <3>1, <3>3 DEF ServerInv, Audited
  <2>3. QED BY <2>1, <2>2
<1>14. OneActiveKey'
  <2>1. \A d \in Creds :
            (creds[d].status = "active" /\ creds[d].agent = creds[old].agent) => d = old
    BY <1>1, <1>3 DEF ServerInv, OneActiveKey, Active
  <2>2. QED BY <1>1, <2>1 DEF ServerInv, OneActiveKey, Active
<1>15. RevokedForGood'
  <2>1. \A u \in Updates : revocations[u] # NULL => revocations[u] # creds[old].agent
    BY <1>1, <1>3 DEF ServerInv, RevokedForGood, Active
  <2>2. QED BY <1>1, <1>3, <2>1 DEF ServerInv, RevokedForGood, Active
<1>16. RowsGrow BY <1>1, <1>3 DEF RowsGrow, Used
<1>17. QED
  BY <1>7, <1>9, <1>10, <1>11, <1>12, <1>13, <1>14, <1>15, <1>16 DEF ServerInv

\* Keys that stop working: what revocations have in common.
LEMMA RevocationInv ==
    ASSUME ServerInv, creds' \in [Creds -> CredRow],
           \A c \in Creds :
              /\ creds'[c].agent = creds[c].agent /\ creds'[c].from = creds[c].from
              /\ \/ creds'[c].status = creds[c].status
                 \/ creds[c].status = "active" /\ creds'[c].status = "revoked"
    PROVE  /\ RowsGrow /\ OneActiveKey'
           /\ agents' = agents => RowsOK'
<1>1. RowsGrow BY DEF RowsGrow, Used
<1>2. OneActiveKey' BY DEF ServerInv, OneActiveKey, Active
<1>3. ASSUME agents' = agents PROVE RowsOK'
  <2>1. \A c \in Creds : creds[c].from \in Creds \cup {NULL}
    BY DEF ServerInv, ServerType, CredRow
  <2>2. \A c \in Creds : (creds'[c].status # "none") <=> (creds[c].status # "none")
    OBVIOUS
  <2>3. QED BY <1>3, <2>1, <2>2 DEF ServerInv, RowsOK, Used
<1>4. QED BY <1>1, <1>2, <1>3

\* A revocation by the holder that commits.
LEMMA RevokeInv ==
    ASSUME ServerInv, NEW r \in Connections, Active(calls[r].cred), RevokeCurrent(r)
    PROVE  ServerInv' /\ RowsGrow
<1> DEFINE c == calls[r].cred
<1>1. /\ c \in Creds
      /\ creds' \in [Creds -> CredRow]
      /\ \A d \in Creds \ {c} : creds'[d] = creds[d]
      /\ creds'[c].status = "revoked" /\ creds'[c].agent = creds[c].agent
      /\ creds'[c].from = creds[c].from
  BY RevokedRow DEF ServerInv
<1>2. /\ calls' \in [Connections -> CallRow] /\ calls'[r] = Idle
      /\ \A q \in Connections \ {r} : calls'[q] = calls[q]
  BY CallEnds DEF ServerInv, RevokeCurrent
<1>3. /\ UNCHANGED <<agents, revocations>>
      /\ audit' = audit \cup {<<creds[c].agent, c, "revoked">>}
      /\ creds[c].status = "active"
  BY DEF RevokeCurrent, Active
<1> HIDE DEF c
<1>4. Idle.op = "idle" BY DEF Idle
<1>5. \A d \in Creds :
        /\ creds'[d].agent = creds[d].agent /\ creds'[d].from = creds[d].from
        /\ \/ creds'[d].status = creds[d].status
           \/ creds[d].status = "active" /\ creds'[d].status = "revoked"
  BY <1>1, <1>3
<1>6. RowsGrow /\ OneActiveKey' /\ RowsOK' BY <1>1, <1>3, <1>5, RevocationInv
<1>7. ServerType' BY <1>1, <1>2, <1>3 DEF ServerInv, ServerType
<1>8. RegistrationsOK' BY <1>2, <1>3, <1>4, <1>5 DEF ServerInv, RegistrationsOK
<1>9. PresentedOK' BY <1>2, <1>4, <1>6 DEF ServerInv, PresentedOK, RowsGrow, Used
<1>10. RevocationsOK' BY <1>3, <1>5 DEF ServerInv, RevocationsOK
<1>11. Audited' BY <1>1, <1>3, <1>5 DEF ServerInv, Audited
<1>12. RevokedForGood' BY <1>3, <1>5 DEF ServerInv, RevokedForGood, Active
<1>13. QED BY <1>6, <1>7, <1>8, <1>9, <1>10, <1>11, <1>12 DEF ServerInv

\* The operator's revocation: no key of the agent works any more.
LEMMA OperatorInv ==
    ASSUME ServerInv, NEW u \in Updates, NEW a \in Agents, RevokeAgent(u, a)
    PROVE  ServerInv' /\ RowsGrow
<1>1. /\ creds' \in [Creds -> CredRow]
      /\ \A c \in Creds :
            /\ creds'[c].agent = creds[c].agent /\ creds'[c].from = creds[c].from
            /\ creds'[c].status = IF Active(c) /\ creds[c].agent = a THEN "revoked"
                                  ELSE creds[c].status
  BY RevokedRows DEF ServerInv
<1>2. /\ UNCHANGED <<agents, calls>>
      /\ audit' = audit \cup {<<a, NULL, "revoked_all">>}
      /\ revocations' = [revocations EXCEPT ![u] = a]
      /\ \E c \in Creds : creds[c].agent = a
  BY DEF RevokeAgent
<1>3. \A d \in Creds :
        /\ creds'[d].agent = creds[d].agent /\ creds'[d].from = creds[d].from
        /\ \/ creds'[d].status = creds[d].status
           \/ creds[d].status = "active" /\ creds'[d].status = "revoked"
  BY <1>1 DEF Active
<1>4. RowsGrow /\ OneActiveKey' /\ RowsOK' BY <1>1, <1>2, <1>3, RevocationInv
<1>5. /\ revocations' \in [Updates -> Agents \cup {NULL}] /\ revocations'[u] = a
      /\ \A v \in Updates \ {u} : revocations'[v] = revocations[v]
  BY <1>2 DEF ServerInv, ServerType
<1>6. ServerType' BY <1>1, <1>2, <1>5 DEF ServerInv, ServerType
<1>7. RegistrationsOK' BY <1>2, <1>3 DEF ServerInv, RegistrationsOK
<1>8. PresentedOK' BY <1>2, <1>4 DEF ServerInv, PresentedOK, RowsGrow, Used
<1>9. RevocationsOK' BY <1>2, <1>3, <1>5 DEF ServerInv, RevocationsOK
<1>10. Audited'
  <2> SUFFICES ASSUME NEW c \in Creds, creds'[c].status = "revoked"
      PROVE  \/ <<creds'[c].agent, NULL, "revoked_all">> \in audit'
             \/ <<creds'[c].agent, c, "revoked">> \in audit'
             \/ /\ <<creds'[c].agent, c, "rotated">> \in audit'
                /\ \E d \in Creds : creds'[d].from = c
    BY DEF Audited
  <2>1. CASE Active(c) /\ creds[c].agent = a BY <1>1, <1>2, <2>1
  <2>2. CASE ~(Active(c) /\ creds[c].agent = a)
    <3>1. creds[c].status = "revoked" BY <1>1, <2>2
    <3>2. QED BY <1>2, <1>3, <3>1 DEF ServerInv, Audited
  <2>3. QED BY <2>1, <2>2
<1>11. RevokedForGood' BY <1>1, <1>5 DEF ServerInv, RevokedForGood, Active
<1>12. QED BY <1>4, <1>6, <1>7, <1>8, <1>9, <1>10, <1>11 DEF ServerInv

\* A step of the server.
LEMMA ServerStepInv == ServerInv /\ [Next]_vars => ServerInv' /\ RowsGrow
<1> SUFFICES ASSUME ServerInv, [Next]_vars PROVE ServerInv' /\ RowsGrow
  OBVIOUS
<1>1. CASE UNCHANGED vars
  BY <1>1 DEF vars, RowsGrow, ServerInv, ServerType, RowsOK, RegistrationsOK,
       PresentedOK, RevocationsOK, Audited, OneActiveKey, RevokedForGood, Used, Active
<1>2. ASSUME NEW r \in Connections, RequestStep(r) PROVE ServerInv' /\ RowsGrow
  <2>1. ASSUME NEW c \in Creds, Rotate(r, c) PROVE ServerInv' /\ RowsGrow
    <3>1. CASE Active(calls[r].cred) BY <2>1, <3>1, RotateInv
    <3>2. CASE ~Active(calls[r].cred) BY <2>1, <3>2, IdleInv DEF Rotate
    <3>3. QED BY <3>1, <3>2
  <2>2. CASE RevokeCurrent(r)
    <3>1. CASE Active(calls[r].cred) BY <2>2, <3>1, RevokeInv
    <3>2. CASE ~Active(calls[r].cred) BY <2>2, <3>2, IdleInv DEF RevokeCurrent
    <3>3. QED BY <3>1, <3>2
  <2>3. CASE Abandon(r) BY <2>3, IdleInv DEF Abandon
  <2>4. QED BY <1>2, <2>1, <2>2, <2>3, CreateInv, IssueInv, AuthenticateInv DEF RequestStep
<1>3. QED BY <1>1, <1>2, OperatorInv DEF Next

\* Seen from the server, a step of the whole is one of its own or none.
LEMMA ServerSteps == LocalType /\ KeysMatch /\ [IdentityNext]_allVars => [Next]_vars
<1> SUFFICES ASSUME LocalType, KeysMatch, [IdentityNext]_allVars PROVE [Next]_vars
  OBVIOUS
<1>1. CASE UNCHANGED allVars BY <1>1 DEF allVars, vars
<1>2. CASE RuntimeStep
  <2>1. ASSUME NEW r \in Connections, NEW a \in Agents, RegisterNew(r, a) PROVE Next
    BY <2>1 DEF RegisterNew, Next, RequestStep
  <2>2. QED
    BY <1>2, <2>1 DEF RuntimeStep, Boot, Validate, Reregister, Receive, Save, Announce, Die
<1>3. CASE HolderStep
  <2>1. ASSUME NEW r \in Connections, NEW op \in {"rotate", "revoke"}, Ask(r, op)
        PROVE  Next
    <3>1. file.cred \in Creds BY <2>1 DEF Ask, KeysMatch, KeyOf
    <3>2. QED BY <2>1, <3>1 DEF Ask, Next, RequestStep
  <2>2. QED BY <1>3, <2>1 DEF HolderStep, GiveUp, LoseAnswer, WriteKey
<1>4. CASE ServerStep
  BY <1>4 DEF ServerStep, IssueNew, HolderRotate, OtherRegisters, HolderRevoke,
       CutOff, OperatorRevokes, Next, RequestStep
<1>5. QED BY <1>1, <1>2, <1>3, <1>4 DEF IdentityNext

-----------------------------------------------------------------------------
(* The agent's process, its file and its holder *)

\* A row of the file, of a process, of an answer.
StateFile == [base: Bases \cup {NULL}, agent: Agents \cup {NULL}, cred: Creds \cup {NULL}]
Answer == [agent: Agents \cup {NULL}, cred: Creds \cup {NULL}]

\* What everybody's keys say of the table stays true.
LEMMA KeysStay ==
    ASSUME RowsGrow, NEW c, NEW a, KeyOf(c, a)
    PROVE  KeyOf(c, a)'
BY DEF RowsGrow, KeyOf, Used

\* The constants of the local state.
LEMMA Constants ==
    /\ NoFile \in StateFile /\ NoFile.cred = NULL /\ NoFile.agent = NULL
    /\ NoAnswer \in Answer /\ NoAnswer.cred = NULL /\ NoAnswer.agent = NULL
    /\ Down \in RuntimeRow /\ Down.pc = "down" /\ Down.cred = NULL
    /\ Down.conn = NULL /\ Down.agent = NULL
BY DEF NoFile, NoAnswer, Down, StateFile, Answer, RuntimeRow

\* Nothing has started.
LEMMA LocalInit == IdentityInit => LocalInv
<1> SUFFICES ASSUME IdentityInit PROVE LocalInv
  OBVIOUS
<1>1. file = NoFile /\ runtime = Down /\ answer = NoAnswer /\ issued = {} /\ lost = {}
  BY DEF IdentityInit
<1>2. LocalType BY <1>1, Constants DEF LocalType, StateFile, Answer
<1>3. KeysMatch /\ AnswerOK /\ SameAgent
  BY <1>1, Constants DEF KeysMatch, AnswerOK, SameAgent
<1>4. QED BY <1>2, <1>3 DEF LocalInv

\* Steps that leave the process, the file and the answer alone.
LEMMA HandsOff ==
    ASSUME LocalInv, RowsGrow, UNCHANGED <<file, runtime, answer>>,
           issued' \subseteq Creds, lost' \subseteq Creds,
           \A c \in issued' : c \in issued \/ Used(c)'
    PROVE  LocalInv'
<1>1. LocalType' BY DEF LocalInv, LocalType
<1>2. KeysMatch'
  <2>1. \A c \in Creds : Used(c) => Used(c)' BY DEF RowsGrow, Used
  <2>2. \A c \in issued' : Used(c)' BY <2>1 DEF LocalInv, LocalType, KeysMatch
  <2>3. QED BY <2>2, KeysStay DEF LocalInv, KeysMatch
<1>3. AnswerOK' /\ SameAgent' BY DEF LocalInv, AnswerOK, SameAgent
<1>4. QED BY <1>1, <1>2, <1>3 DEF LocalInv

\* Steps of the process that keep what it knows: it ends, or goes on to a later
\* step.
LEMMA ProcessGoesOn ==
    ASSUME LocalInv, RowsGrow, UNCHANGED <<file, issued, lost>>,
           runtime' \in RuntimeRow, answer' = answer \/ answer' = NoAnswer,
           runtime' = Down \/
           (/\ runtime'.cred = runtime.cred /\ runtime'.agent = runtime.agent
            /\ runtime'.base = runtime.base
            /\ runtime'.pc \in {"validate", "register", "await", "save"} =>
                  runtime.pc \in {"validate", "register", "await", "save"}),
           AnswerOK'
    PROVE  LocalInv'
<1>1. LocalType' BY Constants DEF LocalInv, LocalType, Answer
<1>2. KeysMatch'
  <2>1. \A c \in issued : Used(c)' BY DEF LocalInv, LocalType, KeysMatch, RowsGrow, Used
  <2>2. QED BY <2>1, KeysStay, Constants DEF LocalInv, KeysMatch
<1>3. SameAgent' BY Constants DEF LocalInv, SameAgent
<1>4. QED BY <1>1, <1>2, <1>3 DEF LocalInv

\* A process and an answer after one field of it changed.
LEMMA ProcessFields ==
    ASSUME runtime \in RuntimeRow
    PROVE  /\ \A pc \in {"validate", "register", "await", "save", "announce", "running"} :
                 /\ [runtime EXCEPT !.pc = pc] \in RuntimeRow
                 /\ [runtime EXCEPT !.pc = pc].pc = pc
                 /\ [runtime EXCEPT !.pc = pc].base = runtime.base
                 /\ [runtime EXCEPT !.pc = pc].agent = runtime.agent
                 /\ [runtime EXCEPT !.pc = pc].cred = runtime.cred
                 /\ [runtime EXCEPT !.pc = pc].conn = runtime.conn
           /\ \A r \in Connections :
                 /\ [runtime EXCEPT !.pc = "await", !.conn = r] \in RuntimeRow
                 /\ [runtime EXCEPT !.pc = "await", !.conn = r].pc = "await"
                 /\ [runtime EXCEPT !.pc = "await", !.conn = r].base = runtime.base
                 /\ [runtime EXCEPT !.pc = "await", !.conn = r].agent = runtime.agent
                 /\ [runtime EXCEPT !.pc = "await", !.conn = r].cred = runtime.cred
           /\ [runtime EXCEPT !.conn = NULL] \in RuntimeRow
           /\ [runtime EXCEPT !.conn = NULL].pc = runtime.pc
           /\ [runtime EXCEPT !.conn = NULL].base = runtime.base
           /\ [runtime EXCEPT !.conn = NULL].agent = runtime.agent
           /\ [runtime EXCEPT !.conn = NULL].cred = runtime.cred
           /\ [runtime EXCEPT !.conn = NULL].conn = NULL
BY DEF RuntimeRow

\* A start: the process is the agent of the file if the base URL is the file's.
LEMMA BootInv ==
    ASSUME LocalInv, RowsGrow, NEW base \in Bases, Boot(base)
    PROVE  LocalInv'
<1> DEFINE known == [pc |-> "validate", base |-> base, agent |-> file.agent,
                     cred |-> file.cred, conn |-> NULL]
           fresh == [Down EXCEPT !.pc = "register", !.base = base]
<1>0. file \in StateFile BY DEF LocalInv, LocalType, StateFile
<1>1. /\ known \in RuntimeRow /\ known.pc = "validate" /\ known.base = base
      /\ known.agent = file.agent /\ known.cred = file.cred /\ known.conn = NULL
  BY <1>0 DEF StateFile, RuntimeRow
<1>2. /\ fresh \in RuntimeRow /\ fresh.pc = "register" /\ fresh.base = base
      /\ fresh.cred = NULL /\ fresh.conn = NULL
  BY DEF Down, RuntimeRow
<1>3. /\ runtime = Down
      /\ runtime' = IF file # NoFile /\ file.base = base THEN known ELSE fresh
      /\ UNCHANGED <<file, answer, issued, lost>>
  BY DEF Boot
<1> HIDE DEF known, fresh
<1>4. answer = NoAnswer BY <1>3, Constants DEF LocalInv, AnswerOK
<1>5. LocalType' BY <1>1, <1>2, <1>3 DEF LocalInv, LocalType
<1>6. file # NoFile => KeyOf(file.cred, file.agent) /\ KeyOf(file.cred, file.agent)'
  BY <1>3, KeysStay DEF LocalInv, KeysMatch
<1>7. NULL \notin Creds BY NullAssumption
<1>8. file # NoFile => file.cred # NULL BY <1>6, <1>7 DEF KeyOf
<1>9. \A c \in issued : Used(c)' BY DEF LocalInv, LocalType, KeysMatch, RowsGrow, Used
<1>10. CASE file # NoFile /\ file.base = base
  <2>1. runtime' = known BY <1>3, <1>10
  <2>2. KeysMatch' BY <1>1, <1>3, <1>4, <1>6, <1>9, <2>1, Constants DEF KeysMatch
  <2>3. AnswerOK' BY <1>1, <1>3, <1>4, <1>8, <1>10, <2>1 DEF AnswerOK
  <2>4. SameAgent' BY <1>1, <1>3, <1>8, <1>10, <2>1 DEF SameAgent
  <2>5. QED BY <1>5, <2>2, <2>3, <2>4 DEF LocalInv
<1>11. CASE ~(file # NoFile /\ file.base = base)
  <2>1. runtime' = fresh BY <1>3, <1>11
  <2>2. KeysMatch' BY <1>2, <1>3, <1>4, <1>6, <1>9, <2>1, Constants DEF KeysMatch
  <2>3. AnswerOK' BY <1>2, <1>3, <1>4, <2>1 DEF AnswerOK
  <2>4. SameAgent' BY <1>2, <1>3, <1>11, <2>1 DEF SameAgent
  <2>5. QED BY <1>5, <2>2, <2>3, <2>4 DEF LocalInv
<1>12. QED BY <1>10, <1>11

\* The answer to a registration with a working key.
LEMMA ReregisterInv ==
    ASSUME LocalInv, RowsGrow, ServerType, Reregister
    PROVE  LocalInv'
<1> DEFINE given == [agent |-> creds[runtime.cred].agent, cred |-> NULL]
<1>1. runtime \in RuntimeRow BY DEF LocalInv, LocalType
<1>2. runtime.cred # NULL BY DEF Reregister, Presents
<1>3. runtime.cred \in Creds BY <1>2 DEF LocalInv, KeysMatch, KeyOf
<1>4. given \in Answer /\ given.cred = NULL BY <1>3 DEF ServerType, CredRow, Answer
<1>5. /\ runtime.pc = "register" /\ runtime' = [runtime EXCEPT !.pc = "await"]
      /\ answer' = given /\ UNCHANGED <<file, issued, lost>>
  BY DEF Reregister
<1> HIDE DEF given
<1>6. /\ runtime' \in RuntimeRow /\ runtime'.pc = "await" /\ runtime'.base = runtime.base
      /\ runtime'.agent = runtime.agent /\ runtime'.cred = runtime.cred
      /\ runtime'.conn = runtime.conn
  BY <1>1, <1>5, ProcessFields
<1>7. runtime.conn = NULL BY <1>5 DEF LocalInv, AnswerOK
<1>8. LocalType' BY <1>4, <1>5, <1>6 DEF LocalInv, LocalType, Answer
<1>9. \A c \in issued : Used(c)' BY DEF LocalInv, LocalType, KeysMatch, RowsGrow, Used
<1>10. KeysMatch' BY <1>4, <1>5, <1>6, <1>9, KeysStay DEF LocalInv, KeysMatch
<1>11. AnswerOK' BY <1>2, <1>5, <1>6, <1>7 DEF AnswerOK
<1>12. SameAgent' BY <1>5, <1>6 DEF LocalInv, SameAgent
<1>13. QED BY <1>8, <1>10, <1>11, <1>12 DEF LocalInv

\* A new agent's key reaches the process that waits for it, or nobody.
LEMMA IssueNewInv ==
    ASSUME LocalInv, RowsGrow, ServerInv, NEW r \in Connections, NEW c \in Creds,
           IssueNew(r, c)
    PROVE  LocalInv'
<1>1. /\ creds'[c].status = "active" /\ creds'[c].agent = calls[r].agent
  BY IssuedRow DEF IssueNew, ServerInv
<1>2. UNCHANGED <<file, issued, lost>> BY DEF IssueNew
<1>3. CASE runtime.conn # r
  <2>1. UNCHANGED <<file, runtime, answer>> BY <1>2, <1>3 DEF IssueNew
  <2>2. QED BY <1>2, <2>1, HandsOff DEF LocalInv, LocalType
<1>4. CASE runtime.conn = r
  <2> DEFINE given == [agent |-> calls[r].agent, cred |-> c]
  <2>1. calls[r] \in CallRow BY DEF ServerInv, ServerType
  <2>2. given \in Answer /\ given.agent = calls[r].agent /\ given.cred = c
    BY <2>1 DEF CallRow, Answer
  <2>3. answer' = given /\ runtime' = [runtime EXCEPT !.conn = NULL]
    BY <1>4 DEF IssueNew
  <2> HIDE DEF given
  <2>4. /\ runtime' \in RuntimeRow /\ runtime'.pc = runtime.pc
        /\ runtime'.base = runtime.base /\ runtime'.agent = runtime.agent
        /\ runtime'.cred = runtime.cred /\ runtime'.conn = NULL
    BY <2>3, ProcessFields DEF LocalInv, LocalType
  <2>5. runtime.pc = "await"
    BY <1>4, ConnectionsAssumption DEF LocalInv, AnswerOK
  <2>6. c # NULL BY NullAssumption
  <2>7. LocalType' BY <1>2, <2>2, <2>3, <2>4 DEF LocalInv, LocalType, Answer
  <2>8. KeyOf(answer.cred, answer.agent)' BY <1>1, <2>2, <2>3 DEF KeyOf, Used
  <2>9. \A d \in issued : Used(d)' BY DEF LocalInv, LocalType, KeysMatch, RowsGrow, Used
  <2>10. KeysMatch' BY <1>2, <2>4, <2>8, <2>9, KeysStay DEF LocalInv, KeysMatch
  <2>11. AnswerOK' BY <2>2, <2>3, <2>4, <2>5, <2>6 DEF AnswerOK
  <2>12. SameAgent' BY <1>2, <2>4 DEF LocalInv, SameAgent
  <2>13. QED BY <2>7, <2>10, <2>11, <2>12 DEF LocalInv
<1>5. QED BY <1>3, <1>4

\* What the process has after an answer it did not refuse.
LEMMA Received ==
    ASSUME LocalInv, Receive, ~ChangesIdentity
    PROVE  /\ runtime' \in RuntimeRow /\ runtime'.pc = "save"
           /\ runtime'.base = runtime.base /\ runtime'.agent = answer.agent
           /\ runtime'.conn = NULL
           /\ IF runtime.cred = NULL
              THEN runtime'.cred = answer.cred /\ answer.cred # NULL
              ELSE runtime'.cred = runtime.cred /\ answer.agent = runtime.agent
<1> DEFINE cred == IF answer.cred # NULL THEN answer.cred ELSE runtime.cred
<1>1. runtime \in RuntimeRow /\ answer \in Answer
  BY DEF LocalInv, LocalType, Answer
<1>2. cred \in Creds \cup {NULL} BY <1>1 DEF RuntimeRow, Answer
<1>3. IF runtime.cred = NULL THEN cred = answer.cred /\ answer.cred # NULL
      ELSE cred = runtime.cred /\ answer.agent = runtime.agent
  BY DEF ChangesIdentity, Receive, LocalInv, AnswerOK
<1>4. runtime' = [runtime EXCEPT !.pc = "save", !.agent = answer.agent, !.cred = cred]
  BY DEF Receive
<1> HIDE DEF cred
<1>5. /\ runtime' \in RuntimeRow /\ runtime'.pc = "save"
      /\ runtime'.base = runtime.base /\ runtime'.agent = answer.agent
      /\ runtime'.conn = runtime.conn /\ runtime'.cred = cred
  BY <1>1, <1>2, <1>4 DEF RuntimeRow, Answer
<1>6. runtime.conn = NULL BY DEF Receive, LocalInv, AnswerOK
<1>7. QED BY <1>3, <1>5, <1>6

\* The answer to a registration.
LEMMA ReceiveInv == ASSUME LocalInv, RowsGrow, Receive PROVE LocalInv'
<1>1. answer' = NoAnswer /\ UNCHANGED <<file, issued, lost>> BY DEF Receive
<1>2. CASE ChangesIdentity
  <2>1. runtime' = Down BY <1>2 DEF Receive
  <2>2. AnswerOK' BY <1>1, <2>1, Constants DEF AnswerOK
  <2>3. QED BY <1>1, <2>1, <2>2, Constants, ProcessGoesOn
<1>3. CASE ~ChangesIdentity
  <2>1. /\ runtime' \in RuntimeRow /\ runtime'.pc = "save"
        /\ runtime'.base = runtime.base /\ runtime'.agent = answer.agent
        /\ runtime'.conn = NULL
        /\ IF runtime.cred = NULL
           THEN runtime'.cred = answer.cred /\ answer.cred # NULL
           ELSE runtime'.cred = runtime.cred /\ answer.agent = runtime.agent
    BY <1>3, Received
  <2>2. LocalType' BY <1>1, <2>1, Constants DEF LocalInv, LocalType, Answer
  <2>3. \A c \in issued : Used(c)' BY DEF LocalInv, LocalType, KeysMatch, RowsGrow, Used
  <2>4. KeyOf(runtime'.cred, runtime'.agent) BY <2>1 DEF LocalInv, KeysMatch
  <2>5. KeyOf(runtime.cred, runtime.agent)'
    <3> DEFINE c == runtime'.cred
               a == runtime'.agent
    <3>1. KeyOf(c, a) BY <2>4
    <3> HIDE DEF c, a
    <3>2. c \in Creds /\ creds'[c].status # "none" /\ creds'[c].agent = a
      BY <3>1 DEF KeyOf, Used, RowsGrow
    <3>3. QED BY <3>2 DEF c, a, KeyOf, Used
  <2>6. KeysMatch' BY <1>1, <2>3, <2>5, KeysStay, Constants DEF LocalInv, KeysMatch
  <2>7. runtime'.cred # NULL BY <2>1
  <2>8. AnswerOK' BY <1>1, <2>1, <2>7 DEF AnswerOK
  <2>9. SameAgent' BY <1>1, <2>1, <2>7 DEF LocalInv, SameAgent, Receive
  <2>10. QED BY <2>2, <2>6, <2>8, <2>9 DEF LocalInv
<1>4. QED BY <1>2, <1>3

\* The file after a save.
LEMMA SavedFile ==
    ASSUME LocalInv, Save
    PROVE  /\ file' \in StateFile /\ file'.base = runtime.base
           /\ file'.agent = runtime.agent /\ file'.cred = runtime.cred
           /\ runtime.cred # NULL
           /\ answer = NoAnswer
BY Constants DEF LocalInv, LocalType, RuntimeRow, AnswerOK, Save, StateFile

\* The process saves what it is.
LEMMA SaveInv == ASSUME LocalInv, RowsGrow, Save PROVE LocalInv'
<1>1. /\ file' \in StateFile /\ file'.base = runtime.base
      /\ file'.agent = runtime.agent /\ file'.cred = runtime.cred
      /\ runtime.cred # NULL /\ answer = NoAnswer
  BY SavedFile
<1>2. /\ runtime' \in RuntimeRow /\ runtime'.pc = "announce" /\ runtime'.base = runtime.base
      /\ runtime'.agent = runtime.agent /\ runtime'.cred = runtime.cred
      /\ runtime'.conn = runtime.conn
  BY ProcessFields DEF LocalInv, LocalType, Save
<1>3. runtime.conn = NULL /\ UNCHANGED <<answer, issued, lost>>
  BY DEF LocalInv, AnswerOK, Save
<1>4. LocalType' BY <1>1, <1>2, <1>3 DEF LocalInv, LocalType, StateFile
<1>5. \A c \in issued : Used(c)' BY DEF LocalInv, LocalType, KeysMatch, RowsGrow, Used
<1>6. KeyOf(runtime.cred, runtime.agent) BY <1>1 DEF LocalInv, KeysMatch
<1>7. /\ runtime.cred \in Creds /\ creds'[runtime.cred].status # "none"
      /\ creds'[runtime.cred].agent = runtime.agent
  BY <1>6 DEF KeyOf, Used, RowsGrow
<1>8. KeysMatch'
  <2>1. KeyOf(file.cred, file.agent)' /\ KeyOf(runtime.cred, runtime.agent)'
    BY <1>1, <1>2, <1>7 DEF KeyOf, Used
  <2>2. QED BY <1>1, <1>3, <1>5, <2>1, Constants DEF KeysMatch
<1>9. AnswerOK' BY <1>1, <1>2, <1>3 DEF AnswerOK
<1>10. SameAgent' BY <1>2 DEF SameAgent
<1>11. QED BY <1>4, <1>8, <1>9, <1>10 DEF LocalInv

\* The file after the holder wrote a key: the same agent's.
LEMMA WrittenFile ==
    ASSUME LocalInv, ServerInv, NEW c \in Creds, WriteKey(c)
    PROVE  /\ file' \in StateFile /\ file'.base = file.base
           /\ file'.agent = file.agent /\ file'.cred = c
           /\ file # NoFile /\ c # NULL /\ Used(c)
<1>1. c # NULL BY NullAssumption
<1>2. Used(c) BY DEF LocalInv, KeysMatch, WriteKey
<1>3. file.agent \in Agents
  BY <1>2 DEF ServerInv, ServerType, RowsOK, WriteKey
<1>4. file # NoFile BY <1>3, Constants, NullAssumption
<1>5. file \in StateFile BY DEF LocalInv, LocalType, StateFile
<1>6. /\ file' \in StateFile /\ file'.base = file.base
      /\ file'.agent = file.agent /\ file'.cred = c
  BY <1>5 DEF StateFile, WriteKey
<1>7. QED BY <1>1, <1>2, <1>4, <1>6

\* The holder writes a key of the same agent.
LEMMA WriteKeyInv ==
    ASSUME LocalInv, ServerInv, RowsGrow, NEW c \in Creds, WriteKey(c)
    PROVE  LocalInv'
<1>1. /\ file' \in StateFile /\ file'.base = file.base
      /\ file'.agent = file.agent /\ file'.cred = c
      /\ file # NoFile /\ c # NULL /\ Used(c)
  BY WrittenFile
<1>2. /\ UNCHANGED <<creds, runtime, answer, lost>> /\ issued' = issued \ {c}
      /\ creds[c].agent = file.agent
  BY DEF WriteKey, vars
<1>3. LocalType' BY <1>1, <1>2 DEF LocalInv, LocalType, StateFile
<1>4. KeyOf(file.cred, file.agent)' BY <1>1, <1>2 DEF KeyOf, Used
<1>5. KeysMatch'
  BY <1>2, <1>4, KeysStay DEF LocalInv, KeysMatch, Used
<1>6. AnswerOK' BY <1>2 DEF LocalInv, AnswerOK
<1>7. SameAgent' BY <1>1, <1>2 DEF LocalInv, SameAgent
<1>8. QED BY <1>3, <1>5, <1>6, <1>7 DEF LocalInv

\* The steps of a start.
LEMMA RuntimeStepInv ==
    ASSUME LocalInv, ServerInv, RowsGrow, RuntimeStep
    PROVE  LocalInv'
<1>a. runtime \in RuntimeRow BY DEF LocalInv, LocalType
<1>1. CASE Validate
  <2>1. /\ runtime' \in RuntimeRow /\ runtime'.pc = "register"
        /\ runtime'.base = runtime.base /\ runtime'.agent = runtime.agent
        /\ runtime'.cred = runtime.cred /\ runtime'.conn = runtime.conn
        /\ UNCHANGED <<file, answer, issued, lost>> /\ runtime.pc = "validate"
    BY <1>1, <1>a, ProcessFields DEF Validate
  <2>2. AnswerOK' BY <2>1 DEF LocalInv, AnswerOK
  <2>3. QED BY <2>1, <2>2, ProcessGoesOn
<1>2. ASSUME NEW r \in Connections, NEW a \in Agents, RegisterNew(r, a) PROVE LocalInv'
  <2>1. /\ runtime' \in RuntimeRow /\ runtime'.pc = "await"
        /\ runtime'.base = runtime.base /\ runtime'.agent = runtime.agent
        /\ runtime'.cred = runtime.cred
        /\ UNCHANGED <<file, answer, issued, lost>> /\ runtime.pc = "register"
    BY <1>2, <1>a, ProcessFields DEF RegisterNew
  <2>2. AnswerOK' BY <2>1 DEF LocalInv, AnswerOK
  <2>3. QED BY <2>1, <2>2, ProcessGoesOn
<1>3. CASE Announce
  <2>1. /\ runtime' \in RuntimeRow /\ runtime'.pc = "running"
        /\ runtime'.base = runtime.base /\ runtime'.agent = runtime.agent
        /\ runtime'.cred = runtime.cred /\ runtime'.conn = runtime.conn
        /\ UNCHANGED <<file, answer, issued, lost>> /\ runtime.pc = "announce"
    BY <1>3, <1>a, ProcessFields DEF Announce
  <2>2. AnswerOK' BY <2>1 DEF LocalInv, AnswerOK
  <2>3. QED BY <2>1, <2>2, ProcessGoesOn
<1>4. CASE Die
  <2>1. runtime' = Down /\ answer' = NoAnswer /\ UNCHANGED <<file, issued, lost>>
    BY <1>4 DEF Die
  <2>2. AnswerOK' BY <2>1, Constants DEF AnswerOK
  <2>3. QED BY <2>1, <2>2, Constants, ProcessGoesOn
<1>5. ServerType BY DEF ServerInv
<1>6. QED
  BY <1>1, <1>2, <1>3, <1>4, <1>5, BootInv, ReregisterInv, ReceiveInv, SaveInv
  DEF RuntimeStep

\* The steps of the holder.
LEMMA HolderStepInv ==
    ASSUME LocalInv, ServerInv, RowsGrow, HolderStep
    PROVE  LocalInv'
<1>1. issued \subseteq Creds /\ lost \subseteq Creds BY DEF LocalInv, LocalType
<1>2. ASSUME NEW r \in Connections, NEW op \in {"rotate", "revoke"}, Ask(r, op)
      PROVE  LocalInv'
  BY <1>1, <1>2, HandsOff DEF Ask
<1>3. ASSUME NEW r \in Connections, GiveUp(r) PROVE LocalInv'
  BY <1>1, <1>3, HandsOff DEF GiveUp
<1>4. ASSUME NEW c \in Creds, LoseAnswer(c) PROVE LocalInv'
  BY <1>1, <1>4, HandsOff DEF LoseAnswer
<1>5. QED BY <1>2, <1>3, <1>4, WriteKeyInv DEF HolderStep

\* A rotation that commits hands out a key that exists.
LEMMA RotationInv ==
    ASSUME LocalInv, ServerInv, RowsGrow, NEW r \in Connections, NEW new \in Creds,
           HolderRotate(r, new)
    PROVE  LocalInv'
<1>1. issued \subseteq Creds /\ lost \subseteq Creds BY DEF LocalInv, LocalType
<1>2. UNCHANGED <<file, runtime, answer>> BY DEF HolderRotate
<1>3. CASE Active(calls[r].cred)
  <2>1. creds'[new].status = "active"
    BY <1>3, RotatedRows DEF HolderRotate, ServerInv
  <2>2. issued' \subseteq issued \cup {new} /\ lost' \subseteq lost \cup {new}
    BY DEF HolderRotate
  <2>3. \A c \in issued' : c \in issued \/ Used(c)' BY <2>1, <2>2 DEF Used
  <2>4. QED BY <1>1, <1>2, <2>2, <2>3, HandsOff
<1>4. CASE ~Active(calls[r].cred)
  <2>1. issued' = issued /\ lost' = lost BY <1>4 DEF HolderRotate
  <2>2. QED BY <1>1, <1>2, <2>1, HandsOff
<1>5. QED BY <1>3, <1>4

\* The steps of the server.
LEMMA RequestsInv ==
    ASSUME LocalInv, ServerInv, RowsGrow, ServerStep
    PROVE  LocalInv'
<1>1. issued \subseteq Creds /\ lost \subseteq Creds BY DEF LocalInv, LocalType
<1>2. ASSUME NEW r \in Connections, NEW a \in Agents, OtherRegisters(r, a) PROVE LocalInv'
  BY <1>1, <1>2, HandsOff DEF OtherRegisters, localVars
<1>3. ASSUME NEW u \in Updates, NEW a \in Agents, OperatorRevokes(u, a) PROVE LocalInv'
  BY <1>1, <1>3, HandsOff DEF OperatorRevokes, localVars
<1>4. ASSUME NEW r \in Connections, HolderRevoke(r) PROVE LocalInv'
  BY <1>1, <1>4, HandsOff DEF HolderRevoke
<1>5. ASSUME NEW r \in Connections, CutOff(r) PROVE LocalInv'
  <2>1. UNCHANGED <<file, answer, issued, lost>> BY <1>5 DEF CutOff
  <2>2. CASE runtime.conn = r
    <3>1. runtime' = Down BY <1>5, <2>2 DEF CutOff
    <3>2. answer = NoAnswer
      BY <2>2, ConnectionsAssumption DEF LocalInv, AnswerOK
    <3>3. AnswerOK' BY <2>1, <3>1, <3>2, Constants DEF AnswerOK
    <3>4. QED BY <2>1, <3>1, <3>3, Constants, ProcessGoesOn
  <2>3. CASE runtime.conn # r
    <3>1. runtime' = runtime BY <1>5, <2>3 DEF CutOff
    <3>2. QED BY <1>1, <2>1, <3>1, HandsOff
  <2>4. QED BY <2>2, <2>3
<1>6. QED BY <1>2, <1>3, <1>4, <1>5, IssueNewInv, RotationInv DEF ServerStep

\* The inductive invariant of the agent, its holder and the server.
IInv == ServerInv /\ LocalInv

LEMMA InitInv == IdentityInit => IInv
BY ServerInit, LocalInit DEF IdentityInit, IInv

LEMMA StepInv == IInv /\ [IdentityNext]_allVars => IInv' /\ RowsGrow
<1> SUFFICES ASSUME IInv, [IdentityNext]_allVars PROVE IInv' /\ RowsGrow
  OBVIOUS
<1>a. LocalInv /\ ServerInv BY DEF IInv
<1>1. ServerInv' /\ RowsGrow
  BY <1>a, ServerSteps, ServerStepInv DEF LocalInv
<1>2. CASE UNCHANGED allVars
  BY <1>a, <1>1, <1>2, HandsOff DEF allVars, localVars, LocalInv, LocalType, IInv
<1>3. CASE IdentityNext
  BY <1>a, <1>1, <1>3, RuntimeStepInv, HolderStepInv, RequestsInv DEF IdentityNext, IInv
<1>4. QED BY <1>2, <1>3

LEMMA Invariant == IdentitySpec => []IInv
<1>1. IInv /\ [IdentityNext]_allVars => IInv' BY StepInv
<1>2. QED BY <1>1, InitInv, PTL DEF IdentitySpec

\* An agent never has two working keys, whoever races to rotate one
\* (CredentialStore.Rotate).
THEOREM OneKey == IdentitySpec => []OneActiveKey
<1>1. IInv => OneActiveKey BY DEF IInv, ServerInv
<1>2. QED BY <1>1, Invariant, PTL

\* An agent the operator revoked has no working key again
\* (CredentialStore.RevokeAgent).
THEOREM RevokedStays == IdentitySpec => []RevokedForGood
<1>1. IInv => RevokedForGood BY DEF IInv, ServerInv
<1>2. QED BY <1>1, Invariant, PTL

\* Only the process and the holder write the file, and both write the agent that
\* is in it (SaveState).
LEMMA FileWriters ==
    ASSUME IdentityNext, file' # file
    PROVE  Save \/ \E c \in Creds : WriteKey(c)
<1>1. ~ServerStep
  BY DEF ServerStep, IssueNew, HolderRotate, OtherRegisters, HolderRevoke, CutOff,
         OperatorRevokes, localVars
<1>2. RuntimeStep => Save
  BY DEF RuntimeStep, Boot, Validate, Reregister, RegisterNew, Receive, Announce, Die
<1>3. HolderStep => \E c \in Creds : WriteKey(c)
  BY DEF HolderStep, Ask, GiveUp, LoseAnswer
<1>4. QED BY <1>1, <1>2, <1>3 DEF IdentityNext

\* The agent in the file stays there until a start under another base URL
\* replaces it (Bootstrap, Client.Register).
THEOREM SameIdentity == IdentitySpec => IdentityKept
<1>1. IInv /\ [IdentityNext]_allVars =>
        [file # NoFile => (file'.agent = file.agent \/ file'.base # file.base)]_allVars
  <2> SUFFICES ASSUME IInv, IdentityNext, file # NoFile
      PROVE  file'.agent = file.agent \/ file'.base # file.base
    OBVIOUS
  <2>a. LocalInv /\ ServerInv BY DEF IInv
  <2>1. CASE file' = file BY <2>1
  <2>2. CASE Save
    <3>1. file'.base = runtime.base /\ file'.agent = runtime.agent
      BY <2>2, <2>a, SavedFile
    <3>2. QED BY <2>2, <2>a, <3>1 DEF Save, LocalInv, SameAgent
  <2>3. ASSUME NEW c \in Creds, WriteKey(c) PROVE file'.agent = file.agent
    BY <2>3, <2>a, WrittenFile
  <2>4. QED BY <2>1, <2>2, <2>3, FileWriters
<1>2. QED BY <1>1, Invariant, PTL DEF IdentitySpec, IdentityKept

-----------------------------------------------------------------------------
(* Where the keys are, when the holder does not write while a process starts *)

\* Nobody has used the key.
Unseen(c) ==
    /\ \A d \in Creds : creds[d].from # c
    /\ \A r \in Connections : calls[r].op \in {"rotate", "revoke"} => calls[r].cred # c

\* A process that starts has the key of the file, until it gets a new one.
ProcessTraced ==
    /\ (runtime.pc \in {"validate", "register", "await"} /\ runtime.cred # NULL) =>
          file # NoFile /\ runtime.cred = file.cred
    /\ runtime.pc = "save" =>
          (file # NoFile /\ runtime.cred = file.cred) \/ Unseen(runtime.cred)

\* A key on its way to the process is nobody else's.
AnswerTraced ==
    answer.cred # NULL => Unseen(answer.cred) /\ answer.cred # file.cred

\* A key on its way to the holder is nobody else's.
IssuedTraced ==
    \A c \in issued :
        Unseen(c) /\ c # file.cred /\ c # runtime.cred /\ c # answer.cred

\* What the key in the file was rotated to has not arrived.
FollowersTraced ==
    \A d \in Creds :
        (creds[d].from # NULL /\ d \notin issued \cup lost) => creds[d].from # file.cred

KeysTraced == ProcessTraced /\ AnswerTraced /\ IssuedTraced /\ FollowersTraced

\* A key that nobody has yet.
LEMMA FreshUnseen ==
    ASSUME ServerInv, NEW c \in Creds, ~Used(c)
    PROVE  Unseen(c) /\ creds[c].from = NULL
<1>1. c # NULL BY NullAssumption
<1>2. QED BY <1>1 DEF ServerInv, RowsOK, PresentedOK, Unseen

\* A key that is not in the file stays unused: only the holder uses keys, and
\* takes them from the file.
LEMMA UnseenKept ==
    ASSUME IInv, [IdentityNext]_allVars, NEW c \in Creds, Unseen(c), c # file.cred
    PROVE  Unseen(c)'
<1>a. ServerInv /\ LocalInv BY DEF IInv
<1>b. c # NULL BY NullAssumption
<1>c. Idle.op = "idle" BY DEF Idle
<1>1. ASSUME creds' = creds, calls' = calls PROVE Unseen(c)' BY <1>1 DEF Unseen
<1>2. ASSUME NEW r \in Connections, calls' = [calls EXCEPT ![r] = Idle],
             \A d \in Creds : creds'[d].from # c
      PROVE  Unseen(c)'
  <2>1. calls'[r] = Idle /\ \A q \in Connections \ {r} : calls'[q] = calls[q]
    BY <1>a, <1>2, CallEnds DEF ServerInv
  <2>2. QED BY <1>2, <1>c, <2>1 DEF Unseen
<1>3. ASSUME NEW r \in Connections, NEW a \in Agents, CreateAgent(r, a) PROVE Unseen(c)'
  <2>1. calls[r] \in CallRow BY <1>a DEF ServerInv, ServerType
  <2>2. /\ calls' = [calls EXCEPT ![r] = [op |-> "register", agent |-> a, cred |-> NULL]]
        /\ creds' = creds
    BY <1>3 DEF CreateAgent
  <2>3. QED BY <1>a, <2>2 DEF Unseen, ServerInv, ServerType
<1>4. ASSUME NEW r \in Connections, NEW d \in Creds, Issue(r, d) PROVE Unseen(c)'
  <2>1. \A e \in Creds : creds'[e].from # c
    BY <1>a, <1>b, <1>4, IssuedRow DEF ServerInv, Unseen
  <2>2. QED BY <1>2, <1>4, <2>1 DEF Issue
<1>5. ASSUME NEW r \in Connections, NEW op \in {"rotate", "revoke"}, Ask(r, op)
      PROVE  Unseen(c)'
  <2>1. file.cred \in Creds BY <1>a, <1>5 DEF Ask, LocalInv, KeysMatch, KeyOf
  <2>2. /\ calls'[r].cred = file.cred
        /\ \A q \in Connections \ {r} : calls'[q] = calls[q]
    BY <1>a, <1>5, <2>1, AuthenticateInv DEF Ask
  <2>3. creds' = creds BY <1>5 DEF Ask, Authenticate
  <2>4. QED BY <2>2, <2>3 DEF Unseen
<1>6. ASSUME NEW r \in Connections, NEW d \in Creds, Rotate(r, d) PROVE Unseen(c)'
  <2>1. calls[r].cred # c BY <1>6 DEF Rotate, Unseen
  <2>2. CASE Active(calls[r].cred)
    <3>1. \A e \in Creds : creds'[e].from # c
      BY <1>a, <1>6, <2>1, <2>2, RotatedRows DEF ServerInv, Unseen
    <3>2. QED BY <1>2, <1>6, <3>1 DEF Rotate
  <2>3. CASE ~Active(calls[r].cred)
    BY <1>2, <1>6, <2>3 DEF Rotate, Unseen
  <2>4. QED BY <2>2, <2>3
<1>7. ASSUME NEW r \in Connections, RevokeCurrent(r) PROVE Unseen(c)'
  <2>1. CASE Active(calls[r].cred)
    <3>1. \A e \in Creds : creds'[e].from # c
      BY <1>a, <1>7, <2>1, RevokedRow DEF ServerInv, Unseen
    <3>2. QED BY <1>2, <1>7, <3>1 DEF RevokeCurrent
  <2>2. CASE ~Active(calls[r].cred)
    BY <1>2, <1>7, <2>2 DEF RevokeCurrent, Unseen
  <2>3. QED BY <2>1, <2>2
<1>8. ASSUME NEW u \in Updates, NEW a \in Agents, RevokeAgent(u, a) PROVE Unseen(c)'
  <2>1. \A e \in Creds : creds'[e].from = creds[e].from
    BY <1>a, <1>8, RevokedRows DEF ServerInv
  <2>2. QED BY <1>8, <2>1 DEF RevokeAgent, Unseen
<1>9. ASSUME NEW r \in Connections, Abandon(r) PROVE Unseen(c)'
  BY <1>2, <1>9 DEF Abandon, Unseen
<1>10. CASE UNCHANGED allVars BY <1>1, <1>10 DEF allVars, vars
<1>11. CASE RuntimeStep
  <2>1. ASSUME NEW r \in Connections, NEW a \in Agents, RegisterNew(r, a)
        PROVE  Unseen(c)'
    BY <1>3, <2>1 DEF RegisterNew
  <2>2. QED
    BY <1>1, <1>11, <2>1
    DEF RuntimeStep, Boot, Validate, Reregister, Receive, Save, Announce, Die, vars
<1>12. CASE HolderStep
  BY <1>1, <1>5, <1>12 DEF HolderStep, GiveUp, LoseAnswer, WriteKey, vars
<1>13. CASE ServerStep
  BY <1>3, <1>4, <1>6, <1>7, <1>8, <1>9, <1>13
  DEF ServerStep, IssueNew, HolderRotate, OtherRegisters, HolderRevoke, CutOff,
      OperatorRevokes
<1>14. QED BY <1>10, <1>11, <1>12, <1>13 DEF IdentityNext

\* Steps that write no key anywhere and make none.
LEMMA TracedStays ==
    ASSUME IInv, KeysTraced, [IdentityNext]_allVars, file' = file,
           answer'.cred \in {answer.cred, NULL},
           runtime'.cred = runtime.cred \/ (runtime'.cred = NULL /\ runtime'.pc # "save"),
           runtime'.pc \in {"validate", "register", "await"} =>
              runtime.pc \in {"validate", "register", "await"} \/ runtime'.cred = NULL,
           runtime'.pc = "save" => runtime.pc = "save",
           issued' \subseteq issued, issued \cup lost \subseteq issued' \cup lost',
           \A d \in Creds : creds'[d].from = creds[d].from
    PROVE  KeysTraced'
<1>a. LocalInv /\ LocalType BY DEF IInv, LocalInv
<1>b. NULL \notin Creds BY NullAssumption
<1>1. ProcessTraced'
  <2>1. ASSUME runtime'.pc = "save", ~(file # NoFile /\ runtime.cred = file.cred)
        PROVE  Unseen(runtime.cred)'
    <3>1. runtime'.cred = runtime.cred /\ runtime.pc = "save" BY <2>1
    <3>2. runtime.cred \in Creds
      BY <3>1, <1>a DEF LocalInv, AnswerOK, KeysMatch, KeyOf
    <3>3. Unseen(runtime.cred) BY <2>1, <3>1 DEF KeysTraced, ProcessTraced
    <3>4. runtime.cred # file.cred BY <2>1, <3>2, <1>b, Constants
    <3>5. PICK c \in Creds : Unseen(c) /\ c # file.cred /\ runtime'.cred = c
      BY <3>1, <3>2, <3>3, <3>4
    <3>6. Unseen(c)' BY <3>5, UnseenKept
    <3>7. QED BY <3>5, <3>6 DEF Unseen
  <2>2. QED BY <2>1 DEF KeysTraced, ProcessTraced
<1>2. AnswerTraced'
  <2> SUFFICES ASSUME answer'.cred # NULL
      PROVE  Unseen(answer.cred)' /\ answer'.cred # file'.cred
    BY DEF AnswerTraced
  <2>1. PICK c \in Creds : Unseen(c) /\ c # file.cred /\ answer'.cred = c
    BY <1>a DEF KeysTraced, AnswerTraced, LocalInv, KeysMatch, KeyOf
  <2>2. Unseen(c)' BY <2>1, UnseenKept
  <2>3. QED BY <2>1, <2>2 DEF Unseen
<1>3. IssuedTraced'
  <2> SUFFICES ASSUME NEW c \in issued'
      PROVE  Unseen(c)' /\ c # file'.cred /\ c # runtime'.cred /\ c # answer'.cred
    BY DEF IssuedTraced
  <2>1. c \in Creds /\ c \in issued BY <1>a DEF LocalType
  <2>2. Unseen(c) /\ c # file.cred /\ c # runtime.cred /\ c # answer.cred
    BY <2>1 DEF KeysTraced, IssuedTraced
  <2>3. Unseen(c)' BY <2>1, <2>2, UnseenKept
  <2>4. QED BY <2>1, <2>2, <2>3, <1>b
<1>4. FollowersTraced' BY DEF KeysTraced, FollowersTraced
<1>5. QED BY <1>1, <1>2, <1>3, <1>4 DEF KeysTraced

\* Those that leave the process and its answer alone, too.
LEMMA TracedQuiet ==
    ASSUME IInv, KeysTraced, [IdentityNext]_allVars,
           UNCHANGED <<file, runtime, answer>>,
           issued' \subseteq issued, issued \cup lost \subseteq issued' \cup lost',
           \A d \in Creds : creds'[d].from = creds[d].from
    PROVE  KeysTraced'
<1>1. /\ runtime'.cred = runtime.cred /\ runtime'.pc = runtime.pc
      /\ answer'.cred = answer.cred /\ file' = file
  OBVIOUS
<1>2. QED BY <1>1, TracedStays

\* A start takes the key of the file, or none.
LEMMA BootTraced ==
    ASSUME IInv, KeysTraced, NEW base \in Bases, Boot(base)
    PROVE  KeysTraced'
<1>1. /\ runtime' = IF file # NoFile /\ file.base = base
                    THEN [pc |-> "validate", base |-> base, agent |-> file.agent,
                          cred |-> file.cred, conn |-> NULL]
                    ELSE [Down EXCEPT !.pc = "register", !.base = base]
      /\ UNCHANGED <<creds, calls, file, answer, issued, lost>>
  BY DEF Boot, vars
<1>2. \/ file # NoFile /\ runtime'.pc = "validate" /\ runtime'.cred = file.cred
      \/ runtime'.pc = "register" /\ runtime'.cred = NULL
  BY <1>1, Constants DEF Down
<1>3. issued \subseteq Creds /\ NULL \notin Creds
  BY NullAssumption DEF IInv, LocalInv, LocalType
<1>4. ProcessTraced' BY <1>1, <1>2 DEF ProcessTraced
<1>5. AnswerTraced' /\ FollowersTraced'
  BY <1>1 DEF KeysTraced, AnswerTraced, FollowersTraced, Unseen
<1>6. IssuedTraced' BY <1>1, <1>2, <1>3 DEF KeysTraced, IssuedTraced, Unseen
<1>7. QED BY <1>4, <1>5, <1>6 DEF KeysTraced

\* A new key on its way: nobody has it.
LEMMA IssueNewTraced ==
    ASSUME IInv, KeysTraced, NEW r \in Connections, NEW c \in Creds, IssueNew(r, c)
    PROVE  KeysTraced'
<1>a. ServerInv /\ LocalInv BY DEF IInv
<1>b. [IdentityNext]_allVars BY DEF IdentityNext, ServerStep
<1>1. ~Used(c) BY DEF IssueNew, Issue, Unused, Used
<1>2. Unseen(c) /\ creds[c].from = NULL BY <1>a, <1>1, FreshUnseen
<1>3. \A d \in Creds : creds'[d].from = creds[d].from
  BY <1>a, <1>2, IssuedRow DEF IssueNew, ServerInv
<1>4. UNCHANGED <<file, issued, lost>> BY DEF IssueNew
<1>5. CASE runtime.conn # r
  <2>1. UNCHANGED <<answer, runtime>> BY <1>5 DEF IssueNew
  <2>2. QED BY <1>b, <1>3, <1>4, <2>1, TracedQuiet
<1>6. CASE runtime.conn = r
  <2>0. /\ answer' = [agent |-> calls[r].agent, cred |-> c]
        /\ runtime' = [runtime EXCEPT !.conn = NULL]
    BY <1>6 DEF IssueNew
  <2>1. /\ answer'.cred = c /\ runtime'.pc = runtime.pc /\ runtime'.cred = runtime.cred
    BY <1>a, <2>0, ProcessFields DEF LocalInv, LocalType
  <2>2. runtime.pc = "await" BY <1>6, ConnectionsAssumption, <1>a DEF LocalInv, AnswerOK
  <2>3. c # NULL /\ NULL \notin Creds BY NullAssumption
  <2>4. c # file.cred
    BY <1>a, <1>1, <2>3, Constants DEF LocalInv, KeysMatch, KeyOf
  <2>5. Unseen(c)' BY <1>b, <1>2, <2>4, UnseenKept
  <2>6. ProcessTraced' BY <1>4, <2>1, <2>2 DEF KeysTraced, ProcessTraced
  <2>7. AnswerTraced' BY <1>4, <2>1, <2>4, <2>5 DEF AnswerTraced, Unseen
  <2>8. IssuedTraced'
    <3> SUFFICES ASSUME NEW d \in issued
        PROVE  Unseen(d)' /\ d # file.cred /\ d # runtime.cred /\ d # c
      BY <1>4, <2>1 DEF IssuedTraced
    <3>1. d \in Creds /\ Used(d) BY <1>a DEF LocalInv, LocalType, KeysMatch
    <3>2. Unseen(d) /\ d # file.cred /\ d # runtime.cred BY DEF KeysTraced, IssuedTraced
    <3>3. Unseen(d)' BY <1>b, <3>1, <3>2, UnseenKept
    <3>4. QED BY <1>1, <3>1, <3>2, <3>3
  <2>9. FollowersTraced' BY <1>3, <1>4 DEF KeysTraced, FollowersTraced
  <2>10. QED BY <2>6, <2>7, <2>8, <2>9 DEF KeysTraced
<1>7. QED BY <1>5, <1>6

\* The process takes the key of its answer.
LEMMA ReceiveTraced ==
    ASSUME IInv, KeysTraced, Receive
    PROVE  KeysTraced'
<1>a. LocalInv BY DEF IInv
<1>b. [IdentityNext]_allVars BY DEF IdentityNext, RuntimeStep
<1>1. /\ answer' = NoAnswer /\ UNCHANGED <<creds, calls, file, issued, lost>>
      /\ runtime.pc = "await"
  BY DEF Receive, vars
<1>2. issued \subseteq Creds /\ NULL \notin Creds
  BY <1>a, NullAssumption DEF LocalInv, LocalType
<1>3. CASE ChangesIdentity
  <2>1. runtime' = Down BY <1>3 DEF Receive
  <2>2. QED BY <1>b, <1>1, <2>1, TracedStays, Constants
<1>4. CASE ~ChangesIdentity
  <2>1. /\ runtime'.pc = "save"
        /\ IF runtime.cred = NULL
           THEN runtime'.cred = answer.cred /\ answer.cred # NULL
           ELSE runtime'.cred = runtime.cred
    BY <1>4, <1>a, Received
  <2>2. ProcessTraced'
    BY <1>1, <2>1 DEF KeysTraced, ProcessTraced, AnswerTraced, Unseen
  <2>3. AnswerTraced' /\ FollowersTraced'
    BY <1>1, Constants DEF KeysTraced, AnswerTraced, FollowersTraced
  <2>4. IssuedTraced'
    BY <1>1, <1>2, <2>1, Constants DEF KeysTraced, IssuedTraced, Unseen
  <2>5. QED BY <2>2, <2>3, <2>4 DEF KeysTraced
<1>5. QED BY <1>3, <1>4

\* The process writes its key: the one in the file, or one nobody has.
LEMMA SaveTraced ==
    ASSUME IInv, KeysTraced, Save
    PROVE  KeysTraced'
<1>a. LocalInv BY DEF IInv
<1>1. /\ file'.cred = runtime.cred /\ runtime.cred # NULL /\ answer = NoAnswer
      /\ file' \in StateFile
  BY <1>a, SavedFile
<1>2. /\ runtime'.pc = "announce" /\ runtime'.cred = runtime.cred
      /\ UNCHANGED <<creds, calls, answer, issued, lost>> /\ runtime.pc = "save"
  BY <1>a, ProcessFields DEF Save, LocalInv, LocalType, vars
<1>3. ProcessTraced' BY <1>2 DEF ProcessTraced
<1>4. AnswerTraced' BY <1>1, <1>2, Constants DEF AnswerTraced
<1>5. IssuedTraced' BY <1>1, <1>2 DEF KeysTraced, IssuedTraced, Unseen
<1>6. FollowersTraced'
  BY <1>1, <1>2 DEF KeysTraced, ProcessTraced, FollowersTraced, Unseen
<1>7. QED BY <1>3, <1>4, <1>5, <1>6 DEF KeysTraced

\* The holder writes a key that had been on its way, while no process starts.
LEMMA WriteKeyTraced ==
    ASSUME WritesAtStart = FALSE, IInv, KeysTraced, NEW c \in Creds, WriteKey(c)
    PROVE  KeysTraced'
<1>a. LocalInv /\ ServerInv BY DEF IInv
<1>1. /\ c \in issued /\ issued' = issued \ {c} /\ runtime.pc \in {"down", "running"}
      /\ UNCHANGED <<creds, calls, runtime, answer, lost>>
  BY DEF WriteKey, vars
<1>2. file'.cred = c BY <1>a, WrittenFile
<1>3. Unseen(c) /\ c # answer.cred /\ c # runtime.cred
  BY <1>1 DEF KeysTraced, IssuedTraced
<1>4. ProcessTraced' BY <1>1 DEF ProcessTraced
<1>5. AnswerTraced' BY <1>1, <1>2, <1>3 DEF KeysTraced, AnswerTraced, Unseen
<1>6. IssuedTraced' BY <1>1, <1>2 DEF KeysTraced, IssuedTraced, Unseen
<1>7. FollowersTraced' BY <1>1, <1>2, <1>3 DEF FollowersTraced, KeysTraced, Unseen
<1>8. QED BY <1>4, <1>5, <1>6, <1>7 DEF KeysTraced

\* The new key of a rotation goes to the holder or is lost with the answer.
LEMMA RotationTraced ==
    ASSUME IInv, KeysTraced, NEW r \in Connections, NEW new \in Creds,
           HolderRotate(r, new)
    PROVE  KeysTraced'
<1>a. ServerInv /\ LocalInv BY DEF IInv
<1>b. [IdentityNext]_allVars BY DEF IdentityNext, ServerStep
<1>1. UNCHANGED <<file, runtime, answer>> BY DEF HolderRotate
<1>2. CASE ~Active(calls[r].cred)
  <2>1. creds' = creds /\ issued' = issued /\ lost' = lost
    BY <1>2 DEF HolderRotate, Rotate
  <2>2. QED BY <1>b, <1>1, <2>1, TracedQuiet
<1>3. CASE Active(calls[r].cred)
  <2>1. /\ issued' \cup lost' = issued \cup lost \cup {new}
        /\ issued \subseteq issued' /\ issued' \subseteq issued \cup {new}
    BY <1>3 DEF HolderRotate
  <2>2. ~Used(new) BY <1>3 DEF HolderRotate, Rotate, Unused, Used
  <2>3. Unseen(new) BY <1>a, <2>2, FreshUnseen
  <2>4. NULL \notin Creds BY NullAssumption
  <2>5. new # file.cred /\ new # runtime.cred /\ new # answer.cred
    BY <1>a, <2>2, <2>4, Constants DEF LocalInv, KeysMatch, KeyOf
  <2>6. \A d \in Creds \ {new} : creds'[d].from = creds[d].from
    BY <1>a, <1>3, RotatedRows DEF HolderRotate, ServerInv
  <2>7. ASSUME NEW c \in Creds, Unseen(c), c # file.cred PROVE Unseen(c)'
    BY <1>b, <2>7, UnseenKept
  <2>8. ProcessTraced'
    <3>1. ASSUME runtime.pc = "save", ~(file # NoFile /\ runtime.cred = file.cred)
          PROVE  Unseen(runtime.cred)'
      <4>1. runtime.cred \in Creds
        BY <1>a, <3>1 DEF LocalInv, AnswerOK, KeysMatch, KeyOf
      <4>2. Unseen(runtime.cred) BY <3>1 DEF KeysTraced, ProcessTraced
      <4>3. PICK c \in Creds : Unseen(c) /\ c # file.cred /\ runtime'.cred = c
        BY <1>1, <2>4, <3>1, <4>1, <4>2, Constants
      <4>4. Unseen(c)' BY <2>7, <4>3
      <4>5. QED BY <4>3, <4>4 DEF Unseen
    <3>2. QED BY <1>1, <3>1 DEF KeysTraced, ProcessTraced
  <2>9. AnswerTraced'
    <3> SUFFICES ASSUME answer'.cred # NULL
        PROVE  Unseen(answer.cred)' /\ answer'.cred # file'.cred
      BY DEF AnswerTraced
    <3>1. PICK c \in Creds : Unseen(c) /\ c # file.cred /\ answer'.cred = c
      BY <1>1, <1>a DEF KeysTraced, AnswerTraced, LocalInv, KeysMatch, KeyOf
    <3>2. Unseen(c)' BY <2>7, <3>1
    <3>3. QED BY <1>1, <3>1, <3>2 DEF Unseen
  <2>10. IssuedTraced'
    <3> SUFFICES ASSUME NEW c \in issued'
        PROVE  Unseen(c)' /\ c # file'.cred /\ c # runtime'.cred /\ c # answer'.cred
      BY DEF IssuedTraced
    <3>1. CASE c = new
      <4>1. Unseen(new)' BY <2>3, <2>5, <2>7
      <4>2. QED BY <1>1, <2>5, <3>1, <4>1 DEF Unseen
    <3>2. CASE c # new
      <4>1. c \in issued /\ c \in Creds BY <1>a, <2>1, <3>2 DEF LocalInv, LocalType
      <4>2. Unseen(c) /\ c # file.cred /\ c # runtime.cred /\ c # answer.cred
        BY <4>1 DEF KeysTraced, IssuedTraced
      <4>3. Unseen(c)' BY <2>7, <4>1, <4>2
      <4>4. QED BY <1>1, <4>2, <4>3
    <3>3. QED BY <3>1, <3>2
  <2>11. FollowersTraced' BY <1>1, <2>1, <2>6 DEF KeysTraced, FollowersTraced
  <2>12. QED BY <2>8, <2>9, <2>10, <2>11 DEF KeysTraced
<1>4. QED BY <1>2, <1>3

\* The other steps of a start.
LEMMA RuntimeTraced ==
    ASSUME IInv, KeysTraced, RuntimeStep
    PROVE  KeysTraced'
<1>a. runtime \in RuntimeRow BY DEF IInv, LocalInv, LocalType
<1>b. [IdentityNext]_allVars BY DEF IdentityNext
<1>1. CASE Validate \/ Announce
  <2>1. /\ runtime'.cred = runtime.cred
        /\ runtime'.pc \in {"register", "running"}
        /\ runtime'.pc = "register" => runtime.pc = "validate"
        /\ UNCHANGED <<creds, file, answer, issued, lost>>
    <3>1. PICK p \in {"register", "running"} :
            /\ runtime' = [runtime EXCEPT !.pc = p]
            /\ p = "register" => runtime.pc = "validate"
      BY <1>1 DEF Validate, Announce
    <3>2. runtime'.pc = p /\ runtime'.cred = runtime.cred
      BY <1>a, <3>1, ProcessFields
    <3>3. UNCHANGED <<creds, file, answer, issued, lost>>
      BY <1>1 DEF Validate, Announce, vars
    <3>4. QED BY <3>1, <3>2, <3>3
  <2>2. QED BY <1>b, <2>1, TracedStays
<1>2. CASE Reregister
  <2>1. /\ runtime'.cred = runtime.cred /\ runtime'.pc = "await" /\ answer'.cred = NULL
        /\ runtime.pc = "register" /\ UNCHANGED <<creds, file, issued, lost>>
    BY <1>2, <1>a, ProcessFields DEF Reregister, vars
  <2>2. QED BY <1>b, <2>1, TracedStays
<1>3. ASSUME NEW r \in Connections, NEW a \in Agents, RegisterNew(r, a)
      PROVE  KeysTraced'
  <2>1. /\ runtime'.cred = runtime.cred /\ runtime'.pc = "await"
        /\ runtime.pc = "register" /\ UNCHANGED <<creds, file, answer, issued, lost>>
    BY <1>3, <1>a, ProcessFields DEF RegisterNew, CreateAgent
  <2>2. QED BY <1>b, <2>1, TracedStays
<1>4. CASE Die
  <2>1. /\ runtime' = Down /\ answer' = NoAnswer
        /\ UNCHANGED <<creds, file, issued, lost>>
    BY <1>4 DEF Die, vars
  <2>2. QED BY <1>b, <2>1, TracedStays, Constants
<1>5. QED
  BY <1>1, <1>2, <1>3, <1>4, BootTraced, ReceiveTraced, SaveTraced DEF RuntimeStep

\* The steps of the holder.
LEMMA HolderTraced ==
    ASSUME WritesAtStart = FALSE, IInv, KeysTraced, HolderStep
    PROVE  KeysTraced'
<1>b. [IdentityNext]_allVars BY DEF IdentityNext
<1>1. ASSUME NEW r \in Connections, NEW op \in {"rotate", "revoke"}, Ask(r, op)
      PROVE  KeysTraced'
  BY <1>b, <1>1, TracedQuiet DEF Ask, Authenticate
<1>2. ASSUME NEW r \in Connections, GiveUp(r) PROVE KeysTraced'
  BY <1>b, <1>2, TracedQuiet DEF GiveUp, vars
<1>3. ASSUME NEW c \in Creds, LoseAnswer(c) PROVE KeysTraced'
  <2>1. /\ UNCHANGED <<creds, file, runtime, answer>>
        /\ issued' \subseteq issued /\ issued \cup lost \subseteq issued' \cup lost'
    BY <1>3 DEF LoseAnswer, vars
  <2>2. QED BY <1>b, <2>1, TracedQuiet
<1>4. QED BY <1>1, <1>2, <1>3, WriteKeyTraced DEF HolderStep

\* The steps of the server.
LEMMA ServerTraced ==
    ASSUME IInv, KeysTraced, ServerStep
    PROVE  KeysTraced'
<1>a. ServerInv BY DEF IInv
<1>b. [IdentityNext]_allVars BY DEF IdentityNext
<1>1. ASSUME NEW r \in Connections, NEW a \in Agents, OtherRegisters(r, a)
      PROVE  KeysTraced'
  BY <1>b, <1>1, TracedQuiet DEF OtherRegisters, CreateAgent, localVars
<1>2. ASSUME NEW r \in Connections, HolderRevoke(r) PROVE KeysTraced'
  <2>1. UNCHANGED <<file, runtime, answer, issued, lost>> BY <1>2 DEF HolderRevoke
  <2>2. \A d \in Creds : creds'[d].from = creds[d].from
    <3>1. CASE Active(calls[r].cred)
      BY <1>2, <1>a, <3>1, RevokedRow DEF HolderRevoke, ServerInv
    <3>2. CASE ~Active(calls[r].cred) BY <1>2, <3>2 DEF HolderRevoke, RevokeCurrent
    <3>3. QED BY <3>1, <3>2
  <2>3. QED BY <1>b, <2>1, <2>2, TracedQuiet
<1>3. ASSUME NEW r \in Connections, CutOff(r) PROVE KeysTraced'
  <2>1. /\ UNCHANGED <<creds, file, answer, issued, lost>>
        /\ runtime' = runtime \/ runtime' = Down
    BY <1>3 DEF CutOff, Abandon
  <2>2. CASE runtime' = runtime BY <1>b, <2>1, <2>2, TracedQuiet
  <2>3. CASE runtime' = Down
    <3>1. answer'.cred = answer.cred BY <2>1
    <3>2. QED BY <1>b, <2>1, <2>3, <3>1, TracedStays, Constants
  <2>4. QED BY <2>1, <2>2, <2>3
<1>4. ASSUME NEW u \in Updates, NEW a \in Agents, OperatorRevokes(u, a)
      PROVE  KeysTraced'
  <2>1. \A d \in Creds : creds'[d].from = creds[d].from
    BY <1>4, <1>a, RevokedRows DEF OperatorRevokes, ServerInv
  <2>2. UNCHANGED <<file, runtime, answer, issued, lost>>
    BY <1>4 DEF OperatorRevokes, localVars
  <2>3. QED BY <1>b, <2>1, <2>2, TracedQuiet
<1>5. QED BY <1>1, <1>2, <1>3, <1>4, IssueNewTraced, RotationTraced DEF ServerStep

LEMMA InitTraced == IdentityInit => KeysTraced
<1> SUFFICES ASSUME IdentityInit PROVE KeysTraced
  OBVIOUS
<1>1. /\ runtime = Down /\ answer = NoAnswer /\ issued = {}
      /\ \A c \in Creds : creds[c] = NoCred
  BY DEF IdentityInit, Init
<1>2. QED
  BY <1>1, Constants
  DEF NoCred, KeysTraced, ProcessTraced, AnswerTraced, IssuedTraced, FollowersTraced

\* Behind a file whose key does not work is a revocation or a rotation whose new
\* key has not arrived.
LEMMA LockOut == IInv /\ KeysTraced => OnlyLossLocksOut
<1> SUFFICES ASSUME IInv, KeysTraced, file # NoFile, ~Active(file.cred)
    PROVE  \/ <<file.agent, NULL, "revoked_all">> \in audit
           \/ <<file.agent, file.cred, "revoked">> \in audit
           \/ /\ <<file.agent, file.cred, "rotated">> \in audit
              /\ \E d \in issued \cup lost : creds[d].from = file.cred
  BY DEF OnlyLossLocksOut
<1>1. /\ file.cred \in Creds /\ Used(file.cred) /\ creds[file.cred].agent = file.agent
  BY DEF IInv, LocalInv, KeysMatch, KeyOf
<1>2. creds[file.cred].status = "revoked"
  BY <1>1 DEF IInv, ServerInv, ServerType, CredRow, Used, Active
<1>3. file.cred # NULL BY <1>1, NullAssumption
<1>4. \A d \in Creds : creds[d].from = file.cred => d \in issued \cup lost
  BY <1>3 DEF KeysTraced, FollowersTraced
<1>5. QED BY <1>1, <1>2, <1>4 DEF IInv, ServerInv, Audited

\* As long as the holder does not write while a process starts, an agent whose
\* file holds a key that does not work was revoked, or the new key is on its way
\* or lost (the warning of the README about rotations).
THEOREM LockedOutByLoss ==
    ASSUME WritesAtStart = FALSE
    PROVE  IdentitySpec => []OnlyLossLocksOut
<1>1. IdentityInit => IInv /\ KeysTraced BY InitInv, InitTraced
<1>2. IInv /\ KeysTraced /\ [IdentityNext]_allVars => (IInv /\ KeysTraced)'
  <2> SUFFICES ASSUME IInv, KeysTraced, [IdentityNext]_allVars PROVE KeysTraced'
    BY StepInv
  <2>1. CASE UNCHANGED allVars
    BY <2>1, TracedQuiet DEF allVars, vars, localVars
  <2>2. CASE IdentityNext
    BY <2>2, RuntimeTraced, HolderTraced, ServerTraced DEF IdentityNext
  <2>3. QED BY <2>1, <2>2
<1>3. QED BY <1>1, <1>2, LockOut, PTL DEF IdentitySpec
=============================================================================
