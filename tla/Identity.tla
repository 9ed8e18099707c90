------------------------------ MODULE Identity ------------------------------
(***************************************************************************)
(* The identity of a built-in agent across restarts: its state file        *)
(* (agent/state.go), the steps of Bootstrap and Register (agent/agent.go,  *)
(* agent/client.go) against the credentials of the server, and the holder  *)
(* of the file, who rotates or revokes the key in it by hand (README, key  *)
(* management).  Requests outlive the process that sent them; processes    *)
(* die and answers are lost between any two steps.                         *)
(***************************************************************************)
EXTENDS Credentials

CONSTANTS
    Bases,        \* base URLs under which the platform is reached
    WritesAtStart \* may the holder replace the file while an agent starts up?

ASSUME WritesAssumption == WritesAtStart \in BOOLEAN
ASSUME ConnectionsAssumption == NULL \notin Connections

VARIABLES
    file,    \* the state file
    runtime, \* the process: its step, its client's memory, its connection
    answer,  \* the answer to its registration, on its way
    asked,   \* connections whose answer the holder waits for
    issued,  \* new keys on their way to the holder, or not written yet
    lost     \* keys whose only answer got lost

localVars == <<file, runtime, answer, asked, issued, lost>>
allVars == <<vars, localVars>>

NoFile == [base |-> NULL, agent |-> NULL, cred |-> NULL]
Down == [pc |-> "down", base |-> NULL, agent |-> NULL, cred |-> NULL, conn |-> NULL]
NoAnswer == [agent |-> NULL, cred |-> NULL]

IdentityInit ==
    /\ Init
    /\ file = NoFile
    /\ runtime = Down
    /\ answer = NoAnswer
    /\ asked = {}
    /\ issued = {}
    /\ lost = {}

-----------------------------------------------------------------------------
(* Bootstrap *)

\* LoadState; state stored for another base URL is not used.
Boot(base) ==
    /\ runtime = Down
    /\ runtime' = IF file # NoFile /\ file.base = base
                  THEN [pc |-> "validate", base |-> base, agent |-> file.agent,
                        cred |-> file.cred, conn |-> NULL]
                  ELSE [Down EXCEPT !.pc = "register", !.base = base]
    /\ UNCHANGED <<vars, file, answer, asked, issued, lost>>

\* The request that checks a saved key; without success the start fails (Die).
Validate ==
    /\ runtime.pc = "validate"
    /\ Active(runtime.cred)
    /\ runtime' = [runtime EXCEPT !.pc = "register"]
    /\ UNCHANGED <<vars, file, answer, asked, issued, lost>>

Presents(c) == c # NULL /\ Active(c)

\* POST /agents/register with a working key: the profile is updated, the answer
\* names the agent and no key.
Reregister ==
    /\ runtime.pc = "register"
    /\ Presents(runtime.cred)
    /\ runtime' = [runtime EXCEPT !.pc = "await"]
    /\ answer' = [agent |-> creds[runtime.cred].agent, cred |-> NULL]
    /\ UNCHANGED <<vars, file, asked, issued, lost>>

\* Without one, which may have stopped working since it was validated, the
\* server creates an agent.
RegisterNew(r, a) ==
    /\ runtime.pc = "register"
    /\ ~Presents(runtime.cred)
    /\ CreateAgent(r, a)
    /\ runtime' = [runtime EXCEPT !.pc = "await", !.conn = r]
    /\ UNCHANGED <<file, answer, asked, issued, lost>>

\* The key of a new agent goes to who registered it, if it still waits.
IssueNew(r, c) ==
    /\ Issue(r, c)
    /\ \/ /\ runtime.conn = r
          /\ answer' = [agent |-> calls[r].agent, cred |-> c]
          /\ runtime' = [runtime EXCEPT !.conn = NULL]
       \/ /\ runtime.conn # r
          /\ UNCHANGED <<answer, runtime>>
    /\ UNCHANGED <<file, asked, issued, lost>>

\* What Client.Register refuses: a saved key and an answer with another.
ChangesIdentity ==
    runtime.cred # NULL /\ (answer.cred # NULL \/ answer.agent # runtime.agent)

\* Mutant: the answer is taken as it is.
ReceiveAnything ==
    /\ runtime.pc = "await"
    /\ answer # NoAnswer
    /\ runtime' = [runtime EXCEPT !.pc = "save", !.agent = answer.agent,
          !.cred = IF answer.cred # NULL THEN answer.cred ELSE @]
    /\ answer' = NoAnswer
    /\ UNCHANGED <<vars, file, asked, issued, lost>>

Receive ==
    /\ runtime.pc = "await"
    /\ answer # NoAnswer
    /\ runtime' = IF ChangesIdentity THEN Down
                  ELSE [runtime EXCEPT !.pc = "save", !.agent = answer.agent,
                          !.cred = IF answer.cred # NULL THEN answer.cred ELSE @]
    /\ answer' = NoAnswer
    /\ UNCHANGED <<vars, file, asked, issued, lost>>

\* SaveState: the whole file or nothing, by the rename.
Save ==
    /\ runtime.pc = "save"
    /\ file' = [base |-> runtime.base, agent |-> runtime.agent, cred |-> runtime.cred]
    /\ runtime' = [runtime EXCEPT !.pc = "announce"]
    /\ UNCHANGED <<vars, answer, asked, issued, lost>>

\* The first STATUS; it needs the key.
Announce ==
    /\ runtime.pc = "announce"
    /\ Active(runtime.cred)
    /\ runtime' = [runtime EXCEPT !.pc = "running"]
    /\ UNCHANGED <<vars, file, answer, asked, issued, lost>>

\* Any error of Bootstrap, a signal, a crash.  What the process sent goes on.
Die ==
    /\ runtime # Down
    /\ runtime' = Down
    /\ answer' = NoAnswer
    /\ UNCHANGED <<vars, file, asked, issued, lost>>

-----------------------------------------------------------------------------
(* The holder of the file.  It replaces the key in the file before it goes on *)
(* with the new one, and asks again when it gets no answer.                   *)

Ask(r, op) ==
    /\ file # NoFile
    /\ issued = {}
    /\ Authenticate(r, file.cred, op)
    /\ asked' = asked \cup {r}
    /\ UNCHANGED <<file, runtime, answer, issued, lost>>

HolderRotate(r, new) ==
    /\ Rotate(r, new)
    /\ LET committed == Active(calls[r].cred)
       IN  /\ issued' = IF committed /\ r \in asked THEN issued \cup {new} ELSE issued
           /\ lost' = IF committed /\ r \notin asked THEN lost \cup {new} ELSE lost
    /\ asked' = asked \ {r}
    /\ UNCHANGED <<file, runtime, answer>>

HolderRevoke(r) ==
    /\ RevokeCurrent(r)
    /\ asked' = asked \ {r}
    /\ UNCHANGED <<file, runtime, answer, issued, lost>>

\* The holder's client times out; the server does not know.
GiveUp(r) ==
    /\ r \in asked
    /\ asked' = asked \ {r}
    /\ UNCHANGED <<vars, file, runtime, answer, issued, lost>>

LoseAnswer(c) ==
    /\ c \in issued
    /\ lost' = lost \cup {c}
    /\ issued' = issued \ {c}
    /\ UNCHANGED <<vars, file, runtime, answer, asked>>

WriteKey(c) ==
    /\ c \in issued
    /\ creds[c].agent = file.agent
    /\ WritesAtStart \/ runtime.pc \in {"down", "running"}
    /\ file' = [file EXCEPT !.cred = c]
    /\ issued' = issued \ {c}
    /\ UNCHANGED <<vars, runtime, answer, asked, lost>>

-----------------------------------------------------------------------------
(* Others *)

\* Another agent registers, or a registration arrives whose process has died.
OtherRegisters(r, a) ==
    /\ CreateAgent(r, a)
    /\ UNCHANGED localVars

\* A request is cut off: its client learns of the error.
CutOff(r) ==
    /\ Abandon(r)
    /\ runtime' = IF runtime.conn = r THEN Down ELSE runtime
    /\ asked' = asked \ {r}
    /\ UNCHANGED <<file, answer, issued, lost>>

OperatorRevokes(u, a) ==
    /\ RevokeAgent(u, a)
    /\ UNCHANGED localVars

RuntimeStep ==
    \/ \E base \in Bases : Boot(base)
    \/ Validate \/ Reregister
    \/ \E r \in Connections, a \in Agents : RegisterNew(r, a)
    \/ Receive \/ Save \/ Announce \/ Die

HolderStep ==
    \/ \E r \in Connections, op \in {"rotate", "revoke"} : Ask(r, op)
    \/ \E r \in Connections : GiveUp(r)
    \/ \E c \in Creds : LoseAnswer(c) \/ WriteKey(c)

ServerStep ==
    \/ \E r \in Connections, c \in Creds : IssueNew(r, c) \/ HolderRotate(r, c)
    \/ \E r \in Connections, a \in Agents : OtherRegisters(r, a)
    \/ \E r \in Connections : HolderRevoke(r) \/ CutOff(r)
    \/ \E u \in Updates, a \in Agents : OperatorRevokes(u, a)

IdentityNext == RuntimeStep \/ HolderStep \/ ServerStep

IdentitySpec == IdentityInit /\ [][IdentityNext]_allVars

-----------------------------------------------------------------------------
(* Properties *)

\* "A restarted process must come back as the same agent" (agent_test.go), and
\* the client "refuses to change identity automatically when a key is revoked"
\* (README): once an agent is in the file, it stays there whatever happens to
\* its key and whenever the process dies.  Only a start under another base URL
\* registers anew and replaces it (Bootstrap, "registering fresh").
IdentityKept ==
    [][file # NoFile => (file'.agent = file.agent \/ file'.base # file.base)]_allVars

\* The agent is locked out, its file holding a key that does not work, only
\* with a trace in the audit table: the operator or the holder revoked the key,
\* or it was rotated and the new key is still on its way to the holder or was
\* lost with the answer, the case the README warns of.
OnlyLossLocksOut ==
    (file # NoFile /\ ~Active(file.cred)) =>
        \/ <<file.agent, NULL, "revoked_all">> \in audit
        \/ <<file.agent, file.cred, "revoked">> \in audit
        \/ /\ <<file.agent, file.cred, "rotated">> \in audit
           /\ \E d \in issued \cup lost : creds[d].from = file.cred
=============================================================================
