------------------------------ MODULE TaskBoard ------------------------------
(***************************************************************************)
(* What the task API promises, without clocks, leases, queues or retries:  *)
(* a task is posted, taken and given back any number of times, answered    *)
(* once by the agent holding it in its current turn, and then decided once *)
(* by the agent that posted it, who is never the one that answered.        *)
(* TaskLifecycle implements this specification.                            *)
(***************************************************************************)
EXTENDS Naturals

CONSTANTS Agents, Tasks, Messages, NULL

VARIABLE board

Phases == {"none", "open", "held", "answered", "accepted", "refused"}

Blank == [phase |-> "none", poster |-> NULL, holder |-> NULL, turn |-> 0,
          answer |-> NULL, by |-> NULL, answeredIn |-> 0]

Init == board = [t \in Tasks |-> Blank]

Post(t) ==
    /\ board[t].phase = "none"
    /\ \E a \in Agents :
          board'[t] = [Blank EXCEPT !.phase = "open", !.poster = a]

Take(t) ==
    /\ board[t].phase = "open"
    /\ \E a \in Agents :
          board'[t] = [board[t] EXCEPT !.phase = "held", !.holder = a, !.turn = @ + 1]

GiveBack(t) ==
    /\ board[t].phase = "held"
    /\ board'[t] = [board[t] EXCEPT !.phase = "open", !.holder = NULL]

\* A turn so short that it is over when it is granted.
Lapse(t) ==
    /\ board[t].phase = "open"
    /\ board'[t] = [board[t] EXCEPT !.turn = @ + 1]

Answer(t) ==
    /\ board[t].phase = "held"
    /\ \E m \in Messages :
          /\ \A s \in Tasks : board[s].answer # m
          /\ board'[t] = [board[t] EXCEPT !.phase = "answered", !.answer = m,
                                          !.by = board[t].holder, !.answeredIn = board[t].turn]

Decide(t) ==
    /\ board[t].phase = "answered"
    /\ board[t].by # board[t].poster
    /\ \E outcome \in {"accepted", "refused"} :
          board'[t] = [board[t] EXCEPT !.phase = outcome]

\* One step of the implementation may move several tasks: a read requeues
\* every expired claim.
Step(t) == Post(t) \/ Take(t) \/ GiveBack(t) \/ Lapse(t) \/ Answer(t) \/ Decide(t)

Next ==
    /\ board' = [t \in Tasks |-> board'[t]]
    /\ \A t \in Tasks : board'[t] = board[t] \/ Step(t)

Spec == Init /\ [][Next]_board
==============================================================================
