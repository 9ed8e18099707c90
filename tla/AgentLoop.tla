------------------------------ MODULE AgentLoop ------------------------------
(***************************************************************************)
(* The loop of the agent runtime, internal/agent/agent.go: answer what is  *)
(* in the inbox, verify one result, take one task, and over again; any     *)
(* error ends the iteration and the next one starts after a pause.         *)
(*                                                                         *)
(* One agent is modelled and the others are its environment.  Every call   *)
(* of the platform may fail before or after it took effect.  Leases,       *)
(* attempts and backoffs are those of TaskLifecycle; here a lease may end  *)
(* and a job may come back at any time.                                    *)
(***************************************************************************)
EXTENDS Naturals, Sequences, FiniteSets

CONSTANTS
    Tasks,          \* the tasks, a set of numbers in the order of creation
    Kinds,          \* what the tasks may be to the agent
    DeclaresTools,  \* the agent was started with -tools
    PageLimit,      \* tasks the server lists at a time
    MaxAnswers,     \* bound: answers of the operator
    MaxMishaps,     \* bound: restarts of the agent and leases that end
    NULL

\* "own" it created the task; "match" it may claim the task; "reviewer" it sees
\* the task by a reviewer's grant; "archived" the task's project is archived;
\* "othertool" the task requires a tool the agent does not have.
AllKinds == {"own", "match", "reviewer", "archived", "othertool"}

ASSUME TasksAssumption == Tasks \subseteq Nat /\ IsFiniteSet(Tasks)
ASSUME NullAssumption == NULL \notin Tasks /\ NULL \notin {"me", "other"}
ASSUME KindsAssumption == Kinds \subseteq AllKinds /\ DeclaresTools \in BOOLEAN
ASSUME BoundsAssumption ==
    PageLimit \in Nat \ {0} /\ MaxAnswers \in Nat /\ MaxMishaps \in Nat

VARIABLES
    kind,     \* what each task is to the agent
    status,   \* status of each task
    owner,    \* whose claim it is: "me", "other" or NULL
    due,      \* own tasks whose verification job the server would hand out
    sent,     \* answers of the operator in the inbox table
    pc,       \* where the loop is
    cursor,   \* the client's position in its inbox
    pendingOperatorAnswers,
    handled,  \* answers this process gave to OnOperatorAnswer, in order
    page,     \* tasks of the listing not looked at yet
    current,  \* the task at hand, to verify or to work on
    mishaps

vars == <<kind, status, owner, due, sent, pc, cursor, pendingOperatorAnswers, handled,
          page, current, mishaps>>
board == <<status, owner, due>>
inbox == <<cursor, pendingOperatorAnswers, handled>>

Init ==
    /\ kind \in [Tasks -> Kinds]
    /\ status = [t \in Tasks |-> "OPEN"]
    /\ owner = [t \in Tasks |-> NULL]
    /\ due = {}
    /\ sent = 0
    /\ pc = "inbox"
    /\ cursor = 0
    /\ pendingOperatorAnswers = <<>>
    /\ handled = <<>>
    /\ page = {}
    /\ current = NULL
    /\ mishaps = 0

-----------------------------------------------------------------------------
(* The platform, as the loop sees it *)

SetTask(t, newStatus, newOwner) ==
    /\ status' = [status EXCEPT ![t] = newStatus]
    /\ owner' = [owner EXCEPT ![t] = newOwner]

\* The server filters by tools only when the client names some.
Listed(t) == status[t] = "OPEN" /\ (kind[t] = "othertool" => ~DeclaresTools)

\* The first page, oldest first; the client asks for no other.
FirstPage ==
    {t \in Tasks : Listed(t) /\ Cardinality({u \in Tasks : Listed(u) /\ u < t}) < PageLimit}

Denied(t) == kind[t] \in {"reviewer", "othertool"}
Conflict(t) == kind[t] = "archived" \/ (~Denied(t) /\ status[t] # "OPEN")

ClaimableJobs == {t \in due : kind[t] = "own" /\ status[t] = "SUBMITTED"}

-----------------------------------------------------------------------------
(* One iteration: handleInbox, then takeOneTask *)

\* Client.Inbox
Poll ==
    /\ pc = "inbox"
    /\ pendingOperatorAnswers' =
          pendingOperatorAnswers \o [i \in 1 .. sent - cursor |-> cursor + i]
    /\ cursor' = sent
    /\ pc' = "answers"
    /\ UNCHANGED <<kind, board, sent, handled, page, current, mishaps>>

\* OnOperatorAnswer succeeds; only then the answer leaves the queue.
Answer ==
    /\ pc = "answers" /\ pendingOperatorAnswers # <<>>
    /\ handled' = Append(handled, Head(pendingOperatorAnswers))
    /\ pendingOperatorAnswers' = Tail(pendingOperatorAnswers)
    /\ UNCHANGED <<kind, board, sent, pc, cursor, page, current, mishaps>>

AnswersDone ==
    /\ pc = "answers" /\ pendingOperatorAnswers = <<>>
    /\ pc' = "queue"
    /\ UNCHANGED <<kind, board, sent, inbox, page, current, mishaps>>

ClaimVerification ==
    /\ pc = "queue"
    /\ \/ \E t \in ClaimableJobs :
             /\ due' = due \ {t}
             /\ current' = t
             /\ pc' = "verify"
       \/ /\ ClaimableJobs = {}
          /\ pc' = "list"
          /\ UNCHANGED <<due, current>>
    /\ UNCHANGED <<kind, status, owner, sent, inbox, page, mishaps>>

\* VerifyTask with a verdict; an inconclusive one leaves the task submitted.
VerifyTask ==
    /\ pc = "verify"
    /\ status' \in {status, [status EXCEPT ![current] = "DECIDED"]}
    /\ current' = NULL
    /\ pc' = "list"
    /\ UNCHANGED <<kind, owner, due, sent, inbox, page, mishaps>>

ListTasks ==
    /\ pc = "list"
    /\ page' = FirstPage
    /\ pc' = "claim"
    /\ UNCHANGED <<kind, board, sent, inbox, current, mishaps>>

First(S) == CHOOSE t \in S : \A u \in S : t <= u

\* Mutant: a conflict ends the iteration, as every other error does.
SkipOwnOnly ==
    /\ pc = "claim" /\ page # {}
    /\ kind[First(page)] = "own"
    /\ page' = page \ {First(page)}
    /\ UNCHANGED <<kind, board, sent, pc, inbox, current, mishaps>>

\* Its own tasks and those somebody else got first are passed over.
Skip ==
    /\ pc = "claim" /\ page # {}
    /\ LET t == First(page)
       IN  kind[t] = "own" \/ Conflict(t)
    /\ page' = page \ {First(page)}
    /\ UNCHANGED <<kind, board, sent, pc, inbox, current, mishaps>>

ClaimTask ==
    /\ pc = "claim" /\ page # {}
    /\ LET t == First(page)
       IN  /\ kind[t] = "match" /\ status[t] = "OPEN"
           /\ SetTask(t, "CLAIMED", "me")
           /\ current' = t
    /\ page' = {}
    /\ pc' = "work"
    /\ UNCHANGED <<kind, due, sent, inbox, mishaps>>

NothingToClaim ==
    /\ pc = "claim" /\ page = {}
    /\ pc' = "inbox"
    /\ UNCHANGED <<kind, board, sent, inbox, page, current, mishaps>>

\* Brain.Work returns and no heartbeat has failed meanwhile.
Work ==
    /\ pc = "work"
    /\ pc' = "send"
    /\ UNCHANGED <<kind, board, sent, inbox, page, current, mishaps>>

SendResult ==
    /\ pc = "send"
    /\ owner[current] = "me"
    /\ SetTask(current, "SUBMITTED", NULL)
    /\ current' = NULL
    /\ pc' = "inbox"
    /\ UNCHANGED <<kind, due, sent, inbox, page, mishaps>>

EndWith(place) ==
    /\ pc' = place
    /\ page' = {}
    /\ current' = NULL
    /\ UNCHANGED <<kind, sent, mishaps>>

\* Mutant: an answer whose callback fails is dropped.
FailDropping ==
    /\ pc # "pause"
    /\ pc = "answers" => pendingOperatorAnswers # <<>>
    /\ pc = "claim" => page # {} /\ kind[First(page)] # "own"
    /\ pendingOperatorAnswers' =
          IF pc = "answers" THEN Tail(pendingOperatorAnswers) ELSE pendingOperatorAnswers
    /\ EndWith("pause")
    /\ UNCHANGED <<board, cursor, handled>>

\* An error that has changed nothing: a request that did not get through, a
\* callback or a brain that failed, a claim that is denied, a result whose
\* claim is over.
Fail ==
    /\ pc # "pause"
    /\ pc = "answers" => pendingOperatorAnswers # <<>>
    /\ pc = "claim" => page # {} /\ kind[First(page)] # "own"
    /\ EndWith("pause")
    /\ UNCHANGED <<board, inbox>>

\* An error after the platform has done what was asked: the response is lost.
FailAfter ==
    /\ \/ /\ pc = "queue"
          /\ \E t \in ClaimableJobs : due' = due \ {t}
          /\ UNCHANGED <<status, owner>>
       \/ /\ pc = "verify"
          /\ status' = [status EXCEPT ![current] = "DECIDED"]
          /\ UNCHANGED <<owner, due>>
       \/ /\ pc = "claim" /\ page # {}
          /\ LET t == First(page)
             IN  kind[t] = "match" /\ status[t] = "OPEN" /\ SetTask(t, "CLAIMED", "me")
          /\ UNCHANGED due
       \/ /\ pc = "send" /\ owner[current] = "me"
          /\ SetTask(current, "SUBMITTED", NULL)
          /\ UNCHANGED due
    /\ EndWith("pause")
    /\ UNCHANGED inbox

Resume ==
    /\ pc = "pause"
    /\ pc' = "inbox"
    /\ UNCHANGED <<kind, board, sent, inbox, page, current, mishaps>>

\* Mutant: the cursor outlives the process and the answers in memory do not.
RestartKeepingCursor ==
    /\ mishaps < MaxMishaps
    /\ mishaps' = mishaps + 1
    /\ pc' = "inbox"
    /\ page' = {}
    /\ current' = NULL
    /\ pendingOperatorAnswers' = <<>>
    /\ handled' = <<>>
    /\ UNCHANGED <<kind, board, sent, cursor>>

\* The process starts again with the same credential: the cursor was in memory.
Restart ==
    /\ mishaps < MaxMishaps
    /\ mishaps' = mishaps + 1
    /\ pc' = "inbox"
    /\ page' = {}
    /\ current' = NULL
    /\ cursor' = 0
    /\ pendingOperatorAnswers' = <<>>
    /\ handled' = <<>>
    /\ UNCHANGED <<kind, board, sent>>

-----------------------------------------------------------------------------
(* The environment *)

OperatorAnswers ==
    /\ sent < MaxAnswers
    /\ sent' = sent + 1
    /\ UNCHANGED <<kind, board, pc, inbox, page, current, mishaps>>

OtherClaims(t) ==
    /\ status[t] = "OPEN"
    /\ SetTask(t, "CLAIMED", "other")
    /\ UNCHANGED <<kind, due, sent, pc, inbox, page, current, mishaps>>

OtherSubmits(t) ==
    /\ owner[t] = "other"
    /\ SetTask(t, "SUBMITTED", NULL)
    /\ due' = due \cup {t}
    /\ UNCHANGED <<kind, sent, pc, inbox, page, current, mishaps>>

LeaseEnds(t) ==
    /\ owner[t] # NULL
    /\ mishaps < MaxMishaps
    /\ mishaps' = mishaps + 1
    /\ SetTask(t, "OPEN", NULL)
    /\ UNCHANGED <<kind, due, sent, pc, inbox, page, current>>

\* The lease of an attempt and its backoff are over, and the task has no
\* project, or one that is active and lets the agent in.
JobComesBack(t) ==
    /\ kind[t] = "own" /\ status[t] = "SUBMITTED" /\ t \notin due /\ current # t
    /\ due' = due \cup {t}
    /\ UNCHANGED <<kind, status, owner, sent, pc, inbox, page, current, mishaps>>

\* The project of the task is archived, or the agent has left it.
JobWithheld(t) ==
    /\ t \in due
    /\ due' = due \ {t}
    /\ UNCHANGED <<kind, status, owner, sent, pc, inbox, page, current, mishaps>>

Environment ==
    \/ OperatorAnswers
    \/ \E t \in Tasks :
          \/ OtherClaims(t) \/ OtherSubmits(t) \/ LeaseEnds(t)
          \/ JobComesBack(t) \/ JobWithheld(t)

Iteration ==
    \/ Poll \/ Answer \/ AnswersDone
    \/ ClaimVerification \/ VerifyTask
    \/ ListTasks \/ Skip \/ ClaimTask \/ NothingToClaim
    \/ Work \/ SendResult

Next == Iteration \/ Fail \/ FailAfter \/ Resume \/ Restart \/ Environment

Spec == Init /\ [][Next]_vars

\* The process runs, and no call of it fails for ever; its work and the results
\* of it may.  Nothing is asked of the other agents, nor that a job comes back.
FairSpec ==
    /\ Spec
    /\ WF_vars(Resume) /\ WF_vars(Iteration \/ Fail)
    /\ SF_vars(Poll) /\ SF_vars(Answer)
    /\ SF_vars(ClaimVerification) /\ SF_vars(VerifyTask)
    /\ SF_vars(ListTasks) /\ SF_vars(Skip) /\ SF_vars(ClaimTask)

-----------------------------------------------------------------------------
(* Properties *)

\* A process gives the operator's answers to the runtime in order, none twice
\* and none left out: what the cursor has passed was handled or waits in
\* pendingOperatorAnswers, through iterations that fail in between.
AnswersInOrder ==
    handled \o pendingOperatorAnswers = [i \in 1 .. cursor |-> i]

\* Every answer reaches the runtime, in whatever process runs in the end.
AnswersArrive == \A i \in 1 .. MaxAnswers : sent >= i ~> Len(handled) >= i

\* The agent declares its tools and reviews no project, and its own tasks and
\* those of archived projects leave room on a page.
RoomOnPage ==
    /\ DeclaresTools
    /\ \A t \in Tasks : kind[t] # "reviewer"
    /\ Cardinality({t \in Tasks : kind[t] \in {"own", "archived"}}) < PageLimit

\* "Match requirements before LIMIT so unrelated work cannot hide later
\* matches" (TaskStore.List): an open task the agent may claim does not stay
\* open for ever, if RoomOnPage.  Without any part of it, it does.
MatchesNotHidden ==
    \A t \in Tasks :
        (RoomOnPage /\ kind[t] = "match" /\ status[t] = "OPEN") ~> status[t] # "OPEN"
=============================================================================
