------------------------------- MODULE Leases -------------------------------
(***************************************************************************)
(* Time: the lease of a claim and of a verification attempt on the server  *)
(* (store/tasks.go, store/verification_queue.go) against the time-outs,    *)
(* the ticker and the deadline of the built-in agent (agent/agent.go,      *)
(* agent/client.go) that is to finish or stop before they end.             *)
(*                                                                         *)
(* One task and one verification job.  Time passes in whole units; a step  *)
(* that is due is taken before time passes, so processes are scheduled and *)
(* clocks run at one rate.  The server handles a call at any moment before *)
(* the client hears of it, with a clock it has read at any moment of the   *)
(* call (a statement may wait for the only database connection), and it    *)
(* stores the end of a lease cut to whole seconds.                         *)
(***************************************************************************)
EXTENDS Integers

CONSTANTS
    Agents,
    Stranger,     \* whoever else claims the task
    TaskLease,    \* what a claim or a heartbeat grants
    AttemptLease, \* what claiming a verification grants
    Timeout,      \* after which the client gives a call up
    Ticker,       \* the period of maintainLease
    Budget,       \* the deadline of verifyJob
    Second        \* what the times in the database are a multiple of

ASSUME StrangerAssumption == Stranger \notin Agents

ASSUME TimesAssumption ==
    /\ TaskLease \in Nat \ {0}
    /\ AttemptLease \in Nat \ {0}
    /\ Timeout \in Nat \ {0}
    /\ Ticker \in Nat \ {0}
    /\ Budget \in Nat \ {0}
    /\ Second \in 1 .. Timeout

\* The slowest answer to a claim, two calls whose failure does not matter, a
\* tick and the time-out of its heartbeat fit into a lease that is not cut.
ASSUME ClaimMargin == (Timeout - 1) + 2 * Timeout + Ticker + Timeout < TaskLease

\* So do the slowest answer to ClaimVerification and the time for the verdict.
ASSUME VerdictMargin == (Timeout - 1) + Budget < AttemptLease

VARIABLES
    open,     \* the task has no accepted result
    holder,   \* whose claim is the last one
    lease,    \* what is left of the last claim each had; how long over, if <= 0
    verifier, \* whose verification attempt is the last one
    attempt,  \* what is left of the last attempt each had; how long over, if <= 0
    agent     \* each agent's process

leaseVars == <<open, holder, lease, verifier, attempt, agent>>

Everyone == Agents \cup {Stranger}

\* The step of the process, the time it has been in it (as long as a call is
\* out or a deadline runs), what the server did with the call, the time to the
\* next tick, a tick not taken yet, and the heartbeat that is out.
Process ==
    [pc: {"idle", "claim", "status", "search", "work", "send", "ask", "verify"},
     age: Nat, done: BOOLEAN, tick: Nat, due: BOOLEAN,
     beat: {"none", "sent", "granted", "refused"}, beatAge: Nat]

Resting ==
    [pc |-> "idle", age |-> 0, done |-> FALSE, tick |-> Ticker, due |-> FALSE,
     beat |-> "none", beatAge |-> 0]

Step(pc) == [Resting EXCEPT !.pc = pc]

LeaseInit ==
    /\ open = TRUE
    /\ holder = Stranger
    /\ lease = [e \in Everyone |-> -Timeout]
    /\ verifier = Stranger
    /\ attempt = [e \in Everyone |-> -Timeout]
    /\ agent = [a \in Agents |-> Resting]

Becomes(a, p) == agent' = [agent EXCEPT ![a] = p]

Goto(a, pc) == Becomes(a, Step(pc))

\* What a lease may last whose end was computed from a clock read lag earlier:
\* the part of its end that is less than a second is cut off.
Granted(length, lag) == {length - lag - part : part \in 0 .. Second - 1}

-----------------------------------------------------------------------------
(* takeOneTask *)

BeginClaim(a) ==
    /\ agent[a].pc = "idle"
    /\ Goto(a, "claim")
    /\ UNCHANGED <<open, holder, lease, verifier, attempt>>

\* Claim takes an open task, or one whose lease is over; lag is the age of the
\* time it computes the new lease from.
Claim(a, lag) ==
    /\ agent[a].pc = "claim"
    /\ ~agent[a].done
    /\ open
    /\ lease[holder] <= 0
    /\ lag \in 0 .. agent[a].age
    /\ holder' = a
    /\ \E left \in Granted(TaskLease, lag) : lease' = [lease EXCEPT ![a] = left]
    /\ Becomes(a, [agent[a] EXCEPT !.done = TRUE])
    /\ UNCHANGED <<open, verifier, attempt>>

Claimed(a) ==
    /\ agent[a].pc = "claim"
    /\ agent[a].done
    /\ agent[a].age < Timeout
    /\ Goto(a, "status")
    /\ UNCHANGED <<open, holder, lease, verifier, attempt>>

\* The status and the search: their failure is ignored, so they only take time.
StatusSent(a) ==
    /\ agent[a].pc = "status"
    /\ Goto(a, "search")
    /\ UNCHANGED <<open, holder, lease, verifier, attempt>>

Searched(a) ==
    /\ agent[a].pc = "search"
    /\ Goto(a, "work")
    /\ UNCHANGED <<open, holder, lease, verifier, attempt>>

\* Brain.Work returns: stopHeartbeat, then sendResult.
Worked(a) ==
    /\ agent[a].pc = "work"
    /\ Goto(a, "send")
    /\ UNCHANGED <<open, holder, lease, verifier, attempt>>

LiveClaim(a) == open /\ holder = a /\ lease[a] > 0

\* The insertion of the RESULT; a late one is refused.
Result(a) ==
    /\ agent[a].pc = "send"
    /\ open' = (open /\ ~LiveClaim(a))
    /\ Goto(a, "idle")
    /\ UNCHANGED <<holder, lease, verifier, attempt>>

\* An error ends the iteration wherever it is not ignored: a refused, failed or
\* timed out call, an error of the brain, the end of verifyCtx, a crash.
EndIteration(a) ==
    /\ agent[a].pc # "idle"
    /\ Goto(a, "idle")
    /\ UNCHANGED <<open, holder, lease, verifier, attempt>>

-----------------------------------------------------------------------------
(* maintainLease *)

\* The ticker keeps one tick that was not taken.
Tick(a) ==
    /\ agent[a].pc = "work"
    /\ agent[a].tick = 0
    /\ Becomes(a, [agent[a] EXCEPT !.tick = Ticker, !.due = TRUE])
    /\ UNCHANGED <<open, holder, lease, verifier, attempt>>

BeginHeartbeat(a) ==
    /\ agent[a].pc = "work"
    /\ agent[a].due
    /\ agent[a].beat = "none"
    /\ Becomes(a, [agent[a] EXCEPT !.due = FALSE, !.beat = "sent", !.beatAge = 0])
    /\ UNCHANGED <<open, holder, lease, verifier, attempt>>

\* The claim is live for a call whose clock was read lag earlier.
LiveAt(a, lag) == open /\ holder = a /\ lease[a] + lag > 0

\* A heartbeat extends a live claim; one that is over may be requeued before.
Heartbeat(a, lag) ==
    /\ agent[a].beat = "sent"
    /\ lag \in 0 .. agent[a].beatAge
    /\ \/ /\ LiveAt(a, lag)
          /\ \E left \in Granted(TaskLease, lag) : lease' = [lease EXCEPT ![a] = left]
          /\ Becomes(a, [agent[a] EXCEPT !.beat = "granted"])
       \/ /\ ~LiveClaim(a)
          /\ Becomes(a, [agent[a] EXCEPT !.beat = "refused"])
          /\ UNCHANGED lease
    /\ UNCHANGED <<open, holder, verifier, attempt>>

\* Mutant: a heartbeat that failed is only logged.
HeartbeatOver(a) ==
    /\ agent[a].beat # "none"
    /\ Becomes(a, [agent[a] EXCEPT !.beat = "none", !.beatAge = 0])
    /\ UNCHANGED <<open, holder, lease, verifier, attempt>>

HeartbeatAnswered(a) ==
    /\ agent[a].beat = "granted"
    /\ agent[a].beatAge < Timeout
    /\ Becomes(a, [agent[a] EXCEPT !.beat = "none", !.beatAge = 0])
    /\ UNCHANGED <<open, holder, lease, verifier, attempt>>

-----------------------------------------------------------------------------
(* handleInbox and verifyJob, under the deadline of verifyCtx *)

BeginClaimVerification(a) ==
    /\ agent[a].pc = "idle"
    /\ Goto(a, "ask")
    /\ UNCHANGED <<open, holder, lease, verifier, attempt>>

\* The next attempt begins when the last one is over.  The backoff, which the
\* operator's retry cuts short, is not modelled.
ClaimAttempt(a, lag) ==
    /\ agent[a].pc = "ask"
    /\ ~agent[a].done
    /\ attempt[verifier] <= 0
    /\ lag \in 0 .. agent[a].age
    /\ verifier' = a
    /\ \E left \in Granted(AttemptLease, lag) : attempt' = [attempt EXCEPT ![a] = left]
    /\ Becomes(a, [agent[a] EXCEPT !.done = TRUE])
    /\ UNCHANGED <<open, holder, lease>>

JobReceived(a) ==
    /\ agent[a].pc = "ask"
    /\ agent[a].done
    /\ agent[a].age < Timeout
    /\ Goto(a, "verify")
    /\ UNCHANGED <<open, holder, lease, verifier, attempt>>

LiveAttempt(a) == verifier = a /\ attempt[a] > 0

\* The verdict is stored, or refused as late; inconclusive, so that the queue
\* goes on.
Verdict(a) ==
    /\ agent[a].pc = "verify"
    /\ attempt' = IF LiveAttempt(a) THEN [attempt EXCEPT ![a] = 0] ELSE attempt
    /\ Goto(a, "idle")
    /\ UNCHANGED <<open, holder, lease, verifier>>

-----------------------------------------------------------------------------
(* The others, and time *)

StrangerClaims ==
    /\ open
    /\ lease[holder] <= 0
    /\ holder' = Stranger
    /\ \E left \in Granted(TaskLease, 0) : lease' = [lease EXCEPT ![Stranger] = left]
    /\ UNCHANGED <<open, verifier, attempt, agent>>

Calls == {"claim", "status", "search", "send", "ask"}

\* Mutant: verifyJob without a deadline.
MayWaitForever(p) ==
    /\ p.pc \in Calls => p.age < Timeout
    /\ p.pc = "work" => /\ p.tick > 0
                        /\ ~(p.due /\ p.beat = "none")
    /\ p.beat # "none" => p.beatAge < Timeout

\* Nothing of this process is due.
MayWait(p) ==
    /\ p.pc \in Calls => p.age < Timeout
    /\ p.pc = "work" => /\ p.tick > 0
                        /\ ~(p.due /\ p.beat = "none")
    /\ p.beat # "none" => p.beatAge < Timeout
    /\ p.pc = "verify" => p.age < Budget

Older(p) ==
    [p EXCEPT !.age = IF p.pc \in Calls \cup {"verify"} THEN @ + 1 ELSE @,
              !.tick = IF p.pc = "work" THEN @ - 1 ELSE @,
              !.beatAge = IF p.beat # "none" THEN @ + 1 ELSE @]

\* What has been over for as long as a call takes has been over for ever.
Shorter(left) == IF left > -Timeout THEN left - 1 ELSE left

Pass ==
    /\ \A a \in Agents : MayWait(agent[a])
    /\ agent' = [a \in Agents |-> Older(agent[a])]
    /\ lease' = [e \in Everyone |-> Shorter(lease[e])]
    /\ attempt' = [e \in Everyone |-> Shorter(attempt[e])]
    /\ UNCHANGED <<open, holder, verifier>>

TaskStep(a) ==
    \/ BeginClaim(a)
    \/ \E lag \in 0 .. Timeout : Claim(a, lag)
    \/ Claimed(a) \/ StatusSent(a) \/ Searched(a) \/ Worked(a) \/ Result(a) \/ EndIteration(a)

Renew(a) ==
    \/ Tick(a) \/ BeginHeartbeat(a) \/ HeartbeatAnswered(a)
    \/ \E lag \in 0 .. Timeout : Heartbeat(a, lag)

Review(a) ==
    \/ BeginClaimVerification(a) \/ JobReceived(a) \/ Verdict(a)
    \/ \E lag \in 0 .. Timeout : ClaimAttempt(a, lag)

LeaseNext ==
    \/ \E a \in Agents : TaskStep(a) \/ Renew(a) \/ Review(a)
    \/ StrangerClaims
    \/ Pass

LeaseSpec == LeaseInit /\ [][LeaseNext]_leaseVars

-----------------------------------------------------------------------------
(* Properties *)

\* The last one ended less than a second ago.
JustEnded(left) == -Second < left /\ left <= 0

\* A process at work on the task, from the answer to its claim to the end of
\* Brain.Work, holds the live claim or has lost it less than a second ago: it is
\* stopped before anybody else has had the task for a second (maintainLease, and
\* the calls before its first heartbeat).  The stored end of a claim is cut to
\* whole seconds and the times leave no more than that.  The RESULT it then
\* sends may come late, when a slow heartbeat was out as the work ended.
WorkersStopWithTheClaim ==
    \A a \in Agents :
        agent[a].pc \in {"status", "search", "work"} => LiveClaim(a) \/ JustEnded(lease[a])

\* A verdict is given while the attempt it is given for lives, or less than a
\* second later, when it is refused: the four minutes of verifyJob and a slow
\* answer to ClaimVerification take up the five minutes of the attempt.
VerifiersStopWithTheAttempt ==
    \A a \in Agents :
        agent[a].pc = "verify" => LiveAttempt(a) \/ JustEnded(attempt[a])
=============================================================================
