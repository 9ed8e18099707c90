--------------------------- MODULE TaskLifecycle ---------------------------
(***************************************************************************)
(* The life of a task in internal/store: tasks.go, the RESULT path of      *)
(* messages.go, verification_queue.go and verification_operator.go, with   *)
(* the alert loop of httpapi/verification_alerts.go and the start-up       *)
(* backfill of db/db.go.                                                   *)
(*                                                                         *)
(* The server has one SQLite connection (db.go, SetMaxOpenConns(1)), so a  *)
(* statement or a transaction is one atomic step, and requests interleave  *)
(* between them.  Three operations read time.Now() first and then wait for *)
(* the connection; they are split in a Begin action that takes the reading *)
(* and a Finish action that runs the statement with it.                    *)
(*                                                                         *)
(* Time.  The code only compares stored times with readings of the clock,  *)
(* so times are kept relative to the present: a stored time x stands for   *)
(* the instant x - Now from now, and Tick ages every stored time by one.   *)
(* A time that is MaxLag or more in the past is kept as 0, which is also   *)
(* the empty string or NULL of a column: both compare as "long ago".       *)
(***************************************************************************)
EXTENDS Integers, Sequences, FiniteSets

CONSTANTS
    Agents, Tasks, Messages,  \* agent ids, task rows, message ids
    Keys,                     \* idempotency keys
    InProject,                \* the tasks that belong to a project
    UpdateIds,                \* Telegram update ids
    Tokens,                   \* alert tokens
    NULL,                     \* SQL NULL, or no value
    TaskLease, VerificationLease, AlertLease,  \* in minutes
    MaxAttempts,              \* maxVerificationAttempts, 5 in the code
    MaxLag,                   \* bound: oldest clock reading told apart
    MaxClaims,                \* bound: claims issued for one task
    MaxCalls                  \* bound: requests between reading and statement

ASSUME NullAssumption ==
    NULL \notin Agents \cup Tasks \cup Messages \cup Keys \cup Tokens

ASSUME TimeAssumption ==
    /\ TaskLease \in Nat \ {0}
    /\ VerificationLease \in Nat \ {0}
    /\ AlertLease \in Nat \ {0}
    /\ MaxLag \in Nat

ASSUME AttemptsAssumption == MaxAttempts \in 1..5

ASSUME InProjectAssumption == InProject \subseteq Tasks

ASSUME UpdateIdsAssumption == IsFiniteSet(UpdateIds)

VARIABLES
    tasks,          \* table tasks, by task id
    claims,         \* claims issued so far per task; a claim_id is an index
    messages,       \* table messages, by message id
    jobs,           \* table verification_jobs, by task id
    attempts,       \* attempt_ids issued so far per task, 1, 2, ...
    verifications,  \* table verifications
    alerts,         \* table verification_alerts, by task id
    retries,        \* table verification_retries, by update id
    calls,          \* requests that have read the clock and not yet written
    sending,        \* the alert loop between its claim and its mark
    delivered,      \* history: alerts Telegram accepted, as <<task, round>>
    barred          \* tasks whose project is archived, or closed to their creator

vars == <<tasks, claims, messages, jobs, attempts, verifications, alerts,
          retries, calls, sending, delivered, barred>>

taskVars == <<tasks, claims>>
jobVars == <<jobs, attempts, verifications>>
alertVars == <<alerts, retries, sending, delivered>>

-----------------------------------------------------------------------------
Now == MaxLag
NoTime == 0
NoId == 0        \* the NULL claim_id and the empty attempt_id

Statuses == {"NONE", "OPEN", "CLAIMED", "SUBMITTED", "COMPLETED", "FAILED"}
Verdicts == {"verified", "rejected", "inconclusive"}

TaskRow ==
    [status: Statuses, createdBy: Agents \cup {NULL}, key: Keys \cup {NULL},
     owner: Agents \cup {NULL}, claim: Nat, lease: Nat,
     submitted: Messages \cup {NULL}]
MessageRow ==
    [type: {"NONE", "RESULT", "OTHER"}, sender: Agents \cup {NULL},
     task: Tasks \cup {NULL}, claim: Nat]
JobRow ==
    [message: Messages \cup {NULL}, attempts: 0..MaxAttempts, next: Nat,
     attempt: Nat, lease: Nat, done: BOOLEAN]
AlertRow == [sent: BOOLEAN, lease: Nat, token: Tokens \cup {NULL}]
VerificationRow ==
    [task: Tasks, verifier: Agents, target: Messages, verdict: Verdicts,
     attempt: Nat]
Call ==
    [op: {"claim", "heartbeat"}, agent: Agents, task: Tasks, claim: Nat, now: 0..Now]
      \cup
    [op: {"claimVerification"}, agent: Agents, task: {NULL}, claim: {NoId}, now: 0..Now]
Sending == [task: Tasks \cup {NULL}, token: Tokens \cup {NULL}, accepted: BOOLEAN]

NoTask == [status |-> "NONE", createdBy |-> NULL, key |-> NULL, owner |-> NULL,
           claim |-> NoId, lease |-> NoTime, submitted |-> NULL]
NoMessage == [type |-> "NONE", sender |-> NULL, task |-> NULL, claim |-> NoId]
NoJob == [message |-> NULL, attempts |-> 0, next |-> NoTime, attempt |-> NoId,
          lease |-> NoTime, done |-> FALSE]
NewAlert == [sent |-> FALSE, lease |-> NoTime, token |-> NULL]
NotSending == [task |-> NULL, token |-> NULL, accepted |-> FALSE]

Init ==
    /\ tasks = [t \in Tasks |-> NoTask]
    /\ claims = [t \in Tasks |-> <<>>]
    /\ messages = [m \in Messages |-> NoMessage]
    /\ jobs = [t \in Tasks |-> NoJob]
    /\ attempts = [t \in Tasks |-> 0]
    /\ verifications = {}
    /\ alerts = [t \in Tasks |-> NewAlert]
    /\ retries = [u \in UpdateIds |-> NULL]
    /\ calls = {}
    /\ sending = NotSending
    /\ delivered = {}
    /\ barred = {}

-----------------------------------------------------------------------------
(* Helpers *)

\* 1, 2, 4, 8, 16 minutes: 1 << (attempts-1), clamped to 1..MaxAttempts.
VerificationBackoff(n) ==
    <<1, 2, 4, 8, 16>>[IF n < 1 THEN 1 ELSE IF n > MaxAttempts THEN MaxAttempts ELSE n]

\* Mutant: requeues by lease alone, so that answers are thrown away too.
RequeuedWhateverStatus(rows, now) ==
    [t \in Tasks |->
        IF rows[t].status \in {"CLAIMED", "SUBMITTED"} /\ rows[t].lease <= now
        THEN [rows[t] EXCEPT !.status = "OPEN", !.owner = NULL, !.claim = NoId,
                             !.lease = NoTime, !.submitted = NULL]
        ELSE rows[t]]

\* Mutant: requeues only the claims without an id.
RequeuedLegacyOnly(rows, now) ==
    [t \in Tasks |->
        IF rows[t].status = "CLAIMED" /\ rows[t].claim = NoId
        THEN [rows[t] EXCEPT !.status = "OPEN", !.owner = NULL, !.claim = NoId,
                             !.lease = NoTime, !.submitted = NULL]
        ELSE rows[t]]

\* requeueExpiredAt: claims without an id or past their lease become OPEN.
Requeued(rows, now) ==
    [t \in Tasks |->
        IF /\ rows[t].status = "CLAIMED"
           /\ rows[t].claim = NoId \/ rows[t].lease <= now
        THEN [rows[t] EXCEPT !.status = "OPEN", !.owner = NULL, !.claim = NoId,
                             !.lease = NoTime, !.submitted = NULL]
        ELSE rows[t]]

\* Mutant: waits for one attempt more than there are.
ExhaustedTooLate(t, now) ==
    /\ jobs[t].message # NULL
    /\ ~jobs[t].done
    /\ jobs[t].attempts > MaxAttempts
    /\ jobs[t].lease <= now
    /\ tasks[t].status = "SUBMITTED"
    /\ tasks[t].submitted = jobs[t].message

\* The predicate exhaustedVerification of verification_operator.go.
Exhausted(t, now) ==
    /\ jobs[t].message # NULL
    /\ ~jobs[t].done
    /\ jobs[t].attempts >= MaxAttempts
    /\ jobs[t].lease <= now
    /\ tasks[t].status = "SUBMITTED"
    /\ tasks[t].submitted = jobs[t].message

\* How many times the operator has restarted the verification of t.
Round(t) == Cardinality({u \in UpdateIds : retries[u] = t})

Begin(op, a, t, n) ==
    /\ Cardinality(calls) < MaxCalls
    /\ calls' = calls \cup
          {[op |-> op, agent |-> a, task |-> t, claim |-> n, now |-> Now]}

-----------------------------------------------------------------------------
(* tasks.go *)

\* Every read (Get, List) starts by requeueing what has expired.
RequeueExpired ==
    /\ tasks' = Requeued(tasks, Now)
    /\ UNCHANGED <<claims, messages, jobVars, alertVars, calls, barred>>

\* Mutant: inserts without looking the idempotency key up.
CreateBlindly(a, k) ==
    /\ \E t \in Tasks :
          /\ tasks[t].status = "NONE"
          /\ tasks' = Requeued([tasks EXCEPT ![t] =
                [NoTask EXCEPT !.status = "OPEN", !.createdBy = a, !.key = k]], Now)
    /\ UNCHANGED <<claims, messages, jobVars, alertVars, calls, barred>>

Create(a, k) ==
    LET existing == {t \in Tasks : /\ tasks[t].createdBy = a
                                   /\ tasks[t].key = k
                                   /\ k # NULL}
    IN  /\ \/ /\ existing # {}
              /\ tasks' = Requeued(tasks, Now)
           \/ /\ existing = {}
              /\ \E t \in Tasks :
                   /\ tasks[t].status = "NONE"
                   /\ tasks' = Requeued([tasks EXCEPT ![t] =
                        [NoTask EXCEPT !.status = "OPEN", !.createdBy = a, !.key = k]], Now)
        /\ UNCHANGED <<claims, messages, jobVars, alertVars, calls, barred>>

\* MaxClaims counts the claims issued and the requests that may issue one.
BeginClaim(a, t) ==
    /\ tasks[t].status # "NONE"
    /\ Len(claims[t]) + Cardinality({c \in calls : c.op = "claim" /\ c.task = t})
          < MaxClaims
    /\ tasks' = Requeued(tasks, Now)
    /\ Begin("claim", a, t, NoId)
    /\ UNCHANGED <<claims, messages, jobVars, alertVars, barred>>

\* The compare-and-swap from OPEN, then the read that builds the response.
FinishClaim(c) ==
    LET t == c.task
    IN  /\ c.op = "claim"
        /\ calls' = calls \ {c}
        /\ \/ /\ tasks[t].status = "OPEN"
              /\ claims' = [claims EXCEPT ![t] = Append(@, c.agent)]
              /\ tasks' = Requeued([tasks EXCEPT ![t] =
                    [@ EXCEPT !.status = "CLAIMED", !.owner = c.agent,
                              !.claim = Len(claims[t]) + 1,
                              !.lease = c.now + TaskLease, !.submitted = NULL]], Now)
           \/ /\ tasks[t].status # "OPEN"
              /\ tasks' = Requeued(tasks, Now)
              /\ UNCHANGED claims
        /\ UNCHANGED <<messages, jobVars, alertVars, barred>>

BeginHeartbeat(a, t, n) ==
    /\ n \in 1..Len(claims[t])
    /\ tasks' = Requeued(tasks, Now)
    /\ Begin("heartbeat", a, t, n)
    /\ UNCHANGED <<claims, messages, jobVars, alertVars, barred>>

\* Mutant: knows the worker, not the claim.
LiveClaimOfOwner(t, a, n, now) ==
    /\ tasks[t].status = "CLAIMED"
    /\ tasks[t].owner = a
    /\ tasks[t].lease > now

LiveClaim(t, a, n, now) ==
    /\ tasks[t].status = "CLAIMED"
    /\ tasks[t].owner = a
    /\ tasks[t].claim = n
    /\ tasks[t].lease > now

FinishHeartbeat(c) ==
    LET t == c.task
    IN  /\ c.op = "heartbeat"
        /\ calls' = calls \ {c}
        /\ \/ /\ LiveClaim(t, c.agent, c.claim, c.now)
              /\ tasks' = Requeued([tasks EXCEPT ![t].lease = c.now + TaskLease], Now)
           \/ /\ ~LiveClaim(t, c.agent, c.claim, c.now)
              /\ UNCHANGED tasks
        /\ UNCHANGED <<claims, messages, jobVars, alertVars, barred>>

-----------------------------------------------------------------------------
(* messages.go, Insert.  A replay of a stored message id changes nothing,  *)
(* and a RESULT without a live matching claim is rolled back: neither is a *)
(* step.                                                                   *)

\* Mutant: commits the message although the claim is not live.
InsertResultUnfenced(a, recipient, m, t, n) ==
    /\ messages[m].type = "NONE"
    /\ tasks[t].createdBy = recipient
    /\ messages' = [messages EXCEPT ![m] =
          [type |-> "RESULT", sender |-> a, task |-> t, claim |-> n]]
    /\ IF LiveClaim(t, a, n, Now) /\ jobs[t].message = NULL
       THEN /\ tasks' = [tasks EXCEPT ![t] =
                 [@ EXCEPT !.status = "SUBMITTED", !.submitted = m, !.lease = NoTime]]
            /\ jobs' = [jobs EXCEPT ![t] = [NoJob EXCEPT !.message = m, !.next = Now]]
       ELSE UNCHANGED <<tasks, jobs>>
    /\ UNCHANGED <<claims, attempts, verifications, alertVars, calls, barred>>

InsertResult(a, recipient, m, t, n) ==
    /\ messages[m].type = "NONE"
    /\ LiveClaim(t, a, n, Now)
    /\ tasks[t].createdBy = recipient
    /\ jobs[t].message = NULL   \* the primary key of verification_jobs
    /\ messages' = [messages EXCEPT ![m] =
          [type |-> "RESULT", sender |-> a, task |-> t, claim |-> n]]
    /\ tasks' = [tasks EXCEPT ![t] =
          [@ EXCEPT !.status = "SUBMITTED", !.submitted = m, !.lease = NoTime]]
    /\ \E received \in 0..Now :   \* read before the transaction got the connection
          jobs' = [jobs EXCEPT ![t] = [NoJob EXCEPT !.message = m, !.next = received]]
    /\ UNCHANGED <<claims, attempts, verifications, alertVars, calls, barred>>

InsertOther(a, m) ==
    /\ messages[m].type = "NONE"
    /\ messages' = [messages EXCEPT ![m] =
          [NoMessage EXCEPT !.type = "OTHER", !.sender = a]]
    /\ UNCHANGED <<taskVars, jobVars, alertVars, calls, barred>>

-----------------------------------------------------------------------------
(* verification_queue.go and Verify *)

BeginClaimVerification(a) ==
    /\ Begin("claimVerification", a, NULL, NoId)
    /\ UNCHANGED <<taskVars, messages, jobVars, alertVars, barred>>

\* Mutant: hands out one attempt too many.
DueOnceMore(t, viewer, now) ==
    /\ jobs[t].message # NULL
    /\ ~jobs[t].done
    /\ jobs[t].attempts <= MaxAttempts
    /\ jobs[t].next <= now
    /\ jobs[t].lease <= now
    /\ tasks[t].status = "SUBMITTED"
    /\ tasks[t].submitted = jobs[t].message
    /\ tasks[t].createdBy = viewer
    /\ tasks[t].owner # viewer
    /\ t \notin barred

\* The SELECT of claimVerificationAt.  Alone of the queue's statements it looks at
\* the project: a task of an archived project, or of a closed one that its
\* creator is no active member of, is passed over.
Due(t, viewer, now) ==
    /\ jobs[t].message # NULL
    /\ ~jobs[t].done
    /\ jobs[t].attempts < MaxAttempts
    /\ jobs[t].next <= now
    /\ jobs[t].lease <= now
    /\ tasks[t].status = "SUBMITTED"
    /\ tasks[t].submitted = jobs[t].message
    /\ tasks[t].createdBy = viewer
    /\ tasks[t].owner # viewer
    /\ t \notin barred

FinishClaimVerification(c) ==
    LET due == {t \in Tasks : Due(t, c.agent, c.now)}
    IN  /\ c.op = "claimVerification"
        /\ calls' = calls \ {c}
        /\ \/ /\ due = {}
              /\ UNCHANGED jobVars
           \/ \E t \in due :
                LET nth == jobs[t].attempts + 1
                    until == c.now + VerificationLease
                IN  /\ \A s \in due : jobs[t].next <= jobs[s].next
                    /\ attempts' = [attempts EXCEPT ![t] = @ + 1]
                    /\ jobs' = [jobs EXCEPT ![t] =
                         [@ EXCEPT !.attempts = nth, !.attempt = attempts[t] + 1,
                                   !.lease = until,
                                   !.next = until + VerificationBackoff(nth)]]
                    /\ UNCHANGED verifications
        /\ UNCHANGED <<taskVars, messages, alertVars, barred>>

\* Mutant: takes any attempt_id while some attempt is leased.
MayFinishAnyAttempt(t, n) ==
    IF n # NoId THEN jobs[t].lease > Now
    ELSE ~(jobs[t].attempt # NoId /\ jobs[t].lease > Now)

\* finishVerificationJob accepts the request: the attempt named is the leased
\* one, or none is named and none is leased.  NoId stands for no attempt_id.
MayFinish(t, n) ==
    IF n # NoId THEN jobs[t].attempt = n /\ jobs[t].lease > Now
    ELSE ~(jobs[t].attempt # NoId /\ jobs[t].lease > Now)

\* Mutant: an inconclusive verdict ends the job as well.
FinishedJobForGood(t, verdict) ==
    IF jobs[t].message = NULL THEN jobs[t]
    ELSE [jobs[t] EXCEPT !.done = TRUE, !.attempt = NoId, !.lease = NoTime,
                         !.next = Now + VerificationBackoff(jobs[t].attempts)]

FinishedJob(t, verdict) ==
    IF jobs[t].message = NULL THEN jobs[t]
    ELSE [jobs[t] EXCEPT !.done = (verdict # "inconclusive"), !.attempt = NoId,
                         !.lease = NoTime,
                         !.next = Now + VerificationBackoff(jobs[t].attempts)]

StatusAfter(verdict) ==
    CASE verdict = "verified" -> "COMPLETED"
      [] verdict = "rejected" -> "FAILED"
      [] OTHER -> "SUBMITTED"

Verify(a, t, m, n, verdict) ==
    /\ tasks[t].status = "SUBMITTED"
    /\ messages[m].type = "RESULT"
    /\ messages[m].task = t
    /\ messages[m].sender # a
    /\ tasks[t].createdBy = a
    /\ tasks[t].submitted = m
    /\ MayFinish(t, n)
    /\ jobs' = [jobs EXCEPT ![t] = FinishedJob(t, verdict)]
    /\ verifications' = verifications \cup
          {[task |-> t, verifier |-> a, target |-> m, verdict |-> verdict,
            attempt |-> n]}
    /\ tasks' = Requeued([tasks EXCEPT ![t].status = StatusAfter(verdict)], Now)
    /\ UNCHANGED <<claims, messages, attempts, alertVars, calls, barred>>

-----------------------------------------------------------------------------
(* verification_operator.go and the alert loop *)

\* Mutant: applies a replayed Telegram update again.
RetryVerificationReplayed(u, t) ==
    /\ Exhausted(t, Now)
    /\ jobs' = [jobs EXCEPT ![t] =
          [@ EXCEPT !.attempts = 0, !.next = Now, !.attempt = NoId, !.lease = NoTime]]
    /\ retries' = [retries EXCEPT ![u] = t]
    /\ alerts' = [alerts EXCEPT ![t] = NewAlert]
    /\ UNCHANGED <<taskVars, messages, attempts, verifications, calls, sending, delivered, barred>>

\* Mutant: leaves the token of the alert in flight.
RetryVerificationKeepingToken(u, t) ==
    /\ retries[u] = NULL
    /\ Exhausted(t, Now)
    /\ jobs' = [jobs EXCEPT ![t] =
          [@ EXCEPT !.attempts = 0, !.next = Now, !.attempt = NoId, !.lease = NoTime]]
    /\ retries' = [retries EXCEPT ![u] = t]
    /\ alerts' = [alerts EXCEPT ![t] = [@ EXCEPT !.sent = FALSE, !.lease = NoTime]]
    /\ UNCHANGED <<taskVars, messages, attempts, verifications, calls, sending, delivered, barred>>

\* The ledger row and the reset commit together; a replay changes nothing.
RetryVerification(u, t) ==
    /\ retries[u] = NULL
    /\ Exhausted(t, Now)
    /\ jobs' = [jobs EXCEPT ![t] =
          [@ EXCEPT !.attempts = 0, !.next = Now, !.attempt = NoId, !.lease = NoTime]]
    /\ retries' = [retries EXCEPT ![u] = t]
    /\ alerts' = [alerts EXCEPT ![t] = NewAlert]
    /\ UNCHANGED <<taskVars, messages, attempts, verifications, calls, sending, delivered, barred>>

ClaimVerificationAlert(t, token) ==
    /\ sending.task = NULL
    /\ token \notin {alerts[s].token : s \in Tasks}
    /\ ~alerts[t].sent
    /\ alerts[t].lease <= Now
    /\ Exhausted(t, Now)
    /\ alerts' = [alerts EXCEPT ![t] =
          [@ EXCEPT !.token = token, !.lease = Now + AlertLease]]
    /\ sending' = [task |-> t, token |-> token, accepted |-> FALSE]
    /\ UNCHANGED <<taskVars, messages, jobVars, retries, calls, delivered, barred>>

\* messenger.Send: Telegram takes the message, or the call fails and the loop
\* leaves the alert to its lease.
SendAccepted ==
    /\ sending.task # NULL
    /\ ~sending.accepted
    /\ sending' = [sending EXCEPT !.accepted = TRUE]
    /\ delivered' = delivered \cup {<<sending.task, Round(sending.task)>>}
    /\ UNCHANGED <<taskVars, messages, jobVars, alerts, retries, calls, barred>>

SendFailed ==
    /\ sending.task # NULL
    /\ ~sending.accepted
    /\ sending' = NotSending
    /\ UNCHANGED <<taskVars, messages, jobVars, alerts, retries, calls, delivered, barred>>

MarkVerificationAlertSent ==
    LET t == sending.task
    IN  /\ sending.accepted
        /\ alerts' = IF alerts[t].token = sending.token
                     THEN [alerts EXCEPT ![t] =
                             [sent |-> TRUE, lease |-> NoTime, token |-> NULL]]
                     ELSE alerts
        /\ sending' = NotSending
        /\ UNCHANGED <<taskVars, messages, jobVars, retries, calls, delivered, barred>>

-----------------------------------------------------------------------------
(* The process stops and starts again: requests and the loop are gone, the *)
(* database stays, and db.Open adds the jobs that submitted tasks lack.    *)
Restart ==
    /\ calls' = {}
    /\ sending' = NotSending
    /\ jobs' = [t \in Tasks |->
          IF /\ tasks[t].status = "SUBMITTED"
             /\ tasks[t].submitted # NULL
             /\ jobs[t].message = NULL
          THEN [NoJob EXCEPT !.message = tasks[t].submitted]
          ELSE jobs[t]]
    /\ UNCHANGED <<taskVars, messages, attempts, verifications, alerts, retries, delivered, barred>>

Aged(x) == IF x = 0 THEN 0 ELSE x - 1

Tick ==
    /\ tasks' = [t \in Tasks |-> [tasks[t] EXCEPT !.lease = Aged(@)]]
    /\ jobs' = [t \in Tasks |->
          [jobs[t] EXCEPT !.lease = Aged(@), !.next = Aged(@)]]
    /\ alerts' = [t \in Tasks |-> [alerts[t] EXCEPT !.lease = Aged(@)]]
    /\ calls' = {[c EXCEPT !.now = Aged(@)] : c \in calls}
    /\ UNCHANGED <<claims, messages, attempts, verifications, retries, sending, delivered, barred>>

-----------------------------------------------------------------------------
(* projects.go and membership.go, as the tasks see them: a project is      *)
(* archived, or the creator of a task leaves it, is removed or comes back. *)
(* The handlers look at the project in statements before those above, so a *)
(* request that was let in may still commit; later ones are not made.      *)
ProjectBars(t) ==
    /\ t \in InProject \ barred
    /\ tasks[t].status # "NONE"
    /\ barred' = barred \cup {t}
    /\ UNCHANGED <<taskVars, messages, jobVars, alertVars, calls>>

CreatorReturns(t) ==
    /\ t \in barred
    /\ barred' = barred \ {t}
    /\ UNCHANGED <<taskVars, messages, jobVars, alertVars, calls>>

TaskStep ==
    \/ RequeueExpired
    \/ \E a \in Agents, k \in Keys \cup {NULL} : Create(a, k)
    \/ \E a \in Agents, t \in Tasks : BeginClaim(a, t)
    \/ \E c \in calls : FinishClaim(c)
    \/ \E a \in Agents, t \in Tasks, n \in 1..MaxClaims : BeginHeartbeat(a, t, n)
    \/ \E c \in calls : FinishHeartbeat(c)

MessageStep ==
    \/ \E a, r \in Agents, m \in Messages, t \in Tasks, n \in 1..MaxClaims :
          InsertResult(a, r, m, t, n)
    \/ \E a \in Agents, m \in Messages : InsertOther(a, m)

VerificationStep ==
    \/ \E a \in Agents : BeginClaimVerification(a)
    \/ \E c \in calls : FinishClaimVerification(c)
    \/ \E a \in Agents, t \in Tasks, m \in Messages, v \in Verdicts :
          \E n \in 0..attempts[t] : Verify(a, t, m, n, v)

OperatorStep ==
    \/ \E u \in UpdateIds, t \in Tasks : RetryVerification(u, t)
    \/ \E t \in Tasks, k \in Tokens : ClaimVerificationAlert(t, k)
    \/ SendAccepted
    \/ SendFailed
    \/ MarkVerificationAlertSent

ProjectStep == \E t \in InProject : ProjectBars(t) \/ CreatorReturns(t)

Next ==
    \/ TaskStep
    \/ MessageStep
    \/ VerificationStep
    \/ OperatorStep
    \/ ProjectStep
    \/ Restart
    \/ Tick

Spec == Init /\ [][Next]_vars
-----------------------------------------------------------------------------
(* Properties *)

\* Every variable stays in its type.
TypeOK ==
    /\ tasks \in [Tasks -> TaskRow]
    /\ claims \in [Tasks -> Seq(Agents)]
    /\ messages \in [Messages -> MessageRow]
    /\ jobs \in [Tasks -> JobRow]
    /\ attempts \in [Tasks -> Nat]
    /\ verifications \subseteq VerificationRow
    /\ alerts \in [Tasks -> AlertRow]
    /\ retries \in [UpdateIds -> Tasks \cup {NULL}]
    /\ calls \subseteq Call
    /\ sending \in Sending
    /\ delivered \subseteq Tasks \X Nat
    /\ barred \subseteq InProject

IsAnswer(status) == status \in {"SUBMITTED", "COMPLETED", "FAILED"}

\* A task that has an accepted result keeps the result of the last claim ever
\* issued for it: the stored message is a RESULT for this task, sent by the
\* claim's owner under that claim_id, and the verification job names it.  A
\* worker whose claim was requeued and taken over can never be the author
\* (tasks.go RequeueExpired and Claim against messages.go Insert).
ResultFromLastClaim ==
    \A t \in Tasks : IsAnswer(tasks[t].status) =>
        LET m == tasks[t].submitted
        IN  /\ m # NULL
            /\ messages[m] = [type |-> "RESULT", sender |-> tasks[t].owner,
                              task |-> t, claim |-> Len(claims[t])]
            /\ claims[t] # <<>>
            /\ tasks[t].owner = claims[t][Len(claims[t])]
            /\ jobs[t].message = m

\* The messages table never holds two RESULTs for one task, whatever workers
\* raced: the losers' rows are rolled back with their transaction
\* (messages.go Insert).
OneResultPerTask ==
    \A m1, m2 \in Messages :
        (/\ messages[m1].type = "RESULT"
         /\ messages[m2].type = "RESULT"
         /\ messages[m1].task = messages[m2].task) => m1 = m2

Decisive(t) == {v \in verifications : v.task = t /\ v.verdict # "inconclusive"}

\* A task is COMPLETED or FAILED exactly when the verifications table holds
\* its verdict, there is one such verdict, and it judges the accepted result,
\* by the creator, who did not write it.  The queue agrees: the job is done
\* (tasks.go Verify with finishVerificationJob).
DecidedByOneVerdict ==
    \A t \in Tasks :
        /\ \A v, w \in Decisive(t) : v = w
        /\ \A v \in Decisive(t) :
              /\ tasks[t].status = StatusAfter(v.verdict)
              /\ v.target = tasks[t].submitted
              /\ v.verifier = tasks[t].createdBy
              /\ v.verifier # tasks[t].owner
        /\ tasks[t].status \in {"COMPLETED", "FAILED"} =>
              Decisive(t) # {} /\ jobs[t].done
        /\ tasks[t].status = "SUBMITTED" => ~jobs[t].done

\* Row r of task t agrees with the other tables.
RowAgrees(r, t) ==
    /\ r.status = "NONE" <=> r.createdBy = NULL
    /\ r.status = "NONE" => claims[t] = <<>>
    /\ r.status \in {"NONE", "OPEN"} => r.owner = NULL
    /\ r.status = "CLAIMED" \/ IsAnswer(r.status) =>
          /\ claims[t] # <<>>
          /\ r.claim = Len(claims[t])
          /\ r.owner = claims[t][Len(claims[t])]
    /\ ~IsAnswer(r.status) =>
          /\ r.submitted = NULL
          /\ jobs[t].message = NULL
          /\ jobs[t].attempts = 0
          /\ \A v \in verifications : v.task # t
    /\ IsAnswer(r.status) =>
          /\ r.submitted \in Messages
          /\ jobs[t].message = r.submitted
          /\ messages[r.submitted] =
                [type |-> "RESULT", sender |-> r.owner, task |-> t, claim |-> r.claim]

\* How the columns of the tables go together, status by status: what each
\* action of tasks.go and messages.go relies on in the rows it finds.
\* ResultFromLastClaim and OneResultPerTask follow from it, and it is the
\* inductive invariant of their proofs.
RowsAgree ==
    /\ \A t \in Tasks : RowAgrees(tasks[t], t)
    /\ \A m \in Messages : messages[m].type = "RESULT" =>
          \E t \in Tasks : /\ messages[m].task = t
                           /\ IsAnswer(tasks[t].status)
                           /\ tasks[t].submitted = m

\* Over the whole life of a task, its creator is given exactly the attempts
\* the current round counts plus MaxAttempts for every round the operator
\* ended: no crash, restart, expiry or repeated Telegram update buys one more
\* or loses one (verification_queue.go attempts+1, RetryVerification).
AttemptsAccounted ==
    \A t \in Tasks : attempts[t] = jobs[t].attempts + MaxAttempts * Round(t)

\* Telegram was given an alert for t in the round in which t is marked as
\* alerted: a slow sender of an earlier round cannot silence a later one
\* (the token of MarkVerificationAlertSent).
SentMeansDelivered ==
    \A t \in Tasks : alerts[t].sent => <<t, Round(t)>> \in delivered

\* A creator that repeats a request with its idempotency key never gets a
\* second task (tasks.go Create).
OneTaskPerKey ==
    \A s, t \in Tasks :
        (/\ tasks[s].key # NULL
         /\ tasks[s].key = tasks[t].key
         /\ tasks[s].createdBy = tasks[t].createdBy) => s = t

\* "A late process cannot commit a verdict for a different attempt, even when
\* both processes share an agent ID" (verification_queue.go): a verdict that
\* names an attempt names the last one handed out, and no verdict at all ends
\* a job whose lease somebody else still holds.  Nor is an attempt that runs,
\* the last one too, taken for exhausted: its job is not reset and the operator
\* not alerted ("never a live fifth attempt", verification_operator.go).
LateAttemptsNeverCommit ==
    [][\A t \in Tasks :
        /\ \A v \in verifications' \ verifications :
              v.attempt # NoId => v.attempt = attempts[v.task]
        /\ jobs[t].attempt # NoId /\ jobs[t].lease > Now =>
              /\ jobs'[t].attempt # jobs[t].attempt =>
                    \E v \in verifications' : v.task = t /\ v.attempt = jobs[t].attempt
              /\ alerts'[t].token \in {alerts[t].token, NULL}]_vars

\* "A replay cannot reset a later round of work" (verification_operator.go):
\* the attempt count goes down only for an exhausted task, together with the
\* first use of one update id, and a used update id stays with its task.
RetryOncePerUpdate ==
    [][/\ \A t \in Tasks : jobs'[t].attempts < jobs[t].attempts =>
              /\ Exhausted(t, Now)
              /\ \E u \in UpdateIds : retries[u] = NULL /\ retries'[u] = t
       /\ \A u \in UpdateIds : retries[u] # NULL => retries'[u] = retries[u]]_vars

-----------------------------------------------------------------------------
(* What the life cycle implements *)

BoardPhase(t) ==
    CASE tasks[t].status = "NONE" -> "none"
      [] tasks[t].status = "OPEN" -> "open"
      [] tasks[t].status = "CLAIMED" -> "held"
      [] tasks[t].status = "SUBMITTED" -> "answered"
      [] tasks[t].status = "COMPLETED" -> "accepted"
      [] OTHER -> "refused"

BoardOf(t) ==
    LET m == tasks[t].submitted
    IN  [phase |-> BoardPhase(t), poster |-> tasks[t].createdBy,
         holder |-> tasks[t].owner, turn |-> Len(claims[t]), answer |-> m,
         by |-> IF m = NULL THEN NULL ELSE messages[m].sender,
         answeredIn |-> IF m = NULL THEN 0 ELSE messages[m].claim]

Board == INSTANCE TaskBoard WITH board <- [t \in Tasks |-> BoardOf(t)]

\* The life cycle implements the board: one answer per task, given in the
\* current turn by its holder, decided once by the poster and never changed.
ImplementsBoard == Board!Spec

-----------------------------------------------------------------------------
(* Liveness.  Time passes, agents keep polling the task list (agent.go      *)
(* takeOneTask), creators keep asking for verification work (RunOnce), the *)
(* alert loop keeps ticking, and neither failures of Telegram nor restarts *)
(* hit the same step for ever: hence SF, for a restart disables a step that *)
(* was under way.  Nobody has to claim a task, send a heartbeat, answer or *)
(* write a verdict.                                                        *)
Finish(c) == FinishClaim(c) \/ FinishHeartbeat(c) \/ FinishClaimVerification(c)

Fairness ==
    /\ WF_vars(Tick)
    /\ WF_vars(RequeueExpired)
    /\ \A a \in Agents :
          /\ SF_vars(BeginClaimVerification(a))
          /\ WF_vars(\E c \in calls : c.agent = a /\ Finish(c))
          /\ SF_vars(\E c \in calls : c.agent = a /\ FinishClaimVerification(c))
    /\ WF_vars(\E t \in Tasks, k \in Tokens : ClaimVerificationAlert(t, k))
    /\ SF_vars(SendAccepted)
    /\ SF_vars(MarkVerificationAlertSent)

FairSpec == Spec /\ Fairness

\* Some heartbeat renews the lease of t.
Renewed(t) ==
    /\ tasks'[t].lease # tasks[t].lease
    /\ \E c \in calls : c.task = t /\ FinishHeartbeat(c)

\* A claim whose lease is renewed no more ends: the task is answered,
\* or it is offered again under no claim or another (README: abandoned work
\* becomes available again; tasks.go RequeueExpired).
AbandonedClaimEnds ==
    \A t \in Tasks, n \in 1..MaxClaims :
        <>[][~Renewed(t)]_vars =>
            ((tasks[t].status = "CLAIMED" /\ tasks[t].claim = n)
                ~> (tasks[t].status # "CLAIMED" \/ tasks[t].claim # n))

ManualInconclusive ==
    \E a \in Agents, t \in Tasks, m \in Messages : Verify(a, t, m, NoId, "inconclusive")

\* An accepted result by somebody else than the creator is decided, or the
\* operator is alerted, even when every verifier dies in the middle of its
\* attempt and the server restarts: unless the creator goes on for ever
\* answering "inconclusive" by hand, which postpones the next attempt, or the
\* project of the task bars it again and again or for good, and then nobody is
\* told (verification_queue.go, verification_alerts.go).
SubmittedIsDecidedOrAlerted ==
    \A t \in Tasks :
        <>[][~ManualInconclusive]_vars /\ <>[](t \notin barred) =>
            ((tasks[t].status = "SUBMITTED" /\ tasks[t].owner # tasks[t].createdBy)
                ~> (tasks[t].status # "SUBMITTED" \/ alerts[t].sent))
=============================================================================
