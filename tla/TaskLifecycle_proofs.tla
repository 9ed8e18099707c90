----------------------- MODULE TaskLifecycle_proofs -----------------------
(***************************************************************************)
(* Theorems about TaskLifecycle, for every value of its constants: its     *)
(* tables and results; then, from a list of what one step may do to a task *)
(* or to a job of the queue, that it implements TaskBoard and what it      *)
(* promises of verdicts, alerts, retries and idempotency keys.             *)
(***************************************************************************)
EXTENDS TaskLifecycle, FiniteSetTheorems, TLAPS

USE NullAssumption, TimeAssumption, AttemptsAssumption, UpdateIdsAssumption

-----------------------------------------------------------------------------
(* Operators *)

\* The backoff is a natural number whatever the attempt count.
LEMMA BackoffType ==
    ASSUME NEW n \in Nat PROVE VerificationBackoff(n) \in Nat
<1> DEFINE i == IF n < 1 THEN 1 ELSE IF n > MaxAttempts THEN MaxAttempts ELSE n
<1>1. i \in 1..5
    OBVIOUS
<1>2. <<1, 2, 4, 8, 16>>[i] \in Nat
    BY <1>1
<1> QED BY <1>2 DEF VerificationBackoff

\* Requeueing keeps the table of tasks a table of tasks.
LEMMA RequeuedType ==
    ASSUME NEW rows \in [Tasks -> TaskRow], NEW now \in Nat
    PROVE  Requeued(rows, now) \in [Tasks -> TaskRow]
<1>1. ASSUME NEW r \in TaskRow
      PROVE  [r EXCEPT !.status = "OPEN", !.owner = NULL, !.claim = NoId,
                       !.lease = NoTime, !.submitted = NULL] \in TaskRow
    BY DEF TaskRow, Statuses, NoId, NoTime
<1> QED BY <1>1 DEF Requeued

\* The rows that claiming, renewing and submitting write are rows.
LEMMA ClaimedRowType ==
    ASSUME NEW r \in TaskRow, NEW a \in Agents, NEW n \in Nat, NEW x \in Nat
    PROVE  [r EXCEPT !.status = "CLAIMED", !.owner = a, !.claim = n,
                     !.lease = x, !.submitted = NULL] \in TaskRow
BY DEF TaskRow, Statuses

\* Renewing a lease writes a row.
LEMMA RenewedRowType ==
    ASSUME NEW r \in TaskRow, NEW x \in Nat
    PROVE  [r EXCEPT !.lease = x] \in TaskRow
BY DEF TaskRow

\* Accepting a result writes a row.
LEMMA SubmittedRowType ==
    ASSUME NEW r \in TaskRow, NEW m \in Messages
    PROVE  [r EXCEPT !.status = "SUBMITTED", !.submitted = m, !.lease = NoTime] \in TaskRow
BY DEF TaskRow, Statuses, NoTime

\* A verdict writes a row.
LEMMA DecidedRowType ==
    ASSUME NEW r \in TaskRow, NEW s \in Statuses
    PROVE  [r EXCEPT !.status = s] \in TaskRow
BY DEF TaskRow, Statuses

\* The rows of the queue that handing out and finishing an attempt write.
LEMMA ClaimedJobType ==
    ASSUME NEW r \in JobRow, NEW n \in 0..MaxAttempts, NEW i \in Nat,
           NEW x \in Nat, NEW y \in Nat
    PROVE  [r EXCEPT !.attempts = n, !.attempt = i, !.lease = x, !.next = y] \in JobRow
BY DEF JobRow

\* Finishing an attempt writes a row of the queue.
LEMMA FinishedJobRowType ==
    ASSUME NEW r \in JobRow, NEW d \in BOOLEAN, NEW y \in Nat
    PROVE  [r EXCEPT !.done = d, !.attempt = NoId, !.lease = NoTime, !.next = y] \in JobRow
BY DEF JobRow, NoId, NoTime

\* An operator retry writes a row of the queue.
LEMMA RetriedJobType ==
    ASSUME NEW r \in JobRow
    PROVE  [r EXCEPT !.attempts = 0, !.next = Now, !.attempt = NoId, !.lease = NoTime] \in JobRow
<1>1. 0 \in 0..MaxAttempts /\ Now \in Nat /\ NoId \in Nat /\ NoTime \in Nat
    BY DEF Now, NoId, NoTime
<1> QED BY <1>1 DEF JobRow

\* An accepted result adds a row of the queue, whenever it was received.
LEMMA AddedJobType ==
    ASSUME NEW r \in JobRow, NEW m \in Messages, NEW x \in Nat
    PROVE  [r EXCEPT !.message = m, !.next = x] \in JobRow
BY DEF JobRow

\* The row that a result adds to the queue.
LEMMA NewJobType ==
    ASSUME NEW m \in Messages, NEW x \in Nat
    PROVE  [NoJob EXCEPT !.message = m, !.next = x] \in JobRow
<1>1. NoJob \in JobRow
    <2>1. 0 \in 0..MaxAttempts /\ NoId \in Nat /\ NoTime \in Nat
        BY DEF NoId, NoTime
    <2> QED BY <2>1 DEF NoJob, JobRow
<1> QED BY <1>1, AddedJobType

\* The start-up backfill adds rows of the queue.
LEMMA BackfilledJobType ==
    ASSUME NEW r \in JobRow, NEW m \in Messages
    PROVE  [r EXCEPT !.message = m] \in JobRow
BY DEF JobRow

\* A queue row stays one as time passes.
LEMMA AgedJobType ==
    ASSUME NEW r \in JobRow, NEW x \in Nat, NEW y \in Nat
    PROVE  [r EXCEPT !.lease = x, !.next = y] \in JobRow
BY DEF JobRow

\* Claiming an alert writes an alert row.
LEMMA AlertRowType ==
    ASSUME NEW r \in AlertRow, NEW k \in Tokens, NEW x \in Nat
    PROVE  [r EXCEPT !.token = k, !.lease = x] \in AlertRow
BY DEF AlertRow

\* A waiting request stays one as time passes.
LEMMA AgedCallType ==
    ASSUME NEW c \in Call, NEW x \in 0..Now
    PROVE  [c EXCEPT !.now = x] \in Call
BY DEF Call

\* The number of rounds of a task is a natural number.
LEMMA RoundType == ASSUME NEW t PROVE Round(t) \in Nat
<1>1. IsFiniteSet({u \in UpdateIds : retries[u] = t})
    BY FS_Subset
<1> QED BY <1>1, FS_CardinalityType DEF Round

\* Ageing a time keeps it a natural number.
LEMMA AgedType == ASSUME NEW x \in Nat PROVE Aged(x) \in Nat /\ Aged(x) <= x
BY DEF Aged

\* A request that has just read the clock is a request.
LEMMA BeginType ==
    ASSUME TypeOK, NEW op, NEW a \in Agents, NEW t, NEW n,
           \/ op \in {"claim", "heartbeat"} /\ t \in Tasks /\ n \in Nat
           \/ op = "claimVerification" /\ t = NULL /\ n = NoId,
           Begin(op, a, t, n)
    PROVE  calls' \subseteq Call
BY DEF TypeOK, Begin, Call, Now

-----------------------------------------------------------------------------
(* Type correctness *)

\* The empty database has the right type.
LEMMA InitType == Init => TypeOK
BY DEF Init, TypeOK, TaskRow, Statuses, MessageRow, JobRow, AlertRow,
       VerificationRow, Call, Sending, NoTask, NoMessage, NoJob, NewAlert,
       NotSending, NoId, NoTime

\* The operations on tasks keep every variable in its type.
LEMMA TaskStepType == TypeOK /\ TaskStep => TypeOK'
<1> SUFFICES ASSUME TypeOK, TaskStep PROVE TypeOK'
    OBVIOUS
<1> USE DEF jobVars, alertVars
<1>1. Now \in Nat /\ Requeued(tasks, Now) \in [Tasks -> TaskRow]
    BY RequeuedType DEF TypeOK, Now
<1>2. CASE RequeueExpired
    BY <1>1, <1>2 DEF RequeueExpired, TypeOK
<1>3. CASE \E a \in Agents, k \in Keys \cup {NULL} : Create(a, k)
    <2>1. PICK a \in Agents, k \in Keys \cup {NULL} : Create(a, k)
        BY <1>3
    <2>2. ASSUME NEW t \in Tasks
          PROVE  Requeued([tasks EXCEPT ![t] =
                    [NoTask EXCEPT !.status = "OPEN", !.createdBy = a, !.key = k]], Now)
                    \in [Tasks -> TaskRow]
        <3>1. [NoTask EXCEPT !.status = "OPEN", !.createdBy = a, !.key = k] \in TaskRow
            BY DEF NoTask, TaskRow, Statuses, NoId, NoTime
        <3>2. [tasks EXCEPT ![t] =
                 [NoTask EXCEPT !.status = "OPEN", !.createdBy = a, !.key = k]]
                 \in [Tasks -> TaskRow]
            BY <3>1 DEF TypeOK
        <3> QED BY <1>1, <3>2, RequeuedType
    <2>3. tasks' \in [Tasks -> TaskRow]
        BY <1>1, <2>1, <2>2 DEF Create
    <2> QED BY <2>1, <2>3 DEF Create, TypeOK
<1>4. CASE \E a \in Agents, t \in Tasks : BeginClaim(a, t)
    BY <1>1, <1>4, BeginType DEF BeginClaim, TypeOK, NoId
<1>5. CASE \E c \in calls : FinishClaim(c)
    <2>1. PICK c \in calls : FinishClaim(c)
        BY <1>5
    <2> DEFINE t == c.task
    <2> DEFINE row == [tasks[t] EXCEPT !.status = "CLAIMED", !.owner = c.agent,
                             !.claim = Len(claims[t]) + 1,
                             !.lease = c.now + TaskLease, !.submitted = NULL]
    <2>2. c.agent \in Agents /\ c.now \in Nat /\ t \in Tasks
        BY <2>1 DEF FinishClaim, TypeOK, Call, Now
    <2>3. Append(claims[t], c.agent) \in Seq(Agents) /\ Len(claims[t]) + 1 \in Nat
        BY <2>2 DEF TypeOK
    <2>4. c.now + TaskLease \in Nat
        BY <2>2
    <2>5. row \in TaskRow
        BY <2>2, <2>3, <2>4, ClaimedRowType DEF TypeOK
    <2>6. [tasks EXCEPT ![t] = row] \in [Tasks -> TaskRow]
        BY <2>5 DEF TypeOK
    <2>7. Requeued([tasks EXCEPT ![t] = row], Now) \in [Tasks -> TaskRow]
        BY <1>1, <2>6, RequeuedType
    <2>8. tasks' \in [Tasks -> TaskRow] /\ claims' \in [Tasks -> Seq(Agents)]
        <3>1. CASE tasks[t].status = "OPEN"
            <4>1. tasks' = Requeued([tasks EXCEPT ![t] = row], Now)
                BY <2>1, <3>1 DEF FinishClaim
            <4>2. claims' = [claims EXCEPT ![t] = Append(claims[t], c.agent)]
                BY <2>1, <3>1 DEF FinishClaim
            <4> QED BY <2>3, <2>7, <4>1, <4>2 DEF TypeOK
        <3>2. CASE tasks[t].status # "OPEN"
            BY <1>1, <2>1, <3>2 DEF FinishClaim, TypeOK
        <3> QED BY <3>1, <3>2
    <2> QED BY <2>1, <2>8 DEF FinishClaim, TypeOK
<1>6. CASE \E a \in Agents, t \in Tasks, n \in 1..MaxClaims : BeginHeartbeat(a, t, n)
    <2>1. PICK a \in Agents, t \in Tasks, n \in 1..MaxClaims : BeginHeartbeat(a, t, n)
        BY <1>6
    <2>2. n \in Nat
        <3>1. Len(claims[t]) \in Nat
            BY DEF TypeOK
        <3> QED BY <2>1, <3>1 DEF BeginHeartbeat
    <2> QED BY <1>1, <2>1, <2>2, BeginType DEF BeginHeartbeat, TypeOK
<1>7. CASE \E c \in calls : FinishHeartbeat(c)
    <2>1. PICK c \in calls : FinishHeartbeat(c)
        BY <1>7
    <2> DEFINE row == [tasks[c.task] EXCEPT !.lease = c.now + TaskLease]
    <2>2. c.now + TaskLease \in Nat /\ c.task \in Tasks
        BY <2>1 DEF FinishHeartbeat, TypeOK, Call, Now
    <2>3. row \in TaskRow
        BY <2>2, RenewedRowType DEF TypeOK
    <2>4. [tasks EXCEPT ![c.task] = row] \in [Tasks -> TaskRow]
        BY <2>3 DEF TypeOK
    <2>5. Requeued([tasks EXCEPT ![c.task] = row], Now) \in [Tasks -> TaskRow]
        BY <1>1, <2>4, RequeuedType
    <2>6. [tasks EXCEPT ![c.task].lease = c.now + TaskLease] = [tasks EXCEPT ![c.task] = row]
        BY <2>2 DEF TypeOK
    <2> QED BY <1>1, <2>1, <2>5, <2>6 DEF FinishHeartbeat, TypeOK
<1> QED BY <1>2, <1>3, <1>4, <1>5, <1>6, <1>7 DEF TaskStep

\* Storing a message keeps every variable in its type.
LEMMA MessageStepType == TypeOK /\ MessageStep => TypeOK'
<1> SUFFICES ASSUME TypeOK, MessageStep PROVE TypeOK'
    OBVIOUS
<1> USE DEF jobVars, alertVars, taskVars
<1>1. ASSUME NEW a \in Agents, NEW r \in Agents, NEW m \in Messages, NEW t \in Tasks,
             NEW n \in 1..MaxClaims, InsertResult(a, r, m, t, n)
      PROVE  TypeOK'
    <2>1. tasks[t] \in TaskRow /\ n \in Nat
        BY <1>1 DEF TypeOK, InsertResult, LiveClaim, TaskRow
    <2>2. tasks' \in [Tasks -> TaskRow]
        <3>1. [tasks[t] EXCEPT !.status = "SUBMITTED", !.submitted = m, !.lease = NoTime] \in TaskRow
            BY <2>1, SubmittedRowType
        <3> QED BY <1>1, <3>1 DEF TypeOK, InsertResult
    <2>3. messages' \in [Messages -> MessageRow]
        BY <1>1, <2>1 DEF TypeOK, InsertResult, MessageRow
    <2>4. jobs' \in [Tasks -> JobRow]
        <3>1. PICK x \in 0..Now :
                 jobs' = [jobs EXCEPT ![t] = [NoJob EXCEPT !.message = m, !.next = x]]
            BY <1>1 DEF InsertResult
        <3>2. [NoJob EXCEPT !.message = m, !.next = x] \in JobRow
            <4>1. x \in Nat
                OBVIOUS
            <4> QED BY <4>1, NewJobType
        <3> HIDE DEF NoJob
        <3> QED BY <3>1, <3>2 DEF TypeOK
    <2> QED BY <1>1, <2>2, <2>3, <2>4 DEF TypeOK, InsertResult
<1>2. ASSUME NEW a \in Agents, NEW m \in Messages, InsertOther(a, m)
      PROVE  TypeOK'
    <2>1. [NoMessage EXCEPT !.type = "OTHER", !.sender = a] \in MessageRow
        BY DEF NoMessage, MessageRow, NoId
    <2> QED BY <1>2, <2>1 DEF InsertOther, TypeOK
<1> QED BY <1>1, <1>2 DEF MessageStep

\* The verification queue keeps every variable in its type.
LEMMA VerificationStepType == TypeOK /\ VerificationStep => TypeOK'
<1> SUFFICES ASSUME TypeOK, VerificationStep PROVE TypeOK'
    OBVIOUS
<1> USE DEF jobVars, alertVars, taskVars
<1>1. ASSUME NEW a \in Agents, BeginClaimVerification(a)
      PROVE  TypeOK'
    BY <1>1, BeginType DEF BeginClaimVerification, TypeOK
<1>2. ASSUME NEW c \in calls, FinishClaimVerification(c)
      PROVE  TypeOK'
    <2>1. c.now \in Nat
        BY DEF TypeOK, Call, Now
    <2>2. ASSUME NEW t \in Tasks, Due(t, c.agent, c.now)
          PROVE  [jobs[t] EXCEPT !.attempts = jobs[t].attempts + 1,
                      !.attempt = attempts[t] + 1,
                      !.lease = c.now + VerificationLease,
                      !.next = c.now + VerificationLease
                                + VerificationBackoff(jobs[t].attempts + 1)] \in JobRow
        <3> DEFINE nth == jobs[t].attempts + 1
        <3>1. jobs[t] \in JobRow /\ attempts[t] + 1 \in Nat /\ nth \in 0..MaxAttempts
            BY <2>2 DEF TypeOK, Due, JobRow
        <3>2. VerificationBackoff(nth) \in Nat
            BY <3>1, BackoffType
        <3>3. c.now + VerificationLease \in Nat
            BY <2>1
        <3>4. c.now + VerificationLease + VerificationBackoff(nth) \in Nat
            BY <3>2, <3>3
        <3> QED BY <3>1, <3>3, <3>4, ClaimedJobType
    <2>3. jobs' \in [Tasks -> JobRow] /\ attempts' \in [Tasks -> Nat]
        <3>1. CASE UNCHANGED <<jobs, attempts>>
            BY <3>1 DEF TypeOK
        <3>2. CASE \E t \in Tasks :
                     /\ Due(t, c.agent, c.now)
                     /\ attempts' = [attempts EXCEPT ![t] = @ + 1]
                     /\ jobs' = [jobs EXCEPT ![t] =
                          [jobs[t] EXCEPT !.attempts = jobs[t].attempts + 1,
                             !.attempt = attempts[t] + 1,
                             !.lease = c.now + VerificationLease,
                             !.next = c.now + VerificationLease
                                       + VerificationBackoff(jobs[t].attempts + 1)]]
            <4>1. PICK t \in Tasks :
                     /\ Due(t, c.agent, c.now)
                     /\ attempts' = [attempts EXCEPT ![t] = @ + 1]
                     /\ jobs' = [jobs EXCEPT ![t] =
                          [jobs[t] EXCEPT !.attempts = jobs[t].attempts + 1,
                             !.attempt = attempts[t] + 1,
                             !.lease = c.now + VerificationLease,
                             !.next = c.now + VerificationLease
                                       + VerificationBackoff(jobs[t].attempts + 1)]]
                BY <3>2
            <4>2. attempts[t] + 1 \in Nat
                BY DEF TypeOK
            <4> QED BY <2>2, <4>1, <4>2 DEF TypeOK
        <3> QED BY <1>2, <3>1, <3>2 DEF FinishClaimVerification
    <2> QED BY <1>2, <2>3 DEF FinishClaimVerification, TypeOK
<1>3. ASSUME NEW a \in Agents, NEW t \in Tasks, NEW m \in Messages, NEW v \in Verdicts,
             NEW n \in 0..attempts[t], Verify(a, t, m, n, v)
      PROVE  TypeOK'
    <2>1. n \in Nat
        BY DEF TypeOK
    <2>2. FinishedJob(t, v) \in JobRow
        <3>1. jobs[t] \in JobRow /\ jobs[t].attempts \in Nat
            BY DEF TypeOK, JobRow
        <3>2. Now + VerificationBackoff(jobs[t].attempts) \in Nat
            BY <3>1, BackoffType DEF Now
        <3> QED BY <3>1, <3>2, FinishedJobRowType DEF FinishedJob
    <2>3. tasks' \in [Tasks -> TaskRow]
        <3>1. StatusAfter(v) \in Statuses
            BY DEF StatusAfter, Statuses
        <3>2. [tasks EXCEPT ![t].status = StatusAfter(v)] \in [Tasks -> TaskRow]
            BY <3>1, DecidedRowType DEF TypeOK
        <3> QED BY <1>3, <3>2, RequeuedType DEF Verify, Now
    <2>4. verifications' \subseteq VerificationRow
        BY <1>3, <2>1 DEF Verify, TypeOK, VerificationRow
    <2> QED BY <1>3, <2>2, <2>3, <2>4 DEF Verify, TypeOK
<1> QED BY <1>1, <1>2, <1>3 DEF VerificationStep

\* Retries and alerts keep every variable in its type.
LEMMA OperatorStepType == TypeOK /\ OperatorStep => TypeOK'
<1> SUFFICES ASSUME TypeOK, OperatorStep PROVE TypeOK'
    OBVIOUS
<1> USE DEF jobVars, taskVars
<1>1. ASSUME NEW u \in UpdateIds, NEW t \in Tasks, RetryVerification(u, t)
      PROVE  TypeOK'
    <2>1. jobs' \in [Tasks -> JobRow]
        BY <1>1, RetriedJobType DEF RetryVerification, TypeOK
    <2>2. alerts' \in [Tasks -> AlertRow]
        <3>1. NewAlert \in AlertRow
            BY DEF NewAlert, AlertRow, NoTime
        <3> QED BY <1>1, <3>1 DEF RetryVerification, TypeOK
    <2> QED BY <1>1, <2>1, <2>2 DEF RetryVerification, TypeOK
<1>2. ASSUME NEW t \in Tasks, NEW k \in Tokens, ClaimVerificationAlert(t, k)
      PROVE  TypeOK'
    <2>1. [alerts[t] EXCEPT !.token = k, !.lease = Now + AlertLease] \in AlertRow
        <3>1. Now + AlertLease \in Nat /\ alerts[t] \in AlertRow
            BY DEF Now, TypeOK
        <3> QED BY <3>1, AlertRowType
    <2>2. sending' \in Sending
        BY <1>2 DEF ClaimVerificationAlert, Sending
    <2> QED BY <1>2, <2>1, <2>2 DEF ClaimVerificationAlert, TypeOK
<1>3. CASE SendAccepted
    <2>1. sending' \in Sending
        BY <1>3 DEF SendAccepted, TypeOK, Sending
    <2>2. sending.task \in Tasks
        BY <1>3 DEF SendAccepted, TypeOK, Sending
    <2>3. Round(sending.task) \in Nat
        BY RoundType
    <2> QED BY <1>3, <2>1, <2>2, <2>3 DEF SendAccepted, TypeOK
<1>4. NotSending \in Sending
    BY DEF NotSending, Sending
<1>5. CASE SendFailed
    BY <1>4, <1>5 DEF SendFailed, TypeOK
<1>6. CASE MarkVerificationAlertSent
    <2>1. [sent |-> TRUE, lease |-> NoTime, token |-> NULL] \in AlertRow
        BY DEF AlertRow, NoTime
    <2>2. alerts' \in [Tasks -> AlertRow]
        BY <1>6, <2>1 DEF MarkVerificationAlertSent, TypeOK
    <2> QED BY <1>4, <1>6, <2>2 DEF MarkVerificationAlertSent, TypeOK
<1> QED BY <1>1, <1>2, <1>3, <1>5, <1>6 DEF OperatorStep

\* A restart keeps every variable in its type.
LEMMA RestartType == TypeOK /\ Restart => TypeOK'
<1> SUFFICES ASSUME TypeOK, Restart PROVE TypeOK'
    OBVIOUS
<1>1. NotSending \in Sending
    BY DEF NotSending, Sending
<1>2. jobs' \in [Tasks -> JobRow]
    <2>1. NoJob \in JobRow
        <3>1. 0 \in 0..MaxAttempts /\ NoId \in Nat /\ NoTime \in Nat
            BY DEF NoId, NoTime
        <3> QED BY <3>1 DEF NoJob, JobRow
    <2>2. ASSUME NEW t \in Tasks, tasks[t].submitted # NULL
          PROVE  [NoJob EXCEPT !.message = tasks[t].submitted] \in JobRow
        <3>1. tasks[t].submitted \in Messages
            BY <2>2 DEF TypeOK, TaskRow
        <3> QED BY <2>1, <3>1, BackfilledJobType
    <2> QED BY <2>2 DEF Restart, TypeOK
<1> QED BY <1>1, <1>2 DEF Restart, TypeOK, taskVars

\* The passing of time keeps every variable in its type.
LEMMA TickType == TypeOK /\ Tick => TypeOK'
<1> SUFFICES ASSUME TypeOK, Tick PROVE TypeOK'
    OBVIOUS
<1>1. tasks' \in [Tasks -> TaskRow]
    <2>1. ASSUME NEW t \in Tasks
          PROVE  [tasks[t] EXCEPT !.lease = Aged(@)] \in TaskRow
        <3>1. tasks[t] \in TaskRow /\ Aged(tasks[t].lease) \in Nat
            BY AgedType DEF TypeOK, TaskRow
        <3> QED BY <3>1, RenewedRowType
    <2> QED BY <2>1 DEF Tick
<1>2. jobs' \in [Tasks -> JobRow]
    <2>1. ASSUME NEW t \in Tasks
          PROVE  [jobs[t] EXCEPT !.lease = Aged(@), !.next = Aged(@)] \in JobRow
        <3>1. /\ jobs[t] \in JobRow
              /\ Aged(jobs[t].lease) \in Nat
              /\ Aged(jobs[t].next) \in Nat
            BY AgedType DEF TypeOK, JobRow
        <3> QED BY <3>1, AgedJobType
    <2> QED BY <2>1 DEF Tick
<1>3. alerts' \in [Tasks -> AlertRow]
    <2>1. ASSUME NEW t \in Tasks
          PROVE  [alerts[t] EXCEPT !.lease = Aged(@)] \in AlertRow
        <3>1. alerts[t] \in AlertRow /\ Aged(alerts[t].lease) \in Nat
            BY AgedType DEF TypeOK, AlertRow
        <3> QED BY <3>1 DEF AlertRow
    <2> QED BY <2>1 DEF Tick
<1>4. calls' \subseteq Call
    <2>1. ASSUME NEW c \in calls
          PROVE  [c EXCEPT !.now = Aged(@)] \in Call
        <3>1. c \in Call /\ c.now \in 0..Now
            BY DEF TypeOK, Call
        <3>2. Aged(c.now) \in 0..Now
            BY <3>1 DEF Aged, Now
        <3> QED BY <3>1, <3>2, AgedCallType
    <2> QED BY <2>1 DEF Tick
<1> QED BY <1>1, <1>2, <1>3, <1>4 DEF Tick, TypeOK

\* Every step keeps every variable in its type.
LEMMA NextType == TypeOK /\ [Next]_vars => TypeOK'
<1> SUFFICES ASSUME TypeOK, [Next]_vars PROVE TypeOK'
    OBVIOUS
<1>1. CASE UNCHANGED vars
    BY <1>1 DEF TypeOK, vars
<1>2. CASE ProjectStep
    BY <1>2, InProjectAssumption
       DEF ProjectStep, ProjectBars, CreatorReturns, TypeOK, taskVars, jobVars, alertVars
<1> QED BY <1>1, <1>2, TaskStepType, MessageStepType, VerificationStepType,
           OperatorStepType, RestartType, TickType DEF Next

\* What the rows of a task and its queue are made of.
tables == <<tasks, claims, messages, jobs, attempts, verifications, alerts, retries, calls,
            sending, delivered>>

\* Whatever happens to a project, the rows of its tasks stay as they are.
LEMMA ProjectLeaves == ProjectStep \/ UNCHANGED vars => UNCHANGED tables
BY DEF ProjectStep, ProjectBars, CreatorReturns, taskVars, jobVars, alertVars, vars, tables

\* Every variable stays in its type, whatever the sizes, leases and bounds.
THEOREM TypeCorrect == Spec => []TypeOK
BY InitType, NextType, PTL DEF Spec

-----------------------------------------------------------------------------
(* The tables agree                                                          *)
(*                                                                         *)
(* Most actions are quiet: whatever they do to leases and attempts, each   *)
(* task keeps its status, or its claim is taken back.                      *)

Quiet(t) ==
    /\ tasks'[t].createdBy = tasks[t].createdBy
    /\ \/ /\ tasks'[t].status = tasks[t].status
          /\ tasks'[t].owner = tasks[t].owner
          /\ tasks'[t].claim = tasks[t].claim
          /\ tasks'[t].submitted = tasks[t].submitted
       \/ /\ tasks[t].status = "CLAIMED"
          /\ tasks'[t].status = "OPEN"
          /\ tasks'[t].owner = NULL
          /\ tasks'[t].submitted = NULL

\* A task keeps agreeing with the other tables when it is quiet, no claim or
\* verdict is added for it, and its job keeps its message.
LEMMA QuietRow ==
    ASSUME TypeOK, NEW t \in Tasks, RowAgrees(tasks[t], t), Quiet(t),
           claims'[t] = claims[t],
           jobs'[t].message = jobs[t].message,
           jobs[t].message = NULL => jobs'[t].attempts = jobs[t].attempts,
           \A m \in Messages : messages[m].type = "RESULT" => messages'[m] = messages[m],
           \A v \in verifications' : v \in verifications \/ v.task # t
    PROVE  RowAgrees(tasks[t], t)'
<1>1. CASE /\ tasks'[t].status = tasks[t].status
           /\ tasks'[t].owner = tasks[t].owner
           /\ tasks'[t].claim = tasks[t].claim
           /\ tasks'[t].submitted = tasks[t].submitted
    <2>1. CASE IsAnswer(tasks[t].status)
        <3>1. messages'[tasks[t].submitted] = messages[tasks[t].submitted]
            BY <2>1 DEF RowAgrees
        <3> QED BY <1>1, <2>1, <3>1 DEF RowAgrees, Quiet, IsAnswer
    <2>2. CASE ~IsAnswer(tasks[t].status)
        BY <1>1, <2>2 DEF RowAgrees, Quiet, IsAnswer
    <2> QED BY <2>1, <2>2
<1>2. CASE /\ tasks[t].status = "CLAIMED"
           /\ tasks'[t].status = "OPEN"
           /\ tasks'[t].owner = NULL
           /\ tasks'[t].submitted = NULL
    BY <1>2 DEF RowAgrees, Quiet, IsAnswer
<1> QED BY <1>1, <1>2 DEF Quiet

\* A stored RESULT stays with its task while answers stand.
LEMMA AnswersStand ==
    ASSUME RowsAgree, NEW m \in Messages, messages[m].type = "RESULT",
           messages'[m] = messages[m],
           \A t \in Tasks : IsAnswer(tasks[t].status) =>
              IsAnswer(tasks'[t].status) /\ tasks'[t].submitted = tasks[t].submitted
    PROVE  \E t \in Tasks : /\ messages'[m].task = t
                            /\ IsAnswer(tasks'[t].status)
                            /\ tasks'[t].submitted = m
BY DEF RowsAgree

\* A quiet step that leaves the claims, the messages, the verdicts and the
\* links from jobs to messages alone keeps the tables in agreement.
LEMMA QuietAgrees ==
    ASSUME TypeOK, RowsAgree, \A t \in Tasks : Quiet(t),
           UNCHANGED <<claims, messages, verifications>>,
           \A t \in Tasks : /\ jobs'[t].message = jobs[t].message
                            /\ jobs[t].message = NULL => jobs'[t].attempts = jobs[t].attempts
    PROVE  RowsAgree'
<1>1. ASSUME NEW t \in Tasks PROVE RowAgrees(tasks[t], t)'
    BY QuietRow DEF RowsAgree
<1>2. ASSUME NEW t \in Tasks, IsAnswer(tasks[t].status)
      PROVE  IsAnswer(tasks'[t].status) /\ tasks'[t].submitted = tasks[t].submitted
    BY <1>2 DEF Quiet, IsAnswer
<1> QED BY <1>1, <1>2, AnswersStand DEF RowsAgree

\* What requeueing does to one row, column by column.
LEMMA OpenedRow ==
    ASSUME NEW r \in TaskRow
    PROVE  LET o == [r EXCEPT !.status = "OPEN", !.owner = NULL, !.claim = NoId,
                              !.lease = NoTime, !.submitted = NULL]
           IN  /\ o.status = "OPEN"
               /\ o.owner = NULL
               /\ o.submitted = NULL
               /\ o.createdBy = r.createdBy
BY DEF TaskRow

\* Requeueing is quiet.
LEMMA RequeuedQuiet ==
    ASSUME TypeOK, NEW t \in Tasks, tasks' = Requeued(tasks, Now)
    PROVE  Quiet(t)
<1>1. tasks \in [Tasks -> TaskRow] /\ Now \in Nat /\ tasks[t] \in TaskRow
    BY DEF TypeOK, Now
<1>2. CASE tasks'[t] = tasks[t]
    BY <1>2 DEF Quiet
<1>3. CASE /\ tasks[t].status = "CLAIMED"
           /\ tasks'[t] = [tasks[t] EXCEPT !.status = "OPEN", !.owner = NULL,
                 !.claim = NoId, !.lease = NoTime, !.submitted = NULL]
    BY <1>1, <1>3, OpenedRow DEF Quiet
<1>4. \/ tasks'[t] = tasks[t]
      \/ /\ tasks[t].status = "CLAIMED"
         /\ tasks'[t] = [tasks[t] EXCEPT !.status = "OPEN", !.owner = NULL,
               !.claim = NoId, !.lease = NoTime, !.submitted = NULL]
    BY Zenon DEF Requeued
<1> QED BY <1>2, <1>3, <1>4

\* Writing one row and requeueing is quiet for the other tasks.
LEMMA RequeuedOther ==
    ASSUME TypeOK, NEW s \in Tasks, NEW t \in Tasks, s # t, NEW row,
           tasks' = Requeued([tasks EXCEPT ![t] = row], Now)
    PROVE  Quiet(s)
<1>1. tasks[s] \in TaskRow /\ [tasks EXCEPT ![t] = row][s] = tasks[s]
    BY DEF TypeOK
<1>2. CASE tasks'[s] = tasks[s]
    BY <1>2 DEF Quiet
<1>3. CASE /\ tasks[s].status = "CLAIMED"
           /\ tasks'[s] = [tasks[s] EXCEPT !.status = "OPEN", !.owner = NULL,
                 !.claim = NoId, !.lease = NoTime, !.submitted = NULL]
    BY <1>1, <1>3, OpenedRow DEF Quiet
<1>4. \/ tasks'[s] = tasks[s]
      \/ /\ tasks[s].status = "CLAIMED"
         /\ tasks'[s] = [tasks[s] EXCEPT !.status = "OPEN", !.owner = NULL,
               !.claim = NoId, !.lease = NoTime, !.submitted = NULL]
    BY <1>1, Zenon DEF Requeued
<1> QED BY <1>2, <1>3, <1>4

\* So is renewing a lease and then requeueing.
LEMMA RenewedQuiet ==
    ASSUME TypeOK, NEW t \in Tasks, NEW s \in Tasks, NEW x \in Nat,
           tasks' = Requeued([tasks EXCEPT ![s].lease = x], Now)
    PROVE  Quiet(t)
<1> DEFINE rows == [tasks EXCEPT ![s] = [tasks[s] EXCEPT !.lease = x]]
<1>1. [tasks EXCEPT ![s].lease = x] = rows
    BY DEF TypeOK
<1>2. tasks[t] \in TaskRow /\ tasks[s] \in TaskRow /\ Now \in Nat
    BY DEF TypeOK, Now
<1>3. [tasks[s] EXCEPT !.lease = x] \in TaskRow
    BY <1>2, RenewedRowType
<1>4. rows \in [Tasks -> TaskRow]
    BY <1>3 DEF TypeOK
<1>5. /\ rows[t] \in TaskRow
      /\ rows[t].status = tasks[t].status
      /\ rows[t].owner = tasks[t].owner
      /\ rows[t].claim = tasks[t].claim
      /\ rows[t].submitted = tasks[t].submitted
      /\ rows[t].createdBy = tasks[t].createdBy
    BY <1>2, <1>3 DEF TypeOK, TaskRow
<1>6. tasks' = Requeued(rows, Now)
    BY <1>1
<1> HIDE DEF rows
<1>7. CASE tasks'[t] = rows[t]
    BY <1>5, <1>7 DEF Quiet
<1>8. CASE /\ rows[t].status = "CLAIMED"
           /\ tasks'[t] = [rows[t] EXCEPT !.status = "OPEN", !.owner = NULL,
                 !.claim = NoId, !.lease = NoTime, !.submitted = NULL]
    BY <1>5, <1>8, OpenedRow DEF Quiet
<1>9. \/ tasks'[t] = rows[t]
      \/ /\ rows[t].status = "CLAIMED"
         /\ tasks'[t] = [rows[t] EXCEPT !.status = "OPEN", !.owner = NULL,
               !.claim = NoId, !.lease = NoTime, !.submitted = NULL]
    BY <1>6, Zenon DEF Requeued
<1> QED BY <1>7, <1>8, <1>9

\* A row left alone is quiet.
LEMMA SameQuiet ==
    ASSUME NEW t \in Tasks, tasks'[t] = tasks[t]
    PROVE  Quiet(t)
BY DEF Quiet

\* A claim more, and it is the last one.
LEMMA Appended ==
    ASSUME NEW s \in Seq(Agents), NEW a \in Agents
    PROVE  /\ Append(s, a) # <<>> /\ Len(Append(s, a)) = Len(s) + 1
           /\ Append(s, a)[Len(Append(s, a))] = a
OBVIOUS

\* The tables of the empty database agree.
LEMMA InitAgrees == Init => RowsAgree
BY DEF Init, RowsAgree, RowAgrees, IsAnswer, NoTask, NoMessage, NoJob

\* The operations on tasks keep the tables in agreement.
LEMMA TaskStepAgrees == TypeOK /\ RowsAgree /\ TaskStep => RowsAgree'
<1> SUFFICES ASSUME TypeOK, RowsAgree, TaskStep PROVE RowsAgree'
    OBVIOUS
<1> USE DEF jobVars, alertVars
<1>1. ASSUME UNCHANGED <<claims, messages, jobs, verifications>>,
             tasks' = Requeued(tasks, Now)
      PROVE  RowsAgree'
    BY <1>1, RequeuedQuiet, QuietAgrees
<1>2. CASE RequeueExpired
    BY <1>1, <1>2 DEF RequeueExpired
<1>3. ASSUME NEW a \in Agents, NEW k \in Keys \cup {NULL}, Create(a, k)
      PROVE  RowsAgree'
    <2>1. CASE tasks' = Requeued(tasks, Now)
        BY <1>1, <1>3, <2>1 DEF Create
    <2>2. ASSUME NEW t \in Tasks, tasks[t].status = "NONE",
                 tasks' = Requeued([tasks EXCEPT ![t] =
                    [NoTask EXCEPT !.status = "OPEN", !.createdBy = a, !.key = k]], Now)
          PROVE  RowsAgree'
        <3> DEFINE row == [NoTask EXCEPT !.status = "OPEN", !.createdBy = a, !.key = k]
        <3>1. /\ row.status = "OPEN"
              /\ row.createdBy = a
              /\ row.owner = NULL
              /\ row.submitted = NULL
            BY DEF NoTask
        <3>2. tasks'[t] = row
            BY <2>2, <3>1 DEF Requeued, TypeOK
        <3>3. ASSUME NEW s \in Tasks, s # t PROVE Quiet(s)
            BY <2>2, <3>3, RequeuedOther
        <3>4. UNCHANGED <<claims, messages, jobs, verifications>>
            BY <1>3 DEF Create
        <3>5. RowAgrees(tasks[t], t)'
            <4>1. RowAgrees(tasks[t], t)
                BY DEF RowsAgree
            <4>2. a # NULL
                BY DEF TypeOK
            <4> QED BY <2>2, <3>1, <3>2, <3>4, <4>1, <4>2 DEF RowAgrees, IsAnswer
        <3>6. ASSUME NEW s \in Tasks PROVE RowAgrees(tasks[s], s)'
            <4>1. CASE s = t
                BY <3>5, <4>1
            <4>2. CASE s # t
                BY <3>3, <3>4, <4>2, QuietRow DEF RowsAgree
            <4> QED BY <4>1, <4>2
        <3>7. ASSUME NEW s \in Tasks, IsAnswer(tasks[s].status)
              PROVE  IsAnswer(tasks'[s].status) /\ tasks'[s].submitted = tasks[s].submitted
            BY <2>2, <3>3, <3>7 DEF Quiet, IsAnswer
        <3> QED BY <3>4, <3>6, <3>7, AnswersStand DEF RowsAgree
    <2> QED BY <1>3, <2>1, <2>2 DEF Create
<1>4. ASSUME NEW a \in Agents, NEW t \in Tasks, BeginClaim(a, t)
      PROVE  RowsAgree'
    BY <1>1, <1>4 DEF BeginClaim
<1>5. ASSUME NEW c \in calls, FinishClaim(c)
      PROVE  RowsAgree'
    <2> DEFINE t == c.task
    <2> DEFINE row == [tasks[t] EXCEPT !.status = "CLAIMED", !.owner = c.agent,
                             !.claim = Len(claims[t]) + 1,
                             !.lease = c.now + TaskLease, !.submitted = NULL]
    <2>1. t \in Tasks /\ c.agent \in Agents
        BY <1>5 DEF FinishClaim, TypeOK, Call
    <2>2. CASE tasks[t].status # "OPEN"
        BY <1>1, <1>5, <2>2 DEF FinishClaim
    <2>3. CASE tasks[t].status = "OPEN"
        <3>1. /\ tasks' = Requeued([tasks EXCEPT ![t] = row], Now)
              /\ claims' = [claims EXCEPT ![t] = Append(claims[t], c.agent)]
              /\ UNCHANGED <<messages, jobs, verifications>>
            BY <1>5, <2>3 DEF FinishClaim
        <3>2. /\ row.status = "CLAIMED"
              /\ row.owner = c.agent
              /\ row.claim = Len(claims[t]) + 1
              /\ row.submitted = NULL
              /\ row.createdBy = tasks[t].createdBy
            <4>1. tasks[t] \in TaskRow
                BY <2>1 DEF TypeOK
            <4> QED BY <4>1 DEF TaskRow
        <3>3. \/ tasks'[t] = row
              \/ /\ tasks'[t].status = "OPEN"
                 /\ tasks'[t].owner = NULL
                 /\ tasks'[t].submitted = NULL
                 /\ tasks'[t].createdBy = row.createdBy
            <4> HIDE DEF row
            <4>1. [tasks EXCEPT ![t] = row][t] = row
                BY <2>1 DEF TypeOK
            <4>2. CASE tasks'[t] = row
                BY <4>2
            <4>3. CASE tasks'[t] = [row EXCEPT !.status = "OPEN", !.owner = NULL,
                             !.claim = NoId, !.lease = NoTime, !.submitted = NULL]
                <5>1. row \in TaskRow
                    <6>1. tasks[t] \in TaskRow /\ claims[t] \in Seq(Agents)
                        BY <2>1 DEF TypeOK
                    <6>2. c.now \in Nat
                        BY <2>1 DEF TypeOK, Call
                    <6>3. Len(claims[t]) + 1 \in Nat /\ c.now + TaskLease \in Nat
                        BY <6>1, <6>2, TimeAssumption DEF TimeAssumption
                    <6> QED BY <2>1, <6>1, <6>3, ClaimedRowType DEF row
                <5> QED BY <4>3, <5>1, OpenedRow
            <4> QED BY <2>1, <3>1, <4>1, <4>2, <4>3, Zenon DEF Requeued
        <3>4. RowAgrees(tasks[t], t)'
            <4>1. RowAgrees(tasks[t], t)
                BY <2>1 DEF RowsAgree
            <4>2. claims[t] \in Seq(Agents)
                BY <2>1 DEF TypeOK
            <4>3. /\ claims'[t] = Append(claims[t], c.agent)
                  /\ claims'[t] # <<>>
                  /\ Len(claims'[t]) = Len(claims[t]) + 1
                  /\ claims'[t][Len(claims'[t])] = c.agent
                <5>1. c.agent \in Agents BY <2>1 DEF TypeOK, Call
                <5>2. claims'[t] = Append(claims[t], c.agent) BY <3>1, <2>1 DEF TypeOK
                <5> DEFINE longer == Append(claims[t], c.agent)
                <5>3. /\ longer # <<>> /\ Len(longer) = Len(claims[t]) + 1
                      /\ longer[Len(longer)] = c.agent
                    BY <4>2, <5>1, Appended
                <5> HIDE DEF longer
                <5>4. claims'[t] = longer BY <5>2 DEF longer
                <5> QED BY <5>3, <5>4 DEF longer
            <4> QED BY <2>3, <3>1, <3>2, <3>3, <4>1, <4>3 DEF RowAgrees, IsAnswer
        <3>5. ASSUME NEW s \in Tasks, s # t PROVE RowAgrees(tasks[s], s)'
            <4>1. Quiet(s)
                BY <2>1, <3>1, <3>5, RequeuedOther
            <4>2. claims'[s] = claims[s]
                BY <2>1, <3>1, <3>5 DEF TypeOK
            <4> QED BY <3>1, <4>1, <4>2, QuietRow DEF RowsAgree
        <3>6. ASSUME NEW s \in Tasks, IsAnswer(tasks[s].status)
              PROVE  IsAnswer(tasks'[s].status) /\ tasks'[s].submitted = tasks[s].submitted
            <4>1. s # t
                BY <2>3, <3>6 DEF IsAnswer
            <4>2. Quiet(s)
                BY <2>1, <3>1, <4>1, RequeuedOther
            <4> QED BY <3>6, <4>2 DEF Quiet, IsAnswer
        <3>7. ASSUME NEW m \in Messages, messages[m].type = "RESULT"
              PROVE  \E s \in Tasks : /\ messages'[m].task = s
                                      /\ IsAnswer(tasks'[s].status)
                                      /\ tasks'[s].submitted = m
            <4>1. messages'[m] = messages[m] BY <3>1
            <4> QED BY <3>6, <3>7, <4>1, AnswersStand
        <3>8. \A s \in Tasks : RowAgrees(tasks[s], s)' BY <3>4, <3>5
        <3> QED BY <3>1, <3>7, <3>8 DEF RowsAgree
    <2> QED BY <2>2, <2>3
<1>6. ASSUME NEW a \in Agents, NEW t \in Tasks, NEW n, BeginHeartbeat(a, t, n)
      PROVE  RowsAgree'
    BY <1>1, <1>6 DEF BeginHeartbeat
<1>7. ASSUME NEW c \in calls, FinishHeartbeat(c)
      PROVE  RowsAgree'
    <2>1. c.task \in Tasks /\ c.now + TaskLease \in Nat
        BY <1>7 DEF FinishHeartbeat, TypeOK, Call, Now
    <2>2. ASSUME NEW t \in Tasks PROVE Quiet(t)
        BY <1>7, <2>1, RenewedQuiet, SameQuiet DEF FinishHeartbeat
    <2> QED BY <1>7, <2>2, QuietAgrees DEF FinishHeartbeat
<1> QED BY <1>2, <1>3, <1>4, <1>5, <1>6, <1>7 DEF TaskStep

\* Storing a message keeps the tables in agreement: a RESULT is taken only
\* from the live claim, and its job is the first of its task.
LEMMA MessageStepAgrees == TypeOK /\ RowsAgree /\ MessageStep => RowsAgree'
<1> SUFFICES ASSUME TypeOK, RowsAgree, MessageStep PROVE RowsAgree'
    OBVIOUS
<1> USE DEF jobVars, alertVars, taskVars
<1>1. ASSUME NEW a \in Agents, NEW r \in Agents, NEW m \in Messages, NEW t \in Tasks,
             NEW n \in 1..MaxClaims, InsertResult(a, r, m, t, n)
      PROVE  RowsAgree'
    <2> DEFINE row == [tasks[t] EXCEPT !.status = "SUBMITTED", !.submitted = m,
                                       !.lease = NoTime]
    <2> DEFINE new == [type |-> "RESULT", sender |-> a, task |-> t, claim |-> n]
    <2>1. /\ tasks[t].status = "CLAIMED"
          /\ tasks[t].owner = a
          /\ tasks[t].claim = n
          /\ messages[m].type = "NONE"
          /\ UNCHANGED <<claims, verifications>>
        BY <1>1 DEF InsertResult, LiveClaim
    <2>2. tasks' = [tasks EXCEPT ![t] = row] /\ messages' = [messages EXCEPT ![m] = new]
        BY <1>1 DEF InsertResult
    <2>3. /\ row.status = "SUBMITTED"
          /\ row.submitted = m
          /\ row.owner = tasks[t].owner
          /\ row.claim = tasks[t].claim
          /\ row.createdBy = tasks[t].createdBy
        <3>1. tasks[t] \in TaskRow
            BY DEF TypeOK
        <3> QED BY <3>1 DEF TaskRow
    <2>4. tasks'[t] = row /\ messages'[m] = new
        BY <2>2 DEF TypeOK
    <2>5. jobs'[t].message = m
        BY <1>1 DEF InsertResult, TypeOK, NoJob
    <2>6. RowAgrees(tasks[t], t)'
        <3>1. RowAgrees(tasks[t], t)
            BY DEF RowsAgree
        <3>2. /\ claims[t] # <<>>
              /\ tasks[t].claim = Len(claims[t])
              /\ tasks[t].owner = claims[t][Len(claims[t])]
              /\ tasks[t].createdBy # NULL
            BY <2>1, <3>1 DEF RowAgrees
        <3> HIDE DEF row
        <3>3. IsAnswer(tasks'[t].status) /\ tasks'[t].status # "NONE"
            BY <2>3, <2>4 DEF IsAnswer
        <3>4. /\ tasks'[t].submitted = m
              /\ tasks'[t].owner = a
              /\ tasks'[t].claim = n
              /\ tasks'[t].createdBy # NULL
              /\ tasks'[t].status \notin {"NONE", "OPEN", "CLAIMED"}
            BY <2>1, <2>3, <2>4, <3>2
        <3> QED BY <2>1, <2>4, <2>5, <3>2, <3>3, <3>4 DEF RowAgrees
    <2>7. \A k \in Messages : messages[k].type = "RESULT" => messages'[k] = messages[k]
        BY <2>1, <2>2 DEF TypeOK
    <2>8. ASSUME NEW s \in Tasks, s # t PROVE RowAgrees(tasks[s], s)'
        <3>1. tasks'[s] = tasks[s] /\ jobs'[s] = jobs[s]
            BY <1>1, <2>2, <2>8 DEF TypeOK, InsertResult
        <3> QED BY <2>1, <2>7, <3>1, SameQuiet, QuietRow DEF RowsAgree
    <2>9. ASSUME NEW k \in Messages, messages'[k].type = "RESULT"
          PROVE  \E s \in Tasks : /\ messages'[k].task = s
                                  /\ IsAnswer(tasks'[s].status)
                                  /\ tasks'[s].submitted = k
        <3>1. CASE k = m
            <4>1. new.task = t
                OBVIOUS
            <4>2. messages'[k].task = t
                BY <2>4, <3>1, <4>1
            <4> HIDE DEF row
            <4>3. IsAnswer(tasks'[t].status) /\ tasks'[t].submitted = k
                BY <2>3, <2>4, <3>1 DEF IsAnswer
            <4> QED BY <4>2, <4>3
        <3>2. CASE k # m
            <4>1. messages'[k] = messages[k] /\ messages[k].type = "RESULT"
                BY <2>2, <2>9, <3>2 DEF TypeOK
            <4>2. ASSUME NEW s \in Tasks, IsAnswer(tasks[s].status)
                  PROVE  IsAnswer(tasks'[s].status) /\ tasks'[s].submitted = tasks[s].submitted
                BY <2>1, <2>2, <4>2 DEF IsAnswer, TypeOK
            <4> QED BY <4>1, <4>2, AnswersStand
        <3> QED BY <3>1, <3>2
    <2> QED BY <2>6, <2>8, <2>9 DEF RowsAgree
<1>2. ASSUME NEW a \in Agents, NEW m \in Messages, InsertOther(a, m)
      PROVE  RowsAgree'
    <2>1. UNCHANGED <<tasks, claims, jobs, verifications>>
        BY <1>2 DEF InsertOther
    <2>2. \A k \in Messages : \/ messages'[k] = messages[k]
                              \/ messages[k].type # "RESULT" /\ messages'[k].type # "RESULT"
        BY <1>2 DEF InsertOther, TypeOK, NoMessage
    <2>3. \A s \in Tasks : RowAgrees(tasks[s], s)'
        BY <2>1, <2>2, SameQuiet, QuietRow DEF RowsAgree
    <2> QED BY <2>1, <2>2, <2>3, AnswersStand DEF RowsAgree
<1> QED BY <1>1, <1>2 DEF MessageStep

\* Handing out and finishing attempts keep the tables in agreement.
LEMMA VerificationStepAgrees == TypeOK /\ RowsAgree /\ VerificationStep => RowsAgree'
<1> SUFFICES ASSUME TypeOK, RowsAgree, VerificationStep PROVE RowsAgree'
    OBVIOUS
<1> USE DEF jobVars, alertVars, taskVars
<1>1. ASSUME UNCHANGED <<tasks, claims, messages, jobs, verifications>>
      PROVE  RowsAgree'
    BY <1>1, SameQuiet, QuietAgrees
<1>2. ASSUME NEW a \in Agents, BeginClaimVerification(a)
      PROVE  RowsAgree'
    BY <1>1, <1>2 DEF BeginClaimVerification
<1>3. ASSUME NEW c \in calls, FinishClaimVerification(c)
      PROVE  RowsAgree'
    <2>1. UNCHANGED <<tasks, claims, messages, verifications>>
        BY <1>3 DEF FinishClaimVerification
    <2>2. ASSUME NEW s \in Tasks
          PROVE  /\ jobs'[s].message = jobs[s].message
                 /\ jobs[s].message = NULL => jobs'[s].attempts = jobs[s].attempts
        <3>1. CASE jobs' = jobs
            BY <3>1
        <3>2. ASSUME NEW t \in Tasks, Due(t, c.agent, c.now), NEW n, NEW i, NEW x, NEW y,
                     jobs' = [jobs EXCEPT ![t] =
                         [jobs[t] EXCEPT !.attempts = n, !.attempt = i, !.lease = x, !.next = y]]
              PROVE  /\ jobs'[s].message = jobs[s].message
                     /\ jobs[s].message = NULL => jobs'[s].attempts = jobs[s].attempts
            BY <3>2 DEF TypeOK, JobRow, Due
        <3>3. jobs' = jobs \/ \E t \in Tasks :
                 /\ Due(t, c.agent, c.now)
                 /\ jobs' = [jobs EXCEPT ![t] =
                         [jobs[t] EXCEPT !.attempts = jobs[t].attempts + 1,
                            !.attempt = attempts[t] + 1,
                            !.lease = c.now + VerificationLease,
                            !.next = c.now + VerificationLease
                                       + VerificationBackoff(jobs[t].attempts + 1)]]
            BY <1>3 DEF FinishClaimVerification
        <3> QED BY <3>1, <3>2, <3>3
    <2> QED BY <2>1, <2>2, SameQuiet, QuietAgrees
<1>4. ASSUME NEW a \in Agents, NEW t \in Tasks, NEW m \in Messages, NEW v \in Verdicts,
             NEW n \in 0..attempts[t], Verify(a, t, m, n, v)
      PROVE  RowsAgree'
    <2> DEFINE row == [tasks[t] EXCEPT !.status = StatusAfter(v)]
    <2>1. /\ tasks[t].status = "SUBMITTED"
          /\ tasks' = Requeued([tasks EXCEPT ![t] = row], Now)
          /\ UNCHANGED <<claims, messages>>
        BY <1>4 DEF Verify, TypeOK
    <2>2. IsAnswer(StatusAfter(v)) /\ StatusAfter(v) \notin {"NONE", "OPEN", "CLAIMED"}
        BY DEF StatusAfter, IsAnswer
    <2>3. /\ row.status = StatusAfter(v)
          /\ row.owner = tasks[t].owner
          /\ row.claim = tasks[t].claim
          /\ row.submitted = tasks[t].submitted
          /\ row.createdBy = tasks[t].createdBy
        <3>1. tasks[t] \in TaskRow
            BY DEF TypeOK
        <3> QED BY <3>1 DEF TaskRow
    <2>4. tasks'[t] = row
        <3> HIDE DEF row
        <3>1. [tasks EXCEPT ![t] = row][t] = row
            BY DEF TypeOK
        <3> QED BY <2>1, <2>2, <2>3, <3>1, Zenon DEF Requeued
    <2>5. \A s \in Tasks : jobs'[s].message = jobs[s].message
                           /\ (jobs[s].message = NULL => jobs'[s].attempts = jobs[s].attempts)
        <3>1. ASSUME NEW y PROVE [jobs[t] EXCEPT !.done = (v # "inconclusive"),
                  !.attempt = NoId, !.lease = NoTime, !.next = y].message = jobs[t].message
            BY DEF TypeOK, JobRow
        <3>2. FinishedJob(t, v).message = jobs[t].message
            BY <3>1 DEF FinishedJob
        <3>3. jobs[t].message = NULL => FinishedJob(t, v) = jobs[t]
            BY DEF FinishedJob
        <3>4. jobs' = [jobs EXCEPT ![t] = FinishedJob(t, v)]
            BY <1>4 DEF Verify
        <3> QED BY <3>2, <3>3, <3>4 DEF TypeOK
    <2>6. \A x \in verifications' : x \in verifications \/ x.task = t
        BY <1>4 DEF Verify
    <2>7. RowAgrees(tasks[t], t)'
        <3>1. RowAgrees(tasks[t], t)
            BY DEF RowsAgree
        <3>2. IsAnswer(tasks[t].status)
            BY <2>1 DEF IsAnswer
        <3>3. /\ tasks'[t].owner = tasks[t].owner
              /\ tasks'[t].claim = tasks[t].claim
              /\ tasks'[t].submitted = tasks[t].submitted
              /\ tasks'[t].createdBy = tasks[t].createdBy
              /\ IsAnswer(tasks'[t].status)
              /\ tasks'[t].status \notin {"NONE", "OPEN", "CLAIMED"}
            BY <2>2, <2>3, <2>4
        <3>4. jobs'[t].message = jobs[t].message /\ tasks[t].status # "NONE"
            BY <2>1, <2>5
        <3> QED BY <2>1, <3>1, <3>2, <3>3, <3>4 DEF RowAgrees
    <2>8. ASSUME NEW s \in Tasks, s # t PROVE Quiet(s)
        BY <2>1, <2>8, RequeuedOther
    <2>9. ASSUME NEW s \in Tasks, s # t PROVE RowAgrees(tasks[s], s)'
        BY <2>1, <2>5, <2>6, <2>8, <2>9, QuietRow DEF RowsAgree
    <2>10. ASSUME NEW s \in Tasks, IsAnswer(tasks[s].status)
           PROVE  IsAnswer(tasks'[s].status) /\ tasks'[s].submitted = tasks[s].submitted
        <3>1. CASE s = t
            BY <2>2, <2>3, <2>4, <3>1
        <3>2. CASE s # t
            BY <2>8, <2>10, <3>2 DEF Quiet, IsAnswer
        <3> QED BY <3>1, <3>2
    <2> QED BY <2>1, <2>7, <2>9, <2>10, AnswersStand DEF RowsAgree
<1> QED BY <1>2, <1>3, <1>4 DEF VerificationStep

\* Retries, alerts, restarts and time keep the tables in agreement.
LEMMA OtherStepAgrees ==
    TypeOK /\ RowsAgree /\ (OperatorStep \/ Restart \/ Tick \/ UNCHANGED tables) => RowsAgree'
<1> SUFFICES ASSUME TypeOK, RowsAgree, OperatorStep \/ Restart \/ Tick \/ UNCHANGED tables
             PROVE  RowsAgree'
    OBVIOUS
<1> USE DEF jobVars, taskVars
<1>1. ASSUME UNCHANGED <<tasks, claims, messages, jobs, verifications>>
      PROVE  RowsAgree'
    BY <1>1, SameQuiet, QuietAgrees
<1>2. ASSUME NEW u \in UpdateIds, NEW t \in Tasks, RetryVerification(u, t)
      PROVE  RowsAgree'
    <2>1. UNCHANGED <<tasks, claims, messages, verifications>> /\ jobs[t].message # NULL
        BY <1>2 DEF RetryVerification, Exhausted
    <2>2. \A s \in Tasks : jobs'[s].message = jobs[s].message
                           /\ (jobs[s].message = NULL => jobs'[s].attempts = jobs[s].attempts)
        BY <1>2, <2>1 DEF RetryVerification, TypeOK, JobRow
    <2> QED BY <2>1, <2>2, SameQuiet, QuietAgrees
<1>3. CASE OperatorStep
    BY <1>1, <1>2, <1>3 DEF OperatorStep, ClaimVerificationAlert, SendAccepted,
       SendFailed, MarkVerificationAlertSent
<1>4. CASE Restart
    \* The backfill finds nothing: a submitted task always has its job.
    <2>1. ASSUME NEW t \in Tasks PROVE jobs'[t] = jobs[t]
        <3>1. tasks[t].status = "SUBMITTED" => jobs[t].message = tasks[t].submitted
            BY DEF RowsAgree, RowAgrees, IsAnswer
        <3> QED BY <1>4, <3>1 DEF Restart
    <2>2. UNCHANGED <<tasks, claims, messages, verifications>>
        BY <1>4 DEF Restart
    <2> QED BY <2>1, <2>2, SameQuiet, QuietAgrees
<1>5. CASE Tick
    <2>1. ASSUME NEW t \in Tasks PROVE Quiet(t)
        <3>1. tasks[t] \in TaskRow /\ tasks'[t] = [tasks[t] EXCEPT !.lease = Aged(tasks[t].lease)]
            BY <1>5 DEF Tick, TypeOK
        <3> QED BY <3>1 DEF Quiet, TaskRow
    <2>2. ASSUME NEW t \in Tasks
          PROVE  jobs'[t].message = jobs[t].message /\ jobs'[t].attempts = jobs[t].attempts
        <3>1. /\ jobs[t] \in JobRow
              /\ jobs'[t] = [jobs[t] EXCEPT !.lease = Aged(jobs[t].lease),
                                           !.next = Aged(jobs[t].next)]
            BY <1>5 DEF Tick, TypeOK
        <3> QED BY <3>1 DEF JobRow
    <2>3. UNCHANGED <<claims, messages, verifications>>
        BY <1>5 DEF Tick
    <2> QED BY <2>1, <2>2, <2>3, QuietAgrees
<1>6. CASE UNCHANGED tables
    BY <1>1, <1>6 DEF tables
<1> QED BY <1>3, <1>4, <1>5, <1>6

\* Every step keeps the tables in agreement: RowsAgree is inductive.
LEMMA NextAgrees == TypeOK /\ RowsAgree /\ [Next]_vars => RowsAgree'
BY TaskStepAgrees, MessageStepAgrees, VerificationStepAgrees, OtherStepAgrees, ProjectLeaves DEF Next

\* The tables agree in every reachable state.
THEOREM TablesAgree == Spec => []RowsAgree
BY InitType, NextType, InitAgrees, NextAgrees, PTL DEF Spec

\* Every accepted result comes from the last claim issued for its task,
\* however many workers, expiries and late requests there are.
THEOREM ResultFenced == Spec => []ResultFromLastClaim
<1>1. TypeOK /\ RowsAgree => ResultFromLastClaim
    <2> SUFFICES ASSUME TypeOK, RowsAgree, NEW t \in Tasks, IsAnswer(tasks[t].status)
                 PROVE  /\ tasks[t].submitted # NULL
                        /\ messages[tasks[t].submitted] =
                              [type |-> "RESULT", sender |-> tasks[t].owner, task |-> t,
                               claim |-> Len(claims[t])]
                        /\ claims[t] # <<>>
                        /\ tasks[t].owner = claims[t][Len(claims[t])]
                        /\ jobs[t].message = tasks[t].submitted
        BY DEF ResultFromLastClaim
    <2>1. RowAgrees(tasks[t], t)
        BY DEF RowsAgree
    <2>2. tasks[t].submitted # NULL
        BY <2>1 DEF RowAgrees
    <2> QED BY <2>1, <2>2 DEF RowAgrees
<1> QED BY <1>1, TypeCorrect, TablesAgree, PTL

\* No task ever has two accepted results.
THEOREM SingleResult == Spec => []OneResultPerTask
<1>1. RowsAgree => OneResultPerTask
    BY DEF RowsAgree, OneResultPerTask
<1> QED BY <1>1, TablesAgree, PTL

-----------------------------------------------------------------------------
(* Attempts are accounted for                                              *)

\* The first use of an update id for t ends one round of t and of no other.
LEMMA RetryEndsRound ==
    ASSUME TypeOK, NEW u \in UpdateIds, NEW t \in Tasks, retries[u] = NULL,
           retries' = [retries EXCEPT ![u] = t]
    PROVE  /\ Round(t)' = Round(t) + 1
           /\ \A s \in Tasks : s # t => Round(s)' = Round(s)
<1> DEFINE Used(s) == {w \in UpdateIds : retries[w] = s}
<1> DEFINE UsedAfter(s) == {w \in UpdateIds : retries'[w] = s}
<1>1. UsedAfter(t) = Used(t) \cup {u} /\ u \notin Used(t)
    BY DEF TypeOK
<1>2. IsFiniteSet(Used(t))
    BY FS_Subset
<1>3. Cardinality(UsedAfter(t)) = Cardinality(Used(t)) + 1
    <2> HIDE DEF Used, UsedAfter
    <2> QED BY <1>1, <1>2, FS_AddElement
<1>4. ASSUME NEW s \in Tasks, s # t PROVE UsedAfter(s) = Used(s)
    BY <1>4 DEF TypeOK
<1> QED BY <1>3, <1>4 DEF Round

\* A step that keeps the counters of t and the ledger keeps its account.
LEMMA QuietAccount ==
    ASSUME NEW t \in Tasks, attempts[t] = jobs[t].attempts + MaxAttempts * Round(t),
           attempts'[t] = attempts[t], jobs'[t].attempts = jobs[t].attempts,
           retries' = retries
    PROVE  attempts'[t] = jobs'[t].attempts + MaxAttempts * Round(t)'
<1>1. Round(t)' = Round(t)
    BY DEF Round
<1> QED BY <1>1

\* Every step keeps the account of the attempts: only a claim of the queue
\* adds one, and only an exhausted round is written off.
LEMMA NextAccounted == TypeOK /\ RowsAgree /\ AttemptsAccounted /\ [Next]_vars => AttemptsAccounted'
<1> SUFFICES ASSUME TypeOK, RowsAgree, AttemptsAccounted, [Next]_vars,
                    NEW t \in Tasks
             PROVE  attempts'[t] = jobs'[t].attempts + MaxAttempts * Round(t)'
    BY DEF AttemptsAccounted
<1> USE DEF jobVars, alertVars, taskVars
<1>1. attempts[t] = jobs[t].attempts + MaxAttempts * Round(t)
    BY DEF AttemptsAccounted
<1>2. CASE UNCHANGED <<jobs, attempts, retries>>
    BY <1>1, <1>2, QuietAccount
<1>3. CASE TaskStep
    BY <1>2, <1>3 DEF TaskStep, RequeueExpired, Create, BeginClaim, FinishClaim,
       BeginHeartbeat, FinishHeartbeat
<1>4. ASSUME NEW a \in Agents, NEW r \in Agents, NEW m \in Messages, NEW s \in Tasks,
             NEW n \in 1..MaxClaims, InsertResult(a, r, m, s, n)
      PROVE  attempts'[t] = jobs'[t].attempts + MaxAttempts * Round(t)'
    <2>1. jobs[s].attempts = 0
        BY <1>4 DEF RowsAgree, RowAgrees, IsAnswer, InsertResult, LiveClaim
    <2>2. jobs'[t].attempts = jobs[t].attempts
        BY <1>4, <2>1 DEF InsertResult, TypeOK, NoJob
    <2> QED BY <1>1, <1>4, <2>2, QuietAccount DEF InsertResult
<1>5. CASE MessageStep
    BY <1>2, <1>4, <1>5 DEF MessageStep, InsertOther
<1>6. ASSUME NEW c \in calls, FinishClaimVerification(c)
      PROVE  attempts'[t] = jobs'[t].attempts + MaxAttempts * Round(t)'
    <2>1. ASSUME NEW s \in Tasks, NEW i, NEW x, NEW y,
                 attempts' = [attempts EXCEPT ![s] = @ + 1],
                 jobs' = [jobs EXCEPT ![s] =
                     [jobs[s] EXCEPT !.attempts = jobs[s].attempts + 1, !.attempt = i,
                                     !.lease = x, !.next = y]]
          PROVE  attempts'[t] = jobs'[t].attempts + MaxAttempts * Round(t)'
        <3>1. retries' = retries /\ Round(t)' = Round(t) /\ Round(t) \in Nat
            BY <1>6, RoundType DEF FinishClaimVerification, Round
        <3>2. CASE s = t
            <4>1. /\ attempts'[t] = attempts[t] + 1
                  /\ jobs'[t].attempts = jobs[t].attempts + 1
                  /\ jobs[t].attempts \in Nat
                BY <2>1, <3>2 DEF TypeOK, JobRow
            <4>2. MaxAttempts * Round(t) \in Nat
                BY <3>1
            <4> QED BY <1>1, <3>1, <4>1, <4>2
        <3>3. CASE s # t
            BY <1>1, <2>1, <3>1, <3>3, QuietAccount DEF TypeOK
        <3> QED BY <3>2, <3>3
    <2>2. \/ UNCHANGED <<jobs, attempts, retries>>
          \/ \E s \in Tasks :
                /\ attempts' = [attempts EXCEPT ![s] = @ + 1]
                /\ jobs' = [jobs EXCEPT ![s] =
                     [jobs[s] EXCEPT !.attempts = jobs[s].attempts + 1,
                         !.attempt = attempts[s] + 1,
                         !.lease = c.now + VerificationLease,
                         !.next = c.now + VerificationLease
                                    + VerificationBackoff(jobs[s].attempts + 1)]]
        BY <1>6 DEF FinishClaimVerification
    <2> QED BY <1>2, <2>1, <2>2
<1>7. ASSUME NEW a \in Agents, NEW s \in Tasks, NEW m \in Messages, NEW v \in Verdicts,
             NEW n \in 0..attempts[s], Verify(a, s, m, n, v)
      PROVE  attempts'[t] = jobs'[t].attempts + MaxAttempts * Round(t)'
    <2>1. ASSUME NEW y PROVE [jobs[s] EXCEPT !.done = (v # "inconclusive"),
              !.attempt = NoId, !.lease = NoTime, !.next = y].attempts = jobs[s].attempts
        BY DEF TypeOK, JobRow
    <2>2. FinishedJob(s, v).attempts = jobs[s].attempts
        BY <2>1 DEF FinishedJob
    <2>3. jobs'[t].attempts = jobs[t].attempts
        BY <1>7, <2>2 DEF Verify, TypeOK
    <2> QED BY <1>1, <1>7, <2>3, QuietAccount DEF Verify
<1>8. CASE VerificationStep
    BY <1>2, <1>6, <1>7, <1>8 DEF VerificationStep, BeginClaimVerification
<1>9. ASSUME NEW u \in UpdateIds, NEW s \in Tasks, RetryVerification(u, s)
      PROVE  attempts'[t] = jobs'[t].attempts + MaxAttempts * Round(t)'
    <2>1. /\ Round(s)' = Round(s) + 1
          /\ t # s => Round(t)' = Round(t)
        BY <1>9, RetryEndsRound DEF RetryVerification
    <2>a. jobs[s].attempts \in 0..MaxAttempts BY DEF TypeOK, JobRow
    <2>b. attempts' = attempts /\ jobs[s].attempts >= MaxAttempts
        BY <1>9 DEF RetryVerification, Exhausted
    <2>2. attempts' = attempts /\ jobs[s].attempts = MaxAttempts
        BY <2>a, <2>b
    <2>3. CASE s = t
        <3>1. jobs'[t].attempts = 0
            BY <1>9, <2>3 DEF RetryVerification, TypeOK, JobRow
        <3>2. Round(t) \in Nat
            BY RoundType
        <3>3. MaxAttempts * (Round(t) + 1) = MaxAttempts + MaxAttempts * Round(t)
            BY <3>2
        <3>4. Round(t)' = Round(t) + 1
            BY <2>1, <2>3
        <3>5. attempts'[t] = MaxAttempts + MaxAttempts * Round(t)
            BY <1>1, <2>2, <2>3
        <3>6. MaxAttempts * Round(t)' = attempts'[t]
            BY <3>3, <3>4, <3>5
        <3>7. attempts'[t] \in Nat
            BY <3>2, <3>5
        <3> QED BY <3>1, <3>6, <3>7
    <2>4. CASE s # t
        <3>1. jobs'[t] = jobs[t]
            BY <1>9, <2>4 DEF RetryVerification, TypeOK
        <3> QED BY <1>1, <2>1, <2>2, <2>4, <3>1
    <2> QED BY <2>3, <2>4
<1>10. CASE OperatorStep
    BY <1>2, <1>9, <1>10 DEF OperatorStep, ClaimVerificationAlert, SendAccepted,
       SendFailed, MarkVerificationAlertSent
<1>11. CASE Restart
    <2>1. tasks[t].status = "SUBMITTED" => jobs[t].message = tasks[t].submitted
        BY DEF RowsAgree, RowAgrees, IsAnswer
    <2>2. jobs'[t] = jobs[t] /\ UNCHANGED <<attempts, retries>>
        BY <1>11, <2>1 DEF Restart
    <2> QED BY <1>1, <2>2, QuietAccount
<1>12. CASE Tick
    <2>1. /\ jobs[t] \in JobRow
          /\ jobs'[t] = [jobs[t] EXCEPT !.lease = Aged(jobs[t].lease),
                                       !.next = Aged(jobs[t].next)]
        BY <1>12 DEF Tick, TypeOK
    <2>2. jobs'[t].attempts = jobs[t].attempts
        BY <2>1 DEF JobRow
    <2> QED BY <1>1, <1>12, <2>2, QuietAccount DEF Tick
<1>13. CASE UNCHANGED tables
    BY <1>2, <1>13 DEF tables
<1> QED BY <1>3, <1>5, <1>8, <1>10, <1>11, <1>12, <1>13, ProjectLeaves DEF Next

\* The creator of a task is handed MaxAttempts attempts per round and no more:
\* crashes, expiries and repeated updates neither add nor lose one.
THEOREM AttemptsCounted == Spec => []AttemptsAccounted
<1>1. Init => AttemptsAccounted
    <2> SUFFICES ASSUME Init, NEW t \in Tasks
                 PROVE  attempts[t] = jobs[t].attempts + MaxAttempts * Round(t)
        BY DEF AttemptsAccounted
    <2>1. {u \in UpdateIds : retries[u] = t} = {}
        BY DEF Init
    <2>2. Round(t) = 0
        BY <2>1, FS_EmptySet DEF Round
    <2> QED BY <2>2 DEF Init, NoJob
<1> QED BY <1>1, InitType, NextType, InitAgrees, NextAgrees, NextAccounted, PTL DEF Spec

-----------------------------------------------------------------------------
(* What one step may do to one task *)

\* Created.
Posted(t) ==
    /\ tasks[t].status = "NONE" /\ tasks'[t].status = "OPEN"
    /\ tasks'[t].createdBy \in Agents
    /\ tasks'[t].owner = NULL /\ tasks'[t].submitted = NULL
    /\ claims'[t] = claims[t]

\* Claimed.
Taken(t) ==
    /\ tasks[t].status = "OPEN" /\ tasks'[t].status = "CLAIMED"
    /\ tasks'[t].createdBy = tasks[t].createdBy
    /\ \E a \in Agents : tasks'[t].owner = a /\ claims'[t] = Append(claims[t], a)
    /\ tasks'[t].submitted = NULL

\* Claimed too late to be held: the claim ends with the request.
Lapsed(t) ==
    /\ tasks[t].status = "OPEN" /\ tasks'[t].status = "OPEN"
    /\ tasks'[t].createdBy = tasks[t].createdBy
    /\ \E a \in Agents : claims'[t] = Append(claims[t], a)
    /\ tasks'[t].owner = NULL /\ tasks'[t].submitted = NULL

\* Answered by the holder of the claim, with a message that was not there.
Answered(t) ==
    /\ tasks[t].status = "CLAIMED" /\ tasks'[t].status = "SUBMITTED"
    /\ tasks'[t].createdBy = tasks[t].createdBy
    /\ tasks'[t].owner = tasks[t].owner
    /\ tasks'[t].submitted \in Messages
    /\ messages[tasks'[t].submitted].type = "NONE"
    /\ messages'[tasks'[t].submitted] =
          [type |-> "RESULT", sender |-> tasks[t].owner, task |-> t,
           claim |-> tasks[t].claim]
    /\ claims'[t] = claims[t]

\* Decided by its creator, who did not answer it.
Decided(t) ==
    /\ tasks[t].status = "SUBMITTED" /\ tasks'[t].status \in {"COMPLETED", "FAILED"}
    /\ tasks'[t].createdBy = tasks[t].createdBy
    /\ tasks'[t].owner = tasks[t].owner
    /\ tasks'[t].submitted = tasks[t].submitted
    /\ messages[tasks[t].submitted].sender # tasks[t].createdBy
    /\ \E v \in verifications' : v.task = t /\ tasks'[t].status = StatusAfter(v.verdict)
    /\ claims'[t] = claims[t]

Moves(t) ==
    \/ Quiet(t) /\ claims'[t] = claims[t]
    \/ Posted(t) \/ Taken(t) \/ Lapsed(t) \/ Answered(t) \/ Decided(t)

\* A stored RESULT stays as it is.
ResultsStay ==
    \A m \in Messages : messages[m].type = "RESULT" => messages'[m] = messages[m]

\* A row that is written and not claimed is not requeued with the others.
LEMMA WrittenRow ==
    ASSUME TypeOK, NEW t \in Tasks, NEW row, row.status # "CLAIMED",
           tasks' = Requeued([tasks EXCEPT ![t] = row], Now)
    PROVE  tasks'[t] = row
<1>1. [tasks EXCEPT ![t] = row][t] = row
    BY DEF TypeOK
<1> QED BY <1>1, Zenon DEF Requeued

\* A row that is written and claimed stays or is opened again.
LEMMA ClaimedRow ==
    ASSUME TypeOK, NEW t \in Tasks, NEW row \in TaskRow,
           tasks' = Requeued([tasks EXCEPT ![t] = row], Now)
    PROVE  \/ tasks'[t] = row
           \/ /\ tasks'[t].status = "OPEN" /\ tasks'[t].owner = NULL
              /\ tasks'[t].submitted = NULL
              /\ tasks'[t].createdBy = row.createdBy
<1>1. [tasks EXCEPT ![t] = row][t] = row
    BY DEF TypeOK
<1>2. \/ tasks'[t] = row
      \/ tasks'[t] = [row EXCEPT !.status = "OPEN", !.owner = NULL, !.claim = NoId,
                                 !.lease = NoTime, !.submitted = NULL]
    BY <1>1, Zenon DEF Requeued
<1> QED BY <1>2, OpenedRow

\* Steps that only requeue, or nothing at all.
LEMMA RequeueMoves ==
    ASSUME TypeOK, claims' = claims, tasks' = tasks \/ tasks' = Requeued(tasks, Now),
           NEW t \in Tasks
    PROVE  Moves(t)
BY RequeuedQuiet, SameQuiet DEF Moves

\* The operations on tasks.
LEMMA TaskMoves ==
    ASSUME TypeOK, RowsAgree, TaskStep, NEW t \in Tasks
    PROVE  Moves(t)
<1>1. CASE RequeueExpired
    BY <1>1, RequeueMoves DEF RequeueExpired
<1>2. ASSUME NEW a \in Agents, NEW k \in Keys \cup {NULL}, Create(a, k)
      PROVE  Moves(t)
    <2>1. CASE tasks' = Requeued(tasks, Now)
        BY <1>2, <2>1, RequeueMoves DEF Create
    <2>2. ASSUME NEW s \in Tasks, tasks[s].status = "NONE",
                 tasks' = Requeued([tasks EXCEPT ![s] =
                    [NoTask EXCEPT !.status = "OPEN", !.createdBy = a, !.key = k]], Now)
          PROVE  Moves(t)
        <3> DEFINE row == [NoTask EXCEPT !.status = "OPEN", !.createdBy = a, !.key = k]
        <3>1. /\ row.status = "OPEN" /\ row.createdBy = a
              /\ row.owner = NULL /\ row.submitted = NULL
            BY DEF NoTask
        <3>2. claims' = claims BY <1>2 DEF Create
        <3>3. tasks' = Requeued([tasks EXCEPT ![s] = row], Now) BY <2>2
        <3> HIDE DEF row
        <3>4. CASE s = t
            <4>1. tasks'[t] = row BY <3>1, <3>3, <3>4, WrittenRow
            <4> QED BY <2>2, <3>1, <3>2, <3>4, <4>1 DEF Moves, Posted
        <3>5. CASE s # t BY <3>2, <3>3, <3>5, RequeuedOther DEF Moves
        <3> QED BY <3>4, <3>5
    <2> QED BY <1>2, <2>1, <2>2 DEF Create
<1>3. ASSUME NEW a \in Agents, NEW s \in Tasks, BeginClaim(a, s) PROVE Moves(t)
    BY <1>3, RequeueMoves DEF BeginClaim
<1>4. ASSUME NEW c \in calls, FinishClaim(c) PROVE Moves(t)
    <2> DEFINE s == c.task
    <2>1. CASE tasks' = Requeued(tasks, Now) /\ claims' = claims
        BY <2>1, RequeueMoves
    <2>2. CASE /\ tasks[s].status = "OPEN"
               /\ claims' = [claims EXCEPT ![s] = Append(@, c.agent)]
               /\ tasks' = Requeued([tasks EXCEPT ![s] =
                    [@ EXCEPT !.status = "CLAIMED", !.owner = c.agent,
                              !.claim = Len(claims[s]) + 1,
                              !.lease = c.now + TaskLease, !.submitted = NULL]], Now)
        <3>1. c.agent \in Agents /\ s \in Tasks /\ c.now \in Nat
            BY <1>4 DEF FinishClaim, TypeOK, Call, Now
        <3> DEFINE row == [tasks[s] EXCEPT !.status = "CLAIMED", !.owner = c.agent,
                              !.claim = Len(claims[s]) + 1,
                              !.lease = c.now + TaskLease, !.submitted = NULL]
        <3>2. tasks[s] \in TaskRow /\ Len(claims[s]) + 1 \in Nat
            BY <3>1 DEF TypeOK
        <3>3. c.now + TaskLease \in Nat BY <3>1, TimeAssumption
        <3>4. row \in TaskRow
            BY <3>1, <3>2, <3>3, ClaimedRowType
        <3>5. /\ row.status = "CLAIMED" /\ row.owner = c.agent /\ row.submitted = NULL
              /\ row.createdBy = tasks[s].createdBy
            BY <3>2 DEF TaskRow
        <3>6. tasks' = Requeued([tasks EXCEPT ![s] = row], Now)
            BY <2>2, <3>1 DEF TypeOK
        <3> HIDE DEF row
        <3>7. CASE s = t
            <4>1. claims'[t] = Append(claims[t], c.agent)
                BY <2>2, <3>1, <3>7 DEF TypeOK
            <4>2. \/ tasks'[t] = row
                  \/ /\ tasks'[t].status = "OPEN" /\ tasks'[t].owner = NULL
                     /\ tasks'[t].submitted = NULL
                     /\ tasks'[t].createdBy = row.createdBy
                BY <3>4, <3>6, <3>7, ClaimedRow
            <4> QED BY <2>2, <3>1, <3>5, <3>7, <4>1, <4>2 DEF Moves, Taken, Lapsed
        <3>8. CASE s # t
            <4>1. claims'[t] = claims[t] BY <2>2, <3>8 DEF TypeOK
            <4> QED BY <3>1, <3>6, <3>8, <4>1, RequeuedOther DEF Moves
        <3> QED BY <3>7, <3>8
    <2> QED BY <1>4, <2>1, <2>2 DEF FinishClaim
<1>5. ASSUME NEW a \in Agents, NEW s \in Tasks, NEW n \in 1..MaxClaims,
             BeginHeartbeat(a, s, n)
      PROVE  Moves(t)
    BY <1>5, RequeueMoves DEF BeginHeartbeat
<1>6. ASSUME NEW c \in calls, FinishHeartbeat(c) PROVE Moves(t)
    <2>1. claims' = claims BY <1>6 DEF FinishHeartbeat
    <2>2. CASE tasks' = tasks BY <2>1, <2>2, RequeueMoves
    <2>3. CASE tasks' = Requeued([tasks EXCEPT ![c.task].lease = c.now + TaskLease], Now)
        <3>1. c.task \in Tasks /\ c.now + TaskLease \in Nat
            BY <1>6, TimeAssumption DEF FinishHeartbeat, TypeOK, Call, Now
        <3> QED BY <2>1, <2>3, <3>1, RenewedQuiet DEF Moves
    <2> QED BY <1>6, <2>2, <2>3 DEF FinishHeartbeat
<1> QED BY <1>1, <1>2, <1>3, <1>4, <1>5, <1>6 DEF TaskStep

\* The messages.
LEMMA MessageMoves ==
    ASSUME TypeOK, RowsAgree, MessageStep
    PROVE  ResultsStay /\ \A t \in Tasks : Moves(t)
<1>1. ASSUME NEW a \in Agents, NEW r \in Agents, NEW m \in Messages, NEW s \in Tasks,
             NEW n \in 1..MaxClaims, InsertResult(a, r, m, s, n)
      PROVE  ResultsStay /\ \A t \in Tasks : Moves(t)
    <2> DEFINE row == [tasks[s] EXCEPT !.status = "SUBMITTED", !.submitted = m,
                                       !.lease = NoTime]
               msg == [type |-> "RESULT", sender |-> a, task |-> s, claim |-> n]
    <2>1. /\ row.status = "SUBMITTED" /\ row.submitted = m
          /\ row.owner = tasks[s].owner /\ row.createdBy = tasks[s].createdBy
        BY DEF TypeOK, TaskRow
    <2>2. /\ tasks' = [tasks EXCEPT ![s] = row] /\ claims' = claims
          /\ messages' = [messages EXCEPT ![m] = msg] /\ messages[m].type = "NONE"
          /\ tasks[s].status = "CLAIMED" /\ tasks[s].owner = a /\ tasks[s].claim = n
        BY <1>1 DEF InsertResult, LiveClaim
    <2>3. ResultsStay BY <2>2 DEF ResultsStay, TypeOK
    <2>4. Moves(s)
        <3>1. messages'[m] = [type |-> "RESULT", sender |-> tasks[s].owner, task |-> s,
                              claim |-> tasks[s].claim]
            BY <2>2 DEF TypeOK
        <3> HIDE DEF row
        <3>2. tasks'[s] = row BY <2>2 DEF TypeOK
        <3> QED BY <2>1, <2>2, <3>1, <3>2 DEF Moves, Answered
    <2>5. ASSUME NEW t \in Tasks, t # s PROVE Moves(t)
        BY <2>2, <2>5, SameQuiet DEF Moves, TypeOK
    <2> QED BY <2>3, <2>4, <2>5
<1>2. ASSUME NEW a \in Agents, NEW m \in Messages, InsertOther(a, m)
      PROVE  ResultsStay /\ \A t \in Tasks : Moves(t)
    <2>1. ResultsStay BY <1>2 DEF InsertOther, ResultsStay, TypeOK
    <2>2. tasks' = tasks /\ claims' = claims BY <1>2 DEF InsertOther, taskVars
    <2> QED BY <2>1, <2>2, RequeueMoves
<1> QED BY <1>1, <1>2 DEF MessageStep

\* A verdict.
LEMMA VerifyMoves ==
    ASSUME TypeOK, NEW a \in Agents, NEW s \in Tasks, NEW m \in Messages,
           NEW v \in Verdicts, NEW n \in Nat, Verify(a, s, m, n, v), NEW t \in Tasks
    PROVE  /\ Moves(t)
           /\ t # s => Quiet(t)
           /\ t = s => tasks'[t] = [tasks[s] EXCEPT !.status = StatusAfter(v)]
<1> DEFINE row == [tasks[s] EXCEPT !.status = StatusAfter(v)]
<1>1. /\ row.status = StatusAfter(v) /\ row.owner = tasks[s].owner
      /\ row.submitted = tasks[s].submitted /\ row.createdBy = tasks[s].createdBy
      /\ row.claim = tasks[s].claim
    BY DEF TypeOK, TaskRow
<1>2. /\ tasks[s].status = "SUBMITTED" /\ tasks[s].submitted = m
      /\ messages[m].sender # a /\ tasks[s].createdBy = a /\ claims' = claims
      /\ tasks' = Requeued([tasks EXCEPT ![s] = row], Now)
    BY DEF Verify, TypeOK
<1>3. StatusAfter(v) \in {"SUBMITTED", "COMPLETED", "FAILED"}
    BY DEF StatusAfter
<1> HIDE DEF row
<1>4. CASE t = s
    <2>1. tasks'[t] = row BY <1>1, <1>2, <1>3, <1>4, WrittenRow
    <2>2. CASE StatusAfter(v) = "SUBMITTED"
        <3>1. Quiet(t) BY <1>1, <1>2, <1>4, <2>1, <2>2 DEF Quiet
        <3> QED BY <1>2, <1>4, <2>1, <3>1 DEF Moves, row
    <2>3. CASE StatusAfter(v) # "SUBMITTED"
        <3>1. \E w \in verifications' : w.task = t /\ StatusAfter(v) = StatusAfter(w.verdict)
            <4> DEFINE w == [task |-> s, verifier |-> a, target |-> m, verdict |-> v,
                             attempt |-> n]
            <4>1. w \in verifications' BY DEF Verify
            <4>2. w.task = s /\ w.verdict = v OBVIOUS
            <4> HIDE DEF w
            <4> QED BY <1>4, <4>1, <4>2
        <3>2. Decided(t) BY <1>1, <1>2, <1>3, <1>4, <2>1, <2>3, <3>1 DEF Decided
        <3> QED BY <1>4, <2>1, <3>2 DEF Moves, row
    <2> QED BY <2>2, <2>3
<1>5. CASE t # s BY <1>2, <1>5, RequeuedOther DEF Moves
<1> QED BY <1>4, <1>5

\* Every step moves each task at most once, and no RESULT changes.
LEMMA EveryStepMoves ==
    ASSUME TypeOK, RowsAgree, [Next]_vars
    PROVE  ResultsStay /\ \A t \in Tasks : Moves(t)
<1>1. CASE TaskStep
    <2>1. messages' = messages
        BY <1>1 DEF TaskStep, RequeueExpired, Create, BeginClaim, FinishClaim,
           BeginHeartbeat, FinishHeartbeat
    <2> QED BY <1>1, <2>1, TaskMoves DEF ResultsStay
<1>2. ASSUME UNCHANGED <<tasks, claims, messages>>
      PROVE  ResultsStay /\ \A t \in Tasks : Moves(t)
    BY <1>2, RequeueMoves DEF ResultsStay
<1>3. CASE VerificationStep
    <2>1. ASSUME NEW a \in Agents, BeginClaimVerification(a)
          PROVE  UNCHANGED <<tasks, claims, messages>>
        BY <2>1 DEF BeginClaimVerification, taskVars
    <2>2. ASSUME NEW c \in calls, FinishClaimVerification(c)
          PROVE  UNCHANGED <<tasks, claims, messages>>
        BY <2>2 DEF FinishClaimVerification, taskVars
    <2>3. ASSUME NEW a \in Agents, NEW s \in Tasks, NEW m \in Messages,
                 NEW v \in Verdicts, NEW n \in 0..attempts[s], Verify(a, s, m, n, v)
          PROVE  ResultsStay /\ \A t \in Tasks : Moves(t)
        <3>1. n \in Nat BY DEF TypeOK
        <3>2. messages' = messages BY <2>3 DEF Verify
        <3> QED BY <2>3, <3>1, <3>2, VerifyMoves DEF ResultsStay
    <2> QED BY <1>2, <1>3, <2>1, <2>2, <2>3 DEF VerificationStep
<1>4. CASE OperatorStep \/ Restart \/ UNCHANGED tables
    BY <1>2, <1>4 DEF OperatorStep, RetryVerification, ClaimVerificationAlert,
       SendAccepted, SendFailed, MarkVerificationAlertSent, Restart, taskVars, tables
<1>5. CASE Tick
    <2>1. ASSUME NEW t \in Tasks PROVE Quiet(t)
        <3>1. tasks[t] \in TaskRow /\ tasks'[t] = [tasks[t] EXCEPT !.lease = Aged(tasks[t].lease)]
            BY <1>5 DEF Tick, TypeOK
        <3> QED BY <3>1 DEF Quiet, TaskRow
    <2> QED BY <1>5, <2>1 DEF Tick, Moves, ResultsStay
<1> QED BY <1>1, <1>3, <1>4, <1>5, MessageMoves, ProjectLeaves DEF Next

-----------------------------------------------------------------------------
(* The refinement *)

\* What the board shows of a task, told by its row alone.
Shown(t) ==
    [phase |-> BoardPhase(t), poster |-> tasks[t].createdBy, holder |-> tasks[t].owner,
     turn |-> Len(claims[t]), answer |-> tasks[t].submitted,
     by |-> IF IsAnswer(tasks[t].status) THEN tasks[t].owner ELSE NULL,
     answeredIn |-> IF IsAnswer(tasks[t].status) THEN tasks[t].claim ELSE 0]

\* Tables that agree show the same through the messages.
LEMMA ShownIsBoard == TypeOK /\ RowsAgree => \A t \in Tasks : BoardOf(t) = Shown(t)
<1> SUFFICES ASSUME TypeOK, RowsAgree, NEW t \in Tasks PROVE BoardOf(t) = Shown(t)
    OBVIOUS
<1>1. RowAgrees(tasks[t], t) /\ NULL \notin Messages
    BY NullAssumption DEF RowsAgree
<1>2. CASE IsAnswer(tasks[t].status)
    <2>1. /\ tasks[t].submitted # NULL
          /\ messages[tasks[t].submitted].sender = tasks[t].owner
          /\ messages[tasks[t].submitted].claim = tasks[t].claim
        BY <1>1, <1>2 DEF RowAgrees
    <2> QED BY <1>2, <2>1 DEF BoardOf, Shown
<1>3. CASE ~IsAnswer(tasks[t].status)
    <2>1. tasks[t].submitted = NULL BY <1>1, <1>3 DEF RowAgrees
    <2> QED BY <1>3, <2>1 DEF BoardOf, Shown
<1> QED BY <1>2, <1>3

\* The same after the step.
LEMMA ShownIsBoardNext ==
    (TypeOK /\ RowsAgree => \A t \in Tasks : BoardOf(t) = Shown(t))'
BY ShownIsBoard, PTL

\* Rows of the board, and what its steps make of one: two rows with the same
\* fields are the same.
BoardRow ==
    [phase : Board!Phases, poster : Agents \cup {NULL}, holder : Agents \cup {NULL}, turn : Nat,
     answer : Messages \cup {NULL}, by : Agents \cup {NULL}, answeredIn : Nat]

\* What the board shows has the type of its columns.
LEMMA ShownType ==
    TypeOK /\ RowsAgree => \A t \in Tasks : Shown(t) \in BoardRow
<1> SUFFICES ASSUME TypeOK, RowsAgree, NEW t \in Tasks PROVE Shown(t) \in BoardRow
    OBVIOUS
<1>1. /\ tasks[t].createdBy \in Agents \cup {NULL}
      /\ tasks[t].owner \in Agents \cup {NULL}
      /\ tasks[t].submitted \in Messages \cup {NULL}
      /\ tasks[t].claim \in Nat
      /\ Len(claims[t]) \in Nat
    BY DEF TypeOK, TaskRow
<1>2. BoardPhase(t) \in Board!Phases BY DEF BoardPhase, Board!Phases
<1> QED BY <1>1, <1>2 DEF Shown, BoardRow

\* The same after the step.
LEMMA ShownTypeNext ==
    (TypeOK /\ RowsAgree => \A t \in Tasks : Shown(t) \in BoardRow)'
BY ShownType, PTL

\* A task that is given back.
LEMMA GiveBackRow ==
    ASSUME NEW r \in BoardRow, NEW s \in BoardRow, s.phase = "open", s.holder = NULL,
           s.poster = r.poster, s.turn = r.turn, s.answer = r.answer, s.by = r.by,
           s.answeredIn = r.answeredIn
    PROVE  s = [r EXCEPT !.phase = "open", !.holder = NULL]
BY DEF BoardRow

\* A task that is taken.
LEMMA TakeRow ==
    ASSUME NEW r \in BoardRow, NEW s \in BoardRow, s.phase = "held",
           s.turn = r.turn + 1,
           s.poster = r.poster, s.answer = r.answer, s.by = r.by,
           s.answeredIn = r.answeredIn
    PROVE  s = [r EXCEPT !.phase = "held", !.holder = s.holder, !.turn = @ + 1]
BY DEF BoardRow

\* A task that is posted.
LEMMA PostRow ==
    ASSUME NEW r \in BoardRow, NEW s \in BoardRow, s.phase = "open",
           s.turn = r.turn, s.holder = r.holder, s.answer = r.answer, s.by = r.by,
           s.answeredIn = r.answeredIn
    PROVE  s = [r EXCEPT !.phase = "open", !.poster = s.poster]
BY DEF BoardRow

\* A task that is answered.
LEMMA AnswerRow ==
    ASSUME NEW r \in BoardRow, NEW s \in BoardRow, s.phase = "answered",
           s.by = r.holder, s.answeredIn = r.turn,
           s.turn = r.turn, s.holder = r.holder, s.poster = r.poster
    PROVE  s = [r EXCEPT !.phase = "answered", !.answer = s.answer,
                         !.by = r.holder, !.answeredIn = r.turn]
BY DEF BoardRow

\* A move of a task is a step of the board or none.
LEMMA MoveRefines ==
    ASSUME TypeOK, RowsAgree, TypeOK', RowsAgree', NEW t \in Tasks, Moves(t)
    PROVE  BoardOf(t)' = BoardOf(t) \/ Board!Step(t)
<1> DEFINE b == [s \in Tasks |-> BoardOf(s)]
<1>1. b[t] = Shown(t) /\ b'[t] = Shown(t)'
    BY ShownIsBoard, ShownIsBoardNext
<1>r. PICK r \in BoardRow : r = Shown(t)
    BY ShownType
<1>s. PICK s \in BoardRow : s = Shown(t)'
    BY ShownTypeNext
<1>b. b[t] = r /\ b'[t] = s
    BY <1>1, <1>r, <1>s
<1>2. RowAgrees(tasks[t], t) /\ RowAgrees(tasks[t], t)'
    BY DEF RowsAgree
<1>3. tasks[t] \in TaskRow /\ claims[t] \in Seq(Agents)
    BY DEF TypeOK
<1>4. CASE Quiet(t) /\ claims'[t] = claims[t]
    <2>1. CASE /\ tasks'[t].status = tasks[t].status
               /\ tasks'[t].owner = tasks[t].owner
               /\ tasks'[t].claim = tasks[t].claim
               /\ tasks'[t].submitted = tasks[t].submitted
        <3>1. Shown(t)' = Shown(t) BY <1>4, <2>1 DEF Shown, BoardPhase, Quiet, IsAnswer
        <3> QED BY <1>1, <3>1
    <2>2. CASE /\ tasks[t].status = "CLAIMED"
               /\ tasks'[t].status = "OPEN"
               /\ tasks'[t].owner = NULL
               /\ tasks'[t].submitted = NULL
        <3>1. tasks[t].submitted = NULL BY <1>2, <2>2 DEF RowAgrees, IsAnswer
        <3>2. /\ Shown(t) = [phase |-> "held", poster |-> tasks[t].createdBy,
                              holder |-> tasks[t].owner, turn |-> Len(claims[t]),
                              answer |-> NULL, by |-> NULL, answeredIn |-> 0]
              /\ Shown(t)' = [phase |-> "open", poster |-> tasks[t].createdBy,
                              holder |-> NULL, turn |-> Len(claims[t]),
                              answer |-> NULL, by |-> NULL, answeredIn |-> 0]
            BY <1>4, <2>2, <3>1 DEF Shown, BoardPhase, IsAnswer, Quiet
        <3>3. s = [r EXCEPT !.phase = "open", !.holder = NULL]
            <4>1. /\ s.phase = "open" /\ s.holder = NULL
                  /\ s.poster = r.poster /\ s.turn = r.turn /\ s.answer = r.answer
                  /\ s.by = r.by /\ s.answeredIn = r.answeredIn
                BY <1>r, <1>s, <3>2
            <4> QED BY <4>1, GiveBackRow
        <3>4. r.phase = "held" BY <1>r, <3>2
        <3>5. Board!GiveBack(t) BY <1>b, <3>3, <3>4, Zenon DEF Board!GiveBack
        <3> QED BY <3>5 DEF Board!Step
    <2> QED BY <1>4, <2>1, <2>2 DEF Quiet
<1>5. CASE Posted(t)
    <2>1. Len(claims[t]) = 0 BY <1>2, <1>5 DEF RowAgrees, Posted
    <2>2. Shown(t).phase = "none" BY <1>5 DEF Shown, BoardPhase, Posted
    <2>3. Shown(t)' = [phase |-> "open", poster |-> tasks'[t].createdBy, holder |-> NULL,
                       turn |-> 0, answer |-> NULL, by |-> NULL, answeredIn |-> 0]
        BY <1>5, <2>1 DEF Shown, BoardPhase, Posted, IsAnswer
    <2>4. \E a \in Agents : Shown(t)' = [Board!Blank EXCEPT !.phase = "open", !.poster = a]
        <3>1. /\ tasks'[t].createdBy \in Agents
              /\ Board!Blank = [phase |-> "none", poster |-> NULL, holder |-> NULL, turn |-> 0,
                                answer |-> NULL, by |-> NULL, answeredIn |-> 0]
            BY <1>5 DEF Posted, Board!Blank
        <3>2. Board!Blank \in BoardRow BY <3>1 DEF BoardRow, Board!Phases
        <3>3. s = [Board!Blank EXCEPT !.phase = "open", !.poster = s.poster]
            <4>0. PICK n \in BoardRow : n = Board!Blank BY <3>2
            <4>1. /\ s.phase = "open" /\ s.turn = n.turn /\ s.holder = n.holder
                  /\ s.answer = n.answer /\ s.by = n.by /\ s.answeredIn = n.answeredIn
                BY <1>s, <2>3, <3>1, <4>0
            <4>2. s = [n EXCEPT !.phase = "open", !.poster = s.poster] BY <4>1, PostRow
            <4> QED BY <4>0, <4>2
        <3>4. s.poster \in Agents BY <1>s, <2>3, <3>1
        <3> QED BY <1>s, <3>3, <3>4
    <2>5. Board!Post(t) BY <1>1, <2>2, <2>4 DEF Board!Post
    <2> QED BY <2>5 DEF Board!Step
<1>6. CASE Taken(t)
    <2>1. PICK a \in Agents : tasks'[t].owner = a /\ claims'[t] = Append(claims[t], a)
        BY <1>6 DEF Taken
    <2>2. Len(claims'[t]) = Len(claims[t]) + 1 BY <1>3, <2>1
    <2>3. tasks[t].submitted = NULL BY <1>2, <1>6 DEF RowAgrees, Taken, IsAnswer
    <2>4. /\ Shown(t) = [phase |-> "open", poster |-> tasks[t].createdBy,
                          holder |-> tasks[t].owner, turn |-> Len(claims[t]),
                          answer |-> NULL, by |-> NULL, answeredIn |-> 0]
          /\ Shown(t)' = [phase |-> "held", poster |-> tasks[t].createdBy,
                          holder |-> a, turn |-> Len(claims[t]) + 1,
                          answer |-> NULL, by |-> NULL, answeredIn |-> 0]
        BY <1>6, <2>1, <2>2, <2>3 DEF Shown, BoardPhase, Taken, IsAnswer
    <2>5. s = [r EXCEPT !.phase = "held", !.holder = s.holder, !.turn = @ + 1]
        <3>1. /\ s.phase = "held" /\ s.turn = r.turn + 1
              /\ s.poster = r.poster /\ s.answer = r.answer
              /\ s.by = r.by /\ s.answeredIn = r.answeredIn
            BY <1>r, <1>s, <2>4
        <3> QED BY <3>1, TakeRow
    <2>6. r.phase = "open" /\ s.holder \in Agents BY <1>r, <1>s, <2>4
    <2>7. Board!Take(t) BY <1>b, <2>5, <2>6, Zenon DEF Board!Take
    <2> QED BY <2>7 DEF Board!Step
<1>7. CASE Lapsed(t)
    <2>1. PICK a \in Agents : claims'[t] = Append(claims[t], a)
        BY <1>7 DEF Lapsed
    <2>2. Len(claims'[t]) = Len(claims[t]) + 1 BY <1>3, <2>1
    <2>3. tasks[t].submitted = NULL /\ tasks[t].owner = NULL
        BY <1>2, <1>7 DEF RowAgrees, Lapsed, IsAnswer
    <2>4. Shown(t).phase = "open" BY <1>7 DEF Shown, BoardPhase, Lapsed
    <2>5. Shown(t)' = [Shown(t) EXCEPT !.turn = @ + 1]
        BY <1>7, <2>2, <2>3 DEF Shown, BoardPhase, Lapsed, IsAnswer
    <2>6. Board!Lapse(t) BY <1>1, <2>4, <2>5 DEF Board!Lapse
    <2> QED BY <2>6 DEF Board!Step
<1>8. CASE Answered(t)
    <2> DEFINE m == tasks'[t].submitted
    <2>1. m \in Messages /\ messages[m].type = "NONE" BY <1>8 DEF Answered
    <2>2. ASSUME NEW q \in Tasks PROVE b[q].answer # m
        <3>1. b[q].answer = tasks[q].submitted BY ShownIsBoard DEF Shown
        <3>2. RowAgrees(tasks[q], q) BY DEF RowsAgree
        <3>3. CASE IsAnswer(tasks[q].status)
            BY <2>1, <3>1, <3>2, <3>3 DEF RowAgrees
        <3>4. CASE ~IsAnswer(tasks[q].status)
            BY <2>1, <3>1, <3>2, <3>4, NullAssumption DEF RowAgrees
        <3> QED BY <3>3, <3>4
    <2>3. /\ tasks'[t].claim = tasks[t].claim /\ tasks[t].claim = Len(claims[t])
        <3>1. tasks'[t].claim = Len(claims'[t])
            BY <1>2, <1>8 DEF RowAgrees, Answered, IsAnswer
        <3> QED BY <1>2, <1>8, <3>1 DEF RowAgrees, Answered
    <2>4. /\ Shown(t) = [phase |-> "held", poster |-> tasks[t].createdBy,
                          holder |-> tasks[t].owner, turn |-> Len(claims[t]),
                          answer |-> tasks[t].submitted, by |-> NULL, answeredIn |-> 0]
          /\ Shown(t)' = [phase |-> "answered", poster |-> tasks[t].createdBy,
                          holder |-> tasks[t].owner, turn |-> Len(claims[t]),
                          answer |-> m, by |-> tasks[t].owner,
                          answeredIn |-> Len(claims[t])]
        BY <1>8, <2>3 DEF Shown, BoardPhase, Answered, IsAnswer
    <2> HIDE DEF m
    <2>5. s = [r EXCEPT !.phase = "answered", !.answer = s.answer,
                        !.by = r.holder, !.answeredIn = r.turn]
        <3>1. /\ s.phase = "answered" /\ s.by = r.holder /\ s.answeredIn = r.turn
              /\ s.turn = r.turn /\ s.holder = r.holder /\ s.poster = r.poster
            BY <1>r, <1>s, <2>4
        <3> QED BY <3>1, AnswerRow
    <2>6. r.phase = "held" /\ s.answer = m BY <1>r, <1>s, <2>4
    <2>7. \A q \in Tasks : b[q].answer # s.answer BY <2>2, <2>6
    <2>8. Board!Answer(t) BY <1>b, <2>1, <2>5, <2>6, <2>7, Zenon DEF Board!Answer
    <2> QED BY <2>8 DEF Board!Step
<1>9. CASE Decided(t)
    <2>1. messages[tasks[t].submitted].sender = tasks[t].owner
        BY <1>2, <1>9 DEF RowAgrees, Decided, IsAnswer
    <2>2. tasks'[t].claim = tasks[t].claim
        BY <1>2, <1>9 DEF RowAgrees, Decided, IsAnswer
    <2>3. /\ Shown(t).phase = "answered" /\ Shown(t).by = tasks[t].owner
          /\ Shown(t).poster = tasks[t].createdBy
        BY <1>9 DEF Shown, BoardPhase, Decided, IsAnswer
    <2>4. BoardPhase(t)' \in {"accepted", "refused"} BY <1>9 DEF BoardPhase, Decided
    <2>5. Shown(t)' = [Shown(t) EXCEPT !.phase = BoardPhase(t)']
        BY <1>9, <2>2 DEF Shown, Decided, IsAnswer
    <2>6. Shown(t).by # Shown(t).poster BY <1>9, <2>1, <2>3 DEF Decided
    <2>7. Board!Decide(t) BY <1>1, <2>3, <2>4, <2>5, <2>6 DEF Board!Decide
    <2> QED BY <2>7 DEF Board!Step
<1> QED BY <1>4, <1>5, <1>6, <1>7, <1>8, <1>9 DEF Moves

\* An empty table is an empty board.
LEMMA InitRefines == Init => Board!Init
<1> SUFFICES ASSUME Init, NEW t \in Tasks PROVE BoardOf(t) = Board!Blank
    BY DEF Board!Init
<1>1. tasks[t] = NoTask /\ Len(claims[t]) = 0 BY DEF Init
<1> QED BY <1>1 DEF BoardOf, BoardPhase, NoTask, NoId, Board!Blank

\* Behind clocks, leases, retries, alerts and restarts there is a board: a task
\* is held, answered once in the current turn, and decided once by its poster
\* (tasks.go, messages.go Insert, verification_queue.go).
THEOREM BoardImplemented == Spec => ImplementsBoard
<1>1. /\ TypeOK /\ RowsAgree /\ TypeOK' /\ RowsAgree'
      /\ [Next]_vars
      => [Board!Next]_([t \in Tasks |-> BoardOf(t)])
    <2> SUFFICES ASSUME TypeOK, RowsAgree, TypeOK', RowsAgree', [Next]_vars
        PROVE  Board!Next
        OBVIOUS
    <2> DEFINE b == [t \in Tasks |-> BoardOf(t)]
    <2>1. \A t \in Tasks : b'[t] = b[t] \/ Board!Step(t)
        BY EveryStepMoves, MoveRefines
    <2>2. b' = [t \in Tasks |-> b'[t]] OBVIOUS
    <2> QED BY <2>1, <2>2 DEF Board!Next
<1>2. Spec => [](TypeOK /\ RowsAgree) BY TypeCorrect, TablesAgree, PTL
<1> QED BY <1>1, <1>2, InitRefines, PTL DEF Spec, ImplementsBoard, Board!Spec

-----------------------------------------------------------------------------
(* What one step may do to one job of the queue *)

\* Nothing but times.
JobKept(t) ==
    /\ jobs'[t].message = jobs[t].message
    /\ jobs'[t].done = jobs[t].done
    /\ jobs'[t].attempts = jobs[t].attempts
    /\ jobs'[t].attempt = jobs[t].attempt
    /\ attempts'[t] = attempts[t]

\* Added with the result.
JobAdded(t) ==
    /\ tasks[t].status = "CLAIMED" /\ jobs[t].message = NULL
    /\ jobs'[t].message # NULL
    /\ ~jobs'[t].done
    /\ jobs'[t].attempts = 0 /\ jobs'[t].attempt = NoId
    /\ attempts'[t] = attempts[t]

\* Handed out, after the last lease of it.
JobLeased(t) ==
    /\ jobs[t].message # NULL /\ jobs[t].lease <= Now
    /\ jobs'[t].message = jobs[t].message
    /\ jobs'[t].done = jobs[t].done
    /\ jobs'[t].attempts = jobs[t].attempts + 1
    /\ jobs'[t].attempt = attempts[t] + 1
    /\ attempts'[t] = attempts[t] + 1

\* Ended with a verdict that names the attempt under lease, if there is one.
JobFinished(t) ==
    /\ tasks[t].status = "SUBMITTED"
    /\ jobs'[t].message = jobs[t].message
    /\ jobs'[t].attempts = jobs[t].attempts
    /\ jobs'[t].attempt = NoId
    /\ attempts'[t] = attempts[t]
    /\ \E v \in verifications' :
          /\ v.task = t
          /\ jobs[t].attempt # NoId /\ jobs[t].lease > Now => v.attempt = jobs[t].attempt
          /\ jobs'[t].done = (v.verdict # "inconclusive")

\* Restarted by the operator.
JobRetried(t) ==
    /\ Exhausted(t, Now)
    /\ jobs'[t].message = jobs[t].message
    /\ jobs'[t].done = jobs[t].done
    /\ jobs'[t].attempts = 0 /\ jobs'[t].attempt = NoId
    /\ attempts'[t] = attempts[t]
    /\ \E u \in UpdateIds : retries[u] = NULL /\ retries'[u] = t

JobMoves(t) ==
    JobKept(t) \/ JobAdded(t) \/ JobLeased(t) \/ JobFinished(t) \/ JobRetried(t)

\* A job that no step touches is kept.
LEMMA SameJob ==
    ASSUME NEW t \in Tasks, jobs'[t] = jobs[t], attempts'[t] = attempts[t]
    PROVE  JobKept(t)
BY DEF JobKept

\* A RESULT adds a job, and touches no other.
LEMMA ResultJob ==
    ASSUME TypeOK, NEW a \in Agents, NEW r \in Agents, NEW m \in Messages,
           NEW s \in Tasks, NEW n \in 1..MaxClaims, InsertResult(a, r, m, s, n),
           NEW t \in Tasks
    PROVE  (t = s => JobAdded(t)) /\ (t # s => JobKept(t))
<1>1. PICK x \in 0..Now :
          jobs' = [jobs EXCEPT ![s] = [NoJob EXCEPT !.message = m, !.next = x]]
    BY DEF InsertResult
<1>2. attempts' = attempts /\ tasks[s].status = "CLAIMED" /\ jobs[s].message = NULL
    BY DEF InsertResult, LiveClaim
<1>3. CASE t = s
    <2>1. jobs'[t] = [NoJob EXCEPT !.message = m, !.next = x]
        BY <1>1, <1>3 DEF TypeOK
    <2>2. /\ jobs'[t].message = m /\ ~jobs'[t].done
          /\ jobs'[t].attempts = 0 /\ jobs'[t].attempt = NoId
        BY <2>1 DEF NoJob
    <2> QED BY <1>2, <1>3, <2>2 DEF JobAdded
<1>4. CASE t # s BY <1>1, <1>2, <1>4, SameJob DEF TypeOK
<1> QED BY <1>3, <1>4

\* The queue hands out one job, whose last lease is over.
LEMMA LeasedJob ==
    ASSUME TypeOK, NEW c \in calls, FinishClaimVerification(c), NEW t \in Tasks
    PROVE  JobKept(t) \/ JobLeased(t)
<1>1. c.now \in 0..Now
    BY DEF TypeOK, Call
<1>2. ASSUME NEW s \in Tasks, Due(s, c.agent, c.now), NEW x, NEW y,
             attempts' = [attempts EXCEPT ![s] = @ + 1],
             jobs' = [jobs EXCEPT ![s] =
                 [jobs[s] EXCEPT !.attempts = jobs[s].attempts + 1,
                     !.attempt = attempts[s] + 1, !.lease = x, !.next = y]]
      PROVE  JobKept(t) \/ JobLeased(t)
    <2>1. CASE s = t
        <3>1. jobs[t].message # NULL /\ jobs[t].lease <= Now
            BY <1>1, <1>2, <2>1 DEF Due, Now, TypeOK, JobRow
        <3>2. /\ jobs'[t].message = jobs[t].message
              /\ jobs'[t].done = jobs[t].done
              /\ jobs'[t].attempts = jobs[t].attempts + 1
              /\ jobs'[t].attempt = attempts[t] + 1
              /\ attempts'[t] = attempts[t] + 1
            BY <1>2, <2>1 DEF TypeOK, JobRow
        <3> QED BY <3>1, <3>2 DEF JobLeased
    <2>2. CASE s # t BY <1>2, <2>2, SameJob DEF TypeOK
    <2> QED BY <2>1, <2>2
<1>3. \/ UNCHANGED <<jobs, attempts>>
      \/ \E s \in Tasks :
            /\ Due(s, c.agent, c.now)
            /\ attempts' = [attempts EXCEPT ![s] = @ + 1]
            /\ jobs' = [jobs EXCEPT ![s] =
                 [jobs[s] EXCEPT !.attempts = jobs[s].attempts + 1,
                     !.attempt = attempts[s] + 1,
                     !.lease = c.now + VerificationLease,
                     !.next = c.now + VerificationLease
                                + VerificationBackoff(jobs[s].attempts + 1)]]
    BY DEF FinishClaimVerification, jobVars
<1> QED BY <1>2, <1>3, SameJob

\* A verdict ends the attempt under lease, and touches no other job.
LEMMA FinishedJobMoves ==
    ASSUME TypeOK, RowsAgree, NEW a \in Agents, NEW s \in Tasks, NEW m \in Messages,
           NEW v \in Verdicts, NEW n \in 0..attempts[s], Verify(a, s, m, n, v),
           NEW t \in Tasks
    PROVE  /\ t = s => JobFinished(t) /\ jobs'[t].done = (v # "inconclusive")
           /\ t # s => JobKept(t)
<1>1. /\ tasks[s].status = "SUBMITTED" /\ attempts' = attempts
      /\ jobs' = [jobs EXCEPT ![s] = FinishedJob(s, v)] /\ MayFinish(s, n)
    BY DEF Verify
<1>2. CASE t = s
    <2>1. jobs[s].message # NULL
        <3>1. RowAgrees(tasks[s], s) BY DEF RowsAgree
        <3>2. jobs[s].message \in Messages BY <1>1, <3>1 DEF RowAgrees, IsAnswer
        <3> QED BY <3>2
    <2>2. PICK y : FinishedJob(s, v) = [jobs[s] EXCEPT !.done = (v # "inconclusive"),
                        !.attempt = NoId, !.lease = NoTime, !.next = y]
        BY <2>1 DEF FinishedJob
    <2>3. jobs'[t] = [jobs[s] EXCEPT !.done = (v # "inconclusive"),
                        !.attempt = NoId, !.lease = NoTime, !.next = y]
        BY <1>1, <1>2, <2>2 DEF TypeOK
    <2>4. /\ jobs'[t].message = jobs[t].message
          /\ jobs'[t].attempts = jobs[t].attempts
          /\ jobs'[t].attempt = NoId
        BY <1>2, <2>3 DEF TypeOK, JobRow
    <2>5. jobs'[t].done = (v # "inconclusive")
        BY <1>2, <2>3 DEF TypeOK, JobRow
    <2>6. \E w \in verifications' :
              /\ w.task = t
              /\ jobs[t].attempt # NoId /\ jobs[t].lease > Now => w.attempt = jobs[t].attempt
              /\ jobs'[t].done = (w.verdict # "inconclusive")
        <3> DEFINE w == [task |-> s, verifier |-> a, target |-> m, verdict |-> v,
                         attempt |-> n]
        <3>1. w \in verifications' BY DEF Verify
        <3>2. w.task = s /\ w.attempt = n /\ w.verdict = v OBVIOUS
        <3>3. jobs[t].attempt # NoId /\ jobs[t].lease > Now => n = jobs[t].attempt
            BY <1>1, <1>2 DEF MayFinish
        <3> HIDE DEF w
        <3> QED BY <1>2, <2>5, <3>1, <3>2, <3>3
    <2> QED BY <1>1, <1>2, <2>4, <2>5, <2>6 DEF JobFinished
<1>3. CASE t # s BY <1>1, <1>3, SameJob DEF TypeOK
<1> QED BY <1>2, <1>3

\* The operator restarts an exhausted job, and touches no other.
LEMMA RetriedJob ==
    ASSUME TypeOK, NEW u \in UpdateIds, NEW s \in Tasks, RetryVerification(u, s),
           NEW t \in Tasks
    PROVE  (t = s => JobRetried(t)) /\ (t # s => JobKept(t))
<1>1. /\ retries[u] = NULL /\ Exhausted(s, Now) /\ attempts' = attempts
      /\ jobs' = [jobs EXCEPT ![s] =
             [jobs[s] EXCEPT !.attempts = 0, !.next = Now, !.attempt = NoId,
                             !.lease = NoTime]]
      /\ retries' = [retries EXCEPT ![u] = s]
    BY DEF RetryVerification
<1>2. CASE t = s
    <2>1. jobs'[t] = [jobs[s] EXCEPT !.attempts = 0, !.next = Now, !.attempt = NoId,
                                    !.lease = NoTime]
        BY <1>1, <1>2 DEF TypeOK
    <2>2. /\ jobs'[t].message = jobs[t].message
          /\ jobs'[t].done = jobs[t].done
          /\ jobs'[t].attempts = 0 /\ jobs'[t].attempt = NoId
        BY <1>2, <2>1 DEF TypeOK, JobRow
    <2>3. retries'[u] = s BY <1>1 DEF TypeOK
    <2> QED BY <1>1, <1>2, <2>2, <2>3 DEF JobRetried
<1>3. CASE t # s BY <1>1, <1>3, SameJob DEF TypeOK
<1> QED BY <1>2, <1>3

\* Every step moves each job at most once.
LEMMA EveryJobMoves ==
    ASSUME TypeOK, RowsAgree, [Next]_vars, NEW t \in Tasks
    PROVE  JobMoves(t)
<1> USE DEF jobVars, alertVars, taskVars
<1>1. CASE UNCHANGED <<jobs, attempts>>
    BY <1>1, SameJob DEF JobMoves
<1>2. CASE TaskStep
    BY <1>1, <1>2 DEF TaskStep, RequeueExpired, Create, BeginClaim, FinishClaim,
       BeginHeartbeat, FinishHeartbeat
<1>3. CASE MessageStep
    BY <1>1, <1>3, ResultJob DEF MessageStep, InsertOther, JobMoves
<1>4. CASE VerificationStep
    BY <1>1, <1>4, LeasedJob, FinishedJobMoves
       DEF VerificationStep, BeginClaimVerification, JobMoves
<1>5. CASE OperatorStep
    BY <1>1, <1>5, RetriedJob DEF OperatorStep, ClaimVerificationAlert, SendAccepted,
       SendFailed, MarkVerificationAlertSent, JobMoves
<1>6. CASE Restart
    <2>1. tasks[t].status = "SUBMITTED" => jobs[t].message = tasks[t].submitted
        BY DEF RowsAgree, RowAgrees, IsAnswer
    <2>2. jobs'[t] = jobs[t] /\ attempts'[t] = attempts[t]
        BY <1>6, <2>1 DEF Restart
    <2> QED BY <2>2, SameJob DEF JobMoves
<1>7. CASE Tick
    <2>1. /\ jobs[t] \in JobRow
          /\ jobs'[t] = [jobs[t] EXCEPT !.lease = Aged(jobs[t].lease),
                                       !.next = Aged(jobs[t].next)]
        BY <1>7 DEF Tick, TypeOK
    <2>2. JobKept(t) BY <1>7, <2>1 DEF JobRow, JobKept, Tick
    <2> QED BY <2>2 DEF JobMoves
<1>8. CASE UNCHANGED tables
    BY <1>1, <1>8 DEF tables
<1> QED BY <1>2, <1>3, <1>4, <1>5, <1>6, <1>7, <1>8, ProjectLeaves DEF Next

-----------------------------------------------------------------------------
(* The queue against the attempts                                          *)

\* What the attempt_id of a job can be.
AttemptNamed ==
    \A t \in Tasks :
        /\ jobs[t].attempt \in {NoId, attempts[t]}
        /\ jobs[t].message = NULL => jobs[t].attempt = NoId

\* Only the queue names an attempt, and it names the newest.
LEMMA NextNamed == TypeOK /\ RowsAgree /\ AttemptNamed /\ [Next]_vars => AttemptNamed'
<1> SUFFICES ASSUME TypeOK, RowsAgree, AttemptNamed, [Next]_vars, NEW t \in Tasks
    PROVE  /\ jobs'[t].attempt \in {NoId, attempts'[t]}
           /\ jobs'[t].message = NULL => jobs'[t].attempt = NoId
    BY DEF AttemptNamed
<1>1. /\ jobs[t].attempt \in {NoId, attempts[t]}
      /\ jobs[t].message = NULL => jobs[t].attempt = NoId
    BY DEF AttemptNamed
<1> QED BY <1>1, EveryJobMoves DEF JobMoves, JobKept, JobAdded, JobLeased, JobFinished, JobRetried

\* The attempt under lease is the last one handed out.
LEMMA AttemptsNamed == Spec => []AttemptNamed
<1>1. Init => AttemptNamed BY DEF Init, AttemptNamed, NoJob
<1> QED BY <1>1, NextNamed, TypeCorrect, TablesAgree, PTL DEF Spec

\* The verdicts a step adds are one at most, with the attempt under lease or none.
LEMMA VerdictsNamed ==
    ASSUME AttemptNamed, [Next]_vars, NEW w \in verifications' \ verifications
    PROVE  w.attempt # NoId => w.attempt = attempts[w.task]
<1> USE DEF jobVars, alertVars, taskVars
<1>1. ASSUME NEW a \in Agents, NEW s \in Tasks, NEW m \in Messages, NEW v \in Verdicts,
             NEW n \in 0..attempts[s], Verify(a, s, m, n, v)
      PROVE  w.attempt # NoId => w.attempt = attempts[w.task]
    <2>1. w = [task |-> s, verifier |-> a, target |-> m, verdict |-> v, attempt |-> n]
        BY <1>1 DEF Verify
    <2>2. w.attempt = n /\ w.task = s BY <2>1
    <2>3. n # NoId => n = jobs[s].attempt BY <1>1 DEF Verify, MayFinish
    <2> QED BY <2>2, <2>3 DEF AttemptNamed
<1>2. CASE verifications' = verifications BY <1>2
<1>3. CASE VerificationStep
    BY <1>1, <1>2, <1>3 DEF VerificationStep, BeginClaimVerification, FinishClaimVerification
<1>4. CASE TaskStep \/ MessageStep \/ OperatorStep \/ Restart \/ Tick \/ UNCHANGED tables
    BY <1>2, <1>4 DEF TaskStep, RequeueExpired, Create, BeginClaim, FinishClaim,
       BeginHeartbeat, FinishHeartbeat, MessageStep, InsertResult, InsertOther,
       OperatorStep, RetryVerification, ClaimVerificationAlert, SendAccepted,
       SendFailed, MarkVerificationAlertSent, Restart, Tick, tables
<1> QED BY <1>3, <1>4, ProjectLeaves DEF Next

\* Tasks, messages and verdicts leave the alerts alone.
LEMMA OthersAlert ==
    ASSUME TaskStep \/ MessageStep \/ VerificationStep
    PROVE  UNCHANGED alertVars
<1>1. CASE TaskStep
    BY <1>1 DEF TaskStep, RequeueExpired, Create, BeginClaim, FinishClaim,
       BeginHeartbeat, FinishHeartbeat, alertVars
<1>2. CASE MessageStep
    BY <1>2 DEF MessageStep, InsertResult, InsertOther, alertVars
<1>3. CASE VerificationStep
    <2>1. ASSUME NEW a \in Agents, NEW s \in Tasks, NEW m \in Messages, NEW v \in Verdicts,
                 NEW n \in 0..attempts[s], Verify(a, s, m, n, v)
          PROVE  UNCHANGED alertVars
        BY <2>1 DEF Verify
    <2>2. ASSUME NEW a \in Agents, BeginClaimVerification(a)
          PROVE  UNCHANGED alertVars
        BY <2>2 DEF BeginClaimVerification
    <2>3. ASSUME NEW c \in calls, FinishClaimVerification(c)
          PROVE  UNCHANGED alertVars
        BY <2>3 DEF FinishClaimVerification
    <2> QED BY <1>3, <2>1, <2>2, <2>3 DEF VerificationStep
<1> QED BY <1>1, <1>2, <1>3

\* The operator is not alerted about an attempt that runs.
LEMMA RunningNotAlerted ==
    ASSUME TypeOK, [Next]_vars, NEW t \in Tasks, jobs[t].attempt # NoId, jobs[t].lease > Now
    PROVE  alerts'[t].token \in {alerts[t].token, NULL}
<1> USE DEF jobVars, alertVars, taskVars
<1>a. jobs[t].lease \in Nat /\ Now \in Nat /\ alerts[t] \in AlertRow
    BY DEF TypeOK, JobRow, Now
<1>1. CASE alerts' = alerts BY <1>1
<1>2. CASE TaskStep \/ MessageStep \/ VerificationStep \/ Restart \/ UNCHANGED tables
    BY <1>1, <1>2, OthersAlert DEF Restart, tables
<1>3. CASE Tick
    <2>1. alerts'[t] = [alerts[t] EXCEPT !.lease = Aged(alerts[t].lease)] BY <1>3 DEF Tick
    <2> QED BY <1>a, <2>1 DEF AlertRow
<1>4. CASE SendAccepted \/ SendFailed BY <1>1, <1>4 DEF SendAccepted, SendFailed
<1>5. ASSUME NEW u \in UpdateIds, NEW s \in Tasks, RetryVerification(u, s)
      PROVE  alerts'[t].token \in {alerts[t].token, NULL}
    <2>1. alerts' = [alerts EXCEPT ![s] = NewAlert] BY <1>5 DEF RetryVerification
    <2> QED BY <2>1 DEF TypeOK, NewAlert
<1>6. ASSUME NEW s \in Tasks, NEW k \in Tokens, ClaimVerificationAlert(s, k)
      PROVE  alerts'[t].token \in {alerts[t].token, NULL}
    <2>1. s # t BY <1>a, <1>6 DEF ClaimVerificationAlert, Exhausted
    <2>2. alerts'[t] = alerts[t] BY <1>6, <2>1 DEF ClaimVerificationAlert, TypeOK
    <2> QED BY <2>2
<1>7. CASE MarkVerificationAlertSent
    <2> DEFINE marked == [sent |-> TRUE, lease |-> NoTime, token |-> NULL]
    <2>1. alerts' = alerts \/ alerts' = [alerts EXCEPT ![sending.task] = marked]
        BY <1>7 DEF MarkVerificationAlertSent
    <2>2. marked.token = NULL OBVIOUS
    <2> HIDE DEF marked
    <2>3. alerts'[t] = alerts[t] \/ alerts'[t] = marked BY <2>1 DEF TypeOK
    <2> QED BY <2>2, <2>3
<1> QED BY <1>2, <1>3, <1>4, <1>5, <1>6, <1>7, ProjectLeaves DEF Next, OperatorStep

\* A late process cannot commit a verdict for an attempt that is not the
\* leased one (verification_queue.go finishVerificationJob), and an attempt that
\* runs is neither reset nor alerted about (verification_operator.go).
THEOREM LateRefused == Spec => LateAttemptsNeverCommit
<1>1. TypeOK /\ RowsAgree /\ AttemptNamed /\ [Next]_vars =>
        [\A t \in Tasks :
            /\ \A v \in verifications' \ verifications :
                  v.attempt # NoId => v.attempt = attempts[v.task]
            /\ jobs[t].attempt # NoId /\ jobs[t].lease > Now =>
                  /\ jobs'[t].attempt # jobs[t].attempt =>
                        \E v \in verifications' : v.task = t /\ v.attempt = jobs[t].attempt
                  /\ alerts'[t].token \in {alerts[t].token, NULL}]_vars
    <2> SUFFICES ASSUME TypeOK, RowsAgree, AttemptNamed, [Next]_vars, NEW t \in Tasks
        PROVE  /\ \A v \in verifications' \ verifications :
                      v.attempt # NoId => v.attempt = attempts[v.task]
               /\ jobs[t].attempt # NoId /\ jobs[t].lease > Now =>
                     /\ jobs'[t].attempt # jobs[t].attempt =>
                           \E v \in verifications' : v.task = t /\ v.attempt = jobs[t].attempt
                     /\ alerts'[t].token \in {alerts[t].token, NULL}
        OBVIOUS
    <2>1. \A v \in verifications' \ verifications :
              v.attempt # NoId => v.attempt = attempts[v.task]
        BY VerdictsNamed
    <2>2. ASSUME jobs[t].attempt # NoId, jobs[t].lease > Now, jobs'[t].attempt # jobs[t].attempt
          PROVE  \E v \in verifications' : v.task = t /\ v.attempt = jobs[t].attempt
        <3>1. jobs[t].message # NULL BY <2>2 DEF AttemptNamed
        <3>2. jobs[t].lease \in Nat /\ Now \in Nat BY DEF TypeOK, JobRow, Now
        <3>3. JobFinished(t)
            BY <2>2, <3>1, <3>2, EveryJobMoves
               DEF JobMoves, JobKept, JobAdded, JobLeased, JobRetried, Exhausted
        <3> QED BY <2>2, <3>3 DEF JobFinished
    <2> QED BY <2>1, <2>2, RunningNotAlerted
<1> QED BY <1>1, TypeCorrect, TablesAgree, AttemptsNamed, PTL DEF Spec, LateAttemptsNeverCommit

\* A used update id stays with its task.
LEMMA LedgerStays ==
    ASSUME TypeOK, [Next]_vars, NEW u \in UpdateIds, retries[u] # NULL
    PROVE  retries'[u] = retries[u]
<1> USE DEF jobVars, alertVars, taskVars
<1>1. ASSUME NEW w \in UpdateIds, NEW s \in Tasks, RetryVerification(w, s)
      PROVE  retries'[u] = retries[u]
    BY <1>1 DEF RetryVerification, TypeOK
<1>2. CASE OperatorStep
    BY <1>1, <1>2 DEF OperatorStep, ClaimVerificationAlert, SendAccepted, SendFailed,
       MarkVerificationAlertSent
<1>3. CASE TaskStep \/ MessageStep \/ VerificationStep \/ Restart \/ Tick \/ UNCHANGED tables
    BY <1>3, OthersAlert DEF Restart, Tick, tables
<1> QED BY <1>2, <1>3, ProjectLeaves DEF Next

\* A replayed Telegram update cannot reset a later round of work
\* (verification_operator.go RetryVerification).
THEOREM ReplaysHarmless == Spec => RetryOncePerUpdate
<1>1. TypeOK /\ RowsAgree /\ [Next]_vars =>
        [/\ \A t \in Tasks : jobs'[t].attempts < jobs[t].attempts =>
              /\ Exhausted(t, Now)
              /\ \E u \in UpdateIds : retries[u] = NULL /\ retries'[u] = t
         /\ \A u \in UpdateIds : retries[u] # NULL => retries'[u] = retries[u]]_vars
    <2>1. ASSUME TypeOK, RowsAgree, [Next]_vars, NEW t \in Tasks,
                 jobs'[t].attempts < jobs[t].attempts
          PROVE  /\ Exhausted(t, Now)
                 /\ \E u \in UpdateIds : retries[u] = NULL /\ retries'[u] = t
        <3>1. jobs[t].attempts \in Nat BY <2>1 DEF TypeOK, JobRow
        <3>2. tasks[t].status = "CLAIMED" => jobs[t].attempts = 0
            BY <2>1 DEF RowsAgree, RowAgrees, IsAnswer
        <3>3. JobRetried(t)
            BY <2>1, <3>1, <3>2, EveryJobMoves
               DEF JobMoves, JobKept, JobAdded, JobLeased, JobFinished
        <3> QED BY <3>3 DEF JobRetried
    <2> QED BY <2>1, LedgerStays
<1> QED BY <1>1, TypeCorrect, TablesAgree, PTL DEF Spec, RetryOncePerUpdate

-----------------------------------------------------------------------------
(* Alerts                                                                  *)

\* What the alert loop may rely on between its claim and its mark: while the
\* alert still has its token, the round it was sent in is not over.
AlertsAgree ==
    /\ sending.accepted => sending.task \in Tasks /\ sending.token \in Tokens
    /\ sending.task # NULL => sending.token \in Tokens
    /\ sending.accepted /\ alerts[sending.task].token = sending.token
          => <<sending.task, Round(sending.task)>> \in delivered
    /\ SentMeansDelivered

\* Rounds are counted in the ledger alone.
LEMMA SameRounds ==
    ASSUME retries' = retries, NEW t
    PROVE  Round(t)' = Round(t)
BY DEF Round

\* Steps that leave the loop and what alerts say alone.
LEMMA AlertsKept ==
    ASSUME AlertsAgree, retries' = retries, sending' = sending, delivered' = delivered,
           \A t \in Tasks : /\ alerts'[t].sent = alerts[t].sent
                            /\ alerts'[t].token = alerts[t].token
    PROVE  AlertsAgree'
<1>1. \A t \in Tasks : Round(t)' = Round(t) BY SameRounds
<1> QED BY <1>1 DEF AlertsAgree, SentMeansDelivered

\* The steps of the operator and of the loop.
LEMMA OperatorAlerts == TypeOK /\ AlertsAgree /\ OperatorStep => AlertsAgree'
<1> SUFFICES ASSUME TypeOK, AlertsAgree, OperatorStep PROVE AlertsAgree'
    OBVIOUS
<1>1. ASSUME NEW u \in UpdateIds, NEW s \in Tasks, RetryVerification(u, s)
      PROVE  AlertsAgree'
    <2>1. /\ alerts' = [alerts EXCEPT ![s] = NewAlert]
          /\ sending' = sending /\ delivered' = delivered
        BY <1>1 DEF RetryVerification
    <2>2. \A t \in Tasks : t # s => Round(t)' = Round(t)
        BY <1>1, RetryEndsRound DEF RetryVerification
    <2>3. /\ ~alerts'[s].sent /\ alerts'[s].token = NULL
          /\ \A t \in Tasks : t # s => alerts'[t] = alerts[t]
        BY <2>1 DEF TypeOK, NewAlert
    <2>4. ASSUME sending.accepted, alerts'[sending.task].token = sending.token
          PROVE  <<sending.task, Round(sending.task)'>> \in delivered
        <3>1. sending.task \in Tasks /\ sending.token \in Tokens BY <2>4 DEF AlertsAgree
        <3>2. PICK x \in Tasks : x = sending.task BY <3>1
        <3>3. x # s BY <2>3, <2>4, <3>1, <3>2
        <3>4. Round(x)' = Round(x) /\ alerts'[x] = alerts[x] BY <2>2, <2>3, <3>3
        <3>5. <<x, Round(x)>> \in delivered BY <2>4, <3>2, <3>4 DEF AlertsAgree
        <3>6. sending'.task = x BY <2>1, <3>2
        <3>7. Round(sending.task)' = Round(x)' BY <3>6 DEF Round
        <3> QED BY <3>2, <3>4, <3>5, <3>7
    <2>5. \A t \in Tasks : alerts'[t].sent => <<t, Round(t)'>> \in delivered
        BY <2>2, <2>3 DEF AlertsAgree, SentMeansDelivered
    <2> QED BY <2>1, <2>4, <2>5 DEF AlertsAgree, SentMeansDelivered
<1>2. ASSUME retries' = retries, ~sending'.accepted,
             sending'.task # NULL => sending'.token \in Tokens,
             delivered' = delivered,
             \A t \in Tasks : alerts'[t].sent => <<t, Round(t)>> \in delivered
      PROVE  AlertsAgree'
    <2>1. \A t \in Tasks : Round(t)' = Round(t) BY <1>2, SameRounds
    <2> QED BY <1>2, <2>1 DEF AlertsAgree, SentMeansDelivered
<1>3. ASSUME NEW s \in Tasks, NEW k \in Tokens, ClaimVerificationAlert(s, k)
      PROVE  AlertsAgree'
    <2>1. /\ alerts' = [alerts EXCEPT ![s] =
                 [alerts[s] EXCEPT !.token = k, !.lease = Now + AlertLease]]
          /\ sending' = [task |-> s, token |-> k, accepted |-> FALSE]
          /\ retries' = retries /\ delivered' = delivered
        BY <1>3 DEF ClaimVerificationAlert
    <2>2. \A t \in Tasks : alerts'[t].sent = alerts[t].sent
        BY <2>1 DEF TypeOK, AlertRow
    <2>3. ~sending'.accepted /\ sending'.token \in Tokens BY <2>1
    <2> QED BY <1>2, <2>1, <2>2, <2>3 DEF AlertsAgree, SentMeansDelivered
<1>4. CASE SendAccepted
    <2>1. /\ sending.task \in Tasks /\ sending.token \in Tokens
          /\ sending'.task = sending.task /\ sending'.token = sending.token
          /\ retries' = retries /\ alerts' = alerts
          /\ delivered' = delivered \cup {<<sending.task, Round(sending.task)>>}
        BY <1>4 DEF SendAccepted, TypeOK, Sending, AlertsAgree
    <2>2. \A t \in Tasks : Round(t)' = Round(t) BY <2>1, SameRounds
    <2> QED BY <2>1, <2>2 DEF AlertsAgree, SentMeansDelivered
<1>5. NotSending.task = NULL /\ ~NotSending.accepted
    BY DEF NotSending
<1>6. CASE SendFailed
    BY <1>2, <1>5, <1>6 DEF SendFailed, AlertsAgree, SentMeansDelivered
<1>7. CASE MarkVerificationAlertSent
    <2>1. sending' = NotSending /\ retries' = retries /\ delivered' = delivered
        BY <1>7 DEF MarkVerificationAlertSent
    <2>2. ASSUME NEW t \in Tasks, alerts'[t].sent PROVE <<t, Round(t)>> \in delivered
        <3>1. sending.accepted /\ sending.task \in Tasks
            BY <1>7 DEF MarkVerificationAlertSent, AlertsAgree
        <3>2. CASE alerts[sending.task].token = sending.token
            <4>1. t # sending.task => alerts'[t] = alerts[t]
                BY <1>7, <3>1, <3>2 DEF MarkVerificationAlertSent, TypeOK
            <4> QED BY <2>2, <3>1, <3>2, <4>1 DEF AlertsAgree, SentMeansDelivered
        <3>3. CASE alerts[sending.task].token # sending.token
            <4>1. alerts' = alerts BY <1>7, <3>3 DEF MarkVerificationAlertSent
            <4> QED BY <2>2, <4>1 DEF AlertsAgree, SentMeansDelivered
        <3> QED BY <3>2, <3>3
    <2> QED BY <1>2, <1>5, <2>1, <2>2
<1> QED BY <1>1, <1>3, <1>4, <1>6, <1>7 DEF OperatorStep

\* Every step keeps what the loop relies on.
LEMMA NextAlerts == TypeOK /\ AlertsAgree /\ [Next]_vars => AlertsAgree'
<1> SUFFICES ASSUME TypeOK, AlertsAgree, [Next]_vars PROVE AlertsAgree'
    OBVIOUS
<1> USE DEF jobVars, alertVars, taskVars
<1>1. CASE UNCHANGED alertVars BY <1>1, AlertsKept
<1>2. CASE TaskStep \/ MessageStep \/ VerificationStep \/ UNCHANGED tables
    BY <1>1, <1>2, OthersAlert DEF tables
<1>3. CASE Restart
    <2>1. /\ sending' = NotSending /\ retries' = retries /\ delivered' = delivered
          /\ alerts' = alerts
        BY <1>3 DEF Restart
    <2>2. \A t \in Tasks : Round(t)' = Round(t) BY <2>1, SameRounds
    <2>3. NotSending.task = NULL /\ ~NotSending.accepted BY DEF NotSending
    <2> QED BY <2>1, <2>2, <2>3 DEF AlertsAgree, SentMeansDelivered
<1>4. CASE Tick
    <2>1. ASSUME NEW t \in Tasks
          PROVE  alerts'[t].sent = alerts[t].sent /\ alerts'[t].token = alerts[t].token
        <3>1. /\ alerts[t] \in AlertRow
              /\ alerts'[t] = [alerts[t] EXCEPT !.lease = Aged(alerts[t].lease)]
            BY <1>4 DEF Tick, TypeOK
        <3> QED BY <3>1 DEF AlertRow
    <2> QED BY <1>4, <2>1, AlertsKept DEF Tick
<1> QED BY <1>2, <1>3, <1>4, OperatorAlerts, ProjectLeaves DEF Next

\* An alert is marked as sent only in a round in which Telegram took it, even
\* when the sender is slow and the operator retries meanwhile
\* (verification_operator.go MarkVerificationAlertSent, its token).
THEOREM MarkedWhenTaken == Spec => []SentMeansDelivered
<1>1. Init => AlertsAgree
    BY DEF Init, AlertsAgree, SentMeansDelivered, NewAlert, NotSending
<1>2. AlertsAgree => SentMeansDelivered BY DEF AlertsAgree
<1> QED BY <1>1, <1>2, NextAlerts, TypeCorrect, PTL DEF Spec

-----------------------------------------------------------------------------
(* Verdicts                                                                *)

\* The part of DecidedByOneVerdict about one task.
Judged(t) ==
    /\ \A v, w \in Decisive(t) : v = w
    /\ \A v \in Decisive(t) :
          /\ tasks[t].status = StatusAfter(v.verdict)
          /\ v.target = tasks[t].submitted
          /\ v.verifier = tasks[t].createdBy
          /\ v.verifier # tasks[t].owner
    /\ tasks[t].status \in {"COMPLETED", "FAILED"} => Decisive(t) # {} /\ jobs[t].done
    /\ tasks[t].status = "SUBMITTED" => ~jobs[t].done

\* Without a new verdict a judgement stands.
LEMMA JudgementStands ==
    ASSUME TypeOK, RowsAgree, NEW t \in Tasks, Judged(t), Moves(t),
           verifications' = verifications,
           JobAdded(t) \/ jobs'[t].done = jobs[t].done,
           JobAdded(t) \/ ~Answered(t)
    PROVE  Judged(t)'
<1>1. Decisive(t)' = Decisive(t) BY DEF Decisive
<1>2. ~IsAnswer(tasks[t].status) => Decisive(t) = {}
    <2>1. RowAgrees(tasks[t], t) BY DEF RowsAgree
    <2> QED BY <2>1 DEF RowAgrees, Decisive
<1>3. CASE Quiet(t) /\ jobs'[t].done = jobs[t].done
    BY <1>1, <1>2, <1>3 DEF Quiet, Judged, IsAnswer
<1>4. CASE Posted(t) \/ Taken(t) \/ Lapsed(t)
    BY <1>1, <1>2, <1>4 DEF Posted, Taken, Lapsed, Judged, IsAnswer
<1>5. CASE Answered(t)
    BY <1>1, <1>2, <1>5 DEF Answered, Judged, IsAnswer, JobAdded
<1>6. CASE Decided(t)
    <2>1. PICK v \in verifications : v.task = t /\ tasks'[t].status = StatusAfter(v.verdict)
        BY <1>6 DEF Decided
    <2>2. v \in Decisive(t) BY <1>6, <2>1 DEF Decided, Decisive, StatusAfter
    <2> QED BY <1>6, <2>1, <2>2 DEF Judged, Decided
<1>7. CASE Quiet(t) /\ JobAdded(t)
    BY <1>1, <1>2, <1>7 DEF Quiet, Judged, IsAnswer, JobAdded
<1> QED BY <1>3, <1>4, <1>5, <1>6, <1>7 DEF Moves

\* Every step that adds no verdict.
LEMMA JudgedOtherwise ==
    ASSUME TypeOK, RowsAgree, RowsAgree', [Next]_vars, NEW t \in Tasks, Judged(t),
           verifications' = verifications
    PROVE  Judged(t)'
<1>1. Moves(t) /\ JobMoves(t) BY EveryStepMoves, EveryJobMoves
<1>2. RowAgrees(tasks[t], t) /\ RowAgrees(tasks[t], t)' BY DEF RowsAgree
<1>3. CASE JobAdded(t) BY <1>1, <1>3, JudgementStands
<1>4. CASE ~JobAdded(t)
    <2>1. ASSUME Answered(t) PROVE FALSE
        <3>1. jobs[t].message = NULL BY <1>2, <2>1 DEF RowAgrees, Answered, IsAnswer
        <3>2. jobs'[t].message \in Messages
            BY <1>2, <2>1 DEF RowAgrees, Answered, IsAnswer
        <3>3. jobs'[t].message = jobs[t].message
            BY <1>1, <1>4 DEF JobMoves, JobKept, JobLeased, JobFinished, JobRetried
        <3> QED BY <3>1, <3>2, <3>3
    <2>2. ASSUME JobFinished(t) PROVE jobs'[t].done = jobs[t].done
        <3>1. PICK v \in verifications :
                  v.task = t /\ jobs'[t].done = (v.verdict # "inconclusive")
            BY <2>2 DEF JobFinished
        <3>2. v.verdict \in Verdicts BY DEF TypeOK, VerificationRow
        <3>3. tasks[t].status = "SUBMITTED" BY <2>2 DEF JobFinished
        <3>4. v.verdict = "inconclusive"
            BY <3>1, <3>2, <3>3 DEF Judged, Decisive, StatusAfter, Verdicts
        <3>5. jobs[t].done = FALSE BY <3>3 DEF Judged, TypeOK, JobRow
        <3> QED BY <3>1, <3>4, <3>5
    <2>3. jobs'[t].done = jobs[t].done
        BY <1>1, <1>4, <2>2 DEF JobMoves, JobKept, JobLeased, JobRetried
    <2> QED BY <1>1, <2>1, <2>3, JudgementStands
<1> QED BY <1>3, <1>4

\* A verdict.
LEMMA VerifyJudged ==
    ASSUME TypeOK, RowsAgree, NEW a \in Agents, NEW s \in Tasks, NEW m \in Messages,
           NEW v \in Verdicts, NEW n \in 0..attempts[s], Verify(a, s, m, n, v),
           NEW t \in Tasks, Judged(t)
    PROVE  Judged(t)'
<1> DEFINE w == [task |-> s, verifier |-> a, target |-> m, verdict |-> v, attempt |-> n]
<1>1. /\ verifications' = verifications \cup {w}
      /\ tasks[s].status = "SUBMITTED" /\ tasks[s].submitted = m
      /\ tasks[s].createdBy = a /\ messages[m].sender # a
    BY DEF Verify
<1>2. /\ w.task = s /\ w.verifier = a /\ w.target = m /\ w.verdict = v
    OBVIOUS
<1> HIDE DEF w
<1>3. n \in Nat BY DEF TypeOK
<1>4. CASE t # s
    <2>1. Decisive(t)' = Decisive(t) BY <1>1, <1>2, <1>4 DEF Decisive
    <2>2. Quiet(t) /\ jobs'[t].done = jobs[t].done
        <3>1. Quiet(t) BY <1>3, <1>4, VerifyMoves
        <3>2. JobKept(t) BY <1>4, FinishedJobMoves
        <3> QED BY <3>1, <3>2 DEF JobKept
    <2>3. tasks[t].status = "CLAIMED" => Decisive(t) = {}
        <3>1. RowAgrees(tasks[t], t) BY DEF RowsAgree
        <3> QED BY <3>1 DEF RowAgrees, IsAnswer, Decisive
    <2> QED BY <2>1, <2>2, <2>3 DEF Quiet, Judged
<1>5. CASE t = s
    <2>1. tasks'[t] = [tasks[s] EXCEPT !.status = StatusAfter(v)]
        BY <1>3, <1>5, VerifyMoves
    <2>2. /\ tasks'[t].status = StatusAfter(v)
          /\ tasks'[t].submitted = m /\ tasks'[t].createdBy = a
          /\ tasks'[t].owner = tasks[t].owner
        BY <1>1, <1>5, <2>1 DEF TypeOK, TaskRow
    <2>3. jobs'[t].done = (v # "inconclusive") BY <1>5, FinishedJobMoves
    <2>4. Decisive(t) = {}
        <3> SUFFICES ASSUME NEW x \in Decisive(t) PROVE FALSE
            OBVIOUS
        <3>1. x.verdict \in Verdicts /\ x.verdict # "inconclusive"
            BY DEF Decisive, TypeOK, VerificationRow
        <3>2. StatusAfter(x.verdict) = "SUBMITTED" BY <1>1, <1>5 DEF Judged
        <3> QED BY <3>1, <3>2 DEF StatusAfter, Verdicts
    <2>5. tasks[t].owner = messages[m].sender
        <3>1. RowAgrees(tasks[t], t) BY DEF RowsAgree
        <3>2. messages[m] = [type |-> "RESULT", sender |-> tasks[t].owner, task |-> t,
                             claim |-> tasks[t].claim]
            BY <1>1, <1>5, <3>1 DEF RowAgrees, IsAnswer
        <3> QED BY <3>2
    <2>6. CASE v = "inconclusive"
        <3>1. Decisive(t)' = {} BY <1>1, <1>2, <2>4, <2>6 DEF Decisive
        <3> QED BY <2>2, <2>3, <2>6, <3>1 DEF Judged, StatusAfter
    <2>7. CASE v # "inconclusive"
        <3>1. Decisive(t)' = {w} BY <1>1, <1>2, <1>5, <2>4, <2>7 DEF Decisive
        <3>2. StatusAfter(v) \in {"COMPLETED", "FAILED"} BY <2>7 DEF StatusAfter, Verdicts
        <3> QED BY <1>1, <1>2, <2>2, <2>3, <2>5, <2>7, <3>1, <3>2 DEF Judged
    <2> QED BY <2>6, <2>7
<1> QED BY <1>4, <1>5

\* Every step keeps every judgement.
LEMMA NextJudged ==
    TypeOK /\ RowsAgree /\ RowsAgree' /\ DecidedByOneVerdict /\ [Next]_vars
        => DecidedByOneVerdict'
<1> SUFFICES ASSUME TypeOK, RowsAgree, RowsAgree', DecidedByOneVerdict, [Next]_vars,
                    NEW t \in Tasks
             PROVE  Judged(t)'
    BY DEF DecidedByOneVerdict, Judged
<1> USE DEF jobVars, alertVars, taskVars
<1>1. Judged(t) BY DEF DecidedByOneVerdict, Judged
<1>2. CASE verifications' = verifications BY <1>1, <1>2, JudgedOtherwise
<1>3. CASE VerificationStep
    BY <1>1, <1>2, <1>3, VerifyJudged
       DEF VerificationStep, BeginClaimVerification, FinishClaimVerification
<1>4. CASE TaskStep \/ MessageStep \/ OperatorStep \/ Restart \/ Tick \/ UNCHANGED tables
    BY <1>2, <1>4 DEF TaskStep, RequeueExpired, Create, BeginClaim, FinishClaim,
       BeginHeartbeat, FinishHeartbeat, MessageStep, InsertResult, InsertOther,
       OperatorStep, RetryVerification, ClaimVerificationAlert, SendAccepted,
       SendFailed, MarkVerificationAlertSent, Restart, Tick, tables
<1> QED BY <1>3, <1>4, ProjectLeaves DEF Next

\* A task is decided by one verdict, about the accepted result, of the creator,
\* who did not write it (tasks.go Verify, verification_queue.go).
THEOREM OneVerdict == Spec => []DecidedByOneVerdict
<1>1. Init => DecidedByOneVerdict
    BY DEF Init, DecidedByOneVerdict, Decisive, NoTask
<1> QED BY <1>1, NextJudged, TypeCorrect, TablesAgree, PTL DEF Spec

\* An alert that is marked, or that somebody is sending, is about a result whose
\* attempts are used up.
AlertsDue ==
    \A t \in Tasks : alerts[t].sent \/ alerts[t].token # NULL =>
        jobs[t].attempts = MaxAttempts /\ IsAnswer(tasks[t].status)

\* The steps that leave the alert of a task and the ledger alone.
LEMMA DueKept ==
    ASSUME TypeOK, TypeOK', RowsAgree, AlertsDue, [Next]_vars, NEW t \in Tasks,
           retries' = retries,
           alerts'[t].sent = alerts[t].sent, alerts'[t].token = alerts[t].token,
           alerts[t].sent \/ alerts[t].token # NULL
    PROVE  jobs'[t].attempts = MaxAttempts /\ IsAnswer(tasks'[t].status)
<1>1. jobs[t].attempts = MaxAttempts /\ IsAnswer(tasks[t].status) BY DEF AlertsDue
<1>2. IsAnswer(tasks'[t].status)
    <2>1. Moves(t) BY EveryStepMoves
    <2> QED BY <1>1, <2>1 DEF Moves, Quiet, Posted, Taken, Lapsed, Answered, Decided, IsAnswer
<1>3. jobs'[t].attempts = jobs[t].attempts
    <2>1. JobMoves(t) BY EveryJobMoves
    <2>2. ~JobAdded(t) BY <1>1 DEF JobAdded, IsAnswer
    <2>3. ~JobLeased(t)
        <3>1. jobs'[t].attempts \in 0..MaxAttempts BY DEF TypeOK, JobRow
        <3> QED BY <1>1, <3>1, AttemptsAssumption DEF JobLeased
    <2>4. ~JobRetried(t) BY NullAssumption DEF JobRetried
    <2> QED BY <2>1, <2>2, <2>3, <2>4 DEF JobMoves, JobKept, JobFinished
<1> QED BY <1>1, <1>2, <1>3

\* Every step keeps it: a retry takes the alert away with the attempts.
LEMMA NextDue ==
    TypeOK /\ TypeOK' /\ RowsAgree /\ AlertsAgree /\ AlertsDue /\ [Next]_vars => AlertsDue'
<1> SUFFICES ASSUME TypeOK, TypeOK', RowsAgree, AlertsAgree, AlertsDue, [Next]_vars
             PROVE  AlertsDue'
    OBVIOUS
<1> USE DEF jobVars, alertVars, taskVars
<1>1. CASE retries' = retries /\ \A t \in Tasks : /\ alerts'[t].sent = alerts[t].sent
                                                  /\ alerts'[t].token = alerts[t].token
    BY <1>1, DueKept DEF AlertsDue
<1>2. CASE TaskStep \/ MessageStep \/ VerificationStep \/ UNCHANGED tables
    <2>1. retries' = retries /\ alerts' = alerts
        BY <1>2, OthersAlert DEF tables
    <2> QED BY <1>1, <2>1
<1>3. CASE Restart BY <1>1, <1>3 DEF Restart
<1>4. CASE Tick
    <2>1. ASSUME NEW t \in Tasks
          PROVE  alerts'[t].sent = alerts[t].sent /\ alerts'[t].token = alerts[t].token
        <3>1. /\ alerts[t] \in AlertRow
              /\ alerts'[t] = [alerts[t] EXCEPT !.lease = Aged(alerts[t].lease)]
            BY <1>4 DEF Tick, TypeOK
        <3> QED BY <3>1 DEF AlertRow
    <2> QED BY <1>1, <1>4, <2>1 DEF Tick
<1>5. CASE SendAccepted \/ SendFailed
    BY <1>1, <1>5 DEF SendAccepted, SendFailed
<1>6. ASSUME NEW u \in UpdateIds, NEW s \in Tasks, RetryVerification(u, s)
      PROVE  AlertsDue'
    <2>1. /\ alerts' = [alerts EXCEPT ![s] = NewAlert]
          /\ tasks' = tasks
          /\ \A t \in Tasks : t # s => jobs'[t] = jobs[t]
        BY <1>6 DEF RetryVerification, TypeOK
    <2>2. /\ ~alerts'[s].sent /\ alerts'[s].token = NULL
          /\ \A t \in Tasks : t # s => alerts'[t] = alerts[t]
        BY <2>1 DEF TypeOK, NewAlert
    <2> QED BY <2>1, <2>2 DEF AlertsDue
<1>7. ASSUME NEW s \in Tasks, NEW k \in Tokens, ClaimVerificationAlert(s, k)
      PROVE  AlertsDue'
    <2>1. /\ \A t \in Tasks : t # s => alerts'[t] = alerts[t]
          /\ tasks' = tasks /\ jobs' = jobs /\ Exhausted(s, Now)
        BY <1>7 DEF ClaimVerificationAlert, TypeOK
    <2>2. jobs[s].attempts = MaxAttempts /\ IsAnswer(tasks[s].status)
        <3>1. jobs[s].attempts \in 0..MaxAttempts BY DEF TypeOK, JobRow
        <3> QED BY <2>1, <3>1, AttemptsAssumption DEF Exhausted, IsAnswer
    <2> QED BY <2>1, <2>2 DEF AlertsDue
<1>8. CASE MarkVerificationAlertSent
    <2>1. tasks' = tasks /\ jobs' = jobs /\ sending.accepted
        BY <1>8 DEF MarkVerificationAlertSent
    <2>2. sending.task \in Tasks /\ sending.token # NULL
        BY <2>1, NullAssumption DEF AlertsAgree
    <2>3. PICK s \in Tasks : s = sending.task BY <2>2
    <2>4. CASE alerts[s].token = sending.token
        <3>1. \A t \in Tasks : t # s => alerts'[t] = alerts[t]
            BY <1>8, <2>3, <2>4 DEF MarkVerificationAlertSent, TypeOK
        <3>2. jobs[s].attempts = MaxAttempts /\ IsAnswer(tasks[s].status)
            BY <2>2, <2>4 DEF AlertsDue
        <3> QED BY <2>1, <3>1, <3>2 DEF AlertsDue
    <2>5. CASE alerts[s].token # sending.token
        <3>1. alerts' = alerts BY <1>8, <2>3, <2>5 DEF MarkVerificationAlertSent
        <3> QED BY <2>1, <3>1 DEF AlertsDue
    <2> QED BY <2>4, <2>5
<1> QED BY <1>2, <1>3, <1>4, <1>5, <1>6, <1>7, <1>8, ProjectLeaves DEF Next, OperatorStep

\* A result that waits has its own open job, and the operator was told of it only
\* when its attempts are used up, in this round: no alert of an earlier round,
\* and none about another result, passes for it (what the tables owe
\* SubmittedIsDecidedOrAlerted; that somebody asks and ticks is fairness).
THEOREM NoResultForgotten ==
    Spec => []( \A t \in Tasks : tasks[t].status = "SUBMITTED" =>
                   /\ jobs[t].message = tasks[t].submitted /\ ~jobs[t].done
                   /\ alerts[t].sent => /\ jobs[t].attempts = MaxAttempts
                                        /\ <<t, Round(t)>> \in delivered )
<1>1. Init => AlertsDue /\ AlertsAgree
    BY DEF Init, AlertsDue, AlertsAgree, SentMeansDelivered, NewAlert, NotSending
<1>2. RowsAgree /\ DecidedByOneVerdict /\ AlertsAgree /\ AlertsDue =>
        \A t \in Tasks : tasks[t].status = "SUBMITTED" =>
            /\ jobs[t].message = tasks[t].submitted /\ ~jobs[t].done
            /\ alerts[t].sent => /\ jobs[t].attempts = MaxAttempts
                                 /\ <<t, Round(t)>> \in delivered
    BY DEF RowsAgree, RowAgrees, IsAnswer, DecidedByOneVerdict, AlertsAgree,
           SentMeansDelivered, AlertsDue
<1>3. Spec => []AlertsAgree BY <1>1, NextAlerts, TypeCorrect, PTL DEF Spec
<1>4. Spec => []AlertsDue
    BY <1>1, <1>3, NextDue, TypeCorrect, TablesAgree, PTL DEF Spec
<1> QED BY <1>2, <1>3, <1>4, TablesAgree, OneVerdict, PTL

-----------------------------------------------------------------------------
(* What is over stays over                                                 *)

\* The task is decided.
IsDecided(t) == tasks[t].status \in {"COMPLETED", "FAILED"}

\* Only a task whose answer waits gets a verdict.
LEMMA VerdictsAwaited ==
    ASSUME [Next]_vars, NEW w \in verifications' \ verifications
    PROVE  tasks[w.task].status = "SUBMITTED"
<1> USE DEF jobVars, alertVars, taskVars
<1>1. ASSUME NEW a \in Agents, NEW s \in Tasks, NEW m \in Messages, NEW v \in Verdicts,
             NEW n \in 0..attempts[s], Verify(a, s, m, n, v)
      PROVE  tasks[w.task].status = "SUBMITTED"
    <2>1. w = [task |-> s, verifier |-> a, target |-> m, verdict |-> v, attempt |-> n]
        BY <1>1 DEF Verify
    <2> QED BY <1>1, <2>1 DEF Verify
<1>2. CASE verifications' = verifications BY <1>2
<1>3. CASE VerificationStep
    BY <1>1, <1>2, <1>3 DEF VerificationStep, BeginClaimVerification, FinishClaimVerification
<1>4. CASE TaskStep \/ MessageStep \/ OperatorStep \/ Restart \/ Tick \/ UNCHANGED tables
    BY <1>2, <1>4 DEF TaskStep, RequeueExpired, Create, BeginClaim, FinishClaim,
       BeginHeartbeat, FinishHeartbeat, MessageStep, InsertResult, InsertOther,
       OperatorStep, RetryVerification, ClaimVerificationAlert, SendAccepted,
       SendFailed, MarkVerificationAlertSent, Restart, Tick, tables
<1> QED BY <1>3, <1>4, ProjectLeaves DEF Next

\* An accepted answer of t stays as it is, and so do its writer, its claims and
\* its judge.
AnswerStands(t) ==
    IsAnswer(tasks[t].status) =>
        /\ IsAnswer(tasks'[t].status)
        /\ tasks'[t].submitted = tasks[t].submitted
        /\ tasks'[t].owner = tasks[t].owner
        /\ tasks'[t].createdBy = tasks[t].createdBy
        /\ messages'[tasks[t].submitted] = messages[tasks[t].submitted]
        /\ claims'[t] = claims[t]

\* A decided task keeps its status and its verdicts, and its job stays done.
VerdictStands(t) ==
    IsDecided(t) =>
        /\ tasks'[t].status = tasks[t].status
        /\ jobs'[t].done /\ jobs'[t].message = tasks[t].submitted
        /\ \A v \in verifications' : v.task = t => v \in verifications

\* No step of any operation rewrites an answer: once accepted, the result, the
\* agent credited with it and its stored message stay, nobody claims the task
\* again, and its creator stays its judge.  Once decided, the status stays, no
\* further verdict is recorded, and the queue never opens the job again, whatever
\* the operator retries and whoever comes late (messages.go Insert, tasks.go
\* Claim and Verify, verification_queue.go, verification_operator.go).
THEOREM AnswersAreFinal == Spec => [][\A t \in Tasks : AnswerStands(t) /\ VerdictStands(t)]_vars
<1>1. TypeOK /\ RowsAgree /\ DecidedByOneVerdict /\ [Next]_vars =>
        [\A t \in Tasks : AnswerStands(t) /\ VerdictStands(t)]_vars
    <2> SUFFICES ASSUME TypeOK, RowsAgree, DecidedByOneVerdict, [Next]_vars, NEW t \in Tasks
        PROVE  AnswerStands(t) /\ VerdictStands(t)
        OBVIOUS
    <2>1. ResultsStay /\ Moves(t) BY EveryStepMoves
    <2>2. JobMoves(t) BY EveryJobMoves
    <2>3. RowAgrees(tasks[t], t) BY DEF RowsAgree
    <2>4. ASSUME IsAnswer(tasks[t].status) PROVE AnswerStands(t)
        <3>1. /\ tasks[t].submitted \in Messages
              /\ messages[tasks[t].submitted].type = "RESULT"
            BY <2>3, <2>4 DEF RowAgrees
        <3>2. messages'[tasks[t].submitted] = messages[tasks[t].submitted]
            BY <2>1, <3>1 DEF ResultsStay
        <3> QED
            BY <2>1, <2>4, <3>2
               DEF AnswerStands, IsAnswer, Moves, Quiet, Posted, Taken, Lapsed, Answered, Decided
    <2>5. ASSUME IsDecided(t) PROVE VerdictStands(t)
        <3>1. tasks'[t].status = tasks[t].status
            BY <2>1, <2>5
               DEF IsDecided, Moves, Quiet, Posted, Taken, Lapsed, Answered, Decided
        <3>2. jobs[t].done /\ jobs[t].message = tasks[t].submitted
            BY <2>3, <2>5 DEF IsDecided, DecidedByOneVerdict, RowAgrees, IsAnswer
        <3>3. jobs'[t].done /\ jobs'[t].message = tasks[t].submitted
            BY <2>2, <2>5, <3>2
               DEF IsDecided, JobMoves, JobKept, JobAdded, JobLeased, JobFinished, JobRetried
        <3>4. \A v \in verifications' : v.task = t => v \in verifications
            BY <2>5, VerdictsAwaited DEF IsDecided
        <3> QED BY <3>1, <3>3, <3>4 DEF VerdictStands
    <2> QED BY <2>4, <2>5 DEF AnswerStands, VerdictStands
<1> QED BY <1>1, TypeCorrect, TablesAgree, OneVerdict, PTL DEF Spec

-----------------------------------------------------------------------------
(* Idempotency keys                                                        *)

\* The columns that only Create writes.
NamesKept(t) ==
    tasks'[t].key = tasks[t].key /\ tasks'[t].createdBy = tasks[t].createdBy

\* Requeueing keeps them.
LEMMA RequeuedNames ==
    ASSUME NEW rows \in [Tasks -> TaskRow], NEW t \in Tasks, tasks' = Requeued(rows, Now)
    PROVE  tasks'[t].key = rows[t].key /\ tasks'[t].createdBy = rows[t].createdBy
<1>1. rows[t] \in TaskRow OBVIOUS
<1>2. \/ tasks'[t] = rows[t]
      \/ tasks'[t] = [rows[t] EXCEPT !.status = "OPEN", !.owner = NULL, !.claim = NoId,
                                     !.lease = NoTime, !.submitted = NULL]
    BY Zenon DEF Requeued
<1> QED BY <1>1, <1>2 DEF TaskRow

\* A row that is written keeps them if the row written does, in every task.
LEMMA WrittenNames ==
    ASSUME TypeOK, NEW s \in Tasks, NEW row \in TaskRow,
           row.key = tasks[s].key, row.createdBy = tasks[s].createdBy,
           \/ tasks' = Requeued([tasks EXCEPT ![s] = row], Now)
           \/ tasks' = [tasks EXCEPT ![s] = row],
           NEW t \in Tasks
    PROVE  NamesKept(t)
<1> DEFINE rows == [tasks EXCEPT ![s] = row]
<1>1. /\ rows \in [Tasks -> TaskRow]
      /\ rows[t].key = tasks[t].key /\ rows[t].createdBy = tasks[t].createdBy
    BY DEF TypeOK
<1> HIDE DEF rows
<1>2. CASE tasks' = Requeued(rows, Now) BY <1>1, <1>2, RequeuedNames DEF NamesKept
<1>3. CASE tasks' = rows BY <1>1, <1>3 DEF NamesKept
<1> QED BY <1>2, <1>3 DEF rows

\* Steps that only requeue, or nothing at all.
LEMMA QuietNames ==
    ASSUME TypeOK, tasks' = tasks \/ tasks' = Requeued(tasks, Now), NEW t \in Tasks
    PROVE  NamesKept(t)
<1>1. tasks \in [Tasks -> TaskRow] BY DEF TypeOK
<1> QED BY <1>1, RequeuedNames DEF NamesKept

\* A new task has a key that its creator has not used.
LEMMA CreateKeys ==
    ASSUME TypeOK, OneTaskPerKey, NEW a \in Agents, NEW k \in Keys \cup {NULL}, Create(a, k)
    PROVE  OneTaskPerKey'
<1>1. CASE tasks' = Requeued(tasks, Now)
    BY <1>1, QuietNames DEF OneTaskPerKey, NamesKept
<1>2. ASSUME NEW t \in Tasks,
             {x \in Tasks : tasks[x].createdBy = a /\ tasks[x].key = k /\ k # NULL} = {},
             tasks' = Requeued([tasks EXCEPT ![t] =
                 [NoTask EXCEPT !.status = "OPEN", !.createdBy = a, !.key = k]], Now)
      PROVE  OneTaskPerKey'
    <2> DEFINE row == [NoTask EXCEPT !.status = "OPEN", !.createdBy = a, !.key = k]
               rows == [tasks EXCEPT ![t] = row]
    <2>1. row \in TaskRow /\ row.key = k /\ row.createdBy = a
        BY DEF NoTask, TaskRow, Statuses, NoId, NoTime
    <2> HIDE DEF row
    <2>2. /\ rows \in [Tasks -> TaskRow] /\ rows[t] = row
          /\ \A x \in Tasks : x # t => rows[x] = tasks[x]
        BY <2>1 DEF TypeOK
    <2>3. tasks' = Requeued(rows, Now) BY <1>2 DEF row
    <2> HIDE DEF rows
    <2>4. \A x \in Tasks :
              tasks'[x].key = rows[x].key /\ tasks'[x].createdBy = rows[x].createdBy
        BY <2>2, <2>3, RequeuedNames
    <2>5. \A x \in Tasks : k # NULL => ~(tasks[x].createdBy = a /\ tasks[x].key = k)
        BY <1>2
    <2> QED BY <2>1, <2>2, <2>4, <2>5 DEF OneTaskPerKey
<1> QED BY <1>1, <1>2 DEF Create

\* No other step writes keys.
LEMMA NextKeys == TypeOK /\ OneTaskPerKey /\ [Next]_vars => OneTaskPerKey'
<1> SUFFICES ASSUME TypeOK, OneTaskPerKey, [Next]_vars PROVE OneTaskPerKey'
    OBVIOUS
<1> USE DEF jobVars, alertVars, taskVars
<1>1. ASSUME \A t \in Tasks : NamesKept(t) PROVE OneTaskPerKey'
    BY <1>1 DEF OneTaskPerKey, NamesKept
<1>2. CASE tasks' = tasks \/ tasks' = Requeued(tasks, Now)
    BY <1>1, <1>2, QuietNames
<1>3. ASSUME NEW c \in calls, FinishClaim(c) PROVE OneTaskPerKey'
    <2>1. c.task \in Tasks /\ c.agent \in Agents /\ c.now + TaskLease \in Nat
        BY <1>3 DEF FinishClaim, TypeOK, Call, Now
    <2>2. PICK s \in Tasks, a \in Agents, x \in Nat :
              s = c.task /\ a = c.agent /\ x = c.now + TaskLease
        BY <2>1
    <2>3. tasks[s] \in TaskRow /\ Len(claims[s]) + 1 \in Nat BY DEF TypeOK
    <2> DEFINE row == [tasks[s] EXCEPT !.status = "CLAIMED", !.owner = a,
                          !.claim = Len(claims[s]) + 1, !.lease = x, !.submitted = NULL]
    <2>4. CASE tasks' = Requeued([tasks EXCEPT ![s] = row], Now)
        <3>1. row \in TaskRow BY <2>3, ClaimedRowType
        <3>2. row.key = tasks[s].key /\ row.createdBy = tasks[s].createdBy
            BY <2>3 DEF TaskRow
        <3> HIDE DEF row
        <3> QED BY <1>1, <2>4, <3>1, <3>2, WrittenNames
    <2>5. \/ tasks' = Requeued(tasks, Now)
          \/ tasks' = Requeued([tasks EXCEPT ![s] = row], Now)
        BY <1>3, <2>2 DEF FinishClaim, TypeOK
    <2> QED BY <1>2, <2>4, <2>5
<1>4. ASSUME NEW c \in calls, FinishHeartbeat(c) PROVE OneTaskPerKey'
    <2>1. c.task \in Tasks /\ c.now + TaskLease \in Nat
        BY <1>4 DEF FinishHeartbeat, TypeOK, Call, Now
    <2>2. PICK s \in Tasks, x \in Nat : s = c.task /\ x = c.now + TaskLease
        BY <2>1
    <2>3. tasks[s] \in TaskRow BY DEF TypeOK
    <2> DEFINE row == [tasks[s] EXCEPT !.lease = x]
    <2>4. CASE tasks' = Requeued([tasks EXCEPT ![s] = row], Now)
        <3>1. row \in TaskRow BY <2>3, RenewedRowType
        <3>2. row.key = tasks[s].key /\ row.createdBy = tasks[s].createdBy
            BY <2>3 DEF TaskRow
        <3> HIDE DEF row
        <3> QED BY <1>1, <2>4, <3>1, <3>2, WrittenNames
    <2>5. \/ tasks' = tasks
          \/ tasks' = Requeued([tasks EXCEPT ![s] = row], Now)
        BY <1>4, <2>2 DEF FinishHeartbeat, TypeOK
    <2> QED BY <1>2, <2>4, <2>5
<1>5. ASSUME NEW a \in Agents, NEW r \in Agents, NEW m \in Messages, NEW s \in Tasks,
             NEW n \in 1..MaxClaims, InsertResult(a, r, m, s, n)
      PROVE  OneTaskPerKey'
    <2> DEFINE row == [tasks[s] EXCEPT !.status = "SUBMITTED", !.submitted = m,
                                       !.lease = NoTime]
    <2>1. tasks[s] \in TaskRow BY DEF TypeOK
    <2>2. row \in TaskRow BY <2>1, SubmittedRowType
    <2>3. row.key = tasks[s].key /\ row.createdBy = tasks[s].createdBy
        BY <2>1 DEF TaskRow
    <2>4. tasks' = [tasks EXCEPT ![s] = row] BY <1>5 DEF InsertResult, TypeOK
    <2> HIDE DEF row
    <2> QED BY <1>1, <2>2, <2>3, <2>4, WrittenNames
<1>6. ASSUME NEW a \in Agents, NEW s \in Tasks, NEW m \in Messages, NEW v \in Verdicts,
             NEW n \in 0..attempts[s], Verify(a, s, m, n, v)
      PROVE  OneTaskPerKey'
    <2> DEFINE row == [tasks[s] EXCEPT !.status = StatusAfter(v)]
    <2>1. tasks[s] \in TaskRow BY DEF TypeOK
    <2>2. row \in TaskRow BY <2>1, DecidedRowType DEF StatusAfter, Statuses
    <2>3. row.key = tasks[s].key /\ row.createdBy = tasks[s].createdBy
        BY <2>1 DEF TaskRow
    <2>4. tasks' = Requeued([tasks EXCEPT ![s] = row], Now) BY <1>6 DEF Verify, TypeOK
    <2> HIDE DEF row
    <2> QED BY <1>1, <2>2, <2>3, <2>4, WrittenNames
<1>7. CASE Tick
    <2>1. ASSUME NEW t \in Tasks PROVE NamesKept(t)
        <3>1. /\ tasks[t] \in TaskRow
              /\ tasks'[t] = [tasks[t] EXCEPT !.lease = Aged(tasks[t].lease)]
            BY <1>7 DEF Tick, TypeOK
        <3> QED BY <3>1 DEF TaskRow, NamesKept
    <2> QED BY <1>1, <2>1
<1>8. CASE TaskStep
    BY <1>2, <1>3, <1>4, <1>8, CreateKeys DEF TaskStep, RequeueExpired, BeginClaim,
       BeginHeartbeat
<1>9. CASE MessageStep BY <1>2, <1>5, <1>9 DEF MessageStep, InsertOther
<1>10. CASE VerificationStep
    BY <1>2, <1>6, <1>10
       DEF VerificationStep, BeginClaimVerification, FinishClaimVerification
<1>11. CASE OperatorStep \/ Restart \/ UNCHANGED tables
    BY <1>2, <1>11 DEF OperatorStep, RetryVerification, ClaimVerificationAlert,
       SendAccepted, SendFailed, MarkVerificationAlertSent, Restart, tables
<1> QED BY <1>7, <1>8, <1>9, <1>10, <1>11, ProjectLeaves DEF Next

\* A creator that repeats a request with its key never gets a second task
\* (tasks.go Create).
THEOREM KeysAreOnce == Spec => []OneTaskPerKey
<1>1. Init => OneTaskPerKey BY DEF Init, OneTaskPerKey, NoTask
<1> QED BY <1>1, NextKeys, TypeCorrect, PTL DEF Spec

=============================================================================
