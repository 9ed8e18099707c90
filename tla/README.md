# A verification project for the self-organizing multi-agent platform

TLA+ models of the Go server in `src/internal` and of the agent runtime in
`src/internal/agent`, the TLC runs that check them on small instances, and
theorems that TLAPS proves for every instance. Every safety property that a
passing run checks is a theorem; liveness is model-checked.

Every module is translated from the source; `PROJECT.json` maps each definition
to the lines it stands for, and lists the runs, the hazards they are aimed at,
one mutant per property, and the theorems.

## The system

One server process keeps everything in one SQLite file and opens **one
connection** to it (`db/db.go`, `SetMaxOpenConns(1)`). So a statement, or a
transaction from its first statement to its commit, is atomic, and requests
interleave *between* statements and transactions. Many handlers read in one
statement and write in another, and many stores read `time.Now()` before they
wait for the connection; both gaps are steps of the models. Redis carries pings
that wake long polls, and no data. A human operator talks to the server through
a Telegram bot, whose updates come as webhook calls and are repeated until one
is acknowledged. Agents poll.

| component | state | operations | what makes it correct |
|---|---|---|---|
| task life cycle (`store/tasks.go`, `store/messages.go`) | `tasks`, `messages`, claims and leases | create, claim, heartbeat, requeue, result | one result per task, from the last claim; abandoned work comes back |
| verification queue and alerts (`store/verification_*.go`, `httpapi/verification_alerts.go`) | `verification_jobs`, `verifications`, alerts, retry ledger | claim an attempt, verdict, retry, alert, mark, restart | a decided task has one conclusive verdict; attempts are counted; late attempts do not commit; a result is decided or the operator told |
| inbox (`httpapi/messages.go`, `store/messages.go` List, `bus/redis.go`, `agent/client.go` Inbox) | rows, ttl, subscription, cursor | post, publish, list, subscribe, time out, respond | nothing skipped, nothing twice, everything arrives |
| projects (`store/projects.go`, `store/membership.go`, `httpapi/projects.go`) | `projects`, `project_members` | invite, apply, decide, remove, set role, transfer, accept, succession | consent, ownership, authority of members only |
| shared memory (`store/knowledge.go`, `httpapi/memory.go`) | `knowledge` | create, replace, review | versions are one chain; only insiders replace |
| credentials (`store/credentials.go`, `store/agents.go`) | `agents`, `credentials`, audit | register, rotate, revoke, operator's `/revoke` | one active key; a revoked key stays revoked |
| operator channel (`httpapi/operator.go`, `httpapi/telegram.go`, `store/operator_requests.go`) | `operator_requests`, `telegram_updates` | request, notify, link, reply | a reply reaches the agent that asked, once |
| rate limiter (`httpapi/ratelimit.go`) | a map of counters | allow, sweep | a budget per window; the map does not grow |
| agent runtime (`agent/agent.go`) | cursor, pending answers, page | the iteration of `RunOnce`, back-off, restart | answers in order; no claimable task starves |
| state file (`agent/state.go`, `agent/agent.go` Bootstrap) | the file: base URL, agent, key | load, validate, register, save, announce; its holder rotates and revokes by hand | a restart comes back as the same agent; only a lost answer or a revocation locks it out |
| leases (`agent/agent.go` maintainLease, verifyJob; `store/*.go`) | the worker's calls, ticker and deadlines against the server's lease | claim, renew, work, answer, verify | who works holds the claim and a verdict comes in time, but for less than a second |
| listings (`store/tasks.go` List, `store/knowledge.go` Search) | cursor of a second and an id | list, search, create, change | a walk misses nothing and repeats nothing |
| not modelled | | artifacts, brain, MCP bridge, pages, wiring | see below |

Components meet in the database: a RESULT message closes a task and opens a
verification job in one transaction; a membership decides who writes knowledge;
an operator's reply becomes a message of the inbox; the runtime lists tasks,
claims, answers and polls the inbox. Where a module needs only the effect of
another component it has an environment action for it (`Environment` in
`AgentLoop` and `Knowledge`).

The hard behaviours are the races between a handler's check and its write,
leases that end while a request is under way, retries of requests whose response
was lost, Telegram updates that come twice, alerts that take longer than their
lease, restarts of the server and of the agent, and pages with a cursor over
rows that expire. They are the hazards of `PROJECT.json`, each at its line.

## Modules

| module | models | notes |
|---|---|---|
| `TaskLifecycle` | tasks, results, the verification queue, alerts, retries, restart | the core |
| `TaskBoard` | what the life cycle promises: a task is held, answered once in the current turn and decided once by its poster | abstract; `TaskLifecycle!ImplementsBoard` maps to it |
| `TaskLifecycle_proofs` | theorems about `TaskLifecycle`: types, results, attempts; that it implements `TaskBoard`; verdicts, late attempts, retries, alerts, idempotency keys | TLAPS |
| `Leases` | one claim and one attempt against the time-outs, the ticker and the deadline of the agent | in units of time; the server reads its clock late and cuts stored times to seconds |
| `Listing` | a walk through the pages of tasks or of a search, while rows come in and change | what decides whether a row matches is environment |
| `Listing_proofs` | theorems about `Listing` | TLAPS |
| `Projects` | one project with its roster, nominations and succession | handlers split at their statements |
| `Projects_proofs` | theorems about `Projects` | TLAPS |
| `Knowledge` | records in the scopes of projects | members, grants and archiving are environment |
| `Knowledge_proofs` | theorems about `Knowledge` | TLAPS |
| `Credentials` | the server: registration, keys, rotation, revocation, audit | the middleware's authentication is a step of its own |
| `Identity` | extends `Credentials` with the agent's process, its state file and the file's holder | requests outlive who sent them |
| `Identity_proofs` | theorems about `Identity`, and so about `Credentials` | TLAPS |
| `OperatorRequests` | requests to the operator and the replies | Telegram is external |
| `Inbox` | the long poll from insertion to the client's cursor | Redis is external |
| `OperatorInbox` | both together: a reply becomes a row of the inbox | `Inbox` extended, `OperatorRequests` as an instance |
| `OperatorInbox_proofs` | theorems about `OperatorInbox`, and so about `Inbox` and `OperatorRequests` | TLAPS |
| `AgentLoop` | one agent process against server and other agents | iteration by iteration, call by call |
| `Agent_proofs` | theorems about `AgentLoop` and about `Leases` | TLAPS |
| `RateLimiter`, `RateLimit` | the counters with lazy expiry and sweeps; the plain fixed window they implement | refinement |
| `RateLimiter_proofs` | that they implement it | TLAPS |
| `MC*` | finite instances | constants and symmetry only |

How code becomes actions:

- A handler with one statement or transaction is one action, whose guard is the
  code's condition and whose failures (a conflict, a rollback, a replay that
  changes nothing) are the absence of a step.
- A handler with several is a record in `calls` between them. `BeginX` stands
  for the checks and carries what they read, `FinishX` for the write; both are
  in the same module, and any other step may come in between.
- An operation of `TaskLifecycle` that reads the clock before it waits for the
  connection has a `Begin` that notes the time and a `Finish` that uses it.
- **Time** in `TaskLifecycle` is relative to a fixed `Now`: `Tick` ages every
  stored time by one. A time `MaxLag` or more in the past is kept as the oldest
  one, and the comparisons of the code (`<=`, `>`) tell no more apart.
- What `TaskLifecycle` keeps of **projects** is which tasks are `barred`: their
  project is archived, or closed and without their creator. Of the statements it
  models only the SELECT of `claimVerificationAt` looks at that; the handlers look
  at the project in statements of their own before, so a request that was let in
  commits in spite of it.
- `RequeueExpired` is part of the operations that call it first, as in the
  code, and an action of its own where a listing calls it.
- Messages, payloads and names are model values. Times, keys, attempt ids and
  alert tokens are numbers or values compared for equality, as in the code.
  Fresh identifiers do not repeat; that they are unique is assumed.
- `Restart` of `TaskLifecycle` drops requests and the alert under way and runs
  the backfill of `db.Open`; `Restart` of `AgentLoop` loses what the process
  keeps in memory.

## Runs

| run | question | bounds |
|---|---|---|
| `task_claims` | Who may answer a task when claims expire, pass on and return while requests are late? Does the life cycle implement `TaskBoard`? | 2 agents, 1 task, 2 messages, 2 claims, lease of 2 ticks, requests up to 2 ticks late |
| `verification` | Are verdicts, attempts, retries and alerts consistent, in a queue that two tasks share? Is creation idempotent? | 2 tasks, 1 key, 1 message, 1 attempt a round, 1 `/retry`, 2 alert tokens, requests up to 1 tick late |
| `task_live` | Does abandoned work come back, and is a result decided or the operator told? | 1 task, 2 attempts, 2 tokens; restarts, and a project that bars the task and lets it go, without bound |
| `project_races` | What do the guarded UPDATEs protect when any two requests overlap, and what do the handlers' checks give to a request that overlaps none? | 2 agents, 2 overlapping requests of every kind, an open, a closed and a hidden project |
| `owner_outside` | Is the owner of a closed project a member of it? **No.** | 3 agents, one request at a time |
| `knowledge` | Do races of authors fork a record or bring an old version back? | 2 agents, 3 records, 2 overlapping requests, two scopes of a closed project and the global one |
| `identity` | Does an agent stay one agent with one working key, through restarts, rotations, lost answers and revocations? | 2 agents, 4 keys, 2 overlapping requests, 2 operator commands, 2 spellings of the base URL |
| `operator_inbox` | Does a reply reach the agent that asked, once; does the inbox skip or repeat anything? | 1 request, 1 reply, 2 other messages, pages of 1 row, 2 mishaps, repeated deliveries without bound |
| `leases` | How long can a claim or an attempt have been over under the process that works on it? | 2 agents and a stranger; units of 15 s with the times of the code: leases 300 s, calls up to 60 s, ticker 60 s, verification 240 s; up to one unit is cut off a stored time, which stands for the part of a second |
| `listing` | Does paging miss or repeat a row? | 4 rows in every order of ids, 3 seconds, pages of 1 and 2 rows |
| `agent_loop` | Are answers handled in order and does no claimable task starve? | 2 tasks of every sort (5), 2 answers, 1 mishap; failing calls without bound |
| `rate_limiter` | Do lazy expiry and sweeping implement a fixed window? | 3 clients, 2 requests in a window of 2 ticks, 7 ticks |

Why the bounds are enough to be interesting. A race needs two claims of a task:
the holder's and the one that takes over; the third repeats the second. Leases
of one or two ticks with requests one or two ticks late put a late statement
before, at and after the end of the lease. Two attempts tell the last attempt
from the one before it, one attempt a round with a retry tells an attempt of
this round from one of an earlier round. Three records make a fork of one
record. In `project_races` the two agents are the one whose row changes and the
one that asks; heirs and nominees that are third parties are in `owner_outside`.
Pages of one row with three messages have an expired row in front of, between
and behind live ones, and an empty page whose cursor must still advance; one
update delivered again stands for a repeated reply. Two requests with two
replies and no mishaps, and one request with two replies, three messages and two
mishaps, were checked by hand and show nothing else. The times of `leases` are
those of the code but for what is cut off a stored time, one unit of 15 s where
the code cuts less than 1 s: with units of a second TLC could not go through it,
and how far apart the two are decides nothing, as the theorems about all times
show. Two answers that come on one page or on two, with a callback that fails for
the first or the second, have the rest of a page pending and an order to keep.
Four rows over three seconds put
rows before, in and after the second of the cursor; the walk may begin again at
any time. Bounds are named constants (`MaxClaims`, `MaxCalls`, `MaxLag`,
`MaxMessages`, `MaxMishaps`, `MaxAnswers`, `MaxTime`) and appear in guards;
nothing else limits a model.

`TypeOK` of `TaskLifecycle` is checked by a run and proved; those of `Leases`,
`AgentLoop`, `Projects` and `Knowledge` are proved. Every
property of a passing run has a mutant in its module (`\* Mutant:`), the change
of the code that would break it.

`Identity.cfg` turns the deadlock check off: the instance ends there when all
its agents and keys are used up. Runs with liveness use no symmetry.

### Fairness

- `TaskLifecycle!FairSpec`: time passes; some agent goes on reading the board
  (`takeOneTask` lists tasks, which requeues); creators go on asking for
  verification work (`RunOnce`); a request waiting for the connection gets it;
  the alert loop ticks. Strong fairness is used for the steps a restart or a
  failure of Telegram may disable: neither hits the *same* step for ever. A
  restart is never forbidden. Nobody has to claim, renew, answer or decide.
  The properties' own hypotheses are in their text: a lease that is renewed for
  ever is not abandoned, a creator that answers "inconclusive" by hand for
  ever postpones the next attempt, and a project that keeps the result from its
  creator for good, or again and again, leaves it undecided and unreported.
- `OperatorInbox!ChannelFairSpec`: Telegram repeats an update until it is
  acknowledged; the agent polls and every request of its inbox ends, at the
  latest by its time out. No handler of an operator request has to finish and no
  ping has to be published or received.
- `AgentLoop!FairSpec`: the process runs, and none of the calls it makes up to the
  claim of a task fails for ever. Its work and the sending of a result may, and
  nothing is asked of other agents, nor that a job ever comes back.

`Leases` has safety only; instead of fairness it says that no time passes while
a step is due, which is what the code assumes of the machine it runs on.

## Proofs

`TaskLifecycle_proofs` proves, for all sets of agents, tasks, messages, keys and
tokens, all leases and all bounds, from the `ASSUME`s of `TaskLifecycle` alone
(`NULL` is no element of the sets, `InProject` is a set of tasks, lease lengths are
naturals and at least one, `MaxAttempts` is in `1..5`, the length of the backoff
table, and `UpdateIds` is finite):

| theorem | says |
|---|---|
| `TypeCorrect` | `[]TypeOK` |
| `TablesAgree` | `[]RowsAgree`: the rows of `tasks`, `messages`, the claims and `verification_jobs` fit together |
| `ResultFenced` | `[]ResultFromLastClaim`: the accepted result names the last claim ever issued |
| `SingleResult` | `[]OneResultPerTask`: no task has two RESULT messages |
| `AttemptsCounted` | `[]AttemptsAccounted`: attempts handed out = attempts of this round + `MaxAttempts` for every retried round |

Argument. `ResultFromLastClaim` and `OneResultPerTask` are not inductive: from a
state where a task is open but a stray RESULT names it, the next result breaks
both. `RowsAgree` says, for every task, what its status implies about the claim,
the submitted message and the job, and that a RESULT message is always the
submitted one of its task; with `TypeOK` it is inductive. The proof has one
lemma per group of actions (`TaskStepAgrees`, `MessageStepAgrees`,
`VerificationStepAgrees`, `OtherStepAgrees`) and one for the steps that change
only leases or open a task again (`QuietRow`, `RequeuedQuiet`, `RenewedQuiet`);
the two properties follow from it without another induction. `AttemptsAccounted`
is inductive with `TypeOK` and `RowsAgree`; a retry only ends a round that is
exhausted (`RetryEndsRound`), and counting the retries of a task is a
cardinality, which is why `UpdateIds` must be finite.

The rest of the module goes on from there, with no further assumption. Each
safety property a run checks of `TaskLifecycle` is a theorem:

| theorem | says |
|---|---|
| `BoardImplemented` | `ImplementsBoard`: the life cycle implements `TaskBoard` |
| `OneVerdict` | `[]DecidedByOneVerdict` |
| `LateRefused` | `LateAttemptsNeverCommit`: no verdict of an earlier attempt, and an attempt that runs, the last one too, is neither reset nor taken for exhausted |
| `ReplaysHarmless` | `RetryOncePerUpdate` |
| `MarkedWhenTaken` | `[]SentMeansDelivered` |
| `KeysAreOnce` | `[]OneTaskPerKey` |
| `AnswersAreFinal` | no step rewrites an answer: an accepted result keeps its message, writer, claims and judge, and a decided task its status, its verdicts and its done job |
| `NoResultForgotten` | a submitted result has its own open job, and a marked alert means that its attempts are used up in this round: the safety half of `SubmittedIsDecidedOrAlerted` |

Both rest on a list of what one step can do to one row. For a task (`Moves`) it
is nothing, or posted, taken, lapsed, answered, decided; for a job of the queue
(`JobMoves`) kept, added, leased, finished, retried. `EveryStepMoves` and
`EveryJobMoves` go through the actions once, and the theorems argue about the
lists. The refinement first replaces what the board reads from the messages by
the columns of the row (`ShownIsBoard`, from `RowsAgree`), and then maps each move
to a step of the board (`MoveRefines`). Three properties need more than `TypeOK`
and `RowsAgree`: `LateAttemptsNeverCommit` that the `attempt_id` of a job is none or
the newest (`AttemptNamed`), while an alert begins and a round is reset only when no
attempt runs (`RunningNotAlerted`); `SentMeansDelivered` that the loop, once Telegram took
the message, is in the round it delivered in as long as the alert still has its
token (`AlertsAgree`), which a retry ends by taking the token away; and
`DecidedByOneVerdict` that rows agree after the step too, because an answer must
have added its job. `NoResultForgotten` adds that an alert, marked or on its way,
is about an exhausted job (`AlertsDue`): it begins as one, no attempt can be added
then, and the retry that resets the attempts takes the alert away.

`Agent_proofs` has two parts. The first is about the loop, for any tasks, size of a
page and numbers of answers and mishaps, from the `ASSUME`s of `AgentLoop` (tasks
are finitely many numbers in the order of their creation, `NULL` is none of the
values it stands beside, a page has a row); the answers need none of them:

| theorem | says |
|---|---|
| `LoopAnswersInOrder` | `[]AnswersInOrder`: the runtime is given the answers in order, none twice, none left out |
| `LoopOnRightTask` | what is verified is the agent's own submitted result; what is worked on, sent or claimed is a task it may do |
| `MatchesSeen` | if the agent declares its tools, reviews no project and its own and archived tasks leave room on a page (`RoomOnPage`): the oldest task it may claim is listed, nothing before it is denied, and it stays on the page until it is claimed or the iteration fails. The safety half of `MatchesNotHidden` |

What a process handled and what it holds are together what its cursor has passed,
and stay so (`LoopInv`) when an iteration fails in between. `LoopOnRightTask` has
no run of its own: it is an invariant of `agent_loop` with what the rows and the
page add to it (`LoopOK`). It needs that the job of a verification comes back only
to a process that is no longer at it, a guard of the environment
(`JobComesBack`): by the second part a process is at a verdict for less than a
second after the attempt ended, and the queue waits a minute or more before the
next one; an operator's `/retry` within that second is left out. `MatchesSeen`
counts: a task listed before the foremost one is none of the agent's matches, so
with its tools declared it is its own or archived, and these are fewer than a page
has rows (`ForemostListed`).

The second part is about the leases, for any number of agents and all times, from
the `ASSUME`s of `Leases`:

| theorem | says |
|---|---|
| `TypeCorrect` | `[]LeaseTypeOK`: no lease is longer than it was granted |
| `LeasesOutlast` | `[]LeaseInv`: in every step of a process its lease has at least the time left that the rest may take, less what is cut off a second |
| `WorkersStop` | `[]WorkersStopWithTheClaim`: who works on a task holds its live claim or has lost it less than a second ago |
| `VerifiersStop` | `[]VerifiersStopWithTheAttempt`: a verdict is given while its attempt lives or less than a second later |
| `OverlapStaysShort` | when two agents are at work on the task, or at a verdict on it, the lease of one of them ended less than a second ago |

Two of the assumptions are arithmetic and say what the theorems depend on:
`ClaimMargin` (the slowest answer to a claim, two calls, a tick and the time-out
of its heartbeat fit into a lease that is not cut) and `VerdictMargin` (the slowest
answer to `ClaimVerification` and the deadline of `verifyJob` fit into an attempt
that is not cut). The times of the code meet both with nothing to spare, so what
`Granted` cuts off, less than a `Second`, is missing at the end; the assumption
about it is that a `Second` is no longer than a time-out. A change of a constant
of the code that keeps them keeps the theorems.

Neither property is inductive; `LeasesLast` says for every step of a process how
much of the lease is left at least, the whole less the longest way from the grant
to that step and less what was cut. It is inductive with `LeaseTypeOK` and two
more facts: only the last claim and the last attempt can live (`OthersOver`), and
the task is open as long as the claim of a process that got it lives
(`OpenWhileLive`), so that a heartbeat is refused only when the claim is over. A
step of one process changes no lease but its own (`OwnOnly`, `OneProcess`): a claim
that passes on was over, and what it then counts is how long it has been.

`RateLimiter_proofs` proves, for any clients, budget, window and bound on the
time, from `LimiterAssumption`:

| theorem | says |
|---|---|
| `CountersGo` | `[]OldCountersGo`: no counter outlives its window by more than a sweep |
| `FixedWindow` | `ImplementsRateLimit`: the limiter implements the plain fixed window |

The invariant adds to the types that neither the next sweep nor the end of a
window is further away than one window; without it a new counter could end
before the sweep that should drop it. The refinement rests on `SweptMap`: a sweep
drops only counters whose window is over, which `RateLimit` sees as closed anyway,
so a request maps to `Pass` or to a stutter whether it swept or not.

`Knowledge_proofs` proves, for any agents, entries, projects and number of
overlapping requests, from `NullAssumption` and `ScopesAssumption`:

| theorem | says |
|---|---|
| `TypeCorrect` | `[]TypeOK` |
| `VersionsChained` | `[]ChainsLinked`: versions form chains without forks, links agree both ways |
| `ArchivedReplaced` | `[]ArchivedMeansReplaced`: archived rows are the replaced ones |
| `InsidersReplace` | `ReplacedByInsiders`: who replaces a record may write there at that moment |

The invariant adds `NewUnlinked` (a row that is not there yet is linked to none),
so a replacement always adds a fresh end to a chain (`ReplaceInv`): its
predecessor had no successor, by the condition of the statement, and the new row
no neighbours. The right to write is in the guard of the step; what has to be
shown is that only that step makes a link.

`Projects_proofs` proves, for any agents, charters and overlapping requests:

| theorem | says |
|---|---|
| `TypeCorrect` | `[]TypeOK` |
| `NoPendingArchive` | `[]ArchivedNotPending`: an archived project has no pending nomination |
| `NoPendingAuthority` | `[]PendingHasNoAuthority`: invitations, applications and grants carry no role |
| `OneUsePerNomination` | `NominationUsedOnce`: ownership moves by the nomination of that moment or a departure |
| `JoinedByConsent` | `JoinsByConsent`: while no requests overlap, nobody becomes a member without having agreed |
| `OwnersLetGo` | `OwnerLetsGo`: while no requests overlap, an owner loses the project to its nominee or by leaving itself |
| `OnlyAcceptanceLeavesRoster` | while no requests overlap, only an acceptance by a nominee that has left takes the owner of an active closed project off its roster |
| `ArchivedOnlyInherited` | archiving is final, and an archived project changes hands by succession only, however requests overlap |

The two tables' properties are inductive together with their types (`TablesOK`);
that they survive every step of a handler split in four rests on `CallsOK`, what
a request under way may carry. `JoinedByConsent`
and `OwnersLetGo` are about who *may* ask, which is where overlapping requests go
wrong (see below). The handler checks that
in one statement and writes in a later one; `Rightful` is what it knows in
between, and `AloneInv` says that a request that has overlapped no other is the
only one under way and still rightful, because the rows it read are as it read
them. The last two theorems are what is left of two statements of the repository
that do not hold (see below): each names the one operation that breaks its
statement, and proves that no other does. The first goes through the handlers
once more with what `Rightful` knows of them: an invited or applying agent was no
member, a removed one was not the owner or the project is archived, and the heir
of a departure is a member that stays.

`Identity_proofs` proves, for any agents, keys, connections, operator commands and
base URLs, from `NullAssumption` and `ConnectionsAssumption`:

| theorem | says |
|---|---|
| `OneKey` | `[]OneActiveKey` |
| `RevokedStays` | `[]RevokedForGood` |
| `SameIdentity` | `IdentityKept`: the agent in the file stays, but for a start under another base URL |
| `LockedOutByLoss` | `[]OnlyLossLocksOut`, if `WritesAtStart = FALSE` |

The argument has three layers. On the server (`ServerInv`) a registration under
way is that of an agent without a key (`RegistrationsOK`), so its first key is its
only one and not yet revoked; a rotation replaces the only working key; and keys
that do not work have a trace (`Audited`). Each request is one lemma, and every
step of the whole is seen by the server as one of its own or none
(`ServerSteps`). Around it (`LocalInv`), the file, the process and the answer each
have a key with its agent (`KeysMatch`), which stays true because rows only grow
(`RowsGrow`); a process that starts under the base URL of the file is the agent in
it (`SameAgent`), and this is what makes its save harmless. The last layer
(`KeysTraced`) follows the keys: one that is on its way is used by nobody and is
in no other place, because only the holder uses keys and takes them from the file
(`UnseenKept`). It is the only one that needs the holder not to write while a
process starts, and TLC finds the counterexample without it.

`OperatorInbox_proofs` proves, for any requests, replies, page size and bounds,
from `LimitAssumption` (a page has a row) and `NullAssumption` (`NULL` is no
request):

| theorem | says |
|---|---|
| `CursorSkipsNothing` | `[]NothingSkipped`: what the cursor has passed was received or had expired |
| `MessagesInOrder` | `[]ReceivedInOrder`: rows are received in their order, none twice |
| `RepliesCountOnce` | `[]AnsweredOnce`: a reply is in the inbox once, exactly when its update is in the ledger |
| `AnsweredByReply` | `[]AnsweredMeansReplied`: a request reads answered exactly when a reply to it is in the inbox |
| `RepliesNotLost` | a reply to a stored message id is with Telegram, ahead of the cursor or received, in a row of its own: the safety half of `RepliesReachTheAgent` |
| `ChannelParts` | the whole implements `Inbox` and `OperatorRequests` |

The handler of the inbox lists, waits and answers in different steps while rows
come in and expire, so the invariant (`InboxInv`) speaks of the page it holds:
whenever a request is under way, its page is one for the place where the client
still is (`PageFrom`), and stays one because rows are only added and only expire
(`PageStays`). `RowsOfReplies` ties the two components together: each update in
the ledger has a row of its own that the agent wants and that does not expire.
`LinkedReplies` is why a reply is not lost before that: a link is never taken
back, so the delivery that is acknowledged finds it. By `ChannelParts` each part
is proved alone and holds of the whole.

`Listing_proofs` proves, for any ids, page sizes, clocks and changes, from
`IdsAssumption` and `BoundsAssumption`:

| theorem | says |
|---|---|
| `NoRowIsMissed` | `[]WalkMissesNothing`: a walk returns every row that matched throughout |
| `RowsAscend` | `[]PagesAscend`: the rows of a walk ascend, so none comes twice |

The invariant (`ListingInv`) says of a walk half done what the theorems say of
its end: nothing it returned is after the cursor, and everything steady that is
not after the cursor was returned. What the code's `LIMIT limit+1` promises is
`PageOfRows`: if the extra row comes back the page is a non-empty piece from the
front of the rows ahead, otherwise it is all of them.

`ORDER BY` is defined in `Inbox` and `Listing` by the place of a row, the number
of rows before it, and not by recursion: places are injective, hence by counting
onto `0 .. n - 1` (`Places`), which gives a sorted list of every row (`Ordered`)
without induction over data.

Checked by TLC only: the six liveness properties (`AbandonedClaimEnds`,
`SubmittedIsDecidedOrAlerted`, `MessagesArrive`, `RepliesReachTheAgent`,
`AnswersArrive`, `MatchesNotHidden`), because the prover knows no fairness and
no ENABLED. What the tables and the loop owe three of them, so that fairness is all
that is left to assume, is proved: `NoResultForgotten`, `RepliesNotLost` and
`MatchesSeen`.

## Disagreements between the code and what it says

`owner_outside` is a run: `AcceptTransfer` checks only that the caller is still
the nominee, so a nominee that left or was removed in the meantime owns an
active closed project of which it is no member, while `store/projects.go:51`
says "The owner is a member, recorded as one".

The others below are stated in the modules. Checking the property named, alone,
with the constants given, shows them:

| property | constants | what happens |
|---|---|---|
| `Projects!ArchivedKeepsOwner` ("An archived project cannot change hands.", `ownership_test.go:193`) | 3 agents, `Connections = {r1}`, `Charters <- Hidden`, `Requests = {"remove", "setRole"}` | the owner of an archived project appoints a coordinator and leaves once more: `handleRemoveMembership` and `handleSetRole` do not look at the status, and `Succeed` changes the owner |
| `Projects!ArchiveStopsInvitations` (`docs/rfc/rfc-1250.md:29`) | the same with `{"invite", "remove"}` | `handleInvite` does not look at the status |
| `Projects!JoinsByConsent` without `~Overlapping` (`httpapi/projects.go:207`) | 2 agents, 2 connections, `{"invite", "apply", "decide", "remove"}`, `OpenToApplications` | `Decide` updates without a condition on the status it read: an acceptance that overlaps with a removal makes the removed agent a member |
| `Projects!OwnerLetsGo` without `~Overlapping` (`schema/schema.sql:95`) | 3 agents, 2 connections, `{"remove", "setRole", "transfer", "decideTransfer"}` | `Succeed` does not look at who owns the project by then: a departure that chose its heir earlier takes it from the agent that accepted a transfer |
| `OperatorRequests!ReplyNotLost` (`schema/schema.sql:189`) | the module alone, 1 request, 1 reply | a reply to a message whose id is not stored yet is "not found", which `handleTelegramReply` turns into success, and Telegram delivers it no more |
| `Inbox!NoMessageWaits` (`agent/client.go:226`) | the module alone, `Limit = 1`, `MaxMessages = 1`, `MaxMishaps = 0` | the handler lists before it subscribes: a ping in between is lost and the message waits for the time out |
| `Projects!NominatedByOwner` (`schema/schema.sql:107`) | 3 agents, 2 connections, `{"transfer", "decideTransfer"}`, `OpenToApplications` | `Nominate` does not look at the owner: the request of an owner that has handed over in between nominates in the name of the new one |
| `AgentLoop!MatchesNotHidden` without `RoomOnPage` (`agent/agent.go:258`, `store/tasks.go:154`) | 2 tasks, one that matches and one that asks for another tool; `DeclaresTools = FALSE`, `PageLimit = 2` | an agent that declares no tools gets a list that is not filtered by them, while the claim is; the denial ends the iteration and the next one starts with the same task |
| the same | the other task one of a project the agent reviews; `DeclaresTools = TRUE`, `PageLimit = 2` | a reviewer's tasks are listed, and denied at the claim (`httpapi/tasks.go:106`); the denial ends every iteration |
| the same | the other task its own, or one of an archived project; `PageLimit = 1` | tasks it may not claim fill the only page it looks at |

For the rows of `MatchesNotHidden`, `Kinds` is the two sorts of tasks, there are no
answers and no mishaps, and the specification is `FairSpec`. With `PageLimit = 2`
the two instances of the last row hold.

`JoinsByConsent` and `OwnerLetsGo` hold, and are checked, for requests that
overlap no other; `MatchesNotHidden` if `RoomOnPage`: the agent declares its tools
and reviews no project, and its own tasks and those of archived projects leave room
on the page. `NominatedByOwner` holds with one connection. What does hold where the others do not is
proved: `OnlyAcceptanceLeavesRoster` (`owner_outside`), `ArchivedOnlyInherited`,
`RepliesNotLost` (a reply whose message id was stored) and `MatchesSeen`.

Four more limits, none a contradiction of a text:

- `Identity!OnlyLossLocksOut` needs `WritesAtStart = FALSE`: the holder of the
  state file writes a new key while no process is starting. With `TRUE`, a process
  that loaded the old key saves it after the holder wrote the new one, and the
  agent is locked out although nothing was lost.
- A start under another base URL registers a new agent and replaces the file of
  the old one; `IdentityKept` excepts it.
- A result of an archived project, or of a closed one that its creator has left, is
  not handed out by the queue (`store/verification_queue.go:43`), so its attempts
  are not used up and no alert is sent; a verdict by hand is refused as well
  (`httpapi/tasks.go:232`). It stays SUBMITTED and nobody is told, although
  `docs/roadmap.md:31` has the operator notified when verification gives up.
  `SubmittedIsDecidedOrAlerted` is therefore about tasks that are not barred in the
  end: without `<>[](t \notin barred)` the instance of `task_live` violates it.
- The times of the code leave no slack: 60 s for a slow answer to the claim, 60 s
  and 60 s for the calls before the work, 60 s to the first tick and 60 s for its
  heartbeat are the 300 s of the lease, and 60 s and 240 s those of an attempt. As
  stored times are cut to whole seconds, a lease lasts more than 299 s and up to
  300 s. So a slow process may still be at work, for less than a second, when its
  task goes to somebody else, and a verdict that takes all of its time may be refused as late:
  the exact forms of both properties, a live claim and a live attempt, are violated
  by the instance of `leases` and hold there with `Second = 1`, where nothing is
  cut. Leases longer by a second would make them true. A RESULT may also be
  sent late when a slow heartbeat was out as the work ended. Late results and
  verdicts are refused (`ResultFromLastClaim`, `LateAttemptsNeverCommit`).

## Not modelled

- *Artifacts*: rows that never change once inserted, and a policy over URLs and
  addresses, which is string processing and network I/O.
- *Brain, untrusted text, MCP bridge, public pages, wiring*: stateless, read-only
  or outside the process; `AgentLoop` takes any outcome of the brain, and a tool
  call of the bridge that is repeated is a repeated request of `TaskLifecycle`.
- *Column migrations*: run once; the backfill of jobs is in `Restart`.
- *Open projects in `knowledge`*: `Open` is a parameter of `Knowledge`; for
  visibility an open project behaves as the global scope, which the run has.
- A creator may claim its own task; its result is then neither verified nor
  alerted, as in the code. `SubmittedIsDecidedOrAlerted` speaks of results by
  somebody else.
- *In `Leases`*: claims and heartbeats that the server handles after the client
  gave the call up. Such a claim is a stranger's, and such a heartbeat extends a
  lease nobody works under. `Brain.Work` is taken to stop when its context ends,
  and clocks to run at one rate.
- *The back-off of an attempt* (`next_at`): it only delays what `TaskLifecycle`
  and `Leases` let happen at any time.
- *Projects in `TaskLifecycle`*, beyond what the queue looks at: who may see, claim
  or verify a task is checked by the handlers in earlier statements.
- *In `RateLimiter`*: the wait for the mutex after the clock was read, taken to be
  shorter than a tick.
- *In `Listing`*: `WalkMissesNothing` does not promise a row that comes in behind
  the cursor, in the second of the last row with a smaller id or with a time read
  earlier; a client finds it in its next walk.

## Plan

Done, in this order: `TaskLifecycle` with `TaskBoard`, its proofs, `Projects`,
`OperatorRequests`, `Credentials`, `Inbox`, `AgentLoop`, `Knowledge`,
`RateLimiter`; then `Identity`, `OperatorInbox`, `Listing`, `Leases`; the proofs
about `Leases`, `RateLimiter`, `Knowledge`, `Projects` and `Identity`, the rest of
those about the life cycle, and the proofs about `OperatorInbox` and `Listing`;
then the loop of `AgentLoop`, that answers are final, and the positive forms of the
properties under "Disagreements".

Next, to model: `visibleScopeSQL` and `CanRead` as two operators, compared on
every row; the project scope of messages about tasks.

Next, to prove: the same types as an invariant of every other module; a positive
form of `NoMessageWaits`, once the wait of a long poll is measured.
