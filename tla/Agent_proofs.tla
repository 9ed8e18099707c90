---------------------------- MODULE Agent_proofs ----------------------------
(***************************************************************************)
(* The agent runtime.  Its loop, for any tasks, size of a page and number  *)
(* of answers and mishaps: it gives the operator's answers to the runtime  *)
(* in order, deals with the right task and sees the tasks it may claim.    *)
(* Its leases, for all times that satisfy ClaimMargin and VerdictMargin    *)
(* and for any number of agents: what is done under them is stopped less   *)
(* than a second after they end.                                           *)
(***************************************************************************)
EXTENDS AgentLoop, Leases, FiniteSetTheorems, SequenceTheorems, WellFoundedInduction, TLAPS

-----------------------------------------------------------------------------
(* The answers of the operator *)

\* The answers 1 to n.
Answers(n) == [i \in 1 .. n |-> i]

\* What the process has of the answers, in order, is what its cursor has passed.
LoopInv ==
    /\ sent \in Nat
    /\ cursor \in 0 .. sent
    /\ pendingOperatorAnswers \in Seq(Nat)
    /\ handled \in Seq(Nat)
    /\ handled \o pendingOperatorAnswers = Answers(cursor)

\* How lists of numbers are joined does not depend on the brackets.
LEMMA ListsAssociate ==
    \A s, t, u \in Seq(Nat) : (s \o t) \o u = s \o (t \o u)
<1> DEFINE Associates(S) == \A s, t, u \in Seq(S) : (s \o t) \o u = s \o (t \o u)
<1>1. ASSUME NEW S PROVE Associates(S)
  <2>1. SUFFICES ASSUME NEW s \in Seq(S), NEW t \in Seq(S), NEW u \in Seq(S)
                 PROVE  (s \o t) \o u = s \o (t \o u)
    OBVIOUS
  <2>2. QED BY ConcatAssociative
<1>2. Associates(Nat)
  <2> HIDE DEF Associates
  <2>1. QED BY <1>1
<1>3. QED BY <1>2

\* The next answers of the inbox come behind those that wait.
LEMMA AnswersPolled ==
    ASSUME NEW h \in Seq(Nat), NEW p \in Seq(Nat), NEW c \in Nat, NEW n \in Nat, c <= n,
           h \o p = Answers(c)
    PROVE  LET e == [i \in 1 .. n - c |-> c + i]
           IN  p \o e \in Seq(Nat) /\ h \o (p \o e) = Answers(n)
<1> DEFINE e == [i \in 1 .. n - c |-> c + i]
           a == Answers(c)
<1>1. n - c \in Nat /\ \A i \in 1 .. n - c : c + i \in Nat OBVIOUS
<1>2. e \in Seq(Nat) /\ Len(e) = n - c /\ \A i \in 1 .. n - c : e[i] = c + i BY <1>1
<1>3. a \in Seq(Nat) /\ Len(a) = c /\ \A i \in 1 .. c : a[i] = i BY DEF Answers
<1> HIDE DEF e, a
<1>4. e \in Seq(Nat) /\ a \in Seq(Nat) /\ h \o p = a BY <1>2, <1>3 DEF a
<1>a. p \o e \in Seq(Nat) BY <1>4
<1>b. (h \o p) \o e = h \o (p \o e) BY <1>4, ListsAssociate
<1>5. h \o (p \o e) = a \o e BY <1>4, <1>b
<1>c. /\ a \o e \in Seq(Nat) /\ Len(a \o e) = Len(a) + Len(e)
      /\ \A i \in 1 .. Len(a) + Len(e) :
            (a \o e)[i] = IF i <= Len(a) THEN a[i] ELSE e[i - Len(a)]
  BY <1>4, ConcatProperties
<1>7. Len(a) = c /\ Len(a) + Len(e) = n /\ Len(e) = n - c BY <1>2, <1>3
<1>d. PICK q : q = a \o e OBVIOUS
<1>6. /\ q \in Seq(Nat) /\ Len(q) = n
      /\ \A i \in 1 .. n : q[i] = IF i <= c THEN a[i] ELSE e[i - c]
  BY <1>7, <1>c, <1>d
<1>8. ASSUME NEW i \in 1 .. n PROVE q[i] = i
  <2>1. CASE i <= c BY <1>3, <1>6, <2>1
  <2>2. CASE i > c
    <3>1. i - c \in 1 .. n - c BY <2>2
    <3>2. e[i - c] = i BY <1>2, <3>1
    <3>3. QED BY <1>6, <2>2, <3>2
  <2>3. QED BY <2>1, <2>2
<1>9. q \in [1 .. n -> Nat] BY <1>6
<1>10. a \o e = Answers(n) BY <1>d, <1>8, <1>9 DEF Answers
<1>11. QED BY <1>a, <1>5, <1>10 DEF e

\* An answer that is handled moves from the one list to the end of the other.
LEMMA AnswerHandled ==
    ASSUME NEW h \in Seq(Nat), NEW p \in Seq(Nat), p # <<>>
    PROVE  /\ Append(h, Head(p)) \in Seq(Nat) /\ Tail(p) \in Seq(Nat)
           /\ Append(h, Head(p)) \o Tail(p) = h \o p
<1>1. Head(p) \in Nat /\ Tail(p) \in Seq(Nat) BY HeadTailProperties
<1>2. Append(h, Head(p)) \in Seq(Nat) BY <1>1
<1>3. <<Head(p)>> \in Seq(Nat) BY <1>1
<1>4. Append(h, Head(p)) = h \o <<Head(p)>> BY <1>1
<1>5. <<Head(p)>> \o Tail(p) = p BY <1>1
<1>a. Tail(p) \in Seq(Nat) BY <1>1
<1>6. (h \o <<Head(p)>>) \o Tail(p) = h \o (<<Head(p)>> \o Tail(p))
  BY <1>a, <1>3, ListsAssociate
<1>7. QED BY <1>1, <1>2, <1>4, <1>5, <1>6

\* Every step of the loop.
LEMMA LoopNext == LoopInv /\ [Next]_vars => LoopInv'
<1> SUFFICES ASSUME LoopInv, [Next]_vars PROVE LoopInv'
  OBVIOUS
<1>1. CASE UNCHANGED <<sent, cursor, pendingOperatorAnswers, handled>>
  BY <1>1 DEF LoopInv
<1>2. CASE Poll
  <2>1. cursor \in Nat /\ sent \in Nat /\ cursor <= sent BY DEF LoopInv
  <2>2. /\ pendingOperatorAnswers' =
             pendingOperatorAnswers \o [i \in 1 .. sent - cursor |-> cursor + i]
        /\ cursor' = sent /\ UNCHANGED <<sent, handled>>
    BY <1>2 DEF Poll
  <2>a. sent \in 0 .. sent BY <2>1
  <2>3. /\ pendingOperatorAnswers' \in Seq(Nat)
        /\ handled \o pendingOperatorAnswers' = Answers(sent)
    BY <2>1, <2>2, AnswersPolled DEF LoopInv
  <2>4. QED BY <2>a, <2>1, <2>2, <2>3 DEF LoopInv
<1>3. CASE Answer
  <2>1. /\ pendingOperatorAnswers # <<>>
        /\ handled' = Append(handled, Head(pendingOperatorAnswers))
        /\ pendingOperatorAnswers' = Tail(pendingOperatorAnswers)
        /\ UNCHANGED <<sent, cursor>>
    BY <1>3 DEF Answer
  <2>2. QED BY <2>1, AnswerHandled DEF LoopInv
<1>4. CASE Restart
  <2>1. /\ cursor' = 0 /\ pendingOperatorAnswers' = <<>> /\ handled' = <<>>
        /\ sent' = sent
    BY <1>4 DEF Restart
  <2>2. <<>> \o <<>> = Answers(0) BY DEF Answers
  <2>3. QED BY <2>1, <2>2 DEF LoopInv
<1>5. CASE OperatorAnswers
  <2>1. sent' = sent + 1 /\ UNCHANGED <<cursor, pendingOperatorAnswers, handled>>
    BY <1>5 DEF OperatorAnswers, inbox
  <2>2. QED BY <2>1 DEF LoopInv
<1>6. CASE AnswersDone \/ ClaimVerification \/ VerifyTask \/ ListTasks
  BY <1>1, <1>6 DEF AnswersDone, ClaimVerification, VerifyTask,
                    ListTasks, inbox
<1>7. CASE Skip \/ ClaimTask \/ NothingToClaim \/ Work
           \/ SendResult
  BY <1>1, <1>7 DEF Skip, ClaimTask, NothingToClaim, Work,
                    SendResult, inbox
<1>8. CASE Fail \/ FailAfter \/ Resume
  BY <1>1, <1>8 DEF Fail, FailAfter, Resume, EndWith, inbox
<1>9. ASSUME NEW t, \/ OtherClaims(t) \/ OtherSubmits(t)
                    \/ LeaseEnds(t) \/ JobComesBack(t) \/ JobWithheld(t)
      PROVE  LoopInv'
  BY <1>1, <1>9 DEF OtherClaims, OtherSubmits, LeaseEnds,
                    JobComesBack, JobWithheld, inbox
<1>10. CASE UNCHANGED vars BY <1>1, <1>10 DEF vars
<1>11. QED
  BY <1>2, <1>3, <1>4, <1>5, <1>6, <1>7, <1>8, <1>9, <1>10
  DEF Next, Iteration, Environment

\* The runtime is given the answers of the operator in order, none twice and
\* none left out, whichever calls fail and end an iteration (handleInbox).
THEOREM LoopAnswersInOrder == Spec => []AnswersInOrder
<1>1. Init => LoopInv BY DEF Init, LoopInv, Answers
<1>2. LoopInv => AnswersInOrder BY DEF LoopInv, Answers, AnswersInOrder
<1>3. QED BY <1>1, <1>2, LoopNext, PTL DEF Spec

-----------------------------------------------------------------------------
(* The task at hand *)

Places == {"inbox", "answers", "queue", "verify", "list", "claim", "work", "send", "pause"}

LoopTypeOK ==
    /\ kind \in [Tasks -> AllKinds]
    /\ status \in [Tasks -> {"OPEN", "CLAIMED", "SUBMITTED", "DECIDED"}]
    /\ owner \in [Tasks -> {"me", "other", NULL}]
    /\ due \subseteq Tasks
    /\ pc \in Places
    /\ page \subseteq Tasks
    /\ current \in Tasks \cup {NULL}

\* The rows of the tasks agree: a claim is that of a claimed task, and a job that
\* may be claimed that of a result waiting for its verdict.
LoopRowsAgree ==
    \A t \in Tasks :
        /\ owner[t] # NULL <=> status[t] = "CLAIMED"
        /\ t \in due => status[t] = "SUBMITTED"

\* What the loop is about is its own result to verify, which no other attempt is
\* due for, or a task of somebody else that it may work on.
RightTask ==
    /\ pc = "verify" =>
          /\ current \in Tasks /\ kind[current] = "own"
          /\ status[current] = "SUBMITTED" /\ current \notin due
    /\ pc \in {"work", "send"} => current \in Tasks /\ kind[current] = "match"
    /\ \A t \in Tasks : owner[t] = "me" => kind[t] = "match"

\* The rest of the loop's state: it has a page only while it claims, and on it,
\* if it declares its tools, no task it lacks a tool for.
PageOK ==
    /\ pc # "claim" => page = {}
    /\ DeclaresTools => \A t \in page : kind[t] # "othertool"

LoopOK == LoopTypeOK /\ LoopRowsAgree /\ RightTask /\ PageOK

\* A page that is not empty has a first task.
LEMMA FirstOfPage ==
    ASSUME NEW S \in SUBSET Tasks, S # {}
    PROVE  First(S) \in S /\ \A u \in S : First(S) <= u
<1>1. S \subseteq Nat BY TasksAssumption DEF TasksAssumption
<1>2. PICK t \in S : \A u \in S : ~(<<u, t>> \in OpToRel(<, Nat))
  BY <1>1, NatLessThanWellFounded, WFMin
<1>3. \A m, n \in Nat : m < n => <<m, n>> \in OpToRel(<, Nat) BY DEF OpToRel
<1>4. \A u \in S : ~(u < t) BY <1>1, <1>2, <1>3
<1>5. \A u \in S : t <= u BY <1>1, <1>4
<1>6. QED BY <1>5 DEF First

\* A process that starts is right about everything.
LEMMA LoopInit == Init => LoopOK
BY KindsAssumption, NullAssumption
   DEF KindsAssumption, NullAssumption, Init, LoopOK, LoopTypeOK, LoopRowsAgree,
       RightTask, PageOK, Places

\* Every step of an iteration.
LEMMA IterationRight == LoopOK /\ Iteration => LoopOK'
<1> SUFFICES ASSUME LoopOK, Iteration PROVE LoopOK'
  OBVIOUS
<1> USE NullAssumption
        DEF NullAssumption, LoopOK, LoopTypeOK, LoopRowsAgree, RightTask, PageOK, Places
<1>1. CASE Poll BY <1>1 DEF Poll, board
<1>2. CASE Answer BY <1>2 DEF Answer, board
<1>3. CASE AnswersDone BY <1>3 DEF AnswersDone, board
<1>4. CASE ClaimVerification BY <1>4 DEF ClaimVerification, ClaimableJobs
<1>5. CASE VerifyTask BY <1>5 DEF VerifyTask
<1>6. CASE ListTasks BY <1>6 DEF ListTasks, board, FirstPage, Listed
<1>7. CASE Skip BY <1>7 DEF Skip, board
<1>8. CASE ClaimTask
  <2>1. PICK t \in Tasks : t = First(page) BY <1>8, FirstOfPage DEF ClaimTask
  <2>2. kind[t] = "match" /\ status[t] = "OPEN" /\ SetTask(t, "CLAIMED", "me")
        /\ current' = t /\ page' = {} /\ pc' = "work" /\ UNCHANGED <<kind, due>>
    BY <1>8, <2>1 DEF ClaimTask
  <2>3. QED BY <2>2 DEF SetTask
<1>9. CASE NothingToClaim BY <1>9 DEF NothingToClaim, board
<1>10. CASE Work BY <1>10 DEF Work, board
<1>11. CASE SendResult BY <1>11 DEF SendResult, SetTask
<1>12. QED
  BY <1>1, <1>2, <1>3, <1>4, <1>5, <1>6, <1>7, <1>8, <1>9, <1>10, <1>11 DEF Iteration

\* An iteration that ends in an error, with or without an effect.
LEMMA FailureRight == LoopOK /\ (Fail \/ FailAfter) => LoopOK'
<1> SUFFICES ASSUME LoopOK, Fail \/ FailAfter PROVE LoopOK'
  OBVIOUS
<1> USE NullAssumption
        DEF NullAssumption, LoopOK, LoopTypeOK, LoopRowsAgree, RightTask, PageOK, Places
<1>a. pc' = "pause" /\ page' = {} /\ current' = NULL /\ kind' = kind
  BY DEF Fail, FailAfter, EndWith
<1>1. CASE Fail BY <1>a, <1>1 DEF Fail, board
<1>2. CASE pc = "queue" /\ (\E t \in ClaimableJobs : due' = due \ {t})
           /\ UNCHANGED <<status, owner>>
  BY <1>a, <1>2
<1>3. CASE pc = "verify" /\ status' = [status EXCEPT ![current] = "DECIDED"]
           /\ UNCHANGED <<owner, due>>
  BY <1>a, <1>3
<1>4. ASSUME NEW t \in Tasks, kind[t] = "match", status[t] = "OPEN",
             SetTask(t, "CLAIMED", "me"), due' = due
      PROVE  LoopOK'
  BY <1>a, <1>4 DEF SetTask
<1>5. CASE pc = "send" /\ owner[current] = "me" /\ SetTask(current, "SUBMITTED", NULL)
           /\ due' = due
  BY <1>a, <1>5 DEF SetTask
<1>6. CASE FailAfter /\ pc = "claim"
  <2>1. PICK t \in Tasks : t = First(page) BY <1>6, FirstOfPage DEF FailAfter
  <2>2. QED BY <1>4, <1>6, <2>1 DEF FailAfter
<1>7. QED BY <1>1, <1>2, <1>3, <1>5, <1>6 DEF FailAfter

\* The pause, a restart, and the steps of the others.
LEMMA OthersRight == LoopOK /\ (Resume \/ Restart \/ Environment) => LoopOK'
<1> SUFFICES ASSUME LoopOK, Resume \/ Restart \/ Environment PROVE LoopOK'
  OBVIOUS
<1> USE NullAssumption
        DEF NullAssumption, LoopOK, LoopTypeOK, LoopRowsAgree, RightTask, PageOK, Places
<1>1. CASE Resume BY <1>1 DEF Resume, board
<1>2. CASE Restart BY <1>2 DEF Restart, board
<1>3. CASE OperatorAnswers BY <1>3 DEF OperatorAnswers, board
<1>4. ASSUME NEW t \in Tasks, OtherClaims(t) PROVE LoopOK'
  BY <1>4 DEF OtherClaims, SetTask
<1>5. ASSUME NEW t \in Tasks, OtherSubmits(t) PROVE LoopOK'
  BY <1>5 DEF OtherSubmits, SetTask
<1>6. ASSUME NEW t \in Tasks, LeaseEnds(t) PROVE LoopOK'
  BY <1>6 DEF LeaseEnds, SetTask
<1>7. ASSUME NEW t \in Tasks, JobComesBack(t) PROVE LoopOK'
  BY <1>7 DEF JobComesBack
<1>8. ASSUME NEW t \in Tasks, JobWithheld(t) PROVE LoopOK'
  BY <1>8 DEF JobWithheld
<1>9. QED BY <1>1, <1>2, <1>3, <1>4, <1>5, <1>6, <1>7, <1>8 DEF Environment

\* The invariant of the loop survives every step.
LEMMA LoopStep == LoopOK /\ [Next]_vars => LoopOK'
<1>1. LoopOK /\ UNCHANGED vars => LoopOK'
  BY DEF vars, LoopOK, LoopTypeOK, LoopRowsAgree, RightTask, PageOK
<1>2. QED BY <1>1, IterationRight, FailureRight, OthersRight DEF Next

\* The loop deals with its own result or with a task it may work on, whatever
\* calls fail, leases end and others do meanwhile (verifyJob, takeOneTask).
THEOREM LoopOnRightTask == Spec => [](LoopTypeOK /\ RightTask)
<1>1. LoopOK => LoopTypeOK /\ RightTask BY DEF LoopOK
<1>2. QED BY <1>1, LoopInit, LoopStep, PTL DEF Spec

-----------------------------------------------------------------------------
(* The tasks the agent may claim *)

Claimable(t) == kind[t] = "match" /\ status[t] = "OPEN"

\* The task the agent is to claim if the tasks of S are what it sees.
Foremost(t, S) == t \in S /\ Claimable(t) /\ \A u \in S : Claimable(u) => t <= u

\* Whatever is older than the foremost task takes a place on the page, and
\* these are too few to fill it.
LEMMA ForemostListed ==
    ASSUME LoopOK, RoomOnPage, NEW t \in Tasks, Foremost(t, Tasks)
    PROVE  t \in FirstPage
<1> DEFINE older == {u \in Tasks : Listed(u) /\ u < t}
           crowd == {u \in Tasks : kind[u] \in {"own", "archived"}}
<1>1. Listed(t) BY DEF Foremost, Claimable, Listed
<1>2. ASSUME NEW u \in older PROVE u \in crowd
  <2>1. u \in Tasks /\ Listed(u) /\ u < t /\ u \in Nat /\ t \in Nat
    BY TasksAssumption DEF TasksAssumption
  <2>2. ~Claimable(u) BY <2>1 DEF Foremost
  <2>3. kind[u] \notin {"match", "othertool", "reviewer"}
    BY <2>1, <2>2 DEF Claimable, Listed, RoomOnPage
  <2>4. kind[u] \in AllKinds BY <2>1 DEF LoopOK, LoopTypeOK
  <2>5. QED BY <2>1, <2>3, <2>4 DEF AllKinds
<1>3. IsFiniteSet(crowd) BY TasksAssumption, FS_Subset DEF TasksAssumption
<1>4. older \subseteq crowd BY <1>2
<1>5. /\ IsFiniteSet(older) /\ Cardinality(older) <= Cardinality(crowd)
      /\ Cardinality(older) \in Nat /\ Cardinality(crowd) \in Nat
  BY <1>3, <1>4, FS_Subset, FS_CardinalityType
<1>6. Cardinality(crowd) < PageLimit /\ PageLimit \in Nat
  BY BoundsAssumption DEF BoundsAssumption, RoomOnPage
<1> HIDE DEF crowd
<1>7. Cardinality(older) < PageLimit BY <1>5, <1>6
<1>8. QED BY <1>1, <1>7 DEF FirstPage

\* With room, no claim from the page is denied.
LEMMA NothingDenied ==
    ASSUME LoopOK, RoomOnPage, NEW t \in page
    PROVE  ~Denied(t)
BY DEF LoopOK, LoopTypeOK, PageOK, RoomOnPage, Denied

\* It stays on the page until somebody claims it or the iteration ends in an
\* error.
LEMMA ForemostStays ==
    ASSUME LoopOK, Next, pc = "claim", NEW t \in page, Foremost(t, page)
    PROVE  t \in page' \/ status'[t] = "CLAIMED" \/ Fail \/ Restart
<1>1. /\ Claimable(t)
      /\ page \subseteq Nat /\ page \subseteq Tasks
      /\ status \in [Tasks -> {"OPEN", "CLAIMED", "SUBMITTED", "DECIDED"}]
  BY TasksAssumption DEF TasksAssumption, Foremost, LoopOK, LoopTypeOK
<1>2. PICK f \in page : f = First(page) /\ f <= t BY <1>1, FirstOfPage
<1>3. Claimable(First(page)) => First(page) = t
  <2>1. f \in Nat /\ t \in Nat BY <1>1
  <2>2. Claimable(f) => t <= f BY DEF Foremost
  <2>3. QED BY <1>2, <2>1, <2>2
<1>4. CASE Skip
  <2>1. kind[t] # "own" /\ ~Conflict(t) BY <1>1 DEF Claimable, Conflict
  <2>2. QED BY <1>4, <2>1 DEF Skip
<1>5. CASE ClaimTask
  <2>1. First(page) = t /\ SetTask(First(page), "CLAIMED", "me")
    BY <1>3, <1>5 DEF ClaimTask, Claimable
  <2>2. QED BY <1>1, <2>1 DEF SetTask
<1>6. CASE FailAfter
  <2>1. First(page) = t /\ SetTask(First(page), "CLAIMED", "me")
    BY <1>3, <1>6 DEF FailAfter, Claimable
  <2>2. QED BY <1>1, <2>1 DEF SetTask
<1>7. CASE NothingToClaim BY <1>7 DEF NothingToClaim
<1>8. CASE Environment
  BY <1>8 DEF Environment, OperatorAnswers, OtherClaims, OtherSubmits, LeaseEnds, JobComesBack,
              JobWithheld
<1>9. CASE Poll \/ Answer \/ AnswersDone \/ ClaimVerification \/ VerifyTask \/ ListTasks
           \/ Work \/ SendResult \/ Resume
  BY <1>9 DEF Poll, Answer, AnswersDone, ClaimVerification, VerifyTask, ListTasks,
              Work, SendResult, Resume
<1>10. QED BY <1>4, <1>5, <1>6, <1>7, <1>8, <1>9 DEF Next, Iteration

\* When tasks are listed the foremost one is on the page.
Listing == ListTasks => \A t \in Tasks : Foremost(t, Tasks) => t \in page'

\* The foremost task of the page stays there until somebody claims it, unless the
\* iteration fails or the process restarts.
Claiming ==
    pc = "claim" => \A t \in page : Foremost(t, page) =>
        t \in page' \/ status'[t] = "CLAIMED" \/ Fail \/ Restart

\* The safety half of MatchesNotHidden.  With room on the page, the oldest task
\* the agent may claim is on it when tasks are listed ("Match requirements before
\* LIMIT"), no claim of a task before it is denied, and it stays on it until it
\* is claimed or the iteration fails: unrelated work does not hide it.
THEOREM MatchesSeen ==
    Spec => /\ [](RoomOnPage => \A t \in page : ~Denied(t))
            /\ [][RoomOnPage => Listing /\ Claiming]_vars
<1>1. LoopOK => (RoomOnPage => \A t \in page : ~Denied(t)) BY NothingDenied
<1>2. LoopOK /\ [Next]_vars => [RoomOnPage => Listing /\ Claiming]_vars
  <2>1. ASSUME LoopOK, RoomOnPage PROVE Listing
    BY <2>1, ForemostListed DEF Listing, ListTasks
  <2>2. ASSUME LoopOK, Next PROVE Claiming BY <2>2, ForemostStays DEF Claiming
  <2>3. QED BY <2>1, <2>2
<1>3. QED BY <1>1, <1>2, LoopInit, LoopStep, PTL DEF Spec


-----------------------------------------------------------------------------
(* The leases.  The invariant says how much is left in every step of a      *)
(* process of the lease it has: the whole, less the longest way from the    *)
(* grant to that step, less what is cut off the end of a second.            *)

LeaseTypeOK ==
    /\ open \in BOOLEAN
    /\ holder \in Everyone
    /\ lease \in [Everyone -> -Timeout .. TaskLease]
    /\ verifier \in Everyone
    /\ attempt \in [Everyone -> -Timeout .. AttemptLease]
    /\ agent \in [Agents -> Process]

\* Nobody has a live lease but the one it was last granted to.
OthersOver ==
    /\ \A e \in Everyone : e # holder => lease[e] <= 0
    /\ \A e \in Everyone : e # verifier => attempt[e] <= 0

\* A process has a claim, or the grant of one is on the way to it.
HasClaim(p) == p.pc \in {"status", "search", "work"} \/ (p.pc = "claim" /\ p.done)

HasAttempt(p) == p.pc = "verify" \/ (p.pc = "ask" /\ p.done)

\* As long as a claim lives, only the process that has it can end the task.
OpenWhileLive == \A a \in Agents : HasClaim(agent[a]) /\ lease[a] > 0 => open

\* No call is out for longer than its time-out, no tick is further away than
\* the period, and a heartbeat is out only while the process works.
Timely(p) ==
    /\ p.pc \in Calls => p.age <= Timeout
    /\ p.pc = "verify" => p.age <= Budget
    /\ p.tick <= Ticker
    /\ p.beat # "none" => p.pc = "work" /\ p.beatAge <= Timeout

\* What is left is at least that, but for what was cut off.
AtLeast(left, bound) == left >= bound - (Second - 1)

\* From the grant of a claim to the first wait for a tick.
ToWork == (Timeout - 1) + 2 * Timeout

\* The lease left of a process p with a claim.
ClaimLeft(p, left) ==
    /\ p.pc = "claim" /\ p.done => AtLeast(left, TaskLease - p.age)
    /\ p.pc = "status" => AtLeast(left, TaskLease - (Timeout - 1) - p.age)
    /\ p.pc = "search" => AtLeast(left, TaskLease - (Timeout - 1) - Timeout - p.age)
    /\ p.pc = "work" =>
          /\ p.beat = "none" /\ ~p.due =>
                AtLeast(left, TaskLease - ToWork - (Ticker - p.tick))
          /\ p.beat = "none" /\ p.due => AtLeast(left, TaskLease - ToWork - Ticker)
          /\ p.beat \in {"sent", "refused"} =>
                AtLeast(left, TaskLease - ToWork - Ticker - p.beatAge)
          /\ p.beat = "granted" => AtLeast(left, TaskLease - p.beatAge)

AttemptLeft(p, left) ==
    /\ p.pc = "ask" /\ p.done => AtLeast(left, AttemptLease - p.age)
    /\ p.pc = "verify" => AtLeast(left, AttemptLease - (Timeout - 1) - p.age)

Lasting(a) ==
    Timely(agent[a]) /\ ClaimLeft(agent[a], lease[a]) /\ AttemptLeft(agent[a], attempt[a])

LeasesLast == \A a \in Agents : Lasting(a)

LeaseInv == LeaseTypeOK /\ OthersOver /\ OpenWhileLive /\ LeasesLast

-----------------------------------------------------------------------------
(* Every variable keeps its type. *)

\* The assumptions, as the steps below use them.
LEMMA Margins ==
    /\ TaskLease \in Nat \ {0} /\ AttemptLease \in Nat \ {0}
    /\ Timeout \in Nat \ {0} /\ Ticker \in Nat \ {0} /\ Budget \in Nat \ {0}
    /\ Second \in Nat \ {0} /\ Second <= Timeout
    /\ ToWork \in Nat /\ ToWork >= Timeout /\ ToWork = 3 * Timeout - 1
    /\ ToWork + Ticker + Timeout < TaskLease
    /\ (Timeout - 1) + Budget < AttemptLease
BY TimesAssumption, ClaimMargin, VerdictMargin
   DEF TimesAssumption, ClaimMargin, VerdictMargin, ToWork

\* What is left of a lease of an agent is a number.
LEMMA LeftType ==
    ASSUME LeaseTypeOK, NEW a \in Agents
    PROVE  a \in Everyone /\ lease[a] \in Int /\ attempt[a] \in Int
<1>1. a \in Everyone BY DEF Everyone
<1>2. lease[a] \in -Timeout .. TaskLease /\ attempt[a] \in -Timeout .. AttemptLease
  BY <1>1 DEF LeaseTypeOK
<1>3. QED BY <1>1, <1>2, Margins

\* A lease granted for a call that is not over is cut by less than a second.
LEMMA GrantedLeft ==
    ASSUME NEW length \in Nat, length > Timeout, NEW lag \in 0 .. Timeout,
           NEW left \in Granted(length, lag)
    PROVE  /\ left \in -Timeout .. length
           /\ AtLeast(left, length - lag)
<1>1. PICK part \in 0 .. Second - 1 : left = length - lag - part BY DEF Granted
<1>2. QED BY <1>1, Margins DEF AtLeast

\* No lease runs at first.
LEMMA TypeInit == LeaseInit => LeaseTypeOK
BY Margins DEF LeaseInit, LeaseTypeOK, Everyone, Process, Resting

\* What one process becomes.
LEMMA BecomesType ==
    ASSUME LeaseTypeOK, NEW a \in Agents, NEW p \in Process, Becomes(a, p)
    PROVE  /\ agent' \in [Agents -> Process]
           /\ agent'[a] = p
           /\ \A b \in Agents \ {a} : agent'[b] = agent[b]
BY DEF Becomes, LeaseTypeOK

\* What a process is at the beginning of a step.
LEMMA StepType ==
    ASSUME NEW place \in {"idle", "claim", "status", "search", "work", "send", "ask", "verify"}
    PROVE  /\ Step(place) \in Process
           /\ Step(place).pc = place /\ Step(place).age = 0 /\ Step(place).done = FALSE
           /\ Step(place).tick = Ticker /\ Step(place).due = FALSE
           /\ Step(place).beat = "none" /\ Step(place).beatAge = 0
BY Margins DEF Step, Resting, Process

\* A step that is new keeps the type of the processes.
LEMMA GotoType ==
    ASSUME LeaseTypeOK, NEW a \in Agents,
           NEW place \in {"idle", "claim", "status", "search", "work", "send", "ask", "verify"},
           Goto(a, place)
    PROVE  agent' \in [Agents -> Process]
BY StepType, BecomesType DEF Goto

\* A claim that is granted or renewed.
LEMMA LeaseGranted ==
    ASSUME LeaseTypeOK, NEW e \in Everyone, NEW lag \in 0 .. Timeout,
           NEW left \in Granted(TaskLease, lag), lease' = [lease EXCEPT ![e] = left]
    PROVE  /\ lease' \in [Everyone -> -Timeout .. TaskLease]
           /\ lease'[e] = left /\ AtLeast(lease'[e], TaskLease - lag)
           /\ \A x \in Everyone \ {e} : lease'[x] = lease[x]
<1>1. TaskLease \in Nat /\ TaskLease > Timeout BY Margins
<1>2. left \in -Timeout .. TaskLease /\ AtLeast(left, TaskLease - lag)
  BY <1>1, GrantedLeft
<1>3. lease'[e] = left BY DEF LeaseTypeOK
<1>4. QED BY <1>2, <1>3 DEF LeaseTypeOK

\* An attempt that is granted.
LEMMA AttemptGranted ==
    ASSUME LeaseTypeOK, NEW e \in Everyone, NEW lag \in 0 .. Timeout,
           NEW left \in Granted(AttemptLease, lag), attempt' = [attempt EXCEPT ![e] = left]
    PROVE  /\ attempt' \in [Everyone -> -Timeout .. AttemptLease]
           /\ attempt'[e] = left /\ AtLeast(attempt'[e], AttemptLease - lag)
           /\ \A x \in Everyone \ {e} : attempt'[x] = attempt[x]
<1>1. AttemptLease \in Nat /\ (Timeout - 1) + Budget < AttemptLease /\ Budget \in Nat \ {0}
      /\ Timeout \in Nat
  BY Margins
<1>2. AttemptLease > Timeout BY <1>1
<1>3. left \in -Timeout .. AttemptLease /\ AtLeast(left, AttemptLease - lag)
  BY <1>1, <1>2, GrantedLeft
<1>4. attempt'[e] = left BY DEF LeaseTypeOK
<1>5. QED BY <1>3, <1>4 DEF LeaseTypeOK

\* Types after a step of a process with its task.
LEMMA TypeWork ==
    ASSUME LeaseTypeOK, NEW a \in Agents, TaskStep(a)
    PROVE  LeaseTypeOK'
<1>a. a \in Everyone BY DEF Everyone
<1> USE GotoType DEF LeaseTypeOK
<1>1. CASE BeginClaim(a) BY <1>1 DEF BeginClaim
<1>2. ASSUME NEW lag \in 0 .. Timeout, Claim(a, lag) PROVE LeaseTypeOK'
  <2>1. [agent[a] EXCEPT !.done = TRUE] \in Process BY DEF Process
  <2>2. agent' \in [Agents -> Process] BY <1>2, <2>1, BecomesType DEF Claim
  <2>3. lease' \in [Everyone -> -Timeout .. TaskLease]
    BY <1>a, <1>2, LeaseGranted DEF Claim
  <2>4. QED BY <1>a, <1>2, <2>2, <2>3 DEF Claim
<1>3. CASE Claimed(a) BY <1>3 DEF Claimed
<1>4. CASE StatusSent(a) BY <1>4 DEF StatusSent
<1>5. CASE Searched(a) BY <1>5 DEF Searched
<1>6. CASE Worked(a) BY <1>6 DEF Worked
<1>7. CASE Result(a) BY <1>7 DEF Result, LiveClaim
<1>8. CASE EndIteration(a) BY <1>8 DEF EndIteration
<1>9. QED BY <1>1, <1>2, <1>3, <1>4, <1>5, <1>6, <1>7, <1>8 DEF TaskStep

\* Types after a tick or a step of a heartbeat.
LEMMA TypeRenew ==
    ASSUME LeaseTypeOK, NEW a \in Agents, Renew(a)
    PROVE  LeaseTypeOK'
<1> DEFINE p == agent[a]
<1>a. p \in Process /\ a \in Everyone BY DEF LeaseTypeOK, Everyone
<1> HIDE DEF p
<1>1. CASE Tick(a)
  <2>1. [p EXCEPT !.tick = Ticker, !.due = TRUE] \in Process BY <1>a, Margins DEF Process
  <2>2. QED BY <1>1, <2>1, BecomesType DEF Tick, LeaseTypeOK, p
<1>2. CASE BeginHeartbeat(a)
  <2>1. [p EXCEPT !.due = FALSE, !.beat = "sent", !.beatAge = 0] \in Process
    BY <1>a DEF Process
  <2>2. QED BY <1>2, <2>1, BecomesType DEF BeginHeartbeat, LeaseTypeOK, p
<1>3. CASE HeartbeatAnswered(a)
  <2>1. [p EXCEPT !.beat = "none", !.beatAge = 0] \in Process BY <1>a DEF Process
  <2>2. QED BY <1>3, <2>1, BecomesType DEF HeartbeatAnswered, LeaseTypeOK, p
<1>4. ASSUME NEW lag \in 0 .. Timeout, Heartbeat(a, lag) PROVE LeaseTypeOK'
  <2>1. [p EXCEPT !.beat = "granted"] \in Process BY <1>a DEF Process
  <2>2. [p EXCEPT !.beat = "refused"] \in Process BY <1>a DEF Process
  <2>3. agent' \in [Agents -> Process] BY <1>4, <2>1, <2>2, BecomesType DEF Heartbeat, p
  <2>4. lease' \in [Everyone -> -Timeout .. TaskLease]
    BY <1>a, <1>4, LeaseGranted DEF Heartbeat, LeaseTypeOK
  <2>5. QED BY <1>4, <2>3, <2>4 DEF Heartbeat, LeaseTypeOK
<1>5. QED BY <1>1, <1>2, <1>3, <1>4 DEF Renew

\* Types after a step of a process with a verification.
LEMMA TypeReview ==
    ASSUME LeaseTypeOK, NEW a \in Agents, Review(a)
    PROVE  LeaseTypeOK'
<1>a. a \in Everyone BY DEF Everyone
<1> USE GotoType DEF LeaseTypeOK
<1>1. CASE BeginClaimVerification(a) BY <1>1 DEF BeginClaimVerification
<1>2. CASE JobReceived(a) BY <1>2 DEF JobReceived
<1>3. CASE Verdict(a)
  <2>1. 0 \in -Timeout .. AttemptLease BY Margins
  <2>2. attempt' \in [Everyone -> -Timeout .. AttemptLease] BY <1>3, <2>1 DEF Verdict
  <2>3. QED BY <1>3, <2>2 DEF Verdict
<1>4. ASSUME NEW lag \in 0 .. Timeout, ClaimAttempt(a, lag) PROVE LeaseTypeOK'
  <2>1. [agent[a] EXCEPT !.done = TRUE] \in Process BY DEF Process
  <2>2. agent' \in [Agents -> Process] BY <1>4, <2>1, BecomesType DEF ClaimAttempt
  <2>3. attempt' \in [Everyone -> -Timeout .. AttemptLease]
    BY <1>a, <1>4, AttemptGranted DEF ClaimAttempt
  <2>4. QED BY <1>a, <1>4, <2>2, <2>3 DEF ClaimAttempt
<1>5. QED BY <1>1, <1>2, <1>3, <1>4 DEF Review

\* A process that grows older.
LEMMA OlderType ==
    ASSUME NEW p \in Process, MayWait(p)
    PROVE  /\ Older(p) \in Process
           /\ Older(p).pc = p.pc /\ Older(p).done = p.done
           /\ Older(p).due = p.due /\ Older(p).beat = p.beat
           /\ Older(p).age = (IF p.pc \in Calls \cup {"verify"} THEN p.age + 1 ELSE p.age)
           /\ Older(p).tick = (IF p.pc = "work" THEN p.tick - 1 ELSE p.tick)
           /\ Older(p).beatAge = (IF p.beat # "none" THEN p.beatAge + 1 ELSE p.beatAge)
<1> DEFINE age == IF p.pc \in Calls \cup {"verify"} THEN p.age + 1 ELSE p.age
           tick == IF p.pc = "work" THEN p.tick - 1 ELSE p.tick
           beatAge == IF p.beat # "none" THEN p.beatAge + 1 ELSE p.beatAge
<1>1. age \in Nat /\ tick \in Nat /\ beatAge \in Nat BY DEF Process, MayWait
<1>2. Older(p) = [p EXCEPT !.age = age, !.tick = tick, !.beatAge = beatAge]
  BY DEF Older, Process
<1> HIDE DEF age, tick, beatAge
<1>3. QED BY <1>1, <1>2 DEF Process, age, tick, beatAge

\* A lease that grows shorter.
LEMMA ShorterType ==
    ASSUME NEW length \in Nat, NEW left \in -Timeout .. length
    PROVE  /\ Shorter(left) \in -Timeout .. length
           /\ Shorter(left) <= left /\ Shorter(left) >= left - 1
BY Margins DEF Shorter

\* Types after time has passed.
LEMMA TypePass == ASSUME LeaseTypeOK, Pass PROVE LeaseTypeOK'
<1>1. ASSUME NEW a \in Agents PROVE Older(agent[a]) \in Process
  BY OlderType DEF LeaseTypeOK, Pass
<1>2. agent' \in [Agents -> Process] BY <1>1 DEF Pass
<1>3. TaskLease \in Nat /\ AttemptLease \in Nat BY Margins
<1>4. \A e \in Everyone : /\ Shorter(lease[e]) \in -Timeout .. TaskLease
                          /\ Shorter(attempt[e]) \in -Timeout .. AttemptLease
  BY <1>3, ShorterType DEF LeaseTypeOK
<1>5. QED BY <1>2, <1>4 DEF Pass, LeaseTypeOK

\* Types after a claim of a stranger.
LEMMA TypeStranger == ASSUME LeaseTypeOK, StrangerClaims PROVE LeaseTypeOK'
<1>1. Stranger \in Everyone /\ 0 \in 0 .. Timeout BY Margins DEF Everyone
<1>2. lease' \in [Everyone -> -Timeout .. TaskLease]
  BY <1>1, LeaseGranted DEF StrangerClaims
<1>3. QED BY <1>1, <1>2 DEF StrangerClaims, LeaseTypeOK

\* So the types survive every step.
LEMMA TypeStep == LeaseTypeOK /\ [LeaseNext]_leaseVars => LeaseTypeOK'
<1> SUFFICES ASSUME LeaseTypeOK, [LeaseNext]_leaseVars PROVE LeaseTypeOK'
  OBVIOUS
<1>1. CASE UNCHANGED leaseVars BY <1>1 DEF leaseVars, LeaseTypeOK
<1>2. QED
  BY <1>1, TypeWork, TypeRenew, TypeReview, TypePass, TypeStranger DEF LeaseNext

\* Every variable of Leases keeps its type: no lease is ever longer than granted.
THEOREM TypeCorrect == LeaseSpec => []LeaseTypeOK
<1>1. QED BY TypeInit, TypeStep, PTL DEF LeaseSpec

-----------------------------------------------------------------------------
(* One live claim and one live attempt. *)

\* Steps that grant nothing and take no time.
Ungranted == UNCHANGED <<holder, lease, verifier, attempt>>

\* The steps of a process that are such.
LEMMA QuietSteps ==
    ASSUME NEW a \in Agents,
           \/ BeginClaim(a) \/ Claimed(a) \/ StatusSent(a) \/ Searched(a) \/ Worked(a)
           \/ Result(a) \/ EndIteration(a) \/ Tick(a) \/ BeginHeartbeat(a)
           \/ HeartbeatAnswered(a) \/ BeginClaimVerification(a) \/ JobReceived(a)
    PROVE  Ungranted
<1>1. CASE BeginClaim(a) \/ Claimed(a) \/ StatusSent(a) \/ Searched(a) \/ Worked(a)
           \/ Result(a)
  BY <1>1 DEF BeginClaim, Claimed, StatusSent, Searched, Worked, Result, Ungranted
<1>2. CASE EndIteration(a) \/ Tick(a) \/ BeginHeartbeat(a) \/ HeartbeatAnswered(a)
           \/ BeginClaimVerification(a) \/ JobReceived(a)
  BY <1>2 DEF EndIteration, Tick, BeginHeartbeat, HeartbeatAnswered,
              BeginClaimVerification, JobReceived, Ungranted
<1>3. QED BY <1>1, <1>2

\* The rest of the steps.
LEMMA StepCases ==
    ASSUME LeaseNext
    PROVE  \/ Ungranted
           \/ \E a \in Agents :
                 \/ \E lag \in 0 .. Timeout :
                       Claim(a, lag) \/ Heartbeat(a, lag) \/ ClaimAttempt(a, lag)
                 \/ Verdict(a)
           \/ StrangerClaims \/ Pass
BY QuietSteps DEF LeaseNext, TaskStep, Renew, Review

\* A lease is granted when no other is live.
LEMMA OthersStep ==
    ASSUME LeaseTypeOK, OthersOver, [LeaseNext]_leaseVars
    PROVE  OthersOver'
<1>a. /\ holder \in Everyone /\ \A e \in Everyone : lease[e] \in Int
      /\ verifier \in Everyone /\ \A e \in Everyone : attempt[e] \in Int
  BY Margins DEF LeaseTypeOK
<1>b. ASSUME lease[holder] <= 0 PROVE \A e \in Everyone : lease[e] <= 0
  BY <1>b DEF OthersOver
<1>c. ASSUME attempt[verifier] <= 0 PROVE \A e \in Everyone : attempt[e] <= 0
  BY <1>c DEF OthersOver
<1>1. CASE Ungranted BY <1>1 DEF Ungranted, OthersOver
<1>2. ASSUME NEW a \in Agents, NEW lag \in 0 .. Timeout, Claim(a, lag) PROVE OthersOver'
  <2>1. a \in Everyone /\ holder' = a /\ UNCHANGED <<verifier, attempt>>
        /\ \A e \in Everyone : lease[e] <= 0
    BY <1>2, <1>b DEF Claim, Everyone
  <2>2. \A e \in Everyone \ {a} : lease'[e] = lease[e]
    BY <1>2, <2>1, LeaseGranted DEF Claim
  <2>3. QED BY <2>1, <2>2 DEF OthersOver
<1>3. ASSUME NEW a \in Agents, NEW lag \in 0 .. Timeout, Heartbeat(a, lag) PROVE OthersOver'
  <2>1. a \in Everyone /\ UNCHANGED <<holder, verifier, attempt>>
    BY <1>3 DEF Heartbeat, Everyone
  <2>2. CASE UNCHANGED lease BY <2>1, <2>2 DEF OthersOver
  <2>3. CASE LiveAt(a, lag) /\ lease' # lease
    <3>1. holder = a /\ \A e \in Everyone \ {a} : lease'[e] = lease[e]
      BY <1>3, <2>1, <2>3, LeaseGranted DEF Heartbeat, LiveAt
    <3>2. QED BY <2>1, <3>1 DEF OthersOver
  <2>4. QED BY <1>3, <2>2, <2>3 DEF Heartbeat
<1>4. ASSUME NEW a \in Agents, NEW lag \in 0 .. Timeout, ClaimAttempt(a, lag)
      PROVE  OthersOver'
  <2>1. a \in Everyone /\ verifier' = a /\ UNCHANGED <<holder, lease>>
        /\ \A e \in Everyone : attempt[e] <= 0
    BY <1>4, <1>c DEF ClaimAttempt, Everyone
  <2>2. \A e \in Everyone \ {a} : attempt'[e] = attempt[e]
    BY <1>4, <2>1, AttemptGranted DEF ClaimAttempt
  <2>3. QED BY <2>1, <2>2 DEF OthersOver
<1>5. ASSUME NEW a \in Agents, Verdict(a) PROVE OthersOver'
  <2>1. UNCHANGED <<holder, lease, verifier>>
        /\ \A e \in Everyone : attempt'[e] \in {0, attempt[e]}
    BY <1>5 DEF Verdict, LeaseTypeOK
  <2>2. QED BY <2>1 DEF OthersOver
<1>6. CASE StrangerClaims
  <2>1. /\ Stranger \in Everyone /\ 0 \in 0 .. Timeout
        /\ holder' = Stranger /\ UNCHANGED <<verifier, attempt>>
        /\ \A e \in Everyone : lease[e] <= 0
    BY <1>6, <1>b, Margins DEF StrangerClaims, Everyone
  <2>2. \A e \in Everyone \ {Stranger} : lease'[e] = lease[e]
    BY <1>6, <2>1, LeaseGranted DEF StrangerClaims
  <2>3. QED BY <2>1, <2>2 DEF OthersOver
<1>7. CASE Pass
  <2>1. UNCHANGED <<holder, verifier>>
        /\ \A e \in Everyone : /\ lease'[e] = Shorter(lease[e])
                               /\ attempt'[e] = Shorter(attempt[e])
    BY <1>7 DEF Pass
  <2>2. \A left \in Int : left <= 0 => Shorter(left) <= 0 BY DEF Shorter
  <2>3. QED BY <1>a, <2>1, <2>2 DEF OthersOver
<1>8. CASE UNCHANGED leaseVars BY <1>8, <1>1 DEF leaseVars, Ungranted
<1>9. QED BY <1>1, <1>2, <1>3, <1>4, <1>5, <1>6, <1>7, <1>8, StepCases

\* A result is accepted from the holder of the live claim only, so no other
\* process with a live claim is left behind.
LEMMA ResultOpen ==
    ASSUME LeaseTypeOK, OthersOver, OpenWhileLive, NEW a \in Agents, Result(a)
    PROVE  OpenWhileLive'
<1> SUFFICES ASSUME NEW b \in Agents, HasClaim(agent'[b]), lease'[b] > 0 PROVE open'
  BY DEF OpenWhileLive
<1>1. b # a
  <2>1. agent'[a] = Step("idle") BY DEF Result, Goto, Becomes, LeaseTypeOK
  <2>2. ~HasClaim(Step("idle")) BY StepType DEF HasClaim
  <2>3. QED BY <2>1, <2>2
<1>2. agent'[b] = agent[b] /\ lease'[b] = lease[b]
  BY <1>1 DEF Result, Goto, Becomes, LeaseTypeOK
<1>3. open BY <1>2 DEF OpenWhileLive
<1>4. holder = b BY <1>2, LeftType DEF OthersOver
<1>5. QED BY <1>1, <1>3, <1>4 DEF Result, LiveClaim

\* The step of a process that already has its claim, or that gets none.
LEMMA NoNewClaim ==
    ASSUME LeaseTypeOK, LeaseNext, NEW b \in Agents, HasClaim(agent'[b]), ~open
    PROVE  HasClaim(agent[b])
<1> SUFFICES ASSUME ~HasClaim(agent[b]) PROVE FALSE OBVIOUS
<1>1. agent'[b] # agent[b] OBVIOUS
<1>2. CASE Pass
  <2>1. agent'[b] = Older(agent[b]) /\ MayWait(agent[b]) /\ agent[b] \in Process
    BY <1>2 DEF Pass, LeaseTypeOK
  <2>2. agent'[b].pc = agent[b].pc /\ agent'[b].done = agent[b].done
    BY <2>1, OlderType
  <2>3. QED BY <2>2 DEF HasClaim
<1>3. CASE StrangerClaims BY <1>3, <1>1 DEF StrangerClaims
<1>4. ASSUME NEW a \in Agents, TaskStep(a) \/ Renew(a) \/ Review(a) PROVE FALSE
  <2>a. ASSUME NEW p, Becomes(a, p) PROVE b = a /\ agent'[b] = p
    BY <2>a, <1>1 DEF Becomes, LeaseTypeOK
  <2>b. ASSUME NEW place \in {"idle", "send", "claim", "ask", "verify"}, Goto(a, place)
        PROVE  FALSE
    <3>1. agent'[b] = Step(place) BY <2>a, <2>b DEF Goto
    <3>2. Step(place).pc = place BY StepType
    <3>3. Step(place).done = FALSE BY StepType
    <3>4. QED BY <2>b, <3>1, <3>2, <3>3 DEF HasClaim
  <2>1. CASE BeginClaim(a) \/ Worked(a) \/ Result(a) \/ EndIteration(a)
             \/ BeginClaimVerification(a) \/ JobReceived(a) \/ Verdict(a)
    BY <2>1, <2>b DEF BeginClaim, Worked, Result, EndIteration, BeginClaimVerification,
                      JobReceived, Verdict
  <2>2. ASSUME NEW lag, Claim(a, lag) PROVE FALSE BY <2>2 DEF Claim
  <2>3. CASE Claimed(a) \/ StatusSent(a) \/ Searched(a)
    <3>1. b = a BY <2>3, <2>a DEF Claimed, StatusSent, Searched, Goto
    <3>2. HasClaim(agent[a]) BY <2>3 DEF Claimed, StatusSent, Searched, HasClaim
    <3>3. QED BY <3>1, <3>2
  <2>4. CASE Tick(a) \/ BeginHeartbeat(a)
    <3>1. b = a BY <2>4, <2>a DEF Tick, BeginHeartbeat
    <3>2. HasClaim(agent[a]) BY <2>4 DEF Tick, BeginHeartbeat, HasClaim
    <3>3. QED BY <3>1, <3>2
  <2>5. ASSUME NEW p, Becomes(a, p), p.pc = agent[a].pc, p.done = agent[a].done
        PROVE  FALSE
    <3>1. b = a /\ agent'[b] = p BY <2>5, <2>a
    <3>2. QED BY <3>1, <2>5 DEF HasClaim
  <2>6. CASE HeartbeatAnswered(a)
    <3> DEFINE p == [agent[a] EXCEPT !.beat = "none", !.beatAge = 0]
    <3>1. p.pc = agent[a].pc /\ p.done = agent[a].done BY DEF LeaseTypeOK, Process
    <3>2. QED BY <2>6, <3>1, <2>5 DEF HeartbeatAnswered
  <2>7. ASSUME NEW lag, Heartbeat(a, lag) PROVE FALSE
    <3> DEFINE p == [agent[a] EXCEPT !.beat = "granted"]
               q == [agent[a] EXCEPT !.beat = "refused"]
    <3>1. /\ p.pc = agent[a].pc /\ p.done = agent[a].done
          /\ q.pc = agent[a].pc /\ q.done = agent[a].done
      BY DEF LeaseTypeOK, Process
    <3>2. Becomes(a, p) \/ Becomes(a, q) BY <2>7 DEF Heartbeat
    <3>3. QED BY <3>1, <3>2, <2>5
  <2>8. ASSUME NEW lag, ClaimAttempt(a, lag) PROVE FALSE
    <3> DEFINE p == [agent[a] EXCEPT !.done = TRUE]
    <3>1. b = a /\ agent'[b] = p BY <2>8, <2>a DEF ClaimAttempt
    <3>2. p.pc = "ask" BY <2>8 DEF ClaimAttempt, LeaseTypeOK, Process
    <3>3. QED BY <3>1, <3>2 DEF HasClaim
  <2>9. QED BY <1>4, <2>1, <2>2, <2>3, <2>4, <2>6, <2>7, <2>8 DEF TaskStep, Renew, Review
<1>5. QED BY <1>2, <1>3, <1>4 DEF LeaseNext

\* A task that is not open is claimed by nobody and no claim of it is renewed.
LEMMA NoNewLease ==
    ASSUME LeaseTypeOK, LeaseNext, ~open, NEW b \in Agents
    PROVE  lease'[b] <= lease[b]
<1>a. b \in Everyone /\ lease[b] \in Int BY LeftType
<1>1. CASE UNCHANGED lease BY <1>a, <1>1
<1>2. CASE Pass
  <2>1. lease[b] \in -Timeout .. TaskLease /\ TaskLease \in Nat
    BY <1>a, Margins DEF LeaseTypeOK
  <2>2. Shorter(lease[b]) <= lease[b] BY <2>1, ShorterType
  <2>3. QED BY <1>2, <1>a, <2>2 DEF Pass
<1>3. CASE StrangerClaims BY <1>3 DEF StrangerClaims
<1>4. ASSUME NEW a \in Agents, NEW lag \in 0 .. Timeout,
             Claim(a, lag) \/ Heartbeat(a, lag) \/ ClaimAttempt(a, lag)
      PROVE  UNCHANGED lease
  BY <1>4 DEF Claim, Heartbeat, LiveAt, ClaimAttempt
<1>5. QED BY <1>1, <1>2, <1>3, <1>4, StepCases DEF Ungranted, Verdict

\* A task is ended by the holder of the live claim and only by it.
LEMMA OpenStep ==
    ASSUME LeaseTypeOK, OthersOver, OpenWhileLive, [LeaseNext]_leaseVars
    PROVE  OpenWhileLive'
<1>1. CASE UNCHANGED leaseVars BY <1>1 DEF leaseVars, OpenWhileLive
<1>2. ASSUME NEW a \in Agents, Result(a) PROVE OpenWhileLive' BY <1>2, ResultOpen
<1>3. CASE LeaseNext /\ open' = open /\ open BY <1>3 DEF OpenWhileLive
<1>4. CASE LeaseNext /\ ~open
  <2>1. ASSUME NEW b \in Agents, HasClaim(agent'[b]), lease'[b] > 0 PROVE FALSE
    <3>1. HasClaim(agent[b]) BY <1>4, <2>1, NoNewClaim
    <3>2. lease'[b] <= lease[b] /\ lease[b] \in Int BY <1>4, NoNewLease, LeftType
    <3>3. lease'[b] \in Int
      <4>1. LeaseTypeOK' BY TypeStep
      <4>2. lease'[b] \in -Timeout .. TaskLease BY <4>1 DEF LeaseTypeOK, Everyone
      <4>3. QED BY <4>2, Margins
    <3>4. QED BY <1>4, <2>1, <3>1, <3>2, <3>3 DEF OpenWhileLive
  <2>2. QED BY <2>1 DEF OpenWhileLive
<1>5. ASSUME LeaseNext, open' # open PROVE \E a \in Agents : Result(a)
  <2>1. ASSUME NEW a \in Agents, TaskStep(a), ~Result(a) PROVE open' = open
    BY <2>1 DEF TaskStep, BeginClaim, Claim, Claimed, StatusSent, Searched, Worked,
                EndIteration
  <2>2. ASSUME NEW a \in Agents, Renew(a) PROVE open' = open
    BY <2>2 DEF Renew, Tick, BeginHeartbeat, Heartbeat, HeartbeatAnswered
  <2>3. ASSUME NEW a \in Agents, Review(a) PROVE open' = open
    BY <2>3 DEF Review, BeginClaimVerification, ClaimAttempt, JobReceived, Verdict
  <2>4. QED BY <1>5, <2>1, <2>2, <2>3 DEF LeaseNext, StrangerClaims, Pass
<1>6. open \in BOOLEAN BY DEF LeaseTypeOK
<1>7. QED BY <1>1, <1>2, <1>3, <1>4, <1>5, <1>6

-----------------------------------------------------------------------------
(* The leases last. *)

\* A lease that has to last has not been over for a second.
LEMMA ClaimLives ==
    ASSUME NEW p \in Process, NEW left \in Int, Timely(p), ClaimLeft(p, left), HasClaim(p)
    PROVE  -Second < left
<1>1. CASE p.pc = "claim" BY <1>1, Margins
  DEF Process, Timely, ClaimLeft, HasClaim, AtLeast, Calls
<1>2. CASE p.pc = "status" BY <1>2, Margins DEF Process, Timely, ClaimLeft, AtLeast, Calls
<1>3. CASE p.pc = "search" BY <1>3, Margins DEF Process, Timely, ClaimLeft, AtLeast, Calls
<1>4. CASE p.pc = "work" BY <1>4, Margins DEF Process, Timely, ClaimLeft, AtLeast
<1>5. QED BY <1>1, <1>2, <1>3, <1>4 DEF HasClaim

\* Nor has an attempt that has to last.
LEMMA AttemptLives ==
    ASSUME NEW p \in Process, NEW left \in Int, Timely(p), AttemptLeft(p, left),
           HasAttempt(p)
    PROVE  -Second < left
<1>1. CASE p.pc = "ask" BY <1>1, Margins
  DEF Process, Timely, AttemptLeft, HasAttempt, AtLeast, Calls
<1>2. CASE p.pc = "verify" BY <1>2, Margins DEF Process, Timely, AttemptLeft, AtLeast
<1>3. QED BY <1>1, <1>2 DEF HasAttempt

\* A step of process e leaves the leases of the others alone.
OwnOnly(e) == \A x \in Everyone \ {e} : lease'[x] = lease[x] /\ attempt'[x] = attempt[x]

\* So such a step preserves LeasesLast if its own leases last.
LEMMA OneProcess ==
    ASSUME LeaseTypeOK, LeasesLast, NEW a \in Agents, NEW p \in Process, Becomes(a, p),
           OwnOnly(a), Timely(p), ClaimLeft(p, lease'[a]), AttemptLeft(p, attempt'[a])
    PROVE  LeasesLast'
<1>1. agent'[a] = p /\ \A b \in Agents \ {a} : agent'[b] = agent[b] BY BecomesType
<1>2. Lasting(a)' BY <1>1 DEF Lasting
<1>3. ASSUME NEW b \in Agents \ {a} PROVE Lasting(b)'
  <2>1. b \in Everyone \ {a} BY DEF Everyone
  <2>2. agent'[b] = agent[b] /\ lease'[b] = lease[b] /\ attempt'[b] = attempt[b]
    BY <1>1, <2>1 DEF OwnOnly
  <2>3. Lasting(b) BY DEF LeasesLast
  <2>4. QED BY <2>2, <2>3 DEF Lasting
<1>4. QED BY <1>2, <1>3 DEF LeasesLast

\* A process that goes to a step in which it has no lease.
LEMMA GoesToRest ==
    ASSUME LeaseTypeOK, LeasesLast, NEW a \in Agents,
           NEW place \in {"idle", "claim", "send", "ask"}, Goto(a, place), OwnOnly(a)
    PROVE  LeasesLast'
<1> DEFINE p == Step(place)
<1>a. place \in {"idle", "claim", "status", "search", "work", "send", "ask", "verify"}
  OBVIOUS
<1>1. p \in Process /\ p.pc = place /\ p.age = 0 /\ p.done = FALSE /\ p.tick = Ticker
      /\ p.beat = "none"
  BY <1>a, StepType
<1> HIDE DEF p
<1>2. Becomes(a, p) BY DEF Goto, p
<1>3. Timely(p) BY <1>1, Margins DEF Timely, Calls
<1>4. ClaimLeft(p, lease'[a]) BY <1>1 DEF ClaimLeft
<1>5. AttemptLeft(p, attempt'[a]) BY <1>1 DEF AttemptLeft
<1>6. QED BY <1>1, <1>2, <1>3, <1>4, <1>5, OneProcess

\* A process that goes on with its task and its claim.
LEMMA GoesOn ==
    ASSUME LeaseTypeOK, LeasesLast, NEW a \in Agents,
           NEW place \in {"status", "search", "work"}, Goto(a, place),
           UNCHANGED <<lease, attempt>>,
           place = "status" => AtLeast(lease[a], TaskLease - (Timeout - 1)),
           place = "search" => AtLeast(lease[a], TaskLease - (Timeout - 1) - Timeout),
           place = "work" => AtLeast(lease[a], TaskLease - ToWork)
    PROVE  LeasesLast'
<1> DEFINE p == Step(place)
<1>a. place \in {"idle", "claim", "status", "search", "work", "send", "ask", "verify"}
  OBVIOUS
<1>1. p \in Process /\ p.pc = place /\ p.age = 0 /\ p.done = FALSE /\ p.tick = Ticker
      /\ p.due = FALSE /\ p.beat = "none"
  BY <1>a, StepType
<1> HIDE DEF p
<1>2. Becomes(a, p) BY DEF Goto, p
<1>3. Timely(p) BY <1>1, Margins DEF Timely, Calls
<1>4. lease'[a] = lease[a] /\ lease[a] \in Int BY LeftType
<1>5. ClaimLeft(p, lease'[a])
  <2>1. CASE place = "status" BY <2>1, <1>1, <1>4, Margins DEF ClaimLeft, AtLeast
  <2>2. CASE place = "search" BY <2>2, <1>1, <1>4, Margins DEF ClaimLeft, AtLeast
  <2>3. CASE place = "work" BY <2>3, <1>1, <1>4, Margins DEF ClaimLeft, AtLeast
  <2>4. QED BY <2>1, <2>2, <2>3
<1>6. AttemptLeft(p, attempt'[a]) BY <1>1 DEF AttemptLeft
<1>7. OwnOnly(a) BY DEF OwnOnly
<1>8. QED BY <1>1, <1>2, <1>3, <1>5, <1>6, <1>7, OneProcess

\* The steps of takeOneTask.
LEMMA WorkLasts ==
    ASSUME LeaseTypeOK, LeasesLast, NEW a \in Agents, TaskStep(a)
    PROVE  LeasesLast'
<1> DEFINE p == agent[a]
<1>a. p \in Process /\ Timely(p) /\ ClaimLeft(p, lease[a]) /\ AttemptLeft(p, attempt[a])
  BY DEF LeaseTypeOK, LeasesLast, Lasting
<1>b. a \in Everyone /\ lease[a] \in Int /\ attempt[a] \in Int BY LeftType
<1>c. UNCHANGED <<lease, attempt>> => OwnOnly(a) BY DEF OwnOnly
<1> HIDE DEF p
<1>1. CASE BeginClaim(a) BY <1>1, <1>c, GoesToRest DEF BeginClaim
<1>2. ASSUME NEW lag \in 0 .. Timeout, Claim(a, lag) PROVE LeasesLast'
  <2> DEFINE q == [p EXCEPT !.done = TRUE]
  <2>1. q \in Process /\ q.pc = "claim" /\ q.age = p.age /\ q.done /\ q.tick = p.tick
        /\ q.beat = p.beat /\ q.due = p.due
    BY <1>a, <1>2 DEF Process, Claim, p
  <2>2. Becomes(a, q) BY <1>2 DEF Claim, p
  <2> HIDE DEF q
  <2>3. Timely(q) BY <1>a, <2>1, <1>2 DEF Timely, Claim, p
  <2>4. /\ lease'[a] \in Int /\ AtLeast(lease'[a], TaskLease - lag)
        /\ \A x \in Everyone \ {a} : lease'[x] = lease[x]
    <3>1. PICK left \in Granted(TaskLease, lag) : lease' = [lease EXCEPT ![a] = left]
      BY <1>2 DEF Claim
    <3>2. /\ lease' \in [Everyone -> -Timeout .. TaskLease]
          /\ AtLeast(lease'[a], TaskLease - lag)
          /\ \A x \in Everyone \ {a} : lease'[x] = lease[x]
      BY <1>b, <3>1, LeaseGranted
    <3>3. lease'[a] \in -Timeout .. TaskLease BY <1>b, <3>2
    <3>4. QED BY <3>2, <3>3, Margins
  <2>5. ClaimLeft(q, lease'[a])
    <3>1. lag <= p.age /\ p.age \in Nat BY <1>2, <1>a DEF Claim, p, Process
    <3>2. AtLeast(lease'[a], TaskLease - q.age) BY <3>1, <2>1, <2>4, Margins DEF AtLeast
    <3>3. QED BY <2>1, <3>2 DEF ClaimLeft
  <2>6. AttemptLeft(q, attempt'[a]) BY <2>1 DEF AttemptLeft
  <2>7. OwnOnly(a) BY <1>2, <2>4 DEF Claim, OwnOnly
  <2>8. QED BY <2>1, <2>2, <2>3, <2>5, <2>6, <2>7, OneProcess
<1>3. CASE Claimed(a)
  <2>1. AtLeast(lease[a], TaskLease - p.age) /\ p.age \in Nat /\ p.age < Timeout
    BY <1>3, <1>a DEF Claimed, ClaimLeft, Process, p
  <2>2. AtLeast(lease[a], TaskLease - (Timeout - 1)) BY <2>1, <1>b, Margins DEF AtLeast
  <2>3. QED BY <1>3, <2>2, GoesOn DEF Claimed
<1>4. CASE StatusSent(a)
  <2>1. AtLeast(lease[a], TaskLease - (Timeout - 1) - p.age) /\ p.age \in Nat
        /\ p.age <= Timeout
    BY <1>4, <1>a DEF StatusSent, ClaimLeft, Process, p, Timely, Calls
  <2>2. AtLeast(lease[a], TaskLease - (Timeout - 1) - Timeout)
    BY <2>1, <1>b, Margins DEF AtLeast
  <2>3. QED BY <1>4, <2>2, GoesOn DEF StatusSent
<1>5. CASE Searched(a)
  <2>1. AtLeast(lease[a], TaskLease - (Timeout - 1) - Timeout - p.age) /\ p.age \in Nat
        /\ p.age <= Timeout
    BY <1>5, <1>a DEF Searched, ClaimLeft, Process, p, Timely, Calls
  <2>2. AtLeast(lease[a], TaskLease - ToWork) BY <2>1, <1>b, Margins DEF AtLeast
  <2>3. QED BY <1>5, <2>2, GoesOn DEF Searched
<1>6. CASE Worked(a) BY <1>6, <1>c, GoesToRest DEF Worked
<1>7. CASE Result(a) BY <1>7, <1>c, GoesToRest DEF Result
<1>8. CASE EndIteration(a) BY <1>8, <1>c, GoesToRest DEF EndIteration
<1>9. QED BY <1>1, <1>2, <1>3, <1>4, <1>5, <1>6, <1>7, <1>8 DEF TaskStep

\* The steps of maintainLease: the answer to a heartbeat is in time to be sure
\* of the claim.
LEMMA RenewLasts ==
    ASSUME LeaseTypeOK, LeasesLast, NEW a \in Agents, Renew(a)
    PROVE  LeasesLast'
<1> DEFINE p == agent[a]
<1>a. p \in Process /\ Timely(p) /\ ClaimLeft(p, lease[a])
  BY DEF LeaseTypeOK, LeasesLast, Lasting
<1>b. a \in Everyone /\ lease[a] \in Int BY LeftType
<1> HIDE DEF p
\* A process at work that takes a step within it.
<1>c. ASSUME NEW q \in Process, Becomes(a, q), q.pc = "work",
             UNCHANGED attempt, \A x \in Everyone \ {a} : lease'[x] = lease[x],
             q.tick <= Ticker, q.beat # "none" => q.beatAge <= Timeout,
             ClaimLeft(q, lease'[a])
      PROVE  LeasesLast'
  <2>1. OwnOnly(a) BY <1>c DEF OwnOnly
  <2>2. Timely(q) BY <1>c DEF Timely, Calls
  <2>3. AttemptLeft(q, attempt'[a]) BY <1>c DEF AttemptLeft
  <2>4. QED BY <1>c, <2>1, <2>2, <2>3, OneProcess
<1>1. CASE Tick(a)
  <2> DEFINE q == [p EXCEPT !.tick = Ticker, !.due = TRUE]
  <2>1. q \in Process /\ q.pc = "work" /\ q.beat = p.beat /\ q.beatAge = p.beatAge
        /\ q.tick = Ticker /\ q.due /\ p.pc = "work" /\ p.tick = 0
    BY <1>a, <1>1, Margins DEF Process, Tick, p
  <2>2. Becomes(a, q) BY <1>1 DEF Tick, p
  <2> HIDE DEF q
  <2>3. UNCHANGED <<lease, attempt>> BY <1>1 DEF Tick
  <2>4. ClaimLeft(q, lease'[a])
    BY <2>1, <2>3, <1>a, <1>b, Margins DEF ClaimLeft, AtLeast, Process
  <2>5. q.tick <= Ticker /\ (q.beat # "none" => q.beatAge <= Timeout)
    BY <2>1, <1>a, Margins DEF Timely
  <2>6. QED BY <2>1, <2>2, <2>3, <2>4, <2>5, <1>c
<1>2. CASE BeginHeartbeat(a)
  <2> DEFINE q == [p EXCEPT !.due = FALSE, !.beat = "sent", !.beatAge = 0]
  <2>1. q \in Process /\ q.pc = "work" /\ q.beat = "sent" /\ q.beatAge = 0
        /\ q.tick = p.tick /\ p.pc = "work" /\ p.beat = "none" /\ p.due
    BY <1>a, <1>2, Margins DEF Process, BeginHeartbeat, p
  <2>2. Becomes(a, q) BY <1>2 DEF BeginHeartbeat, p
  <2> HIDE DEF q
  <2>3. UNCHANGED <<lease, attempt>> BY <1>2 DEF BeginHeartbeat
  <2>4. ClaimLeft(q, lease'[a])
    BY <2>1, <2>3, <1>a, <1>b, Margins DEF ClaimLeft, AtLeast
  <2>5. q.tick <= Ticker /\ (q.beat # "none" => q.beatAge <= Timeout)
    BY <2>1, <1>a, Margins DEF Timely
  <2>6. QED BY <2>1, <2>2, <2>3, <2>4, <2>5, <1>c
<1>3. ASSUME NEW lag \in 0 .. Timeout, Heartbeat(a, lag) PROVE LeasesLast'
  <2>1. p.beat = "sent" /\ p.pc = "work" /\ UNCHANGED attempt /\ lag <= p.beatAge
        /\ p.beatAge \in Nat
    BY <1>3, <1>a DEF Heartbeat, Timely, p, Process
  <2>2. ASSUME NEW left \in Granted(TaskLease, lag), lease' = [lease EXCEPT ![a] = left],
               Becomes(a, [agent[a] EXCEPT !.beat = "granted"])
        PROVE  LeasesLast'
    <3> DEFINE q == [p EXCEPT !.beat = "granted"]
    <3>1. q \in Process /\ q.pc = "work" /\ q.beat = "granted" /\ q.beatAge = p.beatAge
          /\ q.tick = p.tick
      BY <1>a, <2>1 DEF Process
    <3>2. Becomes(a, q) BY <2>2 DEF p
    <3> HIDE DEF q
    <3>3. /\ lease' \in [Everyone -> -Timeout .. TaskLease]
          /\ AtLeast(lease'[a], TaskLease - lag)
          /\ \A x \in Everyone \ {a} : lease'[x] = lease[x]
      BY <1>b, <2>2, LeaseGranted
    <3>4. lease'[a] \in Int
      <4>1. lease'[a] \in -Timeout .. TaskLease BY <1>b, <3>3
      <4>2. QED BY <4>1, Margins
    <3>5. AtLeast(lease'[a], TaskLease - q.beatAge)
      BY <2>1, <3>1, <3>3, <3>4, Margins DEF AtLeast
    <3>6. ClaimLeft(q, lease'[a]) BY <3>1, <3>5 DEF ClaimLeft
    <3>7. q.tick <= Ticker /\ (q.beat # "none" => q.beatAge <= Timeout)
      BY <2>1, <3>1, <1>a DEF Timely
    <3>8. QED BY <2>1, <3>1, <3>2, <3>3, <3>6, <3>7, <1>c
  <2>3. ASSUME UNCHANGED lease, Becomes(a, [agent[a] EXCEPT !.beat = "refused"])
        PROVE  LeasesLast'
    <3> DEFINE q == [p EXCEPT !.beat = "refused"]
    <3>1. q \in Process /\ q.pc = "work" /\ q.beat = "refused" /\ q.beatAge = p.beatAge
          /\ q.tick = p.tick
      BY <1>a, <2>1 DEF Process
    <3>2. Becomes(a, q) BY <2>3 DEF p
    <3> HIDE DEF q
    <3>3. AtLeast(lease[a], TaskLease - ToWork - Ticker - p.beatAge)
      BY <2>1, <1>a DEF ClaimLeft
    <3>4. ClaimLeft(q, lease'[a]) BY <2>3, <3>1, <3>3 DEF ClaimLeft
    <3>5. q.tick <= Ticker /\ (q.beat # "none" => q.beatAge <= Timeout)
      BY <2>1, <3>1, <1>a DEF Timely
    <3>6. QED BY <2>1, <2>3, <3>1, <3>2, <3>4, <3>5, <1>c
  <2>4. QED BY <1>3, <2>2, <2>3 DEF Heartbeat
<1>4. CASE HeartbeatAnswered(a)
  <2> DEFINE q == [p EXCEPT !.beat = "none", !.beatAge = 0]
  <2>1. p.beat = "granted" /\ p.pc = "work" /\ p.beatAge < Timeout
    BY <1>4, <1>a DEF HeartbeatAnswered, Timely, p
  <2>2. q \in Process /\ q.pc = "work" /\ q.beat = "none" /\ q.tick = p.tick
    BY <1>a, <2>1 DEF Process
  <2>3. Becomes(a, q) BY <1>4 DEF HeartbeatAnswered, p
  <2> HIDE DEF q
  <2>4. UNCHANGED <<lease, attempt>> BY <1>4 DEF HeartbeatAnswered
  <2>5. AtLeast(lease[a], TaskLease - p.beatAge) BY <1>a, <2>1 DEF ClaimLeft
  <2>6. q.tick \in Nat /\ q.tick <= Ticker /\ p.beatAge \in Nat
    BY <1>a, <2>2 DEF Process, Timely
  <2>7. AtLeast(lease[a], TaskLease - ToWork - (Ticker - q.tick))
    BY <2>1, <2>5, <2>6, <1>b, Margins DEF AtLeast
  <2>8. AtLeast(lease[a], TaskLease - ToWork - Ticker)
    BY <2>6, <2>7, <1>b, Margins DEF AtLeast
  <2>9. ClaimLeft(q, lease'[a]) BY <2>2, <2>4, <2>7, <2>8 DEF ClaimLeft
  <2>10. QED BY <2>2, <2>3, <2>4, <2>6, <2>9, <1>c
<1>5. QED BY <1>1, <1>2, <1>3, <1>4 DEF Renew

\* The steps of a verification.
LEMMA ReviewLasts ==
    ASSUME LeaseTypeOK, LeasesLast, NEW a \in Agents, Review(a)
    PROVE  LeasesLast'
<1> DEFINE p == agent[a]
<1>a. p \in Process /\ Timely(p) /\ AttemptLeft(p, attempt[a])
  BY DEF LeaseTypeOK, LeasesLast, Lasting
<1>b. a \in Everyone /\ attempt[a] \in Int BY LeftType
<1> HIDE DEF p
<1>1. CASE BeginClaimVerification(a)
  <2>1. OwnOnly(a) BY <1>1 DEF BeginClaimVerification, OwnOnly
  <2>2. QED BY <1>1, <2>1, GoesToRest DEF BeginClaimVerification
<1>2. ASSUME NEW lag \in 0 .. Timeout, ClaimAttempt(a, lag) PROVE LeasesLast'
  <2> DEFINE q == [p EXCEPT !.done = TRUE]
  <2>1. q \in Process /\ q.pc = "ask" /\ q.age = p.age /\ q.done /\ q.tick = p.tick
        /\ q.beat = p.beat
    BY <1>a, <1>2 DEF Process, ClaimAttempt, p
  <2>2. Becomes(a, q) BY <1>2 DEF ClaimAttempt, p
  <2> HIDE DEF q
  <2>3. Timely(q) BY <1>a, <2>1, <1>2 DEF Timely, ClaimAttempt, p, Calls
  <2>4. /\ attempt'[a] \in Int /\ AtLeast(attempt'[a], AttemptLease - lag)
        /\ \A x \in Everyone \ {a} : attempt'[x] = attempt[x]
    <3>1. PICK left \in Granted(AttemptLease, lag) : attempt' = [attempt EXCEPT ![a] = left]
      BY <1>2 DEF ClaimAttempt
    <3>2. /\ attempt' \in [Everyone -> -Timeout .. AttemptLease]
          /\ AtLeast(attempt'[a], AttemptLease - lag)
          /\ \A x \in Everyone \ {a} : attempt'[x] = attempt[x]
      BY <1>b, <3>1, AttemptGranted
    <3>3. attempt'[a] \in -Timeout .. AttemptLease BY <1>b, <3>2
    <3>4. QED BY <3>2, <3>3, Margins
  <2>5. AttemptLeft(q, attempt'[a])
    <3>1. lag <= p.age /\ p.age \in Nat BY <1>2, <1>a DEF ClaimAttempt, p, Process
    <3>2. AtLeast(attempt'[a], AttemptLease - q.age)
      BY <3>1, <2>1, <2>4, Margins DEF AtLeast
    <3>3. QED BY <2>1, <3>2 DEF AttemptLeft
  <2>6. ClaimLeft(q, lease'[a]) BY <2>1 DEF ClaimLeft
  <2>7. OwnOnly(a) BY <1>2, <2>4 DEF ClaimAttempt, OwnOnly
  <2>8. QED BY <2>1, <2>2, <2>3, <2>5, <2>6, <2>7, OneProcess
<1>3. CASE JobReceived(a)
  <2> DEFINE q == Step("verify")
  <2>1. q \in Process /\ q.pc = "verify" /\ q.age = 0 /\ q.tick = Ticker
        /\ q.beat = "none"
    BY StepType
  <2>2. Becomes(a, q) BY <1>3 DEF JobReceived, Goto
  <2> HIDE DEF q
  <2>3. UNCHANGED <<lease, attempt>> BY <1>3 DEF JobReceived
  <2>4. OwnOnly(a) BY <2>3 DEF OwnOnly
  <2>5. Timely(q) BY <2>1, Margins DEF Timely, Calls
  <2>6. ClaimLeft(q, lease'[a]) BY <2>1 DEF ClaimLeft
  <2>7. AtLeast(attempt[a], AttemptLease - p.age) /\ p.age \in Nat /\ p.age < Timeout
    BY <1>3, <1>a DEF JobReceived, AttemptLeft, Process, p
  <2>8. AtLeast(attempt[a], AttemptLease - (Timeout - 1) - 0)
    BY <2>7, <1>b, Margins DEF AtLeast
  <2>9. AttemptLeft(q, attempt'[a]) BY <2>1, <2>3, <2>8 DEF AttemptLeft
  <2>10. QED BY <2>1, <2>2, <2>4, <2>5, <2>6, <2>9, OneProcess
<1>4. CASE Verdict(a)
  <2>1. OwnOnly(a) BY <1>4, <1>b DEF Verdict, OwnOnly, LeaseTypeOK
  <2>2. QED BY <1>4, <2>1, GoesToRest DEF Verdict
<1>5. QED BY <1>1, <1>2, <1>3, <1>4 DEF Review

\* A stranger leaves the leases of the processes alone.
LEMMA StrangerLasts ==
    ASSUME LeaseTypeOK, LeasesLast, StrangerClaims
    PROVE  LeasesLast'
<1>1. UNCHANGED <<attempt, agent>> BY DEF StrangerClaims
<1>2. \A b \in Agents : lease'[b] = lease[b]
  <2>1. Stranger \in Everyone /\ 0 \in 0 .. Timeout BY Margins DEF Everyone
  <2>2. \A x \in Everyone \ {Stranger} : lease'[x] = lease[x]
    BY <2>1, LeaseGranted DEF StrangerClaims
  <2>3. QED BY <2>2, StrangerAssumption DEF Everyone, StrangerAssumption
<1>3. QED BY <1>1, <1>2 DEF LeasesLast, Lasting

\* When time passes, what is left of a lease and what it is needed for grow
\* shorter together.
LEMMA PassLasts ==
    ASSUME LeaseTypeOK, LeasesLast, Pass
    PROVE  LeasesLast'
<1> SUFFICES ASSUME NEW a \in Agents PROVE Lasting(a)'
  BY DEF LeasesLast
<1> DEFINE p == agent[a]
           q == Older(p)
<1>a. p \in Process /\ Timely(p) /\ ClaimLeft(p, lease[a]) /\ AttemptLeft(p, attempt[a])
      /\ MayWait(p)
  BY DEF LeaseTypeOK, LeasesLast, Lasting, Pass
<1>b. PICK l \in Int, m \in Int, s \in Int, t \in Int :
         l = lease[a] /\ m = lease'[a] /\ s = attempt[a] /\ t = attempt'[a]
         /\ m >= l - 1 /\ t >= s - 1
  <2>1. a \in Everyone /\ lease[a] \in -Timeout .. TaskLease
        /\ attempt[a] \in -Timeout .. AttemptLease
    BY LeftType DEF LeaseTypeOK
  <2>2. TaskLease \in Nat /\ AttemptLease \in Nat BY Margins
  <2>3. Shorter(lease[a]) \in -Timeout .. TaskLease /\ Shorter(lease[a]) >= lease[a] - 1
    BY <2>1, <2>2, ShorterType
  <2>4. Shorter(attempt[a]) \in -Timeout .. AttemptLease
        /\ Shorter(attempt[a]) >= attempt[a] - 1
    BY <2>1, <2>2, ShorterType
  <2>5. lease'[a] = Shorter(lease[a]) /\ attempt'[a] = Shorter(attempt[a])
    BY <2>1 DEF Pass
  <2>6. QED BY <2>1, <2>3, <2>4, <2>5, Margins
<1>c. ClaimLeft(p, l) /\ AttemptLeft(p, s) BY <1>a, <1>b
<1>e. agent'[a] = q BY DEF Pass, LeaseTypeOK
<1> HIDE DEF p, q
<1>f. /\ q \in Process
      /\ q.pc = p.pc /\ q.done = p.done /\ q.due = p.due /\ q.beat = p.beat
      /\ q.age = (IF p.pc \in Calls \cup {"verify"} THEN p.age + 1 ELSE p.age)
      /\ q.tick = (IF p.pc = "work" THEN p.tick - 1 ELSE p.tick)
      /\ q.beatAge = (IF p.beat # "none" THEN p.beatAge + 1 ELSE p.beatAge)
  BY <1>a, OlderType DEF q
<1>1. Timely(q)
  BY <1>a, <1>f, Margins DEF Timely, MayWait, Calls, Process
<1>2. ClaimLeft(q, m)
  <2>1. CASE p.pc = "claim"
    BY <2>1, <1>a, <1>b, <1>c, <1>f, Margins DEF ClaimLeft, AtLeast, Calls, Process
  <2>2. CASE p.pc = "status"
    BY <2>2, <1>a, <1>b, <1>c, <1>f, Margins DEF ClaimLeft, AtLeast, Calls, Process
  <2>3. CASE p.pc = "search"
    BY <2>3, <1>a, <1>b, <1>c, <1>f, Margins DEF ClaimLeft, AtLeast, Calls, Process
  <2>4. CASE p.pc = "work"
    <3>1. q.pc = "work" /\ q.tick = p.tick - 1 /\ p.tick \in Nat
      BY <2>4, <1>a, <1>f DEF Process
    <3>2. CASE p.beat = "none"
      <4>1. ~q.due /\ ~p.due /\ q.beat = "none" BY <2>4, <3>2, <1>a, <1>f DEF MayWait
      <4>2. AtLeast(l, TaskLease - ToWork - (Ticker - p.tick))
        BY <2>4, <3>2, <4>1, <1>c DEF ClaimLeft
      <4>3. AtLeast(m, TaskLease - ToWork - (Ticker - q.tick))
        BY <3>1, <4>2, <1>b, Margins DEF AtLeast
      <4>4. QED BY <3>1, <4>1, <4>3 DEF ClaimLeft
    <3>3. CASE p.beat # "none"
      <4>1. q.beat = p.beat /\ q.beatAge = p.beatAge + 1 /\ p.beatAge \in Nat
        BY <3>3, <1>a, <1>f DEF Process
      <4>2. CASE p.beat = "granted"
        <5>1. AtLeast(l, TaskLease - p.beatAge) BY <2>4, <4>2, <1>c DEF ClaimLeft
        <5>2. AtLeast(m, TaskLease - q.beatAge) BY <4>1, <5>1, <1>b, Margins DEF AtLeast
        <5>3. QED BY <3>1, <4>1, <4>2, <5>2 DEF ClaimLeft
      <4>3. CASE p.beat \in {"sent", "refused"}
        <5>1. AtLeast(l, TaskLease - ToWork - Ticker - p.beatAge)
          BY <2>4, <4>3, <1>c DEF ClaimLeft
        <5>2. AtLeast(m, TaskLease - ToWork - Ticker - q.beatAge)
          BY <4>1, <5>1, <1>b, Margins DEF AtLeast
        <5>3. QED BY <3>1, <4>1, <4>3, <5>2 DEF ClaimLeft
      <4>4. QED BY <3>3, <4>2, <4>3, <1>a DEF Process
    <3>4. QED BY <3>2, <3>3
  <2>5. CASE p.pc \notin {"claim", "status", "search", "work"}
    BY <2>5, <1>f DEF ClaimLeft
  <2>6. QED BY <2>1, <2>2, <2>3, <2>4, <2>5
<1>3. AttemptLeft(q, t)
  <2>1. CASE p.pc = "ask"
    BY <2>1, <1>a, <1>b, <1>c, <1>f, Margins DEF AttemptLeft, AtLeast, Calls, Process
  <2>2. CASE p.pc = "verify"
    BY <2>2, <1>a, <1>b, <1>c, <1>f, Margins DEF AttemptLeft, AtLeast, Calls, Process
  <2>3. CASE p.pc \notin {"ask", "verify"} BY <2>3, <1>f DEF AttemptLeft
  <2>4. QED BY <2>1, <2>2, <2>3
<1>4. QED BY <1>1, <1>2, <1>3, <1>b, <1>e DEF Lasting

\* Nobody has a lease in the beginning.
LEMMA InitLasts == LeaseInit => OthersOver /\ OpenWhileLive /\ LeasesLast
<1> SUFFICES ASSUME LeaseInit PROVE OthersOver /\ OpenWhileLive /\ LeasesLast
  OBVIOUS
<1>1. OthersOver BY Margins DEF LeaseInit, OthersOver
<1>2. OpenWhileLive BY DEF LeaseInit, OpenWhileLive
<1>3. Resting.pc = "idle" /\ Resting.tick = Ticker /\ Resting.beat = "none"
  BY DEF Resting
<1>4. LeasesLast
  BY <1>3, Margins DEF LeaseInit, LeasesLast, Lasting, Timely, ClaimLeft, AttemptLeft, Calls
<1>5. QED BY <1>1, <1>2, <1>4

\* Every step preserves the invariant.
LEMMA StepLasts == LeaseInv /\ [LeaseNext]_leaseVars => LeaseInv'
<1> SUFFICES ASSUME LeaseInv, [LeaseNext]_leaseVars PROVE LeasesLast'
  BY TypeStep, OthersStep, OpenStep DEF LeaseInv
<1>1. CASE UNCHANGED leaseVars
  BY <1>1 DEF leaseVars, LeaseInv, LeasesLast, Lasting
<1>2. LeaseTypeOK /\ LeasesLast BY DEF LeaseInv
<1>3. QED
  BY <1>1, <1>2, WorkLasts, RenewLasts, ReviewLasts, StrangerLasts, PassLasts DEF LeaseNext

\* In every step of a process its lease has at least the time left that the step
\* and the calls before it may take, less what was cut off: the inductive
\* invariant.
THEOREM LeasesOutlast == LeaseSpec => []LeaseInv
<1>1. LeaseInit => LeaseInv BY TypeInit, InitLasts DEF LeaseInv
<1>2. QED BY <1>1, StepLasts, PTL DEF LeaseSpec

\* A process at work holds the live claim, or has lost it less than a second ago
\* (maintainLease): for all times that satisfy ClaimMargin, which those of the
\* code do, and any resolution of the times that are stored.
THEOREM WorkersStop == LeaseSpec => []WorkersStopWithTheClaim
<1>1. LeaseInv => WorkersStopWithTheClaim
  <2> SUFFICES ASSUME LeaseInv, NEW a \in Agents, agent[a].pc \in {"status", "search", "work"}
      PROVE  LiveClaim(a) \/ JustEnded(lease[a])
    BY DEF WorkersStopWithTheClaim
  <2>1. /\ a \in Everyone /\ lease[a] \in Int /\ agent[a] \in Process
        /\ Timely(agent[a]) /\ ClaimLeft(agent[a], lease[a])
    BY LeftType DEF LeaseInv, LeaseTypeOK, LeasesLast, Lasting
  <2>2. HasClaim(agent[a]) BY DEF HasClaim
  <2>3. -Second < lease[a] BY <2>1, <2>2, ClaimLives
  <2>4. CASE lease[a] > 0
    <3>1. open BY <2>2, <2>4 DEF LeaseInv, OpenWhileLive
    <3>2. holder = a BY <2>1, <2>4 DEF LeaseInv, OthersOver
    <3>3. QED BY <2>4, <3>1, <3>2 DEF LiveClaim
  <2>5. CASE ~(lease[a] > 0) BY <2>1, <2>3, <2>5 DEF JustEnded
  <2>6. QED BY <2>4, <2>5
<1>2. QED BY <1>1, LeasesOutlast, PTL

\* A verdict comes while its attempt lives or less than a second later
\* (verifyJob): for all times that satisfy VerdictMargin.
THEOREM VerifiersStop == LeaseSpec => []VerifiersStopWithTheAttempt
<1>1. LeaseInv => VerifiersStopWithTheAttempt
  <2> SUFFICES ASSUME LeaseInv, NEW a \in Agents, agent[a].pc = "verify"
      PROVE  LiveAttempt(a) \/ JustEnded(attempt[a])
    BY DEF VerifiersStopWithTheAttempt
  <2>1. /\ a \in Everyone /\ attempt[a] \in Int /\ agent[a] \in Process
        /\ Timely(agent[a]) /\ AttemptLeft(agent[a], attempt[a])
    BY LeftType DEF LeaseInv, LeaseTypeOK, LeasesLast, Lasting
  <2>2. HasAttempt(agent[a]) BY DEF HasAttempt
  <2>3. -Second < attempt[a] BY <2>1, <2>2, AttemptLives
  <2>4. CASE attempt[a] > 0
    BY <2>1, <2>4 DEF LeaseInv, OthersOver, LiveAttempt
  <2>5. CASE ~(attempt[a] > 0) BY <2>1, <2>3, <2>5 DEF JustEnded
  <2>6. QED BY <2>4, <2>5
<1>2. QED BY <1>1, LeasesOutlast, PTL

\* What a process does under its claim, and under its attempt.
AtWork(a) == agent[a].pc \in {"status", "search", "work"}
AtVerdict(a) == agent[a].pc = "verify"

\* Of two agents at work on the task at a time one has lost it less than a second
\* ago, and so of two that give a verdict on it, though none asks about the
\* others (takeOneTask, verifyJob).
OverlapIsShort ==
    \A a, b \in Agents : a # b =>
        /\ AtWork(a) /\ AtWork(b) => JustEnded(lease[a]) \/ JustEnded(lease[b])
        /\ AtVerdict(a) /\ AtVerdict(b) => JustEnded(attempt[a]) \/ JustEnded(attempt[b])

\* Two agents are never at the task together for as long as a second: for any
\* number of agents and all times that satisfy the two margins.
THEOREM OverlapStaysShort == LeaseSpec => []OverlapIsShort
<1>1. WorkersStopWithTheClaim /\ VerifiersStopWithTheAttempt => OverlapIsShort
  BY DEF WorkersStopWithTheClaim, VerifiersStopWithTheAttempt, OverlapIsShort,
         LiveClaim, LiveAttempt, AtWork, AtVerdict
<1>2. QED BY <1>1, WorkersStop, VerifiersStop, PTL
=============================================================================
