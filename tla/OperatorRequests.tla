-------------------------- MODULE OperatorRequests --------------------------
(***************************************************************************)
(* An agent asks the operator over Telegram and the operator's reply comes *)
(* back to its inbox.  httpapi/operator.go, the reply path of              *)
(* httpapi/telegram.go, store/operator_requests.go and notify/telegram.go. *)
(*                                                                         *)
(* Telegram is outside the repository.  As the code uses it, sendMessage   *)
(* may post the message, not post it, or post it and lose the response;    *)
(* and an update is delivered again until the webhook answered 2xx.  The   *)
(* id Telegram gives the message of a request stands for the request.      *)
(***************************************************************************)
EXTENDS Naturals

CONSTANTS
    Requests,   \* operator_requests rows
    Updates,    \* Telegram updates that are replies
    NULL

VARIABLES
    status,    \* operator_requests.status, by request
    linked,    \* telegram_message_id is set
    handler,   \* where handleOperatorRequest is, by request
    posted,    \* requests whose message is in the operator's chat
    replies,   \* what each update replies to, and whether it was linked then
    pending,   \* updates Telegram still delivers
    updates,   \* table telegram_updates
    answers    \* ANSWER messages in inboxes, counted by update

vars == <<status, linked, handler, posted, replies, pending, updates, answers>>
requestVars == <<status, linked, handler, posted>>
replyVars == <<replies, pending, updates, answers>>

Init ==
    /\ status = [q \in Requests |-> "none"]
    /\ linked = [q \in Requests |-> FALSE]
    /\ handler = [q \in Requests |-> "idle"]
    /\ posted = {}
    /\ replies = [u \in Updates |-> [to |-> NULL, linked |-> FALSE]]
    /\ pending = {}
    /\ updates = {}
    /\ answers = [u \in Updates |-> 0]

-----------------------------------------------------------------------------
(* handleOperatorRequest *)

Create(q) ==
    /\ status[q] = "none"
    /\ status' = [status EXCEPT ![q] = "pending"]
    /\ handler' = [handler EXCEPT ![q] = "notifying"]
    /\ UNCHANGED <<linked, posted, replyVars>>

\* Notify: the message is posted and its id comes back, or there is an error,
\* whether the message was posted or not.
NotifyPosted(q) ==
    /\ handler[q] = "notifying"
    /\ posted' = posted \cup {q}
    /\ handler' = [handler EXCEPT ![q] = "linking"]
    /\ UNCHANGED <<status, linked, replyVars>>

NotifyFailed(q) ==
    /\ handler[q] = "notifying"
    /\ posted' \in {posted, posted \cup {q}}
    /\ handler' = [handler EXCEPT ![q] = "failing"]
    /\ UNCHANGED <<status, linked, replyVars>>

SetTelegramMessage(q) ==
    /\ handler[q] = "linking"
    /\ status' = [status EXCEPT ![q] = "sent"]
    /\ linked' = [linked EXCEPT ![q] = TRUE]
    /\ handler' = [handler EXCEPT ![q] = "idle"]
    /\ UNCHANGED <<posted, replyVars>>

SetFailed(q) ==
    /\ handler[q] = "failing"
    /\ status' = [status EXCEPT ![q] = "failed"]
    /\ handler' = [handler EXCEPT ![q] = "idle"]
    /\ UNCHANGED <<linked, posted, replyVars>>

\* The agent hangs up, which cancels the context of every statement left, or
\* the server stops: the handler is gone and the database stays.
Abandon(q) ==
    /\ handler[q] # "idle"
    /\ handler' = [handler EXCEPT ![q] = "idle"]
    /\ UNCHANGED <<status, linked, posted, replyVars>>

-----------------------------------------------------------------------------
(* The operator and the webhook *)

Reply(u, q) ==
    /\ q \in posted
    /\ replies[u].to = NULL
    /\ replies' = [replies EXCEPT ![u] = [to |-> q, linked |-> linked[q]]]
    /\ pending' = pending \cup {u}
    /\ UNCHANGED <<requestVars, updates, answers>>

\* Mutant: no ledger of updates.
DeliverReplyAgain(u) ==
    LET q == replies[u].to
    IN  /\ u \in pending
        /\ IF linked[q]
           THEN /\ answers' = [answers EXCEPT ![u] = @ + 1]
                /\ status' = [status EXCEPT ![q] = "answered"]
                /\ updates' = updates \cup {u}
           ELSE UNCHANGED <<answers, status, updates>>
        /\ pending' \in {pending, pending \ {u}}
        /\ UNCHANGED <<linked, handler, posted, replies>>

\* Mutant: the ledger row is written even when no request is linked.
DeliverReplyUnlinked(u) ==
    LET q == replies[u].to
    IN  /\ u \in pending
        /\ IF u \notin updates
           THEN /\ answers' = [answers EXCEPT ![u] = IF linked[q] THEN @ + 1 ELSE @]
                /\ status' = [status EXCEPT ![q] = "answered"]
                /\ updates' = updates \cup {u}
           ELSE UNCHANGED <<answers, status, updates>>
        /\ pending' \in {pending, pending \ {u}}
        /\ UNCHANGED <<linked, handler, posted, replies>>

\* Mutant: the update is acknowledged before the transaction commits.
DeliverReplyAckFirst(u) ==
    LET q == replies[u].to
    IN  /\ u \in pending
        /\ \/ /\ linked[q] /\ u \notin updates
              /\ answers' = [answers EXCEPT ![u] = @ + 1]
              /\ status' = [status EXCEPT ![q] = "answered"]
              /\ updates' = updates \cup {u}
           \/ UNCHANGED <<answers, status, updates>>
        /\ pending' = pending \ {u}
        /\ UNCHANGED <<linked, handler, posted, replies>>

\* DeliverReply and the response of the webhook.  A reply to a message that
\* no request is linked to is answered with 200 too, and so is lost; the
\* response may be lost, and then the update comes again.
DeliverReply(u) ==
    LET q == replies[u].to
    IN  /\ u \in pending
        /\ IF u \notin updates /\ linked[q]
           THEN /\ answers' = [answers EXCEPT ![u] = @ + 1]
                /\ status' = [status EXCEPT ![q] = "answered"]
                /\ updates' = updates \cup {u}
           ELSE UNCHANGED <<answers, status, updates>>
        /\ pending' \in {pending, pending \ {u}}
        /\ UNCHANGED <<linked, handler, posted, replies>>

-----------------------------------------------------------------------------
HandlerStep(q) ==
    \/ Create(q)
    \/ NotifyPosted(q)
    \/ NotifyFailed(q)
    \/ SetTelegramMessage(q)
    \/ SetFailed(q)
    \/ Abandon(q)

Next ==
    \/ \E q \in Requests : HandlerStep(q)
    \/ \E u \in Updates, q \in Requests : Reply(u, q)
    \/ \E u \in Updates : DeliverReply(u)

Spec == Init /\ [][Next]_vars

-----------------------------------------------------------------------------
(* Properties *)

\* "Repeated reply deliveries are harmless after restart" (DeliverReply): an
\* agent gets each reply at most once, and exactly when its update is in the
\* ledger, however often Telegram delivers it.
AnsweredOnce ==
    \A u \in Updates : answers[u] = IF u \in updates THEN 1 ELSE 0

\* A request reads answered only when a reply to its own message is in its
\* agent's inbox, and it stays answered: neither the handler's late status
\* nor a failed notification takes it back.
AnsweredMeansReplied ==
    \A q \in Requests : status[q] = "answered" <=>
        \E u \in Updates : replies[u].to = q /\ answers[u] > 0

\* "Operator escalations are durable so a Telegram reply can be routed back to
\* the exact agent that raised it, even after a server restart" (schema.sql):
\* a reply Telegram no longer delivers is in the agent's inbox.  Does not hold
\* for a message whose id was not stored, or not yet.
ReplyNotLost ==
    \A u \in Updates :
        (replies[u].to # NULL /\ u \notin pending) => answers[u] = 1
=============================================================================
