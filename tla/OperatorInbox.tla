--------------------------- MODULE OperatorInbox ---------------------------
(***************************************************************************)
(* The way back of an operator's reply, from the webhook to the agent that *)
(* asked: DeliverReply of OperatorRequests stores an ANSWER in the table   *)
(* that Inbox reads, and the ping comes after the commit.  The requests    *)
(* are those of one agent and the inbox is its inbox.                      *)
(***************************************************************************)
EXTENDS Inbox

CONSTANTS
    Requests,   \* operator_requests rows of this agent
    Updates,    \* Telegram updates that are replies
    NULL

ASSUME NullAssumption == NULL \notin Requests
ASSUME RoomAssumption == IsFiniteSet(Updates) /\ MaxMessages >= Cardinality(Updates)

VARIABLES
    status, linked, asking, posted, replies, pending, updates, answers,
    rowOf       \* the row of the ANSWER an update became, or 0

operatorVars == <<status, linked, asking, posted, replies, pending, updates, answers>>
allVars == <<vars, operatorVars, rowOf>>

Operator == INSTANCE OperatorRequests WITH handler <- asking

ChannelInit == Init /\ Operator!Init /\ rowOf = [u \in Updates |-> 0]

AnswerRows == {rowOf[u] : u \in Updates} \ {0}

\* handleTelegramReply: the ANSWER of a new reply is a row of the inbox, whose
\* ping is to be published.
TelegramReply(u) ==
    /\ Operator!DeliverReply(u)
    /\ IF u \in updates' \ updates
       THEN /\ Insert("wanted")
            /\ rowOf' = [rowOf EXCEPT ![u] = Len(messages) + 1]
       ELSE UNCHANGED <<vars, rowOf>>

OperatorSide ==
    /\ \/ \E q \in Requests : Operator!HandlerStep(q)
       \/ \E u \in Updates, q \in Requests : Operator!Reply(u, q)
    /\ UNCHANGED <<vars, rowOf>>

\* Messages of other agents; there is room left for the answers.
OtherPosts(type) ==
    /\ Len(messages) - Cardinality(AnswerRows) < MaxMessages - Cardinality(Updates)
    /\ Insert(type)
    /\ UNCHANGED <<operatorVars, rowOf>>

\* An ANSWER of the platform has no ttl.
InboxSide ==
    /\ \/ \E s \in unsent : Publish(s) \/ PublishFails(s)
       \/ \E s \in DOMAIN messages \ AnswerRows : Expire(s)
       \/ RequestFails
       \/ RestartAgent
    /\ UNCHANGED <<operatorVars, rowOf>>

Polls == Request /\ UNCHANGED <<operatorVars, rowOf>>

ChannelNext ==
    \/ OperatorSide
    \/ \E u \in Updates : TelegramReply(u)
    \/ \E type \in {"wanted", "unwanted"} : OtherPosts(type)
    \/ InboxSide
    \/ Polls

ChannelSpec == ChannelInit /\ [][ChannelNext]_allVars

\* Telegram repeats an update until it is acknowledged, and the agent polls;
\* its requests end, at the latest by their time out.
ChannelFairSpec ==
    /\ ChannelSpec
    /\ WF_allVars(Polls)
    /\ \A u \in Updates : WF_allVars(TelegramReply(u))

-----------------------------------------------------------------------------
(* Properties *)

\* "Repeated reply deliveries are harmless after restart" (DeliverReply): the
\* agent's inbox gets each reply at most once, and exactly when its update is in
\* the ledger, however often Telegram delivers it.
AnsweredOnce == Operator!AnsweredOnce

\* A request reads answered only when a reply to its own message is in the
\* inbox, and it stays answered, whatever its handler writes late.
AnsweredMeansReplied == Operator!AnsweredMeansReplied

\* "A Telegram reply can be routed back to the exact agent that raised it, even
\* after a server restart" (schema.sql): a reply to a stored message id ends in
\* the hands of the agent, though updates come twice and acknowledgements,
\* pings and pages are lost, other messages expire in front of it, and the
\* agent starts again.
RepliesReachTheAgent ==
    \A u \in Updates :
        replies[u].linked ~> (rowOf[u] # 0 /\ rowOf[u] \in ToSet(received))
=============================================================================
