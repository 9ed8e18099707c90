-------------------------------- MODULE Inbox --------------------------------
(***************************************************************************)
(* The inbox of one agent: POST /messages stores a row and then pings the  *)
(* bus, GET /messages lists the rows after the client's cursor and, when   *)
(* there are none, waits for a ping.  httpapi/messages.go,                 *)
(* store/messages.go, internal/bus and Client.Inbox.                       *)
(*                                                                         *)
(* A row is what it is to this agent: "wanted" when the agent asks for its *)
(* type, "unwanted" when it does not; both ping the agent, rows for other  *)
(* agents do neither and are left out.  A row's number is its seq.  The    *)
(* statement that inserts a row and the ping are apart, and so are the     *)
(* first listing of a request and its subscription.                        *)
(***************************************************************************)
EXTENDS Naturals, Sequences, SequencesExt, FiniteSetsExt

CONSTANTS
    Limit,        \* rows of a page
    MaxMessages,  \* bound: rows of the table
    MaxMishaps    \* bound: pings and responses lost, restarts of the agent

ASSUME LimitAssumption == Limit \in Nat \ {0}
ASSUME BoundsAssumption == MaxMessages \in Nat /\ MaxMishaps \in Nat

VARIABLES
    messages,  \* table messages
    expired,   \* rows whose ttl is over
    unsent,    \* rows stored whose ping was not published yet
    handler,   \* where handleListMessages is
    ping,      \* the channel of the subscription holds a ping
    reply,     \* the page of the request and its next_cursor
    cursor,    \* Client.cursor
    received,  \* what Client.Inbox returned to this process, in order
    mishaps

vars == <<messages, expired, unsent, handler, ping, reply, cursor, received, mishaps>>
table == <<messages, expired, unsent>>
client == <<cursor, received, mishaps>>

Init ==
    /\ messages = <<>>
    /\ expired = {}
    /\ unsent = {}
    /\ handler = "idle"
    /\ ping = FALSE
    /\ reply = [msgs |-> {}, next |-> 0]
    /\ cursor = 0
    /\ received = <<>>
    /\ mishaps = 0

-----------------------------------------------------------------------------
(* MessageStore.List *)

Before(S, s) == Cardinality({u \in S : u < s})

\* ORDER BY seq
InOrder(S) == [i \in 1 .. Cardinality(S) |-> CHOOSE s \in S : Before(S, s) = i - 1]

Wanted(c) == {s \in DOMAIN messages : s > c /\ messages[s] = "wanted"}

\* LIMIT limit+1
Fetched(c) == {s \in Wanted(c) : Before(Wanted(c), s) < Limit + 1}

\* The scan ends with the row that fills the page.
Examined(c) == {s \in Fetched(c) : Before(Fetched(c) \ expired, s) < Limit}

\* Mutant: the cursor points past every row fetched.
ListAll(c) ==
    [msgs |-> Examined(c) \ expired,
     next |-> IF Fetched(c) = {} THEN c ELSE Max(Fetched(c))]

\* Mutant: the cursor points past the last row delivered.
ListDelivered(c) ==
    LET msgs == Examined(c) \ expired
    IN  [msgs |-> msgs, next |-> IF msgs = {} THEN c ELSE Max(msgs)]

\* The page, and the cursor past the last row examined, expired or not.
List(c) ==
    [msgs |-> Examined(c) \ expired,
     next |-> IF Examined(c) = {} THEN c ELSE Max(Examined(c))]

-----------------------------------------------------------------------------
(* handlePostMessage *)

Insert(type) ==
    /\ Len(messages) < MaxMessages
    /\ messages' = Append(messages, type)
    /\ unsent' = unsent \cup {Len(messages) + 1}
    /\ UNCHANGED <<expired, handler, ping, reply, client>>

\* Pings coalesce in a channel of one place; without a subscriber they are gone.
Publish(s) ==
    /\ s \in unsent
    /\ unsent' = unsent \ {s}
    /\ ping' = (ping \/ handler = "waiting")
    /\ UNCHANGED <<messages, expired, handler, reply, client>>

\* The error of Publish is ignored, and a server that stops publishes nothing.
PublishFails(s) ==
    /\ s \in unsent
    /\ mishaps < MaxMishaps
    /\ mishaps' = mishaps + 1
    /\ unsent' = unsent \ {s}
    /\ UNCHANGED <<messages, expired, handler, ping, reply, cursor, received>>

Expire(s) ==
    /\ s \in DOMAIN messages \ expired
    /\ expired' = expired \cup {s}
    /\ UNCHANGED <<messages, unsent, handler, ping, reply, client>>

-----------------------------------------------------------------------------
(* handleListMessages with wait_seconds *)

FirstList ==
    /\ handler = "idle"
    /\ reply' = List(cursor)
    /\ handler' = IF reply'.msgs = {} THEN "subscribing" ELSE "responding"
    /\ UNCHANGED <<table, ping, client>>

Subscribe ==
    /\ handler = "subscribing"
    /\ handler' = "waiting"
    /\ ping' = FALSE
    /\ UNCHANGED <<table, reply, client>>

SecondList ==
    /\ handler = "waiting" /\ ping
    /\ ping' = FALSE
    /\ reply' = List(cursor)
    /\ handler' = "responding"
    /\ UNCHANGED <<table, client>>

\* The empty first page is returned as it is.
TimeOut ==
    /\ handler = "waiting"
    /\ ping' = FALSE
    /\ handler' = "responding"
    /\ UNCHANGED <<table, reply, client>>

-----------------------------------------------------------------------------
(* Client.Inbox *)

\* Mutant: the page is returned and the cursor is not advanced.
RespondKeepingCursor ==
    /\ handler = "responding"
    /\ handler' = "idle"
    /\ received' = received \o InOrder(reply.msgs)
    /\ UNCHANGED <<table, ping, reply, cursor, mishaps>>

Respond ==
    /\ handler = "responding"
    /\ handler' = "idle"
    /\ cursor' = reply.next
    /\ received' = received \o InOrder(reply.msgs)
    /\ UNCHANGED <<table, ping, reply, mishaps>>

\* The response is lost, or the server stops: the cursor stays.
RequestFails ==
    /\ handler # "idle"
    /\ mishaps < MaxMishaps
    /\ mishaps' = mishaps + 1
    /\ handler' = "idle"
    /\ ping' = FALSE
    /\ UNCHANGED <<table, reply, cursor, received>>

\* The cursor is not kept: a new process reads its inbox from the start.
RestartAgent ==
    /\ mishaps < MaxMishaps
    /\ mishaps' = mishaps + 1
    /\ handler' = "idle"
    /\ ping' = FALSE
    /\ cursor' = 0
    /\ received' = <<>>
    /\ UNCHANGED <<table, reply>>

-----------------------------------------------------------------------------
Request ==
    FirstList \/ Subscribe \/ SecondList \/ TimeOut \/ Respond

Next ==
    \/ \E type \in {"wanted", "unwanted"} : Insert(type)
    \/ \E s \in unsent : Publish(s) \/ PublishFails(s)
    \/ \E s \in DOMAIN messages : Expire(s)
    \/ Request
    \/ RequestFails
    \/ RestartAgent

Spec == Init /\ [][Next]_vars

\* The agent goes on polling; requests end, at the latest by their time out.
\* No ping need ever be published.
FairSpec == Spec /\ WF_vars(Request)

-----------------------------------------------------------------------------
(* Properties *)

\* The cursor never steps past a message the agent wants and has not got,
\* unless its ttl was over by then ("a cursor could step past a message and
\* never return it", messages_test.go).
NothingSkipped ==
    \A s \in 1 .. cursor :
        messages[s] = "wanted" => s \in ToSet(received) \cup expired

\* "A polling inbox must never see the same message twice", and it sees them in
\* the order in which they were stored, whatever requests are lost or woken in
\* between.
ReceivedInOrder ==
    \A i, j \in DOMAIN received : i < j => received[i] < received[j]

\* Every message reaches a polling agent or expires, pings or no pings ("SQLite
\* is the source of truth either way", handlePostMessage).
MessagesArrive ==
    \A s \in 1 .. MaxMessages :
        (s \in DOMAIN messages /\ messages[s] = "wanted")
            ~> (s \in ToSet(received) \cup expired)

\* "The server wakes it via Redis pub/sub the moment something arrives"
\* (Client.Inbox): a request does not wait, with every ping published, while
\* there is a message for it.  Does not hold: a ping between the listing and
\* the subscription is lost.
NoMessageWaits ==
    (handler = "waiting" /\ ~ping /\ unsent = {}) => List(cursor).msgs = {}
=============================================================================
