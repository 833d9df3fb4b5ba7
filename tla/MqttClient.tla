----------------------------- MODULE MqttClient -----------------------------
(***************************************************************************)
(* The server's MQTT client (astroplant-mqtt, lib.rs): the stream that     *)
(* polls the MQTT event loop, the subscription, the server RPC, and the    *)
(* kit RPC of KitRpc running on top of them.  KitRpc's abstract network is *)
(* replaced by the task that polls the stream: the same task sends what is *)
(* in the client's queue, adds the subscription to it, receives what the   *)
(* broker sends, hands kit RPC responses to the driver, and runs the       *)
(* consumer of the stream.  Whatever makes that task wait stops the queue. *)
(*                                                                         *)
(* External: rumqttc's event loop, of which a poll returns a buffered      *)
(* event, connects, sends one packet of the queue or receives a batch, and *)
(* the broker.                                                             *)
(***************************************************************************)
EXTENDS KitRpc

CONSTANTS
    Queries,        \* server RPC requests the kits make
    Batch,          \* most packets a poll of the event loop buffers
    MaxDrops,       \* bound: times the connection is lost
    ConnAck, Message, Junk, Subscribe   \* kinds of events, and a packet

ASSUME EventsAssumption ==
    /\ Batch \in Nat \ {0} /\ MaxDrops \in Nat
    /\ Foreign = {Subscribe} \cup Queries
    /\ Subscribe \notin Queries
    /\ ConnAck \notin Queries \cup {Message, Junk} /\ Message # Junk

\* The bound of KitRpc does not bite: the queue itself is smaller.
ASSUME BoundAssumption == MaxForeign >= OutboxCap

VARIABLES
    conn,        \* "down", "up" (connected) or "subscribed"
    events,      \* events the event loop has buffered
    poller,      \* the task that polls: where it stands and with what
    tasks,       \* server RPC requests whose task has not published yet
    seen,        \* server RPC requests that have been read
    replied,     \* server RPC requests whose response has been sent
    drops        \* connections lost so far

mqttVars == <<conn, events, poller, tasks, seen, replied, drops>>
kitRpcVars == vars
allVars == <<kitRpcVars, mqttVars>>

-----------------------------------------------------------------------------

Nothing == NoCall
At(where, what) == [at |-> where, with |-> what]

\* Events other than responses and server RPC requests.  Message: one the
\* consumer is given, a measurement, media or an error.  Junk: one that is
\* passed over, as a measurement that cannot be decoded, a server RPC request
\* without an id or what this client published itself.
Signals == {ConnAck, Message, Junk}

MqttInit ==
    /\ Init
    /\ conn = "down"
    /\ events = <<>>
    /\ poller = At("poll", Nothing)
    /\ tasks = {}
    /\ seen = {}
    /\ replied = {}
    /\ drops = 0

\* The event loop has nothing buffered and looks at the network.
Polls == poller.at = "poll" /\ events = <<>>

-----------------------------------------------------------------------------
(* EventLoop::poll: external. *)

Connect ==
    /\ Polls /\ conn = "down"
    /\ conn' = "up"
    /\ events' = <<ConnAck>>
    /\ UNCHANGED <<kitRpcVars, poller, tasks, seen, replied, drops>>

\* The connection breaks, and the stream yields an error to its consumer.
Disconnect ==
    /\ Polls /\ conn # "down"
    /\ drops < MaxDrops
    /\ drops' = drops + 1
    /\ conn' = "down"
    /\ poller' = At("consume", Nothing)
    /\ UNCHANGED <<kitRpcVars, events, tasks, seen, replied>>

\* One packet of the client's queue is sent.
SendPacket ==
    /\ Polls /\ conn # "down"
    /\ Transmit
    /\ conn' = IF Head(outbox) = Subscribe THEN "subscribed" ELSE conn
    /\ replied' = replied \cup ({Head(outbox)} \cap Queries)
    /\ UNCHANGED <<events, poller, tasks, seen, drops>>

\* What the broker may send: answers to the requests the kits have received,
\* server RPC requests that have not been seen, measurements, junk.
Incoming ==
    {[kit |-> q.kit, id |-> q.id, body |-> b, call |-> q.call] :
        q \in delivered, b \in Bodies}
    \cup (Queries \ seen) \cup {Message, Junk}

ReadBatch ==
    /\ Polls /\ conn = "subscribed"
    /\ \E n \in 1..Batch : events' \in [1..n -> Incoming]
    /\ \A q \in Queries : Cardinality({i \in DOMAIN events' : events'[i] = q}) <= 1
    /\ UNCHANGED <<kitRpcVars, conn, poller, tasks, seen, replied, drops>>

-----------------------------------------------------------------------------
(* The stream: step, handle_publish.                                       *)

PopAnd(P) ==
    /\ poller.at = "poll"
    /\ events # <<>>
    /\ events' = Tail(events)
    /\ P
    /\ UNCHANGED <<kitRpcVars, conn, replied, drops>>

\* Where an event other than a server RPC request or junk takes the task.
WorkFor(e) == CASE e = ConnAck -> "subscribe"
                [] e = Message -> "consume"
                [] OTHER -> "deliver"

PopToWorkAt(where) ==
    LET e == Head(events) IN
    PopAnd(/\ e \notin Queries \cup {Junk}
           /\ poller' = At(where, e)
           /\ UNCHANGED <<tasks, seen>>)

\* Mutant: only the first connection is subscribed.
PopToWorkOnce ==
    PopToWorkAt(IF Head(events) = ConnAck /\ drops > 0 THEN "poll" ELSE WorkFor(Head(events)))

\* ConnAck, a kit RPC response or a message for the consumer: the task goes
\* on to subscribe, to hand the response over, or into the consumer.
PopToWork == PopToWorkAt(WorkFor(Head(events)))

PopJunk == PopAnd(Head(events) = Junk /\ UNCHANGED <<poller, tasks, seen>>)

\* handle_server_rpc_request: a task of its own is spawned for each request.
\* What it answers (the handler's result, that the method is unknown or that
\* the rate limit was hit) is not told apart.
PopQuery ==
    LET q == Head(events) IN
    PopAnd(/\ q \in Queries
           /\ tasks' = tasks \cup {q}
           /\ seen' = seen \cup {q}
           /\ UNCHANGED poller)

SubscribeThen(queue, P) ==
    /\ poller.at = "subscribe"
    /\ P
    /\ outbox' = queue
    /\ poller' = At("poll", Nothing)
    /\ UNCHANGED <<callVars, driverVars, requests, responses, delivered, lifeVars>>
    /\ UNCHANGED <<conn, events, tasks, seen, replied, drops>>

\* Mutants: what was queued before the connection is discarded; the task
\* waits for the subscription to be acknowledged before it goes on.
SubscribeAfresh == SubscribeThen(<<Subscribe>>, TRUE)
SubscribeAndAwait ==
    SubscribeThen(Append(outbox, Subscribe), conn = "subscribed")

\* client.subscribe().await: the packet goes to the end of the queue that only
\* this task empties.
SubscribeAll == SubscribeThen(Append(outbox, Subscribe), Len(outbox) < OutboxCap)

DeliverWith(P) ==
    /\ poller.at = "deliver"
    /\ P
    /\ poller' = At("poll", Nothing)
    /\ UNCHANGED <<conn, events, tasks, seen, replied, drops>>

\* Mutant: the response is put in the channel without waiting for room.
DeliverAtOnce ==
    DeliverWith(/\ responses' = Append(responses, poller.with)
                /\ UNCHANGED <<callVars, driverVars, requests, outbox, delivered, lifeVars>>)

\* ResponseTx::send.await: waits for room in the response channel; when the
\* driver is gone the error is ignored.
Deliver == DeliverWith(IF driver.at = "stopped" THEN UNCHANGED kitRpcVars
                                                ELSE Receive(poller.with))

\* The consumer of the stream is done with a message and polls again.
Consumed ==
    /\ poller.at = "consume"
    /\ poller' = At("poll", Nothing)
    /\ UNCHANGED <<kitRpcVars, conn, events, tasks, seen, replied, drops>>

PublishReplyTo(q, queue, room) ==
    /\ q \in tasks
    /\ room
    /\ outbox' = queue
    /\ tasks' = tasks \ {q}
    /\ UNCHANGED <<callVars, driverVars, requests, responses, delivered, lifeVars>>
    /\ UNCHANGED <<conn, events, poller, seen, replied, drops>>

\* Mutant: a reply is dropped while the client is not connected.
PublishReplyIfUp(q) ==
    PublishReplyTo(q, IF conn = "down" THEN outbox ELSE Append(outbox, q),
                   Len(outbox) < OutboxCap)

\* A server RPC task has its answer and publishes it, once there is room.
PublishReply(q) == PublishReplyTo(q, Append(outbox, q), Len(outbox) < OutboxCap)

-----------------------------------------------------------------------------

\* The kit RPC steps that do not belong to the network.  The ingest process
\* drops its handle at once, and its driver stops.
KitRpcStep ==
    /\ (\E c \in Calls : CallerStep(c)) \/ DriverStep \/ Tick \/ DropHandle
    /\ UNCHANGED mqttVars

EventLoopStep == Connect \/ Disconnect \/ SendPacket \/ ReadBatch

StreamStep ==
    \/ PopToWork \/ PopJunk \/ PopQuery
    \/ SubscribeAll \/ Deliver \/ Consumed

MqttNext ==
    \/ KitRpcStep
    \/ EventLoopStep
    \/ StreamStep
    \/ \E q \in Queries : PublishReply(q)

MqttSpec == MqttInit /\ [][MqttNext]_allVars

\* KitRpc's fairness for the driver and its callers; the task that polls runs
\* whenever it can, and its choice between sending and receiving is random;
\* the broker can be reached again; the consumer returns.
MqttFairness ==
    /\ SF_vars(TakeRequest) /\ SF_vars(TakeResponse)
    /\ SF_vars(Cleanup) /\ SF_vars(Stop)
    /\ SF_vars(Publish) /\ WF_vars(InsertWaiter)
    /\ \A c \in Calls : SF_vars(Enqueue(c)) /\ WF_vars(SendFails(c))
    /\ WF_vars(Tick)
    /\ SF_allVars(SendPacket) /\ WF_allVars(Connect)
    /\ WF_allVars(StreamStep)
    /\ \A q \in Queries : SF_allVars(PublishReply(q))

MqttFairSpec == MqttSpec /\ MqttFairness

-----------------------------------------------------------------------------

\* The state has the shape of the code's data; the queue holds at most its
\* capacity whoever adds to it.
MqttTypeOK ==
    /\ TypeOK
    /\ conn \in {"down", "up", "subscribed"}
    /\ events \in Seq(Response \cup Queries \cup Signals) /\ Len(events) <= Batch
    /\ poller.at \in {"poll", "subscribe", "deliver", "consume"}
    /\ poller.at = "deliver" => poller.with \in Response
    /\ {tasks, seen, replied} \subseteq SUBSET Queries
    /\ drops \in 0..MaxDrops

\* The stream, the event loop and the queue are a network as KitRpc supposes
\* it: what KitRpc promises holds over the real connection.
IsKitRpcNetwork == Spec

\* The task that polls comes back to the event loop from whatever it waits
\* for: a consumed stream keeps the underlying connection going.
StreamKeepsPolling == (poller.at # "poll") ~> (poller.at = "poll")

\* A server RPC request that was read is answered, rate limited or not, even
\* if the connection is lost in between.
QueryAnswered == \A q \in Queries : q \in tasks ~> q \in replied

\* A subscription is on its way or in place whenever the client is connected:
\* after every reconnection the kits' messages reach it again.
SubscriptionPending ==
    conn = "up" => \/ poller.at = "subscribe"
                   \/ ConnAck \in {events[i] : i \in DOMAIN events}
                   \/ Subscribe \in {outbox[i] : i \in DOMAIN outbox}
=============================================================================
