-------------------------- MODULE MqttClientProofs --------------------------
(***************************************************************************)
(* Proofs about MqttClient: the stream, the event loop and the queue are a *)
(* network as KitRpc supposes it, so that what is proved of KitRpc holds   *)
(* over the real connection, for any number of calls and server RPC        *)
(* requests, any capacities and any number of lost connections.            *)
(***************************************************************************)
EXTENDS MqttClient, KitRpcProofs, FiniteSetTheorems

-----------------------------------------------------------------------------

\* What a kit may answer to a request that has reached it.
Replies == {[kit |-> q.kit, id |-> q.id, body |-> b, call |-> q.call] :
               q \in delivered, b \in Bodies}

\* The conjuncts of MqttTypeOK about the connection and the server RPC.
TypeOfConnection ==
    /\ conn \in {"down", "up", "subscribed"}
    /\ {tasks, seen, replied} \subseteq SUBSET Queries
    /\ drops \in 0..MaxDrops

\* The responses the event loop has buffered, and the one the task hands over,
\* answer requests that have reached their kits.
Carried ==
    /\ events \in Seq(Replies \cup Queries \cup Signals) /\ Len(events) <= Batch
    /\ poller.at \in {"poll", "subscribe", "deliver", "consume"}
    /\ poller.at = "deliver" => poller.with \in Replies

MqttInv == TypeOK /\ streamOpen = TRUE /\ TypeOfConnection /\ Carried

\* The kits answer with responses.
LEMMA RepliesAreResponses == TypeOK => Replies \subseteq Response
  BY DEF TypeOK, Replies, Request, Response

\* The packets of other publishers are fewer than the queue has places.
LEMMA ForeignAreFew ==
    ASSUME TypeOK, Len(outbox) < OutboxCap
    PROVE  Cardinality({i \in DOMAIN outbox : outbox[i] \in Foreign}) < MaxForeign
<1>. DEFINE S == {i \in DOMAIN outbox : outbox[i] \in Foreign}
<1>1. Len(outbox) \in Nat /\ DOMAIN outbox = 1..Len(outbox)
  BY DEF TypeOK
<1>2. ASSUME NEW n \in Nat PROVE IsFiniteSet(1..n) /\ Cardinality(1..n) = n
  <2>1. 1 \in Int /\ n \in Int
    OBVIOUS
  <2>2. IsFiniteSet(1..n) /\ Cardinality(1..n) = IF 1 > n THEN 0 ELSE n - 1 + 1
    BY <2>1, FS_Interval, Zenon
  <2>. QED
    BY <2>2
<1>3. S \subseteq 1..Len(outbox)
  BY <1>1
<1>4. Cardinality(S) <= Len(outbox) /\ Cardinality(S) \in Nat
  BY <1>1, <1>2, <1>3, FS_Subset, FS_CardinalityType
<1>5. OutboxCap \in Nat /\ MaxForeign \in Nat /\ OutboxCap <= MaxForeign
  BY CapsAssumption, BoundAssumption
<1>. HIDE DEF S
<1>6. Cardinality(S) < MaxForeign
  BY <1>1, <1>4, <1>5
<1>. QED
  BY <1>6 DEF S

\* Whatever the connection does is a step of KitRpc's network, or none.
LEMMA StepOfKitRpc ==
    ASSUME MqttInv, [MqttNext]_allVars
    PROVE  [Next]_vars
<1>1. CASE KitRpcStep
  BY <1>1 DEF KitRpcStep, Next, LifeStep
<1>2. CASE Connect \/ Disconnect \/ ReadBatch
  BY <1>2 DEF Connect, Disconnect, ReadBatch, kitRpcVars
<1>3. CASE SendPacket
  BY <1>3 DEF SendPacket, Next, NetworkStep
<1>4. CASE PopToWork \/ PopJunk \/ PopQuery
  BY <1>4 DEF PopToWork, PopToWorkAt, PopJunk, PopQuery, PopAnd, kitRpcVars
<1>5. CASE SubscribeAll
  <2>1. Subscribe \in Foreign
    BY EventsAssumption
  <2>2. ForeignPublish(Subscribe)
    BY <1>5, ForeignAreFew DEF SubscribeAll, SubscribeThen, ForeignPublish, MqttInv
  <2>. QED
    BY <2>1, <2>2 DEF Next, NetworkStep
<1>6. CASE Deliver
  <2>1. CASE driver.at = "stopped"
    BY <1>6, <2>1 DEF Deliver, DeliverWith, kitRpcVars
  <2>2. CASE driver.at # "stopped"
    <3>1. Receive(poller.with) /\ poller.with \in Replies
      BY <1>6, <2>2 DEF Deliver, DeliverWith, MqttInv, Carried
    <3>2. Answer
      BY <3>1 DEF Answer, Replies
    <3>. QED
      BY <3>2 DEF Next, NetworkStep
  <2>. QED
    BY <2>1, <2>2
<1>7. CASE Consumed
  BY <1>7 DEF Consumed, kitRpcVars
<1>8. ASSUME NEW q \in Queries, PublishReply(q) PROVE Next
  <2>1. q \in Foreign
    BY EventsAssumption
  <2>2. ForeignPublish(q)
    BY <1>8, ForeignAreFew DEF PublishReply, PublishReplyTo, ForeignPublish, MqttInv
  <2>. QED
    BY <2>1, <2>2 DEF Next, NetworkStep
<1>9. CASE UNCHANGED allVars
  BY <1>9 DEF allVars, kitRpcVars
<1>. QED
  BY <1>1, <1>2, <1>3, <1>4, <1>5, <1>6, <1>7, <1>8, <1>9
     DEF MqttNext, EventLoopStep, StreamStep

-----------------------------------------------------------------------------

\* The connection is never closed: the task that polls outlives every handle.
LEMMA StreamStaysOpen == streamOpen = TRUE /\ [MqttNext]_allVars => streamOpen' = TRUE
<1>. SUFFICES ASSUME streamOpen = TRUE, [MqttNext]_allVars PROVE streamOpen' = TRUE
  OBVIOUS
<1>1. CASE UNCHANGED lifeVars
  BY <1>1 DEF lifeVars
<1>2. ASSUME NEW c \in Calls, CallerStep(c) PROVE UNCHANGED lifeVars
  BY <1>2 DEF CallerStep, Call, Enqueue, EnqueueWhen, SendFails, Cancel
<1>3. ASSUME DriverStep \/ Tick PROVE UNCHANGED lifeVars
  BY <1>3 DEF DriverStep, TakeRequest, TakeRequestAndSet, Publish, InsertWaiter,
              InsertWaiterAt, TakeResponse, TakeResponseFor, Cleanup, DropWaiters,
              Stop, StopAndDrop, Tick
<1>4. CASE DropHandle
  BY <1>4 DEF DropHandle
<1>5. ASSUME EventLoopStep PROVE UNCHANGED lifeVars
  BY <1>5 DEF EventLoopStep, Connect, Disconnect, SendPacket, Transmit, ReadBatch,
              kitRpcVars, vars
<1>6. ASSUME StreamStep PROVE UNCHANGED lifeVars
  BY <1>6 DEF StreamStep, PopToWork, PopToWorkAt, PopJunk, PopQuery, PopAnd,
              SubscribeAll, SubscribeThen, Deliver, DeliverWith, Receive, Consumed,
              kitRpcVars, vars
<1>7. ASSUME NEW q \in Queries, PublishReply(q) PROVE UNCHANGED lifeVars
  BY <1>7 DEF PublishReply, PublishReplyTo
<1>8. ASSUME UNCHANGED allVars PROVE UNCHANGED lifeVars
  BY <1>8 DEF allVars, kitRpcVars, vars
<1>. QED
  BY <1>1, <1>2, <1>3, <1>4, <1>5, <1>6, <1>7, <1>8 DEF MqttNext, KitRpcStep

\* A kit that could answer a request can answer it still.
LEMMA RepliesKept == [Next]_vars => Replies \subseteq Replies'
  BY DeliveredKept DEF Replies

\* The connection keeps its states and counts its losses; only known server
\* RPC requests have tasks, have been read or have been answered.
LEMMA TypeOfConnectionStep == MqttInv /\ [MqttNext]_allVars => TypeOfConnection'
<1>. SUFFICES ASSUME MqttInv, [MqttNext]_allVars PROVE TypeOfConnection'
  OBVIOUS
<1>. USE DEF TypeOfConnection
<1>0. TypeOfConnection
  BY DEF MqttInv
<1>1. ASSUME UNCHANGED <<conn, tasks, seen, replied, drops>> PROVE TypeOfConnection'
  BY <1>0, <1>1
<1>2. CASE KitRpcStep
  BY <1>1, <1>2 DEF KitRpcStep, mqttVars
<1>3. CASE Connect \/ ReadBatch
  BY <1>0, <1>1, <1>3 DEF Connect, ReadBatch
<1>4. CASE Disconnect
  <2>1. drops' \in 0..MaxDrops
    BY <1>0, <1>4, EventsAssumption DEF Disconnect
  <2>. QED
    BY <1>0, <1>4, <2>1 DEF Disconnect
<1>5. CASE SendPacket
  BY <1>0, <1>5 DEF SendPacket
<1>6. CASE PopToWork \/ PopJunk
  BY <1>1, <1>6 DEF PopToWork, PopToWorkAt, PopJunk, PopAnd
<1>7. CASE PopQuery
  BY <1>0, <1>7 DEF PopQuery, PopAnd
<1>8. CASE SubscribeAll \/ Deliver \/ Consumed
  BY <1>1, <1>8 DEF SubscribeAll, SubscribeThen, Deliver, DeliverWith, Consumed
<1>9. ASSUME NEW q \in Queries, PublishReply(q) PROVE TypeOfConnection'
  BY <1>0, <1>9 DEF PublishReply, PublishReplyTo
<1>10. CASE UNCHANGED allVars
  BY <1>1, <1>10 DEF allVars, mqttVars
<1>. QED
  BY <1>2, <1>3, <1>4, <1>5, <1>6, <1>7, <1>8, <1>9, <1>10
     DEF MqttNext, EventLoopStep, StreamStep

\* What the event loop buffers, and what the task takes from it, answers a
\* request that has reached its kit, is a server RPC request, or is neither.
LEMMA CarriedStep == MqttInv /\ [MqttNext]_allVars => Carried'
<1>. SUFFICES ASSUME MqttInv, [MqttNext]_allVars PROVE Carried'
  OBVIOUS
<1>. DEFINE E == Replies \cup Queries \cup Signals
<1>0. Carried /\ Replies \subseteq Replies'
  BY StepOfKitRpc, RepliesKept DEF MqttInv
<1>1. E \subseteq E'
  BY <1>0 DEF Signals
<1>2. ASSUME UNCHANGED <<events, poller>> PROVE Carried'
  BY <1>0, <1>1, <1>2 DEF Carried
<1>3. ASSUME UNCHANGED events, poller'.at \in {"poll", "consume"} PROVE Carried'
  BY <1>0, <1>1, <1>3 DEF Carried
<1>4. CASE KitRpcStep
  BY <1>2, <1>4 DEF KitRpcStep, mqttVars
<1>5. CASE Connect
  <2>1. events' = <<ConnAck>> /\ ConnAck \in E' /\ UNCHANGED poller
    BY <1>5 DEF Connect, Signals
  <2>2. events' \in Seq(E') /\ Len(events') = 1
    BY <2>1
  <2>. QED
    BY <1>0, <2>1, <2>2, EventsAssumption DEF Carried
<1>6. CASE Disconnect \/ Consumed
  BY <1>3, <1>6 DEF Disconnect, Consumed, At
<1>7. CASE SendPacket
  BY <1>2, <1>7 DEF SendPacket
<1>8. CASE ReadBatch
  <2>1. PICK n \in 1..Batch : events' \in [1..n -> Incoming]
    BY <1>8 DEF ReadBatch
  <2>2. Incoming \subseteq E /\ UNCHANGED poller
    BY <1>8 DEF ReadBatch, Incoming, Replies, Signals
  <2>3. n \in Nat /\ n <= Batch
    BY <2>1, EventsAssumption
  <2>4. events' \in Seq(E') /\ Len(events') = n
    BY <1>1, <2>1, <2>2, <2>3
  <2>. QED
    BY <1>0, <2>2, <2>3, <2>4 DEF Carried
<1>9. ASSUME NEW P, PopAnd(P)
      PROVE  /\ events' \in Seq(E') /\ Len(events') <= Batch
             /\ poller.at = "poll" /\ Head(events) \in E
  <2>1. events # <<>> /\ events' = Tail(events) /\ poller.at = "poll"
    BY <1>9 DEF PopAnd
  <2>2. events \in Seq(E) /\ Len(events) <= Batch
    BY <1>0 DEF Carried
  <2>3. Tail(events) \in Seq(E) /\ Len(Tail(events)) = Len(events) - 1 /\ Head(events) \in E
    BY <2>1, <2>2
  <2>4. Len(events') <= Batch
    BY <2>1, <2>2, <2>3, EventsAssumption
  <2>. QED
    BY <1>1, <2>1, <2>3, <2>4
<1>10. CASE PopToWork
  <2>. PICK e : e = Head(events)
    OBVIOUS
  <2>1. /\ PopAnd(TRUE)
        /\ e \notin Queries \cup {Junk} /\ poller' = At(WorkFor(e), e)
    BY <1>10 DEF PopToWork, PopToWorkAt, PopAnd
  <2>2. e \in Replies \cup {ConnAck, Message}
    BY <1>9, <2>1 DEF Signals
  <2>3. poller'.at \in {"subscribe", "consume", "deliver"} /\ poller'.with = e
    BY <2>1 DEF At, WorkFor
  <2>4. poller'.at = "deliver" => e \in Replies
    BY <2>1, <2>2 DEF At, WorkFor
  <2>. QED
    BY <1>0, <1>9, <2>1, <2>3, <2>4 DEF Carried
<1>11. CASE PopJunk \/ PopQuery
  <2>1. PopAnd(TRUE) /\ UNCHANGED poller
    BY <1>11 DEF PopJunk, PopQuery, PopAnd
  <2>. QED
    BY <1>0, <1>9, <2>1 DEF Carried
<1>12. CASE SubscribeAll \/ Deliver
  BY <1>3, <1>12 DEF SubscribeAll, SubscribeThen, Deliver, DeliverWith, At
<1>13. ASSUME NEW q \in Queries, PublishReply(q) PROVE Carried'
  BY <1>2, <1>13 DEF PublishReply, PublishReplyTo
<1>14. CASE UNCHANGED allVars
  BY <1>2, <1>14 DEF allVars, mqttVars
<1>. QED
  BY <1>4, <1>5, <1>6, <1>7, <1>8, <1>10, <1>11, <1>12, <1>13, <1>14
     DEF MqttNext, EventLoopStep, StreamStep

LEMMA MqttInvAlways == MqttSpec => []MqttInv
<1>1. MqttInit => MqttInv
  <2>. SUFFICES ASSUME MqttInit PROVE MqttInv
    OBVIOUS
  <2>1. TypeOK /\ streamOpen = TRUE
    BY TypingInit DEF MqttInit, Init
  <2>2. TypeOfConnection /\ Carried
    BY EventsAssumption DEF MqttInit, TypeOfConnection, Carried, At
  <2>. QED
    BY <2>1, <2>2 DEF MqttInv
<1>2. MqttInv /\ [MqttNext]_allVars => MqttInv'
  BY StepOfKitRpc, TypingStep, StreamStaysOpen, TypeOfConnectionStep, CarriedStep DEF MqttInv
<1>. QED
  BY <1>1, <1>2, PTL DEF MqttSpec

\* The state keeps the shape of the code's data: no poll buffers more than a
\* batch, the task hands only responses to the driver, and the client's queue
\* holds at most its capacity whoever adds to it.
THEOREM MqttTyping == MqttSpec => []MqttTypeOK
<1>1. MqttInv => MqttTypeOK
  <2>. SUFFICES ASSUME MqttInv PROVE MqttTypeOK
    OBVIOUS
  <2>1. Replies \subseteq Response
    BY RepliesAreResponses DEF MqttInv
  <2>2. events \in Seq(Response \cup Queries \cup Signals)
    BY <2>1 DEF MqttInv, Carried
  <2>. QED
    BY <2>1, <2>2 DEF MqttInv, Carried, TypeOfConnection, MqttTypeOK
<1>. QED
  BY <1>1, MqttInvAlways, PTL

\* The stream, the event loop and the queue are a network as KitRpc supposes
\* it: they answer only what has reached a kit, one packet leaves the queue at
\* a time, and what other publishers add keeps within the queue.
THEOREM NetworkOfKitRpc == MqttSpec => IsKitRpcNetwork
<1>1. MqttInit => Init
  BY DEF MqttInit
<1>2. MqttInv /\ [MqttNext]_allVars => [Next]_vars
  BY StepOfKitRpc
<1>. QED
  BY <1>1, <1>2, MqttInvAlways, PTL DEF MqttSpec, IsKitRpcNetwork, Spec

\* So everything proved of the driver and its callers holds over the real
\* connection, whenever it is lost and whatever shares the queue.
THEOREM PromisesOverConnection ==
    MqttSpec => /\ KeepsPromise /\ NoPrematureTimeout
                /\ [](NoLostCall /\ ResponseFindsWaiter)
                /\ [](AnswerMatchesRequest /\ AnsweredByOwnKit)
  BY NetworkOfKitRpc, DriverKeepsPromise, TimeOutsAreDue, NobodyIsLost, AnswerFindsCaller,
     AnswersMatch, OwnKitAnswers, PTL DEF IsKitRpcNetwork

-----------------------------------------------------------------------------

\* What waits in the client's queue waits on, but for the packet that is sent.
LEMMA PacketKept ==
    ASSUME MqttInv, [MqttNext]_allVars, NEW i \in DOMAIN outbox
    PROVE  \/ outbox[i] \in {outbox'[j] : j \in DOMAIN outbox'}
           \/ SendPacket /\ Head(outbox) = outbox[i]
<1>. DEFINE Goal == \/ outbox[i] \in {outbox'[j] : j \in DOMAIN outbox'}
                    \/ SendPacket /\ Head(outbox) = outbox[i]
<1>0. outbox \in Seq(Request \cup Foreign) /\ streamOpen = TRUE
  BY DEF MqttInv, TypeOK
<1>1. ASSUME UNCHANGED outbox PROVE Goal
  BY <1>1
<1>2. ASSUME NEW p, outbox' = Append(outbox, p) PROVE Goal
  BY <1>0, <1>2, AppendKeeps
<1>3. CASE KitRpcStep
  <2>1. ASSUME NEW c \in Calls, CallerStep(c) PROVE UNCHANGED outbox
    BY <2>1 DEF CallerStep, Call, Enqueue, EnqueueWhen, SendFails, Cancel, channelVars
  <2>2. CASE Publish
    BY <1>0, <1>2, <2>2 DEF Publish
  <2>3. ASSUME TakeRequest \/ InsertWaiter \/ TakeResponse \/ Cleanup \/ Stop \/ Tick \/ DropHandle
        PROVE  UNCHANGED outbox
    BY <2>3 DEF TakeRequest, TakeRequestAndSet, InsertWaiter, InsertWaiterAt, TakeResponse,
                TakeResponseFor, Cleanup, DropWaiters, Stop, StopAndDrop, Tick, DropHandle,
                channelVars
  <2>. QED
    BY <1>1, <1>3, <2>1, <2>2, <2>3 DEF KitRpcStep, DriverStep
<1>4. CASE SendPacket
  <2>1. outbox # <<>> /\ outbox' = Tail(outbox)
    BY <1>4 DEF SendPacket, Transmit
  <2>2. CASE i = 1
    BY <1>0, <1>4, <2>1, <2>2, HeadInDomain
  <2>3. CASE i # 1
    BY <1>0, <2>1, <2>3, InTail
  <2>. QED
    BY <2>2, <2>3
<1>5. CASE Connect \/ Disconnect \/ ReadBatch \/ Consumed
  BY <1>1, <1>5 DEF Connect, Disconnect, ReadBatch, Consumed, kitRpcVars, vars, channelVars
<1>6. CASE PopToWork \/ PopJunk \/ PopQuery
  BY <1>1, <1>6 DEF PopToWork, PopToWorkAt, PopJunk, PopQuery, PopAnd, kitRpcVars, vars,
                    channelVars
<1>7. CASE SubscribeAll
  BY <1>2, <1>7 DEF SubscribeAll, SubscribeThen
<1>8. CASE Deliver
  BY <1>1, <1>8 DEF Deliver, DeliverWith, Receive, kitRpcVars, vars, channelVars
<1>9. ASSUME NEW q \in Queries, PublishReply(q) PROVE Goal
  BY <1>2, <1>9 DEF PublishReply, PublishReplyTo
<1>10. CASE UNCHANGED allVars
  BY <1>1, <1>10 DEF allVars, kitRpcVars, vars, channelVars
<1>. QED
  BY <1>3, <1>4, <1>5, <1>6, <1>7, <1>8, <1>9, <1>10
     DEF MqttNext, EventLoopStep, StreamStep

\* A connection that is acknowledged stays so until the task subscribes.
LEMMA ConnAckKept ==
    ASSUME MqttInv, [MqttNext]_allVars, NEW i \in DOMAIN events, events[i] = ConnAck
    PROVE  \/ ConnAck \in {events'[j] : j \in DOMAIN events'}
           \/ poller'.at = "subscribe"
<1>. DEFINE Goal == \/ ConnAck \in {events'[j] : j \in DOMAIN events'}
                    \/ poller'.at = "subscribe"
<1>0. events \in Seq(Replies \cup Queries \cup Signals) /\ events # <<>>
  BY DEF MqttInv, Carried
<1>1. ASSUME UNCHANGED events PROVE Goal
  BY <1>1
<1>2. ASSUME NEW P, PopAnd(P), i # 1 PROVE Goal
  <2>1. events' = Tail(events)
    BY <1>2 DEF PopAnd
  <2>2. i - 1 \in DOMAIN Tail(events) /\ Tail(events)[i - 1] = ConnAck
    BY ONLY <1>0, <1>2, i \in DOMAIN events, events[i] = ConnAck, InTail
  <2>. QED
    BY <2>1, <2>2
<1>3. i = 1 => Head(events) = ConnAck
  BY <1>0
<1>4. CASE PopToWork
  <2>1. PopAnd(TRUE) /\ poller' = At(WorkFor(Head(events)), Head(events))
    BY <1>4 DEF PopToWork, PopToWorkAt, PopAnd
  <2>2. WorkFor(ConnAck) = "subscribe"
    BY EventsAssumption DEF WorkFor
  <2>3. Head(events) = ConnAck => poller'.at = "subscribe"
    BY <2>1, <2>2 DEF At
  <2>. QED
    BY <1>2, <1>3, <2>1, <2>3
<1>5. CASE PopJunk \/ PopQuery
  <2>1. PopAnd(TRUE) /\ Head(events) # ConnAck
    BY <1>5, EventsAssumption DEF PopJunk, PopQuery, PopAnd
  <2>. QED
    BY <1>2, <1>3, <2>1
<1>6. CASE KitRpcStep \/ UNCHANGED allVars
  BY <1>1, <1>6 DEF KitRpcStep, allVars, mqttVars
<1>7. CASE EventLoopStep
  BY <1>0, <1>1, <1>7 DEF EventLoopStep, Connect, Disconnect, SendPacket, ReadBatch, Polls
<1>8. CASE SubscribeAll \/ Deliver \/ Consumed
  BY <1>1, <1>8 DEF SubscribeAll, SubscribeThen, Deliver, DeliverWith, Consumed
<1>9. ASSUME NEW q \in Queries, PublishReply(q) PROVE Goal
  BY <1>1, <1>9 DEF PublishReply, PublishReplyTo
<1>. QED
  BY <1>4, <1>5, <1>6, <1>7, <1>8, <1>9 DEF MqttNext, StreamStep

\* A client that is connected and not subscribed was so before, unless it has
\* just connected; then the acknowledgement is at hand.
LEMMA ConnectionOrigin ==
    ASSUME [MqttNext]_allVars, conn' = "up"
    PROVE  \/ conn = "up" /\ ~(SendPacket /\ Head(outbox) = Subscribe)
           \/ events' = <<ConnAck>>
<1>0. ~(SendPacket /\ Head(outbox) = Subscribe)
  BY DEF SendPacket
<1>1. CASE UNCHANGED conn
  BY <1>0, <1>1
<1>2. CASE Connect
  BY <1>2 DEF Connect
<1>3. CASE SendPacket
  BY <1>0, <1>3 DEF SendPacket
<1>4. ASSUME KitRpcStep \/ UNCHANGED allVars PROVE UNCHANGED conn
  BY <1>4 DEF KitRpcStep, allVars, mqttVars
<1>5. ~Disconnect
  BY DEF Disconnect
<1>6. ASSUME ReadBatch \/ StreamStep PROVE UNCHANGED conn
  BY <1>6 DEF ReadBatch, StreamStep, PopToWork, PopToWorkAt, PopJunk, PopQuery, PopAnd,
              SubscribeAll, SubscribeThen, Deliver, DeliverWith, Consumed
<1>7. ASSUME NEW q \in Queries, PublishReply(q) PROVE UNCHANGED conn
  BY <1>7 DEF PublishReply, PublishReplyTo
<1>. QED
  BY <1>1, <1>2, <1>3, <1>4, <1>5, <1>6, <1>7 DEF MqttNext, EventLoopStep

\* The task that is about to subscribe does so before it does anything else.
LEMMA SubscribeKept ==
    ASSUME MqttInv, [MqttNext]_allVars, poller.at = "subscribe"
    PROVE  \/ poller'.at = "subscribe"
           \/ Subscribe \in {outbox'[j] : j \in DOMAIN outbox'}
<1>1. CASE UNCHANGED poller
  BY <1>1
<1>2. CASE SubscribeAll
  <2>1. outbox \in Seq(Request \cup Foreign) /\ outbox' = Append(outbox, Subscribe)
    BY <1>2 DEF SubscribeAll, SubscribeThen, MqttInv, TypeOK
  <2>. QED
    BY <2>1, AppendKeeps
<1>3. ASSUME KitRpcStep \/ UNCHANGED allVars PROVE UNCHANGED poller
  BY <1>3 DEF KitRpcStep, allVars, mqttVars
<1>4. ~EventLoopStep
  BY DEF EventLoopStep, Connect, Disconnect, SendPacket, ReadBatch, Polls
<1>5. ~(PopToWork \/ PopJunk \/ PopQuery \/ Deliver \/ Consumed)
  BY DEF PopToWork, PopToWorkAt, PopJunk, PopQuery, PopAnd, Deliver, DeliverWith, Consumed
<1>6. ASSUME NEW q \in Queries, PublishReply(q) PROVE UNCHANGED poller
  BY <1>6 DEF PublishReply, PublishReplyTo
<1>. QED
  BY <1>1, <1>2, <1>3, <1>4, <1>5, <1>6 DEF MqttNext, StreamStep

\* A connected client is subscribed or about to be, however often the
\* connection was lost and whatever the queue held before: the acknowledgement
\* is followed by the subscription, and the queue forgets no packet.
THEOREM SubscriptionNeverLost == MqttSpec => []SubscriptionPending
<1>1. MqttInit => SubscriptionPending
  BY DEF MqttInit, SubscriptionPending
<1>2. MqttInv /\ SubscriptionPending /\ [MqttNext]_allVars => SubscriptionPending'
  <2>. SUFFICES ASSUME MqttInv, SubscriptionPending, [MqttNext]_allVars, conn' = "up"
                PROVE  \/ poller'.at = "subscribe"
                       \/ ConnAck \in {events'[i] : i \in DOMAIN events'}
                       \/ Subscribe \in {outbox'[i] : i \in DOMAIN outbox'}
    BY DEF SubscriptionPending
  <2>1. CASE events' = <<ConnAck>>
    <3>1. 1 \in DOMAIN events' /\ events'[1] = ConnAck
      BY <2>1
    <3>. QED
      BY <3>1
  <2>2. CASE conn = "up" /\ ~(SendPacket /\ Head(outbox) = Subscribe)
    <3>1. CASE poller.at = "subscribe"
      BY <3>1, SubscribeKept
    <3>2. ASSUME NEW i \in DOMAIN events, events[i] = ConnAck
          PROVE  \/ poller'.at = "subscribe"
                 \/ ConnAck \in {events'[j] : j \in DOMAIN events'}
      BY <3>2, ConnAckKept
    <3>3. ASSUME NEW i \in DOMAIN outbox, outbox[i] = Subscribe
          PROVE  Subscribe \in {outbox'[j] : j \in DOMAIN outbox'}
      BY <2>2, <3>3, PacketKept
    <3>. QED
      BY <2>2, <3>1, <3>2, <3>3 DEF SubscriptionPending
  <2>. QED
    BY <2>1, <2>2, ConnectionOrigin
<1>. QED
  BY <1>1, <1>2, MqttInvAlways, PTL DEF MqttSpec
=============================================================================
