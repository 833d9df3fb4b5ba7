---------------------------- MODULE KitRpcProofs ----------------------------
(***************************************************************************)
(* Proofs about KitRpc, for any number of calls and kits, any capacity of  *)
(* the channels, any time-out and any behaviour of the kits.               *)
(***************************************************************************)
EXTENDS KitRpc, TLAPS

-----------------------------------------------------------------------------

\* The conjuncts of TypeOK that the callers, the driver and the channels own.
TypeOfCalls ==
    /\ pc \in [Calls -> {"idle", "sending", "waiting", "resolved", "gone"}]
    /\ outcome \in [Calls -> Outcomes]
    /\ source \in [Calls -> Calls \cup {NoCall}]
    /\ answerer \in [Calls -> Kits \cup {NoCall}]

TypeOfDriver ==
    /\ driver \in [at : {"select", "publish", "insert", "stopped"},
                   call : Calls \cup {NoCall}, id : Nat]
    /\ driver.at \in {"publish", "insert"} => driver.call \in Calls
    /\ nextId \in Nat

TypeOfWaiters ==
    /\ DOMAIN waiters \subseteq Kits \X Nat
    /\ waiters \in [DOMAIN waiters -> Calls]
    /\ age \in [Calls -> 0..Timeout]

TypeOfRequests == requests \in Seq(Calls) /\ Len(requests) <= RequestCap
TypeOfResponses == responses \in Seq(Response) /\ Len(responses) <= ResponseCap
TypeOfOutbox == outbox \in Seq(Request \cup Foreign) /\ Len(outbox) <= OutboxCap

TypeOfLife ==
    /\ delivered \subseteq Request
    /\ streamOpen \in BOOLEAN /\ handleOpen \in BOOLEAN
    /\ crashes \in 0..MaxCrashes

\* The parts make up the type invariant.
LEMMA TypeParts ==
    TypeOK <=> /\ TypeOfCalls /\ TypeOfDriver /\ TypeOfWaiters /\ TypeOfRequests
               /\ TypeOfResponses /\ TypeOfOutbox /\ TypeOfLife
  BY DEF TypeOK, TypeOfCalls, TypeOfDriver, TypeOfWaiters, TypeOfRequests,
         TypeOfResponses, TypeOfOutbox, TypeOfLife

\* Every step leaves a caller in one of its states, with one of the outcomes.
LEMMA TypeOfCallsStep == TypeOK /\ [Next]_vars => TypeOfCalls'
<1>. SUFFICES ASSUME TypeOK, [Next]_vars PROVE TypeOfCalls'
  OBVIOUS
<1>. USE DEF TypeOfCalls, Outcomes
<1>0. TypeOfCalls
  BY DEF TypeOK
<1>1. ASSUME UNCHANGED callVars PROVE TypeOfCalls'
  BY <1>0, <1>1 DEF callVars
<1>2. ASSUME NEW S, TimeOut(S) PROVE TypeOfCalls'
  BY <1>0, <1>2 DEF TimeOut
<1>3. ASSUME NEW c \in Calls, CallerStep(c) PROVE TypeOfCalls'
  BY <1>0, <1>3 DEF CallerStep, Call, Enqueue, EnqueueWhen, SendFails, Cancel
<1>4. CASE TakeRequest \/ Publish
  BY <1>1, <1>4 DEF TakeRequest, TakeRequestAndSet, Publish
<1>5. CASE InsertWaiter
  BY <1>2, <1>5 DEF InsertWaiter, InsertWaiterAt
<1>6. CASE TakeResponse
  <2>. DEFINE r == Head(responses)
  <2>1. responses \in Seq(Response) /\ responses # <<>>
    BY <1>6 DEF TakeResponse, TypeOK
  <2>2. r \in Response
    BY <2>1
  <2>3. r.body \in {"Value", "OtherValue", "Error", "Malformed"}
    BY <2>2, CapsAssumption DEF Response
  <2>4. Verdict[r.body] \in Outcomes
    BY <2>3 DEF Verdict
  <2>5. r.call \in Calls \cup {NoCall} /\ r.kit \in Kits
    BY <2>2 DEF Response
  <2>. QED
    BY <1>0, <1>6, <2>4, <2>5 DEF TakeResponse, TakeResponseFor
<1>7. CASE Cleanup
  BY <1>2, <1>7 DEF Cleanup, DropWaiters
<1>8. CASE Stop
  BY <1>2, <1>8 DEF Stop, StopAndDrop
<1>9. CASE Tick \/ NetworkStep
  BY <1>1, <1>9 DEF Tick, NetworkStep, Transmit, ForeignPublish, Answer, StrayAnswer, Receive
<1>10. CASE CloseStream \/ DropHandle
  BY <1>1, <1>10 DEF CloseStream, DropHandle
<1>11. CASE Crash
  BY <1>0, <1>11 DEF Crash
<1>12. CASE UNCHANGED vars
  BY <1>1, <1>12 DEF vars
<1>. QED
  BY <1>3, <1>4, <1>5, <1>6, <1>7, <1>8, <1>9, <1>10, <1>11, <1>12
     DEF Next, DriverStep, LifeStep

\* The driver has a call at hand while it publishes or inserts.
LEMMA TypeOfDriverStep == TypeOK /\ [Next]_vars => TypeOfDriver'
<1>. SUFFICES ASSUME TypeOK, [Next]_vars PROVE TypeOfDriver'
  OBVIOUS
<1>. USE DEF TypeOfDriver
<1>0. TypeOfDriver
  BY DEF TypeOK
<1>1. ASSUME UNCHANGED <<driver, nextId>> PROVE TypeOfDriver'
  BY <1>0, <1>1
<1>2. ASSUME driver' \in {Idle, [Idle EXCEPT !.at = "stopped"]}, nextId' \in Nat
      PROVE TypeOfDriver'
  BY <1>2 DEF Idle
<1>3. ASSUME NEW c \in Calls, CallerStep(c) PROVE TypeOfDriver'
  BY <1>1, <1>3 DEF CallerStep, Call, Enqueue, EnqueueWhen, SendFails, Cancel, driverVars
<1>4. CASE TakeRequest
  <2>1. Head(requests) \in Calls
    BY <1>4 DEF TakeRequest, TakeRequestAndSet, TypeOK
  <2>. QED
    BY <1>0, <1>4, <2>1 DEF TakeRequest, TakeRequestAndSet
<1>5. CASE Publish
  BY <1>0, <1>5 DEF Publish
<1>6. CASE InsertWaiter
  BY <1>0, <1>2, <1>6 DEF InsertWaiter, InsertWaiterAt
<1>7. CASE TakeResponse \/ Cleanup
  BY <1>1, <1>7 DEF TakeResponse, TakeResponseFor, Cleanup, DropWaiters
<1>8. CASE Stop
  BY <1>0, <1>2, <1>8 DEF Stop, StopAndDrop
<1>9. CASE Tick \/ NetworkStep
  BY <1>1, <1>9 DEF Tick, NetworkStep, Transmit, ForeignPublish, Answer, StrayAnswer,
                    Receive, driverVars
<1>10. CASE CloseStream \/ DropHandle
  BY <1>1, <1>10 DEF CloseStream, DropHandle, driverVars
<1>11. CASE Crash
  BY <1>2, <1>11 DEF Crash
<1>12. CASE UNCHANGED vars
  BY <1>1, <1>12 DEF vars, driverVars
<1>. QED
  BY <1>3, <1>4, <1>5, <1>6, <1>7, <1>8, <1>9, <1>10, <1>11, <1>12
     DEF Next, DriverStep, LifeStep

\* The table holds calls under keys made of a kit and a number, and no waiter
\* grows older than the time-out.
LEMMA TypeOfWaitersStep == TypeOK /\ [Next]_vars => TypeOfWaiters'
<1>. SUFFICES ASSUME TypeOK, [Next]_vars PROVE TypeOfWaiters'
  OBVIOUS
<1>. USE DEF TypeOfWaiters
<1>0. TypeOfWaiters
  BY DEF TypeOK
<1>1. ASSUME UNCHANGED <<waiters, age>> PROVE TypeOfWaiters'
  BY <1>0, <1>1
<1>2. ASSUME NEW S, waiters' = [k \in DOMAIN waiters \ S |-> waiters[k]], UNCHANGED age
      PROVE TypeOfWaiters'
  BY <1>0, <1>2
<1>3. ASSUME waiters' = <<>>, UNCHANGED age PROVE TypeOfWaiters'
  BY <1>0, <1>3
<1>4. ASSUME NEW c \in Calls, CallerStep(c) PROVE TypeOfWaiters'
  BY <1>1, <1>4 DEF CallerStep, Call, Enqueue, EnqueueWhen, SendFails, Cancel, driverVars
<1>5. CASE TakeRequest \/ Publish
  BY <1>1, <1>5 DEF TakeRequest, TakeRequestAndSet, Publish
<1>6. CASE InsertWaiter
  <2>. DEFINE key == <<KitOf[driver.call], driver.id>>
  <2>1. driver.call \in Calls /\ driver.id \in Nat
    BY <1>6 DEF InsertWaiter, InsertWaiterAt, TypeOK
  <2>2. key \in Kits \X Nat
    BY <2>1, CallsAssumption
  <2>3. 0 \in 0..Timeout
    BY CapsAssumption
  <2>4. /\ waiters' = [k \in DOMAIN waiters \cup {key} |->
                          IF k = key THEN driver.call ELSE waiters[k]]
        /\ age' = [age EXCEPT ![driver.call] = 0]
    BY <1>6 DEF InsertWaiter, InsertWaiterAt
  <2>5. DOMAIN waiters' \subseteq Kits \X Nat /\ waiters' \in [DOMAIN waiters' -> Calls]
    BY <1>0, <2>1, <2>2, <2>4
  <2>6. age' \in [Calls -> 0..Timeout]
    BY <1>0, <2>1, <2>3, <2>4
  <2>. QED
    BY <2>5, <2>6
<1>7. CASE TakeResponse
  BY <1>2, <1>7 DEF TakeResponse, TakeResponseFor
<1>8. CASE Cleanup
  BY <1>2, <1>8 DEF Cleanup, DropWaiters
<1>9. CASE Stop \/ Crash
  BY <1>3, <1>9 DEF Stop, StopAndDrop, Crash
<1>10. CASE Tick
  <2>1. ASSUME NEW c \in Calls, age[c] < Timeout PROVE age[c] + 1 \in 0..Timeout
    BY <1>0, <2>1, CapsAssumption
  <2>. QED
    BY <1>0, <1>10, <2>1 DEF Tick
<1>11. CASE NetworkStep
  BY <1>1, <1>11 DEF NetworkStep, Transmit, ForeignPublish, Answer, StrayAnswer,
                     Receive, driverVars
<1>12. CASE CloseStream \/ DropHandle
  BY <1>1, <1>12 DEF CloseStream, DropHandle, driverVars
<1>13. CASE UNCHANGED vars
  BY <1>1, <1>13 DEF vars, driverVars
<1>. QED
  BY <1>4, <1>5, <1>6, <1>7, <1>8, <1>9, <1>10, <1>11, <1>12, <1>13
     DEF Next, DriverStep, LifeStep

\* The request channel keeps within its capacity: only Enqueue adds to it.
LEMMA TypeOfRequestsStep == TypeOK /\ [Next]_vars => TypeOfRequests'
<1>. SUFFICES ASSUME TypeOK, [Next]_vars PROVE TypeOfRequests'
  OBVIOUS
<1>. USE DEF TypeOfRequests
<1>0. TypeOfRequests
  BY DEF TypeOK
<1>1. ASSUME UNCHANGED requests PROVE TypeOfRequests'
  BY <1>0, <1>1
<1>2. ASSUME requests' = <<>> PROVE TypeOfRequests'
  BY <1>2, CapsAssumption
<1>3. ASSUME NEW c \in Calls, Call(c) \/ SendFails(c) \/ Cancel(c) PROVE TypeOfRequests'
  BY <1>1, <1>3 DEF Call, SendFails, Cancel, channelVars
<1>4. ASSUME NEW c \in Calls, Enqueue(c) PROVE TypeOfRequests'
  <2>1. requests' = Append(requests, c) /\ Len(requests) < RequestCap
    BY <1>4 DEF Enqueue, EnqueueWhen
  <2>. QED
    BY <1>0, <2>1, CapsAssumption
<1>5. CASE TakeRequest
  <2>1. requests # <<>> /\ requests' = Tail(requests)
    BY <1>5 DEF TakeRequest, TakeRequestAndSet
  <2>. QED
    BY <1>0, <2>1, CapsAssumption
<1>6. CASE Publish \/ InsertWaiter \/ TakeResponse \/ Cleanup
  BY <1>1, <1>6 DEF Publish, InsertWaiter, InsertWaiterAt, TakeResponse, TakeResponseFor,
                    Cleanup, DropWaiters, channelVars
<1>7. CASE Stop \/ Crash
  BY <1>2, <1>7 DEF Stop, StopAndDrop, Crash
<1>8. CASE Tick \/ NetworkStep
  BY <1>1, <1>8 DEF Tick, NetworkStep, Transmit, ForeignPublish, Answer, StrayAnswer,
                    Receive, channelVars
<1>9. CASE CloseStream \/ DropHandle
  BY <1>1, <1>9 DEF CloseStream, DropHandle, channelVars
<1>10. CASE UNCHANGED vars
  BY <1>1, <1>10 DEF vars, channelVars
<1>. QED
  BY <1>3, <1>4, <1>5, <1>6, <1>7, <1>8, <1>9, <1>10
     DEF Next, CallerStep, DriverStep, LifeStep

\* The response channel keeps within its capacity: only Receive adds to it.
LEMMA TypeOfResponsesStep == TypeOK /\ [Next]_vars => TypeOfResponses'
<1>. SUFFICES ASSUME TypeOK, [Next]_vars PROVE TypeOfResponses'
  OBVIOUS
<1>. USE DEF TypeOfResponses
<1>0. TypeOfResponses
  BY DEF TypeOK
<1>1. ASSUME UNCHANGED responses PROVE TypeOfResponses'
  BY <1>0, <1>1
<1>2. ASSUME responses' = <<>> PROVE TypeOfResponses'
  BY <1>2, CapsAssumption
<1>3. ASSUME NEW r \in Response, Receive(r) PROVE TypeOfResponses'
  <2>1. responses' = Append(responses, r) /\ Len(responses) < ResponseCap
    BY <1>3 DEF Receive
  <2>. QED
    BY <1>0, <2>1, CapsAssumption
<1>4. ASSUME NEW c \in Calls, CallerStep(c) PROVE TypeOfResponses'
  BY <1>1, <1>4 DEF CallerStep, Call, Enqueue, EnqueueWhen, SendFails, Cancel, channelVars
<1>5. CASE TakeRequest \/ Publish \/ InsertWaiter \/ Cleanup
  BY <1>1, <1>5 DEF TakeRequest, TakeRequestAndSet, Publish, InsertWaiter, InsertWaiterAt,
                    Cleanup, DropWaiters, channelVars
<1>6. CASE TakeResponse
  <2>1. responses # <<>> /\ responses' = Tail(responses)
    BY <1>6 DEF TakeResponse, TakeResponseFor
  <2>. QED
    BY <1>0, <2>1, CapsAssumption
<1>7. CASE Stop \/ Crash
  BY <1>2, <1>7 DEF Stop, StopAndDrop, Crash
<1>8. CASE Tick \/ Transmit
  BY <1>1, <1>8 DEF Tick, Transmit, channelVars
<1>9. ASSUME NEW p \in Foreign, ForeignPublish(p) PROVE TypeOfResponses'
  BY <1>1, <1>9 DEF ForeignPublish
<1>10. CASE Answer
  <2>1. PICK q \in delivered, b \in Bodies :
           Receive([kit |-> q.kit, id |-> q.id, body |-> b, call |-> q.call])
    BY <1>10 DEF Answer
  <2>2. q \in Request
    BY DEF TypeOK
  <2>3. [kit |-> q.kit, id |-> q.id, body |-> b, call |-> q.call] \in Response
    BY <2>2 DEF Request, Response
  <2>. QED
    BY <1>3, <2>1, <2>3
<1>11. CASE StrayAnswer
  <2>1. PICK k \in Kits, i \in StrayIds, b \in Bodies :
           Receive([kit |-> k, id |-> i, body |-> b, call |-> NoCall])
    BY <1>11 DEF StrayAnswer
  <2>2. [kit |-> k, id |-> i, body |-> b, call |-> NoCall] \in Response
    BY CapsAssumption DEF Response
  <2>. QED
    BY <1>3, <2>1, <2>2
<1>12. CASE CloseStream \/ DropHandle
  BY <1>1, <1>12 DEF CloseStream, DropHandle, channelVars
<1>13. CASE UNCHANGED vars
  BY <1>1, <1>13 DEF vars, channelVars
<1>. QED
  BY <1>4, <1>5, <1>6, <1>7, <1>8, <1>9, <1>10, <1>11, <1>12, <1>13
     DEF Next, DriverStep, NetworkStep, LifeStep

\* The MQTT client's queue keeps within its capacity, whoever adds to it.
LEMMA TypeOfOutboxStep == TypeOK /\ [Next]_vars => TypeOfOutbox'
<1>. SUFFICES ASSUME TypeOK, [Next]_vars PROVE TypeOfOutbox'
  OBVIOUS
<1>. USE DEF TypeOfOutbox
<1>0. TypeOfOutbox
  BY DEF TypeOK
<1>1. ASSUME UNCHANGED outbox PROVE TypeOfOutbox'
  BY <1>0, <1>1
<1>2. ASSUME outbox' = <<>> PROVE TypeOfOutbox'
  BY <1>2, CapsAssumption
<1>3. ASSUME NEW p \in Request \cup Foreign, Len(outbox) < OutboxCap,
             outbox' = Append(outbox, p)
      PROVE TypeOfOutbox'
  BY <1>0, <1>3, CapsAssumption
<1>4. ASSUME NEW c \in Calls, CallerStep(c) PROVE TypeOfOutbox'
  BY <1>1, <1>4 DEF CallerStep, Call, Enqueue, EnqueueWhen, SendFails, Cancel, channelVars
<1>5. CASE TakeRequest \/ InsertWaiter \/ TakeResponse \/ Cleanup \/ Stop
  BY <1>1, <1>5 DEF TakeRequest, TakeRequestAndSet, InsertWaiter, InsertWaiterAt,
                    TakeResponse, TakeResponseFor, Cleanup, DropWaiters,
                    Stop, StopAndDrop, channelVars
<1>6. CASE Publish
  <2>. DEFINE request == [kit |-> KitOf[driver.call], id |-> driver.id, call |-> driver.call]
  <2>1. driver.call \in Calls /\ driver.id \in Nat
    BY <1>6 DEF Publish, TypeOK
  <2>2. request \in Request
    BY <2>1, CallsAssumption DEF Request
  <2>3. CASE streamOpen
    BY <1>3, <1>6, <2>2, <2>3 DEF Publish
  <2>4. CASE ~streamOpen
    BY <1>1, <1>6, <2>4 DEF Publish
  <2>. QED
    BY <2>3, <2>4
<1>7. CASE Crash \/ CloseStream
  BY <1>2, <1>7 DEF Crash, CloseStream
<1>8. CASE Transmit
  <2>1. outbox # <<>> /\ outbox' = Tail(outbox)
    BY <1>8 DEF Transmit
  <2>. QED
    BY <1>0, <2>1, CapsAssumption
<1>9. ASSUME NEW p \in Foreign, ForeignPublish(p) PROVE TypeOfOutbox'
  BY <1>3, <1>9 DEF ForeignPublish
<1>10. CASE Tick \/ Answer \/ StrayAnswer
  BY <1>1, <1>10 DEF Tick, Answer, StrayAnswer, Receive, channelVars
<1>11. CASE DropHandle
  BY <1>1, <1>11 DEF DropHandle, channelVars
<1>12. CASE UNCHANGED vars
  BY <1>1, <1>12 DEF vars, channelVars
<1>. QED
  BY <1>4, <1>5, <1>6, <1>7, <1>8, <1>9, <1>10, <1>11, <1>12
     DEF Next, DriverStep, NetworkStep, LifeStep

\* Only requests are delivered, and crashes are counted up to their bound.
LEMMA TypeOfLifeStep == TypeOK /\ [Next]_vars => TypeOfLife'
<1>. SUFFICES ASSUME TypeOK, [Next]_vars PROVE TypeOfLife'
  OBVIOUS
<1>. USE DEF TypeOfLife
<1>0. TypeOfLife
  BY DEF TypeOK
<1>1. ASSUME UNCHANGED <<delivered, lifeVars>> PROVE TypeOfLife'
  BY <1>0, <1>1 DEF lifeVars
<1>2. ASSUME NEW c \in Calls, CallerStep(c) PROVE TypeOfLife'
  BY <1>1, <1>2 DEF CallerStep, Call, Enqueue, EnqueueWhen, SendFails, Cancel
<1>3. CASE DriverStep
  BY <1>1, <1>3 DEF DriverStep, TakeRequest, TakeRequestAndSet, Publish,
                    InsertWaiter, InsertWaiterAt, TakeResponse, TakeResponseFor,
                    Cleanup, DropWaiters, Stop, StopAndDrop
<1>4. CASE Tick \/ Answer \/ StrayAnswer
  BY <1>1, <1>4 DEF Tick, Answer, StrayAnswer, Receive
<1>5. CASE Transmit
  <2>1. outbox \in Seq(Request \cup Foreign) /\ outbox # <<>>
    BY <1>5 DEF Transmit, TypeOK
  <2>2. Head(outbox) \in Request \cup Foreign
    BY <2>1
  <2>. QED
    BY <1>0, <1>5, <2>2 DEF Transmit, lifeVars
<1>6. ASSUME NEW p \in Foreign, ForeignPublish(p) PROVE TypeOfLife'
  BY <1>1, <1>6 DEF ForeignPublish
<1>7. CASE LifeStep
  <2>1. delivered' \subseteq Request
    BY <1>0, <1>7 DEF LifeStep, CloseStream, DropHandle, Crash
  <2>2. streamOpen' \in BOOLEAN /\ handleOpen' \in BOOLEAN
    BY <1>0, <1>7 DEF LifeStep, CloseStream, DropHandle, Crash
  <2>3. crashes' = crashes \/ (crashes < MaxCrashes /\ crashes' = crashes + 1)
    BY <1>7 DEF LifeStep, CloseStream, DropHandle, Crash
  <2>4. crashes' \in 0..MaxCrashes
    BY <1>0, <2>3, CapsAssumption
  <2>. QED
    BY <2>1, <2>2, <2>4
<1>8. CASE UNCHANGED vars
  BY <1>1, <1>8 DEF vars
<1>. QED
  BY <1>2, <1>3, <1>4, <1>5, <1>6, <1>7, <1>8 DEF Next, NetworkStep

\* Every step keeps the state in its shape, as the first state is.
LEMMA TypingStep == TypeOK /\ [Next]_vars => TypeOK'
  BY TypeOfCallsStep, TypeOfDriverStep, TypeOfWaitersStep, TypeOfRequestsStep,
     TypeOfResponsesStep, TypeOfOutboxStep, TypeOfLifeStep, TypeParts
     DEF TypeOfCalls, TypeOfDriver, TypeOfWaiters, TypeOfRequests,
         TypeOfResponses, TypeOfOutbox, TypeOfLife, TypeOK

LEMMA TypingInit == Init => TypeOK
<1>. SUFFICES ASSUME Init PROVE TypeOK
  OBVIOUS
<1>1. TypeOfCalls
  BY DEF Init, TypeOfCalls, Outcomes
<1>2. TypeOfDriver
  BY DEF Init, TypeOfDriver, Idle
<1>3. TypeOfWaiters
  BY CapsAssumption DEF Init, TypeOfWaiters
<1>4. TypeOfRequests /\ TypeOfResponses /\ TypeOfOutbox
  BY CapsAssumption DEF Init, TypeOfRequests, TypeOfResponses, TypeOfOutbox
<1>5. TypeOfLife
  BY CapsAssumption DEF Init, TypeOfLife
<1>. QED
  BY <1>1, <1>2, <1>3, <1>4, <1>5, TypeParts

\* The state keeps the shape of the code's data: the three channels never hold
\* more than their capacity, the driver always knows the call it publishes,
\* and every waiter is a call under the key of a kit and a number.
THEOREM Typing == Spec => []TypeOK
  BY TypingInit, TypingStep, PTL DEF Spec

-----------------------------------------------------------------------------

\* What Head and Tail of a sequence hold is in the sequence.
LEMMA HeadInDomain ==
    ASSUME NEW T, NEW s \in Seq(T), s # <<>>
    PROVE  /\ 1 \in DOMAIN s /\ Head(s) = s[1] /\ Head(s) \in T
           /\ Tail(s) \in Seq(T)
           /\ \A i \in DOMAIN Tail(s) : i + 1 \in DOMAIN s /\ Tail(s)[i] = s[i + 1]
  OBVIOUS

\* What Append makes holds the sequence and the new element.
LEMMA AppendInDomain ==
    ASSUME NEW T, NEW s \in Seq(T), NEW e
    PROVE  \A i \in DOMAIN Append(s, e) :
              \/ i \in DOMAIN s /\ Append(s, e)[i] = s[i]
              \/ i = Len(s) + 1 /\ Append(s, e)[i] = e
  OBVIOUS

(* Where what the state holds after a step comes from. *)

\* A request in the MQTT client's queue was there before or is the driver's.
LEMMA OutboxOrigin ==
    ASSUME TypeOK, [Next]_vars, NEW i \in DOMAIN outbox'
    PROVE  \/ \E j \in DOMAIN outbox : outbox[j] = outbox'[i]
           \/ outbox'[i] \in Foreign
           \/ /\ Publish /\ driver.at = "publish"
              /\ outbox'[i] = [kit |-> KitOf[driver.call], id |-> driver.id,
                               call |-> driver.call]
<1>. DEFINE Goal == \/ \E j \in DOMAIN outbox : outbox[j] = outbox'[i]
                    \/ outbox'[i] \in Foreign
                    \/ /\ Publish /\ driver.at = "publish"
                       /\ outbox'[i] = [kit |-> KitOf[driver.call], id |-> driver.id,
                                        call |-> driver.call]
<1>0. outbox \in Seq(Request \cup Foreign)
  BY DEF TypeOK
<1>1. ASSUME UNCHANGED outbox PROVE Goal
  BY <1>1
<1>2. ASSUME outbox' = <<>> PROVE Goal
  BY <1>2
<1>3. ASSUME NEW c \in Calls, CallerStep(c) PROVE Goal
  BY <1>1, <1>3 DEF CallerStep, Call, Enqueue, EnqueueWhen, SendFails, Cancel, channelVars
<1>4. CASE TakeRequest \/ InsertWaiter \/ TakeResponse \/ Cleanup \/ Stop
  BY <1>1, <1>4 DEF TakeRequest, TakeRequestAndSet, InsertWaiter, InsertWaiterAt,
                    TakeResponse, TakeResponseFor, Cleanup, DropWaiters,
                    Stop, StopAndDrop, channelVars
<1>5. CASE Publish
  <2>. DEFINE request == [kit |-> KitOf[driver.call], id |-> driver.id, call |-> driver.call]
  <2>1. outbox' = outbox \/ outbox' = Append(outbox, request)
    BY <1>5 DEF Publish
  <2>2. driver.at = "publish"
    BY <1>5 DEF Publish
  <2>3. CASE outbox' = Append(outbox, request)
    <3>1. \/ i \in DOMAIN outbox /\ outbox'[i] = outbox[i]
          \/ outbox'[i] = request
      BY ONLY <1>0, <2>3, i \in DOMAIN outbox', AppendInDomain
    <3>. QED
      BY <1>5, <2>2, <3>1
  <2>. QED
    BY <1>1, <2>1, <2>3
<1>6. CASE Crash \/ CloseStream
  BY <1>2, <1>6 DEF Crash, CloseStream
<1>7. CASE Transmit
  <2>1. outbox # <<>> /\ outbox' = Tail(outbox)
    BY <1>7 DEF Transmit
  <2>2. i + 1 \in DOMAIN outbox /\ outbox'[i] = outbox[i + 1]
    BY <1>0, <2>1, HeadInDomain
  <2>. QED
    BY <2>2
<1>8. ASSUME NEW p \in Foreign, ForeignPublish(p) PROVE Goal
  <2>1. outbox' = Append(outbox, p)
    BY <1>8 DEF ForeignPublish
  <2>2. \/ i \in DOMAIN outbox /\ outbox'[i] = outbox[i]
        \/ outbox'[i] = p
    BY ONLY <1>0, <2>1, i \in DOMAIN outbox', AppendInDomain
  <2>. QED
    BY <1>8, <2>2
<1>9. CASE Tick \/ Answer \/ StrayAnswer
  BY <1>1, <1>9 DEF Tick, Answer, StrayAnswer, Receive, channelVars
<1>10. CASE DropHandle
  BY <1>1, <1>10 DEF DropHandle, channelVars
<1>11. CASE UNCHANGED vars
  BY <1>1, <1>11 DEF vars, channelVars
<1>. QED
  BY <1>3, <1>4, <1>5, <1>6, <1>7, <1>8, <1>9, <1>10, <1>11
     DEF Next, DriverStep, NetworkStep, LifeStep

\* A kit has received what it had already, or what was in the queue.
LEMMA DeliveredOrigin ==
    ASSUME TypeOK, [Next]_vars, NEW q \in delivered'
    PROVE  \/ q \in delivered
           \/ \E j \in DOMAIN outbox : outbox[j] = q /\ outbox[j] \notin Foreign
<1>1. CASE UNCHANGED delivered
  BY <1>1
<1>2. CASE Transmit
  <2>1. Head(outbox) = outbox[1] /\ 1 \in DOMAIN outbox
    BY <1>2, HeadInDomain DEF Transmit, TypeOK
  <2>. QED
    BY <1>2, <2>1 DEF Transmit
<1>3. ASSUME NEW c \in Calls, CallerStep(c) PROVE UNCHANGED delivered
  BY <1>3 DEF CallerStep, Call, Enqueue, EnqueueWhen, SendFails, Cancel
<1>4. ASSUME DriverStep PROVE UNCHANGED delivered
  BY <1>4 DEF DriverStep, TakeRequest, TakeRequestAndSet, Publish, InsertWaiter,
              InsertWaiterAt, TakeResponse, TakeResponseFor, Cleanup, DropWaiters,
              Stop, StopAndDrop
<1>5. ASSUME Tick \/ Answer \/ StrayAnswer PROVE UNCHANGED delivered
  BY <1>5 DEF Tick, Answer, StrayAnswer, Receive
<1>6. ASSUME NEW p \in Foreign, ForeignPublish(p) PROVE UNCHANGED delivered
  BY <1>6 DEF ForeignPublish
<1>7. ASSUME LifeStep PROVE UNCHANGED delivered
  BY <1>7 DEF LifeStep, CloseStream, DropHandle, Crash
<1>8. ASSUME UNCHANGED vars PROVE UNCHANGED delivered
  BY <1>8 DEF vars
<1>. QED
  BY <1>1, <1>2, <1>3, <1>4, <1>5, <1>6, <1>7, <1>8 DEF Next, NetworkStep

\* A response was there before, answers a request its kit has received, or
\* uses a stray number.
LEMMA ResponseOrigin ==
    ASSUME TypeOK, [Next]_vars, NEW i \in DOMAIN responses'
    PROVE  \/ \E j \in DOMAIN responses : responses[j] = responses'[i]
           \/ \E q \in delivered : /\ responses'[i].kit = q.kit
                                   /\ responses'[i].id = q.id
                                   /\ responses'[i].call = q.call
           \/ responses'[i].call = NoCall /\ responses'[i].id \in StrayIds
<1>. DEFINE Goal == \/ \E j \in DOMAIN responses : responses[j] = responses'[i]
                    \/ \E q \in delivered : /\ responses'[i].kit = q.kit
                                            /\ responses'[i].id = q.id
                                            /\ responses'[i].call = q.call
                    \/ responses'[i].call = NoCall /\ responses'[i].id \in StrayIds
<1>0. responses \in Seq(Response)
  BY DEF TypeOK
<1>1. ASSUME UNCHANGED responses PROVE Goal
  BY <1>1
<1>2. ASSUME responses' = <<>> PROVE Goal
  BY <1>2
<1>3. ASSUME NEW r, Receive(r)
      PROVE  (\E j \in DOMAIN responses : responses[j] = responses'[i]) \/ responses'[i] = r
  <2>1. responses' = Append(responses, r)
    BY <1>3 DEF Receive
  <2>2. \/ i \in DOMAIN responses /\ responses'[i] = responses[i]
        \/ responses'[i] = r
    BY ONLY <1>0, <2>1, i \in DOMAIN responses', AppendInDomain
  <2>. QED
    BY <2>2
<1>4. ASSUME NEW c \in Calls, CallerStep(c) PROVE Goal
  BY <1>1, <1>4 DEF CallerStep, Call, Enqueue, EnqueueWhen, SendFails, Cancel, channelVars
<1>5. CASE TakeRequest \/ Publish \/ InsertWaiter \/ Cleanup
  BY <1>1, <1>5 DEF TakeRequest, TakeRequestAndSet, Publish, InsertWaiter, InsertWaiterAt,
                    Cleanup, DropWaiters, channelVars
<1>6. CASE TakeResponse
  <2>1. responses # <<>> /\ responses' = Tail(responses)
    BY <1>6 DEF TakeResponse, TakeResponseFor
  <2>2. i + 1 \in DOMAIN responses /\ responses'[i] = responses[i + 1]
    BY <1>0, <2>1, HeadInDomain
  <2>. QED
    BY <2>2
<1>7. CASE Stop \/ Crash
  BY <1>2, <1>7 DEF Stop, StopAndDrop, Crash
<1>8. CASE Tick \/ Transmit
  BY <1>1, <1>8 DEF Tick, Transmit, channelVars
<1>9. ASSUME NEW p \in Foreign, ForeignPublish(p) PROVE Goal
  BY <1>1, <1>9 DEF ForeignPublish
<1>10. CASE Answer
  <2>1. PICK q \in delivered, b \in Bodies :
           Receive([kit |-> q.kit, id |-> q.id, body |-> b, call |-> q.call])
    BY <1>10 DEF Answer
  <2>. QED
    BY <1>3, <2>1
<1>11. CASE StrayAnswer
  <2>1. PICK k \in Kits, n \in StrayIds, b \in Bodies :
           Receive([kit |-> k, id |-> n, body |-> b, call |-> NoCall])
    BY <1>11 DEF StrayAnswer
  <2>. QED
    BY <1>3, <2>1
<1>12. CASE CloseStream \/ DropHandle
  BY <1>1, <1>12 DEF CloseStream, DropHandle, channelVars
<1>13. CASE UNCHANGED vars
  BY <1>1, <1>13 DEF vars, channelVars
<1>. QED
  BY <1>4, <1>5, <1>6, <1>7, <1>8, <1>9, <1>10, <1>11, <1>12, <1>13
     DEF Next, DriverStep, NetworkStep, LifeStep

\* A waiter was there before, or is the call the driver was inserting.
LEMMA WaiterOrigin ==
    ASSUME [Next]_vars, NEW k \in DOMAIN waiters'
    PROVE  \/ k \in DOMAIN waiters /\ waiters'[k] = waiters[k]
           \/ /\ InsertWaiter /\ driver.at = "insert"
              /\ k = <<KitOf[driver.call], driver.id>>
              /\ waiters'[k] = driver.call
<1>. DEFINE Goal == \/ k \in DOMAIN waiters /\ waiters'[k] = waiters[k]
                    \/ /\ InsertWaiter /\ driver.at = "insert"
                       /\ k = <<KitOf[driver.call], driver.id>>
                       /\ waiters'[k] = driver.call
<1>1. ASSUME UNCHANGED waiters PROVE Goal
  BY <1>1
<1>2. ASSUME NEW S, waiters' = [x \in DOMAIN waiters \ S |-> waiters[x]] PROVE Goal
  BY <1>2
<1>3. ASSUME waiters' = <<>> PROVE Goal
  BY <1>3
<1>4. ASSUME NEW c \in Calls, CallerStep(c) PROVE Goal
  BY <1>1, <1>4 DEF CallerStep, Call, Enqueue, EnqueueWhen, SendFails, Cancel, driverVars
<1>5. CASE TakeRequest \/ Publish
  BY <1>1, <1>5 DEF TakeRequest, TakeRequestAndSet, Publish
<1>6. CASE InsertWaiter
  BY <1>6 DEF InsertWaiter, InsertWaiterAt
<1>7. CASE TakeResponse
  BY <1>2, <1>7 DEF TakeResponse, TakeResponseFor
<1>8. CASE Cleanup
  BY <1>2, <1>8 DEF Cleanup, DropWaiters
<1>9. CASE Stop \/ Crash
  BY <1>3, <1>9 DEF Stop, StopAndDrop, Crash
<1>10. CASE Tick \/ NetworkStep
  BY <1>1, <1>10 DEF Tick, NetworkStep, Transmit, ForeignPublish, Answer, StrayAnswer,
                     Receive, driverVars
<1>11. CASE CloseStream \/ DropHandle
  BY <1>1, <1>11 DEF CloseStream, DropHandle, driverVars
<1>12. CASE UNCHANGED vars
  BY <1>1, <1>12 DEF vars, driverVars
<1>. QED
  BY <1>4, <1>5, <1>6, <1>7, <1>8, <1>9, <1>10, <1>11, <1>12
     DEF Next, DriverStep, LifeStep

\* A caller's answer comes from a response to the key it waits under.
LEMMA AnswerOrigin ==
    ASSUME TypeOK, [Next]_vars, NEW c \in Calls
    PROVE  \/ /\ source'[c] = source[c] /\ answerer'[c] = answerer[c]
              /\ outcome'[c] \in {outcome[c], "TimedOut"}
           \/ \E j \in DOMAIN responses :
                 /\ <<responses[j].kit, responses[j].id>> \in DOMAIN waiters
                 /\ waiters[<<responses[j].kit, responses[j].id>>] = c
                 /\ source'[c] = responses[j].call /\ answerer'[c] = responses[j].kit
<1>. DEFINE Kept == /\ source'[c] = source[c] /\ answerer'[c] = answerer[c]
                    /\ outcome'[c] \in {outcome[c], "TimedOut"}
<1>0. source \in [Calls -> Calls \cup {NoCall}] /\ outcome \in [Calls -> Outcomes]
  BY DEF TypeOK
<1>1. ASSUME UNCHANGED <<outcome, source, answerer>> PROVE Kept
  BY <1>1
<1>2. ASSUME NEW S, TimeOut(S) PROVE Kept
  BY <1>2 DEF TimeOut
<1>3. ASSUME NEW d \in Calls, CallerStep(d) PROVE Kept
  BY <1>0, <1>3 DEF CallerStep, Call, Enqueue, EnqueueWhen, SendFails, Cancel
<1>4. CASE TakeRequest \/ Publish
  BY <1>1, <1>4 DEF TakeRequest, TakeRequestAndSet, Publish, callVars
<1>5. CASE InsertWaiter
  BY <1>2, <1>5 DEF InsertWaiter, InsertWaiterAt
<1>6. CASE TakeResponse
  <2>. DEFINE key == <<Head(responses).kit, Head(responses).id>>
              hit == key \in DOMAIN waiters /\ waiters[key] = c /\ pc[c] = "waiting"
  <2>1. 1 \in DOMAIN responses /\ Head(responses) = responses[1]
    BY <1>6, HeadInDomain DEF TakeResponse, TypeOK
  <2>2. /\ source'[c] = IF hit THEN Head(responses).call ELSE source[c]
        /\ answerer'[c] = IF hit THEN Head(responses).kit ELSE answerer[c]
        /\ ~hit => outcome'[c] = outcome[c]
    BY <1>6 DEF TakeResponse, TakeResponseFor
  <2>. QED
    BY <2>1, <2>2
<1>7. CASE Cleanup
  BY <1>2, <1>7 DEF Cleanup, DropWaiters
<1>8. CASE Stop
  BY <1>2, <1>8 DEF Stop, StopAndDrop
<1>9. CASE Tick \/ NetworkStep
  BY <1>1, <1>9 DEF Tick, NetworkStep, Transmit, ForeignPublish, Answer, StrayAnswer,
                    Receive, callVars
<1>10. CASE LifeStep
  BY <1>1, <1>10 DEF LifeStep, CloseStream, DropHandle, Crash, callVars
<1>11. CASE UNCHANGED vars
  BY <1>1, <1>11 DEF vars, callVars
<1>. QED
  BY <1>3, <1>4, <1>5, <1>6, <1>7, <1>8, <1>9, <1>10, <1>11 DEF Next, DriverStep

\* The driver takes the next number with the next request, and keeps both
\* until it has inserted the waiter; nothing else moves the counter, save a
\* restart.
LEMMA DriverOrigin ==
    ASSUME TypeOK, [Next]_vars
    PROVE  \/ /\ nextId' = nextId
              /\ driver'.at \in {"publish", "insert"} =>
                    /\ driver.at \in {"publish", "insert"}
                    /\ driver'.call = driver.call /\ driver'.id = driver.id
           \/ nextId' = nextId + 1 /\ driver'.id = nextId
           \/ Crash
<1>. DEFINE Kept == /\ nextId' = nextId
                    /\ driver'.at \in {"publish", "insert"} =>
                          /\ driver.at \in {"publish", "insert"}
                          /\ driver'.call = driver.call /\ driver'.id = driver.id
<1>0. driver \in [at : {"select", "publish", "insert", "stopped"},
                  call : Calls \cup {NoCall}, id : Nat]
  BY DEF TypeOK
<1>1. ASSUME UNCHANGED <<driver, nextId>> PROVE Kept
  BY <1>1
<1>2. ASSUME NEW c \in Calls, CallerStep(c) PROVE Kept
  BY <1>1, <1>2 DEF CallerStep, Call, Enqueue, EnqueueWhen, SendFails, Cancel, driverVars
<1>3. CASE TakeRequest
  BY <1>3 DEF TakeRequest, TakeRequestAndSet
<1>4. CASE Publish
  BY <1>0, <1>4 DEF Publish
<1>5. CASE InsertWaiter \/ Stop
  BY <1>5 DEF InsertWaiter, InsertWaiterAt, Stop, StopAndDrop, Idle
<1>6. CASE TakeResponse \/ Cleanup
  BY <1>1, <1>6 DEF TakeResponse, TakeResponseFor, Cleanup, DropWaiters
<1>7. CASE Tick \/ NetworkStep
  BY <1>1, <1>7 DEF Tick, NetworkStep, Transmit, ForeignPublish, Answer, StrayAnswer,
                    Receive, driverVars
<1>8. CASE CloseStream \/ DropHandle
  BY <1>1, <1>8 DEF CloseStream, DropHandle, driverVars
<1>9. CASE UNCHANGED vars
  BY <1>1, <1>9 DEF vars, driverVars
<1>. QED
  BY <1>2, <1>3, <1>4, <1>5, <1>6, <1>7, <1>8, <1>9 DEF Next, DriverStep, LifeStep

-----------------------------------------------------------------------------

\* Whatever carries a call and a kit carries the kit the call addresses.
KitKept ==
    /\ \A i \in DOMAIN outbox : outbox[i] \notin Foreign
          => outbox[i].kit = KitOf[outbox[i].call]
    /\ \A q \in delivered : q.kit = KitOf[q.call]
    /\ \A i \in DOMAIN responses : responses[i].call # NoCall
          => responses[i].kit = KitOf[responses[i].call]
    /\ \A k \in DOMAIN waiters : k[1] = KitOf[waiters[k]]

LEMMA KitAlways == Spec => [](KitKept /\ AnsweredByOwnKit)
<1>1. Init => KitKept /\ AnsweredByOwnKit
  BY DEF Init, KitKept, AnsweredByOwnKit, Answered
<1>2. TypeOK /\ KitKept /\ AnsweredByOwnKit /\ [Next]_vars => KitKept' /\ AnsweredByOwnKit'
  <2>. SUFFICES ASSUME TypeOK, KitKept, AnsweredByOwnKit, [Next]_vars
                PROVE  KitKept' /\ AnsweredByOwnKit'
    OBVIOUS
  <2>1. ASSUME NEW i \in DOMAIN outbox', outbox'[i] \notin Foreign
        PROVE  outbox'[i].kit = KitOf[outbox'[i].call]
    BY <2>1, OutboxOrigin DEF KitKept
  <2>2. ASSUME NEW q \in delivered' PROVE q.kit = KitOf[q.call]
    BY DeliveredOrigin DEF KitKept
  <2>3. ASSUME NEW i \in DOMAIN responses', responses'[i].call # NoCall
        PROVE  responses'[i].kit = KitOf[responses'[i].call]
    BY <2>3, ResponseOrigin DEF KitKept
  <2>4. ASSUME NEW k \in DOMAIN waiters' PROVE k[1] = KitOf[waiters'[k]]
    BY WaiterOrigin DEF KitKept
  <2>5. ASSUME NEW c \in Calls
        PROVE  /\ Answered(c)' => answerer'[c] = KitOf[c]
               /\ source'[c] # NoCall => KitOf[source'[c]] = KitOf[c]
    <3>1. CASE /\ source'[c] = source[c] /\ answerer'[c] = answerer[c]
               /\ outcome'[c] \in {outcome[c], "TimedOut"}
      BY <3>1 DEF AnsweredByOwnKit, Answered
    <3>2. ASSUME NEW j \in DOMAIN responses,
                 <<responses[j].kit, responses[j].id>> \in DOMAIN waiters,
                 waiters[<<responses[j].kit, responses[j].id>>] = c,
                 source'[c] = responses[j].call, answerer'[c] = responses[j].kit
          PROVE  /\ answerer'[c] = KitOf[c]
                 /\ source'[c] # NoCall => KitOf[source'[c]] = KitOf[c]
      <4>1. responses[j].kit = KitOf[c]
        BY <3>2 DEF KitKept
      <4>. QED
        BY <3>2, <4>1 DEF KitKept
    <3>. QED
      BY <3>1, <3>2, AnswerOrigin
  <2>6. KitKept'
    BY <2>1, <2>2, <2>3, <2>4 DEF KitKept
  <2>7. AnsweredByOwnKit'
    BY <2>5 DEF AnsweredByOwnKit
  <2>. QED
    BY <2>6, <2>7
<1>. QED
  BY <1>1, <1>2, Typing, PTL DEF Spec

\* A caller is never given what another kit said or what was meant for a call to
\* another kit, whatever numbers the kits put in responses nobody asked for and
\* however often the server restarts.  It holds
\* because everything between the caller and the kit keeps the call and the
\* kit together, and waiters are looked up by both kit and number.
THEOREM OwnKitAnswers == Spec => []AnsweredByOwnKit
  BY KitAlways, PTL

-----------------------------------------------------------------------------

\* The number i is in use for the call c: somewhere between the driver, the
\* network and the table of waiters it stands for that call.
Numbered(i, c) ==
    \/ driver.at \in {"publish", "insert"} /\ driver.id = i /\ driver.call = c
    \/ \E j \in DOMAIN outbox : /\ outbox[j] \notin Foreign
                                /\ outbox[j].id = i /\ outbox[j].call = c
    \/ \E q \in delivered : q.id = i /\ q.call = c
    \/ \E j \in DOMAIN responses : responses[j].id = i /\ responses[j].call = c
    \/ \E k \in DOMAIN waiters : k[2] = i /\ waiters[k] = c

\* Until a restart, a number stands for one call and was handed out before now,
\* and a response that is not for a call uses a stray number.
NumbersUnique == crashes = 0 =>
    /\ \A i : \A c \in Calls : Numbered(i, c) => i \in Nat /\ i < nextId
    /\ \A i : \A c, d \in Calls : Numbered(i, c) /\ Numbered(i, d) => c = d
    /\ \A j \in DOMAIN responses : responses[j].call = NoCall => StrayIds # {}

\* A server that has not been restarted after a step was not before it.
LEMMA NotRestarted ==
    ASSUME TypeOK, [Next]_vars, crashes' = 0
    PROVE  crashes = 0 /\ ~Crash
<1>1. crashes \in Nat
  BY CapsAssumption DEF TypeOK
<1>2. ~Crash
  BY <1>1 DEF Crash
<1>3. ASSUME UNCHANGED lifeVars PROVE crashes' = crashes
  BY <1>3 DEF lifeVars
<1>4. ASSUME NEW c \in Calls, CallerStep(c) PROVE crashes' = crashes
  BY <1>3, <1>4 DEF CallerStep, Call, Enqueue, EnqueueWhen, SendFails, Cancel
<1>5. ASSUME DriverStep \/ Tick \/ NetworkStep PROVE crashes' = crashes
  BY <1>3, <1>5 DEF DriverStep, TakeRequest, TakeRequestAndSet, Publish,
                    InsertWaiter, InsertWaiterAt, TakeResponse, TakeResponseFor,
                    Cleanup, DropWaiters, Stop, StopAndDrop, Tick, NetworkStep,
                    Transmit, ForeignPublish, Answer, StrayAnswer, Receive
<1>6. ASSUME CloseStream \/ DropHandle PROVE crashes' = crashes
  BY <1>6 DEF CloseStream, DropHandle
<1>7. ASSUME UNCHANGED vars PROVE crashes' = crashes
  BY <1>3, <1>7 DEF vars
<1>. QED
  BY <1>2, <1>4, <1>5, <1>6, <1>7 DEF Next, LifeStep

\* Unless the server restarts, a number comes to stand for a call only when the
\* driver takes it from the counter.
LEMMA NumberedOrigin ==
    ASSUME TypeOK, [Next]_vars, ~Crash, NEW i, NEW c \in Calls, Numbered(i, c)'
    PROVE  \/ Numbered(i, c)
           \/ i = nextId /\ c = driver'.call /\ nextId' = nextId + 1
<1>1. CASE driver'.at \in {"publish", "insert"} /\ driver'.id = i /\ driver'.call = c
  BY <1>1, DriverOrigin DEF Numbered
<1>2. ASSUME NEW j \in DOMAIN outbox', outbox'[j] \notin Foreign,
             outbox'[j].id = i, outbox'[j].call = c
      PROVE  Numbered(i, c)
  BY <1>2, OutboxOrigin DEF Numbered
<1>3. ASSUME NEW q \in delivered', q.id = i, q.call = c PROVE Numbered(i, c)
  BY <1>3, DeliveredOrigin DEF Numbered
<1>4. ASSUME NEW j \in DOMAIN responses', responses'[j].id = i, responses'[j].call = c
      PROVE  Numbered(i, c)
  BY <1>4, ResponseOrigin, CallsAssumption DEF Numbered
<1>5. ASSUME NEW k \in DOMAIN waiters', k[2] = i, waiters'[k] = c PROVE Numbered(i, c)
  BY <1>5, WaiterOrigin DEF Numbered
<1>. QED
  BY <1>1, <1>2, <1>3, <1>4, <1>5 DEF Numbered

\* Until the server restarts, a caller is answered only with the response to
\* its own request or one that its kit made up: late, repeated and reordered
\* responses never cross two calls.  The numbers make it hold: one stands for
\* a single call wherever it is, because the driver takes a number once and
\* advances the counter before it waits.
THEOREM AnswersMatch == Spec => []AnswerMatchesRequest
<1>1. Init => NumbersUnique /\ AnswerMatchesRequest
  BY DEF Init, Idle, NumbersUnique, Numbered, AnswerMatchesRequest, Answered
<1>2. TypeOK /\ NumbersUnique /\ AnswerMatchesRequest /\ [Next]_vars
         => NumbersUnique' /\ AnswerMatchesRequest'
  <2>. SUFFICES ASSUME TypeOK, NumbersUnique, AnswerMatchesRequest, [Next]_vars, crashes' = 0
                PROVE  NumbersUnique' /\ AnswerMatchesRequest'
    BY DEF NumbersUnique, AnswerMatchesRequest
  <2>. crashes = 0 /\ ~Crash
    BY NotRestarted
  <2>0. nextId \in Nat /\ (nextId' = nextId \/ nextId' = nextId + 1)
    BY DriverOrigin DEF TypeOK
  <2>1. ASSUME NEW i, NEW c \in Calls, Numbered(i, c)' PROVE i \in Nat /\ i < nextId'
    <3>1. CASE Numbered(i, c)
      <4>1. i < nextId /\ i \in Nat
        BY <3>1 DEF NumbersUnique
      <4>. QED
        BY <2>0, <4>1
    <3>2. CASE i = nextId /\ nextId' = nextId + 1
      BY <2>0, <3>2
    <3>. QED
      BY <2>1, <3>1, <3>2, NumberedOrigin
  <2>2. ASSUME NEW i, NEW c \in Calls, NEW d \in Calls, Numbered(i, c)', Numbered(i, d)'
        PROVE  c = d
    <3>1. Numbered(i, c) \/ (i = nextId /\ c = driver'.call)
      BY <2>2, NumberedOrigin
    <3>2. Numbered(i, d) \/ (i = nextId /\ d = driver'.call)
      BY <2>2, NumberedOrigin
    <3>3. \A e \in Calls : ~Numbered(nextId, e)
      BY <2>0 DEF NumbersUnique
    <3>. QED
      BY <3>1, <3>2, <3>3 DEF NumbersUnique
  <2>3. ASSUME NEW j \in DOMAIN responses', responses'[j].call = NoCall PROVE StrayIds # {}
    <3>1. \A q \in delivered : q.call # NoCall
      BY CallsAssumption DEF TypeOK, Request
    <3>. QED
      BY <2>3, <3>1, ResponseOrigin DEF NumbersUnique
  <2>4. ASSUME NEW c \in Calls, Answered(c)'
        PROVE  source'[c] = c \/ (source'[c] = NoCall /\ StrayIds # {})
    <3>1. CASE source'[c] = source[c] /\ outcome'[c] \in {outcome[c], "TimedOut"}
      BY <2>4, <3>1 DEF AnswerMatchesRequest, Answered
    <3>2. ASSUME NEW j \in DOMAIN responses,
                 <<responses[j].kit, responses[j].id>> \in DOMAIN waiters,
                 waiters[<<responses[j].kit, responses[j].id>>] = c,
                 source'[c] = responses[j].call
          PROVE  source'[c] = c \/ (source'[c] = NoCall /\ StrayIds # {})
      <4>. DEFINE i == responses[j].id
      <4>1. Numbered(i, c)
        BY <3>2 DEF Numbered
      <4>2. CASE responses[j].call = NoCall
        BY <3>2, <4>2 DEF NumbersUnique
      <4>3. CASE responses[j].call \in Calls
        <5>1. Numbered(i, responses[j].call)
          BY DEF Numbered
        <5>. QED
          BY <3>2, <4>1, <4>3, <5>1 DEF NumbersUnique
      <4>4. responses[j].call \in Calls \cup {NoCall}
        <5>1. responses \in Seq(Response)
          BY DEF TypeOK
        <5>2. responses[j] \in Response
          BY <3>2, <5>1
        <5>. QED
          BY <5>2 DEF Response
      <4>. QED
        BY <4>2, <4>3, <4>4
    <3>. QED
      BY <3>1, <3>2, AnswerOrigin
  <2>5. NumbersUnique'
    BY <2>1, <2>2, <2>3 DEF NumbersUnique
  <2>6. AnswerMatchesRequest'
    BY <2>4 DEF AnswerMatchesRequest
  <2>. QED
    BY <2>5, <2>6
<1>. QED
  BY <1>1, <1>2, Typing, PTL DEF Spec

-----------------------------------------------------------------------------

(* Where a call that waits is, from the request channel to the table.        *)

InQueue(c) == \E i \in DOMAIN requests : requests[i] = c
Busy(c) == driver.at \in {"publish", "insert"} /\ driver.call = c
WaitsAt(c, i) == <<KitOf[c], i>> \in DOMAIN waiters /\ waiters[<<KitOf[c], i>>] = c

\* A waiter stays in the table until its caller is woken.
LEMMA WaiterKept ==
    ASSUME TypeOK, [Next]_vars, NEW k \in DOMAIN waiters
    PROVE  \/ k \in DOMAIN waiters' /\ waiters'[k] = waiters[k]
           \/ pc'[waiters[k]] # "waiting"
<1>. DEFINE Goal == \/ k \in DOMAIN waiters' /\ waiters'[k] = waiters[k]
                    \/ pc'[waiters[k]] # "waiting"
<1>0. waiters[k] \in Calls
  BY DEF TypeOK
<1>1. ASSUME UNCHANGED waiters PROVE Goal
  BY <1>1
<1>2. ASSUME NEW S, TimeOut(S), waiters[k] \in S PROVE Goal
  BY <1>0, <1>2 DEF TimeOut
<1>3. ASSUME NEW c \in Calls, CallerStep(c) PROVE Goal
  BY <1>1, <1>3 DEF CallerStep, Call, Enqueue, EnqueueWhen, SendFails, Cancel, driverVars
<1>4. CASE TakeRequest \/ Publish
  BY <1>1, <1>4 DEF TakeRequest, TakeRequestAndSet, Publish
<1>5. CASE InsertWaiter
  <2>. DEFINE key == <<KitOf[driver.call], driver.id>>
  <2>1. CASE k = key
    BY <1>2, <1>5, <2>1 DEF InsertWaiter, InsertWaiterAt
  <2>2. CASE k # key
    BY <1>5, <2>2 DEF InsertWaiter, InsertWaiterAt
  <2>. QED
    BY <2>1, <2>2
<1>6. CASE TakeResponse
  <2>. DEFINE key == <<Head(responses).kit, Head(responses).id>>
  <2>1. CASE k = key
    BY <1>0, <1>6, <2>1 DEF TakeResponse, TakeResponseFor, TypeOK
  <2>2. CASE k # key
    BY <1>6, <2>2 DEF TakeResponse, TakeResponseFor
  <2>. QED
    BY <2>1, <2>2
<1>7. CASE Cleanup
  <2>. DEFINE old == {x \in DOMAIN waiters : Expired(x)}
  <2>1. waiters' = [x \in DOMAIN waiters \ old |-> waiters[x]] /\ TimeOut({waiters[x] : x \in old})
    BY <1>7 DEF Cleanup, DropWaiters
  <2>. HIDE DEF old
  <2>. QED
    BY <1>2, <2>1
<1>8. CASE Stop
  BY <1>2, <1>8 DEF Stop, StopAndDrop
<1>9. CASE Crash
  BY <1>0, <1>9 DEF Crash
<1>10. CASE Tick \/ NetworkStep
  BY <1>1, <1>10 DEF Tick, NetworkStep, Transmit, ForeignPublish, Answer, StrayAnswer,
                     Receive, driverVars
<1>11. CASE CloseStream \/ DropHandle
  BY <1>1, <1>11 DEF CloseStream, DropHandle, driverVars
<1>12. CASE UNCHANGED vars
  BY <1>1, <1>12 DEF vars, driverVars
<1>. QED
  BY <1>3, <1>4, <1>5, <1>6, <1>7, <1>8, <1>9, <1>10, <1>11, <1>12
     DEF Next, DriverStep, LifeStep

\* A call at hand stays there until it is in the table, unless the server dies.
LEMMA BusyKept ==
    ASSUME TypeOK, [Next]_vars, NEW c \in Calls, Busy(c), NEW i, driver.id = i
    PROVE  \/ Busy(c)' /\ driver'.id = i
           \/ WaitsAt(c, i)'
           \/ pc'[c] # "waiting"
<1>. DEFINE Goal == \/ Busy(c)' /\ driver'.id = i
                    \/ WaitsAt(c, i)'
                    \/ pc'[c] # "waiting"
<1>1. ASSUME UNCHANGED driver PROVE Goal
  BY <1>1 DEF Busy
<1>2. ASSUME NEW d \in Calls, CallerStep(d) PROVE Goal
  BY <1>1, <1>2 DEF CallerStep, Call, Enqueue, EnqueueWhen, SendFails, Cancel, driverVars
<1>3. driver.at # "select"
  BY DEF Busy
<1>4. CASE Publish
  BY <1>4 DEF Publish, Busy, TypeOK
<1>5. CASE InsertWaiter
  <2>1. c = driver.call
    BY DEF Busy
  <2>2. waiters' = [k \in DOMAIN waiters \cup {<<KitOf[c], i>>} |->
                       IF k = <<KitOf[c], i>> THEN c ELSE waiters[k]]
    BY <1>5, <2>1 DEF InsertWaiter, InsertWaiterAt
  <2>. QED
    BY <2>2 DEF WaitsAt
<1>6. CASE TakeRequest \/ TakeResponse \/ Cleanup \/ Stop
  BY <1>3, <1>6 DEF TakeRequest, TakeRequestAndSet, TakeResponse, TakeResponseFor,
                    Cleanup, DropWaiters, Stop, StopAndDrop
<1>7. CASE Crash
  BY <1>7 DEF Crash
<1>8. CASE Tick \/ NetworkStep
  BY <1>1, <1>8 DEF Tick, NetworkStep, Transmit, ForeignPublish, Answer, StrayAnswer,
                    Receive, driverVars
<1>9. CASE CloseStream \/ DropHandle
  BY <1>1, <1>9 DEF CloseStream, DropHandle, driverVars
<1>10. CASE UNCHANGED vars
  BY <1>1, <1>10 DEF vars, driverVars
<1>. QED
  BY <1>2, <1>4, <1>5, <1>6, <1>7, <1>8, <1>9, <1>10 DEF Next, DriverStep, LifeStep

\* What is in a sequence is its head or in its tail.
LEMMA InTail ==
    ASSUME NEW T, NEW s \in Seq(T), NEW i \in DOMAIN s, i # 1
    PROVE  s # <<>> /\ i - 1 \in DOMAIN Tail(s) /\ Tail(s)[i - 1] = s[i]
  OBVIOUS

\* What Append makes still holds the sequence.
LEMMA AppendKeeps ==
    ASSUME NEW T, NEW s \in Seq(T), NEW e
    PROVE  /\ \A i \in DOMAIN s : i \in DOMAIN Append(s, e) /\ Append(s, e)[i] = s[i]
           /\ Len(s) + 1 \in DOMAIN Append(s, e) /\ Append(s, e)[Len(s) + 1] = e
  OBVIOUS

\* How a step changes the request channel.
LEMMA QueueSteps ==
    ASSUME TypeOK, [Next]_vars
    PROVE  \/ UNCHANGED requests
           \/ requests' = <<>> /\ \A c \in Calls : InQueue(c) => pc'[c] # "waiting"
           \/ TakeRequest
           \/ \E c \in Calls : Enqueue(c)
<1>. DEFINE Goal == \/ UNCHANGED requests
                    \/ requests' = <<>> /\ \A c \in Calls : InQueue(c) => pc'[c] # "waiting"
                    \/ TakeRequest
                    \/ \E c \in Calls : Enqueue(c)
<1>1. ASSUME NEW c \in Calls, CallerStep(c) PROVE Goal
  BY <1>1 DEF CallerStep, Call, SendFails, Cancel, channelVars
<1>2. CASE Publish \/ InsertWaiter \/ TakeResponse \/ Cleanup
  BY <1>2 DEF Publish, InsertWaiter, InsertWaiterAt, TakeResponse, TakeResponseFor,
              Cleanup, DropWaiters, channelVars
<1>3. CASE Stop
  <2>1. ASSUME NEW c \in Calls, InQueue(c) PROVE pc'[c] # "waiting"
    BY <1>3, <2>1 DEF Stop, StopAndDrop, TimeOut, InQueue
  <2>. QED
    BY <1>3, <2>1 DEF Stop, StopAndDrop
<1>4. CASE Crash
  BY <1>4 DEF Crash
<1>5. CASE Tick \/ NetworkStep
  BY <1>5 DEF Tick, NetworkStep, Transmit, ForeignPublish, Answer, StrayAnswer,
              Receive, channelVars
<1>6. CASE CloseStream \/ DropHandle
  BY <1>6 DEF CloseStream, DropHandle, channelVars
<1>7. CASE UNCHANGED vars
  BY <1>7 DEF vars, channelVars
<1>. QED
  BY <1>1, <1>2, <1>3, <1>4, <1>5, <1>6, <1>7 DEF Next, DriverStep, LifeStep

\* A call in the channel stays there until the driver takes it.
LEMMA QueueKept ==
    ASSUME TypeOK, [Next]_vars, NEW c \in Calls, InQueue(c)
    PROVE  InQueue(c)' \/ Busy(c)' \/ pc'[c] # "waiting"
<1>0. requests \in Seq(Calls)
  BY DEF TypeOK
<1>1. PICK i \in DOMAIN requests : requests[i] = c
  BY DEF InQueue
<1>2. CASE TakeRequest
  <2>1. requests # <<>> /\ requests' = Tail(requests)
        /\ driver' = [at |-> "publish", call |-> Head(requests), id |-> nextId]
    BY <1>2 DEF TakeRequest, TakeRequestAndSet
  <2>2. CASE i = 1
    BY <1>0, <1>1, <2>1, <2>2 DEF Busy
  <2>3. CASE i # 1
    <3>1. i - 1 \in DOMAIN Tail(requests) /\ Tail(requests)[i - 1] = c
      BY <1>0, <1>1, <2>3, InTail
    <3>. QED
      BY <2>1, <3>1 DEF InQueue
  <2>. QED
    BY <2>2, <2>3
<1>3. ASSUME NEW d \in Calls, Enqueue(d) PROVE InQueue(c)'
  <2>1. requests' = Append(requests, d)
    BY <1>3 DEF Enqueue, EnqueueWhen
  <2>. QED
    BY <1>0, <1>1, <2>1, AppendKeeps DEF InQueue
<1>. QED
  BY <1>2, <1>3, QueueSteps DEF InQueue

\* A call that waits waited before, or has just entered the channel; one that
\* has not been sent was not before.
LEMMA WaitingOrigin ==
    ASSUME TypeOK, [Next]_vars, NEW c \in Calls
    PROVE  /\ pc'[c] = "waiting" => pc[c] = "waiting" \/ (Enqueue(c) /\ InQueue(c)')
           /\ pc'[c] \in {"idle", "sending"} => pc[c] \in {"idle", "sending"} /\ ~Enqueue(c)
<1>. DEFINE Goal == /\ pc'[c] = "waiting" => pc[c] = "waiting" \/ (Enqueue(c) /\ InQueue(c)')
                    /\ pc'[c] \in {"idle", "sending"} => pc[c] \in {"idle", "sending"}
<1>0. pc \in [Calls -> {"idle", "sending", "waiting", "resolved", "gone"}] /\ requests \in Seq(Calls)
  BY DEF TypeOK
<1>e. Enqueue(c) => pc'[c] = "waiting"
  BY <1>0 DEF Enqueue, EnqueueWhen
<1>s. SUFFICES Goal
  BY <1>e
<1>1. ASSUME pc'[c] \in {pc[c], "resolved", "gone"} PROVE Goal
  BY <1>1
<1>2. ASSUME NEW S, TimeOut(S) PROVE Goal
  BY <1>0, <1>1, <1>2 DEF TimeOut
<1>3. ASSUME NEW d \in Calls, CallerStep(d) PROVE Goal
  <2>1. CASE Enqueue(d)
    <3>1. requests' = Append(requests, d) /\ pc' = [pc EXCEPT ![d] = "waiting"]
      BY <2>1 DEF Enqueue, EnqueueWhen
    <3>2. CASE d = c
      BY <1>0, <2>1, <3>1, <3>2, AppendKeeps DEF InQueue
    <3>. QED
      BY <1>0, <3>1, <3>2
  <2>2. CASE Call(d)
    BY <1>0, <2>2 DEF Call
  <2>3. CASE SendFails(d) \/ Cancel(d)
    BY <1>0, <1>1, <2>3 DEF SendFails, Cancel
  <2>. QED
    BY <1>3, <2>1, <2>2, <2>3 DEF CallerStep
<1>4. CASE TakeRequest \/ Publish
  BY <1>1, <1>4 DEF TakeRequest, TakeRequestAndSet, Publish, callVars
<1>5. CASE InsertWaiter
  BY <1>2, <1>5 DEF InsertWaiter, InsertWaiterAt
<1>6. CASE TakeResponse
  BY <1>1, <1>6 DEF TakeResponse, TakeResponseFor
<1>7. CASE Cleanup
  BY <1>2, <1>7 DEF Cleanup, DropWaiters
<1>8. CASE Stop
  BY <1>2, <1>8 DEF Stop, StopAndDrop
<1>9. CASE Crash
  BY <1>1, <1>9 DEF Crash
<1>10. CASE Tick \/ NetworkStep
  BY <1>1, <1>10 DEF Tick, NetworkStep, Transmit, ForeignPublish, Answer, StrayAnswer,
                    Receive, callVars
<1>11. CASE CloseStream \/ DropHandle
  BY <1>1, <1>11 DEF CloseStream, DropHandle, callVars
<1>12. CASE UNCHANGED vars
  BY <1>1, <1>12 DEF vars, callVars
<1>. QED
  BY <1>3, <1>4, <1>5, <1>6, <1>7, <1>8, <1>9, <1>10, <1>11, <1>12 DEF Next, DriverStep, LifeStep

\* No caller waits for nothing: whatever step takes a call out of the channel,
\* the driver or the table hands it on to the next of these or wakes its
\* caller.
THEOREM NobodyIsLost == Spec => []NoLostCall
<1>. DEFINE Held(c) == InQueue(c) \/ Busy(c) \/ \E k \in DOMAIN waiters : waiters[k] = c
<1>1. Init => NoLostCall
  BY DEF Init, NoLostCall
<1>2. TypeOK /\ NoLostCall /\ [Next]_vars => NoLostCall'
  <2>. SUFFICES ASSUME TypeOK, NoLostCall, [Next]_vars, NEW c \in Calls, pc'[c] = "waiting"
                PROVE  Held(c)'
    BY DEF NoLostCall, InQueue, Busy
  <2>1. pc[c] = "waiting" \/ InQueue(c)'
    BY WaitingOrigin
  <2>2. CASE pc[c] = "waiting"
    <3>1. InQueue(c) \/ Busy(c) \/ \E k \in DOMAIN waiters : waiters[k] = c
      BY <2>2 DEF NoLostCall, InQueue, Busy
    <3>2. CASE InQueue(c)
      BY <3>2, QueueKept
    <3>3. CASE Busy(c)
      BY <3>3, BusyKept DEF WaitsAt
    <3>4. ASSUME NEW k \in DOMAIN waiters, waiters[k] = c PROVE Held(c)'
      BY <3>4, WaiterKept
    <3>. QED
      BY <3>1, <3>2, <3>3, <3>4
  <2>. QED
    BY <2>1, <2>2
<1>. QED
  BY <1>1, <1>2, Typing, PTL DEF Spec

-----------------------------------------------------------------------------

(* Where a response to a call that waits finds its waiter.                   *)

\* The number i is known outside the driver for the call c.
Mention(i, c) ==
    \/ \E j \in DOMAIN outbox : /\ outbox[j] \notin Foreign
                                /\ outbox[j].id = i /\ outbox[j].call = c
    \/ \E q \in delivered : q.id = i /\ q.call = c
    \/ \E j \in DOMAIN responses : responses[j].id = i /\ responses[j].call = c

\* The call c has not left the server yet.
Unsent(c) ==
    \/ pc[c] \in {"idle", "sending"}
    \/ InQueue(c)
    \/ driver.at = "publish" /\ driver.call = c

\* A call is in one place on its way to the network ...
Ahead ==
    /\ \A c \in Calls : pc[c] \in {"idle", "sending"} => ~InQueue(c) /\ ~Busy(c)
    /\ \A c \in Calls : InQueue(c) => ~Busy(c)
    /\ \A i, j \in DOMAIN requests : requests[i] = requests[j] => i = j

\* ... is unknown outside before it is published, and from then on its caller
\* waits with the driver or in the table.
Found ==
    /\ \A c \in Calls : Unsent(c) => \A i : ~Mention(i, c)
    /\ \A c \in Calls : \A i : Mention(i, c) /\ pc[c] = "waiting"
          => (Busy(c) /\ driver.id = i) \/ WaitsAt(c, i)

\* A call comes to the driver from the head of the request channel.
LEMMA BusyOrigin ==
    ASSUME TypeOK, [Next]_vars, NEW c \in Calls, Busy(c)'
    PROVE  \/ Busy(c) /\ (driver'.at = "publish" => driver.at = "publish")
           \/ TakeRequest /\ requests # <<>> /\ c = Head(requests)
<1>. DEFINE Goal == \/ Busy(c) /\ (driver'.at = "publish" => driver.at = "publish")
                    \/ TakeRequest /\ requests # <<>> /\ c = Head(requests)
<1>0. driver \in [at : {"select", "publish", "insert", "stopped"},
                  call : Calls \cup {NoCall}, id : Nat]
  BY DEF TypeOK
<1>1. ASSUME UNCHANGED driver PROVE Goal
  BY <1>1 DEF Busy
<1>2. ASSUME NEW d \in Calls, CallerStep(d) PROVE Goal
  BY <1>1, <1>2 DEF CallerStep, Call, Enqueue, EnqueueWhen, SendFails, Cancel, driverVars
<1>3. CASE TakeRequest
  BY <1>3 DEF TakeRequest, TakeRequestAndSet, Busy
<1>4. CASE Publish
  BY <1>0, <1>4 DEF Publish, Busy
<1>5. CASE InsertWaiter \/ Stop \/ Crash
  BY <1>5 DEF InsertWaiter, InsertWaiterAt, Stop, StopAndDrop, Crash, Idle, Busy
<1>6. CASE TakeResponse \/ Cleanup
  BY <1>1, <1>6 DEF TakeResponse, TakeResponseFor, Cleanup, DropWaiters
<1>7. CASE Tick \/ NetworkStep
  BY <1>1, <1>7 DEF Tick, NetworkStep, Transmit, ForeignPublish, Answer, StrayAnswer,
                    Receive, driverVars
<1>8. CASE CloseStream \/ DropHandle
  BY <1>1, <1>8 DEF CloseStream, DropHandle, driverVars
<1>9. CASE UNCHANGED vars
  BY <1>1, <1>9 DEF vars, driverVars
<1>. QED
  BY <1>2, <1>3, <1>4, <1>5, <1>6, <1>7, <1>8, <1>9 DEF Next, DriverStep, LifeStep

\* A call enters the request channel once, and leaves it at the head.
LEMMA QueueOrigin ==
    ASSUME TypeOK, Ahead, [Next]_vars
    PROVE  /\ \A c \in Calls : InQueue(c)' => InQueue(c) \/ Enqueue(c)
           /\ \A c \in Calls : TakeRequest /\ c = Head(requests) => ~InQueue(c)'
           /\ \A i, j \in DOMAIN requests' : requests'[i] = requests'[j] => i = j
<1>0. requests \in Seq(Calls)
  BY DEF TypeOK
<1>1. CASE TakeRequest
  <2>1. requests # <<>> /\ requests' = Tail(requests)
    BY <1>1 DEF TakeRequest, TakeRequestAndSet
  <2>2. \A i \in DOMAIN requests' : i + 1 \in DOMAIN requests /\ requests'[i] = requests[i + 1]
    BY <1>0, <2>1, HeadInDomain
  <2>3. Head(requests) = requests[1] /\ 1 \in DOMAIN requests
    BY <1>0, <2>1, HeadInDomain
  <2>4. DOMAIN requests' \subseteq Nat \ {0}
    BY <1>0, <2>1
  <2>5. ASSUME NEW i \in DOMAIN requests', NEW j \in DOMAIN requests', requests'[i] = requests'[j]
        PROVE  i = j
    <3>1. i + 1 = j + 1
      BY <2>2, <2>5 DEF Ahead
    <3>. QED
      BY <2>4, <3>1
  <2>6. ASSUME NEW i \in DOMAIN requests', requests'[i] = Head(requests) PROVE FALSE
    <3>1. i + 1 = 1
      BY <2>2, <2>3, <2>6 DEF Ahead
    <3>. QED
      BY <2>4, <3>1
  <2>7. \A c \in Calls : c = Head(requests) => ~InQueue(c)'
    BY <2>6 DEF InQueue
  <2>8. \A c \in Calls : InQueue(c)' => InQueue(c)
    BY <2>2 DEF InQueue
  <2>. QED
    BY <2>5, <2>7, <2>8
<1>2. ASSUME NEW d \in Calls, Enqueue(d)
      PROVE  /\ \A c \in Calls : InQueue(c)' => InQueue(c) \/ Enqueue(c)
             /\ \A i, j \in DOMAIN requests' : requests'[i] = requests'[j] => i = j
  <2>1. requests' = Append(requests, d) /\ pc[d] = "sending"
    BY <1>2 DEF Enqueue, EnqueueWhen
  <2>2. \A i \in DOMAIN requests' : \/ i \in DOMAIN requests /\ requests'[i] = requests[i]
                                    \/ i = Len(requests) + 1 /\ requests'[i] = d
    BY <1>0, <2>1, AppendInDomain
  <2>3. \A i \in DOMAIN requests : requests[i] # d
    BY <2>1 DEF Ahead, InQueue
  <2>4. \A c \in Calls : InQueue(c)' => InQueue(c) \/ Enqueue(c)
    BY <1>2, <2>2 DEF InQueue
  <2>5. ASSUME NEW i \in DOMAIN requests', NEW j \in DOMAIN requests', requests'[i] = requests'[j]
        PROVE  i = j
    BY <2>2, <2>3, <2>5 DEF Ahead
  <2>. QED
    BY <2>4, <2>5
<1>3. CASE requests' = <<>>
  BY <1>3 DEF InQueue, TakeRequest, TakeRequestAndSet
<1>4. CASE UNCHANGED requests /\ ~TakeRequest
  BY <1>4 DEF InQueue, Ahead
<1>5. ASSUME NEW d \in Calls, Enqueue(d) PROVE ~TakeRequest
  BY <1>5 DEF Enqueue, EnqueueWhen, TakeRequest, TakeRequestAndSet, driverVars
<1>. QED
  BY <1>1, <1>2, <1>3, <1>4, <1>5, QueueSteps

\* A call is in one place on its way to the network after every step.
LEMMA AheadStep == TypeOK /\ Ahead /\ [Next]_vars => Ahead'
<1>. SUFFICES ASSUME TypeOK, Ahead, [Next]_vars PROVE Ahead'
  OBVIOUS
<1>1. \A i, j \in DOMAIN requests' : requests'[i] = requests'[j] => i = j
  BY QueueOrigin
<1>2. ASSUME NEW c \in Calls, TakeRequest, requests # <<>>, c = Head(requests) PROVE InQueue(c)
  BY <1>2, HeadInDomain DEF TypeOK, InQueue
<1>3. ASSUME NEW c \in Calls, pc'[c] \in {"idle", "sending"} PROVE ~InQueue(c)' /\ ~Busy(c)'
  <2>1. pc[c] \in {"idle", "sending"} /\ ~Enqueue(c)
    BY <1>3, WaitingOrigin
  <2>2. ~InQueue(c) /\ ~Busy(c)
    BY <2>1 DEF Ahead
  <2>. QED
    BY <1>2, <2>1, <2>2, QueueOrigin, BusyOrigin
<1>4. ASSUME NEW c \in Calls, InQueue(c)', Busy(c)' PROVE FALSE
  <2>1. CASE Busy(c)
    <3>1. ~InQueue(c) /\ pc[c] \notin {"idle", "sending"}
      BY <2>1 DEF Ahead
    <3>2. Enqueue(c)
      BY <1>4, <3>1, QueueOrigin
    <3>. QED
      BY <3>1, <3>2 DEF Enqueue, EnqueueWhen
  <2>2. CASE TakeRequest /\ c = Head(requests)
    BY <1>4, <2>2, QueueOrigin
  <2>. QED
    BY <1>4, <2>1, <2>2, BusyOrigin
<1>. QED
  BY <1>1, <1>3, <1>4 DEF Ahead

\* A call that has not left the server had not before.
LEMMA UnsentOrigin ==
    ASSUME TypeOK, Ahead, [Next]_vars, NEW c \in Calls, Unsent(c)'
    PROVE  Unsent(c)
<1>1. CASE pc'[c] \in {"idle", "sending"}
  BY <1>1, WaitingOrigin DEF Unsent
<1>2. CASE InQueue(c)'
  BY <1>2, QueueOrigin DEF Unsent, Enqueue, EnqueueWhen
<1>3. CASE driver'.at = "publish" /\ driver'.call = c
  <2>1. Busy(c)'
    BY <1>3 DEF Busy
  <2>2. CASE Busy(c) /\ driver.at = "publish"
    BY <2>2 DEF Busy, Unsent
  <2>3. CASE TakeRequest /\ requests # <<>> /\ c = Head(requests)
    BY <2>3, HeadInDomain DEF TypeOK, InQueue, Unsent
  <2>. QED
    BY <1>3, <2>1, <2>2, <2>3, BusyOrigin
<1>. QED
  BY <1>1, <1>2, <1>3 DEF Unsent

\* A call becomes known outside when the driver publishes it.
LEMMA MentionOrigin ==
    ASSUME TypeOK, [Next]_vars, NEW i, NEW c \in Calls, Mention(i, c)'
    PROVE  \/ Mention(i, c)
           \/ Publish /\ driver.at = "publish" /\ driver.call = c /\ driver.id = i
<1>1. ASSUME NEW j \in DOMAIN outbox', outbox'[j] \notin Foreign,
             outbox'[j].id = i, outbox'[j].call = c
      PROVE  \/ Mention(i, c)
             \/ Publish /\ driver.at = "publish" /\ driver.call = c /\ driver.id = i
  BY <1>1, OutboxOrigin DEF Mention
<1>2. ASSUME NEW q \in delivered', q.id = i, q.call = c PROVE Mention(i, c)
  BY <1>2, DeliveredOrigin DEF Mention
<1>3. ASSUME NEW j \in DOMAIN responses', responses'[j].id = i, responses'[j].call = c
      PROVE  Mention(i, c)
  BY <1>3, ResponseOrigin, CallsAssumption DEF Mention
<1>. QED
  BY <1>1, <1>2, <1>3 DEF Mention

\* Publishing leaves the call with the driver, about to enter the table.
LEMMA Published ==
    ASSUME TypeOK, Ahead, Publish, NEW c \in Calls, driver.call = c
    PROVE  ~Unsent(c)' /\ Busy(c)' /\ driver'.id = driver.id
<1>1. /\ driver.at = "publish" /\ driver' = [driver EXCEPT !.at = "insert"]
      /\ UNCHANGED <<pc, requests>>
  BY DEF Publish, callVars
<1>2. driver'.at = "insert" /\ driver'.call = c /\ driver'.id = driver.id
  BY <1>1 DEF TypeOK
<1>3. Busy(c)
  BY <1>1 DEF Busy
<1>4. ~InQueue(c) /\ pc[c] \notin {"idle", "sending"}
  BY <1>3 DEF Ahead
<1>. QED
  BY <1>1, <1>2, <1>4 DEF Unsent, Busy, InQueue

\* Whoever is known outside and waits, waits with the driver or in the table.
LEMMA FoundStep == TypeOK /\ Ahead /\ Found /\ [Next]_vars => Found'
<1>. SUFFICES ASSUME TypeOK, Ahead, Found, [Next]_vars, NEW c \in Calls, NEW i, Mention(i, c)'
              PROVE  /\ ~Unsent(c)'
                     /\ pc'[c] = "waiting" =>
                          (Busy(c)' /\ driver'.id = i) \/ WaitsAt(c, i)'
  BY DEF Found
<1>1. CASE Publish /\ driver.call = c /\ driver.id = i
  BY <1>1, Published
<1>2. CASE Mention(i, c)
  <2>1. ~Unsent(c)
    BY <1>2 DEF Found
  <2>2. ~Unsent(c)'
    BY <2>1, UnsentOrigin
  <2>3. ASSUME pc'[c] = "waiting"
        PROVE  (Busy(c)' /\ driver'.id = i) \/ WaitsAt(c, i)'
    <3>1. pc[c] = "waiting"
      BY <2>1, <2>3, WaitingOrigin DEF Unsent, Enqueue, EnqueueWhen
    <3>2. CASE Busy(c) /\ driver.id = i
      BY <2>3, <3>2, BusyKept
    <3>3. CASE WaitsAt(c, i)
      BY <2>3, <3>3, WaiterKept DEF WaitsAt
    <3>. QED
      BY <1>2, <3>1, <3>2, <3>3 DEF Found
  <2>. QED
    BY <2>2, <2>3
<1>. QED
  BY <1>1, <1>2, MentionOrigin

LEMMA FoundAlways == Spec => [](Ahead /\ Found)
<1>1. Init => Ahead /\ Found
  BY DEF Init, Idle, Ahead, Found, InQueue, Busy, Mention
<1>. QED
  BY <1>1, AheadStep, FoundStep, Typing, PTL DEF Spec

\* A response that the driver is ready to look at finds the waiter of its call
\* if the caller still waits, although the request is published before the
\* waiter is inserted: nothing outside knows the call before it is published,
\* and the driver looks at no response between that and the insertion.
THEOREM AnswerFindsCaller == Spec => []ResponseFindsWaiter
<1>1. TypeOK /\ KitKept /\ Found => ResponseFindsWaiter
  <2>. SUFFICES ASSUME TypeOK, KitKept, Found, NEW j \in DOMAIN responses,
                       driver.at = "select", responses[j].call # NoCall,
                       pc[responses[j].call] = "waiting"
                PROVE  <<responses[j].kit, responses[j].id>> \in DOMAIN waiters
    BY DEF ResponseFindsWaiter
  <2>. DEFINE c == responses[j].call
              i == responses[j].id
  <2>1. c \in Calls
    <3>1. responses \in Seq(Response)
      BY DEF TypeOK
    <3>2. responses[j] \in Response
      BY <3>1
    <3>. QED
      BY <3>2 DEF Response
  <2>2. Mention(i, c)
    BY DEF Mention
  <2>3. WaitsAt(c, i)
    BY <2>1, <2>2 DEF Found, Busy
  <2>4. responses[j].kit = KitOf[c]
    BY DEF KitKept
  <2>. QED
    BY <2>3, <2>4 DEF WaitsAt
<1>. QED
  BY <1>1, FoundAlways, KitAlways, Typing, PTL

-----------------------------------------------------------------------------

(* Who is told that the call timed out.                                      *)

\* The number the driver holds, and those it will take, are under no key of
\* the table: a waiter that is inserted overwrites nobody.
NumberFree ==
    /\ \A k \in DOMAIN waiters : k[2] < nextId
    /\ driver.at \in {"publish", "insert"} =>
          driver.id < nextId /\ \A k \in DOMAIN waiters : k[2] # driver.id

LEMMA NumberFreeStep == TypeOK /\ NumberFree /\ [Next]_vars => NumberFree'
<1>. SUFFICES ASSUME TypeOK, NumberFree, [Next]_vars PROVE NumberFree'
  OBVIOUS
<1>1. CASE Crash
  BY <1>1 DEF Crash, Idle, NumberFree
<1>2. CASE ~Crash
  <2>1. nextId \in Nat /\ driver.id \in Nat /\ \A k \in DOMAIN waiters : k[2] \in Nat
    BY DEF TypeOK
  <2>2. nextId' \in {nextId, nextId + 1}
    BY <1>2, DriverOrigin
  <2>3. ASSUME NEW k \in DOMAIN waiters' PROVE k[2] < nextId /\ k[2] \in Nat
    BY <2>1, <2>3, WaiterOrigin DEF NumberFree
  <2>4. ASSUME driver'.at \in {"publish", "insert"}, NEW k \in DOMAIN waiters'
        PROVE  k[2] # driver'.id
    <3>1. CASE driver.at \in {"publish", "insert"} /\ driver'.id = driver.id
      <4>1. ~InsertWaiter
        BY <2>4 DEF InsertWaiter, InsertWaiterAt, Idle
      <4>. QED
        BY <3>1, <4>1, WaiterOrigin DEF NumberFree
    <3>2. CASE driver'.id = nextId
      BY <2>1, <2>3, <3>2
    <3>. QED
      BY <1>2, <2>4, <3>1, <3>2, DriverOrigin
  <2>5. driver'.at \in {"publish", "insert"} => driver'.id < nextId'
    BY <1>2, <2>1, DriverOrigin DEF NumberFree
  <2>. QED
    BY <2>1, <2>2, <2>3, <2>4, <2>5 DEF NumberFree
<1>. QED
  BY <1>1, <1>2

\* Only the callers whose sender is dropped are told so.
LEMMA ToldByTimeOut ==
    ASSUME NEW S, TimeOut(S), NEW c \in Calls, outcome'[c] # outcome[c]
    PROVE  c \in S
  BY DEF TimeOut

\* A step that tells a caller its call timed out finds its waiter as old as the
\* time-out, or leaves the driver stopped.
LEMMA TimeOutIsDue ==
    ASSUME TypeOK, NumberFree, [Next]_vars, NEW c \in Calls,
           outcome'[c] = "TimedOut", outcome[c] # "TimedOut"
    PROVE  age[c] >= Timeout \/ driver'.at = "stopped"
<1>. DEFINE Goal == age[c] >= Timeout \/ driver'.at = "stopped"
<1>0. outcome \in [Calls -> Outcomes]
  BY DEF TypeOK
<1>1. ASSUME UNCHANGED outcome PROVE FALSE
  BY <1>1
<1>2. ASSUME NEW d \in Calls, CallerStep(d) PROVE Goal
  BY <1>0, <1>2 DEF CallerStep, Call, Enqueue, EnqueueWhen, SendFails, Cancel, driverVars
<1>3. CASE TakeRequest \/ Publish
  BY <1>1, <1>3 DEF TakeRequest, TakeRequestAndSet, Publish, callVars
<1>4. CASE InsertWaiter
  <2>. DEFINE key == <<KitOf[driver.call], driver.id>>
  <2>1. driver.at = "insert" /\ TimeOut({waiters[k] : k \in DOMAIN waiters \cap {key}})
    BY <1>4 DEF InsertWaiter, InsertWaiterAt
  <2>2. key \notin DOMAIN waiters
    BY <2>1 DEF NumberFree
  <2>. QED
    BY <2>1, <2>2, ToldByTimeOut
<1>5. CASE TakeResponse
  <2>1. Head(responses) \in Response
    BY <1>5, HeadInDomain DEF TakeResponse, TypeOK
  <2>2. Head(responses).body \in {"Value", "OtherValue", "Error", "Malformed"}
    BY <2>1, CapsAssumption DEF Response
  <2>3. Verdict[Head(responses).body] # "TimedOut"
    BY <2>2 DEF Verdict
  <2>. QED
    BY <1>0, <1>5, <2>3 DEF TakeResponse, TakeResponseFor
<1>6. CASE Cleanup
  <2>1. TimeOut({waiters[k] : k \in {x \in DOMAIN waiters : Expired(x)}})
    BY <1>6 DEF Cleanup, DropWaiters
  <2>2. PICK k \in DOMAIN waiters : Expired(k) /\ waiters[k] = c
    BY <2>1, ToldByTimeOut
  <2>. QED
    BY <2>2 DEF Expired
<1>7. CASE Stop
  BY <1>7 DEF Stop, StopAndDrop, Idle
<1>8. CASE Tick \/ NetworkStep
  BY <1>1, <1>8 DEF Tick, NetworkStep, Transmit, ForeignPublish, Answer, StrayAnswer,
                    Receive, callVars
<1>9. CASE LifeStep
  BY <1>1, <1>9 DEF LifeStep, CloseStream, DropHandle, Crash, callVars
<1>10. CASE UNCHANGED vars
  BY <1>1, <1>10 DEF vars, callVars
<1>. QED
  BY <1>2, <1>3, <1>4, <1>5, <1>6, <1>7, <1>8, <1>9, <1>10 DEF Next, DriverStep

\* No call in progress is told early that it timed out: a number is taken once
\* and so never inserted over the waiter of another call, and what the cleanup
\* drops has lived the whole time-out.
THEOREM TimeOutsAreDue == Spec => NoPrematureTimeout
<1>1. Init => NumberFree
  BY DEF Init, Idle, NumberFree
<1>2. TypeOK /\ NumberFree /\ [Next]_vars =>
         [\A c \in Calls : outcome'[c] = "TimedOut" /\ outcome[c] # "TimedOut" =>
             age[c] >= Timeout \/ driver'.at = "stopped"]_vars
  BY TimeOutIsDue
<1>. QED
  BY <1>1, <1>2, NumberFreeStep, Typing, PTL DEF Spec, NoPrematureTimeout

-----------------------------------------------------------------------------

(* The driver implements RpcPromise.                                         *)

\* The state of RpcPromise that stands for the state of the driver.
Statuses == [c \in Calls |-> Status(c)]
Reached == {q.call : q \in delivered}
Restarted == crashes > 0

\* A call that has ended has a result, and a kit answers what has reached it
\* unless it makes numbers up.
Accounted ==
    /\ \A c \in Calls : pc[c] = "resolved" => outcome[c] # "None"
    /\ \A j \in DOMAIN responses : IF responses[j].call = NoCall
                                   THEN StrayIds # {}
                                   ELSE responses[j].call \in Reached

\* A call ends with a result.
LEMMA EndsWithResult ==
    ASSUME TypeOK, [Next]_vars, NEW c \in Calls, pc'[c] = "resolved"
    PROVE  \/ pc[c] = "resolved" /\ outcome'[c] = outcome[c]
           \/ outcome'[c] # "None"
<1>. DEFINE Goal == \/ pc[c] = "resolved" /\ outcome'[c] = outcome[c]
                    \/ outcome'[c] # "None"
<1>0. /\ pc \in [Calls -> {"idle", "sending", "waiting", "resolved", "gone"}]
      /\ outcome \in [Calls -> Outcomes]
  BY DEF TypeOK
<1>1. ASSUME UNCHANGED <<pc, outcome>> PROVE Goal
  BY <1>1
<1>2. ASSUME NEW S, TimeOut(S) PROVE Goal
  BY <1>2 DEF TimeOut
<1>3. ASSUME NEW d \in Calls, CallerStep(d) PROVE Goal
  BY <1>0, <1>3 DEF CallerStep, Call, Enqueue, EnqueueWhen, SendFails, Cancel
<1>4. CASE TakeRequest \/ Publish
  BY <1>1, <1>4 DEF TakeRequest, TakeRequestAndSet, Publish, callVars
<1>5. CASE InsertWaiter
  BY <1>2, <1>5 DEF InsertWaiter, InsertWaiterAt
<1>6. CASE TakeResponse
  <2>1. Head(responses) \in Response
    BY <1>6, HeadInDomain DEF TakeResponse, TypeOK
  <2>2. Head(responses).body \in {"Value", "OtherValue", "Error", "Malformed"}
    BY <2>1, CapsAssumption DEF Response
  <2>3. Verdict[Head(responses).body] # "None"
    BY <2>2 DEF Verdict
  <2>. QED
    BY <1>0, <1>6, <2>3 DEF TakeResponse, TakeResponseFor
<1>7. CASE Cleanup
  BY <1>2, <1>7 DEF Cleanup, DropWaiters
<1>8. CASE Stop
  BY <1>2, <1>8 DEF Stop, StopAndDrop
<1>9. CASE Tick \/ NetworkStep
  BY <1>1, <1>9 DEF Tick, NetworkStep, Transmit, ForeignPublish, Answer, StrayAnswer,
                    Receive, callVars
<1>10. CASE CloseStream \/ DropHandle
  BY <1>1, <1>10 DEF CloseStream, DropHandle, callVars
<1>11. CASE Crash
  BY <1>11 DEF Crash
<1>12. CASE UNCHANGED vars
  BY <1>1, <1>12 DEF vars, callVars
<1>. QED
  BY <1>3, <1>4, <1>5, <1>6, <1>7, <1>8, <1>9, <1>10, <1>11, <1>12
     DEF Next, DriverStep, LifeStep

\* What a kit has received it has received for good.
LEMMA DeliveredKept ==
    ASSUME [Next]_vars
    PROVE  delivered \subseteq delivered'
<1>1. CASE UNCHANGED delivered
  BY <1>1
<1>2. CASE Transmit
  BY <1>2 DEF Transmit
<1>3. ASSUME NEW c \in Calls, CallerStep(c) PROVE UNCHANGED delivered
  BY <1>3 DEF CallerStep, Call, Enqueue, EnqueueWhen, SendFails, Cancel
<1>4. ASSUME DriverStep PROVE UNCHANGED delivered
  BY <1>4 DEF DriverStep, TakeRequest, TakeRequestAndSet, Publish, InsertWaiter,
              InsertWaiterAt, TakeResponse, TakeResponseFor, Cleanup, DropWaiters,
              Stop, StopAndDrop
<1>5. ASSUME Tick \/ Answer \/ StrayAnswer PROVE UNCHANGED delivered
  BY <1>5 DEF Tick, Answer, StrayAnswer, Receive
<1>6. ASSUME NEW p \in Foreign, ForeignPublish(p) PROVE UNCHANGED delivered
  BY <1>6 DEF ForeignPublish
<1>7. ASSUME LifeStep PROVE UNCHANGED delivered
  BY <1>7 DEF LifeStep, CloseStream, DropHandle, Crash
<1>8. ASSUME UNCHANGED vars PROVE UNCHANGED delivered
  BY <1>8 DEF vars
<1>. QED
  BY <1>1, <1>2, <1>3, <1>4, <1>5, <1>6, <1>7, <1>8 DEF Next, NetworkStep

LEMMA AccountedStep == TypeOK /\ Accounted /\ [Next]_vars => Accounted'
<1>. SUFFICES ASSUME TypeOK, Accounted, [Next]_vars PROVE Accounted'
  OBVIOUS
<1>1. ASSUME NEW c \in Calls, pc'[c] = "resolved" PROVE outcome'[c] # "None"
  BY <1>1, EndsWithResult DEF Accounted
<1>2. Reached \subseteq Reached'
  BY DeliveredKept DEF Reached
<1>3. \A q \in delivered : q.call \in Reached /\ q.call # NoCall
  BY CallsAssumption DEF TypeOK, Request, Reached
<1>4. ASSUME NEW i \in DOMAIN responses'
      PROVE  IF responses'[i].call = NoCall THEN StrayIds # {}
                                            ELSE responses'[i].call \in Reached
  BY <1>3, <1>4, ResponseOrigin DEF Accounted
<1>. QED
  BY <1>1, <1>2, <1>4 DEF Accounted

LEMMA AccountedAlways == Spec => []Accounted
<1>1. Init => Accounted
  BY DEF Init, Accounted
<1>. QED
  BY <1>1, AccountedStep, Typing, PTL DEF Spec

\* What a call's status is, from what its caller is doing.
LEMMA StatusIs ==
    ASSUME TypeOK, Accounted, NEW c \in Calls
    PROVE  /\ Status(c) = "new" <=> pc[c] = "idle"
           /\ Status(c) = "pending" <=> pc[c] \in {"sending", "waiting"}
<1>1. pc[c] \in {"idle", "sending", "waiting", "resolved", "gone"}
  BY DEF TypeOK
<1>2. pc[c] = "resolved" => outcome[c] = "TimedOut" \/ Answered(c)
  BY DEF Accounted, Answered
<1>. QED
  BY <1>1, <1>2 DEF Status

\* A call whose caller sees its sender dropped has timed out.
LEMMA StatusTimedOut ==
    ASSUME NEW c, pc'[c] = "resolved", outcome'[c] = "TimedOut"
    PROVE  Status(c)' = "timedOut"
<1>1. pc'[c] # "idle" /\ pc'[c] \notin {"sending", "waiting"} /\ pc'[c] # "gone"
  OBVIOUS
<1>2. ~Answered(c)'
  BY DEF Answered
<1>. QED
  BY <1>1, <1>2 DEF Status

\* Where the caller is not disturbed its status stands.
LEMMA StatusKept ==
    ASSUME NEW c, pc'[c] = pc[c], outcome'[c] = outcome[c], source'[c] = source[c]
    PROVE  Status(c)' = Status(c)
  BY DEF Status, Answered

\* Where nobody's place, result or request changes, the promise sees no step.
LEMMA PromiseStutters ==
    ASSUME UNCHANGED <<callVars, delivered, crashes>>
    PROVE  UNCHANGED <<Statuses, Reached, Restarted>>
  BY DEF callVars, Statuses, Status, Answered, Reached, Restarted

\* Waking callers by dropping their senders gives up the calls that wait.
LEMMA TimeOutGivesUp ==
    ASSUME TypeOK, Accounted, NEW S, TimeOut(S), UNCHANGED <<delivered, crashes>>
    PROVE  Promise!Next
<1>. DEFINE woken == {c \in S : pc[c] = "waiting"}
            T == woken \cap Calls
<1>1. \A c \in T : Statuses[c] = "pending"
  BY StatusIs DEF Statuses
<1>2. T \in SUBSET Promise!Pending
  BY <1>1 DEF Promise!Pending, Statuses
<1>3. ASSUME NEW c \in Calls PROVE Status(c)' = IF c \in T THEN "timedOut" ELSE Status(c)
  <2>1. CASE c \in T
    <3>1. pc'[c] = "resolved" /\ outcome'[c] = "TimedOut"
      BY <2>1 DEF TimeOut
    <3>. QED
      BY <2>1, <3>1, StatusTimedOut
  <2>2. CASE c \notin T
    <3>1. pc'[c] = pc[c] /\ outcome'[c] = outcome[c] /\ source'[c] = source[c]
      BY <2>2 DEF TimeOut
    <3>. QED
      BY <2>2, <3>1, StatusKept
  <2>. QED
    BY <2>1, <2>2
<1>4. Statuses' = [c \in Calls |-> IF c \in T THEN "timedOut" ELSE Statuses[c]]
  BY <1>3 DEF Statuses
<1>. HIDE DEF T
<1>5. Promise!GiveUp(T)
  BY <1>4 DEF Promise!GiveUp, Promise!Become, Statuses
<1>. QED
  BY <1>2, <1>5 DEF Promise!Next

\* The steps of a caller.
LEMMA CallerKeepsPromise ==
    ASSUME TypeOK, Accounted, NEW c \in Calls, CallerStep(c)
    PROVE  Promise!Next \/ UNCHANGED <<Statuses, Reached, Restarted>>
<1>0. /\ pc \in [Calls -> {"idle", "sending", "waiting", "resolved", "gone"}]
      /\ outcome \in [Calls -> Outcomes]
      /\ UNCHANGED <<source, delivered, crashes>>
  BY DEF TypeOK, CallerStep, Call, Enqueue, EnqueueWhen, SendFails, Cancel, lifeVars
<1>1. ASSUME NEW s, Status(c)' = s, \A d \in Calls \ {c} : Status(d)' = Status(d)
      PROVE  Promise!Become({c}, s)
  BY <1>0, <1>1 DEF Promise!Become
<1>2. ASSUME NEW d \in Calls \ {c} PROVE Status(d)' = Status(d)
  <2>1. pc'[d] = pc[d] /\ outcome'[d] = outcome[d] /\ source'[d] = source[d]
    BY <1>0 DEF CallerStep, Call, Enqueue, EnqueueWhen, SendFails, Cancel
  <2>. QED
    BY <2>1, StatusKept
<1>3. CASE Call(c)
  <2>1. Status(c) = "new" /\ Status(c)' = "pending"
    BY <1>0, <1>3 DEF Call, Status
  <2>2. Promise!Begin(c)
    BY <1>1, <1>2, <2>1 DEF Promise!Begin
  <2>. QED
    BY <2>2 DEF Promise!Next
<1>4. CASE Enqueue(c)
  <2>1. Status(c)' = Status(c)
    BY <1>0, <1>4 DEF Enqueue, EnqueueWhen, Status
  <2>. QED
    BY <1>0, <1>2, <2>1 DEF Statuses, Reached, Restarted
<1>5. ASSUME pc[c] \in {"sending", "waiting"} PROVE {c} \in SUBSET Promise!Pending
  BY <1>5, StatusIs DEF Promise!Pending
<1>6. CASE SendFails(c)
  <2>1. pc'[c] = "resolved" /\ outcome'[c] = "TimedOut"
    BY <1>0, <1>6 DEF SendFails
  <2>2. Status(c)' = "timedOut"
    BY <2>1, StatusTimedOut
  <2>3. Promise!GiveUp({c})
    BY <1>1, <1>2, <2>2 DEF Promise!GiveUp
  <2>. QED
    BY <1>5, <1>6, <2>3 DEF SendFails, Promise!Next
<1>7. CASE Cancel(c)
  <2>1. Status(c)' = "abandoned"
    BY <1>0, <1>7 DEF Cancel, Status
  <2>2. Promise!Abandon({c})
    BY <1>1, <1>2, <2>1 DEF Promise!Abandon
  <2>. QED
    BY <1>5, <1>7, <2>2 DEF Cancel, Promise!Next
<1>. QED
  BY <1>3, <1>4, <1>6, <1>7 DEF CallerStep

\* Handing a response to its waiter answers the call, with a made-up response
\* if the kits make any, and with that of another call only after a restart.
LEMMA ResponseKeepsPromise ==
    ASSUME TypeOK, Accounted, TakeResponse, AnswerMatchesRequest'
    PROVE  Promise!Next \/ UNCHANGED <<Statuses, Reached, Restarted>>
<1>. DEFINE r == Head(responses)
            key == <<r.kit, r.id>>
            hit == key \in DOMAIN waiters /\ pc[waiters[key]] = "waiting"
<1>1. /\ responses # <<>>
      /\ pc' = [d \in Calls |-> IF hit /\ d = waiters[key] THEN "resolved" ELSE pc[d]]
      /\ outcome' = [d \in Calls |-> IF hit /\ d = waiters[key] THEN Verdict[r.body] ELSE outcome[d]]
      /\ source' = [d \in Calls |-> IF hit /\ d = waiters[key] THEN r.call ELSE source[d]]
      /\ UNCHANGED <<delivered, crashes>>
  BY DEF TakeResponse, TakeResponseFor, lifeVars
<1>2. r \in Response /\ 1 \in DOMAIN responses /\ r = responses[1]
  BY <1>1, HeadInDomain DEF TypeOK
<1>3. CASE ~hit
  <2>1. ASSUME NEW d \in Calls PROVE Status(d)' = Status(d)
    BY <1>1, <1>3, StatusKept
  <2>. QED
    BY <1>1, <2>1 DEF Statuses, Reached, Restarted
<1>4. CASE hit
  <2>. PICK c \in Calls : c = waiters[key]
    BY <1>4 DEF TypeOK
  <2>1. c \in Calls /\ Status(c) = "pending"
    BY <1>4, StatusIs
  <2>2. ASSUME NEW d \in Calls \ {c} PROVE Status(d)' = Status(d)
    BY <1>1, <2>2, StatusKept
  <2>3. ASSUME NEW s, Status(c)' = s PROVE Promise!Become({c}, s)
    BY <1>1, <2>2, <2>3 DEF Promise!Become
  <2>4. c \in Promise!Pending
    BY <2>1 DEF Promise!Pending
  <2>5. pc'[c] = "resolved" /\ outcome'[c] = Verdict[r.body] /\ source'[c] = r.call
    BY <1>1, <1>4, <2>1
  <2>6. r.body \in {"Value", "OtherValue", "Error", "Malformed"}
    BY <1>2, CapsAssumption DEF Response
  <2>7. Verdict[r.body] \notin {"None", "TimedOut"}
    BY <2>6 DEF Verdict
  <2>8. Answered(c)'
    BY <2>5, <2>7 DEF Answered
  <2>. HIDE DEF r
  <2>9. Status(c)' = IF r.call = c THEN "answered"
                     ELSE IF r.call = NoCall THEN "strayed" ELSE "crossed"
    <3>1. pc'[c] # "idle" /\ pc'[c] \notin {"sending", "waiting"} /\ pc'[c] # "gone"
      BY <2>5
    <3>2. outcome'[c] # "TimedOut"
      BY <2>5, <2>7
    <3>3. Status(c)' = CASE source'[c] = c -> "answered"
                         [] source'[c] = NoCall -> "strayed"
                         [] OTHER -> "crossed"
      BY <2>5, <2>8, <3>1, <3>2 DEF Status
    <3>. QED
      BY <2>1, <2>5, <3>3, CallsAssumption
  <2>10. CASE r.call = c
    <3>1. c \in Reached
      BY <1>2, <2>1, <2>10, CallsAssumption DEF Accounted
    <3>2. Promise!AnswerCall(c)
      BY <2>3, <2>4, <2>9, <2>10, <3>1 DEF Promise!AnswerCall, Reached
    <3>. QED
      BY <2>1, <3>2 DEF Promise!Next
  <2>11. CASE r.call = NoCall
    <3>1. Promise!Stray(c)
      BY <1>2, <2>1, <2>3, <2>4, <2>9, <2>11, CallsAssumption DEF Promise!Stray, Accounted
    <3>. QED
      BY <2>1, <3>1 DEF Promise!Next
  <2>12. CASE r.call # c /\ r.call # NoCall
    <3>1. crashes' # 0
      BY <2>1, <2>5, <2>8, <2>12 DEF AnswerMatchesRequest
    <3>2. crashes > 0
      BY <1>1, <3>1, CapsAssumption DEF TypeOK
    <3>3. Promise!Cross(c)
      BY <2>3, <2>4, <2>9, <2>12, <3>2 DEF Promise!Cross
    <3>. QED
      BY <2>1, <3>3 DEF Promise!Next
  <2>. QED
    BY <2>10, <2>11, <2>12
<1>. QED
  BY <1>3, <1>4

\* A request that reaches its kit is that of a call that was made.
LEMMA TransmitKeepsPromise ==
    ASSUME TypeOK, Found, Accounted, Transmit
    PROVE  Promise!Next \/ UNCHANGED <<Statuses, Reached, Restarted>>
<1>. PICK q : q = Head(outbox)
  OBVIOUS
<1>1. /\ outbox # <<>>
      /\ delivered' = IF q \in Foreign THEN delivered ELSE delivered \cup {q}
      /\ UNCHANGED <<callVars, crashes>>
  BY DEF Transmit, lifeVars
<1>2. CASE q \in Foreign
  BY <1>1, <1>2, PromiseStutters
<1>3. CASE q \notin Foreign
  <2>1. 1 \in DOMAIN outbox /\ q = outbox[1] /\ q \in Request
    BY <1>1, <1>3, HeadInDomain DEF TypeOK
  <2>2. q.call \in Calls
    BY <2>1 DEF Request
  <2>3. Mention(q.id, q.call)
    BY <1>3, <2>1 DEF Mention
  <2>4. pc[q.call] # "idle"
    BY <2>2, <2>3 DEF Found, Unsent
  <2>5. Status(q.call) # "new"
    BY <2>2, <2>4, StatusIs
  <2>6. Statuses' = Statuses
    BY <1>1 DEF Statuses, Status, Answered, callVars
  <2>7. Reached' = Reached \cup {q.call}
    BY <1>1, <1>3 DEF Reached
  <2>8. Promise!Reach(q.call)
    BY <1>1, <2>2, <2>5, <2>6, <2>7 DEF Promise!Reach, Statuses, Reached
  <2>. QED
    BY <2>2, <2>8 DEF Promise!Next
<1>. QED
  BY <1>2, <1>3

\* A crash is a restart: the calls in progress are abandoned, the rest stands.
LEMMA CrashKeepsPromise ==
    ASSUME TypeOK, Accounted, Crash
    PROVE  Promise!Restart
<1>1. /\ pc' = [c \in Calls |-> IF pc[c] \in {"sending", "waiting"} THEN "gone" ELSE pc[c]]
      /\ UNCHANGED <<outcome, source, delivered>> /\ crashes' = crashes + 1
  BY DEF Crash
<1>2. crashes' > 0
  BY <1>1, CapsAssumption DEF TypeOK
<1>3. ASSUME NEW c \in Calls
      PROVE  Status(c)' = IF Status(c) = "pending" THEN "abandoned" ELSE Status(c)
  <2>1. CASE pc[c] \in {"sending", "waiting"}
    <3>1. Status(c) = "pending"
      BY <2>1, StatusIs
    <3>2. pc'[c] = "gone"
      BY <1>1, <2>1
    <3>3. Status(c)' = "abandoned"
      BY <3>2 DEF Status
    <3>. QED
      BY <3>1, <3>3
  <2>2. CASE pc[c] \notin {"sending", "waiting"}
    <3>1. Status(c) # "pending"
      BY <2>2, StatusIs
    <3>2. Status(c)' = Status(c)
      BY <1>1, <2>2, StatusKept
    <3>. QED
      BY <3>1, <3>2
  <2>. QED
    BY <2>1, <2>2
<1>. QED
  BY <1>1, <1>2, <1>3 DEF Promise!Restart, Promise!Pending

\* Every step is a step of the promise, or one it does not see.
LEMMA StepKeepsPromise ==
    ASSUME TypeOK, Found, Accounted, AnswerMatchesRequest', [Next]_vars
    PROVE  Promise!Next \/ UNCHANGED <<Statuses, Reached, Restarted>>
<1>. DEFINE Goal == Promise!Next \/ UNCHANGED <<Statuses, Reached, Restarted>>
<1>1. ASSUME NEW c \in Calls, CallerStep(c) PROVE Goal
  BY <1>1, CallerKeepsPromise
<1>2. ASSUME NEW S, TimeOut(S), UNCHANGED <<delivered, crashes>> PROVE Goal
  BY <1>2, TimeOutGivesUp
<1>3. ASSUME UNCHANGED <<callVars, delivered, crashes>> PROVE Goal
  BY <1>3, PromiseStutters
<1>4. CASE TakeRequest \/ Publish \/ Tick
  BY <1>3, <1>4 DEF TakeRequest, TakeRequestAndSet, Publish, Tick, lifeVars
<1>5. CASE InsertWaiter
  BY <1>2, <1>5 DEF InsertWaiter, InsertWaiterAt, lifeVars
<1>6. CASE TakeResponse
  BY <1>6, ResponseKeepsPromise
<1>7. CASE Cleanup
  BY <1>2, <1>7 DEF Cleanup, DropWaiters, lifeVars
<1>8. CASE Stop
  BY <1>2, <1>8 DEF Stop, StopAndDrop, lifeVars
<1>9. CASE Transmit
  BY <1>9, TransmitKeepsPromise
<1>10. ASSUME NEW p \in Foreign, ForeignPublish(p) PROVE Goal
  BY <1>3, <1>10 DEF ForeignPublish, lifeVars
<1>11. CASE Answer \/ StrayAnswer
  BY <1>3, <1>11 DEF Answer, StrayAnswer, Receive, lifeVars
<1>12. CASE CloseStream \/ DropHandle
  BY <1>3, <1>12 DEF CloseStream, DropHandle
<1>13. CASE Crash
  BY <1>13, CrashKeepsPromise DEF Promise!Next
<1>14. CASE UNCHANGED vars
  BY <1>3, <1>14 DEF vars, lifeVars
<1>. QED
  BY <1>1, <1>4, <1>5, <1>6, <1>7, <1>8, <1>9, <1>10, <1>11, <1>12, <1>13, <1>14
     DEF Next, DriverStep, NetworkStep, LifeStep

\* The driver, its channels and its table implement the promise of RpcPromise:
\* a call ends at most once, and it is answered only when its own request has
\* reached the kit, save by a kit that answers what it was not asked or after
\* the server has restarted.
THEOREM DriverKeepsPromise == Spec => KeepsPromise
<1>1. Init => Promise!Init
  BY DEF Init, Promise!Init, Status
<1>2. TypeOK /\ Found /\ Accounted /\ AnswerMatchesRequest' /\ [Next]_vars
         => [Promise!Next]_<<Statuses, Reached, Restarted>>
  BY StepKeepsPromise
<1>. QED
  BY <1>1, <1>2, Typing, FoundAlways, AccountedAlways, AnswersMatch, PTL
     DEF Spec, KeepsPromise, Promise!Spec, Statuses, Reached, Restarted
=============================================================================
