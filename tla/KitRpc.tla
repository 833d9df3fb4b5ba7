------------------------------- MODULE KitRpc -------------------------------
(***************************************************************************)
(* Remote procedure calls from the server to a kit (astroplant-mqtt, file  *)
(* kit_rpc.rs).  A call creates a oneshot channel, hands a request to the  *)
(* driver task through a bounded channel and waits.  The driver numbers    *)
(* the request, publishes it through the MQTT client, and remembers the    *)
(* caller in a table of waiters; it hands every response to the waiter of  *)
(* the same kit and number, and drops the waiters that are too old, which  *)
(* their callers see as a time-out.                                        *)
(*                                                                         *)
(* The network is external: the MQTT client's queue is emptied at any      *)
(* time, and a kit answers a request it received late, several times, out  *)
(* of order or never.                                                      *)
(***************************************************************************)
EXTENDS Integers, Sequences, FiniteSets

CONSTANTS
    Calls,          \* calls made during the life of the system
    Kits,           \* kit serials
    KitOf,          \* the kit each call addresses
    RequestCap,     \* capacity of the request channel  (8 in the code)
    ResponseCap,    \* capacity of the response channel (8)
    OutboxCap,      \* capacity of the MQTT client's queue (32)
    Timeout,        \* age, in clock ticks, at which a waiter is dropped (30 s)
    Bodies,         \* bodies the kits' responses may have
    StrayIds,       \* request numbers a kit may use without having been asked
    MaxCalls,       \* bound: calls made
    MaxCrashes,     \* bound: crashes of the server process
    MaxForeign,     \* bound: packets of other publishers in the queue at once
    NoCall,         \* not a call
    Foreign         \* packets of the MQTT client other than kit RPC requests

ASSUME CallsAssumption == KitOf \in [Calls -> Kits] /\ NoCall \notin Calls
ASSUME CapsAssumption ==
    /\ {RequestCap, ResponseCap, OutboxCap, Timeout} \subseteq Nat \ {0}
    /\ {MaxCalls, MaxCrashes, MaxForeign} \subseteq Nat
    /\ StrayIds \subseteq Nat
    /\ Bodies \subseteq {"Value", "OtherValue", "Error", "Malformed"}

VARIABLES
    pc,          \* what each caller is doing
    outcome,     \* what the call returned
    source,      \* ghost: the call whose request the answer was made for
    answerer,    \* ghost: the kit on whose topic the answer came
    requests,    \* request channel: calls in order of arrival
    driver,      \* the driver task: where it stands and the call it publishes
    nextId,      \* Driver::next_id
    waiters,     \* Driver::waiters: <<kit, id>> to the waiting call
    age,         \* clock ticks since the call's waiter was inserted
    responses,   \* response channel
    outbox,      \* the MQTT client's queue of packets to send
    delivered,   \* requests that have reached their kit
    streamOpen,  \* the MQTT stream, and the response sender in it, is alive
    handleOpen,  \* some KitsRpc handle is alive
    crashes      \* crashes so far

callVars == <<pc, outcome, source, answerer>>
driverVars == <<driver, nextId, waiters, age>>
channelVars == <<requests, responses, outbox>>
lifeVars == <<streamOpen, handleOpen, crashes>>
vars == <<callVars, driverVars, channelVars, delivered, lifeVars>>

-----------------------------------------------------------------------------

Outcomes == {"None", "Ok", "InvalidResponse", "RpcError", "MalformedResponse",
             "TimedOut"}

\* What a caller makes of the body of a response.
Verdict == [Value |-> "Ok", OtherValue |-> "InvalidResponse",
            Error |-> "RpcError", Malformed |-> "MalformedResponse"]

Request == [kit : Kits, id : Nat, call : Calls]
Response == [kit : Kits, id : Nat, body : Bodies, call : Calls \cup {NoCall}]
ASSUME ForeignAssumption == Foreign \cap Request = {}

Idle == [at |-> "select", call |-> NoCall, id |-> 0]

Init ==
    /\ pc = [c \in Calls |-> "idle"]
    /\ outcome = [c \in Calls |-> "None"]
    /\ source = [c \in Calls |-> NoCall]
    /\ answerer = [c \in Calls |-> NoCall]
    /\ requests = <<>>
    /\ driver = Idle
    /\ nextId = 0
    /\ waiters = <<>>
    /\ age = [c \in Calls |-> 0]
    /\ responses = <<>>
    /\ outbox = <<>>
    /\ delivered = {}
    /\ streamOpen = TRUE
    /\ handleOpen = TRUE
    /\ crashes = 0

-----------------------------------------------------------------------------
(* The callers: KitsRpc::version, uptime, peripheral_command and           *)
(* peripheral_command_lock differ only in the body they ask for.           *)

\* The callers in S see their oneshot sender dropped.
TimeOut(S) ==
    LET woken == {c \in S : pc[c] = "waiting"} IN
    /\ pc' = [c \in Calls |-> IF c \in woken THEN "resolved" ELSE pc[c]]
    /\ outcome' = [c \in Calls |-> IF c \in woken THEN "TimedOut" ELSE outcome[c]]
    /\ UNCHANGED <<source, answerer>>

Call(c) ==
    /\ pc[c] = "idle"
    /\ handleOpen
    /\ Cardinality({d \in Calls : pc[d] # "idle"}) < MaxCalls
    /\ pc' = [pc EXCEPT ![c] = "sending"]
    /\ UNCHANGED <<outcome, source, answerer, driverVars, channelVars, delivered, lifeVars>>

EnqueueWhen(c, room) ==
    /\ pc[c] = "sending"
    /\ driver.at # "stopped"
    /\ room
    /\ requests' = Append(requests, c)
    /\ pc' = [pc EXCEPT ![c] = "waiting"]
    /\ UNCHANGED <<outcome, source, answerer, driverVars, responses, outbox, delivered, lifeVars>>

\* Mutant: an unbounded channel.
EnqueueUnbounded(c) == EnqueueWhen(c, TRUE)

\* request_tx.send().await, once the channel has room.
Enqueue(c) == EnqueueWhen(c, Len(requests) < RequestCap)

\* The driver is gone: the send fails, the oneshot sender goes with it.
SendFails(c) ==
    /\ pc[c] = "sending"
    /\ driver.at = "stopped"
    /\ pc' = [pc EXCEPT ![c] = "resolved"]
    /\ outcome' = [outcome EXCEPT ![c] = "TimedOut"]
    /\ UNCHANGED <<source, answerer, driverVars, channelVars, delivered, lifeVars>>

\* The future of the call is dropped, as when the HTTP client goes away.
Cancel(c) ==
    /\ pc[c] \in {"sending", "waiting"}
    /\ pc' = [pc EXCEPT ![c] = "gone"]
    /\ UNCHANGED <<outcome, source, answerer, driverVars, channelVars, delivered, lifeVars>>

-----------------------------------------------------------------------------
(* The driver: Driver::drive selects among its branches.                   *)

TakeRequestAndSet(next) ==
    /\ driver.at = "select"
    /\ requests # <<>>
    /\ driver' = [at |-> "publish", call |-> Head(requests), id |-> nextId]
    /\ nextId' = next
    /\ requests' = Tail(requests)
    /\ UNCHANGED <<callVars, waiters, age, responses, outbox, delivered, lifeVars>>

\* Mutant: the counter is never advanced.
TakeRequestSameId == TakeRequestAndSet(nextId)

\* First half of handle_request: the number is taken before the await.
TakeRequest == TakeRequestAndSet(nextId + 1)

\* publish().await: waits for room in the MQTT client's queue, and fails at
\* once when the event loop that reads it is gone; the error is ignored.
Publish ==
    LET request == [kit |-> KitOf[driver.call], id |-> driver.id, call |-> driver.call] IN
    /\ driver.at = "publish"
    /\ streamOpen => Len(outbox) < OutboxCap
    /\ outbox' = IF streamOpen THEN Append(outbox, request) ELSE outbox
    /\ driver' = [driver EXCEPT !.at = "insert"]
    /\ UNCHANGED <<callVars, nextId, waiters, age, requests, responses, delivered, lifeVars>>

\* A waiter under the same key would be overwritten, and its sender dropped.
InsertWaiterAt(key) ==
    LET c == driver.call IN
    /\ driver.at = "insert"
    /\ waiters' = [k \in DOMAIN waiters \cup {key} |->
                      IF k = key THEN c ELSE waiters[k]]
    /\ TimeOut({waiters[k] : k \in DOMAIN waiters \cap {key}})
    /\ age' = [age EXCEPT ![c] = 0]
    /\ driver' = Idle
    /\ UNCHANGED <<nextId, channelVars, delivered, lifeVars>>

\* Mutant: the key uses the counter as it stands after the await.
InsertWaiterAtNextId == InsertWaiterAt(<<KitOf[driver.call], nextId>>)

\* Second half of handle_request, with Instant::now() as the waiter's birth.
InsertWaiter == InsertWaiterAt(<<KitOf[driver.call], driver.id>>)

TakeResponseFor(key) ==
    LET r == Head(responses) IN
    /\ driver.at = "select"
    /\ responses # <<>>
    /\ responses' = Tail(responses)
    /\ waiters' = [k \in DOMAIN waiters \ {key} |-> waiters[k]]
    /\ LET answered == {c \in Calls : /\ key \in DOMAIN waiters
                                      /\ waiters[key] = c
                                      /\ pc[c] = "waiting"}
       IN /\ pc' = [c \in Calls |-> IF c \in answered THEN "resolved" ELSE pc[c]]
          /\ outcome' = [c \in Calls |-> IF c \in answered THEN Verdict[r.body]
                                                           ELSE outcome[c]]
          /\ source' = [c \in Calls |-> IF c \in answered THEN r.call
                                                          ELSE source[c]]
          /\ answerer' = [c \in Calls |-> IF c \in answered THEN r.kit
                                                            ELSE answerer[c]]
    /\ UNCHANGED <<driver, nextId, age, requests, outbox, delivered, lifeVars>>

\* Mutant: waiters are looked up by the number alone.
TakeResponseOfAnyKit ==
    responses # <<>> /\ \E k \in Kits : TakeResponseFor(<<k, Head(responses).id>>)

\* The response goes to the waiter of its kit and number, if there is one.
TakeResponse ==
    responses # <<>> /\ TakeResponseFor(<<Head(responses).kit, Head(responses).id>>)

DropWaiters(old) ==
    /\ driver.at = "select"
    /\ waiters' = [k \in DOMAIN waiters \ old |-> waiters[k]]
    /\ TimeOut({waiters[k] : k \in old})
    /\ UNCHANGED <<driver, nextId, age, channelVars, delivered, lifeVars>>

Expired(k) == age[waiters[k]] >= Timeout

\* Mutants: the test of retain is inverted; nothing is ever dropped; only
\* waiters whose caller is still there are dropped.
CleanupInverted == DropWaiters({k \in DOMAIN waiters : ~Expired(k)})
CleanupNever == DropWaiters({})
CleanupKeepsCancelled ==
    DropWaiters({k \in DOMAIN waiters : Expired(k) /\ pc[waiters[k]] = "waiting"})

\* Driver::cleanup, at a tick of the one-second interval.
Cleanup == DropWaiters({k \in DOMAIN waiters : Expired(k)})

StopAndDrop(dropped) ==
    /\ driver.at = "select"
    /\ \/ requests = <<>> /\ ~handleOpen
       \/ responses = <<>> /\ ~streamOpen
    /\ driver' = [Idle EXCEPT !.at = "stopped"]
    /\ TimeOut(dropped)
    /\ waiters' = <<>>
    /\ requests' = <<>>
    /\ responses' = <<>>
    /\ UNCHANGED <<nextId, age, outbox, delivered, lifeVars>>

\* Mutant: the requests left in the channel are forgotten.
StopForgetsRequests == StopAndDrop({waiters[k] : k \in DOMAIN waiters})

\* A channel is closed and empty: the loop ends and the driver is dropped
\* with everything it holds.
Stop == StopAndDrop({waiters[k] : k \in DOMAIN waiters}
                    \cup {requests[i] : i \in DOMAIN requests})

-----------------------------------------------------------------------------
(* The environment: the clock, the network, the end of the handles.        *)

Tick ==
    /\ \E k \in DOMAIN waiters : age[waiters[k]] < Timeout
    /\ age' = [c \in Calls |-> IF \E k \in DOMAIN waiters : waiters[k] = c
                                 THEN IF age[c] < Timeout THEN age[c] + 1 ELSE age[c]
                                 ELSE age[c]]
    /\ UNCHANGED <<callVars, driver, nextId, waiters, channelVars, delivered, lifeVars>>

\* A packet leaves the MQTT client's queue; a request reaches its kit.
Transmit ==
    /\ streamOpen
    /\ outbox # <<>>
    /\ outbox' = Tail(outbox)
    /\ delivered' = IF Head(outbox) \in Foreign THEN delivered
                                                ELSE delivered \cup {Head(outbox)}
    /\ UNCHANGED <<callVars, driverVars, requests, responses, lifeVars>>

\* Server RPC responses and subscriptions share the queue.
ForeignPublish(p) ==
    /\ streamOpen
    /\ Len(outbox) < OutboxCap
    /\ Cardinality({i \in DOMAIN outbox : outbox[i] \in Foreign}) < MaxForeign
    /\ outbox' = Append(outbox, p)
    /\ UNCHANGED <<callVars, driverVars, requests, responses, delivered, lifeVars>>

\* ResponseTx::send of a response that carries a request number.
Receive(r) ==
    /\ streamOpen
    /\ driver.at # "stopped"
    /\ Len(responses) < ResponseCap
    /\ responses' = Append(responses, r)
    /\ UNCHANGED <<callVars, driverVars, requests, outbox, delivered, lifeVars>>

\* A kit answers a request it received, echoing its number.
Answer ==
    \E q \in delivered, b \in Bodies :
        Receive([kit |-> q.kit, id |-> q.id, body |-> b, call |-> q.call])

\* A kit uses a number it was not asked with.
StrayAnswer ==
    \E k \in Kits, i \in StrayIds, b \in Bodies :
        Receive([kit |-> k, id |-> i, body |-> b, call |-> NoCall])

\* The task that polls the MQTT stream ends.
CloseStream ==
    /\ streamOpen
    /\ streamOpen' = FALSE
    /\ outbox' = <<>>
    /\ UNCHANGED <<callVars, driverVars, requests, responses, delivered, handleOpen, crashes>>

\* The last handle is dropped; a call in progress borrows one.
DropHandle ==
    /\ handleOpen
    /\ \A c \in Calls : pc[c] \notin {"sending", "waiting"}
    /\ handleOpen' = FALSE
    /\ UNCHANGED <<callVars, driverVars, channelVars, delivered, streamOpen, crashes>>

\* The process dies and is started again; only the network remembers.
Crash ==
    /\ crashes < MaxCrashes
    /\ crashes' = crashes + 1
    /\ pc' = [c \in Calls |-> IF pc[c] \in {"sending", "waiting"} THEN "gone" ELSE pc[c]]
    /\ requests' = <<>> /\ responses' = <<>> /\ outbox' = <<>>
    /\ driver' = Idle /\ nextId' = 0 /\ waiters' = <<>>
    /\ streamOpen' = TRUE /\ handleOpen' = TRUE
    /\ UNCHANGED <<outcome, source, answerer, age, delivered>>

-----------------------------------------------------------------------------

CallerStep(c) == Call(c) \/ Enqueue(c) \/ SendFails(c) \/ Cancel(c)
DriverStep == TakeRequest \/ Publish \/ InsertWaiter \/ TakeResponse \/ Cleanup \/ Stop
NetworkStep == Transmit \/ (\E p \in Foreign : ForeignPublish(p)) \/ Answer \/ StrayAnswer
LifeStep == CloseStream \/ DropHandle \/ Crash

Next ==
    \/ \E c \in Calls : CallerStep(c)
    \/ DriverStep
    \/ Tick
    \/ NetworkStep
    \/ LifeStep

Spec == Init /\ [][Next]_vars

\* tokio's select! picks a random ready branch, so a branch that is ready
\* again and again is taken (strong fairness); its semaphores are first come
\* first served, so a sender is not overtaken for ever; the clock and the
\* task that polls the MQTT stream keep running.
Fairness ==
    /\ SF_vars(TakeRequest) /\ SF_vars(TakeResponse)
    /\ SF_vars(Cleanup) /\ SF_vars(Stop)
    /\ SF_vars(Publish) /\ WF_vars(InsertWaiter)
    /\ \A c \in Calls : SF_vars(Enqueue(c)) /\ WF_vars(SendFails(c))
    /\ WF_vars(Tick) /\ WF_vars(Transmit)

FairSpec == Spec /\ Fairness

-----------------------------------------------------------------------------

\* The state has the shape of the code's data.
TypeOK ==
    /\ pc \in [Calls -> {"idle", "sending", "waiting", "resolved", "gone"}]
    /\ outcome \in [Calls -> Outcomes]
    /\ source \in [Calls -> Calls \cup {NoCall}]
    /\ answerer \in [Calls -> Kits \cup {NoCall}]
    /\ requests \in Seq(Calls) /\ Len(requests) <= RequestCap
    /\ driver \in [at : {"select", "publish", "insert", "stopped"},
                   call : Calls \cup {NoCall}, id : Nat]
    /\ driver.at \in {"publish", "insert"} => driver.call \in Calls
    /\ nextId \in Nat
    /\ DOMAIN waiters \subseteq Kits \X Nat
    /\ waiters \in [DOMAIN waiters -> Calls]
    /\ age \in [Calls -> 0..Timeout]
    /\ responses \in Seq(Response) /\ Len(responses) <= ResponseCap
    /\ outbox \in Seq(Request \cup Foreign) /\ Len(outbox) <= OutboxCap
    /\ delivered \subseteq Request
    /\ streamOpen \in BOOLEAN /\ handleOpen \in BOOLEAN
    /\ crashes \in 0..MaxCrashes

Answered(c) == outcome[c] \notin {"None", "TimedOut"}

\* A caller is answered only by the kit it addressed, and the answer was not
\* made for a call to another kit, whatever numbers kits put in responses nobody
\* asked for and however often the server restarts: the table of waiters is
\* keyed by the kit and the number, not the number alone.
AnsweredByOwnKit ==
    \A c \in Calls :
        /\ Answered(c) => answerer[c] = KitOf[c]
        /\ source[c] # NoCall => KitOf[source[c]] = KitOf[c]

\* Until the server restarts, a caller is answered only with a response to its
\* own request, or one its kit made up: matching responses by the echoed
\* number never crosses two calls, however late, duplicated or reordered the
\* responses are.  A restarted server counts from 0 again.
AnswerMatchesRequest ==
    crashes = 0 => \A c \in Calls : Answered(c) =>
        source[c] = c \/ (source[c] = NoCall /\ StrayIds # {})

\* Nobody waits without someone left to wake it: the oneshot sender of a
\* waiting call is in the request channel, with the driver or in the table.
NoLostCall ==
    \A c \in Calls : pc[c] = "waiting" =>
        \/ \E i \in DOMAIN requests : requests[i] = c
        \/ driver.at \in {"publish", "insert"} /\ driver.call = c
        \/ \E k \in DOMAIN waiters : waiters[k] = c

\* Whenever the driver is ready to look at a response to a call that still
\* waits, the waiter is in the table: the request is published before the
\* waiter is inserted, and its answer may be back in between, but the driver
\* does not look at it before it has inserted the waiter.
ResponseFindsWaiter ==
    \A i \in DOMAIN responses : LET r == responses[i] IN
        (driver.at = "select" /\ r.call # NoCall /\ pc[r.call] = "waiting")
            => <<r.kit, r.id>> \in DOMAIN waiters

\* A call in progress is told it timed out only when its waiter has lived the
\* whole time-out, or the driver has stopped.
NoPrematureTimeout ==
    [][\A c \in Calls : outcome'[c] = "TimedOut" /\ outcome[c] # "TimedOut" =>
          age[c] >= Timeout \/ driver'.at = "stopped"]_vars

\* Every call comes to an end, by an answer, a time-out or its cancellation.
EveryCallEnds ==
    \A c \in Calls : pc[c] \in {"sending", "waiting"} ~> pc[c] \in {"resolved", "gone"}

\* The table of waiters is reclaimed, cancelled callers' entries included.
InTable(c) == \E k \in DOMAIN waiters : waiters[k] = c
WaitersReclaimed == \A c \in Calls : InTable(c) ~> ~InTable(c)

\* What a caller may rely on: see RpcPromise.
Status(c) == CASE pc[c] = "idle" -> "new"
               [] pc[c] \in {"sending", "waiting"} -> "pending"
               [] pc[c] = "gone" -> "abandoned"
               [] pc[c] = "resolved" /\ outcome[c] = "TimedOut" -> "timedOut"
               [] pc[c] = "resolved" /\ Answered(c) ->
                      CASE source[c] = c -> "answered"
                        [] source[c] = NoCall -> "strayed"
                        [] OTHER -> "crossed"

Promise == INSTANCE RpcPromise WITH
    Strays <- StrayIds # {},
    status <- [c \in Calls |-> Status(c)],
    reached <- {q.call : q \in delivered},
    restarted <- crashes > 0

\* The driver, its channels and its table implement the promise.
KeepsPromise == Promise!Spec
=============================================================================
