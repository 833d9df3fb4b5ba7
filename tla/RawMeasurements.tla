--------------------------- MODULE RawMeasurements ---------------------------
(***************************************************************************)
(* Real-time raw measurements over WebSockets (astroplant-websocket).  The *)
(* publisher puts each measurement in a cache and sends it on the          *)
(* broadcast channel of its kit, if one is registered.  Every subscription *)
(* is a task: it dumps the cache on its socket, subscribes to the kit's    *)
(* channel or registers one, forwards what it receives, and when its       *)
(* socket is closed drops its receiver and deregisters the channel if no   *)
(* receiver is left.  The cache and the table of channels are locked for   *)
(* one operation at a time.                                                *)
(***************************************************************************)
EXTENDS Integers, Sequences, FiniteSets

CONSTANTS
    Subs,           \* subscriptions; each may create one channel, named by it
    Kits,
    KitOf,          \* the kit each subscription is for
    QueueCap,       \* capacity of a broadcast channel (8 in the code)
    MaxPublished,   \* bound: measurements published of each kit
    None            \* no channel

ASSUME SubsAssumption == KitOf \in [Subs -> Kits] /\ None \notin Subs \cup Kits
ASSUME FiniteAssumption == IsFiniteSet(Subs)
ASSUME BoundsAssumption == QueueCap \in Nat \ {0} /\ MaxPublished \in Nat

VARIABLES
    pc,         \* where the task of each subscription stands
    open,       \* whether its socket is open
    channel,    \* the channel its receiver is of
    queue,      \* what its receiver has still to receive
    lagged,     \* whether its receiver has missed something: "no", "yes" or
                \* "told" once the task has been told
    muted,      \* the receive branch failed and waits for the next tick
    received,   \* what has been sent on its socket
    since,      \* ghost: measurements sent on the channels before it subscribed
    raced,      \* ghost: another task stood between its look at the table and
                \* its change to it when this one subscribed
    listeners,  \* the registered channel of each kit
    cache,      \* the newest measurement of each kit, 0 when there is none
    sent,       \* measurements of each kit the publisher is done with
    publishing  \* the kit of which the publisher has cached a measurement

taskVars == <<pc, channel, queue, lagged, muted, received, since, raced>>
publisherVars == <<cache, sent, publishing>>
vars == <<taskVars, open, listeners, publisherVars>>

-----------------------------------------------------------------------------

Steps == {"new", "auth", "dump", "lookup", "create", "forward", "drop", "count", "remove"}
Ends == {"rejected", "panicked", "done"}

Init ==
    /\ pc = [s \in Subs |-> "new"]
    /\ open = [s \in Subs |-> TRUE]
    /\ channel = [s \in Subs |-> None]
    /\ queue = [s \in Subs |-> <<>>]
    /\ lagged = [s \in Subs |-> "no"]
    /\ muted = [s \in Subs |-> FALSE]
    /\ received = [s \in Subs |-> <<>>]
    /\ since = [s \in Subs |-> 0]
    /\ raced = [s \in Subs |-> FALSE]
    /\ listeners = [k \in Kits |-> None]
    /\ cache = [k \in Kits |-> 0]
    /\ sent = [k \in Kits |-> 0]
    /\ publishing = None

Receivers(c) == {s \in Subs : channel[s] = c}

\* Mutant: the task subscribes first and dumps the cache after.
SubscribeFirst == [auth |-> "lookup", lookup |-> "dump", dump |-> "forward"]

\* The order in which a task prepares before it forwards.
After == [auth |-> "dump", dump |-> "lookup", lookup |-> "forward"]

GoTo(s, from, to) == pc[s] = from /\ pc' = [pc EXCEPT ![s] = to]

Forward(s, m) == received' = [received EXCEPT ![s] = IF open[s] THEN Append(@, m) ELSE @]

-----------------------------------------------------------------------------
(* The task of a subscription: RpcServerImpl::sub. *)

\* The subscribe call spawns the task.
Sub(s) ==
    /\ GoTo(s, "new", "auth")
    /\ UNCHANGED <<channel, queue, lagged, muted, received, since, raced, open, listeners, publisherVars>>

Reject(s) ==
    /\ GoTo(s, "auth", "rejected")
    /\ UNCHANGED <<channel, queue, lagged, muted, received, since, raced, open, listeners, publisherVars>>

\* accept().unwrap() panics when the socket was closed in the meantime.
Accept(s) ==
    /\ GoTo(s, "auth", IF open[s] THEN After.auth ELSE "panicked")
    /\ UNCHANGED <<channel, queue, lagged, muted, received, since, raced, open, listeners, publisherVars>>

\* The cached measurements go to the socket, under the lock of the cache.
Dump(s) ==
    /\ GoTo(s, "dump", After.dump)
    /\ IF cache[KitOf[s]] = 0 THEN UNCHANGED received ELSE Forward(s, cache[KitOf[s]])
    /\ UNCHANGED <<channel, queue, lagged, muted, since, raced, open, listeners, publisherVars>>

\* The tasks that have seen the table of the kit without a channel, or with
\* one without receivers, and have yet to change it.
Changing(k) == {s \in Subs : KitOf[s] = k /\ pc[s] \in {"create", "remove"}}

\* The receiver is of the channel c and has missed what was sent before.
SubscribeTo(s, c) ==
    /\ raced' = [raced EXCEPT ![s] = Changing(KitOf[s]) \ {s} # {}]
    /\ channel' = [channel EXCEPT ![s] = c]
    /\ since' = [since EXCEPT ![s] = sent[KitOf[s]]]
    /\ UNCHANGED <<queue, lagged, muted, received, open, publisherVars>>

\* The table of channels is read, and a receiver made if there is a channel.
Lookup(s) ==
    /\ GoTo(s, "lookup", IF listeners[KitOf[s]] = None THEN "create" ELSE After.lookup)
    /\ SubscribeTo(s, listeners[KitOf[s]])
    /\ UNCHANGED listeners

\* There was no channel: one is made and registered, in place of any that has
\* been registered since, whose sender is dropped.
Create(s) ==
    /\ GoTo(s, "create", After.lookup)
    /\ listeners' = [listeners EXCEPT ![KitOf[s]] = s]
    /\ SubscribeTo(s, s)

\* A receiver that lagged is told so once: the branch of the select fails and
\* is not tried again before the tick.
RecvLagged(s) ==
    /\ pc[s] = "forward" /\ ~muted[s] /\ lagged[s] = "yes"
    /\ lagged' = [lagged EXCEPT ![s] = "told"]
    /\ muted' = [muted EXCEPT ![s] = TRUE]
    /\ UNCHANGED <<pc, channel, queue, received, since, raced, open, listeners, publisherVars>>

\* A measurement is forwarded; when the socket is closed the loop ends.
Recv(s) ==
    /\ ~muted[s] /\ lagged[s] # "yes" /\ queue[s] # <<>>
    /\ GoTo(s, "forward", IF open[s] THEN "forward" ELSE "drop")
    /\ Forward(s, Head(queue[s]))
    /\ queue' = [queue EXCEPT ![s] = Tail(@)]
    /\ UNCHANGED <<channel, lagged, muted, since, raced, open, listeners, publisherVars>>

TickAnd(s, closed) ==
    /\ GoTo(s, "forward", IF closed THEN "drop" ELSE "forward")
    /\ muted' = [muted EXCEPT ![s] = FALSE]
    /\ UNCHANGED <<channel, queue, lagged, received, since, raced, open, listeners, publisherVars>>

\* Mutant: the tick does not look at the socket.
TickBlind(s) == TickAnd(s, FALSE)

\* The tick, a minute after the last measurement: is the socket still open?
Tick(s) == TickAnd(s, ~open[s])

DropReceiver(s) ==
    /\ GoTo(s, "drop", "count")
    /\ channel' = [channel EXCEPT ![s] = None]
    /\ queue' = [queue EXCEPT ![s] = <<>>]
    /\ UNCHANGED <<lagged, muted, received, since, raced, open, listeners, publisherVars>>

CountReceivers(s, last) ==
    LET c == listeners[KitOf[s]] IN
    /\ GoTo(s, "count", IF c = None THEN "panicked"
                        ELSE IF Cardinality(Receivers(c)) = last THEN "remove" ELSE "done")
    /\ UNCHANGED <<channel, queue, lagged, muted, received, since, raced, open, listeners, publisherVars>>

\* Mutant: the task counts as if its own receiver were still there.
CountWithOwn(s) == CountReceivers(s, 1)

\* The table is read again; expect("invariant") panics without a channel.
Count(s) == CountReceivers(s, 0)

\* Under the write lock, taken anew: whatever is registered now is removed.
Remove(s) ==
    /\ GoTo(s, "remove", "done")
    /\ listeners' = [listeners EXCEPT ![KitOf[s]] = None]
    /\ UNCHANGED <<channel, queue, lagged, muted, received, since, raced, open, publisherVars>>

\* The socket's handler ends and closes its subscriptions.
Close(s) ==
    /\ pc[s] # "new" /\ open[s]
    /\ open' = [open EXCEPT ![s] = FALSE]
    /\ UNCHANGED <<taskVars, listeners, publisherVars>>

-----------------------------------------------------------------------------
(* The publisher: publish_raw_measurement, called by one task. *)

PublishCache(k) ==
    /\ publishing = None
    /\ sent[k] < MaxPublished
    /\ publishing' = k
    /\ cache' = [cache EXCEPT ![k] = sent[k] + 1]
    /\ UNCHANGED <<taskVars, open, listeners, sent>>

Listening ==
    IF listeners[publishing] = None THEN {} ELSE Receivers(listeners[publishing])

Full == {s \in Subs : Len(queue[s]) = QueueCap}

\* The receivers in "to" get the measurement; those in "drop" lose the oldest
\* one they have queued.
SendTo(to, drop) ==
    LET k == publishing IN
    /\ publishing' = None
    /\ sent' = [sent EXCEPT ![k] = @ + 1]
    /\ queue' = [s \in Subs |->
          IF s \notin to THEN queue[s]
          ELSE Append(IF s \in drop THEN Tail(queue[s]) ELSE queue[s], sent[k] + 1)]
    /\ lagged' = [s \in Subs |-> IF s \in to \cap drop THEN "yes" ELSE lagged[s]]
    /\ UNCHANGED <<pc, channel, muted, received, since, raced, open, listeners, cache>>

\* Mutants: a receiver whose buffer is full is passed over in silence; the
\* buffers are not bounded.
PublishSendIfRoom == publishing # None /\ SendTo(Listening \ Full, Full)
PublishSendUnbounded == publishing # None /\ SendTo(Listening, {})

\* Every receiver of the kit's channel gets the measurement; one whose buffer
\* is full loses its oldest.
PublishSend == publishing # None /\ SendTo(Listening, Full)

\* keep_raw_measurement_cache_clean: the kit's measurement is too old.
CleanCache(k) ==
    /\ cache[k] # 0
    /\ cache' = [cache EXCEPT ![k] = 0]
    /\ UNCHANGED <<taskVars, open, listeners, sent, publishing>>

-----------------------------------------------------------------------------

TaskStep(s) ==
    \/ Sub(s) \/ Reject(s) \/ Accept(s) \/ Dump(s) \/ Lookup(s) \/ Create(s)
    \/ RecvLagged(s) \/ Recv(s) \/ Tick(s)
    \/ DropReceiver(s) \/ Count(s) \/ Remove(s)

Next ==
    \/ \E s \in Subs : TaskStep(s) \/ Close(s)
    \/ \E k \in Kits : PublishCache(k) \/ CleanCache(k)
    \/ PublishSend

Spec == Init /\ [][Next]_vars

\* A task that can run runs, and its authorization check returns.  Of a task
\* that forwards nothing more is assumed than that a measurement or the tick
\* comes: each measurement puts the tick off.  A client need not subscribe,
\* nor close its socket.
Fairness ==
    \A s \in Subs :
        /\ WF_vars(Accept(s) \/ Dump(s) \/ Lookup(s) \/ Create(s))
        /\ WF_vars(DropReceiver(s) \/ Count(s) \/ Remove(s))
        /\ WF_vars(Recv(s) \/ Tick(s))

FairSpec == Spec /\ Fairness

-----------------------------------------------------------------------------

\* The state has the shape of the code's data.
TypeOK ==
    /\ pc \in [Subs -> Steps \cup Ends]
    /\ open \in [Subs -> BOOLEAN]
    /\ channel \in [Subs -> Subs \cup {None}]
    /\ queue \in [Subs -> Seq(1..MaxPublished)]
    /\ \A s \in Subs : Len(queue[s]) <= QueueCap
    /\ lagged \in [Subs -> {"no", "yes", "told"}] /\ muted \in [Subs -> BOOLEAN]
    /\ received \in [Subs -> Seq(1..MaxPublished)]
    /\ since \in [Subs -> 0..MaxPublished] /\ raced \in [Subs -> BOOLEAN]
    /\ listeners \in [Kits -> Subs \cup {None}]
    /\ cache \in [Kits -> 0..MaxPublished]
    /\ sent \in [Kits -> 0..MaxPublished]
    /\ publishing \in Kits \cup {None}

\* A channel is not left in the table for ever: while it has no receiver, a
\* task is on its way to find that out and remove it (the comment in
\* publish_raw_measurement relies on the last receiver dropped to do so).
NoChannelLeak ==
    \A k \in Kits :
        (listeners[k] # None /\ Receivers(listeners[k]) = {})
            => \E s \in Subs : KitOf[s] = k /\ pc[s] \in {"count", "remove"}

\* What a client sees of a kit never goes back in time: the cache is dumped
\* before the receiver is made, and each measurement is cached before it is
\* sent.  The same measurement may be seen twice.
NeverGoesBack ==
    \A s \in Subs : \A i, j \in DOMAIN received[s] :
        i <= j => received[s][i] <= received[s][j]

\* A client has been sent, or its receiver has queued, all that was sent since
\* it subscribed, but for what it lost by lagging, of which it is or was told,
\* and unless it subscribed while another task of the kit was about to put its
\* own channel in the table or to empty it: the lookup, the insertion and the
\* removal take the lock one by one, and such a receiver may be left on a
\* channel that is no longer in the table and hear nothing more.
NoSilentGap ==
    \A s \in Subs :
        pc[s] = "forward" /\ open[s] /\ lagged[s] = "no" /\ ~raced[s]
        => since[s] + 1 .. sent[KitOf[s]]
              \subseteq {received[s][i] : i \in DOMAIN received[s]}
                        \cup {queue[s][i] : i \in DOMAIN queue[s]}

\* The task of a subscription whose socket is closed ends, though the kit may
\* never send another measurement.
ClosedEnds == \A s \in Subs : ~open[s] ~> pc[s] \in Ends

\* The channel of a kit is in the table as long as a task has a receiver, for
\* only the last one deregisters it, and is still there when the task has
\* dropped its receiver and looks the channel up: expect("invariant").
ListenersInvariant ==
    \A s \in Subs :
        pc[s] \in {"forward", "drop", "count"} => listeners[KitOf[s]] # None
=============================================================================
