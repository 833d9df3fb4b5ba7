----------------------- MODULE RawMeasurementsProofs -----------------------
(***************************************************************************)
(* Proofs about RawMeasurements, for any number of subscriptions and kits, *)
(* any capacity of the channels and any number of measurements.            *)
(***************************************************************************)
EXTENDS RawMeasurements, TLAPS, FiniteSetTheorems

\* What the publisher is about to send is still within the bound.
RoomToSend == publishing # None => sent[publishing] < MaxPublished

TypeInv == TypeOK /\ RoomToSend

\* The state keeps the shape of the code's data: a receiver queues no more
\* than its channel's capacity, whatever the publisher and the tasks do.
THEOREM Typing == Spec => []TypeOK
<1>. USE SubsAssumption, BoundsAssumption
<1>1. Init => TypeInv
  BY DEF Init, TypeInv, TypeOK, RoomToSend, Steps, Ends
<1>2. TypeInv /\ [Next]_vars => TypeInv'
  <2>. SUFFICES ASSUME TypeInv, [Next]_vars PROVE TypeInv'
    OBVIOUS
  <2>. USE DEF TypeInv, TypeOK, RoomToSend, Steps, Ends, GoTo
  <2>1. CASE UNCHANGED vars
    BY <2>1 DEF vars, taskVars, publisherVars
  <2>2. ASSUME NEW s \in Subs, Sub(s) \/ Reject(s) \/ Accept(s) PROVE TypeInv'
    BY <2>2 DEF Sub, Reject, Accept, After, publisherVars
  <2>3. ASSUME NEW s \in Subs, Dump(s) PROVE TypeInv'
    <3>1. pc' \in [Subs -> Steps \cup Ends]
      BY <2>3 DEF Dump, After
    <3>2. received' \in [Subs -> Seq(1..MaxPublished)]
      <4>. DEFINE m == cache[KitOf[s]]
      <4>1. CASE m = 0
        BY <2>3, <4>1 DEF Dump
      <4>2. CASE m # 0
        <5>1. m \in 1..MaxPublished
          BY <4>2
        <5>2. Append(received[s], m) \in Seq(1..MaxPublished)
          BY <5>1
        <5>. QED
          BY <2>3, <4>2, <5>2 DEF Dump, Forward
      <4>. QED
        BY <4>1, <4>2
    <3>. QED
      BY <2>3, <3>1, <3>2 DEF Dump, publisherVars
  <2>4. ASSUME NEW s \in Subs, Lookup(s) \/ Create(s) PROVE TypeInv'
    <3>0. raced' \in [Subs -> BOOLEAN]
      <4>1. (Changing(KitOf[s]) \ {s} # {}) \in BOOLEAN
        OBVIOUS
      <4>. QED
        BY <2>4, <4>1, Zenon DEF Lookup, Create, SubscribeTo
    <3>1. pc' \in [Subs -> Steps \cup Ends]
      BY <2>4 DEF Lookup, Create, After
    <3>2. channel' \in [Subs -> Subs \cup {None}] /\ listeners' \in [Kits -> Subs \cup {None}]
      <4>1. CASE Lookup(s)
        <5>1. listeners[KitOf[s]] \in Subs \cup {None}
          OBVIOUS
        <5>. QED
          BY <4>1, <5>1 DEF Lookup, SubscribeTo
      <4>2. CASE Create(s)
        <5>1. channel' = [channel EXCEPT ![s] = s] /\ listeners' = [listeners EXCEPT ![KitOf[s]] = s]
          BY <4>2 DEF Create, SubscribeTo
        <5>. QED
          BY <5>1
      <4>. QED
        BY <2>4, <4>1, <4>2
    <3>3. since' \in [Subs -> 0..MaxPublished]
      BY <2>4 DEF Lookup, Create, SubscribeTo
    <3>. QED
      BY <2>4, <3>0, <3>1, <3>2, <3>3 DEF Lookup, Create, SubscribeTo, publisherVars
  <2>5. ASSUME NEW s \in Subs, RecvLagged(s) \/ Tick(s) PROVE TypeInv'
    BY <2>5 DEF RecvLagged, Tick, TickAnd, publisherVars
  <2>6. ASSUME NEW s \in Subs, Recv(s) PROVE TypeInv'
    <3>. DEFINE m == Head(queue[s])
    <3>1. /\ m \in 1..MaxPublished
          /\ Tail(queue[s]) \in Seq(1..MaxPublished)
          /\ Len(Tail(queue[s])) <= QueueCap
      BY <2>6 DEF Recv
    <3>2. Append(received[s], m) \in Seq(1..MaxPublished)
      BY <3>1
    <3>3. received' \in [Subs -> Seq(1..MaxPublished)]
      BY <2>6, <3>2 DEF Recv, Forward
    <3>4. /\ queue' \in [Subs -> Seq(1..MaxPublished)]
          /\ \A t \in Subs : Len(queue'[t]) <= QueueCap
      BY <2>6, <3>1 DEF Recv
    <3>5. pc' \in [Subs -> Steps \cup Ends]
      BY <2>6 DEF Recv
    <3>. QED
      BY <2>6, <3>3, <3>4, <3>5 DEF Recv, publisherVars
  <2>7. ASSUME NEW s \in Subs, DropReceiver(s) \/ Remove(s) PROVE TypeInv'
    <3>1. pc' \in [Subs -> Steps \cup Ends]
      <4>1. CASE DropReceiver(s)
        BY <4>1 DEF DropReceiver
      <4>2. CASE Remove(s)
        BY <4>2 DEF Remove
      <4>. QED
        BY <2>7, <4>1, <4>2
    <3>2. <<>> \in Seq(1..MaxPublished) /\ Len(<<>>) <= QueueCap
      OBVIOUS
    <3>3. /\ queue' \in [Subs -> Seq(1..MaxPublished)]
          /\ \A t \in Subs : Len(queue'[t]) <= QueueCap
      <4>1. queue' = queue \/ queue' = [queue EXCEPT ![s] = <<>>]
        BY <2>7 DEF DropReceiver, Remove
      <4>2. ASSUME NEW t \in Subs
            PROVE  queue'[t] \in Seq(1..MaxPublished) /\ Len(queue'[t]) <= QueueCap
        <5>1. queue'[t] = queue[t] \/ queue'[t] = <<>>
          BY <4>1
        <5>. QED
          BY <3>2, <5>1
      <4>3. queue' = [t \in Subs |-> queue'[t]]
        BY <4>1
      <4>. QED
        BY <4>2, <4>3
    <3>4. channel' \in [Subs -> Subs \cup {None}] /\ listeners' \in [Kits -> Subs \cup {None}]
      BY <2>7 DEF DropReceiver, Remove
    <3>. QED
      BY <2>7, <3>1, <3>3, <3>4 DEF DropReceiver, Remove, publisherVars
  <2>8. ASSUME NEW s \in Subs, Count(s) PROVE TypeInv'
    BY <2>8 DEF Count, CountReceivers, publisherVars
  <2>9. ASSUME NEW s \in Subs, Close(s) PROVE TypeInv'
    BY <2>9 DEF Close, taskVars, publisherVars
  <2>10. ASSUME NEW k \in Kits, PublishCache(k) \/ CleanCache(k) PROVE TypeInv'
    <3>1. /\ pc' = pc /\ channel' = channel /\ queue' = queue /\ lagged' = lagged
          /\ muted' = muted /\ received' = received /\ since' = since /\ raced' = raced
          /\ open' = open /\ listeners' = listeners /\ sent' = sent
      BY <2>10 DEF PublishCache, CleanCache, taskVars
    <3>2. cache' \in [Kits -> 0..MaxPublished] /\ publishing' \in Kits \cup {None} /\ RoomToSend'
      <4>1. CASE PublishCache(k)
        <5>1. sent[k] + 1 \in 0..MaxPublished /\ publishing' = k /\ sent'[k] < MaxPublished
          BY <3>1, <4>1 DEF PublishCache
        <5>2. cache' = [cache EXCEPT ![k] = sent[k] + 1]
          BY <4>1 DEF PublishCache
        <5>. QED
          BY <5>1, <5>2
      <4>2. CASE CleanCache(k)
        BY <3>1, <4>2 DEF CleanCache
      <4>. QED
        BY <2>10, <4>1, <4>2
    <3>. QED
      BY <3>1, <3>2
  <2>11. CASE PublishSend
    <3>. DEFINE k == publishing
                m == sent[k] + 1
                rest(s) == IF s \in Full THEN Tail(queue[s]) ELSE queue[s]
    <3>1. k \in Kits /\ m \in 1..MaxPublished
      BY <2>11 DEF PublishSend
    <3>2. sent' \in [Kits -> 0..MaxPublished] /\ RoomToSend'
      BY <2>11, <3>1 DEF PublishSend, SendTo
    <3>3. ASSUME NEW s \in Subs
          PROVE  queue'[s] \in Seq(1..MaxPublished) /\ Len(queue'[s]) <= QueueCap
      <4>1. rest(s) \in Seq(1..MaxPublished) /\ Len(rest(s)) < QueueCap
        <5>1. CASE s \in Full
          BY <5>1 DEF Full
        <5>2. CASE s \notin Full
          BY <5>2 DEF Full
        <5>. QED
          BY <5>1, <5>2
      <4>2. /\ Append(rest(s), m) \in Seq(1..MaxPublished)
            /\ Len(Append(rest(s), m)) <= QueueCap
        BY <3>1, <4>1
      <4>3. queue'[s] = IF s \notin Listening THEN queue[s] ELSE Append(rest(s), m)
        BY <2>11 DEF PublishSend, SendTo
      <4>. QED
        BY <4>2, <4>3
    <3>4. queue' \in [Subs -> Seq(1..MaxPublished)]
      BY <2>11, <3>3 DEF PublishSend, SendTo
    <3>5. lagged' \in [Subs -> {"no", "yes", "told"}]
      BY <2>11 DEF PublishSend, SendTo
    <3>. QED
      BY <2>11, <3>2, <3>3, <3>4, <3>5 DEF PublishSend, SendTo
  <2>. QED
    BY <2>1, <2>2, <2>3, <2>4, <2>5, <2>6, <2>7, <2>8, <2>9, <2>10, <2>11
       DEF Next, TaskStep
<1>3. TypeInv => TypeOK
  BY DEF TypeInv
<1>. QED
  BY <1>1, <1>2, <1>3, PTL DEF Spec

-----------------------------------------------------------------------------

\* A channel in the table is of the kit it is registered for, and a receiver
\* is of a channel of the kit of its subscription.
OwnKit ==
    /\ \A k \in Kits : listeners[k] # None => KitOf[listeners[k]] = k
    /\ \A s \in Subs : channel[s] # None => KitOf[channel[s]] = KitOf[s]

\* The task that drops the last receiver of a channel looks its own kit up,
\* and finds that channel or a newer one of the same kit.
LEMMA OwnKitInv == Spec => [](OwnKit /\ NoChannelLeak)
<1>. USE SubsAssumption
<1>1. Init => OwnKit /\ NoChannelLeak
  BY DEF Init, OwnKit, NoChannelLeak
<1>2. TypeOK /\ TypeOK' /\ OwnKit /\ NoChannelLeak /\ [Next]_vars
         => OwnKit' /\ NoChannelLeak'
  <2>. SUFFICES ASSUME TypeOK, TypeOK', OwnKit, NoChannelLeak, [Next]_vars
                PROVE OwnKit' /\ NoChannelLeak'
    OBVIOUS
  <2>0. /\ channel \in [Subs -> Subs \cup {None}]
        /\ listeners \in [Kits -> Subs \cup {None}]
        /\ pc \in [Subs -> Steps \cup Ends]
    BY DEF TypeOK
  <2>1. ASSUME UNCHANGED <<channel, listeners>>,
               \A s \in Subs : pc[s] \in {"count", "remove"}
                                  => pc'[s] \in {"count", "remove"}
        PROVE OwnKit' /\ NoChannelLeak'
    BY <2>1 DEF OwnKit, NoChannelLeak, Receivers
  <2>2. CASE UNCHANGED vars
    BY <2>1, <2>2 DEF vars, taskVars
  <2>3. ASSUME NEW s \in Subs,
               \/ Sub(s) \/ Reject(s) \/ Accept(s) \/ Dump(s)
               \/ RecvLagged(s) \/ Recv(s) \/ Tick(s)
        PROVE OwnKit' /\ NoChannelLeak'
    BY <2>0, <2>1, <2>3
       DEF Sub, Reject, Accept, Dump, RecvLagged, Recv, Tick, TickAnd, GoTo
  <2>4. ASSUME NEW s \in Subs, Lookup(s) PROVE OwnKit' /\ NoChannelLeak'
    <3>1. OwnKit'
      BY <2>0, <2>4 DEF Lookup, SubscribeTo, GoTo, OwnKit
    <3>2. ASSUME NEW k \in Kits, listeners'[k] # None, Receivers(listeners[k])' = {}
          PROVE \E t \in Subs : KitOf[t] = k /\ pc'[t] \in {"count", "remove"}
      <4>1. k # KitOf[s]
        BY <2>0, <2>4, <3>2 DEF Lookup, SubscribeTo, Receivers
      <4>2. Receivers(listeners[k]) = {}
        BY <2>0, <2>4, <3>2, <4>1 DEF Lookup, SubscribeTo, Receivers, OwnKit
      <4>3. PICK t \in Subs : KitOf[t] = k /\ pc[t] \in {"count", "remove"}
        BY <2>4, <3>2, <4>2 DEF Lookup, NoChannelLeak
      <4>. QED
        BY <2>0, <2>4, <4>1, <4>3 DEF Lookup, GoTo
    <3>. QED
      BY <3>1, <3>2 DEF NoChannelLeak
  <2>5. ASSUME NEW s \in Subs, Create(s) PROVE OwnKit' /\ NoChannelLeak'
    <3>1. OwnKit'
      BY <2>0, <2>5 DEF Create, SubscribeTo, GoTo, OwnKit
    <3>2. ASSUME NEW k \in Kits, listeners'[k] # None, Receivers(listeners[k])' = {}
          PROVE \E t \in Subs : KitOf[t] = k /\ pc'[t] \in {"count", "remove"}
      <4>1. k # KitOf[s]
        BY <2>0, <2>5, <3>2 DEF Create, SubscribeTo, Receivers
      <4>2. listeners'[k] = listeners[k]
        BY <2>0, <2>5, <4>1 DEF Create
      <4>3. Receivers(listeners[k]) = {}
        BY <2>0, <2>5, <3>2, <4>1, <4>2 DEF Create, SubscribeTo, Receivers, OwnKit
      <4>4. PICK t \in Subs : KitOf[t] = k /\ pc[t] \in {"count", "remove"}
        BY <3>2, <4>2, <4>3 DEF NoChannelLeak
      <4>. QED
        BY <2>0, <2>5, <4>1, <4>4 DEF Create, GoTo
    <3>. QED
      BY <3>1, <3>2 DEF NoChannelLeak
  <2>6. ASSUME NEW s \in Subs, DropReceiver(s) PROVE OwnKit' /\ NoChannelLeak'
    <3>1. OwnKit'
      BY <2>0, <2>6 DEF DropReceiver, OwnKit
    <3>2. ASSUME NEW k \in Kits, listeners[k] # None, Receivers(listeners[k])' = {}
          PROVE \E t \in Subs : KitOf[t] = k /\ pc'[t] \in {"count", "remove"}
      <4>1. CASE channel[s] = listeners[k]
        BY <2>0, <2>6, <3>2, <4>1 DEF DropReceiver, GoTo, OwnKit
      <4>2. CASE channel[s] # listeners[k]
        <5>1. Receivers(listeners[k]) = {}
          BY <2>0, <2>6, <3>2, <4>2 DEF DropReceiver, Receivers
        <5>. QED
          BY <2>0, <2>6, <3>2, <5>1 DEF DropReceiver, GoTo, NoChannelLeak
      <4>. QED
        BY <4>1, <4>2
    <3>. QED
      BY <2>6, <3>1, <3>2 DEF NoChannelLeak, DropReceiver
  <2>7. ASSUME NEW s \in Subs, Count(s) PROVE OwnKit' /\ NoChannelLeak'
    <3>1. OwnKit'
      BY <2>7 DEF Count, CountReceivers, OwnKit
    <3>2. ASSUME NEW k \in Kits, listeners[k] # None, Receivers(listeners[k]) = {}
          PROVE \E t \in Subs : KitOf[t] = k /\ pc'[t] \in {"count", "remove"}
      <4>1. Cardinality(Receivers(listeners[k])) = 0
        BY <3>2, FS_EmptySet
      <4>2. PICK t \in Subs : KitOf[t] = k /\ pc[t] \in {"count", "remove"}
        BY <3>2 DEF NoChannelLeak
      <4>. QED
        BY <2>0, <2>7, <3>2, <4>1, <4>2 DEF Count, CountReceivers, GoTo
    <3>. QED
      BY <2>7, <3>1, <3>2 DEF NoChannelLeak, Receivers, Count, CountReceivers
  <2>8. ASSUME NEW s \in Subs, Remove(s) PROVE OwnKit' /\ NoChannelLeak'
    BY <2>0, <2>8 DEF Remove, GoTo, OwnKit, NoChannelLeak, Receivers
  <2>9. ASSUME NEW s \in Subs, Close(s) PROVE OwnKit' /\ NoChannelLeak'
    BY <2>1, <2>9 DEF Close, taskVars
  <2>10. ASSUME NEW k \in Kits, PublishCache(k) \/ CleanCache(k)
         PROVE OwnKit' /\ NoChannelLeak'
    BY <2>1, <2>10 DEF PublishCache, CleanCache, taskVars
  <2>11. CASE PublishSend
    BY <2>1, <2>11 DEF PublishSend, SendTo
  <2>. QED
    BY <2>2, <2>3, <2>4, <2>5, <2>6, <2>7, <2>8, <2>9, <2>10, <2>11
       DEF Next, TaskStep
<1>. QED
  BY <1>1, <1>2, Typing, PTL DEF Spec

\* Every registered channel without a receiver has a task on its way to
\* remove it, however many subscriptions come and go: the two separate locks
\* a task takes on its way out leave no channel behind.  What makes it hold
\* is OwnKit: the task that drops the last receiver of a channel looks its
\* own kit up, and finds that channel or a newer one of the same kit.
THEOREM ChannelsRemoved == Spec => []NoChannelLeak
  BY OwnKitInv, PTL

-----------------------------------------------------------------------------

Sorted(q) == \A i, j \in DOMAIN q : i <= j => q[i] <= q[j]
Within(q, m) == \A i \in DOMAIN q : q[i] <= m
Values(q) == {q[i] : i \in DOMAIN q}

\* A sequence to which nothing smaller is appended stays sorted.
LEMMA AppendSorted ==
  ASSUME NEW q \in Seq(Nat), NEW m \in Nat, Sorted(q), Within(q, m)
  PROVE  /\ Sorted(Append(q, m)) /\ Within(Append(q, m), m)
         /\ \A n \in Nat : Within(q, n) /\ m <= n => Within(Append(q, m), n)
         /\ Values(Append(q, m)) = Values(q) \cup {m}
<1>. DEFINE r == Append(q, m)
<1>1. /\ DOMAIN r = DOMAIN q \cup {Len(q) + 1} /\ r[Len(q) + 1] = m
      /\ \A i \in DOMAIN q : r[i] = q[i] /\ q[i] \in Nat /\ i \in Nat /\ i <= Len(q)
      /\ Len(q) \in Nat
  OBVIOUS
<1>. HIDE DEF r
<1>2. Sorted(r)
  BY <1>1 DEF Sorted, Within
<1>3. \A n \in Nat : Within(q, n) /\ m <= n => Within(r, n)
  BY <1>1 DEF Within
<1>4. Values(r) = Values(q) \cup {m}
  BY <1>1 DEF Values
<1>. QED
  BY <1>2, <1>3, <1>4 DEF r

\* So does one whose first element is taken; the others are not smaller.
LEMMA TailSorted ==
  ASSUME NEW q \in Seq(Nat), q # <<>>, Sorted(q)
  PROVE  /\ Sorted(Tail(q)) /\ \A i \in DOMAIN Tail(q) : Head(q) <= Tail(q)[i]
         /\ \A n : Within(q, n) => Within(Tail(q), n) /\ Head(q) <= n
         /\ Values(q) = Values(Tail(q)) \cup {Head(q)}
         /\ Values(Tail(q)) \subseteq Values(q) /\ Head(q) \in Values(q)
<1>1. /\ 1 \in DOMAIN q /\ Head(q) = q[1]
      /\ \A i \in DOMAIN Tail(q) : i \in Nat /\ i + 1 \in DOMAIN q /\ Tail(q)[i] = q[i + 1]
      /\ \A i \in DOMAIN q : i \in Nat /\ 1 <= i
                             /\ (i # 1 => i - 1 \in DOMAIN Tail(q) /\ Tail(q)[i - 1] = q[i])
  OBVIOUS
<1>2. Sorted(Tail(q))
  <2>. SUFFICES ASSUME NEW i \in DOMAIN Tail(q), NEW j \in DOMAIN Tail(q), i <= j
                PROVE  Tail(q)[i] <= Tail(q)[j]
    BY DEF Sorted
  <2>1. i + 1 <= j + 1
    BY <1>1
  <2>. QED
    BY <1>1, <2>1 DEF Sorted
<1>3. \A i \in DOMAIN Tail(q) : Head(q) <= Tail(q)[i]
  <2>. SUFFICES ASSUME NEW i \in DOMAIN Tail(q) PROVE q[1] <= q[i + 1]
    BY <1>1
  <2>. QED
    BY <1>1 DEF Sorted
<1>4. \A n : Within(q, n) => Within(Tail(q), n) /\ Head(q) <= n
  BY <1>1 DEF Within
<1>5. Values(q) \subseteq Values(Tail(q)) \cup {Head(q)}
  <2>. SUFFICES ASSUME NEW i \in DOMAIN q, i # 1 PROVE q[i] \in Values(Tail(q))
    BY <1>1 DEF Values
  <2>1. i - 1 \in DOMAIN Tail(q) /\ Tail(q)[i - 1] = q[i]
    BY <1>1
  <2>. QED
    BY <2>1 DEF Values
<1>6. Values(Tail(q)) \subseteq Values(q) /\ Head(q) \in Values(q)
  BY <1>1 DEF Values
<1>. QED
  BY <1>2, <1>3, <1>4, <1>5, <1>6

\* A task that has not subscribed has no receiver, and nothing on its socket
\* before the dump; a channel is that of a task that has created it.
Early == {"new", "auth", "dump", "lookup", "create"}

Fresh ==
    /\ \A s \in Subs : pc[s] \in Early => channel[s] = None /\ queue[s] = <<>>
    /\ \A s \in Subs : pc[s] \in {"new", "auth", "dump"} => received[s] = <<>>
    /\ \A s \in Subs : channel[s] # None => pc[channel[s]] \notin Early
    /\ \A k \in Kits : listeners[k] # None => pc[listeners[k]] \notin Early

\* The newest measurement there is of a kit.
Newest(k) == sent[k] + (IF publishing = k THEN 1 ELSE 0)

\* What a task has sent, then what it has queued, is in order.
InOrder(s) ==
    /\ Sorted(received[s]) /\ Sorted(queue[s])
    /\ \A i \in DOMAIN queue[s] : Within(received[s], queue[s][i])
    /\ Within(received[s], Newest(KitOf[s])) /\ Within(queue[s], sent[KitOf[s]])

Order == (\A k \in Kits : cache[k] <= Newest(k)) /\ \A s \in Subs : InOrder(s)

\* The facts of the type invariant that the steps below need.
LEMMA Types ==
  ASSUME TypeOK
  PROVE  /\ pc \in [Subs -> Steps \cup Ends] /\ open \in [Subs -> BOOLEAN]
         /\ channel \in [Subs -> Subs \cup {None}]
         /\ listeners \in [Kits -> Subs \cup {None}]
         /\ queue \in [Subs -> Seq(Nat)] /\ received \in [Subs -> Seq(Nat)]
         /\ lagged \in [Subs -> {"no", "yes", "told"}] /\ since \in [Subs -> Nat]
         /\ cache \in [Kits -> Nat] /\ sent \in [Kits -> Nat]
         /\ publishing \in Kits \cup {None}
         /\ \A s \in Subs : KitOf[s] \in Kits
<1>1. \A q : q \in Seq(1..MaxPublished) => q \in Seq(Nat)
  BY BoundsAssumption
<1>2. queue \in [Subs -> Seq(Nat)] /\ received \in [Subs -> Seq(Nat)]
  BY <1>1 DEF TypeOK
<1>3. since \in [Subs -> Nat] /\ cache \in [Kits -> Nat] /\ sent \in [Kits -> Nat]
  BY BoundsAssumption DEF TypeOK
<1>. QED
  BY <1>2, <1>3, SubsAssumption DEF TypeOK

\* A task leaves the early places for good.
LEMMA FreshStep == TypeOK /\ Fresh /\ [Next]_vars => Fresh'
<1>. SUFFICES ASSUME TypeOK, Fresh, [Next]_vars PROVE Fresh'
  OBVIOUS
<1>. USE SubsAssumption, Types DEF Fresh, Early
<1>1. CASE UNCHANGED vars
  BY <1>1 DEF vars, taskVars
\* Steps of the task s that touch no channel.
<1>k. ASSUME NEW s \in Subs, UNCHANGED <<channel, listeners>>,
             \A t \in Subs \ {s} : pc'[t] = pc[t] /\ queue'[t] = queue[t] /\ received'[t] = received[t],
             pc[s] \notin Early => pc'[s] \notin Early,
             pc'[s] \in Early => pc[s] \in Early /\ queue'[s] = queue[s],
             pc'[s] \in {"new", "auth", "dump"} =>
                pc[s] \in {"new", "auth", "dump"} /\ received'[s] = received[s]
      PROVE  Fresh'
  BY <1>k
<1>2. ASSUME NEW s \in Subs, Sub(s) \/ Reject(s) \/ Accept(s) PROVE Fresh'
  BY <1>2, <1>k DEF Sub, Reject, Accept, GoTo, After
<1>3. ASSUME NEW s \in Subs, Dump(s) PROVE Fresh'
  <2>1. \A t \in Subs \ {s} : received'[t] = received[t]
    BY <1>3 DEF Dump, Forward
  <2>. QED
    BY <1>3, <1>k, <2>1 DEF Dump, GoTo, After
<1>4. ASSUME NEW s \in Subs, Lookup(s) PROVE Fresh'
  <2>1. /\ pc[s] = "lookup" /\ UNCHANGED <<queue, received, listeners>>
        /\ \A t \in Subs : pc'[t] = IF t = s THEN IF listeners[KitOf[s]] = None THEN "create" ELSE "forward"
                                             ELSE pc[t]
        /\ \A t \in Subs : channel'[t] = IF t = s THEN listeners[KitOf[s]] ELSE channel[t]
    BY <1>4 DEF Lookup, SubscribeTo, GoTo, After
  <2>2. \A t \in Subs : pc[t] \notin Early => pc'[t] \notin Early
    BY <2>1
  <2>3. \A t \in Subs : pc'[t] \in Early => channel'[t] = None /\ queue'[t] = <<>>
    BY <2>1
  <2>4. \A t \in Subs : pc'[t] \in {"new", "auth", "dump"} => received'[t] = <<>>
    BY <2>1
  <2>5. ASSUME NEW t \in Subs, channel'[t] # None
        PROVE  channel'[t] \in Subs /\ pc'[channel'[t]] \notin Early
    <3>1. KitOf[s] \in Kits
      OBVIOUS
    <3>2. CASE t = s
      <4>1. channel'[s] = listeners[KitOf[s]]
        BY <2>1
      <4>. QED
        BY <2>2, <2>5, <3>1, <3>2, <4>1
    <3>3. CASE t # s
      <4>1. channel'[t] = channel[t]
        BY <2>1, <3>3
      <4>. QED
        BY <2>2, <2>5, <4>1
    <3>. QED
      BY <3>2, <3>3
  <2>6. \A k \in Kits : listeners'[k] # None => listeners'[k] \in Subs /\ pc'[listeners'[k]] \notin Early
    BY <2>1, <2>2
  <2>. QED
    BY <2>3, <2>4, <2>5, <2>6
<1>5. ASSUME NEW s \in Subs, Create(s) PROVE Fresh'
  <2>1. /\ pc[s] = "create" /\ UNCHANGED <<queue, received>>
        /\ \A t \in Subs : pc'[t] = IF t = s THEN "forward" ELSE pc[t]
        /\ \A t \in Subs : channel'[t] = IF t = s THEN s ELSE channel[t]
        /\ \A k \in Kits : listeners'[k] = IF k = KitOf[s] THEN s ELSE listeners[k]
    BY <1>5 DEF Create, SubscribeTo, GoTo, After
  <2>2. \A t \in Subs : pc[t] \notin Early => pc'[t] \notin Early
    BY <2>1
  <2>3. \A t \in Subs : pc'[t] \in Early => channel'[t] = None /\ queue'[t] = <<>>
    BY <2>1
  <2>4. \A t \in Subs : pc'[t] \in {"new", "auth", "dump"} => received'[t] = <<>>
    BY <2>1
  <2>e. pc'[s] \notin Early
    BY <2>1
  <2>5. ASSUME NEW t \in Subs, channel'[t] # None
        PROVE  channel'[t] \in Subs /\ pc'[channel'[t]] \notin Early
    <3>1. channel'[t] = s \/ channel'[t] = channel[t]
      BY <2>1
    <3>. QED
      BY <2>2, <2>e, <2>5, <3>1
  <2>6. ASSUME NEW k \in Kits, listeners'[k] # None
        PROVE  listeners'[k] \in Subs /\ pc'[listeners'[k]] \notin Early
    <3>1. listeners'[k] = s \/ listeners'[k] = listeners[k]
      BY <2>1
    <3>. QED
      BY <2>2, <2>e, <2>6, <3>1
  <2>. QED
    BY <2>3, <2>4, <2>5, <2>6
<1>6. ASSUME NEW s \in Subs, RecvLagged(s) \/ Tick(s) \/ Count(s) PROVE Fresh'
  BY <1>6, <1>k DEF RecvLagged, Tick, TickAnd, Count, CountReceivers, GoTo
<1>7. ASSUME NEW s \in Subs, Recv(s) PROVE Fresh'
  BY <1>7, <1>k DEF Recv, Forward, GoTo
<1>8. ASSUME NEW s \in Subs, DropReceiver(s) PROVE Fresh'
  <2>1. /\ pc[s] = "drop" /\ UNCHANGED <<received, listeners>>
        /\ \A t \in Subs : pc'[t] = IF t = s THEN "count" ELSE pc[t]
        /\ \A t \in Subs : channel'[t] = IF t = s THEN None ELSE channel[t]
        /\ \A t \in Subs : queue'[t] = IF t = s THEN <<>> ELSE queue[t]
    BY <1>8 DEF DropReceiver, GoTo
  <2>2. \A t \in Subs : pc[t] \notin Early => pc'[t] \notin Early
    BY <2>1
  <2>3. \A t \in Subs : pc'[t] \in Early => channel'[t] = None /\ queue'[t] = <<>>
    BY <2>1
  <2>4. \A t \in Subs : pc'[t] \in {"new", "auth", "dump"} => received'[t] = <<>>
    BY <2>1
  <2>5. \A t \in Subs : channel'[t] # None => channel'[t] \in Subs /\ pc'[channel'[t]] \notin Early
    BY <2>1, <2>2
  <2>6. \A k \in Kits : listeners'[k] # None => listeners'[k] \in Subs /\ pc'[listeners'[k]] \notin Early
    BY <2>1, <2>2
  <2>. QED
    BY <2>3, <2>4, <2>5, <2>6
<1>9. ASSUME NEW s \in Subs, Remove(s) PROVE Fresh'
  <2>1. /\ pc[s] = "remove" /\ UNCHANGED <<channel, queue, received>>
        /\ \A t \in Subs : pc'[t] = IF t = s THEN "done" ELSE pc[t]
        /\ \A k \in Kits : listeners'[k] = IF k = KitOf[s] THEN None ELSE listeners[k]
    BY <1>9 DEF Remove, GoTo
  <2>2. \A t \in Subs : pc[t] \notin Early => pc'[t] \notin Early
    BY <2>1
  <2>3. \A t \in Subs : pc'[t] \in Early => channel'[t] = None /\ queue'[t] = <<>>
    BY <2>1
  <2>4. \A t \in Subs : pc'[t] \in {"new", "auth", "dump"} => received'[t] = <<>>
    BY <2>1
  <2>5. \A t \in Subs : channel'[t] # None => channel'[t] \in Subs /\ pc'[channel'[t]] \notin Early
    BY <2>1, <2>2
  <2>6. \A k \in Kits : listeners'[k] # None => listeners'[k] \in Subs /\ pc'[listeners'[k]] \notin Early
    BY <2>1, <2>2
  <2>. QED
    BY <2>3, <2>4, <2>5, <2>6
<1>10. ASSUME NEW s \in Subs, Close(s) PROVE Fresh'
  BY <1>10 DEF Close, taskVars
<1>11. ASSUME NEW k \in Kits, PublishCache(k) \/ CleanCache(k) PROVE Fresh'
  BY <1>11 DEF PublishCache, CleanCache, taskVars
<1>12. CASE PublishSend
  <2>1. UNCHANGED <<pc, channel, received, listeners>>
    BY <1>12 DEF PublishSend, SendTo
  <2>2. ASSUME NEW s \in Subs, pc[s] \in Early PROVE queue'[s] = queue[s]
    <3>1. s \notin Listening
      BY <2>2 DEF Listening, Receivers
    <3>. QED
      BY <1>12, <3>1 DEF PublishSend, SendTo
  <2>. QED
    BY <2>1, <2>2
<1>. QED
  BY <1>1, <1>2, <1>3, <1>4, <1>5, <1>6, <1>7, <1>8, <1>9, <1>10, <1>11, <1>12 DEF Next, TaskStep

\* A step that leaves what is sent and queued, and makes nothing older, keeps
\* the order.
LEMMA OrderKept ==
  ASSUME TypeOK, Order, UNCHANGED <<queue, received, sent>>,
         \A k \in Kits : Newest(k) <= Newest(k)' /\ cache'[k] <= Newest(k)'
  PROVE  Order'
<1>1. \A k \in Kits : Newest(k) \in Nat /\ Newest(k)' \in Nat
  BY Types DEF Newest
<1>2. ASSUME NEW s \in Subs PROVE Within(received[s], Newest(KitOf[s]))'
  <2>1. KitOf[s] \in Kits /\ Within(received[s], Newest(KitOf[s])) /\ received[s] \in Seq(Nat)
    BY Types DEF Order, InOrder
  <2>2. \A i \in DOMAIN received[s] : received[s][i] \in Nat
    BY <2>1
  <2>. QED
    BY <1>1, <2>1, <2>2 DEF Within
<1>. QED
  BY <1>2 DEF Order, InOrder

\* A measurement reaches the receivers of its kit's channel only.
LEMMA ListeningOwn ==
  ASSUME TypeOK, OwnKit, publishing # None, NEW s \in Listening
  PROVE  s \in Subs /\ KitOf[s] = publishing /\ channel[s] = listeners[publishing]
         /\ channel[s] # None
  BY Types DEF Listening, Receivers, OwnKit

\* The queue of a receiver after a measurement has been sent to it.
LEMMA SentQueue ==
  ASSUME TypeOK, NEW s \in Listening, PublishSend,
         Sorted(queue[s]), Within(queue[s], sent[publishing])
  PROVE  LET m == sent[publishing] + 1
             rest == IF s \in Full THEN Tail(queue[s]) ELSE queue[s]
         IN
         /\ s \in Subs /\ m \in Nat /\ rest \in Seq(Nat) /\ queue'[s] = Append(rest, m)
         /\ Sorted(rest) /\ Within(rest, sent[publishing]) /\ Within(rest, m)
         /\ Values(rest) \subseteq Values(queue[s])
         /\ s \notin Full => rest = queue[s]
<1>. DEFINE m == sent[publishing] + 1
            rest == IF s \in Full THEN Tail(queue[s]) ELSE queue[s]
<1>1. s \in Subs /\ publishing \in Kits /\ m \in Nat /\ queue[s] \in Seq(Nat)
  BY Types DEF Listening, Receivers, PublishSend
<1>2. queue'[s] = Append(rest, m)
  BY <1>1 DEF PublishSend, SendTo
<1>3. s \in Full => queue[s] # <<>>
  BY BoundsAssumption DEF Full
<1>4. rest \in Seq(Nat)
  BY <1>1, <1>3
<1>5. Sorted(rest) /\ Within(rest, sent[publishing]) /\ Values(rest) \subseteq Values(queue[s])
  BY <1>1, <1>3, TailSorted
<1>. HIDE DEF rest
<1>6. Within(rest, m)
  <2>1. \A i \in DOMAIN rest : rest[i] \in Nat
    BY <1>4
  <2>2. sent[publishing] \in Nat
    BY <1>1, Types
  <2>. QED
    BY <1>5, <2>1, <2>2 DEF Within
<1>. QED
  BY <1>1, <1>2, <1>4, <1>5, <1>6 DEF rest

\* Every step keeps the order.
LEMMA OrderStep == TypeOK /\ OwnKit /\ Fresh /\ Order /\ [Next]_vars => Order'
<1>. SUFFICES ASSUME TypeOK, OwnKit, Fresh, Order, [Next]_vars PROVE Order'
  OBVIOUS
<1>0. \A k \in Kits : Newest(k) \in Nat /\ sent[k] \in Nat /\ cache[k] \in Nat /\ cache[k] <= Newest(k)
  BY Types DEF Newest, Order
<1>k. ASSUME UNCHANGED <<queue, received, cache, sent, publishing>> PROVE Order'
  BY <1>0, <1>k, OrderKept DEF Newest
<1>1. CASE UNCHANGED vars
  BY <1>1, <1>k DEF vars, taskVars, publisherVars
<1>2. ASSUME NEW s \in Subs, \/ Sub(s) \/ Reject(s) \/ Accept(s) \/ Lookup(s) \/ Create(s)
                             \/ RecvLagged(s) \/ Tick(s) \/ Count(s) \/ Remove(s) \/ Close(s)
      PROVE  Order'
  <2>1. CASE Sub(s) \/ Reject(s) \/ Accept(s) \/ Close(s)
    BY <1>k, <2>1 DEF Sub, Reject, Accept, Close, taskVars, publisherVars
  <2>2. CASE Lookup(s) \/ Create(s)
    BY <1>k, <2>2 DEF Lookup, Create, SubscribeTo, publisherVars
  <2>3. CASE RecvLagged(s) \/ Tick(s) \/ Count(s) \/ Remove(s)
    BY <1>k, <2>3 DEF RecvLagged, Tick, TickAnd, Count, CountReceivers, Remove, publisherVars
  <2>. QED
    BY <1>2, <2>1, <2>2, <2>3
\* Steps of the task s, of which what it has sent and queued is still right.
<1>t. ASSUME NEW s \in Subs, UNCHANGED publisherVars, InOrder(s)',
             \A t \in Subs \ {s} : queue'[t] = queue[t] /\ received'[t] = received[t]
      PROVE  Order'
  BY <1>t DEF Order, InOrder, Newest, publisherVars
<1>3. ASSUME NEW s \in Subs, Dump(s) PROVE Order'
  <2>. DEFINE m == cache[KitOf[s]]
  <2>1. received[s] = <<>> /\ queue[s] = <<>> /\ UNCHANGED <<queue, publisherVars>>
    BY <1>3 DEF Dump, GoTo, Fresh, Early
  <2>2. \A t \in Subs \ {s} : received'[t] = received[t]
    BY <1>3, Types DEF Dump, Forward
  <2>3. received'[s] = <<>> \/ received'[s] = Append(<<>>, m)
    BY <1>3, <2>1, Types DEF Dump, Forward
  <2>4. m \in Nat /\ m <= Newest(KitOf[s])' /\ Newest(KitOf[s])' \in Nat
    BY <1>0, <2>1, Types DEF Newest, publisherVars
  <2>5. Sorted(<<>>) /\ Within(<<>>, m) /\ Within(<<>>, Newest(KitOf[s])')
    BY DEF Sorted, Within
  <2>6. Sorted(received'[s]) /\ Within(received'[s], Newest(KitOf[s])')
    <3>1. <<>> \in Seq(Nat)
      OBVIOUS
    <3>2. Sorted(Append(<<>>, m)) /\ Within(Append(<<>>, m), Newest(KitOf[s])')
      BY <2>4, <2>5, <3>1, AppendSorted
    <3>. QED
      BY <2>3, <2>5, <3>2
  <2>7. InOrder(s)'
    BY <2>1, <2>6 DEF InOrder, Sorted, Within
  <2>. QED
    BY <1>t, <2>1, <2>2, <2>7
<1>4. ASSUME NEW s \in Subs, Recv(s) PROVE Order'
  <2>. DEFINE m == Head(queue[s])
  <2>1. queue[s] # <<>> /\ queue[s] \in Seq(Nat) /\ received[s] \in Seq(Nat) /\ m \in Nat
        /\ Tail(queue[s]) \in Seq(Nat) /\ KitOf[s] \in Kits
    BY <1>4, Types DEF Recv
  <2>2. /\ Sorted(queue[s]) /\ Sorted(received[s]) /\ Within(received[s], m)
        /\ Within(queue[s], sent[KitOf[s]]) /\ Within(received[s], Newest(KitOf[s]))
        /\ \A i \in DOMAIN queue[s] : Within(received[s], queue[s][i])
    BY <2>1 DEF Order, InOrder
  <2>3. /\ queue'[s] = Tail(queue[s]) /\ received'[s] \in {received[s], Append(received[s], m)}
        /\ \A t \in Subs \ {s} : queue'[t] = queue[t] /\ received'[t] = received[t]
        /\ UNCHANGED publisherVars
    BY <1>4, Types DEF Recv, Forward
  <2>4. /\ Sorted(Tail(queue[s])) /\ \A i \in DOMAIN Tail(queue[s]) : m <= Tail(queue[s])[i]
        /\ Within(Tail(queue[s]), sent[KitOf[s]]) /\ m <= sent[KitOf[s]]
        /\ Values(Tail(queue[s])) \subseteq Values(queue[s])
    BY <2>1, <2>2, TailSorted
  <2>5. Newest(KitOf[s])' = Newest(KitOf[s]) /\ m <= Newest(KitOf[s])
    BY <1>0, <2>1, <2>3, <2>4 DEF Newest, publisherVars
  <2>6. \A i \in DOMAIN Tail(queue[s]) :
           Tail(queue[s])[i] \in Nat /\ Within(received[s], Tail(queue[s])[i])
    BY <2>1, <2>2, <2>4 DEF Values
  <2>. DEFINE r == Append(received[s], m)
  <2>7. /\ Sorted(r) /\ Within(r, Newest(KitOf[s]))
        /\ \A i \in DOMAIN Tail(queue[s]) : Within(r, Tail(queue[s])[i])
    BY <1>0, <2>1, <2>2, <2>4, <2>5, <2>6, AppendSorted
  <2>. HIDE DEF r
  <2>8. InOrder(s)'
    <3>1. CASE received'[s] = received[s]
      BY <2>2, <2>3, <2>4, <2>5, <2>6, <3>1 DEF InOrder, publisherVars
    <3>2. CASE received'[s] = r
      BY <2>3, <2>4, <2>5, <2>7, <3>2 DEF InOrder, publisherVars
    <3>. QED
      BY <2>3, <3>1, <3>2 DEF r
  <2>. QED
    BY <1>t, <2>3, <2>8
<1>5. ASSUME NEW s \in Subs, DropReceiver(s) PROVE Order'
  <2>1. queue'[s] = <<>> /\ received' = received /\ UNCHANGED publisherVars
        /\ \A t \in Subs \ {s} : queue'[t] = queue[t]
    BY <1>5, Types DEF DropReceiver
  <2>2. InOrder(s)'
    BY <2>1 DEF Order, InOrder, Sorted, Within, Newest, publisherVars
  <2>. QED
    BY <1>t, <2>1, <2>2
<1>6. ASSUME NEW k \in Kits, PublishCache(k) \/ CleanCache(k) PROVE Order'
  <2>1. UNCHANGED <<queue, received, sent>>
    BY <1>6 DEF PublishCache, CleanCache, taskVars
  <2>2. \A l \in Kits : Newest(l) <= Newest(l)'
    BY <1>0, <1>6, SubsAssumption DEF PublishCache, CleanCache, Newest
  <2>3. \A l \in Kits : cache'[l] <= Newest(l)'
    <3>1. CASE PublishCache(k)
      <4>1. \A l \in Kits : cache'[l] = IF l = k THEN sent[k] + 1 ELSE cache[l]
        BY <3>1, Types DEF PublishCache
      <4>. QED
        BY <1>0, <3>1, <4>1, SubsAssumption DEF PublishCache, Newest
    <3>2. CASE CleanCache(k)
      <4>1. \A l \in Kits : cache'[l] = IF l = k THEN 0 ELSE cache[l]
        BY <3>2, Types DEF CleanCache
      <4>. QED
        BY <1>0, <3>2, <4>1 DEF CleanCache, Newest
    <3>. QED
      BY <1>6, <3>1, <3>2
  <2>. QED
    BY <2>1, <2>2, <2>3, OrderKept
<1>7. CASE PublishSend
  <2>. DEFINE k == publishing
              m == sent[k] + 1
  <2>1. /\ k \in Kits /\ k # None /\ publishing' = None
        /\ UNCHANGED <<received, cache>>
        /\ \A l \in Kits : sent'[l] = IF l = k THEN m ELSE sent[l]
        /\ \A s \in Subs \ Listening : queue'[s] = queue[s]
    BY <1>7, Types DEF PublishSend, SendTo
  <2>2. \A l \in Kits : Newest(l)' = Newest(l) /\ sent[l] <= sent'[l] /\ sent'[l] \in Nat
    BY <1>0, <2>1, SubsAssumption DEF Newest
  <2>3. ASSUME NEW s \in Subs PROVE InOrder(s)'
    <3>1. InOrder(s) /\ KitOf[s] \in Kits /\ queue[s] \in Seq(Nat) /\ received[s] \in Seq(Nat)
      BY Types DEF Order
    <3>2. CASE s \notin Listening
      <4>1. \A i \in DOMAIN queue[s] : queue[s][i] \in Nat
        BY <3>1
      <4>2. Within(queue[s], sent'[KitOf[s]])
        BY <1>0, <2>2, <3>1, <4>1 DEF InOrder, Within
      <4>. QED
        BY <2>1, <2>2, <3>1, <3>2, <4>2 DEF InOrder
    <3>3. CASE s \in Listening
      <4>. DEFINE rest == IF s \in Full THEN Tail(queue[s]) ELSE queue[s]
      <4>1. KitOf[s] = k
        BY <2>1, <3>3, ListeningOwn
      <4>2. /\ m \in Nat /\ rest \in Seq(Nat) /\ queue'[s] = Append(rest, m)
            /\ Sorted(rest) /\ Within(rest, m) /\ Values(rest) \subseteq Values(queue[s])
        BY <1>7, <3>1, <3>3, <4>1, SentQueue DEF InOrder
      <4>. HIDE DEF rest
      <4>3. /\ Sorted(queue'[s]) /\ Within(queue'[s], m)
            /\ Values(queue'[s]) = Values(rest) \cup {m}
        BY <4>2, AppendSorted
      <4>4. Within(received[s], m)
        <5>1. Newest(k) = m
          BY <2>1 DEF Newest
        <5>. QED
          BY <3>1, <4>1, <5>1 DEF InOrder
      <4>5. \A i \in DOMAIN queue'[s] : Within(received[s], queue'[s][i])
        <5>1. \A v \in Values(queue[s]) : Within(received[s], v)
          BY <3>1 DEF InOrder, Values
        <5>2. \A v \in Values(queue'[s]) : Within(received[s], v)
          BY <4>2, <4>3, <4>4, <5>1
        <5>. QED
          BY <5>2 DEF Values
      <4>. QED
        BY <2>1, <2>2, <3>1, <4>1, <4>3, <4>5 DEF InOrder
    <3>. QED
      BY <3>2, <3>3
  <2>. QED
    BY <1>0, <2>1, <2>2, <2>3 DEF Order
<1>. QED
  BY <1>1, <1>2, <1>3, <1>4, <1>5, <1>6, <1>7 DEF Next, TaskStep

\* A task that forwards has a receiver.
Subscribed == \A s \in Subs : pc[s] = "forward" => channel[s] # None

LEMMA SubscribedStep == TypeOK /\ Subscribed /\ [Next]_vars => Subscribed'
<1>. SUFFICES ASSUME TypeOK, Subscribed, [Next]_vars PROVE Subscribed'
  OBVIOUS
<1>. USE SubsAssumption, Types DEF Subscribed
<1>1. CASE UNCHANGED vars
  BY <1>1 DEF vars, taskVars
<1>2. ASSUME NEW s \in Subs, UNCHANGED channel, \A t \in Subs : pc'[t] = "forward" => pc[t] = "forward"
      PROVE  Subscribed'
  BY <1>2
<1>3. ASSUME NEW s \in Subs, \/ Sub(s) \/ Reject(s) \/ Accept(s) \/ Dump(s) \/ Count(s) \/ Remove(s)
      PROVE  Subscribed'
  BY <1>2, <1>3 DEF Sub, Reject, Accept, Dump, Count, CountReceivers, Remove, GoTo, After
<1>4. ASSUME NEW s \in Subs, RecvLagged(s) \/ Recv(s) \/ Tick(s) PROVE Subscribed'
  BY <1>2, <1>4 DEF RecvLagged, Recv, Tick, TickAnd, GoTo
<1>5. ASSUME NEW s \in Subs, Lookup(s) \/ Create(s) PROVE Subscribed'
  <2>1. \A t \in Subs \ {s} : pc'[t] = pc[t] /\ channel'[t] = channel[t]
    BY <1>5 DEF Lookup, Create, SubscribeTo, GoTo
  <2>2. pc'[s] = "forward" => channel'[s] # None
    BY <1>5 DEF Lookup, Create, SubscribeTo, GoTo
  <2>. QED
    BY <2>1, <2>2
<1>6. ASSUME NEW s \in Subs, DropReceiver(s) PROVE Subscribed'
  BY <1>6 DEF DropReceiver, GoTo
<1>7. ASSUME NEW s \in Subs, Close(s) PROVE Subscribed'
  BY <1>7 DEF Close, taskVars
<1>8. ASSUME NEW k \in Kits, PublishCache(k) \/ CleanCache(k) PROVE Subscribed'
  BY <1>8 DEF PublishCache, CleanCache, taskVars
<1>9. CASE PublishSend
  BY <1>9 DEF PublishSend, SendTo
<1>. QED
  BY <1>1, <1>3, <1>4, <1>5, <1>6, <1>7, <1>8, <1>9 DEF Next, TaskStep

\* The receiver of s is of the registered channel and has not lagged.
InTouch(s) ==
    /\ pc[s] = "forward" /\ open[s]
    /\ listeners[KitOf[s]] = channel[s]
    /\ lagged[s] = "no"

Held(s) == Values(received[s]) \cup Values(queue[s])

\* A receiver of the registered channel has all that was sent since it was made.
RegisteredHears == \A s \in Subs : InTouch(s) => since[s] + 1 .. sent[KitOf[s]] \subseteq Held(s)

\* Every step keeps the receivers in touch up to date.
LEMMA GapStep ==
  ASSUME TypeOK, OwnKit, Fresh, Subscribed, Order, RegisteredHears, [Next]_vars
  PROVE  RegisteredHears'
<1>. SUFFICES ASSUME NEW s \in Subs, InTouch(s)'
              PROVE  since'[s] + 1 .. sent'[KitOf[s]] \subseteq Held(s)'
  BY DEF RegisteredHears
<1>0. InTouch(s) => since[s] + 1 .. sent[KitOf[s]] \subseteq Held(s)
  BY DEF RegisteredHears
<1>. USE SubsAssumption, Types
\* Steps that leave s in touch as it was.
<1>k. ASSUME InTouch(s), since'[s] = since[s], sent' = sent, Held(s) \subseteq Held(s)'
      PROVE  since'[s] + 1 .. sent'[KitOf[s]] \subseteq Held(s)'
  BY <1>0, <1>k
<1>1. CASE UNCHANGED vars
  BY <1>1, <1>k DEF vars, taskVars, publisherVars, InTouch, Held
<1>2. ASSUME NEW t \in Subs, Sub(t) \/ Reject(t) \/ Accept(t)
      PROVE  since'[s] + 1 .. sent'[KitOf[s]] \subseteq Held(s)'
  BY <1>2, <1>k DEF Sub, Reject, Accept, GoTo, After, InTouch, Held, publisherVars
<1>3. ASSUME NEW t \in Subs, Dump(t)
      PROVE  since'[s] + 1 .. sent'[KitOf[s]] \subseteq Held(s)'
  <2>1. s # t
    BY <1>3 DEF Dump, GoTo, After, InTouch
  <2>2. received'[s] = received[s] /\ pc'[s] = pc[s]
    BY <1>3, <2>1 DEF Dump, Forward, GoTo
  <2>. QED
    BY <1>3, <1>k, <2>2 DEF Dump, InTouch, Held, publisherVars
<1>4. ASSUME NEW t \in Subs, Lookup(t) \/ Create(t)
      PROVE  since'[s] + 1 .. sent'[KitOf[s]] \subseteq Held(s)'
  <2>1. UNCHANGED <<queue, lagged, received, open, sent>>
    BY <1>4 DEF Lookup, Create, SubscribeTo, publisherVars
  <2>2. CASE s = t
    <3>1. since'[s] = sent[KitOf[s]] /\ sent[KitOf[s]] \in Nat
      BY <1>4, <2>2 DEF Lookup, Create, SubscribeTo
    <3>. QED
      BY <2>1, <3>1
  <2>3. CASE s # t
    <3>1. pc'[s] = pc[s] /\ channel'[s] = channel[s] /\ since'[s] = since[s]
      BY <1>4, <2>3 DEF Lookup, Create, SubscribeTo, GoTo
    <3>2. listeners'[KitOf[s]] = listeners[KitOf[s]] \/ (listeners'[KitOf[s]] = t /\ pc[t] = "create")
      BY <1>4 DEF Lookup, Create, GoTo
    <3>3. channel[s] = t => pc[t] # "create"
      BY DEF Fresh, Early
    <3>4. InTouch(s)
      BY <2>1, <3>1, <3>2, <3>3 DEF InTouch
    <3>. QED
      BY <1>k, <2>1, <3>1, <3>4 DEF Held
  <2>. QED
    BY <2>2, <2>3
<1>5. ASSUME NEW t \in Subs, RecvLagged(t) \/ Tick(t)
      PROVE  since'[s] + 1 .. sent'[KitOf[s]] \subseteq Held(s)'
  <2>1. InTouch(s)
    BY <1>5 DEF RecvLagged, Tick, TickAnd, GoTo, InTouch
  <2>. QED
    BY <1>5, <1>k, <2>1 DEF RecvLagged, Tick, TickAnd, Held, publisherVars
<1>6. ASSUME NEW t \in Subs, Recv(t)
      PROVE  since'[s] + 1 .. sent'[KitOf[s]] \subseteq Held(s)'
  <2>1. InTouch(s) /\ since' = since /\ sent' = sent
    BY <1>6 DEF Recv, GoTo, InTouch, publisherVars
  <2>2. CASE s # t
    <3>1. received'[s] = received[s] /\ queue'[s] = queue[s]
      BY <1>6, <2>2 DEF Recv, Forward
    <3>. QED
      BY <1>k, <2>1, <3>1 DEF Held
  <2>3. CASE s = t
    <3>. DEFINE m == Head(queue[s])
    <3>1. /\ queue[s] # <<>> /\ queue[s] \in Seq(Nat) /\ received[s] \in Seq(Nat)
          /\ received'[s] = Append(received[s], m) /\ queue'[s] = Tail(queue[s])
      BY <1>6, <2>1, <2>3 DEF Recv, Forward, InTouch
    <3>2. m \in Nat /\ InOrder(s) /\ Within(received[s], m)
      BY <3>1 DEF Order, InOrder
    <3>3. Values(received'[s]) = Values(received[s]) \cup {m}
      BY <3>1, <3>2, AppendSorted DEF InOrder
    <3>4. Values(queue[s]) = Values(queue'[s]) \cup {m}
      BY <3>1, <3>2, TailSorted DEF InOrder
    <3>. QED
      BY <1>k, <2>1, <3>3, <3>4 DEF Held
  <2>. QED
    BY <2>2, <2>3
<1>7. ASSUME NEW t \in Subs, DropReceiver(t) \/ Count(t) \/ Remove(t)
      PROVE  since'[s] + 1 .. sent'[KitOf[s]] \subseteq Held(s)'
  <2>1. s # t
    BY <1>7 DEF DropReceiver, Count, CountReceivers, Remove, GoTo, InTouch
  <2>2. /\ pc'[s] = pc[s] /\ channel'[s] = channel[s] /\ queue'[s] = queue[s]
        /\ UNCHANGED <<lagged, received, since, open, sent>>
    BY <1>7, <2>1 DEF DropReceiver, Count, CountReceivers, Remove, GoTo, publisherVars
  <2>3. listeners'[KitOf[s]] \in {listeners[KitOf[s]], None}
    BY <1>7 DEF DropReceiver, Count, CountReceivers, Remove
  <2>4. InTouch(s)
    BY <2>2, <2>3 DEF InTouch, Subscribed
  <2>. QED
    BY <1>k, <2>2, <2>4 DEF Held
<1>8. ASSUME NEW t \in Subs, Close(t)
      PROVE  since'[s] + 1 .. sent'[KitOf[s]] \subseteq Held(s)'
  BY <1>8, <1>k DEF Close, InTouch, Held, taskVars, publisherVars
<1>9. ASSUME NEW k \in Kits, PublishCache(k) \/ CleanCache(k)
      PROVE  since'[s] + 1 .. sent'[KitOf[s]] \subseteq Held(s)'
  BY <1>9, <1>k DEF PublishCache, CleanCache, InTouch, Held, taskVars
<1>10. CASE PublishSend
  <2>. DEFINE k == publishing
              m == sent[k] + 1
  <2>1. /\ UNCHANGED <<pc, open, channel, received, since, listeners>>
        /\ k \in Kits /\ k # None /\ m \in Nat
        /\ \A l \in Kits : sent'[l] = IF l = k THEN m ELSE sent[l]
        /\ \A t \in Subs \ Listening : queue'[t] = queue[t]
        /\ lagged'[s] = IF s \in Listening \cap Full THEN "yes" ELSE lagged[s]
    BY <1>10 DEF PublishSend, SendTo
  <2>2. InTouch(s) /\ s \notin Listening \cap Full
    BY <2>1 DEF InTouch
  <2>3. CASE s \in Listening
    <3>1. KitOf[s] = k
      BY <2>1, <2>3, ListeningOwn
    <3>2. InOrder(s) /\ queue[s] \in Seq(Nat)
      BY DEF Order
    <3>3. queue'[s] = Append(queue[s], m) /\ Within(queue[s], m)
      BY <1>10, <2>2, <2>3, <3>1, <3>2, SentQueue DEF InOrder
    <3>4. Values(queue'[s]) = Values(queue[s]) \cup {m}
      BY <2>1, <3>2, <3>3, AppendSorted DEF InOrder
    <3>5. since[s] + 1 .. m \subseteq (since[s] + 1 .. sent[k]) \cup {m}
      BY <2>1
    <3>. QED
      BY <1>0, <2>1, <2>2, <3>1, <3>4, <3>5 DEF Held
  <2>4. CASE s \notin Listening
    <3>1. KitOf[s] # k
      BY <2>1, <2>2, <2>4 DEF InTouch, Listening, Receivers, Subscribed
    <3>. QED
      BY <1>0, <2>1, <2>2, <2>4, <3>1 DEF Held
  <2>. QED
    BY <2>3, <2>4
<1>. QED
  BY <1>1, <1>2, <1>3, <1>4, <1>5, <1>6, <1>7, <1>8, <1>9, <1>10 DEF Next, TaskStep

\* A task has dropped its receiver when it counts and when it removes.
Dropped == \A s \in Subs : pc[s] \in {"count", "remove"} => channel[s] = None

LEMMA DroppedStep == TypeOK /\ Dropped /\ [Next]_vars => Dropped'
<1>. SUFFICES ASSUME TypeOK, Dropped, [Next]_vars PROVE Dropped'
  OBVIOUS
<1>. USE SubsAssumption, Types DEF Dropped
<1>1. CASE UNCHANGED vars
  BY <1>1 DEF vars, taskVars
<1>2. ASSUME UNCHANGED channel,
             \A t \in Subs : pc'[t] \in {"count", "remove"} => pc[t] \in {"count", "remove"}
      PROVE  Dropped'
  BY <1>2
<1>3. ASSUME NEW s \in Subs, \/ Sub(s) \/ Reject(s) \/ Accept(s) \/ Dump(s) \/ Count(s) \/ Remove(s)
      PROVE  Dropped'
  BY <1>2, <1>3 DEF Sub, Reject, Accept, Dump, Count, CountReceivers, Remove, GoTo, After
<1>4. ASSUME NEW s \in Subs, RecvLagged(s) \/ Recv(s) \/ Tick(s) PROVE Dropped'
  BY <1>2, <1>4 DEF RecvLagged, Recv, Tick, TickAnd, GoTo
<1>5. ASSUME NEW s \in Subs, Lookup(s) \/ Create(s) PROVE Dropped'
  <2>1. \A t \in Subs \ {s} : pc'[t] = pc[t] /\ channel'[t] = channel[t]
    BY <1>5 DEF Lookup, Create, SubscribeTo, GoTo
  <2>2. pc'[s] \in {"create", "forward"}
    BY <1>5 DEF Lookup, Create, GoTo, After
  <2>. QED
    BY <2>1, <2>2
<1>6. ASSUME NEW s \in Subs, DropReceiver(s) PROVE Dropped'
  BY <1>6 DEF DropReceiver, GoTo
<1>7. CASE (\E s \in Subs : Close(s)) \/ (\E k \in Kits : PublishCache(k) \/ CleanCache(k)) \/ PublishSend
  BY <1>7, <1>2 DEF Close, PublishCache, CleanCache, PublishSend, SendTo, taskVars
<1>. QED
  BY <1>1, <1>3, <1>4, <1>5, <1>6, <1>7 DEF Next, TaskStep

\* A receiver made while no other task was changing the table is of the channel
\* that is registered, and no other task is about to change it: one that looks
\* the kit up finds the channel, and one that counts finds the receiver.
Undisturbed(s) ==
    channel[s] # None /\ ~raced[s]
    => listeners[KitOf[s]] = channel[s] /\ Changing(KitOf[s]) \subseteq {s}

Heard == \A s \in Subs : Undisturbed(s)

LEMMA HeardStep ==
  ASSUME TypeOK, Dropped, Heard, [Next]_vars
  PROVE  Heard'
<1>. SUFFICES ASSUME NEW s \in Subs, channel'[s] # None, ~raced'[s]
              PROVE  /\ listeners'[KitOf[s]] = channel'[s]
                     /\ \A t \in Subs \ {s} : KitOf[t] = KitOf[s] => pc'[t] \notin {"create", "remove"}
  BY DEF Heard, Undisturbed, Changing
<1>. DEFINE Now == /\ listeners'[KitOf[s]] = channel'[s]
                   /\ \A t \in Subs \ {s} : KitOf[t] = KitOf[s] => pc'[t] \notin {"create", "remove"}
<1>0. channel[s] # None /\ ~raced[s]
      => /\ listeners[KitOf[s]] = channel[s]
         /\ \A t \in Subs \ {s} : KitOf[t] = KitOf[s] => pc[t] \notin {"create", "remove"}
  BY DEF Heard, Undisturbed, Changing
<1>. USE SubsAssumption, Types
\* Steps that do not touch the table, nor lead a task to change it.
<1>k. ASSUME UNCHANGED <<channel, raced, listeners>>,
             \A t \in Subs : pc'[t] \in {"create", "remove"} => pc[t] \in {"create", "remove"}
      PROVE  Now
  BY <1>0, <1>k
<1>1. CASE UNCHANGED vars
  BY <1>1, <1>k DEF vars, taskVars
<1>2. ASSUME NEW t \in Subs, Sub(t) \/ Reject(t) \/ Accept(t) \/ Dump(t) PROVE Now
  BY <1>2, <1>k DEF Sub, Reject, Accept, Dump, GoTo, After
<1>3. ASSUME NEW t \in Subs, RecvLagged(t) \/ Recv(t) \/ Tick(t) PROVE Now
  BY <1>3, <1>k DEF RecvLagged, Recv, Tick, TickAnd, GoTo
<1>4. ASSUME NEW t \in Subs, Lookup(t) PROVE Now
  <2>1. /\ UNCHANGED listeners
        /\ \A u \in Subs \ {t} : pc'[u] = pc[u] /\ channel'[u] = channel[u] /\ raced'[u] = raced[u]
        /\ channel'[t] = listeners[KitOf[t]] /\ raced'[t] = (Changing(KitOf[t]) \ {t} # {})
        /\ pc'[t] = "create" => listeners[KitOf[t]] = None
        /\ pc'[t] \in {"create", "forward"}
    <3>1. raced' = [raced EXCEPT ![t] = Changing(KitOf[t]) \ {t} # {}] /\ raced \in [Subs -> BOOLEAN]
      BY <1>4 DEF Lookup, SubscribeTo, TypeOK
    <3>2. \A u \in Subs \ {t} : raced'[u] = raced[u]
      BY <3>1
    <3>3. raced'[t] = (Changing(KitOf[t]) \ {t} # {})
      BY <3>1, Zenon
    <3>. QED
      BY <1>4, <3>2, <3>3 DEF Lookup, SubscribeTo, GoTo, After
  <2>2. CASE s = t
    BY <2>1, <2>2 DEF Changing
  <2>3. CASE s # t
    BY <1>0, <2>1, <2>3
  <2>. QED
    BY <2>2, <2>3
<1>5. ASSUME NEW t \in Subs, Create(t) PROVE Now
  <2>1. /\ pc[t] = "create" /\ pc'[t] = "forward"
        /\ \A u \in Subs \ {t} : pc'[u] = pc[u] /\ channel'[u] = channel[u] /\ raced'[u] = raced[u]
        /\ channel'[t] = t /\ raced'[t] = (Changing(KitOf[t]) \ {t} # {})
        /\ \A k \in Kits : listeners'[k] = IF k = KitOf[t] THEN t ELSE listeners[k]
    <3>1. raced' = [raced EXCEPT ![t] = Changing(KitOf[t]) \ {t} # {}] /\ raced \in [Subs -> BOOLEAN]
      BY <1>5 DEF Create, SubscribeTo, TypeOK
    <3>2. \A u \in Subs \ {t} : raced'[u] = raced[u]
      BY <3>1
    <3>3. raced'[t] = (Changing(KitOf[t]) \ {t} # {})
      BY <3>1, Zenon
    <3>. QED
      BY <1>5, <3>2, <3>3 DEF Create, SubscribeTo, GoTo, After
  <2>2. CASE s = t
    BY <2>1, <2>2 DEF Changing
  <2>3. CASE s # t
    BY <1>0, <2>1, <2>3
  <2>. QED
    BY <2>2, <2>3
<1>6. ASSUME NEW t \in Subs, DropReceiver(t) PROVE Now
  <2>1. /\ s # t /\ UNCHANGED <<listeners, raced>> /\ channel'[s] = channel[s]
        /\ \A u \in Subs : pc'[u] = IF u = t THEN "count" ELSE pc[u]
    BY <1>6 DEF DropReceiver, GoTo
  <2>. QED
    BY <1>0, <2>1
<1>7. ASSUME NEW t \in Subs, Count(t) PROVE Now
  <2>1. /\ UNCHANGED <<channel, raced, listeners>> /\ pc[t] = "count"
        /\ \A u \in Subs \ {t} : pc'[u] = pc[u]
        /\ pc'[t] = "remove" => Cardinality(Receivers(listeners[KitOf[t]])) = 0
        /\ pc'[t] # "create"
    BY <1>7 DEF Count, CountReceivers, GoTo
  <2>2. s # t
    BY <2>1 DEF Dropped
  <2>3. KitOf[t] = KitOf[s] => pc'[t] # "remove"
    <3>. SUFFICES ASSUME KitOf[t] = KitOf[s] PROVE pc'[t] # "remove"
      OBVIOUS
    <3>1. s \in Receivers(listeners[KitOf[t]])
      BY <1>0, <2>1 DEF Receivers
    <3>2. IsFiniteSet(Receivers(listeners[KitOf[t]]))
      BY FiniteAssumption, FS_Subset DEF Receivers
    <3>3. Cardinality(Receivers(listeners[KitOf[t]])) # 0
      BY <3>1, <3>2, FS_EmptySet
    <3>. QED
      BY <2>1, <3>3
  <2>. QED
    BY <1>0, <2>1, <2>2, <2>3
<1>8. ASSUME NEW t \in Subs, Remove(t) PROVE Now
  <2>1. /\ UNCHANGED <<channel, raced>> /\ pc[t] = "remove"
        /\ \A u \in Subs : pc'[u] = IF u = t THEN "done" ELSE pc[u]
        /\ \A k \in Kits : listeners'[k] = IF k = KitOf[t] THEN None ELSE listeners[k]
    BY <1>8 DEF Remove, GoTo
  <2>2. s # t
    BY <2>1 DEF Dropped
  <2>. QED
    BY <1>0, <2>1, <2>2
<1>9. CASE (\E t \in Subs : Close(t)) \/ (\E k \in Kits : PublishCache(k) \/ CleanCache(k)) \/ PublishSend
  BY <1>9, <1>k DEF Close, PublishCache, CleanCache, PublishSend, SendTo, taskVars
<1>. QED
  BY <1>1, <1>2, <1>3, <1>4, <1>5, <1>6, <1>7, <1>8, <1>9 DEF Next, TaskStep

\* Where the channels are, and who has one, in every state.
LEMMA AlwaysFresh == Spec => [](Fresh /\ Subscribed)
<1>1. Init => Fresh /\ Subscribed
  BY DEF Init, Fresh, Early, Subscribed
<1>. QED
  BY <1>1, FreshStep, SubscribedStep, Typing, PTL DEF Spec

LEMMA AlwaysOrder == Spec => []Order
<1>1. Init => Order
  <2>. SUFFICES ASSUME Init PROVE Order
    OBVIOUS
  <2>1. ASSUME NEW s \in Subs PROVE InOrder(s)
    BY DEF Init, InOrder, Sorted, Within
  <2>2. \A k \in Kits : cache[k] <= Newest(k)
    BY SubsAssumption DEF Init, Newest
  <2>. QED
    BY <2>1, <2>2 DEF Order
<1>. QED
  BY <1>1, OrderStep, OwnKitInv, AlwaysFresh, Typing, PTL DEF Spec

\* What a client sees of a kit never goes back in time, whatever the kit's
\* publisher, the cache's cleaner and the other subscriptions do meanwhile.
\* The order of two steps makes it hold: the cache is dumped before there is a
\* receiver, and a measurement is cached before it is sent, so that what the
\* receiver will get is never older than what was dumped.
THEOREM InTime == Spec => []NeverGoesBack
<1>1. Order => NeverGoesBack
  BY DEF Order, InOrder, Sorted, NeverGoesBack
<1>. QED
  BY <1>1, AlwaysOrder, PTL

\* Nothing is lost in silence to a client that subscribed while no other task
\* of its kit was changing the table, however many subscriptions come and go
\* after it and however slow it is: it has or will be sent all that was sent
\* since, or it lagged and is told.  Two facts make it hold: a channel that has
\* been replaced or removed is never registered again, so that a receiver that
\* is in touch has been ever since; and only a task that stood between its look
\* at the table and its change to it can put a receiver out of touch.
THEOREM NothingMissed == Spec => []NoSilentGap
<1>1. Init => RegisteredHears /\ Dropped /\ Heard
  BY SubsAssumption DEF Init, RegisteredHears, InTouch, Dropped, Heard, Undisturbed
<1>2. TypeOK /\ OwnKit /\ Fresh /\ Subscribed /\ Order /\ RegisteredHears /\ [Next]_vars
         => RegisteredHears'
  BY GapStep
<1>3. TypeOK /\ Dropped /\ Heard /\ [Next]_vars => Heard'
  BY HeardStep
<1>4. Subscribed /\ RegisteredHears /\ Heard => NoSilentGap
  BY DEF Subscribed, RegisteredHears, Heard, Undisturbed, InTouch, Held, Values, NoSilentGap
<1>. QED
  BY <1>1, <1>2, <1>3, <1>4, DroppedStep, OwnKitInv, AlwaysFresh, AlwaysOrder, Typing, PTL DEF Spec
=============================================================================
