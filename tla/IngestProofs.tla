---------------------------- MODULE IngestProofs ----------------------------
(***************************************************************************)
(* Proofs about Ingest, for any number of runners, messages, peripherals   *)
(* and kits, and any number of deliveries and restarts.                    *)
(***************************************************************************)
EXTENDS Ingest, FiniteSetTheorems, TLAPS

Places == {"ready", "offered", "lookup", "query", "insert", "seen"}

\* Only a runner that waits for a task has none.
Tasks ==
    /\ intake \in [at : {"poll", "enqueue", "wait"}, message : Messages \cup {None}]
    /\ intake.at \in {"enqueue", "wait"} => intake.message \in Messages
    /\ runner \in [Runners -> [at : Places, message : Messages \cup {None}]]
    /\ \A r \in Runners : runner[r].at \notin {"ready", "offered"} => runner[r].message \in Messages
    /\ idle \in Seq(Runners)

\* What is in the cache is right, and stays there as long as a task may still
\* file its measurement under it.
CacheRight ==
    /\ cache \in [Peripherals -> Kits \cup {None}]
    /\ \A p \in Peripherals : cache[p] \in {None, KitOf[p]}

CheckedRight ==
    \A r \in Runners : runner[r].at \in {"insert", "seen"} =>
        LET m == runner[r].message IN
        cache[PeripheralOf[m]] = KitOf[PeripheralOf[m]] /\ KitOf[PeripheralOf[m]] = SenderOf[m]

Inv ==
    /\ Tasks /\ CacheRight /\ CheckedRight
    /\ DOMAIN stored \subseteq Messages
    /\ FiledUnderItsKit

\* Every runner's task is of the form the pool gives it.
LEMMA TasksStep == Tasks /\ [Next]_vars => Tasks'
<1>. SUFFICES ASSUME Tasks, [Next]_vars PROVE Tasks'
  OBVIOUS
<1>. USE MessagesAssumption DEF Tasks, Places, At, Free, poolVars
<1>1. CASE UNCHANGED vars
  BY <1>1 DEF vars
<1>2. ASSUME NEW m \in Messages, Take(m) PROVE Tasks'
  BY <1>2 DEF Take
<1>3. CASE Enqueue
  <2>1. Head(idle) \in Runners /\ Tail(idle) \in Seq(Runners)
    BY <1>3 DEF Enqueue, EnqueueAnd
  <2>. QED
    BY <1>3, <2>1 DEF Enqueue, EnqueueAnd
<1>4. CASE AwaitRunner
  BY <1>4 DEF AwaitRunner
<1>5. ASSUME NEW r \in Runners, Offer(r) PROVE Tasks'
  BY <1>5 DEF Offer, OfferAnd
<1>6. ASSUME NEW r \in Runners, NEW from \in {"lookup", "query", "insert", "seen"}, NEW to,
             Task(r, from, to),
             \/ to = Free
             \/ \E at \in {"query", "insert", "seen"} : to = At(at, runner[r].message)
      PROVE  Tasks'
  <2>1. runner[r].message \in Messages
    BY <1>6 DEF Task
  <2>2. to \in [at : Places, message : Messages \cup {None}]
        /\ (to.at \notin {"ready", "offered"} => to.message \in Messages)
    BY <1>6, <2>1
  <2>. QED
    BY <1>6, <2>2 DEF Task
<1>7. ASSUME NEW r \in Runners, Lookup(r) \/ Query(r) \/ Insert(r) \/ Seen(r) PROVE Tasks'
  <2>1. CASE Lookup(r)
    BY <2>1, <1>6 DEF Lookup, Checked
  <2>2. CASE Query(r)
    BY <2>2, <1>6 DEF Query, Checked
  <2>3. CASE Insert(r)
    BY <2>3, <1>6 DEF Insert, InsertThen
  <2>4. CASE Seen(r)
    BY <2>4, <1>6 DEF Seen
  <2>. QED
    BY <1>7, <2>1, <2>2, <2>3, <2>4
<1>8. CASE (\E p \in Peripherals : DeletePeripheral(p)) \/ LoseDatabase
  BY <1>8 DEF DeletePeripheral, LoseDatabase
<1>9. CASE Restart
  BY <1>9 DEF Restart
<1>. QED
  BY <1>1, <1>2, <1>3, <1>4, <1>5, <1>7, <1>8, <1>9 DEF Next, IntakeStep, RunnerStep

\* A task reaches the insertion only with the cache filled from the database
\* and compared, and no step but a restart empties the cache.
LEMMA AlwaysInv == Spec => []Inv
<1>. USE MessagesAssumption
<1>1. Init => Inv
  BY DEF Init, Inv, Tasks, Places, CacheRight, CheckedRight, FiledUnderItsKit, At, Free, Empty
<1>2. Inv /\ [Next]_vars => Inv'
  <2>. SUFFICES ASSUME Inv, [Next]_vars PROVE Inv'
    OBVIOUS
  <2>t. Tasks'
    BY TasksStep DEF Inv
  <2>. USE DEF Inv, CacheRight, CheckedRight, FiledUnderItsKit, poolVars, databaseVars
  <2>1. CASE UNCHANGED vars
    BY <2>1, <2>t DEF vars
  <2>2. ASSUME NEW m \in Messages, Take(m) PROVE Inv'
    BY <2>2, <2>t DEF Take
  <2>3. CASE Enqueue
    BY <2>3, <2>t DEF Enqueue, EnqueueAnd, Tasks, At
  <2>4. CASE AwaitRunner
    BY <2>4, <2>t DEF AwaitRunner
  <2>5. ASSUME NEW r \in Runners, Offer(r) PROVE Inv'
    BY <2>5, <2>t DEF Offer, OfferAnd, At, Tasks
  <2>6. ASSUME NEW r \in Runners, Lookup(r) PROVE Inv'
    BY <2>6, <2>t DEF Lookup, Task, Checked, Tasks, At, Free
  <2>7. ASSUME NEW r \in Runners, Query(r) PROVE Inv'
    <3>1. runner[r].message \in Messages /\ PeripheralOf[runner[r].message] \in Peripherals
      BY <2>7 DEF Query, Task, Tasks
    <3>2. CacheRight'
      BY <2>7, <3>1 DEF Query, Fill
    <3>3. CheckedRight'
      BY <2>7, <3>1 DEF Query, Task, Checked, Fill, Tasks, At, Free
    <3>. QED
      BY <2>7, <2>t, <3>2, <3>3 DEF Query
  <2>8. ASSUME NEW r \in Runners, Insert(r) PROVE Inv'
    <3>1. runner[r].message \in Messages /\ runner[r].at = "insert"
      BY <2>8 DEF Insert, InsertThen, Task, Tasks
    <3>2. CheckedRight' /\ CacheRight'
      BY <2>8, <3>1 DEF Insert, InsertThen, Task, Tasks, At, Free
    <3>3. DOMAIN stored' \subseteq Messages /\ FiledUnderItsKit'
      <4>. DEFINE m == runner[r].message
      <4>1. cache[PeripheralOf[m]] = KitOf[PeripheralOf[m]] /\ KitOf[PeripheralOf[m]] = SenderOf[m]
        BY <3>1
      <4>2. CASE stored' = stored
        BY <4>2
      <4>3. CASE stored' = [n \in DOMAIN stored \cup {m} |->
                              IF n = m THEN cache[PeripheralOf[m]] ELSE stored[n]]
        BY <3>1, <4>1, <4>3
      <4>. QED
        BY <2>8, <4>2, <4>3 DEF Insert, InsertThen
    <3>. QED
      BY <2>t, <3>2, <3>3
  <2>9. ASSUME NEW r \in Runners, Seen(r) PROVE Inv'
    BY <2>9, <2>t DEF Seen, Task, Tasks, Free
  <2>10. CASE (\E p \in Peripherals : DeletePeripheral(p)) \/ LoseDatabase
    <3>1. UNCHANGED <<poolVars, runner, cache>>
      BY <2>10 DEF DeletePeripheral, LoseDatabase
    <3>2. DOMAIN stored' \subseteq DOMAIN stored /\ \A m \in DOMAIN stored' : stored'[m] = stored[m]
      <4>1. CASE LoseDatabase
        BY <4>1 DEF LoseDatabase
      <4>2. ASSUME NEW p \in Peripherals, DeletePeripheral(p)
            PROVE  DOMAIN stored' \subseteq DOMAIN stored
                   /\ \A m \in DOMAIN stored' : stored'[m] = stored[m]
        BY <4>2 DEF DeletePeripheral
      <4>. QED
        BY <2>10, <4>1, <4>2
    <3>3. CacheRight' /\ CheckedRight'
      BY <3>1
    <3>4. DOMAIN stored' \subseteq Messages /\ FiledUnderItsKit'
      BY <3>2
    <3>. QED
      BY <2>t, <3>3, <3>4
  <2>11. CASE Restart
    BY <2>11, <2>t DEF Restart, Free, Empty
  <2>. QED
    BY <2>1, <2>2, <2>3, <2>4, <2>5, <2>6, <2>7, <2>8, <2>9, <2>10, <2>11
       DEF Next, IntakeStep, RunnerStep
<1>. QED
  BY <1>1, <1>2, PTL DEF Spec

\* A measurement is filed under the kit that sent it and that its peripheral
\* belongs to.
THEOREM FiledRight == Spec => []FiledUnderItsKit
<1>1. Inv => FiledUnderItsKit
  BY DEF Inv
<1>. QED
  BY <1>1, AlwaysInv, PTL

-----------------------------------------------------------------------------

\* The pool's queue holds the runners that offer themselves, each once.
Queue ==
    /\ \A i \in DOMAIN idle : runner[idle[i]].at = "offered"
    /\ \A i, j \in DOMAIN idle : idle[i] = idle[j] => i = j
    /\ \A r \in Runners : runner[r].at = "offered" => \E i \in DOMAIN idle : idle[i] = r

\* What a runner's step may do to the queue: nothing.
LEMMA TaskQueue ==
  ASSUME Tasks, Queue, NEW r \in Runners, NEW from, NEW to, from # "offered",
         Task(r, from, to), to.at # "offered"
  PROVE  Queue'
<1>1. idle' = idle /\ runner' = [runner EXCEPT ![r] = to] /\ runner[r].at = from
  BY DEF Task, poolVars
<1>2. \A q \in Runners : runner'[q] = IF q = r THEN to ELSE runner[q]
  BY <1>1 DEF Tasks
<1>3. \A i \in DOMAIN idle : idle[i] \in Runners
  BY DEF Tasks
<1>. QED
  BY <1>1, <1>2, <1>3 DEF Queue

\* A runner gets a task when it leaves the queue, and is in it when it offers
\* itself.
LEMMA QueueStep == Tasks /\ Queue /\ [Next]_vars => Queue'
<1>. SUFFICES ASSUME Tasks, Queue, [Next]_vars PROVE Queue'
  OBVIOUS
<1>1. CASE UNCHANGED vars
  BY <1>1 DEF vars, poolVars, Queue
<1>2. ASSUME NEW m \in Messages, Take(m) PROVE Queue'
  BY <1>2 DEF Take, Queue
<1>3. CASE Enqueue
  <2>1. /\ idle \in Seq(Runners) /\ idle # <<>> /\ idle' = Tail(idle)
        /\ runner' = [runner EXCEPT ![Head(idle)] = At("lookup", intake.message)]
    BY <1>3 DEF Enqueue, EnqueueAnd, Tasks
  <2>2. /\ Head(idle) = idle[1] /\ 1 \in DOMAIN idle
        /\ \A i \in DOMAIN idle' : i + 1 \in DOMAIN idle /\ idle'[i] = idle[i + 1] /\ i \in Nat
        /\ \A i \in DOMAIN idle : i # 1 => i - 1 \in DOMAIN idle' /\ idle'[i - 1] = idle[i]
    BY <2>1
  <2>3. \A r \in Runners : runner'[r] = IF r = idle[1] THEN At("lookup", intake.message)
                                        ELSE runner[r]
    BY <2>1, <2>2 DEF Tasks
  <2>4. \A i \in DOMAIN idle' : idle'[i] # idle[1] /\ idle'[i] \in Runners
    <3>. SUFFICES ASSUME NEW i \in DOMAIN idle' PROVE idle'[i] # idle[1] /\ idle'[i] \in Runners
      OBVIOUS
    <3>1. i + 1 # 1 /\ i \in 1..Len(idle')
      BY <2>1
    <3>. QED
      BY <2>1, <2>2, <3>1 DEF Queue
  <2>5. \A i \in DOMAIN idle' : runner'[idle'[i]].at = "offered"
    BY <2>2, <2>3, <2>4 DEF Queue
  <2>6. \A i, j \in DOMAIN idle' : idle'[i] = idle'[j] => i = j
    <3>. SUFFICES ASSUME NEW i \in DOMAIN idle', NEW j \in DOMAIN idle', idle'[i] = idle'[j]
                  PROVE  i = j
      OBVIOUS
    <3>1. i + 1 = j + 1 /\ i \in Nat /\ j \in Nat
      BY <2>2 DEF Queue
    <3>. QED
      BY <3>1
  <2>7. ASSUME NEW r \in Runners, runner'[r].at = "offered"
        PROVE  \E i \in DOMAIN idle' : idle'[i] = r
    <3>1. r # idle[1] /\ runner[r].at = "offered"
      BY <2>3, <2>7 DEF At
    <3>. QED
      BY <2>2, <3>1 DEF Queue
  <2>. QED
    BY <2>5, <2>6, <2>7 DEF Queue
<1>4. CASE AwaitRunner
  BY <1>4 DEF AwaitRunner, Queue
<1>5. ASSUME NEW r \in Runners, Offer(r) PROVE Queue'
  <2>1. /\ runner[r].at = "ready" /\ idle' = Append(idle, r) /\ idle \in Seq(Runners)
        /\ \A q \in Runners : runner'[q] = IF q = r THEN At("offered", None) ELSE runner[q]
    BY <1>5 DEF Offer, OfferAnd, Tasks
  <2>2. /\ DOMAIN idle' = DOMAIN idle \cup {Len(idle) + 1} /\ Len(idle) + 1 \notin DOMAIN idle
        /\ idle'[Len(idle) + 1] = r /\ \A i \in DOMAIN idle : idle'[i] = idle[i] /\ idle[i] \in Runners
    BY <2>1
  <2>3. \A i \in DOMAIN idle : idle[i] # r
    BY <2>1 DEF Queue
  <2>. QED
    BY <2>1, <2>2, <2>3 DEF Queue, At
<1>6. ASSUME NEW r \in Runners, Lookup(r) \/ Query(r) \/ Insert(r) \/ Seen(r) PROVE Queue'
  <2>1. CASE Lookup(r)
    BY <2>1, TaskQueue DEF Lookup, Checked, At, Free
  <2>2. CASE Query(r)
    BY <2>2, TaskQueue DEF Query, Checked, At, Free
  <2>3. CASE Insert(r)
    BY <2>3, TaskQueue DEF Insert, InsertThen, At, Free
  <2>4. CASE Seen(r)
    BY <2>4, TaskQueue DEF Seen, Free
  <2>. QED
    BY <1>6, <2>1, <2>2, <2>3, <2>4
<1>7. CASE (\E p \in Peripherals : DeletePeripheral(p)) \/ LoseDatabase
  BY <1>7 DEF DeletePeripheral, LoseDatabase, poolVars, Queue
<1>8. CASE Restart
  <2>1. idle' = <<>> /\ \A r \in Runners : runner'[r] = Free
    BY <1>8 DEF Restart
  <2>. QED
    BY <2>1 DEF Queue, Free
<1>. QED
  BY <1>1, <1>2, <1>3, <1>4, <1>5, <1>6, <1>7, <1>8 DEF Next, IntakeStep, RunnerStep

\* Only the two statements of a task and the loss of a peripheral change what
\* is stored, and a task leaves its second statement by doing it or cut short.
LEMMA SeenStep == Inv /\ Queue /\ KitSeen /\ [Next]_vars => KitSeen'
<1>. SUFFICES ASSUME Inv, Queue, KitSeen, [Next]_vars PROVE KitSeen'
  OBVIOUS
<1>. USE MessagesAssumption
\* Steps that store nothing and leave the runners at their second statement.
<1>k. ASSUME DOMAIN stored' \subseteq DOMAIN stored,
             \A m \in DOMAIN stored' : stored'[m] = stored[m],
             cut \subseteq cut', lastSeen \subseteq lastSeen',
             \A r \in Runners : runner[r].at = "seen" =>
                runner'[r] = runner[r] \/ runner[r].message \in cut'
      PROVE  KitSeen'
  <2>. SUFFICES ASSUME NEW m \in DOMAIN stored' \ cut', stored'[m] \notin lastSeen'
                PROVE  \E r \in Runners : runner'[r] = At("seen", m)
    BY DEF KitSeen
  <2>1. PICK r \in Runners : runner[r] = At("seen", m)
    BY <1>k DEF KitSeen
  <2>. QED
    BY <1>k, <2>1 DEF At
<1>t. ASSUME NEW r \in Runners, NEW from, NEW to, from # "seen", Task(r, from, to)
      PROVE  \A q \in Runners : runner[q].at = "seen" => runner'[q] = runner[q]
  BY <1>t DEF Task, Inv, Tasks
<1>1. CASE UNCHANGED vars
  BY <1>1, <1>k DEF vars, databaseVars
<1>2. ASSUME NEW m \in Messages, Take(m) PROVE KitSeen'
  BY <1>2, <1>k DEF Take, databaseVars
<1>3. CASE Enqueue
  <2>1. idle # <<>> /\ idle \in Seq(Runners)
        /\ runner' = [runner EXCEPT ![Head(idle)] = At("lookup", intake.message)]
        /\ UNCHANGED <<databaseVars, cut>>
    BY <1>3 DEF Enqueue, EnqueueAnd, Inv, Tasks
  <2>2. runner[Head(idle)].at = "offered"
    BY <2>1 DEF Queue
  <2>3. \A q \in Runners : runner[q].at = "seen" => runner'[q] = runner[q]
    BY <2>1, <2>2 DEF Inv, Tasks
  <2>. QED
    BY <1>k, <2>1, <2>3 DEF databaseVars
<1>4. CASE AwaitRunner
  BY <1>4, <1>k DEF AwaitRunner, databaseVars
<1>5. ASSUME NEW r \in Runners, Offer(r) PROVE KitSeen'
  <2>1. \A q \in Runners : runner[q].at = "seen" => runner'[q] = runner[q]
    BY <1>5 DEF Offer, OfferAnd, Inv, Tasks
  <2>. QED
    BY <1>5, <1>k, <2>1 DEF Offer, OfferAnd, databaseVars
<1>6. ASSUME NEW r \in Runners, Lookup(r) \/ Query(r) PROVE KitSeen'
  <2>1. \A q \in Runners : runner[q].at = "seen" => runner'[q] = runner[q]
    BY <1>6, <1>t DEF Lookup, Query
  <2>. QED
    BY <1>6, <1>k, <2>1 DEF Lookup, Query, databaseVars
<1>7. ASSUME NEW r \in Runners, Insert(r) PROVE KitSeen'
  <2>. DEFINE m == runner[r].message
              p == PeripheralOf[m]
  <2>1. \A q \in Runners : runner[q].at = "seen" => runner'[q] = runner[q]
    BY <1>7, <1>t DEF Insert, InsertThen
  <2>2. UNCHANGED <<lastSeen, cut>>
    BY <1>7 DEF Insert, InsertThen
  <2>3. CASE stored' = stored
    BY <1>k, <2>1, <2>2, <2>3
  <2>4. CASE /\ stored' = [n \in DOMAIN stored \cup {m} |-> IF n = m THEN cache[p] ELSE stored[n]]
             /\ runner' = [runner EXCEPT ![r] = At("seen", m)]
    <3>1. runner'[r] = At("seen", m)
      BY <2>4 DEF Inv, Tasks
    <3>2. ASSUME NEW n \in DOMAIN stored' \ cut', n # m, stored'[n] \notin lastSeen'
          PROVE  \E q \in Runners : runner'[q] = At("seen", n)
      <4>1. PICK q \in Runners : runner[q] = At("seen", n)
        BY <2>2, <2>4, <3>2 DEF KitSeen
      <4>. QED
        BY <2>1, <4>1 DEF At
    <3>. QED
      BY <3>1, <3>2 DEF KitSeen
  <2>. QED
    BY <1>7, <2>3, <2>4 DEF Insert, InsertThen, Task
<1>8. ASSUME NEW r \in Runners, Seen(r) PROVE KitSeen'
  <2>. DEFINE m == runner[r].message
  <2>1. /\ runner[r].at = "seen" /\ m \in Messages /\ stored' = stored
        /\ \A q \in Runners \ {r} : runner'[q] = runner[q]
        /\ cache[PeripheralOf[m]] = KitOf[PeripheralOf[m]]
    BY <1>8 DEF Seen, Task, Inv, Tasks, CheckedRight
  <2>2. CASE m \in cut' /\ cut \subseteq cut' /\ lastSeen' = lastSeen
    BY <1>k, <2>1, <2>2
  <2>3. CASE cut' = cut /\ lastSeen' = lastSeen \cup {KitOf[PeripheralOf[m]]}
    <3>. SUFFICES ASSUME NEW n \in DOMAIN stored \ cut, stored[n] \notin lastSeen'
                  PROVE  \E q \in Runners : runner'[q] = At("seen", n)
      BY <2>1, <2>3 DEF KitSeen
    <3>1. PICK q \in Runners : runner[q] = At("seen", n)
      BY <2>3 DEF KitSeen
    <3>2. stored[n] = KitOf[PeripheralOf[n]]
      BY DEF Inv, FiledUnderItsKit
    <3>3. q # r
      BY <2>3, <3>1, <3>2 DEF At
    <3>. QED
      BY <2>1, <3>1, <3>3
  <2>. QED
    BY <1>8, <2>1, <2>2, <2>3 DEF Seen
<1>9. CASE LoseDatabase
  BY <1>9, <1>k DEF LoseDatabase
<1>10. ASSUME NEW p \in Peripherals, DeletePeripheral(p) PROVE KitSeen'
  <2>1. DOMAIN stored' \subseteq DOMAIN stored /\ \A m \in DOMAIN stored' : stored'[m] = stored[m]
    BY <1>10 DEF DeletePeripheral
  <2>. QED
    BY <1>10, <1>k, <2>1 DEF DeletePeripheral
<1>11. CASE Restart
  <2>1. \A r \in Runners : runner[r].at = "seen" => runner[r].message \in cut'
    BY <1>11 DEF Restart
  <2>. QED
    BY <1>11, <1>k, <2>1 DEF Restart
<1>. QED
  BY <1>1, <1>2, <1>3, <1>4, <1>5, <1>6, <1>7, <1>8, <1>9, <1>10, <1>11
     DEF Next, IntakeStep, RunnerStep

\* The queue of the pool is right in every state.
LEMMA AlwaysQueue == Spec => []Queue
<1>1. Init => Queue
  BY DEF Init, Queue, Free
<1>2. Inv => Tasks
  BY DEF Inv
<1>. QED
  BY <1>1, <1>2, QueueStep, AlwaysInv, PTL DEF Spec

\* The kit of a stored measurement has been seen, unless the task that stored
\* it is at its second statement or has been cut short there.
THEOREM SeenAfterStored == Spec => []KitSeen
<1>1. Init => KitSeen
  BY DEF Init, KitSeen
<1>. QED
  BY <1>1, SeenStep, AlwaysInv, AlwaysQueue, PTL DEF Spec

\* What is stored belongs to a peripheral that is there: a row goes with it.
TypeOfDatabase ==
    /\ permit \in BOOLEAN /\ connected \in BOOLEAN
    /\ there \subseteq Peripherals
    /\ \A m \in DOMAIN stored : stored[m] \in Kits /\ PeripheralOf[m] \in there
    /\ lastSeen \subseteq Kits
    /\ taken \in [Messages -> 0..MaxTaken] /\ restarts \in 0..MaxRestarts
    /\ cut \subseteq Messages

LEMMA TypeOfDatabaseStep == Inv /\ TypeOfDatabase /\ [Next]_vars => TypeOfDatabase'
<1>. SUFFICES ASSUME Inv, TypeOfDatabase, [Next]_vars PROVE TypeOfDatabase'
  OBVIOUS
<1>. USE MessagesAssumption, BoundsAssumption DEF TypeOfDatabase
<1>1. CASE UNCHANGED vars
  BY <1>1 DEF vars, poolVars, databaseVars
<1>2. ASSUME NEW m \in Messages, Take(m) PROVE TypeOfDatabase'
  <2>1. taken[m] < MaxTaken /\ taken[m] \in Nat /\ taken' = [taken EXCEPT ![m] = @ + 1]
    BY <1>2 DEF Take
  <2>2. taken' \in [Messages -> 0..MaxTaken]
    BY <2>1
  <2>. QED
    BY <1>2, <2>2 DEF Take, databaseVars
<1>3. CASE Enqueue \/ AwaitRunner
  BY <1>3 DEF Enqueue, EnqueueAnd, AwaitRunner, databaseVars
<1>4. ASSUME NEW r \in Runners, Offer(r) PROVE TypeOfDatabase'
  BY <1>4 DEF Offer, OfferAnd, databaseVars
<1>5. ASSUME NEW r \in Runners, Lookup(r) \/ Query(r) PROVE TypeOfDatabase'
  BY <1>5 DEF Lookup, Query, Task, poolVars, databaseVars
<1>6. ASSUME NEW r \in Runners, Insert(r) PROVE TypeOfDatabase'
  <2>. DEFINE m == runner[r].message
  <2>1. m \in Messages /\ cache[PeripheralOf[m]] \in Kits
    BY <1>6 DEF Insert, InsertThen, Task, Inv, Tasks, CheckedRight
  <2>2. stored' = stored
        \/ /\ stored' = [n \in DOMAIN stored \cup {m} |->
                           IF n = m THEN cache[PeripheralOf[m]] ELSE stored[n]]
           /\ PeripheralOf[m] \in there
    BY <1>6 DEF Insert, InsertThen
  <2>3. \A n \in DOMAIN stored' : stored'[n] \in Kits /\ PeripheralOf[n] \in there
    BY <2>1, <2>2
  <2>. QED
    BY <1>6, <2>3 DEF Insert, InsertThen, Task, poolVars
<1>7. ASSUME NEW r \in Runners, Seen(r) PROVE TypeOfDatabase'
  <2>. DEFINE m == runner[r].message
  <2>1. m \in Messages /\ cache[PeripheralOf[m]] \in Kits
    BY <1>7 DEF Seen, Task, Inv, Tasks, CheckedRight
  <2>. QED
    BY <1>7, <2>1 DEF Seen, Task, poolVars
<1>8. CASE LoseDatabase
  BY <1>8 DEF LoseDatabase, poolVars
<1>9. ASSUME NEW p \in Peripherals, DeletePeripheral(p) PROVE TypeOfDatabase'
  <2>1. there' = there \ {p}
        /\ stored' = [m \in {n \in DOMAIN stored : PeripheralOf[n] # p} |-> stored[m]]
    BY <1>9 DEF DeletePeripheral
  <2>2. \A n \in DOMAIN stored' : stored'[n] \in Kits /\ PeripheralOf[n] \in there'
    BY <2>1
  <2>. QED
    BY <1>9, <2>1, <2>2 DEF DeletePeripheral, poolVars
<1>10. CASE Restart
  <2>1. restarts' \in 0..MaxRestarts
    BY <1>10 DEF Restart
  <2>2. \A r \in {q \in Runners : runner[q].at = "seen"} : runner[r].message \in Messages
    BY DEF Inv, Tasks
  <2>. QED
    BY <1>10, <2>1, <2>2 DEF Restart
<1>. QED
  BY <1>1, <1>2, <1>3, <1>4, <1>5, <1>6, <1>7, <1>8, <1>9, <1>10
     DEF Next, IntakeStep, RunnerStep

\* A runner is in the queue exactly while it offers itself, and once; the rest
\* has the shape of the code's data and of the schema.
THEOREM Typing == Spec => []TypeOK
<1>1. Init => TypeOfDatabase
  <2>1. 0 \in 0..MaxTaken /\ 0 \in 0..MaxRestarts
    BY BoundsAssumption
  <2>2. DOMAIN <<>> = {}
    OBVIOUS
  <2>. QED
    BY <2>1, <2>2 DEF Init, TypeOfDatabase
<1>2. Inv /\ Queue /\ TypeOfDatabase => TypeOK
  <2>. SUFFICES ASSUME Inv, Queue, TypeOfDatabase PROVE TypeOK
    OBVIOUS
  <2>1. ASSUME NEW r \in Runners
        PROVE  Cardinality({i \in DOMAIN idle : idle[i] = r})
                  = (IF runner[r].at = "offered" THEN 1 ELSE 0)
    <3>1. CASE runner[r].at = "offered"
      <4>1. PICK i \in DOMAIN idle : idle[i] = r
        BY <3>1 DEF Queue
      <4>2. {j \in DOMAIN idle : idle[j] = r} = {i}
        BY <4>1 DEF Queue
      <4>. QED
        BY <3>1, <4>2, FS_Singleton
    <3>2. CASE runner[r].at # "offered"
      <4>1. {j \in DOMAIN idle : idle[j] = r} = {}
        BY <3>2 DEF Queue
      <4>. QED
        BY <3>2, <4>1, FS_EmptySet
    <3>. QED
      BY <3>1, <3>2
  <2>2. \A r \in Runners : runner[r].at \in Places
    BY DEF Inv, Tasks
  <2>3. /\ intake.at \in {"poll", "enqueue", "wait"}
        /\ intake.message \in Messages \cup {None}
        /\ cache \in [Peripherals -> Kits \cup {None}]
    BY DEF Inv, Tasks, CacheRight
  <2>. QED
    BY <2>1, <2>2, <2>3 DEF TypeOK, TypeOfDatabase, Places
<1>. QED
  BY <1>1, <1>2, TypeOfDatabaseStep, AlwaysInv, AlwaysQueue, PTL DEF Spec
-----------------------------------------------------------------------------

\* Who waits for a runner has found the queue empty, and it has stayed so.
NobodyOffers == intake.at = "wait" => idle = <<>>

LEMMA WaitStep == Tasks /\ NobodyOffers /\ [Next]_vars => NobodyOffers'
<1>. SUFFICES ASSUME Tasks, NobodyOffers, [Next]_vars PROVE NobodyOffers'
  OBVIOUS
<1>. USE DEF At, NobodyOffers
<1>1. CASE UNCHANGED <<intake, idle>>
  BY <1>1
<1>2. ASSUME NEW m \in Messages, Take(m) PROVE intake'.at = "enqueue"
  BY <1>2 DEF Take
<1>3. CASE Enqueue
  BY <1>3 DEF Enqueue, EnqueueAnd
<1>4. CASE AwaitRunner
  BY <1>4 DEF AwaitRunner
<1>5. ASSUME NEW r \in Runners, Offer(r) PROVE intake'.at # "wait"
  BY <1>5 DEF Offer, OfferAnd
<1>6. ASSUME NEW r \in Runners, Lookup(r) \/ Query(r) \/ Insert(r) \/ Seen(r)
      PROVE  UNCHANGED <<intake, idle>>
  BY <1>6 DEF Lookup, Query, Insert, InsertThen, Seen, Task, poolVars
<1>7. ASSUME NEW p \in Peripherals, DeletePeripheral(p) PROVE UNCHANGED <<intake, idle>>
  BY <1>7 DEF DeletePeripheral, poolVars
<1>8. CASE LoseDatabase
  BY <1>1, <1>8 DEF LoseDatabase, poolVars
<1>9. CASE Restart
  BY <1>9 DEF Restart
<1>10. CASE UNCHANGED vars
  BY <1>1, <1>10 DEF vars, poolVars
<1>. QED
  BY <1>1, <1>2, <1>3, <1>4, <1>5, <1>6, <1>7, <1>8, <1>9, <1>10
     DEF Next, IntakeStep, RunnerStep

\* No offer is overlooked, for any number of runners: nothing happens between
\* the look at the queue and the wait, and an offer wakes who waits.
THEOREM NoOfferMissed == Spec => []OfferIsNoticed
<1>1. Init => NobodyOffers
  BY DEF Init, NobodyOffers, At
<1>2. Inv => Tasks
  BY DEF Inv
<1>3. Queue /\ NobodyOffers => OfferIsNoticed
  BY DEF Queue, NobodyOffers, OfferIsNoticed
<1>. QED
  BY <1>1, <1>2, <1>3, WaitStep, AlwaysInv, AlwaysQueue, PTL DEF Spec
=============================================================================
