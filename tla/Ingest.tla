------------------------------- MODULE Ingest -------------------------------
(***************************************************************************)
(* The ingest process (astroplant-mqtt-ingest): one task takes the         *)
(* measurements off the MQTT stream and hands each to an idle runner of a  *)
(* task pool, waiting for one when there is none.  A runner finds the kit  *)
(* of the measurement's peripheral, in a cache shared by all runners or in *)
(* the database, checks that it is the kit the measurement came from, and  *)
(* stores it, then notes that the kit has been seen.  Everything runs on   *)
(* one thread: tasks change hands only where they await.                   *)
(*                                                                         *)
(* An error of the stream ends the process, with all its tasks; it may be  *)
(* started again.  The API server deletes peripherals meanwhile.           *)
(***************************************************************************)
EXTENDS Integers, Sequences, FiniteSets

CONSTANTS
    Messages,       \* ids of measurements, raw or aggregate
    Peripherals,
    Kits,
    PeripheralOf,   \* the peripheral a measurement names
    SenderOf,       \* the kit whose topic it came on
    KitOf,          \* the kit of each peripheral
    Runners,        \* runners of the pool (8 in the code)
    MaxTaken,       \* bound: times a message is delivered (QoS at least once)
    MaxRestarts,    \* bound: starts of the process after the first
    None

ASSUME MessagesAssumption ==
    /\ PeripheralOf \in [Messages -> Peripherals]
    /\ SenderOf \in [Messages -> Kits] /\ KitOf \in [Peripherals -> Kits]
    /\ None \notin Messages \cup Kits
ASSUME BoundsAssumption == MaxTaken \in Nat /\ MaxRestarts \in Nat

VARIABLES
    intake,     \* the task that polls the stream: where it stands, the message
    idle,       \* LocalTaskPool::runners: runners that offer themselves
    permit,     \* LocalTaskPool::notify holds a permit
    runner,     \* where each runner stands, and the message of its task
    cache,      \* Db::config_cache: the kit of each peripheral, or None
    connected,  \* the connection to the database works
    there,      \* peripherals in the database
    stored,     \* measurements in the database, with the kit they are filed under
    lastSeen,   \* kits in kit_last_seen
    taken,      \* times each message has been taken off the stream
    restarts,   \* starts so far
    cut         \* ghost: stored, but their task was cut short or failed

poolVars == <<intake, idle, permit>>
databaseVars == <<connected, there, stored, lastSeen>>
vars == <<poolVars, runner, cache, databaseVars, taken, restarts, cut>>

-----------------------------------------------------------------------------

Free == [at |-> "ready", message |-> None]
At(where, m) == [at |-> where, message |-> m]
Empty == [p \in Peripherals |-> None]

Init ==
    /\ intake = At("poll", None)
    /\ idle = <<>>
    /\ permit = FALSE
    /\ runner = [r \in Runners |-> Free]
    /\ cache = Empty
    /\ connected = TRUE
    /\ there = Peripherals
    /\ stored = <<>>
    /\ lastSeen = {}
    /\ taken = [m \in Messages |-> 0]
    /\ restarts = 0
    /\ cut = {}

-----------------------------------------------------------------------------
(* The task that polls the stream: ingest, LocalTaskPool::enqueue. *)

Take(m) ==
    /\ intake.at = "poll"
    /\ taken[m] < MaxTaken
    /\ taken' = [taken EXCEPT ![m] = @ + 1]
    /\ intake' = At("enqueue", m)
    /\ UNCHANGED <<idle, permit, runner, cache, databaseVars, restarts, cut>>

EnqueueAnd(left) ==
    /\ intake.at = "enqueue" /\ idle # <<>>
    /\ runner' = [runner EXCEPT ![Head(idle)] = At("lookup", intake.message)]
    /\ idle' = left
    /\ intake' = At("poll", None)
    /\ UNCHANGED <<permit, cache, databaseVars, taken, restarts, cut>>

\* Mutant: the runner is not taken out of the queue.
EnqueuePeek == EnqueueAnd(idle)

\* The runner that has offered itself first gets the task.
Enqueue == EnqueueAnd(Tail(idle))

\* notified().await: a permit left by an earlier offer is used up at once.
AwaitRunner ==
    /\ intake.at = "enqueue" /\ idle = <<>>
    /\ permit' = FALSE
    /\ intake' = IF permit THEN intake ELSE At("wait", intake.message)
    /\ UNCHANGED <<idle, runner, cache, databaseVars, taken, restarts, cut>>

-----------------------------------------------------------------------------
(* The runners: LocalTaskPool::start. *)

OfferAnd(r, notified) ==
    /\ runner[r].at = "ready"
    /\ idle' = Append(idle, r)
    /\ runner' = [runner EXCEPT ![r] = At("offered", None)]
    /\ notified
    /\ UNCHANGED <<cache, databaseVars, taken, restarts, cut>>

\* Mutant: nobody is notified.
OfferSilently(r) == OfferAnd(r, UNCHANGED <<intake, permit>>)

\* A runner offers itself and notifies: who waits goes on, or else a permit is
\* left for who waits next.
Offer(r) ==
    OfferAnd(r, IF intake.at = "wait"
                  THEN intake' = At("enqueue", intake.message) /\ UNCHANGED permit
                  ELSE permit' = TRUE /\ UNCHANGED intake)

-----------------------------------------------------------------------------
(* The task of a measurement: Db::insert_raw, insert_aggregate.            *)

Task(r, from, to) ==
    /\ runner[r].at = from
    /\ runner' = [runner EXCEPT ![r] = to]
    /\ UNCHANGED <<poolVars, taken, restarts>>

\* Where the task goes on, knowing the kit of the peripheral: a measurement
\* that came from another kit is ignored.
Checked(m, k) == IF k = SenderOf[m] THEN At("insert", m) ELSE Free

\* config_and_kit looks in the cache.
Lookup(r) ==
    LET m == runner[r].message
        k == cache[PeripheralOf[m]]
    IN
    /\ Task(r, "lookup", IF k = None THEN At("query", m) ELSE Checked(m, k))
    /\ UNCHANGED <<cache, databaseVars, cut>>

\* The kit put in the cache for the peripheral of m, and then found there.
\* Mutant: it is taken from the topic of the measurement.
FillFromTopic(m) == SenderOf[m]
Fill(m) == KitOf[PeripheralOf[m]]

\* The database answers, and the cache is filled: other tasks may have filled
\* it meanwhile.  A peripheral that is not found is not cached.
Query(r) ==
    LET m == runner[r].message
        p == PeripheralOf[m]
    IN
    /\ Task(r, "query", IF connected /\ p \in there THEN Checked(m, Fill(m)) ELSE Free)
    /\ cache' = IF connected /\ p \in there THEN [cache EXCEPT ![p] = Fill(m)] ELSE cache
    /\ UNCHANGED <<databaseVars, cut>>

InsertThen(r, next) ==
    LET m == runner[r].message
        p == PeripheralOf[m]
        fails == ~connected \/ p \notin there \/ m \in DOMAIN stored
    IN
    /\ Task(r, "insert", IF fails THEN Free ELSE next)
    /\ stored' = IF fails THEN stored
                 ELSE [n \in DOMAIN stored \cup {m} |-> IF n = m THEN cache[p] ELSE stored[n]]
    /\ UNCHANGED <<cache, connected, there, lastSeen, cut>>

\* Mutant: the task ends when the measurement is stored.
InsertOnly(r) == InsertThen(r, Free)

\* The measurement is filed under what was found in the cache.  It fails when
\* the peripheral is gone (foreign keys) or the id is there (a redelivery);
\* the error is only logged.
Insert(r) == InsertThen(r, At("seen", runner[r].message))

\* The kit has been seen.
Seen(r) ==
    LET m == runner[r].message IN
    /\ Task(r, "seen", Free)
    /\ lastSeen' = IF connected THEN lastSeen \cup {cache[PeripheralOf[m]]} ELSE lastSeen
    /\ cut' = IF connected THEN cut ELSE cut \cup {m}
    /\ UNCHANGED <<cache, connected, there, stored>>

-----------------------------------------------------------------------------
(* The environment. *)

\* The API server deletes a peripheral, and its measurements with it.
DeletePeripheral(p) ==
    /\ p \in there
    /\ there' = there \ {p}
    /\ stored' = [m \in {n \in DOMAIN stored : PeripheralOf[n] # p} |-> stored[m]]
    /\ UNCHANGED <<poolVars, runner, cache, connected, lastSeen, taken, restarts, cut>>

\* The connection to the database breaks; it is not made again.
LoseDatabase ==
    /\ connected
    /\ connected' = FALSE
    /\ UNCHANGED <<poolVars, runner, cache, there, stored, lastSeen, taken, restarts, cut>>

\* The stream yields an error: ingest bails out, and the process ends with the
\* tasks that are running.  A supervisor starts it again.
Restart ==
    /\ intake.at = "poll"
    /\ restarts < MaxRestarts
    /\ restarts' = restarts + 1
    /\ intake' = At("poll", None) /\ idle' = <<>> /\ permit' = FALSE
    /\ cut' = cut \cup {runner[r].message : r \in {q \in Runners : runner[q].at = "seen"}}
    /\ runner' = [r \in Runners |-> Free]
    /\ cache' = Empty
    /\ connected' = TRUE
    /\ UNCHANGED <<there, stored, lastSeen, taken>>

-----------------------------------------------------------------------------

RunnerStep(r) == Offer(r) \/ Lookup(r) \/ Query(r) \/ Insert(r) \/ Seen(r)
IntakeStep == Enqueue \/ AwaitRunner

Next ==
    \/ \E m \in Messages : Take(m)
    \/ IntakeStep
    \/ \E r \in Runners : RunnerStep(r)
    \/ \E p \in Peripherals : DeletePeripheral(p)
    \/ LoseDatabase
    \/ Restart

Spec == Init /\ [][Next]_vars

\* A task that can run runs, and the database answers or fails.
Fairness == WF_vars(IntakeStep) /\ \A r \in Runners : WF_vars(RunnerStep(r))

FairSpec == Spec /\ Fairness

-----------------------------------------------------------------------------

\* The state has the shape of the code's data; a runner is in the queue exactly
\* while it offers itself, and once.
TypeOK ==
    /\ intake.at \in {"poll", "enqueue", "wait"}
    /\ intake.message \in Messages \cup {None}
    /\ \A r \in Runners :
          /\ runner[r].at \in {"ready", "offered", "lookup", "query", "insert", "seen"}
          /\ Cardinality({i \in DOMAIN idle : idle[i] = r})
                = (IF runner[r].at = "offered" THEN 1 ELSE 0)
    /\ permit \in BOOLEAN /\ connected \in BOOLEAN
    /\ cache \in [Peripherals -> Kits \cup {None}]
    /\ there \subseteq Peripherals
    /\ \A m \in DOMAIN stored : stored[m] \in Kits /\ PeripheralOf[m] \in there
    /\ lastSeen \subseteq Kits
    /\ taken \in [Messages -> 0..MaxTaken] /\ restarts \in 0..MaxRestarts
    /\ cut \subseteq Messages

\* A measurement is filed under the kit that sent it and that its peripheral
\* belongs to, whatever was in the cache, whichever task put it there, and
\* however long ago: measurements that name another kit's peripheral are
\* ignored and do not mislead later ones.
FiledUnderItsKit ==
    \A m \in DOMAIN stored : stored[m] = SenderOf[m] /\ stored[m] = KitOf[PeripheralOf[m]]

\* A kit with a stored measurement has been seen, once the task is through,
\* unless it was cut short between its two statements, which are no transaction.
KitSeen ==
    \A m \in DOMAIN stored \ cut :
        \/ stored[m] \in lastSeen
        \/ \E r \in Runners : runner[r] = At("seen", m)

\* A message waits for a runner only while none offers itself: the notification
\* of an offer is never lost between the look at the queue and the wait, nor a
\* permit of an earlier offer mistaken for it (LocalTaskPool::enqueue, start).
OfferIsNoticed ==
    intake.at = "wait" => \A r \in Runners : runner[r].at # "offered"

\* A message that has been taken reaches a runner, and the runner is free
\* again: no offer is missed by the task that waits for a runner.
Handling(m) == intake.message = m \/ \E r \in Runners : runner[r].message = m
EveryMessageHandled ==
    \A m \in Messages : Handling(m) ~> ~Handling(m)
=============================================================================
