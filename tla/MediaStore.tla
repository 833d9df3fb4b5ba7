----------------------------- MODULE MediaStore -----------------------------
(***************************************************************************)
(* Media of kits: objects in the object store, rows in the database, and   *)
(* the queue of media whose object is still to be deleted.  One task, the  *)
(* consumer of the MQTT stream, uploads media: it reads the peripheral,    *)
(* puts the object and inserts the row, on three occasions.  HTTP requests *)
(* delete a medium, a configuration or the kit: one transaction queues the *)
(* media concerned, deletes their rows, and deletes what they belonged to. *)
(*                                                                         *)
(* The database is PostgreSQL at its default isolation, read committed: a  *)
(* statement sees what is committed when it starts, goes through the rows  *)
(* it found in some order, and waits at each for the transaction that      *)
(* holds it.  Its deadlock detector ends a transaction that waits in a     *)
(* circle.                                                                 *)
(***************************************************************************)
EXTENDS Integers, FiniteSets

CONSTANTS
    Media,          \* ids of media
    Configs,        \* configurations, all of one kit
    ConfigOf,       \* the configuration of the peripheral that made a medium
    Kit,            \* the kit
    Requests,       \* tasks that handle HTTP requests, one after the other
    Uploader,       \* the task that uploads media
    MaxDeliveries,  \* bound: times each medium is delivered (QoS at least once)
    Refusable,      \* bound: media of which the store may refuse a put
    Targets,        \* bound: what the requests are about
    None

ASSUME MediaAssumption ==
    /\ ConfigOf \in [Media -> Configs]
    /\ Media \cap Configs = {} /\ {Kit, None} \cap (Media \cup Configs) = {}
    /\ Kit # None /\ Uploader \notin Requests
ASSUME BoundsAssumption ==
    /\ MaxDeliveries \in [Media -> Nat] /\ Refusable \subseteq Media
    /\ Targets \subseteq Media \cup Configs \cup {Kit}

VARIABLES
    objects,    \* media whose object is in the object store
    rows,       \* media with a committed row
    queue,      \* media with a committed entry in queue_media_pending_deletion
    configs,    \* configurations with a committed row
    upload,     \* where the uploading task stands, and the medium
    deletion,   \* where each deletion stands, what it is about, what it holds
    delivered,  \* times each medium has been delivered
    inserted,   \* media that have had a row
    refused,    \* ghost: media without object, as the store refused it
    missed      \* ghost: those inserted after statement 1 of a deletion that
                \* concerns them began, and before its statement 2 did

database == <<rows, queue, configs>>
history == <<delivered, inserted, refused, missed>>
vars == <<objects, database, upload, deletion, history>>

-----------------------------------------------------------------------------

IdleUpload == [at |-> "idle", media |-> None]

\* todo and on: the rows the statement has still to come to, and the one it
\* has come to.  queued, removed and dropped: what the transaction has put into
\* the queue, and deleted of the rows and configurations; nobody else sees that
\* before the commit.
IdleDeletion == [at |-> "idle", about |-> None, todo |-> {}, on |-> None,
                 queued |-> {}, removed |-> {}, dropped |-> {}]

Init ==
    /\ objects = {} /\ rows = {} /\ queue = {}
    /\ configs = Configs
    /\ upload = IdleUpload
    /\ deletion = [r \in Requests |-> IdleDeletion]
    /\ delivered = [m \in Media |-> 0]
    /\ inserted = {} /\ refused = {} /\ missed = {}

\* The media a deletion is about, the filter of its statements 1 and 2, and the
\* configurations that its statement 3 deletes.
Concerns(d) == {m \in Media : d.about \in {m, ConfigOf[m], Kit}}
Parents(d) == {c \in Configs : d.about \in {c, Kit}}

Others(r) == Requests \ {r}
Queued(S) == UNION {deletion[r].queued : r \in S}
Removed(S) == UNION {deletion[r].removed : r \in S}
Dropped(S) == UNION {deletion[r].dropped : r \in S}

-----------------------------------------------------------------------------
(* Locks, and who waits for whom. *)

\* Statement 3 for the kit holds the row of the kit.
HoldsKit(d) == d.about = Kit /\ d.at \in {"drop", "finish"}

\* Media that refer to what the deletion deletes, and stay.
Left(d) == {m \in rows : ConfigOf[m] \in d.dropped} \ d.removed

\* Uploading: the row waits for one who deletes a row of the same id, then for
\* the peripheral it refers to, and then for the kit and the configuration.
UploadWaitsFor(d) ==
    LET c == ConfigOf[upload.media] IN
    \/ /\ upload.at = "insert"
       /\ upload.media \in d.removed \/ (d.at = "finish" /\ c \in d.dropped)
    \/ upload.at = "check" /\ (HoldsKit(d) \/ c \in d.dropped)

\* Deletion d waits for e: for the key of the entry it inserts, for the row it
\* has come to, for the kit, and for rows that refer to what it deletes.
DeletionWaitsFor(d, e) ==
    \/ d.at = "queue" /\ d.on \in e.queued
    \/ d.at = "remove" /\ d.on \in e.removed
    \/ d.at = "remove" /\ d.on = None /\ d.about = Kit /\ HoldsKit(e)
    \/ d.at = "drop" /\ d.on \in e.dropped
    \/ d.at = "finish" /\ Left(d) \cap e.removed # {}

\* It deletes the peripherals of the configurations with them, and waits for an
\* upload that holds one.
WaitsForUpload(d) ==
    /\ d.at = "drop" /\ d.on = None
    /\ upload.at = "check" /\ ConfigOf[upload.media] \in d.dropped

WaitsFor(x) ==
    IF x = Uploader
      THEN {q \in Requests : upload.at # "idle" /\ UploadWaitsFor(deletion[q])}
      ELSE {q \in Others(x) : DeletionWaitsFor(deletion[x], deletion[q])}
           \cup {u \in {Uploader} : WaitsForUpload(deletion[x])}

\* A circle of waits leads from x to x.
Deadlocked(x) ==
    LET Tasks == Requests \cup {Uploader} IN
    /\ WaitsFor(x) # {}
    /\ \E n \in 2..Cardinality(Tasks) : \E f \in [0..n -> Tasks] :
          f[0] = x /\ f[n] = x /\ \A i \in 1..n : f[i] \in WaitsFor(f[i - 1])

-----------------------------------------------------------------------------
(* upload_media *)

GoOn(at, m) == upload' = [at |-> at, media |-> m]

\* A medium arrives; nothing is done when its peripheral is not found, and the
\* peripheral is deleted with its configuration.
Deliver(m) ==
    /\ upload.at = "idle"
    /\ delivered[m] < MaxDeliveries[m]
    /\ delivered' = [delivered EXCEPT ![m] = @ + 1]
    /\ IF ConfigOf[m] \in configs THEN GoOn("put", m) ELSE UNCHANGED upload
    /\ UNCHANGED <<objects, database, deletion, inserted, refused, missed>>

PutThen(stored) ==
    /\ upload.at = "put"
    /\ objects' = stored
    /\ refused' = refused \ stored
    /\ GoOn("insert", upload.media)
    /\ UNCHANGED <<database, deletion, delivered, inserted, missed>>

\* Mutant: the future of the put is not awaited, and does nothing.
PutNotAwaited == PutThen(objects)

\* object_store.put().await; an object of the same name is replaced.
Put == PutThen(objects \cup {upload.media})

\* A put that fails is only warned about.
PutFails ==
    /\ upload.at = "put"
    /\ upload.media \in Refusable
    /\ refused' = refused \cup ({upload.media} \ objects)
    /\ GoOn("insert", upload.media)
    /\ UNCHANGED <<objects, database, deletion, delivered, inserted, missed>>

\* The row is inserted, unless it is there (on conflict do nothing) or its
\* peripheral is gone; it holds the peripheral until the statement ends.
InsertRow ==
    LET m == upload.media IN
    /\ upload.at = "insert"
    /\ WaitsFor(Uploader) = {}
    /\ IF m \in rows \/ ConfigOf[m] \notin configs
         THEN upload' = IdleUpload
         ELSE GoOn("check", m)
    /\ UNCHANGED <<objects, database, deletion, history>>

\* The other foreign keys are checked, and the row is committed.  When they are
\* gone, the statement fails and the object stays where it is.
CommitRow ==
    LET m == upload.media IN
    /\ upload.at = "check"
    /\ WaitsFor(Uploader) = {}
    /\ upload' = IdleUpload
    /\ rows' = IF ConfigOf[m] \in configs THEN rows \cup {m} ELSE rows
    /\ inserted' = inserted \cup rows'
    /\ missed' = missed \cup {n \in rows' \ rows : \E r \in Requests :
                      deletion[r].at = "queue" /\ n \in Concerns(deletion[r])}
    /\ UNCHANGED <<objects, queue, configs, deletion, delivered, refused>>

\* The insertion waits in a circle, and fails.
AbortRow ==
    /\ Deadlocked(Uploader)
    /\ upload' = IdleUpload
    /\ UNCHANGED <<objects, database, deletion, history>>

-----------------------------------------------------------------------------
(* delete_media, delete_configuration, delete_kit *)

\* A deletion with the rows its statement has still to come to: one of them is
\* next, in the order of no index in particular.
Coming(d, todo) ==
    {[d EXCEPT !.todo = todo, !.on = x] : x \in IF todo = {} THEN {None} ELSE todo}

GoesOn(r, d, todo) ==
    \E e \in Coming(d, todo) : deletion' = [deletion EXCEPT ![r] = e]

\* The statement is through with its rows, and the next one starts with those
\* it finds.
Statement(r, from, to, todo) ==
    /\ deletion[r].at = from /\ deletion[r].on = None
    /\ WaitsFor(r) = {}
    /\ GoesOn(r, [deletion[r] EXCEPT !.at = to], todo)
    /\ UNCHANGED <<objects, database, upload, history>>

\* The transaction begins with its statement 1, which finds the rows to queue.
\* The medium, the configuration or the kit was found, and the user was allowed
\* to delete it, at some time before.
Begin(r, x) ==
    /\ x \in Targets
    /\ deletion[r].at = "idle"
    /\ LET d == [IdleDeletion EXCEPT !.at = "queue", !.about = x]
       IN  GoesOn(r, d, rows \cap Concerns(d))
    /\ UNCHANGED <<objects, database, upload, history>>

DeleteMedia(r, m) == m \in inserted /\ Begin(r, m)
DeleteConfiguration(r, c) == Begin(r, c)
DeleteKit(r) == Begin(r, Kit)

\* Statement 2 finds the rows to delete, those inserted since among them.
DeleteRows(r) == Statement(r, "queue", "remove", rows \cap Concerns(deletion[r]))

\* Statement 3 deletes the configuration, or the kit and its configurations by
\* cascade, and their peripherals by cascade; there is none for a medium.
DropParents(r) == Statement(r, "remove", "drop", configs \cap Parents(deletion[r]))
DropPeripherals(r) == Statement(r, "drop", "finish", {})

\* The transaction ends and lets go of what it holds.  Mutant: its connection
\* goes back to the pool with the transaction open.
LeaveOpen(r) == deletion' = [deletion EXCEPT ![r].at = "idle"]
LetGo(r) == deletion' = [deletion EXCEPT ![r] = IdleDeletion]

QueueWith(r, P) ==
    LET d == deletion[r] IN
    /\ d.at = "queue" /\ d.on # None
    /\ IF d.on \in queue
         THEN LetGo(r) /\ UNCHANGED queue
         ELSE /\ GoesOn(r, [d EXCEPT !.queued = @ \cup {d.on}], d.todo \ {d.on})
              /\ P
    /\ UNCHANGED <<objects, rows, configs, upload, history>>

\* Mutants: there is no transaction, so that what is queued stays; the queue
\* has no unique key, so that nobody waits.
QueueAndCommit(r) == WaitsFor(r) = {} /\ QueueWith(r, queue' = queue \cup {deletion[r].on})
QueueAtOnce(r) == QueueWith(r, UNCHANGED queue)

\* Statement 1 inserts the row it has come to into the queue, whose media_id is
\* unique: it fails when the medium has been queued, also meanwhile.
QueueRow(r) == WaitsFor(r) = {} /\ QueueWith(r, UNCHANGED queue)

\* Statement 2 deletes the row it has come to, unless another has meanwhile.
RemoveRow(r) ==
    LET d == deletion[r] IN
    /\ d.at = "remove" /\ d.on # None
    /\ WaitsFor(r) = {}
    /\ GoesOn(r, [d EXCEPT !.removed = @ \cup (d.todo \cap {d.on})], d.todo \ {d.on})
    /\ UNCHANGED <<objects, database, upload, history>>

\* So does statement 3 with configurations.
DropConfig(r) ==
    LET d == deletion[r] IN
    /\ d.at = "drop" /\ d.on # None
    /\ WaitsFor(r) = {}
    /\ GoesOn(r, [d EXCEPT !.dropped = @ \cup (configs \cap {d.on})], d.todo \ {d.on})
    /\ UNCHANGED <<objects, database, upload, history>>

\* The foreign keys of media restrict the deletion of what they refer to.
\* Mutant: they cascade, as before the migration that made them restrict.
Cascade(d) == rows' = rows \ (d.removed \cup Left(d))
Restrict(d) == Left(d) = {} /\ rows' = rows \ d.removed

\* The commit; who is about to delete the same rows finds that they are gone.
Commit(r) ==
    LET d == deletion[r] IN
    /\ d.at = "finish"
    /\ WaitsFor(r) = {}
    /\ Restrict(d)
    /\ queue' = queue \cup d.queued
    /\ configs' = configs \ d.dropped
    /\ deletion' = [q \in Requests |->
                       IF q = r THEN IdleDeletion
                       ELSE IF deletion[q].at = "remove"
                         THEN [deletion[q] EXCEPT !.todo = @ \ d.removed]
                         ELSE deletion[q]]
    /\ UNCHANGED <<objects, upload, history>>

\* Media that refer to what was deleted, or a circle of waits, turn it down.
RollBack(r) ==
    /\ \/ deletion[r].at = "finish" /\ WaitsFor(r) = {} /\ Left(deletion[r]) # {}
       \/ Deadlocked(r)
    /\ LetGo(r)
    /\ UNCHANGED <<objects, database, upload, history>>

\* The process dies: what was not committed is rolled back.
Crash ==
    /\ upload' = IdleUpload
    /\ deletion' = [r \in Requests |-> IdleDeletion]
    /\ UNCHANGED <<objects, database, history>>

-----------------------------------------------------------------------------

Uploading == Put \/ PutFails \/ InsertRow \/ CommitRow \/ AbortRow

Step(r) ==
    \/ QueueRow(r)
    \/ DeleteRows(r) \/ RemoveRow(r)
    \/ DropParents(r) \/ DropConfig(r) \/ DropPeripherals(r)
    \/ Commit(r) \/ RollBack(r)

Next ==
    \/ \E m \in Media : Deliver(m)
    \/ Uploading
    \/ \E r \in Requests :
          \/ \E m \in Media : DeleteMedia(r, m)
          \/ \E c \in Configs : DeleteConfiguration(r, c)
          \/ DeleteKit(r)
          \/ Step(r)
    \/ Crash

Spec == Init /\ [][Next]_vars

\* An upload and a request that have begun run to their ends, waiting only for
\* locks.  Fairness is strong for requests: one that is woken, when the other
\* has let go, is not always overtaken by a later one.
Fairness == WF_vars(Uploading) /\ \A r \in Requests : SF_vars(Step(r))

FairSpec == Spec /\ Fairness

-----------------------------------------------------------------------------

\* The state has the shape of the schema, foreign keys included; two
\* transactions never hold the same entry of the queue, the same deleted row or
\* the same deleted configuration.
TypeOK ==
    /\ rows \subseteq inserted /\ inserted \subseteq Media
    /\ objects \subseteq Media
    /\ queue \subseteq inserted /\ missed \subseteq inserted
    /\ configs \subseteq Configs /\ \A m \in rows : ConfigOf[m] \in configs
    /\ upload.at \in {"idle", "put", "insert", "check"}
    /\ \A r \in Requests :
          /\ deletion[r].at \in {"idle", "queue", "remove", "drop", "finish"}
          /\ deletion[r].queued \subseteq inserted \ (queue \cup Queued(Others(r)))
          /\ deletion[r].removed \subseteq rows \ Removed(Others(r))
          /\ deletion[r].dropped \subseteq configs \ Dropped(Others(r))
    /\ delivered \in [Media -> Nat] /\ \A m \in Media : delivered[m] <= MaxDeliveries[m]
    /\ refused \subseteq Media

\* A row leads to an object, unless the object store refused it: the row is
\* inserted only after the object has been put, and nothing deletes objects.
RowHasObject == rows \ refused \subseteq objects

\* The queue does not name a medium in use: its row went in the transaction
\* that queued it, however deletions overlap, fail or die half-way.  A medium
\* that is delivered again has its row back.
QueuedIsRemoved == \A m \in queue \cap rows : delivered[m] > 1

\* A medium that had a row still has it or is queued, unless it was inserted
\* while a deletion was between the starts of its statements 1 and 2.  After
\* statement 2 the foreign keys turn the deletion down.
KeptOrQueued == inserted \ missed \subseteq rows \cup queue

\* A deletion that has begun comes to an end: it waits, row by row, for other
\* deletions and for an upload, and where they wait for each other one of them
\* is turned down, and lets the others go on.
DeletionEnds == \A r \in Requests : deletion[r].at # "idle" ~> deletion[r].at = "idle"

\* Media are orphaned and placed in the queue, never lost, as the comments on
\* delete_configuration and delete_kit have it.
NeverLost == inserted \subseteq rows \cup queue
=============================================================================
