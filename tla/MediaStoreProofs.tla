-------------------------- MODULE MediaStoreProofs --------------------------
(***************************************************************************)
(* Proofs about MediaStore, for any number of media, configurations,       *)
(* requests and deliveries.                                                *)
(***************************************************************************)
EXTENDS MediaStore, TLAPS

Rows == Media \cup Configs

Deletion == [at : {"idle", "queue", "remove", "drop", "finish"},
             about : Rows \cup {Kit, None}, todo : SUBSET Rows, on : Rows \cup {None},
             queued : SUBSET Media, removed : SUBSET Media, dropped : SUBSET Configs]

\* As much of the state's shape as the proofs use.
Shape ==
    /\ deletion \in [Requests -> Deletion]
    /\ upload \in [at : {"idle", "put", "insert", "check"}, media : Media \cup {None}]
    /\ upload.at # "idle" => upload.media \in Media
    /\ rows \subseteq inserted /\ inserted \subseteq Media /\ configs \subseteq Configs
    /\ delivered \in [Media -> Nat]

\* Deletion r goes on to stage `at', with these rows to come to, and holding
\* these entries and rows; nothing happens to the others.
Turns(r, at, about, todo, queued, removed, dropped) ==
    \E e \in Deletion :
        /\ deletion' = [q \in Requests |-> IF q = r THEN e ELSE deletion[q]]
        /\ e.at = at /\ e.about = about /\ e.todo = todo
        /\ IF todo = {} THEN e.on = None ELSE e.on \in todo /\ e.on # None
        /\ e.queued = queued /\ e.removed = removed /\ e.dropped = dropped

LEMMA Turning ==
    ASSUME Shape, NEW r \in Requests, NEW d \in Deletion, NEW todo \in SUBSET Rows,
           GoesOn(r, d, todo)
    PROVE  Turns(r, d.at, d.about, todo, d.queued, d.removed, d.dropped)
<1>1. PICK x \in (IF todo = {} THEN {None} ELSE todo) :
         deletion' = [deletion EXCEPT ![r] = [d EXCEPT !.todo = todo, !.on = x]]
  BY DEF GoesOn, Coming
<1>. DEFINE e == [d EXCEPT !.todo = todo, !.on = x]
<1>2. x \in Rows \cup {None}
  BY <1>1
<1>3. /\ e \in Deletion /\ e.at = d.at /\ e.about = d.about /\ e.todo = todo /\ e.on = x
      /\ e.queued = d.queued /\ e.removed = d.removed /\ e.dropped = d.dropped
  BY <1>2 DEF Deletion
<1>4. deletion' = [q \in Requests |-> IF q = r THEN e ELSE deletion[q]]
  BY <1>1 DEF Shape
<1>. HIDE DEF e
<1>. QED
  BY <1>1, <1>3, <1>4, MediaAssumption DEF Turns, Rows

LEMMA IdleIs ==
    /\ IdleDeletion \in Deletion /\ IdleDeletion.at = "idle"
    /\ IdleDeletion.todo = {} /\ IdleDeletion.on = None
    /\ IdleDeletion.queued = {} /\ IdleDeletion.removed = {} /\ IdleDeletion.dropped = {}
  BY DEF IdleDeletion, Deletion

LEMMA LettingGo ==
    ASSUME Shape, NEW r \in Requests, LetGo(r)
    PROVE  Turns(r, "idle", IdleDeletion.about, {}, {}, {}, {})
<1>1. deletion' = [q \in Requests |-> IF q = r THEN IdleDeletion ELSE deletion[q]]
  BY DEF LetGo, Shape
<1>. QED
  BY <1>1, IdleIs DEF Turns

\* Who waits for nobody, and is not the uploader, finds what it comes to free.
LEMMA NobodyHolds ==
    ASSUME NEW r \in Requests, WaitsFor(r) = {}
    PROVE  \A q \in Requests \ {r} : ~DeletionWaitsFor(deletion[r], deletion[q])
  BY MediaAssumption DEF WaitsFor, Others

\* What each step of a deletion does.
LEMMA BeginTurns ==
    ASSUME Shape, NEW r \in Requests, NEW x, Begin(r, x)
    PROVE  \E S : /\ S = rows \cap {m \in Media : x \in {m, ConfigOf[m], Kit}}
                 /\ deletion[r].at = "idle" /\ x \in Rows \cup {Kit}
                 /\ Turns(r, "queue", x, S, {}, {}, {})
                 /\ UNCHANGED <<objects, database, upload, history>>
<1>. DEFINE d == [IdleDeletion EXCEPT !.at = "queue", !.about = x]
<1>1. x \in Rows \cup {Kit}
  BY BoundsAssumption DEF Begin, Rows
<1>2. /\ d \in Deletion /\ d.at = "queue" /\ d.about = x
      /\ d.queued = {} /\ d.removed = {} /\ d.dropped = {}
  BY <1>1 DEF Deletion, IdleDeletion
<1>3. GoesOn(r, d, rows \cap Concerns(d)) /\ deletion[r].at = "idle"
      /\ UNCHANGED <<objects, database, upload, history>>
  BY DEF Begin
<1>. HIDE DEF d
<1>4. rows \cap Concerns(d) \in SUBSET Rows
  BY DEF Shape, Rows
<1>5. Turns(r, "queue", x, rows \cap Concerns(d), {}, {}, {})
  BY <1>2, <1>3, <1>4, Turning
<1>6. Concerns(d) = {m \in Media : x \in {m, ConfigOf[m], Kit}}
  BY <1>2 DEF Concerns
<1>. QED
  BY <1>1, <1>3, <1>5, <1>6

LEMMA StatementTurns ==
    ASSUME Shape, NEW r \in Requests, NEW from, NEW to, NEW todo \in SUBSET Rows,
           to \in {"remove", "drop", "finish"}, Statement(r, from, to, todo)
    PROVE  /\ deletion[r].at = from /\ deletion[r].on = None
           /\ LET d == deletion[r] IN Turns(r, to, d.about, todo, d.queued, d.removed, d.dropped)
           /\ UNCHANGED <<objects, database, upload, history>>
<1>. DEFINE d == [deletion[r] EXCEPT !.at = to]
<1>1. deletion[r] \in Deletion
  BY DEF Shape
<1>2. /\ d \in Deletion /\ d.at = to /\ d.about = deletion[r].about
      /\ d.queued = deletion[r].queued /\ d.removed = deletion[r].removed
      /\ d.dropped = deletion[r].dropped
  BY <1>1 DEF Deletion
<1>3. GoesOn(r, d, todo)
  BY DEF Statement
<1>. HIDE DEF d
<1>. QED
  BY <1>2, <1>3, Turning DEF Statement

LEMMA QueueRowTurns ==
    ASSUME Shape, NEW r \in Requests, QueueRow(r), deletion[r].on \notin queue,
           deletion[r].todo \subseteq Media, deletion[r].on \in deletion[r].todo
    PROVE  LET d == deletion[r] IN
           /\ d.at = "queue" /\ d.on # None
           /\ \A q \in Requests \ {r} : d.on \notin deletion[q].queued
           /\ Turns(r, "queue", d.about, d.todo \ {d.on}, d.queued \cup {d.on},
                    d.removed, d.dropped)
           /\ UNCHANGED <<objects, database, upload, history>>
<1>. DEFINE d == [deletion[r] EXCEPT !.queued = @ \cup {deletion[r].on}]
            todo == deletion[r].todo \ {deletion[r].on}
<1>1. deletion[r] \in Deletion
  BY DEF Shape
<1>2. deletion[r].at = "queue" /\ deletion[r].on # None /\ WaitsFor(r) = {}
  BY DEF QueueRow, QueueWith
<1>3. /\ d \in Deletion /\ d.at = "queue" /\ d.about = deletion[r].about
      /\ d.queued = deletion[r].queued \cup {deletion[r].on}
      /\ d.removed = deletion[r].removed /\ d.dropped = deletion[r].dropped
  BY <1>1, <1>2 DEF Deletion
<1>4. GoesOn(r, d, todo) /\ UNCHANGED <<objects, database, upload, history>>
  BY DEF QueueRow, QueueWith, database
<1>5. todo \in SUBSET Rows
  BY DEF Rows
<1>6. \A q \in Requests \ {r} : deletion[r].on \notin deletion[q].queued
  BY <1>2, NobodyHolds DEF DeletionWaitsFor
<1>. HIDE DEF d, todo
<1>7. Turns(r, "queue", d.about, todo, d.queued, d.removed, d.dropped)
  BY <1>3, <1>4, <1>5, Turning
<1>. QED
  BY <1>2, <1>3, <1>4, <1>6, <1>7 DEF todo

LEMMA RemoveRowTurns ==
    ASSUME Shape, NEW r \in Requests, RemoveRow(r), deletion[r].todo \subseteq Media
    PROVE  LET d == deletion[r] IN
           /\ d.at = "remove"
           /\ \A q \in Requests \ {r} : d.on \notin deletion[q].removed
           /\ Turns(r, "remove", d.about, d.todo \ {d.on}, d.queued,
                    d.removed \cup (d.todo \cap {d.on}), d.dropped)
           /\ UNCHANGED <<objects, database, upload, history>>
<1>. DEFINE gone == deletion[r].todo \cap {deletion[r].on}
            d == [deletion[r] EXCEPT !.removed = @ \cup gone]
            todo == deletion[r].todo \ {deletion[r].on}
<1>1. deletion[r] \in Deletion /\ gone \subseteq Media
  BY DEF Shape
<1>2. deletion[r].at = "remove" /\ WaitsFor(r) = {} /\ GoesOn(r, d, todo)
      /\ UNCHANGED <<objects, database, upload, history>>
  BY DEF RemoveRow
<1>. HIDE DEF gone
<1>3. /\ d \in Deletion /\ d.at = "remove" /\ d.about = deletion[r].about
      /\ d.queued = deletion[r].queued /\ d.removed = deletion[r].removed \cup gone
      /\ d.dropped = deletion[r].dropped
  BY <1>1, <1>2 DEF Deletion
<1>4. todo \in SUBSET Rows
  BY DEF Rows
<1>5. \A q \in Requests \ {r} : deletion[r].on \notin deletion[q].removed
  BY <1>2, NobodyHolds DEF DeletionWaitsFor
<1>. HIDE DEF d, todo
<1>6. Turns(r, "remove", d.about, todo, d.queued, d.removed, d.dropped)
  BY <1>2, <1>3, <1>4, Turning
<1>. QED
  BY <1>2, <1>3, <1>5, <1>6 DEF todo, gone

LEMMA DropConfigTurns ==
    ASSUME Shape, NEW r \in Requests, DropConfig(r)
    PROVE  LET d == deletion[r] IN
           /\ d.at = "drop"
           /\ \A q \in Requests \ {r} : d.on \notin deletion[q].dropped
           /\ Turns(r, "drop", d.about, d.todo \ {d.on}, d.queued, d.removed,
                    d.dropped \cup (configs \cap {d.on}))
           /\ UNCHANGED <<objects, database, upload, history>>
<1>. DEFINE gone == configs \cap {deletion[r].on}
            d == [deletion[r] EXCEPT !.dropped = @ \cup gone]
            todo == deletion[r].todo \ {deletion[r].on}
<1>1. deletion[r] \in Deletion /\ gone \subseteq Configs
  BY DEF Shape
<1>2. deletion[r].at = "drop" /\ WaitsFor(r) = {} /\ GoesOn(r, d, todo)
      /\ UNCHANGED <<objects, database, upload, history>>
  BY DEF DropConfig
<1>. HIDE DEF gone
<1>3. /\ d \in Deletion /\ d.at = "drop" /\ d.about = deletion[r].about
      /\ d.queued = deletion[r].queued /\ d.removed = deletion[r].removed
      /\ d.dropped = deletion[r].dropped \cup gone
  BY <1>1, <1>2 DEF Deletion
<1>4. todo \in SUBSET Rows
  BY <1>1 DEF Deletion
<1>5. \A q \in Requests \ {r} : deletion[r].on \notin deletion[q].dropped
  BY <1>2, NobodyHolds DEF DeletionWaitsFor
<1>. HIDE DEF d, todo
<1>6. Turns(r, "drop", d.about, todo, d.queued, d.removed, d.dropped)
  BY <1>2, <1>3, <1>4, Turning
<1>. QED
  BY <1>2, <1>3, <1>5, <1>6 DEF todo, gone

-----------------------------------------------------------------------------

\* Where a deletion stands: what it has come to, and holds by then.
StandsFor(d) ==
    /\ d.on = None => d.todo = {}
    /\ d.at = "idle" => d.queued = {} /\ d.removed = {} /\ d.dropped = {}
    /\ d.at = "queue" => /\ d.todo \subseteq inserted \cap Concerns(d)
                         /\ d.on # None => d.on \in d.todo
                         /\ d.queued \subseteq inserted \cap Concerns(d)
                         /\ d.removed = {} /\ d.dropped = {}
    /\ d.at = "remove" => d.todo \subseteq rows /\ d.dropped = {}

Standing == \A r \in Requests : StandsFor(deletion[r])

Base == Shape /\ Standing

LEMMA SameConcerns ==
    ASSUME NEW d, NEW e, e.about = d.about PROVE Concerns(e) = Concerns(d)
  BY DEF Concerns

\* The steps of a deletion short of its commit, with where they start from.
Opens(r) ==
    /\ deletion[r].at = "idle"
    /\ \E x \in Rows \cup {Kit} :
          Turns(r, "queue", x, rows \cap {m \in Media : x \in {m, ConfigOf[m], Kit}}, {}, {}, {})

Queues(r) == LET d == deletion[r] IN
    /\ d.at = "queue" /\ d.on \in d.todo /\ d.on \notin queue
    /\ \A q \in Requests \ {r} : d.on \notin deletion[q].queued
    /\ Turns(r, "queue", d.about, d.todo \ {d.on}, d.queued \cup {d.on}, {}, {})

Lists(r) == LET d == deletion[r] IN
    /\ d.at = "queue" /\ d.todo = {}
    /\ Turns(r, "remove", d.about, rows \cap Concerns(d), d.queued, {}, {})

Removes(r) == LET d == deletion[r] IN
    /\ d.at = "remove"
    /\ \A q \in Requests \ {r} : d.on \notin deletion[q].removed
    /\ Turns(r, "remove", d.about, d.todo \ {d.on}, d.queued,
             d.removed \cup (d.todo \cap {d.on}), {})

Leaves(r) == LET d == deletion[r] IN
    /\ d.at = "remove" /\ d.todo = {}
    /\ Turns(r, "drop", d.about, configs \cap Parents(d), d.queued, d.removed, {})

Drops(r) == LET d == deletion[r] IN
    /\ d.at = "drop"
    /\ \A q \in Requests \ {r} : d.on \notin deletion[q].dropped
    /\ Turns(r, "drop", d.about, d.todo \ {d.on}, d.queued, d.removed,
             d.dropped \cup (configs \cap {d.on}))

Finishes(r) == LET d == deletion[r] IN
    /\ d.at = "drop"
    /\ Turns(r, "finish", d.about, {}, d.queued, d.removed, d.dropped)

Ends(r) == Turns(r, "idle", IdleDeletion.about, {}, {}, {}, {})

Turned(r) ==
    \/ Opens(r) \/ Queues(r) \/ Lists(r) \/ Removes(r) \/ Leaves(r)
    \/ Drops(r) \/ Finishes(r) \/ Ends(r)

\* Each step of a deletion is the commit, or one of these.
LEMMA Steps ==
    ASSUME Base, NEW r \in Requests, Step(r) \/ \E x : Begin(r, x), ~Commit(r)
    PROVE  Turned(r) /\ UNCHANGED <<objects, database, upload, history>>
<1>. USE DEF Base
<1>0. deletion[r] \in Deletion /\ StandsFor(deletion[r])
  BY DEF Shape, Standing
<1>1. ASSUME NEW x, Begin(r, x) PROVE Turned(r) /\ UNCHANGED <<objects, database, upload, history>>
  <2>1. Opens(r) /\ UNCHANGED <<objects, database, upload, history>>
    BY <1>1, BeginTurns DEF Opens
  <2>. QED
    BY <2>1 DEF Turned
<1>2. CASE QueueRow(r)
  <2>1. CASE deletion[r].on \in queue
    <3>1. LetGo(r) /\ UNCHANGED <<objects, database, upload, history>>
      BY <1>2, <2>1 DEF QueueRow, QueueWith, database
    <3>. QED
      BY <3>1, LettingGo DEF Ends, Turned
  <2>2. CASE deletion[r].on \notin queue
    <3>1. deletion[r].at = "queue" /\ deletion[r].on # None
      BY <1>2 DEF QueueRow, QueueWith
    <3>2. deletion[r].todo \subseteq Media /\ deletion[r].on \in deletion[r].todo
          /\ deletion[r].removed = {} /\ deletion[r].dropped = {}
      BY <1>0, <3>1 DEF StandsFor, Concerns
    <3>3. Queues(r) /\ UNCHANGED <<objects, database, upload, history>>
      BY <1>2, <2>2, <3>2, QueueRowTurns DEF Queues
    <3>. QED
      BY <3>3 DEF Turned
  <2>. QED
    BY <2>1, <2>2
<1>3. CASE DeleteRows(r)
  <2>1. rows \cap Concerns(deletion[r]) \in SUBSET Rows
    BY DEF Concerns, Rows
  <2>2. LET d == deletion[r] IN
        /\ d.at = "queue" /\ d.on = None
        /\ Turns(r, "remove", d.about, rows \cap Concerns(d), d.queued, d.removed, d.dropped)
        /\ UNCHANGED <<objects, database, upload, history>>
    BY <1>3, <2>1, StatementTurns DEF DeleteRows
  <2>3. Lists(r)
    BY <1>0, <2>2 DEF Lists, StandsFor
  <2>. QED
    BY <2>2, <2>3 DEF Turned
<1>4. CASE RemoveRow(r)
  <2>1. deletion[r].at = "remove"
    BY <1>4 DEF RemoveRow
  <2>2. deletion[r].todo \subseteq Media /\ deletion[r].dropped = {}
    BY <1>0, <2>1 DEF StandsFor, Shape
  <2>3. Removes(r) /\ UNCHANGED <<objects, database, upload, history>>
    BY <1>4, <2>2, RemoveRowTurns DEF Removes
  <2>. QED
    BY <2>3 DEF Turned
<1>5. CASE DropParents(r)
  <2>1. configs \cap Parents(deletion[r]) \in SUBSET Rows
    BY DEF Parents, Rows
  <2>2. LET d == deletion[r] IN
        /\ d.at = "remove" /\ d.on = None
        /\ Turns(r, "drop", d.about, configs \cap Parents(d), d.queued, d.removed, d.dropped)
        /\ UNCHANGED <<objects, database, upload, history>>
    BY <1>5, <2>1, StatementTurns DEF DropParents
  <2>3. Leaves(r)
    BY <1>0, <2>2 DEF Leaves, StandsFor
  <2>. QED
    BY <2>2, <2>3 DEF Turned
<1>6. CASE DropConfig(r)
  BY <1>6, DropConfigTurns DEF Drops, Turned
<1>7. CASE DropPeripherals(r)
  <2>1. LET d == deletion[r] IN
        /\ d.at = "drop" /\ Turns(r, "finish", d.about, {}, d.queued, d.removed, d.dropped)
        /\ UNCHANGED <<objects, database, upload, history>>
    BY <1>7, StatementTurns DEF DropPeripherals
  <2>. QED
    BY <2>1 DEF Finishes, Turned
<1>8. CASE RollBack(r)
  BY <1>8, LettingGo DEF RollBack, Ends, Turned
<1>. QED
  BY <1>1, <1>2, <1>3, <1>4, <1>5, <1>6, <1>7, <1>8 DEF Step

\* What the commit does to the other deletions.
LEMMA Committing ==
    ASSUME Shape, NEW r \in Requests, Commit(r)
    PROVE  LET d == deletion[r] IN
           /\ d.at = "finish" /\ Left(d) = {}
           /\ rows' = rows \ d.removed /\ queue' = queue \cup d.queued
           /\ configs' = configs \ d.dropped
           /\ UNCHANGED <<objects, upload, history>>
           /\ deletion' \in [Requests -> Deletion]
           /\ deletion'[r] = IdleDeletion
           /\ \A q \in Requests \ {r} : LET e == deletion[q]  f == deletion'[q] IN
                /\ f.at = e.at /\ f.about = e.about /\ f.on = e.on
                /\ f.queued = e.queued /\ f.removed = e.removed /\ f.dropped = e.dropped
                /\ f.todo = IF e.at = "remove" THEN e.todo \ d.removed ELSE e.todo
<1>. PICK d : d = deletion[r]
  OBVIOUS
<1>1. /\ d.at = "finish" /\ Left(d) = {}
      /\ rows' = rows \ d.removed /\ queue' = queue \cup d.queued
      /\ configs' = configs \ d.dropped
      /\ UNCHANGED <<objects, upload, history>>
  BY DEF Commit, Restrict
<1>2. deletion' = [q \in Requests |->
                     IF q = r THEN IdleDeletion
                     ELSE IF deletion[q].at = "remove"
                       THEN [deletion[q] EXCEPT !.todo = @ \ d.removed]
                       ELSE deletion[q]]
  BY DEF Commit
<1>3. ASSUME NEW q \in Requests
      PROVE  LET e == deletion[q]  f == [e EXCEPT !.todo = @ \ d.removed] IN
             /\ f \in Deletion /\ f.at = e.at /\ f.about = e.about /\ f.on = e.on
             /\ f.queued = e.queued /\ f.removed = e.removed /\ f.dropped = e.dropped
             /\ f.todo = e.todo \ d.removed
  <2>1. deletion[q] \in Deletion
    BY DEF Shape
  <2>. QED
    BY <2>1 DEF Deletion
<1>4. \A q \in Requests : deletion'[q] \in Deletion
  BY <1>2, <1>3, IdleIs DEF Shape
<1>5. deletion' \in [Requests -> Deletion]
  BY <1>2, <1>4
<1>. QED
  BY <1>1, <1>2, <1>3, <1>5

\* For each of the others: only the rows it has still to come to may be fewer.
LEMMA CommittingOthers ==
    ASSUME Shape, NEW r \in Requests, Commit(r), NEW q \in Requests \ {r}, NEW e, e = deletion[q],
           NEW f, f = deletion'[q]
    PROVE  /\ f.at = e.at /\ f.about = e.about /\ f.on = e.on
           /\ f.queued = e.queued /\ f.removed = e.removed /\ f.dropped = e.dropped
           /\ f.todo = IF e.at = "remove" THEN e.todo \ deletion[r].removed ELSE e.todo
  BY Committing

LEMMA BaseStart == Init => Base
  BY IdleIs, MediaAssumption DEF Init, Base, Shape, Standing, StandsFor, IdleUpload

\* Every step keeps the base.
LEMMA BaseStep == Base /\ [Next]_vars => Base'
<1>. SUFFICES ASSUME Base, [Next]_vars PROVE Base'
  OBVIOUS
<1>. USE DEF Base, database, history
<1>1. CASE UNCHANGED vars
  BY <1>1 DEF vars, Shape, Standing, StandsFor, Concerns
<1>2. ASSUME NEW m \in Media, Deliver(m) PROVE Base'
  BY <1>2 DEF Deliver, GoOn, Shape, Standing, StandsFor, Concerns
<1>3. CASE Put \/ PutFails \/ InsertRow \/ AbortRow
  BY <1>3, MediaAssumption
     DEF Put, PutThen, PutFails, InsertRow, AbortRow, GoOn, IdleUpload, Shape, Standing, StandsFor, Concerns
<1>4. CASE CommitRow
  BY <1>4, MediaAssumption DEF CommitRow, IdleUpload, Shape, Standing, StandsFor, Concerns
<1>5. ASSUME NEW r \in Requests, Turned(r), UNCHANGED <<objects, database, upload, history>>
      PROVE  Base'
  <2>1. \E at \in {"idle", "queue", "remove", "drop", "finish"} :
           \E about, todo, queued, removed, dropped :
              Turns(r, at, about, todo, queued, removed, dropped)
    BY <1>5 DEF Turned, Opens, Queues, Lists, Removes, Leaves, Drops, Finishes, Ends
  <2>2. Shape'
    BY <1>5, <2>1 DEF Turns, Shape
  <2>3. PICK d : d = deletion[r] /\ StandsFor(d)
    BY DEF Standing
  <2>4. ASSUME NEW e, deletion' = [q \in Requests |-> IF q = r THEN e ELSE deletion[q]],
               StandsFor(e)
        PROVE  Standing'
    BY <1>5, <2>4 DEF Standing, StandsFor
  <2>5. Standing'
    <3>. USE DEF Turns, StandsFor
    <3>1. CASE Opens(r)
      BY <2>4, <3>1 DEF Opens, Shape, Concerns
    <3>2. CASE Queues(r)
      BY <2>3, <2>4, <3>2, SameConcerns DEF Queues, Shape
    <3>3. CASE Lists(r)
      BY <2>3, <2>4, <3>3 DEF Lists
    <3>4. CASE Removes(r)
      BY <2>3, <2>4, <3>4 DEF Removes
    <3>5. CASE Leaves(r)
      BY <2>4, <3>5 DEF Leaves
    <3>6. CASE Drops(r) \/ Finishes(r) \/ Ends(r)
      BY <2>4, <3>6 DEF Drops, Finishes, Ends
    <3>. QED
      BY <1>5, <3>1, <3>2, <3>3, <3>4, <3>5, <3>6 DEF Turned
  <2>. QED
    BY <2>2, <2>5
<1>6. ASSUME NEW r \in Requests, Commit(r) PROVE Base'
  <2>1. Shape'
    BY <1>6, Committing DEF Shape
  <2>2. Standing'
    <3>1. ASSUME NEW f, f = IdleDeletion PROVE StandsFor(f)'
      BY <3>1, IdleIs DEF StandsFor
    <3>2. ASSUME NEW q \in Requests \ {r}, NEW f, f = deletion'[q] PROVE StandsFor(f)'
      <4>. PICK e : e = deletion[q]
        OBVIOUS
      <4>1. StandsFor(e)
        BY DEF Standing
      <4>2. rows' = rows \ deletion[r].removed /\ inserted' = inserted
        BY <1>6, Committing
      <4>3. /\ f.at = e.at /\ f.about = e.about /\ f.on = e.on
            /\ f.queued = e.queued /\ f.removed = e.removed /\ f.dropped = e.dropped
            /\ f.todo = IF e.at = "remove" THEN e.todo \ deletion[r].removed ELSE e.todo
        BY <1>6, <3>2, CommittingOthers
      <4>. QED
        BY <4>1, <4>2, <4>3 DEF StandsFor, Concerns
    <3>. QED
      BY <1>6, <3>1, <3>2, Committing DEF Standing
  <2>. QED
    BY <2>1, <2>2
<1>7. CASE Crash
  BY <1>7, IdleIs, MediaAssumption DEF Crash, IdleUpload, Shape, Standing, StandsFor
<1>. QED
  BY <1>1, <1>2, <1>3, <1>4, <1>5, <1>6, <1>7, Steps
     DEF Next, Uploading, DeleteMedia, DeleteConfiguration, DeleteKit

-----------------------------------------------------------------------------

\* What a deletion is going to remove is queued with it or already, or the
\* deletion is about to queue it, if it was there when the deletion began.
AccountsFor(d) ==
    /\ d.at = "queue" => (rows \cap Concerns(d)) \ missed \subseteq d.queued \cup queue \cup d.todo
    /\ d.at # "queue" => (d.todo \cap Media) \ missed \subseteq d.queued \cup queue
    /\ d.removed \ missed \subseteq d.queued \cup queue

Accounted == \A r \in Requests : AccountsFor(deletion[r])

\* A medium that had a row has it or is queued, however deletions, insertions,
\* refusals and crashes meet, unless it was inserted between the starts of the
\* statements 1 and 2 of a deletion that concerns it.  What makes it inductive:
\* from its start on the deletion accounts for all that it will remove.
THEOREM Kept == Spec => []KeptOrQueued
<1>. DEFINE Inv == Base /\ Accounted /\ KeptOrQueued
<1>1. Init => Inv
  BY BaseStart, IdleIs DEF Init, Accounted, AccountsFor, KeptOrQueued
<1>2. Inv /\ [Next]_vars => Inv'
  <2>. SUFFICES ASSUME Inv, [Next]_vars PROVE Accounted' /\ KeptOrQueued'
    BY BaseStep
  <2>. USE DEF database, history
  <2>1. CASE UNCHANGED <<rows, queue, inserted, missed, deletion>>
    BY <2>1 DEF Concerns, Accounted, AccountsFor, KeptOrQueued
  <2>2. CASE CommitRow
    <3>1. /\ rows \subseteq rows' /\ inserted' = inserted \cup rows'
          /\ queue' = queue /\ deletion' = deletion
          /\ missed' = missed \cup {n \in rows' \ rows : \E r \in Requests :
                            deletion[r].at = "queue" /\ n \in Concerns(deletion[r])}
      BY <2>2 DEF CommitRow
    <3>2. ASSUME NEW r \in Requests, deletion[r].at = "queue"
          PROVE  LET d == deletion[r] IN
                 (rows' \cap Concerns(d)) \ missed' \subseteq d.queued \cup queue \cup d.todo
      BY <3>1, <3>2 DEF Accounted, AccountsFor
    <3>. QED
      BY <3>1, <3>2 DEF Concerns, Accounted, AccountsFor, KeptOrQueued
  <2>3. ASSUME NEW r \in Requests, Turned(r), UNCHANGED <<objects, database, upload, history>>
        PROVE  Accounted' /\ KeptOrQueued'
    <3>1. KeptOrQueued'
      BY <2>3 DEF KeptOrQueued
    <3>2. PICK d : d = deletion[r]
      OBVIOUS
    <3>3. AccountsFor(d)
      BY <3>2 DEF Accounted
    <3>4. ASSUME NEW e, e.about = d.about PROVE Concerns(e) = Concerns(d)
      BY <3>4 DEF Concerns
    <3>5. ASSUME NEW e, deletion' = [q \in Requests |-> IF q = r THEN e ELSE deletion[q]],
                 AccountsFor(e)
          PROVE  Accounted'
      BY <2>3, <3>5 DEF Accounted, AccountsFor, Concerns
    <3>6. Accounted'
      <4>. USE DEF Turns, AccountsFor
      <4>1. CASE Opens(r)
        BY <3>5, <4>1 DEF Opens, Concerns
      <4>2. CASE Queues(r)
        BY <3>2, <3>3, <3>4, <3>5, <4>2 DEF Queues
      <4>3. CASE Lists(r)
        BY <3>2, <3>3, <3>5, <4>3 DEF Lists
      <4>4. CASE Removes(r)
        BY <3>2, <3>3, <3>5, <4>4 DEF Removes, Base, Shape, Standing, StandsFor
      <4>5. CASE Leaves(r)
        BY <3>2, <3>3, <3>5, <4>5, MediaAssumption DEF Leaves, Base, Shape
      <4>6. CASE Drops(r) \/ Finishes(r) \/ Ends(r)
        BY <3>2, <3>3, <3>5, <4>6 DEF Drops, Finishes, Ends
      <4>. QED
        BY <2>3, <4>1, <4>2, <4>3, <4>4, <4>5, <4>6 DEF Turned
    <3>. QED
      BY <3>1, <3>6
  <2>4. ASSUME NEW r \in Requests, Commit(r) PROVE Accounted' /\ KeptOrQueued'
    <3>1. ASSUME NEW f, f = IdleDeletion PROVE AccountsFor(f)'
      BY <3>1, IdleIs DEF AccountsFor
    <3>2. ASSUME NEW q \in Requests \ {r}, NEW f, f = deletion'[q] PROVE AccountsFor(f)'
      <4>. PICK e : e = deletion[q]
        OBVIOUS
      <4>1. AccountsFor(e)
        BY DEF Accounted
      <4>2. /\ rows' = rows \ deletion[r].removed /\ queue' = queue \cup deletion[r].queued
            /\ missed' = missed
        BY <2>4, Committing DEF Base
      <4>3. /\ f.at = e.at /\ f.about = e.about /\ f.on = e.on
            /\ f.queued = e.queued /\ f.removed = e.removed /\ f.dropped = e.dropped
            /\ f.todo = IF e.at = "remove" THEN e.todo \ deletion[r].removed ELSE e.todo
        BY <2>4, <3>2, CommittingOthers DEF Base
      <4>. QED
        BY <4>1, <4>2, <4>3 DEF AccountsFor, Concerns
    <3>3. Accounted'
      BY <2>4, <3>1, <3>2, Committing DEF Base, Accounted
    <3>4. KeptOrQueued'
      BY <2>4, Committing DEF Base, Accounted, AccountsFor, KeptOrQueued
    <3>. QED
      BY <3>3, <3>4
  <2>5. CASE Crash
    BY <2>5, IdleIs DEF Crash, Accounted, AccountsFor, KeptOrQueued
  <2>. QED
    BY <2>1, <2>2, <2>3, <2>4, <2>5, Steps
       DEF Next, vars, Uploading, DeleteMedia, DeleteConfiguration, DeleteKit,
           Deliver, Put, PutThen, PutFails, InsertRow, AbortRow
<1>. QED
  BY <1>1, <1>2, PTL DEF Spec

-----------------------------------------------------------------------------

\* Who reaches the insertion has put the object or was refused.
PutBefore == upload.at \in {"insert", "check"} => upload.media \in objects \cup refused

\* A row leads to an object, unless the store refused it: the upload goes in
\* that order, and nothing deletes an object.
THEOREM RowsHaveObjects == Spec => []RowHasObject
<1>. DEFINE Inv == Base /\ PutBefore /\ RowHasObject
<1>1. Init => Inv
  BY BaseStart DEF Init, PutBefore, RowHasObject, IdleUpload
<1>2. Inv /\ [Next]_vars => Inv'
  <2>. SUFFICES ASSUME Inv, [Next]_vars PROVE PutBefore' /\ RowHasObject'
    BY BaseStep
  <2>. USE DEF PutBefore, RowHasObject, database, history, GoOn, IdleUpload
  <2>1. CASE UNCHANGED <<objects, rows, upload, refused>>
    BY <2>1
  <2>2. ASSUME NEW m \in Media, Deliver(m) PROVE PutBefore' /\ RowHasObject'
    BY <2>2 DEF Deliver
  <2>3. CASE Put \/ PutFails
    BY <2>3 DEF Put, PutThen, PutFails
  <2>4. CASE InsertRow \/ CommitRow \/ AbortRow
    BY <2>4 DEF InsertRow, CommitRow, AbortRow
  <2>5. ASSUME NEW r \in Requests, Commit(r) PROVE PutBefore' /\ RowHasObject'
    BY <2>5 DEF Commit, Restrict
  <2>6. CASE Crash
    BY <2>6 DEF Crash
  <2>. QED
    BY <2>1, <2>2, <2>3, <2>4, <2>5, <2>6, Steps
       DEF Base, Next, vars, Uploading, DeleteMedia, DeleteConfiguration, DeleteKit
<1>. QED
  BY <1>1, <1>2, PTL DEF Spec

-----------------------------------------------------------------------------

\* A medium that has had a row, and is uploaded again, has been delivered
\* more than once.
CountsDeliveries ==
    /\ \A m \in inserted : delivered[m] >= 1
    /\ upload.at # "idle" => /\ delivered[upload.media] >= 1
                             /\ upload.media \in inserted => delivered[upload.media] > 1

\* What a deletion queues it also removes, or it was delivered again.
QueuesWhatItRemoves ==
    \A r \in Requests : LET d == deletion[r] IN
        /\ d.queued \subseteq inserted
        /\ d.at = "remove" =>
              \A m \in d.queued \cap rows : m \in d.todo \cup d.removed \/ delivered[m] > 1
        /\ d.at \in {"drop", "finish"} =>
              \A m \in d.queued \cap rows : m \in d.removed \/ delivered[m] > 1

\* The queue does not name a medium in use, unless it was delivered again.
THEOREM QueuedAreRemoved == Spec => []QueuedIsRemoved
<1>. DEFINE Goal == CountsDeliveries /\ QueuesWhatItRemoves /\ QueuedIsRemoved
                    /\ queue \subseteq inserted
<1>1. Init => Base /\ Goal
  BY BaseStart, IdleIs DEF Init, CountsDeliveries, QueuesWhatItRemoves, QueuedIsRemoved,
                           IdleUpload
<1>2. Base /\ Goal /\ [Next]_vars => Base' /\ Goal'
  <2>. SUFFICES ASSUME Base, Goal, [Next]_vars PROVE Goal'
    BY BaseStep
  <2>. USE DEF database, history
  <2>1. CASE UNCHANGED <<rows, queue, upload, deletion, delivered, inserted>>
    BY <2>1 DEF CountsDeliveries, QueuesWhatItRemoves, QueuedIsRemoved
  <2>2. ASSUME NEW m \in Media, Deliver(m) PROVE Goal'
    <3>1. \A n \in Media : delivered[n] \in Nat
                           /\ delivered'[n] \in Nat /\ delivered'[n] >= delivered[n]
      BY <2>2 DEF Deliver, Base, Shape
    <3>2. delivered'[m] = delivered[m] + 1
      BY <2>2 DEF Deliver, Base, Shape
    <3>3. UNCHANGED <<rows, queue, deletion, inserted>> /\ inserted \subseteq Media /\ rows \subseteq Media
      BY <2>2 DEF Deliver, Base, Shape
    <3>4. CountsDeliveries'
      BY <2>2, <3>1, <3>2, <3>3 DEF Deliver, GoOn, CountsDeliveries, Base, Shape
    <3>5. \A n \in rows : delivered[n] > 1 => delivered'[n] > 1
      BY <3>1, <3>3
    <3>. QED
      BY <3>3, <3>4, <3>5 DEF QueuesWhatItRemoves, QueuedIsRemoved
  <2>3. CASE Put \/ PutFails \/ InsertRow \/ AbortRow
    BY <2>3 DEF Put, PutThen, PutFails, InsertRow, AbortRow, GoOn, IdleUpload,
                CountsDeliveries, QueuesWhatItRemoves, QueuedIsRemoved
  <2>4. CASE CommitRow
    <3>1. /\ upload.at = "check" /\ upload.media \in Media /\ upload'.at = "idle"
          /\ rows \subseteq rows' /\ rows' \subseteq rows \cup {upload.media}
          /\ inserted' = inserted \cup rows'
          /\ UNCHANGED <<queue, deletion, delivered>>
      BY <2>4 DEF CommitRow, IdleUpload, Base, Shape
    <3>2. \A m \in rows' : m \in inserted => m \in rows \/ delivered[m] > 1
      BY <3>1 DEF CountsDeliveries
    <3>3. CountsDeliveries'
      BY <3>1 DEF CountsDeliveries, Base, Shape
    <3>. QED
      BY <3>1, <3>2, <3>3 DEF QueuesWhatItRemoves, QueuedIsRemoved
  <2>5. ASSUME NEW r \in Requests, Turned(r), UNCHANGED <<objects, database, upload, history>>
        PROVE  Goal'
    <3>1. CountsDeliveries' /\ QueuedIsRemoved' /\ (queue \subseteq inserted)'
      BY <2>5 DEF CountsDeliveries, QueuedIsRemoved
    <3>2. QueuesWhatItRemoves'
      <4>. USE DEF Turns, QueuesWhatItRemoves
      <4>1. CASE Opens(r)
        BY <2>5, <4>1 DEF Opens
      <4>2. CASE Queues(r)
        BY <2>5, <4>2 DEF Queues, Base, Standing, StandsFor
      <4>3. CASE Lists(r)
        BY <2>5, <4>3 DEF Lists, Base, Standing, StandsFor
      <4>4. CASE Removes(r)
        BY <2>5, <4>4 DEF Removes
      <4>5. CASE Leaves(r)
        BY <2>5, <4>5 DEF Leaves
      <4>6. CASE Drops(r) \/ Finishes(r) \/ Ends(r)
        BY <2>5, <4>6 DEF Drops, Finishes, Ends
      <4>. QED
        BY <2>5, <4>1, <4>2, <4>3, <4>4, <4>5, <4>6 DEF Turned
    <3>. QED
      BY <3>1, <3>2
  <2>6. ASSUME NEW r \in Requests, Commit(r) PROVE Goal'
    <3>. PICK d : d = deletion[r]
      OBVIOUS
    <3>1. /\ d.at = "finish" /\ rows' = rows \ d.removed /\ queue' = queue \cup d.queued
          /\ UNCHANGED <<upload, history>>
      BY <2>6, Committing DEF Base
    <3>2. CountsDeliveries' /\ QueuedIsRemoved' /\ (queue \subseteq inserted)'
      BY <3>1 DEF CountsDeliveries, QueuedIsRemoved, QueuesWhatItRemoves
    <3>3. ASSUME NEW q \in Requests
          PROVE  LET f == deletion'[q] IN
                 /\ f.queued \subseteq inserted
                 /\ f.at = "remove" =>
                       \A m \in f.queued \cap rows' : m \in f.todo \cup f.removed \/ delivered[m] > 1
                 /\ f.at \in {"drop", "finish"} =>
                       \A m \in f.queued \cap rows' : m \in f.removed \/ delivered[m] > 1
      <4>1. CASE q = r
        BY <2>6, <4>1, Committing, IdleIs DEF Base
      <4>2. CASE q # r
        <5>. PICK e, f : e = deletion[q] /\ f = deletion'[q]
          OBVIOUS
        <5>1. /\ f.at = e.at /\ f.queued = e.queued /\ f.removed = e.removed
              /\ f.todo = IF e.at = "remove" THEN e.todo \ d.removed ELSE e.todo
          BY <2>6, <4>2, CommittingOthers DEF Base
        <5>. QED
          BY <3>1, <5>1 DEF QueuesWhatItRemoves
      <4>. QED
        BY <4>1, <4>2
    <3>. QED
      BY <3>1, <3>2, <3>3 DEF QueuesWhatItRemoves
  <2>7. CASE Crash
    BY <2>7, IdleIs DEF Crash, IdleUpload, CountsDeliveries, QueuesWhatItRemoves, QueuedIsRemoved
  <2>. QED
    BY <2>1, <2>2, <2>3, <2>4, <2>5, <2>6, <2>7, Steps
       DEF Next, vars, Uploading, DeleteMedia, DeleteConfiguration, DeleteKit
<1>. QED
  BY <1>1, <1>2, PTL DEF Spec

-----------------------------------------------------------------------------
(* The locks. *)

\* What a deletion holds is not what the tables or the queue show already, and
\* no two hold the same: the unique key and the locks on rows keep them apart.
Apart ==
    /\ \A r \in Requests : LET d == deletion[r] IN
          /\ d.queued \subseteq inserted \ queue
          /\ d.removed \subseteq rows /\ d.dropped \subseteq configs
    /\ \A r, q \in Requests : r # q =>
          /\ deletion[r].queued \cap deletion[q].queued = {}
          /\ deletion[r].removed \cap deletion[q].removed = {}
          /\ deletion[r].dropped \cap deletion[q].dropped = {}

\* The tables refer to what is there.
Tables ==
    /\ queue \subseteq inserted /\ missed \subseteq inserted
    /\ objects \subseteq Media /\ refused \subseteq Media
    /\ \A m \in rows : ConfigOf[m] \in configs
    /\ \A m \in Media : delivered[m] <= MaxDeliveries[m]

LEMMA StepApart ==
    ASSUME Base, Apart, Tables, [Next]_vars
    PROVE  Apart' /\ Tables'
<1>. USE DEF database, history
<1>1. ASSUME UNCHANGED <<objects, database, history>> PROVE Tables'
  BY <1>1 DEF Tables
<1>2. ASSUME UNCHANGED <<deletion, objects, database, history>> PROVE Apart' /\ Tables'
  BY <1>2 DEF Apart, Tables
<1>3. ASSUME NEW m \in Media, Deliver(m) PROVE Apart' /\ Tables'
  <2>1. /\ UNCHANGED <<objects, database, deletion, inserted, refused, missed>>
        /\ delivered[m] < MaxDeliveries[m] /\ delivered' = [delivered EXCEPT ![m] = @ + 1]
    BY <1>3 DEF Deliver
  <2>2. \A n \in Media : delivered[n] \in Nat /\ MaxDeliveries[n] \in Nat
    BY BoundsAssumption DEF Base, Shape
  <2>3. \A n \in Media : delivered'[n] <= MaxDeliveries[n]
    BY <2>1, <2>2 DEF Tables, Base, Shape
  <2>. QED
    BY <2>1, <2>3 DEF Apart, Tables
<1>4. CASE Put \/ PutFails
  <2>1. UNCHANGED <<database, deletion, delivered, inserted, missed>>
    BY <1>4 DEF Put, PutThen, PutFails
  <2>2. upload.media \in Media
    BY <1>4 DEF Put, PutThen, PutFails, Base, Shape
  <2>. QED
    BY <1>4, <2>1, <2>2 DEF Put, PutThen, PutFails, Apart, Tables
<1>5. CASE CommitRow
  <2>1. /\ rows \subseteq rows' /\ inserted' = inserted \cup rows'
        /\ \A m \in rows' : m \in rows \/ ConfigOf[m] \in configs
        /\ missed' \subseteq missed \cup rows'
        /\ UNCHANGED <<objects, queue, configs, deletion, delivered, refused>>
    BY <1>5 DEF CommitRow
  <2>. QED
    BY <2>1 DEF Apart, Tables
<1>6. ASSUME NEW r \in Requests, Turned(r), UNCHANGED <<objects, database, upload, history>>
      PROVE  Apart' /\ Tables'
  <2>1. Apart'
    <3>. USE DEF Turns, Apart
    <3>1. CASE Opens(r) \/ Ends(r)
      BY <1>6, <3>1 DEF Opens, Ends
    <3>2. CASE Queues(r)
      BY <1>6, <3>2 DEF Queues, Base, Standing, StandsFor
    <3>3. CASE Lists(r)
      BY <1>6, <3>3 DEF Lists
    <3>4. CASE Removes(r)
      BY <1>6, <3>4 DEF Removes, Base, Standing, StandsFor
    <3>5. CASE Leaves(r)
      BY <1>6, <3>5 DEF Leaves
    <3>6. CASE Drops(r) \/ Finishes(r)
      BY <1>6, <3>6 DEF Drops, Finishes
    <3>. QED
      BY <1>6, <3>1, <3>2, <3>3, <3>4, <3>5, <3>6 DEF Turned
  <2>. QED
    BY <1>1, <1>6, <2>1
<1>7. ASSUME NEW r \in Requests, Commit(r) PROVE Apart' /\ Tables'
  <2>. PICK d : d = deletion[r]
    OBVIOUS
  <2>1. /\ rows' = rows \ d.removed /\ queue' = queue \cup d.queued
        /\ configs' = configs \ d.dropped /\ Left(d) = {}
        /\ UNCHANGED <<objects, history>>
    BY <1>7, Committing DEF Base
  <2>2. \A q \in Requests :
           /\ q # r => /\ deletion'[q].queued = deletion[q].queued
                       /\ deletion'[q].removed = deletion[q].removed
                       /\ deletion'[q].dropped = deletion[q].dropped
           /\ q = r => /\ deletion'[q].queued = {} /\ deletion'[q].removed = {}
                       /\ deletion'[q].dropped = {}
    BY <1>7, Committing, IdleIs DEF Base
  <2>3. Apart'
    BY <2>1, <2>2 DEF Apart
  <2>4. \A m \in rows' : ConfigOf[m] \notin d.dropped
    BY <2>1 DEF Left
  <2>5. d.queued \subseteq inserted
    BY DEF Apart
  <2>. QED
    BY <2>1, <2>3, <2>4, <2>5 DEF Tables
<1>8. CASE Crash
  BY <1>8, IdleIs DEF Crash, Apart, Tables
<1>. QED
  BY <1>2, <1>3, <1>4, <1>5, <1>6, <1>7, <1>8, Steps
     DEF Next, vars, Uploading, DeleteMedia, DeleteConfiguration, DeleteKit, InsertRow, AbortRow

\* The state has the shape of the schema, foreign keys included, and no two
\* transactions ever hold the same entry of the queue or the same deleted row.
THEOREM LocksKeepApart == Spec => []TypeOK
<1>. DEFINE Inv == Base /\ Apart /\ Tables
<1>1. Init => Inv
  <2>. SUFFICES ASSUME Init PROVE Apart /\ Tables
    BY BaseStart
  <2>1. \A m \in Media : 0 <= MaxDeliveries[m]
    BY BoundsAssumption
  <2>. QED
    BY <2>1, IdleIs, MediaAssumption DEF Init, Apart, Tables
<1>2. Inv /\ [Next]_vars => Inv'
  BY BaseStep, StepApart
<1>3. Inv => TypeOK
  BY DEF Base, Shape, Apart, Tables, TypeOK, Deletion, Queued, Removed, Dropped, Others
<1>. QED
  BY <1>1, <1>2, <1>3, PTL DEF Spec
=============================================================================
