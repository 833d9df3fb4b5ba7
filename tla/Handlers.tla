------------------------------ MODULE Handlers ------------------------------
(***************************************************************************)
(* The API server's handlers that share the pool of database connections:  *)
(* the listing of a kit's media page by page, the handlers that ask for a  *)
(* second connection while they hold one (DELETE /media, GET /media/.../   *)
(* content, and the upload of a kit's media), and the download of a kit's  *)
(* archive, which goes on in a task of its own after its handler returned. *)
(*                                                                         *)
(* The archive's task joins a writer, which queries the database, and the  *)
(* zip, which reads what is written through a small pipe and passes it to  *)
(* the client.  The pool hands connections out in the order of the calls,  *)
(* without a time-out; the second pool, of SQLx, gives up after a while.   *)
(*                                                                         *)
(* External: deadpool and SQLx pools, tokio's duplex pipe, the zip writer, *)
(* and the clients, who may leave at any time.  Kits' measurements are     *)
(* inserted by the ingest process, with connections of its own, and go,    *)
(* like media, with the configuration they belong to.                      *)
(***************************************************************************)
EXTENDS Paging

CONSTANTS
    Clients,        \* clients, each of which makes one request, or lists pages
    Mixes,          \* what the clients do: functions from Clients to Kinds, or
                    \* to "nothing"
    MaxSize,        \* connections of the pool (8)
    Measurements,   \* aggregate measurements of the kit
    KeysOf,         \* names of the values of each measurement
    Belongings,     \* sets of rows and measurements that are deleted together,
                    \* with their configuration
    ConfigChunks,   \* pieces in which the configurations are written
    PipeCap         \* pieces the pipe holds (1024 bytes)

Kinds == {"list", "delete", "upload", "archive"}
Keys == UNION {KeysOf[m] : m \in Measurements}

ASSUME HandlersAssumption ==
    /\ IsFiniteSet(Clients)
    /\ Mixes \subseteq [Clients -> Kinds \cup {"nothing"}]
    /\ {MaxSize, ConfigChunks, PipeCap} \subseteq Nat \ {0}
    /\ KeysOf \in [Measurements -> SUBSET Keys]
    /\ Belongings \subseteq SUBSET (Rows \cup Measurements)

VARIABLES
    kind,           \* what each client does
    at,             \* where the handler of the client's request stands
    here,           \* the client has not left
    cursor,         \* cursor of the page the client asks for
    media,          \* rows of media
    measurements,   \* rows of aggregate_measurements
    job,            \* the task that makes the client's archive
    shown,          \* ghost: rows the client has been shown, in order
    stayed,         \* ghost: rows that are in the table since the first page
    file            \* ghost: what the client's archive is made of

listVars == <<cursor, shown, stayed>>
vars == <<kind, at, here, listVars, media, measurements, job, file>>

-----------------------------------------------------------------------------

\* What a request that waits for a connection does with it.
After == [toPermit |-> "permit", toPage |-> "page", toFirst |-> "first",
          toSecond |-> "both", toKit |-> "kit"]

Start == [list |-> "toPermit", archive |-> "toPermit",
          delete |-> "toFirst", upload |-> "toFirst"]

\* Pieces written to the archive: of the configurations, the header of the
\* table of measurements, and its lines.
Chunk(of, what) == [of |-> of, what |-> what]
Configs == {Chunk("configs", i) : i \in 1..ConfigChunks}
Header == Chunk("header", 0)
Chunks == Configs \cup {Header} \cup {Chunk("line", m) : m \in Measurements}

\* stage: which entry of the archive is being made.  writer: waits for a
\* connection ("wait"), waits for the one of the rows ("rows"), writes, or is
\* done.  todo: what it has still to write.  pipe: written and not read.
\* zip: copies the pipe to the client, has come to its end, or has failed.
NoJob == [stage |-> "none", writer |-> "done", todo |-> {}, pipe |-> <<>>, zip |-> "ended"]
Entry(stage) == [stage |-> stage, writer |-> "wait", todo |-> {}, pipe |-> <<>>, zip |-> "copies"]

\* keys: columns of the table.  early: measurements that were there when the
\* columns were chosen and until the rows were read.  pieces: what has reached
\* the client.  cut: the entries in which an error was ignored.  closed: the
\* archive was finalized.
NoFile == [keys |-> {}, early |-> {}, pieces |-> {}, cut |-> {}, closed |-> FALSE]

\* A table that nobody reads starts empty.
Init ==
    /\ kind \in Mixes
    /\ at = [c \in Clients |-> "idle"]
    /\ here = [c \in Clients |-> TRUE]
    /\ cursor = [c \in Clients |-> NoRow]
    /\ media \in IF \E c \in Clients : kind[c] = "list" THEN SUBSET Rows ELSE {{}}
    /\ measurements \in IF \E c \in Clients : kind[c] = "archive"
                          THEN SUBSET Measurements ELSE {{}}
    /\ job = [c \in Clients |-> NoJob]
    /\ shown = [c \in Clients |-> <<>>]
    /\ stayed = [c \in Clients |-> {}]
    /\ file = [c \in Clients |-> NoFile]

-----------------------------------------------------------------------------
(* The pool. *)

\* Connections in the scope of the handler, at each point of it.
HeldAt(point) == IF point \in {"permit", "page", "first", "toSecond", "act", "kit"} THEN 1
                 ELSE IF point = "both" THEN 2 ELSE 0

\* Mutant: the handler of a page keeps the connection of its permission.
HeldByPagesToo(c) ==
    HeldAt(at[c]) + (IF at[c] \in {"toPage", "page"} THEN 1 ELSE 0)
    + (IF job[c].stage = "configs" /\ job[c].writer = "write" THEN 1 ELSE 0)

\* write_configs keeps its connection while it writes.
Held(c) ==
    HeldAt(at[c]) + (IF job[c].stage = "configs" /\ job[c].writer = "write" THEN 1 ELSE 0)

\* The connections that are out: a client's first, its second, its third.
Out == {h \in Clients \X (1..3) : h[2] <= Held(h[1])}

Free == MaxSize - Cardinality(Out)

-----------------------------------------------------------------------------
(* The handlers. *)

Goto(c, point) == at' = [at EXCEPT ![c] = point]

Begin(c) ==
    /\ at[c] = "idle" /\ kind[c] \in Kinds
    /\ Goto(c, Start[kind[c]])
    /\ UNCHANGED <<kind, here, listVars, media, measurements, job, file>>

GetWhen(c, available) ==
    /\ at[c] \in DOMAIN After
    /\ available
    /\ Goto(c, After[at[c]])
    /\ UNCHANGED <<kind, here, listVars, media, measurements, job, file>>

\* Mutant: whether a connection is free is not looked at for the second one.
GetSecondAtOnce(c) == GetWhen(c, at[c] = "toSecond" \/ Free > 0)

\* PgPool::get: waits for a connection, however long it takes.
Get(c) == GetWhen(c, Free > 0)

\* The query fails, what it looks for is not there, or it is not permitted.
\* A failed insert of an upload is not noticed.
Refuse(c) ==
    /\ at[c] \in {"permit", "page", "first", "both", "act", "kit"}
    /\ Goto(c, "refused")
    /\ UNCHANGED <<kind, here, listVars, media, measurements, job, file>>

\* fut_kit_permission_or_forbidden returns: its connection goes back.
Permit(c) ==
    /\ \/ at[c] = "permit" /\ kind[c] = "list" /\ Goto(c, "toPage")
       \/ at[c] = "permit" /\ kind[c] = "archive" /\ Goto(c, "token")
       \/ at[c] = "both" /\ kind[c] = "delete" /\ Goto(c, "act")
    /\ UNCHANGED <<kind, here, listVars, media, measurements, job, file>>

\* The client follows a page's link, or uses its token.
Follow(c) ==
    /\ \/ at[c] = "link" /\ Goto(c, "toPermit")
       \/ at[c] = "token" /\ Goto(c, "toKit")
    /\ UNCHANGED <<kind, here, listVars, media, measurements, job, file>>

\* The token expires before it is used.
Expire(c) ==
    /\ at[c] = "token"
    /\ Goto(c, "refused")
    /\ UNCHANGED <<kind, here, listVars, media, measurements, job, file>>

\* kit_media, kit_aggregate_measurements.
ReadPage(c) ==
    LET page == Page(media, cursor[c])
        next == NextCursor(page)
    IN
    /\ at[c] = "page"
    /\ shown' = [shown EXCEPT ![c] = @ \o page]
    /\ stayed' = [stayed EXCEPT ![c] = IF cursor[c] = NoRow THEN media ELSE @]
    /\ cursor' = [cursor EXCEPT ![c] = next]
    /\ Goto(c, IF next = NoRow THEN "done" ELSE "link")
    /\ UNCHANGED <<kind, here, media, measurements, job, file>>

\* The first query of delete_media, download_media and upload_media; the
\* upload then stores the object.  The connection stays in scope.
First(c) ==
    /\ at[c] = "first"
    /\ Goto(c, "toSecond")
    /\ UNCHANGED <<kind, here, listVars, media, measurements, job, file>>

RemoveRows(gone) ==
    /\ media' = media \ gone
    /\ stayed' = [c \in Clients |-> stayed[c] \ gone]

\* delete_media's transaction, or download_media's look into the store, after
\* which the stream needs no connection.
Act(c) ==
    /\ at[c] = "act"
    /\ Goto(c, "done")
    /\ (\E r \in media : RemoveRows({r})) \/ UNCHANGED <<media, stayed>>
    /\ UNCHANGED <<kind, here, cursor, shown, measurements, job, file>>

\* upload_media's insert: both connections go back.  The kit says the time.
Insert(c) ==
    /\ at[c] = "both" /\ kind[c] = "upload"
    /\ Goto(c, "done")
    /\ \E r \in Rows \ media : media' = media \cup {r}
    /\ UNCHANGED <<kind, here, listVars, measurements, job, file>>

\* archive: the kit is found, the task is spawned and the handler returns.
Spawn(c) ==
    /\ at[c] = "kit"
    /\ Goto(c, "done")
    /\ job' = [job EXCEPT ![c] = Entry("configs")]
    /\ UNCHANGED <<kind, here, listVars, media, measurements, file>>

\* The client leaves: its handler is dropped, with its connections, but the
\* statement that runs is carried out; the archive's task is not dropped.
Leave(c) ==
    /\ here[c] /\ kind[c] # "upload"
    /\ at[c] \notin {"idle", "refused"}
    /\ at[c] = "done" => job[c].stage # "none"
    /\ here' = [here EXCEPT ![c] = FALSE]
    /\ Goto(c, "gone")
    /\ \/ at[c] = "act" /\ \E r \in media : RemoveRows({r})
       \/ UNCHANGED <<media, stayed>>
    /\ UNCHANGED <<kind, cursor, shown, measurements, job, file>>

-----------------------------------------------------------------------------
(* The archive: write_zip, write_configs, write_aggregates. *)

Set(c, j) == job' = [job EXCEPT ![c] = j]
JobOnly == UNCHANGED <<kind, at, here, listVars, media, measurements>>

\* write_configs: a connection, and the rows of both tables.
ReadConfigs(c) ==
    /\ job[c].stage = "configs" /\ job[c].writer = "wait"
    /\ Free > 0
    /\ Set(c, [job[c] EXCEPT !.writer = "write", !.todo = Configs])
    /\ UNCHANGED file
    /\ JobOnly

ReadKeysOf(c, rows) ==
    /\ job[c].stage = "table" /\ job[c].writer = "wait"
    /\ Set(c, [job[c] EXCEPT !.writer = "header", !.todo = {Header}])
    /\ file' = [file EXCEPT ![c] = [@ EXCEPT !.keys = UNION {KeysOf[m] : m \in rows},
                                             !.early = measurements]]
    /\ JobOnly

\* Mutant: the columns are those of one measurement.
ReadKeysOfOne(c) == \E m \in measurements : ReadKeysOf(c, {m})

\* write_aggregates, first query: the columns of the table.
ReadKeys(c) == ReadKeysOf(c, measurements)

\* Second query: the measurements as they are now, streamed in any order.
ReadRows(c) ==
    /\ job[c].stage = "table" /\ job[c].writer = "rows"
    /\ Set(c, [job[c] EXCEPT !.writer = "write",
                             !.todo = {Chunk("line", m) : m \in measurements}])
    /\ UNCHANGED file
    /\ JobOnly

WriteWhen(c, room) ==
    /\ job[c].writer \in {"header", "write"}
    /\ room
    /\ \E x \in job[c].todo :
          Set(c, [job[c] EXCEPT !.todo = @ \ {x},
                                !.pipe = IF Len(@) < PipeCap THEN Append(@, x) ELSE @])
    /\ UNCHANGED file
    /\ JobOnly

\* Mutant: a piece is written as far as the pipe has room.
WriteWhatFits(c) == WriteWhen(c, TRUE)

\* write_all: waits for room in the pipe.  Configurations are one text, the
\* header comes before the lines, which come in any order.
Write(c) == WriteWhen(c, Len(job[c].pipe) < PipeCap)

\* The writer has written everything; its connection goes back.
Written(c) ==
    /\ job[c].writer \in {"header", "write"}
    /\ job[c].todo = {}
    /\ Set(c, [job[c] EXCEPT !.writer = IF job[c].writer = "header" THEN "rows" ELSE "done"])
    /\ UNCHANGED file
    /\ JobOnly

\* A query fails, or the SQLx pool has had nothing for too long: the writer
\* returns and its error is ignored.
Cut(c) ==
    /\ \/ job[c].writer = "wait" /\ (job[c].stage = "configs" => Free > 0)
       \/ job[c].writer = "rows"
       \/ job[c].writer = "write" /\ job[c].stage = "table" /\ Len(job[c].pipe) < PipeCap
    /\ Set(c, [job[c] EXCEPT !.writer = "done", !.todo = {}])
    /\ file' = [file EXCEPT ![c].cut = @ \cup {job[c].stage}]
    /\ JobOnly

\* The zip passes a piece on; the client reads it in time.
Copy(c) ==
    /\ here[c] /\ job[c].zip = "copies" /\ job[c].pipe # <<>>
    /\ Set(c, [job[c] EXCEPT !.pipe = Tail(@)])
    /\ file' = [file EXCEPT ![c].pieces = @ \cup {Head(job[c].pipe)}]
    /\ JobOnly

\* The client is gone, and what the zip writes fails, perhaps after it has
\* read a piece.  The reading end of the pipe is kept.
ZipFails(c) ==
    /\ ~here[c] /\ job[c].zip = "copies"
    /\ \E n \in {0, 1} :
          /\ n <= Len(job[c].pipe)
          /\ Set(c, [job[c] EXCEPT !.zip = "failed", !.pipe = SubSeq(@, n + 1, Len(@))])
    /\ UNCHANGED file
    /\ JobOnly

ZipEndsWhen(c, closed) ==
    /\ job[c].zip = "copies"
    /\ closed
    /\ job[c].pipe = <<>>
    /\ Set(c, [job[c] EXCEPT !.zip = "ended"])
    /\ UNCHANGED file
    /\ JobOnly

\* Mutant: the writing end of the pipe is not dropped.
ZipNeverEnds(c) == ZipEndsWhen(c, FALSE)

\* The writing end is dropped, and the pipe is empty: the entry ends.
ZipEnds(c) == ZipEndsWhen(c, job[c].writer = "done")

\* Both sides of the join are done.
NextEntry(c) ==
    /\ job[c].stage \in {"configs", "table"}
    /\ job[c].writer = "done" /\ job[c].zip \in {"ended", "failed"}
    /\ \/ /\ job[c].stage = "configs"
          /\ Set(c, Entry("table"))
          /\ UNCHANGED file
       \/ /\ job[c].stage = "table"
          /\ Set(c, NoJob)
          /\ file' = [file EXCEPT ![c].closed = here[c]]
    /\ JobOnly

\* The ingest process stores a measurement.
Ingest ==
    /\ \E m \in Measurements \ measurements : measurements' = measurements \cup {m}
    /\ UNCHANGED <<kind, at, here, listVars, media, job, file>>

\* delete_configuration, whose own connections come back one by one: the media
\* of the configuration go, and by cascade its measurements.
DeleteConfiguration ==
    \E gone \in Belongings :
        /\ gone \cap (media \cup measurements) # {}
        /\ RemoveRows(gone)
        /\ measurements' = measurements \ gone
        /\ file' = [c \in Clients |->
              IF job[c].stage = "table" /\ job[c].writer \in {"header", "rows"}
              THEN [file[c] EXCEPT !.early = @ \ gone] ELSE file[c]]
        /\ UNCHANGED <<kind, at, here, cursor, shown, job>>

-----------------------------------------------------------------------------

HandlerStep(c) ==
    \/ Get(c) \/ Refuse(c) \/ Permit(c) \/ ReadPage(c) \/ First(c)
    \/ Act(c) \/ Insert(c) \/ Spawn(c)

JobStep(c) ==
    \/ ReadConfigs(c) \/ ReadKeys(c) \/ ReadRows(c) \/ Write(c) \/ Written(c)
    \/ Cut(c) \/ Copy(c) \/ ZipFails(c) \/ ZipEnds(c) \/ NextEntry(c)

ClientStep(c) == Begin(c) \/ Follow(c) \/ Expire(c) \/ Leave(c)

Next ==
    \/ \E c \in Clients : HandlerStep(c) \/ JobStep(c) \/ ClientStep(c)
    \/ Ingest \/ DeleteConfiguration

Spec == Init /\ [][Next]_vars

\* Handlers and tasks run when they can; the pool serves its waiters in turn,
\* so that whoever waits while connections come back gets one; a client that
\* stays reads what it is sent.
Fairness == \A c \in Clients : SF_vars(HandlerStep(c)) /\ SF_vars(JobStep(c))

FairSpec == Spec /\ Fairness

-----------------------------------------------------------------------------

Points == {"idle", "link", "token", "permit", "page", "first", "both", "act", "kit",
           "done", "refused", "gone"} \cup DOMAIN After

\* The state has the shape of the code's data, and the pool never hands out
\* more connections than it has.
TypeOK ==
    /\ kind \in Mixes
    /\ at \in [Clients -> Points] /\ here \in [Clients -> BOOLEAN]
    /\ cursor \in [Clients -> Rows \cup {NoRow}]
    /\ media \subseteq Rows /\ measurements \subseteq Measurements
    /\ \A c \in Clients :
          /\ job[c].stage \in {"none", "configs", "table"}
          /\ job[c].writer \in {"wait", "header", "rows", "write", "done"}
          /\ job[c].zip \in {"copies", "ended", "failed"}
          /\ job[c].todo \subseteq Chunks
          /\ job[c].pipe \in Seq(Chunks) /\ Len(job[c].pipe) <= PipeCap
          /\ shown[c] \in Seq(Rows) /\ stayed[c] \subseteq Rows
          /\ file[c].keys \subseteq Keys /\ file[c].early \subseteq Measurements
          /\ file[c].pieces \subseteq Chunks
          /\ file[c].cut \subseteq {"configs", "table"} /\ file[c].closed \in BOOLEAN
    /\ Free >= 0

\* Whoever follows the links from the first page to the last is shown no row
\* twice, and every row that was there all along, whatever is uploaded or
\* deleted between two pages and however many rows have the same time.
PagesCover ==
    \A c \in Clients :
        /\ \A i, j \in DOMAIN shown[c] : shown[c][i] = shown[c][j] => i = j
        /\ kind[c] = "list" /\ at[c] = "done" =>
              stayed[c] \subseteq {shown[c][i] : i \in DOMAIN shown[c]}

\* What a finalized archive holds: its table has every measurement that was
\* there from the choice of the columns until the rows were read, with all its
\* values, though others are stored and deleted with their configuration in
\* between.  (One stored in between may lack values that no other measurement
\* had.)  The errors that are ignored show: without configurations at all, not
\* with some, or in a table that ends early, but never without its header.
ArchiveWhole ==
    \A c \in Clients : file[c].closed =>
        /\ IF "configs" \in file[c].cut THEN Configs \cap file[c].pieces = {}
                                       ELSE Configs \subseteq file[c].pieces
        /\ "table" \notin file[c].cut =>
              /\ Header \in file[c].pieces
              /\ \A m \in file[c].early : /\ Chunk("line", m) \in file[c].pieces
                                          /\ KeysOf[m] \subseteq file[c].keys
        /\ (\E m \in Measurements : Chunk("line", m) \in file[c].pieces)
              => Header \in file[c].pieces

\* A writer that nobody reads from any more: it keeps its connection for ever.
Stuck(c) ==
    /\ job[c].zip = "failed" /\ Len(job[c].pipe) = PipeCap
    /\ job[c].writer \in {"header", "write"} /\ job[c].todo # {}

\* No connection will come back: each is held by a handler that waits for a
\* second one, or by the writer of a download that was given up.
Jammed ==
    MaxSize = Cardinality({c \in Clients : \/ at[c] = "toSecond"
                                            \/ (Stuck(c) /\ job[c].stage = "configs")})

Busy(c) == at[c] \in DOMAIN After \/ HeldAt(at[c]) > 0 \/ job[c].stage # "none"

\* Every request, every page and every download comes to an end, its
\* connections given back, unless the pool is jammed by the two kinds of
\* handlers that hold a connection while they wait; a download whose client
\* left may be the cause.
EveryRequestEnds == \A c \in Clients : Busy(c) ~> ~Busy(c) \/ Stuck(c) \/ Jammed
=============================================================================
