--------------------------- MODULE HandlersProofs ---------------------------
(***************************************************************************)
(* Proofs about Handlers: what a finalized archive holds, what the pages   *)
(* of a listing show, and how many connections are out, for any number of  *)
(* clients, connections, rows, measurements and pieces, and any pipe.      *)
(***************************************************************************)
EXTENDS Handlers, FiniteSetTheorems, TLAPS

Inside(s) == {s[i] : i \in DOMAIN s}

Jobs == [stage : {"none", "configs", "table"},
         writer : {"wait", "header", "rows", "write", "done"},
         todo : SUBSET Chunks, pipe : Seq(Chunks), zip : {"copies", "ended", "failed"}]

Files == [keys : SUBSET Keys, early : SUBSET Measurements, pieces : SUBSET Chunks,
          cut : SUBSET {"configs", "table"}, closed : BOOLEAN]

\* The shape of what the proof is about.
Typed ==
    /\ at = [c \in Clients |-> at[c]] /\ here \in [Clients -> BOOLEAN]
    /\ measurements \subseteq Measurements
    /\ job \in [Clients -> Jobs]
    /\ file \in [Clients -> Files]

Lines(S) == {Chunk("line", m) : m \in S}

\* What has to be with the writer, in the pipe or with the client by now.
Owed(j, f) ==
    (IF (j.stage = "table" \/ j.writer # "wait") /\ "configs" \notin f.cut THEN Configs ELSE {})
    \cup (IF j.stage = "table" /\ j.writer # "wait" /\ "table" \notin f.cut THEN {Header} ELSE {})
    \cup (IF j.stage = "table" /\ j.writer \in {"write", "done"} /\ "table" \notin f.cut
             THEN Lines(f.early) ELSE {})

\* What the writer has let go of, and all there is of the archive.
Passed(j, f) == Inside(j.pipe) \cup f.pieces
There(j, f) == j.todo \cup Passed(j, f)

\* A running job: the zip ends last, the writer has something to write only
\* while it writes, and a header and rows are of the table.
Ordered(j) ==
    /\ j.zip # "failed"
    /\ j.zip = "ended" => j.writer = "done" /\ j.pipe = <<>>
    /\ j.writer \in {"wait", "rows", "done"} => j.todo = {}
    /\ j.writer \in {"header", "rows"} => j.stage = "table"

\* An entry of which an error was ignored is the last that was made.
CutLast(j, f) ==
    /\ "configs" \in f.cut => j.stage = "table" \/ j.writer = "done"
    /\ "table" \in f.cut => j.stage = "table" /\ j.writer = "done"

\* Configurations are there when owed only, and the header before the lines.
InPlace(j, f) ==
    /\ "configs" \in f.cut \/ (j.stage = "configs" /\ j.writer = "wait")
          => Configs \cap There(j, f) = {}
    /\ j.stage = "table" => Configs \cap j.todo = {}
    /\ j.stage = "table" /\ j.writer \in {"rows", "write"} => Header \in Passed(j, f)
    /\ Lines(Measurements) \cap There(j, f) # {} => Header \in Passed(j, f)

\* The columns hold what the table is to show.
Columns(j, f) ==
    j.stage = "table" /\ j.writer # "wait" /\ "table" \notin f.cut
    => \A m \in f.early : KeysOf[m] \subseteq f.keys

\* An archive in the making whose client is there.
Faithful(j, f) ==
    /\ Ordered(j) /\ CutLast(j, f) /\ InPlace(j, f) /\ Columns(j, f)
    /\ Owed(j, f) \subseteq There(j, f)

Whole(f) ==
    /\ IF "configs" \in f.cut THEN Configs \cap f.pieces = {} ELSE Configs \subseteq f.pieces
    /\ "table" \notin f.cut =>
          /\ Header \in f.pieces
          /\ \A m \in f.early : Chunk("line", m) \in f.pieces /\ KeysOf[m] \subseteq f.keys
    /\ (\E m \in Measurements : Chunk("line", m) \in f.pieces) => Header \in f.pieces

\* The columns have been chosen, and the rows have yet to be read.
Between(j) == j.stage = "table" /\ j.writer \in {"header", "rows"}

Over == {"done", "gone"}

\* The handler of an archive is over when its task runs, and the archive is
\* finalized when that is over.
Making(c) ==
    /\ job[c].stage = "none" => job[c] = NoJob
    /\ at[c] \notin Over => job[c].stage = "none" /\ file[c] = NoFile
    /\ job[c].stage # "none" => ~file[c].closed
    /\ Between(job[c]) => file[c].early \subseteq measurements
    /\ job[c].stage # "none" /\ here[c] => Faithful(job[c], file[c])
    /\ file[c].closed => Whole(file[c])

Inv == Typed /\ \A c \in Clients : Making(c)

-----------------------------------------------------------------------------

LEMMA InsideAppend ==
    ASSUME NEW S, NEW s \in Seq(S), NEW x \in S
    PROVE  Inside(Append(s, x)) = Inside(s) \cup {x}
<1>1. /\ Len(Append(s, x)) = Len(s) + 1 /\ Append(s, x)[Len(s) + 1] = x
      /\ \A i \in 1..Len(s) : Append(s, x)[i] = s[i]
      /\ DOMAIN s = 1..Len(s) /\ DOMAIN Append(s, x) = 1..(Len(s) + 1)
      /\ Len(s) \in Nat
  OBVIOUS
<1>2. \A y : y \in Inside(Append(s, x)) <=> y \in Inside(s) \/ y = x
  BY <1>1 DEF Inside
<1>. QED
  BY <1>2

LEMMA InsideTail ==
    ASSUME NEW S, NEW s \in Seq(S), s # <<>>
    PROVE  Inside(s) = Inside(Tail(s)) \cup {Head(s)}
<1>1. /\ DOMAIN s = 1..Len(s) /\ DOMAIN Tail(s) = 1..(Len(s) - 1)
      /\ \A i \in 1..(Len(s) - 1) : Tail(s)[i] = s[i + 1]
      /\ Head(s) = s[1] /\ Len(s) \in Nat
  OBVIOUS
<1>2. ASSUME NEW i \in 1..Len(s), i # 1 PROVE s[i] \in Inside(Tail(s))
  <2>1. i - 1 \in DOMAIN Tail(s) /\ Tail(s)[i - 1] = s[i]
    BY <1>1, <1>2
  <2>. QED
    BY <2>1 DEF Inside
<1>3. Inside(Tail(s)) \subseteq Inside(s) /\ Head(s) \in Inside(s)
  <2>1. \A i \in 1..(Len(s) - 1) : i + 1 \in DOMAIN s
    BY <1>1
  <2>2. 1 \in DOMAIN s
    BY <1>1
  <2>. QED
    BY <1>1, <2>1, <2>2 DEF Inside
<1>. QED
  BY <1>1, <1>2, <1>3 DEF Inside

LEMMA InsideEmpty == Inside(<<>>) = {}
  BY DEF Inside

\* Nothing that matters to the archive of c happens.
LEMMA Elsewhere ==
    ASSUME NEW c \in Clients, Making(c), job'[c] = job[c], file'[c] = file[c],
           here'[c] => here[c], measurements \subseteq measurements',
           at'[c] \notin Over => at[c] \notin Over
    PROVE  Making(c)'
  BY DEF Making

-----------------------------------------------------------------------------
(* The handlers and the clients. *)

\* No handler begins again once it is over, and only the last step of an
\* archive's handler starts its task.
LEMMA HandlerKeeps ==
    ASSUME Inv, NEW c \in Clients, HandlerStep(c) \/ ClientStep(c)
    PROVE  Inv'
<1>1. ASSUME at[c] \notin Over \/ at'[c] \in Over,
             at' = [at EXCEPT ![c] = at'[c]],
             UNCHANGED <<measurements, job, file>>,
             here' = here \/ here' = [here EXCEPT ![c] = FALSE]
      PROVE  Inv'
  <2>1. ASSUME NEW d \in Clients PROVE Making(d)'
    <3>1. at'[d] \notin Over => at[d] \notin Over
      BY <1>1 DEF Inv, Typed
    <3>2. here'[d] => here[d]
      BY <1>1 DEF Inv, Typed
    <3>3. Making(d)
      BY DEF Inv
    <3>. QED
      BY <1>1, <3>1, <3>2, <3>3, Elsewhere
  <2>2. Typed'
    BY <1>1 DEF Inv, Typed
  <2>. QED
    BY <2>1, <2>2 DEF Inv
<1>2. CASE Spawn(c)
  <2>1. /\ at[c] = "kit" /\ at' = [at EXCEPT ![c] = "done"]
        /\ job' = [job EXCEPT ![c] = Entry("configs")]
        /\ UNCHANGED <<here, measurements, file>>
    BY <1>2 DEF Spawn, Goto
  <2>2. Entry("configs") \in Jobs
    BY DEF Entry, Jobs
  <2>3. Typed'
    BY <2>1, <2>2 DEF Inv, Typed
  <2>4. ASSUME NEW d \in Clients PROVE Making(d)'
    <3>1. CASE d = c
      <4>1. job'[c] = Entry("configs") /\ file'[c] = file[c] /\ at'[c] = "done"
        BY <2>1 DEF Inv, Typed
      <4>2. file[c] = NoFile
        BY <2>1 DEF Inv, Making, Over
      <4>3. Faithful(Entry("configs"), NoFile)
        <5>1. There(Entry("configs"), NoFile) = {} /\ Owed(Entry("configs"), NoFile) = {}
          BY InsideEmpty DEF There, Passed, Entry, NoFile, Owed
        <5>. QED
          BY <5>1 DEF Faithful, Ordered, CutLast, InPlace, Columns, Entry, NoFile
      <4>. QED
        BY <3>1, <4>1, <4>2, <4>3 DEF Making, Over, Entry, NoFile, Between
    <3>2. CASE d # c
      <4>1. job'[d] = job[d] /\ at'[d] = at[d] /\ Making(d)
        BY <2>1, <3>2 DEF Inv, Typed
      <4>. QED
        BY <2>1, <4>1, Elsewhere
    <3>. QED
      BY <3>1, <3>2
  <2>. QED
    BY <2>3, <2>4 DEF Inv
<1>3. CASE Begin(c)
  BY <1>1, <1>3 DEF Begin, Goto, Over, Inv, Typed
<1>4. CASE Get(c)
  BY <1>1, <1>4 DEF Get, GetWhen, After, Goto, Over, Inv, Typed
<1>5. CASE Refuse(c) \/ Expire(c)
  BY <1>1, <1>5 DEF Refuse, Expire, Goto, Over, Inv, Typed
<1>6. CASE Permit(c) \/ Follow(c)
  BY <1>1, <1>6 DEF Permit, Follow, Goto, Over, Inv, Typed
<1>7. CASE ReadPage(c)
  <2>1. /\ at[c] = "page" /\ UNCHANGED <<measurements, job, file, here>>
        /\ at' = [at EXCEPT ![c] = IF NextCursor(Page(media, cursor[c])) = NoRow
                                     THEN "done" ELSE "link"]
    BY <1>7 DEF ReadPage, Goto
  <2>. QED
    BY <1>1, <2>1 DEF Over, Inv, Typed
<1>8. CASE First(c) \/ Act(c) \/ Insert(c)
  BY <1>1, <1>8 DEF First, Act, Insert, Goto, Over, Inv, Typed
<1>9. CASE Leave(c)
  BY <1>1, <1>9 DEF Leave, Goto, Over, Inv, Typed
<1>. QED
  BY <1>2, <1>3, <1>4, <1>5, <1>6, <1>7, <1>8, <1>9 DEF HandlerStep, ClientStep

-----------------------------------------------------------------------------
(* The task that makes an archive. *)

\* A step of the task of c is about its job and its file alone.
LEMMA TaskStep ==
    ASSUME Inv, NEW c \in Clients, JobOnly,
           NEW j \in Jobs, job' = [job EXCEPT ![c] = j],
           NEW f \in Files, file' = [file EXCEPT ![c] = f],
           job[c].stage # "none",
           Between(j) => f.early \subseteq measurements,
           j.stage = "none" => j = NoJob,
           j.stage # "none" => ~f.closed,
           j.stage # "none" /\ here[c] => Faithful(j, f),
           f.closed => Whole(f)
    PROVE  Inv'
<1>1. Typed'
  BY DEF Inv, Typed, JobOnly
<1>2. ASSUME NEW d \in Clients PROVE Making(d)'
  <2>1. CASE d = c
    <3>1. job'[c] = j /\ file'[c] = f
      BY DEF Inv, Typed
    <3>2. at[c] \in Over
      BY DEF Inv, Making
    <3>. QED
      BY <2>1, <3>1, <3>2 DEF Making, JobOnly
  <2>2. CASE d # c
    <3>1. job'[d] = job[d] /\ file'[d] = file[d] /\ Making(d)
      BY <2>2 DEF Inv, Typed
    <3>. QED
      BY <3>1, Elsewhere DEF JobOnly
  <2>. QED
    BY <2>1, <2>2
<1>. QED
  BY <1>1, <1>2 DEF Inv

\* What holds of a task that runs.
LEMMA Running ==
    ASSUME Inv, NEW c \in Clients, job[c].stage # "none"
    PROVE  /\ job[c] \in Jobs /\ file[c] \in Files /\ ~file[c].closed
           /\ Between(job[c]) => file[c].early \subseteq measurements
           /\ measurements \subseteq Measurements
           /\ here[c] => Faithful(job[c], file[c])
  BY DEF Inv, Typed, Making

\* A step of the writer, or of the zip, that leaves the file as it is.
LEMMA SameFile ==
    ASSUME Inv, NEW c \in Clients, JobOnly, file' = file, job[c].stage # "none",
           NEW j \in Jobs, job' = [job EXCEPT ![c] = j], j.stage # "none",
           Between(j) => Between(job[c]),
           here[c] => Faithful(j, file[c])
    PROVE  Inv'
<1>1. file' = [file EXCEPT ![c] = file[c]]
  BY DEF Inv, Typed
<1>. QED
  BY <1>1, Running, TaskStep

LEMMA ChunkSets ==
    /\ Configs \subseteq Chunks /\ Header \in Chunks /\ Header \notin Configs
    /\ \A S \in SUBSET Measurements :
          Lines(S) \subseteq Chunks /\ Lines(S) \subseteq Lines(Measurements)
    /\ Lines(Measurements) \cap Configs = {} /\ Header \notin Lines(Measurements)
<1>1. \A m, i : Chunk("line", m) # Chunk("configs", i) /\ Chunk("line", m) # Header
                 /\ Header # Chunk("configs", i)
  BY DEF Chunk, Header
<1>. QED
  BY <1>1 DEF Chunks, Lines, Configs

LEMMA ReadConfigsKeeps ==
    ASSUME Inv, NEW c \in Clients, ReadConfigs(c)
    PROVE  Inv'
<1>. DEFINE j == [job[c] EXCEPT !.writer = "write", !.todo = Configs]
<1>1. /\ job[c].stage = "configs" /\ job[c].writer = "wait"
      /\ job' = [job EXCEPT ![c] = j] /\ file' = file /\ JobOnly
  BY DEF ReadConfigs, Set
<1>2. j \in Jobs
  BY <1>1, Running, ChunkSets DEF Jobs
<1>3. /\ j.stage = "configs" /\ j.writer = "write" /\ j.todo = Configs
      /\ j.pipe = job[c].pipe /\ j.zip = job[c].zip
  BY <1>1, Running DEF Jobs
<1>. HIDE DEF j
<1>4. ASSUME Faithful(job[c], file[c]) PROVE Faithful(j, file[c])
  <2>. PICK f : f = file[c]
    OBVIOUS
  <2>1. /\ Ordered(job[c]) /\ CutLast(job[c], f) /\ InPlace(job[c], f)
        /\ job[c].todo = {}
    BY <1>1, <1>4 DEF Faithful, Ordered
  <2>2. "configs" \notin f.cut /\ "table" \notin f.cut
    BY <1>1, <2>1 DEF CutLast
  <2>3. /\ Passed(j, f) = Passed(job[c], f) /\ There(j, f) = Configs \cup Passed(j, f)
        /\ There(job[c], f) = Passed(j, f)
    BY <1>3, <2>1 DEF Passed, There
  <2>4. InPlace(j, f)
    BY <1>1, <1>3, <2>1, <2>2, <2>3, ChunkSets DEF InPlace
  <2>. QED
    BY <1>1, <1>3, <2>1, <2>2, <2>3, <2>4 DEF Faithful, Ordered, CutLast, Columns, Owed
<1>5. j.stage # "none" /\ ~Between(j)
  BY <1>3 DEF Between
<1>. QED
  BY <1>1, <1>2, <1>4, <1>5, Running, SameFile

LEMMA ReadKeysKeeps ==
    ASSUME Inv, NEW c \in Clients, ReadKeys(c)
    PROVE  Inv'
<1>. DEFINE j == [job[c] EXCEPT !.writer = "header", !.todo = {Header}]
            f == [file[c] EXCEPT !.keys = UNION {KeysOf[m] : m \in measurements},
                                 !.early = measurements]
<1>1. /\ job[c].stage = "table" /\ job[c].writer = "wait" /\ JobOnly
      /\ job' = [job EXCEPT ![c] = j]
  BY DEF ReadKeys, ReadKeysOf, Set
<1>2. file' = [file EXCEPT ![c] = f]
  BY DEF ReadKeys, ReadKeysOf
<1>3. /\ j \in Jobs /\ j.stage = "table" /\ j.writer = "header" /\ j.todo = {Header}
      /\ j.pipe = job[c].pipe /\ j.zip = job[c].zip
  BY <1>1, Running, ChunkSets DEF Jobs
<1>4. /\ f \in Files /\ ~f.closed /\ f.early = measurements /\ f.cut = file[c].cut
      /\ f.pieces = file[c].pieces /\ f.keys = UNION {KeysOf[m] : m \in measurements}
  <2>1. file[c] \in Files /\ ~file[c].closed /\ measurements \subseteq Measurements
    BY <1>1, Running
  <2>2. UNION {KeysOf[m] : m \in measurements} \subseteq Keys
    BY <2>1 DEF Keys
  <2>. QED
    BY <2>1, <2>2 DEF Files
<1>. HIDE DEF j, f
<1>5. ASSUME Faithful(job[c], file[c]) PROVE Faithful(j, f)
  <2>1. /\ Ordered(job[c]) /\ CutLast(job[c], file[c]) /\ InPlace(job[c], file[c])
        /\ job[c].todo = {} /\ Owed(job[c], file[c]) \subseteq There(job[c], file[c])
    BY <1>1, <1>5 DEF Faithful, Ordered
  <2>2. "table" \notin f.cut
    BY <1>1, <1>4, <2>1 DEF CutLast
  <2>3. /\ Passed(j, f) = Passed(job[c], file[c]) /\ There(j, f) = {Header} \cup Passed(j, f)
        /\ There(job[c], file[c]) = Passed(j, f)
    BY <1>3, <1>4, <2>1 DEF Passed, There
  <2>4. InPlace(j, f)
    BY <1>1, <1>3, <1>4, <2>1, <2>2, <2>3, ChunkSets DEF InPlace
  <2>5. Columns(j, f)
    BY <1>4 DEF Columns
  <2>. QED
    BY <1>1, <1>3, <1>4, <2>1, <2>2, <2>3, <2>4, <2>5 DEF Faithful, Ordered, CutLast, Owed
<1>. QED
  BY <1>1, <1>2, <1>3, <1>4, <1>5, Running, TaskStep

LEMMA ReadRowsKeeps ==
    ASSUME Inv, NEW c \in Clients, ReadRows(c)
    PROVE  Inv'
<1>. DEFINE j == [job[c] EXCEPT !.writer = "write", !.todo = Lines(measurements)]
<1>1. /\ job[c].stage = "table" /\ job[c].writer = "rows"
      /\ job' = [job EXCEPT ![c] = j] /\ file' = file /\ JobOnly
  BY DEF ReadRows, Set, Lines
<1>2. job[c] \in Jobs /\ measurements \subseteq Measurements /\ file[c].early \subseteq measurements
  BY <1>1, Running DEF Between
<1>3. /\ j \in Jobs /\ j.stage = "table" /\ j.writer = "write" /\ j.todo = Lines(measurements)
      /\ j.pipe = job[c].pipe /\ j.zip = job[c].zip
  BY <1>1, <1>2, ChunkSets DEF Jobs
<1>. HIDE DEF j
<1>4. ASSUME Faithful(job[c], file[c]) PROVE Faithful(j, file[c])
  <2>. PICK f : f = file[c]
    OBVIOUS
  <2>1. /\ Ordered(job[c]) /\ CutLast(job[c], f) /\ InPlace(job[c], f) /\ Columns(job[c], f)
        /\ job[c].todo = {} /\ Owed(job[c], f) \subseteq There(job[c], f)
    BY <1>1, <1>4 DEF Faithful, Ordered
  <2>2. /\ Passed(j, f) = Passed(job[c], f) /\ There(j, f) = Lines(measurements) \cup Passed(j, f)
        /\ There(job[c], f) = Passed(j, f)
    BY <1>3, <2>1 DEF Passed, There
  <2>3. Header \in Passed(j, f) /\ "table" \notin f.cut
    BY <1>1, <2>1, <2>2 DEF InPlace, CutLast
  <2>4. Lines(f.early) \subseteq Lines(measurements) /\ Lines(measurements) \cap Configs = {}
    BY <1>2, ChunkSets DEF Lines
  <2>5. InPlace(j, f)
    BY <1>1, <1>3, <2>1, <2>2, <2>3, <2>4 DEF InPlace
  <2>6. Owed(j, f) \subseteq There(j, f)
    BY <1>1, <1>3, <2>1, <2>2, <2>3, <2>4 DEF Owed
  <2>. QED
    BY <1>1, <1>3, <2>1, <2>3, <2>5, <2>6 DEF Faithful, Ordered, CutLast, Columns
<1>5. j.stage # "none" /\ ~Between(j)
  BY <1>3 DEF Between
<1>. QED
  BY <1>1, <1>3, <1>4, <1>5, Running, SameFile

\* Nothing gets lost between the writer and the pipe: it waits for room.
LEMMA WriteKeeps ==
    ASSUME Inv, NEW c \in Clients, Write(c)
    PROVE  Inv'
<1>1. PICK x \in job[c].todo :
         job' = [job EXCEPT ![c] = [job[c] EXCEPT
                    !.todo = job[c].todo \ {x},
                    !.pipe = IF Len(job[c].pipe) < PipeCap THEN Append(job[c].pipe, x)
                             ELSE job[c].pipe]]
  BY DEF Write, WriteWhen, Set
<1>. DEFINE j == [job[c] EXCEPT !.todo = job[c].todo \ {x}, !.pipe = Append(job[c].pipe, x)]
<1>2. /\ job[c].writer \in {"header", "write"} /\ file' = file /\ JobOnly
      /\ Len(job[c].pipe) < PipeCap
  BY DEF Write, WriteWhen
<1>3. job[c].stage # "none"
  BY <1>2 DEF Inv, Making, NoJob
<1>4. job[c] \in Jobs /\ x \in Chunks
  BY <1>3, Running DEF Jobs
<1>5. job' = [job EXCEPT ![c] = j]
  BY <1>1, <1>2
<1>6. /\ j \in Jobs /\ j.stage = job[c].stage /\ j.writer = job[c].writer /\ j.zip = job[c].zip
      /\ j.todo = job[c].todo \ {x} /\ j.pipe = Append(job[c].pipe, x)
  <2>1. job[c].pipe \in Seq(Chunks) /\ job[c].todo \ {x} \in SUBSET Chunks
    BY <1>4 DEF Jobs
  <2>2. Append(job[c].pipe, x) \in Seq(Chunks)
    BY <1>4, <2>1
  <2>. QED
    BY <1>4, <2>1, <2>2 DEF Jobs
<1>7. Inside(j.pipe) = Inside(job[c].pipe) \cup {x}
  BY <1>4, <1>6, InsideAppend DEF Jobs
<1>. HIDE DEF j
<1>8. ASSUME Faithful(job[c], file[c]) PROVE Faithful(j, file[c])
  <2>1. There(j, file[c]) = There(job[c], file[c]) /\ Passed(job[c], file[c]) \subseteq Passed(j, file[c])
    BY <1>6, <1>7 DEF There, Passed
  <2>2. Owed(j, file[c]) = Owed(job[c], file[c])
    BY <1>6 DEF Owed
  <2>3. InPlace(j, file[c])
    BY <1>2, <1>6, <1>8, <2>1 DEF Faithful, InPlace
  <2>. QED
    BY <1>2, <1>6, <1>8, <2>1, <2>2, <2>3 DEF Faithful, Ordered, CutLast, Columns
<1>9. Between(j) => Between(job[c])
  BY <1>6 DEF Between
<1>. QED
  BY <1>2, <1>3, <1>5, <1>6, <1>8, <1>9, Running, SameFile

LEMMA WrittenKeeps ==
    ASSUME Inv, NEW c \in Clients, Written(c)
    PROVE  Inv'
<1>. DEFINE j == [job[c] EXCEPT !.writer = IF job[c].writer = "header" THEN "rows" ELSE "done"]
<1>1. /\ job[c].writer \in {"header", "write"} /\ job[c].todo = {}
      /\ job' = [job EXCEPT ![c] = j] /\ file' = file /\ JobOnly
  BY DEF Written, Set
<1>2. job[c].stage # "none"
  BY <1>1 DEF Inv, Making, NoJob
<1>3. job[c] \in Jobs
  BY <1>2, Running
<1>4. /\ j \in Jobs /\ j.stage = job[c].stage /\ j.todo = {} /\ j.pipe = job[c].pipe
      /\ j.zip = job[c].zip
      /\ j.writer = IF job[c].writer = "header" THEN "rows" ELSE "done"
  BY <1>1, <1>3 DEF Jobs
<1>. HIDE DEF j
<1>5. ASSUME Faithful(job[c], file[c]) PROVE Faithful(j, file[c])
  <2>. PICK f : f = file[c]
    OBVIOUS
  <2>1. /\ Ordered(job[c]) /\ CutLast(job[c], f) /\ InPlace(job[c], f) /\ Columns(job[c], f)
        /\ Owed(job[c], f) \subseteq There(job[c], f)
    BY <1>5 DEF Faithful
  <2>2. /\ Passed(j, f) = Passed(job[c], f) /\ There(j, f) = Passed(j, f)
        /\ There(job[c], f) = Passed(j, f)
    BY <1>1, <1>4 DEF There, Passed
  <2>3. Owed(j, f) = Owed(job[c], f)
    BY <1>1, <1>4 DEF Owed
  <2>4. j.stage = "table" /\ j.writer = "rows" => Header \in Passed(j, f)
    BY <1>1, <1>4, <2>1, <2>2 DEF Owed, CutLast
  <2>5. InPlace(j, f)
    BY <1>1, <1>4, <2>1, <2>2, <2>4 DEF InPlace
  <2>6. Ordered(j) /\ CutLast(j, f) /\ Columns(j, f)
    BY <1>1, <1>4, <2>1 DEF Ordered, CutLast, Columns
  <2>. QED
    BY <2>1, <2>2, <2>3, <2>5, <2>6 DEF Faithful
<1>6. Between(j) => Between(job[c])
  BY <1>1, <1>4 DEF Between
<1>. QED
  BY <1>1, <1>2, <1>4, <1>5, <1>6, Running, SameFile

\* An error that is ignored is remembered: of the configurations nothing has
\* been written, and the header has gone before the lines.
LEMMA CutKeeps ==
    ASSUME Inv, NEW c \in Clients, Cut(c)
    PROVE  Inv'
<1>. DEFINE j == [job[c] EXCEPT !.writer = "done", !.todo = {}]
            f == [file[c] EXCEPT !.cut = file[c].cut \cup {job[c].stage}]
<1>1. /\ job[c].writer # "done" /\ job' = [job EXCEPT ![c] = j]
      /\ file' = [file EXCEPT ![c] = f] /\ JobOnly
      /\ job[c].writer \in {"wait", "rows"} \/ (job[c].writer = "write" /\ job[c].stage = "table")
  BY DEF Cut, Set
<1>2. job[c].stage # "none"
  BY <1>1 DEF Inv, Making, NoJob
<1>3. job[c] \in Jobs /\ file[c] \in Files /\ ~file[c].closed
  BY <1>2, Running
<1>4. /\ j \in Jobs /\ j.stage = job[c].stage /\ j.writer = "done" /\ j.todo = {}
      /\ j.pipe = job[c].pipe /\ j.zip = job[c].zip
      /\ f \in Files /\ f.cut = file[c].cut \cup {job[c].stage} /\ f.early = file[c].early
      /\ f.pieces = file[c].pieces /\ ~f.closed
  <2>1. job[c].stage \in {"configs", "table"}
    BY <1>2, <1>3 DEF Jobs
  <2>2. file[c].cut \cup {job[c].stage} \in SUBSET {"configs", "table"}
    BY <1>3, <2>1 DEF Files
  <2>. QED
    BY <1>3, <2>2 DEF Jobs, Files
<1>. HIDE DEF j, f
<1>5. ASSUME Faithful(job[c], file[c]) PROVE Faithful(j, f)
  <2>1. /\ Ordered(job[c]) /\ CutLast(job[c], file[c]) /\ InPlace(job[c], file[c])
        /\ Owed(job[c], file[c]) \subseteq There(job[c], file[c])
    BY <1>5 DEF Faithful
  <2>2. /\ Passed(j, f) = Passed(job[c], file[c]) /\ There(j, f) = Passed(j, f)
        /\ There(j, f) \subseteq There(job[c], file[c])
    BY <1>4 DEF Passed, There
  <2>3. CASE job[c].stage = "configs"
    <3>1. job[c].writer = "wait" /\ "table" \notin file[c].cut
      BY <1>1, <2>1, <2>3 DEF CutLast, Ordered, InPlace
    <3>. QED
      BY <1>1, <1>4, <2>1, <2>2, <2>3, <3>1 DEF Faithful, Ordered, CutLast, InPlace, Columns, Owed
  <2>4. CASE job[c].stage = "table"
    <3>1. Ordered(j) /\ CutLast(j, f) /\ Columns(j, f)
      BY <1>1, <1>4, <2>1, <2>4 DEF Ordered, CutLast, Columns
    <3>2. InPlace(j, f)
      BY <1>1, <1>4, <2>1, <2>2, <2>4 DEF InPlace
    <3>3. Configs \cap job[c].todo = {} \/ "configs" \in f.cut
      BY <1>1, <1>4, <2>1, <2>4 DEF Ordered, InPlace, There
    <3>. QED
      BY <1>1, <1>4, <2>1, <2>2, <2>4, <3>1, <3>2, <3>3 DEF Faithful, Owed, There
  <2>. QED
    BY <1>2, <1>3, <2>3, <2>4 DEF Jobs
<1>6. ~Between(j)
  BY <1>4 DEF Between
<1>. QED
  BY <1>1, <1>2, <1>3, <1>4, <1>5, <1>6, Running, TaskStep

LEMMA CopyKeeps ==
    ASSUME Inv, NEW c \in Clients, Copy(c)
    PROVE  Inv'
<1>. DEFINE s == job[c].pipe
            j == [job[c] EXCEPT !.pipe = Tail(s)]
            f == [file[c] EXCEPT !.pieces = file[c].pieces \cup {Head(s)}]
<1>1. /\ job[c].zip = "copies" /\ s # <<>> /\ job' = [job EXCEPT ![c] = j]
      /\ file' = [file EXCEPT ![c] = f] /\ JobOnly
  BY DEF Copy, Set
<1>2. job[c].stage # "none"
  BY <1>1 DEF Inv, Making, NoJob
<1>3. /\ job[c] \in Jobs /\ file[c] \in Files /\ ~file[c].closed
      /\ Between(job[c]) => file[c].early \subseteq measurements
  BY <1>2, Running
<1>4. s \in Seq(Chunks) /\ Tail(s) \in Seq(Chunks) /\ Head(s) \in Chunks
  BY <1>1, <1>3 DEF Jobs
<1>5. /\ j \in Jobs /\ j.stage = job[c].stage /\ j.writer = job[c].writer /\ j.zip = "copies"
      /\ j.todo = job[c].todo /\ j.pipe = Tail(s)
  BY <1>1, <1>3, <1>4 DEF Jobs
<1>6. /\ f \in Files /\ f.cut = file[c].cut /\ f.early = file[c].early /\ ~f.closed
      /\ f.keys = file[c].keys /\ f.pieces = file[c].pieces \cup {Head(s)}
  BY <1>3, <1>4 DEF Files
<1>7. Inside(s) = Inside(Tail(s)) \cup {Head(s)}
  BY <1>1, <1>4, InsideTail
<1>. HIDE DEF j, f
<1>8. ASSUME Faithful(job[c], file[c]) PROVE Faithful(j, f)
  <2>1. Passed(j, f) = Passed(job[c], file[c]) /\ There(j, f) = There(job[c], file[c])
    BY <1>5, <1>6, <1>7 DEF Passed, There
  <2>2. Owed(j, f) = Owed(job[c], file[c])
    BY <1>5, <1>6 DEF Owed
  <2>3. InPlace(j, f)
    BY <1>5, <1>6, <1>8, <2>1 DEF Faithful, InPlace
  <2>. QED
    BY <1>1, <1>5, <1>6, <1>8, <2>1, <2>2, <2>3 DEF Faithful, Ordered, CutLast, Columns
<1>9. Between(j) => f.early \subseteq measurements
  BY <1>3, <1>5, <1>6 DEF Between
<1>. QED
  BY <1>1, <1>2, <1>3, <1>5, <1>6, <1>8, <1>9, Running, TaskStep

LEMMA ZipKeeps ==
    ASSUME Inv, NEW c \in Clients, ZipFails(c) \/ ZipEnds(c)
    PROVE  Inv'
<1>1. job[c].zip = "copies" /\ file' = file /\ JobOnly
  BY DEF ZipFails, ZipEnds, ZipEndsWhen
<1>2. job[c].stage # "none"
  BY <1>1 DEF Inv, Making, NoJob
<1>3. job[c] \in Jobs
  BY <1>2, Running
<1>4. CASE ZipFails(c)
  <2>1. PICK n \in {0, 1} :
           /\ n <= Len(job[c].pipe)
           /\ job' = [job EXCEPT ![c] = [job[c] EXCEPT !.zip = "failed",
                        !.pipe = SubSeq(job[c].pipe, n + 1, Len(job[c].pipe))]]
    BY <1>4 DEF ZipFails, Set
  <2>. DEFINE rest == SubSeq(job[c].pipe, n + 1, Len(job[c].pipe))
              j == [job[c] EXCEPT !.zip = "failed", !.pipe = rest]
  <2>2. rest \in Seq(Chunks)
    <3>1. job[c].pipe \in Seq(Chunks)
      BY <1>3 DEF Jobs
    <3>. QED
      BY <3>1
  <2>3. j \in Jobs /\ j.stage = job[c].stage
    BY <1>3, <2>2 DEF Jobs
  <2>4. ~here[c] /\ (Between(j) => Between(job[c]))
    BY <1>3, <1>4 DEF ZipFails, Between, Jobs
  <2>5. job' = [job EXCEPT ![c] = j]
    BY <2>1
  <2>. HIDE DEF j
  <2>. QED
    BY <1>1, <1>2, <2>3, <2>4, <2>5, SameFile
<1>5. CASE ZipEnds(c)
  <2>. DEFINE j == [job[c] EXCEPT !.zip = "ended"]
  <2>1. job[c].writer = "done" /\ job[c].pipe = <<>> /\ job' = [job EXCEPT ![c] = j]
    BY <1>5 DEF ZipEnds, ZipEndsWhen, Set
  <2>2. /\ j \in Jobs /\ j.stage = job[c].stage /\ j.writer = job[c].writer
        /\ j.todo = job[c].todo /\ j.pipe = job[c].pipe /\ j.zip = "ended"
    BY <1>3 DEF Jobs
  <2>. HIDE DEF j
  <2>3. ASSUME Faithful(job[c], file[c]) PROVE Faithful(j, file[c])
    <3>1. /\ Owed(j, file[c]) = Owed(job[c], file[c]) /\ Passed(j, file[c]) = Passed(job[c], file[c])
          /\ There(j, file[c]) = There(job[c], file[c])
      BY <2>2 DEF Owed, Passed, There
    <3>2. InPlace(j, file[c])
      BY <2>2, <2>3, <3>1 DEF Faithful, InPlace
    <3>. QED
      BY <2>1, <2>2, <2>3, <3>1, <3>2 DEF Faithful, Ordered, CutLast, Columns
  <2>4. Between(j) => Between(job[c])
    BY <2>2 DEF Between
  <2>. QED
    BY <1>1, <1>2, <2>1, <2>2, <2>3, <2>4, Running, SameFile
<1>. QED
  BY <1>4, <1>5

\* When both sides are done, what was owed is with the client.
LEMMA NextEntryKeeps ==
    ASSUME Inv, NEW c \in Clients, NextEntry(c)
    PROVE  Inv'
<1>1. /\ job[c].stage \in {"configs", "table"} /\ JobOnly
      /\ job[c].writer = "done" /\ job[c].zip \in {"ended", "failed"}
  BY DEF NextEntry
<1>2. job[c] \in Jobs /\ file[c] \in Files /\ ~file[c].closed
  BY <1>1, Running
<1>3. ASSUME here[c]
      PROVE  /\ Owed(job[c], file[c]) \subseteq file[c].pieces
             /\ There(job[c], file[c]) = file[c].pieces /\ Passed(job[c], file[c]) = file[c].pieces
             /\ CutLast(job[c], file[c]) /\ InPlace(job[c], file[c]) /\ Columns(job[c], file[c])
  <2>1. Faithful(job[c], file[c])
    BY <1>1, <1>3, Running
  <2>2. job[c].todo = {} /\ job[c].pipe = <<>>
    BY <1>1, <2>1 DEF Faithful, Ordered
  <2>. QED
    BY <2>1, <2>2, InsideEmpty DEF Faithful, There, Passed
<1>4. CASE job[c].stage = "configs"
  <2>. PICK j : j = Entry("table")
    OBVIOUS
  <2>1. job' = [job EXCEPT ![c] = j] /\ file' = file
    BY <1>4 DEF NextEntry, Set
  <2>2. /\ j \in Jobs /\ j.stage = "table" /\ j.writer = "wait" /\ j.todo = {}
        /\ j.pipe = <<>> /\ j.zip = "copies"
    BY DEF Entry, Jobs
  <2>3. ASSUME here[c] PROVE Faithful(j, file[c])
    <3>. PICK f : f = file[c]
      OBVIOUS
    <3>1. There(j, f) = f.pieces /\ Passed(j, f) = f.pieces
      BY <2>2, InsideEmpty DEF There, Passed
    <3>2. "table" \notin f.cut
      BY <1>3, <1>4, <2>3 DEF CutLast
    <3>3. InPlace(j, f)
      BY <1>3, <2>2, <2>3, <3>1 DEF InPlace
    <3>4. Owed(j, f) \subseteq There(j, f)
      BY <1>1, <1>3, <1>4, <2>2, <2>3, <3>1, <3>2 DEF Owed
    <3>. QED
      BY <2>2, <3>2, <3>3, <3>4 DEF Faithful, Ordered, CutLast, Columns
  <2>4. ~Between(j)
    BY <2>2 DEF Between
  <2>. QED
    BY <1>1, <2>1, <2>2, <2>3, <2>4, SameFile
<1>5. CASE job[c].stage = "table"
  <2>. DEFINE f == [file[c] EXCEPT !.closed = here[c]]
  <2>1. job' = [job EXCEPT ![c] = NoJob] /\ file' = [file EXCEPT ![c] = f]
    BY <1>5 DEF NextEntry, Set
  <2>2. NoJob \in Jobs /\ NoJob.stage = "none" /\ ~Between(NoJob)
    BY DEF NoJob, Jobs, Between
  <2>3. here[c] \in BOOLEAN
    BY DEF Inv, Typed
  <2>4. /\ f \in Files /\ f.closed = here[c] /\ f.cut = file[c].cut /\ f.early = file[c].early
        /\ f.pieces = file[c].pieces /\ f.keys = file[c].keys
    BY <1>2, <2>3 DEF Files
  <2>. HIDE DEF f
  <2>5. ASSUME f.closed PROVE Whole(f)
    <3>1. /\ Owed(job[c], file[c]) \subseteq f.pieces /\ There(job[c], file[c]) = f.pieces
          /\ Passed(job[c], file[c]) = f.pieces /\ InPlace(job[c], file[c]) /\ Columns(job[c], file[c])
      BY <1>3, <2>4, <2>5
    <3>2. IF "configs" \in f.cut THEN Configs \cap f.pieces = {} ELSE Configs \subseteq f.pieces
      BY <1>5, <2>4, <3>1 DEF Owed, InPlace
    <3>3. ASSUME "table" \notin f.cut
          PROVE  /\ Header \in f.pieces
                 /\ \A m \in f.early : Chunk("line", m) \in f.pieces /\ KeysOf[m] \subseteq f.keys
      <4>1. {Header} \cup Lines(f.early) \subseteq f.pieces
        BY <1>1, <1>5, <2>4, <3>1, <3>3 DEF Owed
      <4>2. \A m \in f.early : KeysOf[m] \subseteq f.keys
        BY <1>1, <1>5, <2>4, <3>1, <3>3 DEF Columns
      <4>. QED
        BY <4>1, <4>2 DEF Lines
    <3>4. (\E m \in Measurements : Chunk("line", m) \in f.pieces) => Header \in f.pieces
      BY <3>1 DEF InPlace, Lines
    <3>. QED
      BY <3>2, <3>3, <3>4 DEF Whole
  <2>. QED
    BY <1>1, <1>2, <2>1, <2>2, <2>4, <2>5, TaskStep
<1>. QED
  BY <1>1, <1>4, <1>5

\* What goes with a configuration between the two queries is owed no more, and
\* what goes later has been read.
LEMMA DeleteKeeps ==
    ASSUME Inv, DeleteConfiguration
    PROVE  Inv'
<1>1. PICK gone \in Belongings :
         /\ measurements' = measurements \ gone
         /\ file' = [c \in Clients |-> IF Between(job[c]) THEN [file[c] EXCEPT !.early = @ \ gone]
                                       ELSE file[c]]
         /\ UNCHANGED <<at, here, job>>
  BY DEF DeleteConfiguration, Between
<1>2. ASSUME NEW c \in Clients PROVE file'[c] \in Files /\ Making(c)'
  <2>0. job[c] \in Jobs /\ file[c] \in Files /\ Making(c) /\ job'[c] = job[c]
    BY <1>1 DEF Inv, Typed
  <2>1. CASE ~Between(job[c])
    <3>1. file'[c] = file[c]
      BY <1>1, <2>1
    <3>. QED
      BY <1>1, <2>0, <2>1, <3>1 DEF Making
  <2>2. CASE Between(job[c])
    <3>. PICK f : f = file'[c]
      OBVIOUS
    <3>1. /\ f \in Files /\ f.early = file[c].early \ gone /\ f.cut = file[c].cut
          /\ f.keys = file[c].keys /\ f.pieces = file[c].pieces /\ f.closed = file[c].closed
      <4>1. f = [file[c] EXCEPT !.early = file[c].early \ gone]
        BY <1>1, <2>2
      <4>. QED
        BY <2>0, <4>1 DEF Files
    <3>2. ASSUME Faithful(job[c], file[c]) PROVE Faithful(job[c], f)
      <4>1. /\ Owed(job[c], f) = Owed(job[c], file[c]) /\ There(job[c], f) = There(job[c], file[c])
            /\ Passed(job[c], f) = Passed(job[c], file[c])
        BY <2>2, <3>1 DEF Owed, There, Passed, Between
      <4>2. InPlace(job[c], f) /\ CutLast(job[c], f) /\ Columns(job[c], f)
        BY <3>1, <3>2, <4>1 DEF Faithful, InPlace, CutLast, Columns
      <4>. QED
        BY <3>2, <4>1, <4>2 DEF Faithful
    <3>3. job[c].stage # "none" /\ at[c] \in Over /\ ~f.closed
      BY <2>0, <2>2, <3>1 DEF Between, Making
    <3>. QED
      BY <1>1, <2>0, <2>2, <3>1, <3>2, <3>3 DEF Making
  <2>. QED
    BY <2>1, <2>2
<1>3. Typed'
  BY <1>1, <1>2 DEF Inv, Typed
<1>. QED
  BY <1>2, <1>3 DEF Inv

-----------------------------------------------------------------------------

LEMMA InvInit == Init => Inv
<1>1. NoJob \in Jobs /\ NoFile \in Files
  BY DEF NoJob, Jobs, NoFile, Files
<1>. QED
  BY <1>1 DEF Init, Inv, Typed, Making, NoJob, NoFile, Between

LEMMA InvStep == Inv /\ [Next]_vars => Inv'
<1>. SUFFICES ASSUME Inv, [Next]_vars PROVE Inv'
  OBVIOUS
<1>1. ASSUME NEW c \in Clients, JobStep(c) PROVE Inv'
  BY <1>1, ReadConfigsKeeps, ReadKeysKeeps, ReadRowsKeeps, WriteKeeps, WrittenKeeps,
     CutKeeps, CopyKeeps, ZipKeeps, NextEntryKeeps DEF JobStep
<1>2. ASSUME measurements \subseteq measurements', measurements' \subseteq Measurements,
             UNCHANGED <<at, here, job, file>>
      PROVE  Inv'
  BY <1>2, Elsewhere DEF Inv, Typed
<1>3. CASE Ingest
  BY <1>2, <1>3 DEF Ingest, Inv, Typed
<1>4. CASE UNCHANGED vars
  BY <1>2, <1>4 DEF vars, Inv, Typed
<1>. QED
  BY <1>1, <1>3, <1>4, HandlerKeeps, DeleteKeeps DEF Next

\* A finalized archive holds every measurement that was there from the choice
\* of its columns until its rows were read, with all its values, and of an
\* entry that an error cut short nothing that is out of place, whatever is
\* stored and deleted while it is made and however small the pipe is.  What
\* makes it hold is that nothing is lost between the writer and the zip, and
\* that what is deleted between the two queries is in neither.
THEOREM FinalizedIsWhole == Spec => []ArchiveWhole
<1>1. Inv => ArchiveWhole
  BY DEF Inv, Making, Whole, ArchiveWhole
<1>. QED
  BY <1>1, InvInit, InvStep, PTL DEF Spec

-----------------------------------------------------------------------------
(* The pages. *)

\* The listing is a strict total order, and what is below a row is after it.
LEMMA LaterOrder ==
    /\ \A r, s, t \in Rows : Later(r, s) /\ Later(s, t) => Later(r, t)
    /\ \A r, s \in Rows : r # s => Later(r, s) \/ Later(s, r)
    /\ \A r, s \in Rows : Later(r, s) => ~Later(s, r) /\ r # s
    /\ \A r, s \in Rows : Below(r, s) <=> Later(s, r)
<1>1. \A r \in Rows : Time[r] \in Nat /\ Id[r] \in Nat
  BY PagingAssumption
<1>2. \A r, s \in Rows : Id[r] = Id[s] => r = s
  BY PagingAssumption
<1>. QED
  BY <1>1, <1>2 DEF Later, Below

\* How many rows are before a row tells it apart, and says which come first.
LEMMA PlacesDiffer ==
    ASSUME NEW S \in SUBSET Rows, NEW r \in S, NEW s \in S, Later(r, s)
    PROVE  /\ Cardinality(Before(r, S)) \in Nat /\ Cardinality(Before(s, S)) \in Nat
           /\ Cardinality(Before(r, S)) < Cardinality(Before(s, S))
<1>1. IsFiniteSet(S)
  BY PagingAssumption, FS_Subset
<1>2. Before(r, S) \subseteq S /\ Before(s, S) \subseteq S
  BY DEF Before
<1>3. IsFiniteSet(Before(r, S)) /\ IsFiniteSet(Before(s, S))
  BY <1>1, <1>2, FS_Subset
<1>4. Before(r, S) \subseteq Before(s, S)
  BY LaterOrder DEF Before
<1>5. r \in Before(s, S) /\ r \notin Before(r, S)
  BY LaterOrder DEF Before
<1>6. /\ Cardinality(Before(r, S)) <= Cardinality(Before(s, S))
      /\ Cardinality(Before(r, S)) # Cardinality(Before(s, S))
  BY <1>3, <1>4, <1>5, FS_Subset
<1>7. Cardinality(Before(r, S)) \in Nat /\ Cardinality(Before(s, S)) \in Nat
  BY <1>3, FS_CardinalityType
<1>. QED
  BY <1>6, <1>7

\* Every place from the first on is some row's.
LEMMA PlacesTaken ==
    ASSUME NEW S \in SUBSET Rows
    PROVE  /\ Cardinality(S) \in Nat
           /\ \A r \in S : Cardinality(Before(r, S)) \in 0..(Cardinality(S) - 1)
           /\ \A k \in 0..(Cardinality(S) - 1) : \E r \in S : Cardinality(Before(r, S)) = k
<1>. DEFINE n == Cardinality(S)
            f == [r \in S |-> Cardinality(Before(r, S))]
            P == 0..(n - 1)
<1>1. IsFiniteSet(S)
  BY PagingAssumption, FS_Subset
<1>2. n \in Nat
  BY <1>1, FS_CardinalityType
<1>3. ASSUME NEW r \in S PROVE Cardinality(Before(r, S)) \in P
  <2>1. Before(r, S) \subseteq S /\ r \notin Before(r, S)
    BY LaterOrder DEF Before
  <2>2. IsFiniteSet(Before(r, S)) /\ Cardinality(Before(r, S)) <= n /\ Cardinality(Before(r, S)) # n
    BY <1>1, <2>1, FS_Subset
  <2>3. Cardinality(Before(r, S)) \in Nat
    BY <2>2, FS_CardinalityType
  <2>. QED
    BY <1>2, <2>2, <2>3
<1>4. \A r, s \in S : r # s => Cardinality(Before(r, S)) # Cardinality(Before(s, S))
  BY PlacesDiffer, LaterOrder
<1>5. f \in Injection(S, P)
  BY <1>3, <1>4 DEF Injection, IsInjective
<1>6. IsFiniteSet(P) /\ Cardinality(P) = n
  <2>1. 0 \in Int /\ n - 1 \in Int
    BY <1>2
  <2>2. IsFiniteSet(P) /\ Cardinality(P) = IF 0 > n - 1 THEN 0 ELSE n - 1 - 0 + 1
    BY <2>1, FS_Interval, Zenon
  <2>. QED
    BY <1>2, <2>2
<1>7. f \in Surjection(S, P)
  BY <1>1, <1>5, <1>6, FS_Injection
<1>8. \A k \in P : \E r \in S : f[r] = k
  BY <1>7 DEF Surjection
<1>. QED
  BY <1>2, <1>3, <1>8

\* What a page holds: rows below the cursor, the first of them in the order of
\* the listing, and all of them unless the page is full.
LEMMA PageHolds ==
    ASSUME NEW T \in SUBSET Rows, NEW cur \in Rows \cup {NoRow}, NEW p, p = Page(T, cur)
    PROVE  /\ p \in Seq(Rows) /\ Len(p) <= PerPage
           /\ \A i \in DOMAIN p : p[i] \in Rest(T, cur)
           /\ \A i, j \in DOMAIN p : i < j => Later(p[i], p[j])
           /\ \A r \in Rest(T, cur) : r \in Inside(p)
                                      \/ (Len(p) = PerPage /\ Later(p[Len(p)], r))
<1>. DEFINE S == Rest(T, cur)
            Place(r) == Cardinality(Before(r, S))
            n == Cardinality(S)
            m == IF n < PerPage THEN n ELSE PerPage
<1>0. S \in SUBSET Rows /\ PerPage \in Nat \ {0}
  BY PagingAssumption DEF Rest
<1>1. /\ n \in Nat
      /\ \A r \in S : Place(r) \in 0..(n - 1)
      /\ \A k \in 0..(n - 1) : \E r \in S : Place(r) = k
  BY <1>0, PlacesTaken
<1>2. p = [i \in 1..m |-> CHOOSE r \in S : Place(r) = i - 1]
  BY DEF Page
<1>. HIDE DEF S
<1>3. m \in Nat /\ m <= PerPage /\ m <= n /\ (m = n \/ m = PerPage)
  BY <1>0, <1>1
<1>4. ASSUME NEW i \in 1..m PROVE p[i] \in S /\ Place(p[i]) = i - 1
  <2>1. i - 1 \in 0..(n - 1)
    BY <1>1, <1>3
  <2>2. \E r \in S : Place(r) = i - 1
    BY <1>1, <2>1
  <2>3. p[i] = CHOOSE r \in S : Place(r) = i - 1
    BY <1>2
  <2>. QED
    BY <2>2, <2>3
<1>. HIDE DEF m, n
<1>5. DOMAIN p = 1..m /\ \A i \in 1..m : p[i] \in Rows
  BY <1>0, <1>2, <1>4
<1>6. p \in Seq(Rows) /\ Len(p) = m
  <2>1. p \in [1..m -> Rows]
    BY <1>2, <1>5
  <2>. QED
    BY <1>3, <2>1
<1>7. ASSUME NEW r \in S, NEW s \in S, Place(r) < Place(s) PROVE Later(r, s)
  <2>1. Place(r) \in Nat /\ Place(s) \in Nat
    BY <1>1
  <2>2. r # s
    BY <1>7, <2>1
  <2>3. ~Later(s, r)
    BY <1>0, <1>7, <2>1, PlacesDiffer
  <2>. QED
    BY <1>0, <2>2, <2>3, LaterOrder
<1>8. ASSUME NEW i \in 1..m, NEW j \in 1..m, i < j PROVE Later(p[i], p[j])
  <2>1. Place(p[i]) < Place(p[j])
    BY <1>3, <1>4, <1>8
  <2>. QED
    BY <1>4, <1>7, <2>1
<1>9. ASSUME NEW r \in S PROVE r \in Inside(p) \/ (m = PerPage /\ Later(p[m], r))
  <2>. DEFINE k == Place(r)
  <2>1. k \in 0..(n - 1)
    BY <1>1
  <2>. HIDE DEF k
  <2>2. CASE k < m
    <3>1. k + 1 \in 1..m
      BY <1>3, <2>1, <2>2
    <3>2. p[k + 1] \in S /\ Place(p[k + 1]) = k
      BY <1>4, <2>1, <3>1
    <3>3. p[k + 1] = r
      BY <1>0, <2>1, <3>2, PlacesDiffer, LaterOrder DEF k
    <3>. QED
      BY <1>5, <3>1, <3>3 DEF Inside
  <2>3. CASE ~(k < m)
    <3>1. m = PerPage /\ m \in 1..m
      BY <1>0, <1>1, <1>3, <2>1, <2>3
    <3>2. p[m] \in S /\ Place(p[m]) = m - 1
      BY <1>4, <3>1
    <3>3. Place(p[m]) < k
      BY <1>3, <2>1, <2>3, <3>2
    <3>. QED
      BY <1>7, <3>1, <3>2, <3>3 DEF k
  <2>. QED
    BY <2>2, <2>3
<1>. QED
  BY <1>3, <1>4, <1>5, <1>6, <1>8, <1>9 DEF S

\* What a concatenation holds.
LEMMA ConcatHolds ==
    ASSUME NEW s \in Seq(Rows), NEW t \in Seq(Rows)
    PROVE  /\ s \o t \in Seq(Rows)
           /\ Inside(s \o t) = Inside(s) \cup Inside(t)
           /\ \A i \in DOMAIN (s \o t) :
                 \/ i \in DOMAIN s /\ (s \o t)[i] = s[i]
                 \/ i > Len(s) /\ i - Len(s) \in DOMAIN t /\ (s \o t)[i] = t[i - Len(s)]
<1>1. /\ Len(s) \in Nat /\ Len(t) \in Nat /\ DOMAIN s = 1..Len(s) /\ DOMAIN t = 1..Len(t)
      /\ s \o t \in Seq(Rows) /\ DOMAIN (s \o t) = 1..(Len(s) + Len(t))
      /\ \A i \in 1..Len(s) : (s \o t)[i] = s[i]
      /\ \A i \in 1..(Len(s) + Len(t)) : i > Len(s) => (s \o t)[i] = t[i - Len(s)]
  OBVIOUS
<1>2. ASSUME NEW i \in DOMAIN (s \o t)
      PROVE  \/ i \in DOMAIN s /\ (s \o t)[i] = s[i]
             \/ i > Len(s) /\ i - Len(s) \in DOMAIN t /\ (s \o t)[i] = t[i - Len(s)]
  BY <1>1
<1>3. Inside(s \o t) \subseteq Inside(s) \cup Inside(t)
  BY <1>2 DEF Inside
<1>4. Inside(s) \subseteq Inside(s \o t)
  BY <1>1 DEF Inside
<1>5. ASSUME NEW j \in DOMAIN t PROVE t[j] \in Inside(s \o t)
  <2>1. Len(s) + j \in DOMAIN (s \o t) /\ (s \o t)[Len(s) + j] = t[j]
    BY <1>1
  <2>. QED
    BY <2>1 DEF Inside
<1>. QED
  BY <1>1, <1>2, <1>3, <1>4, <1>5 DEF Inside

\* Where the handler of a listing may stand.
ListPoints == {"idle", "toPermit", "permit", "toPage", "page", "link", "done", "refused", "gone"}
Ended == {"done", "refused", "gone"}

\* What the client has been shown is in the order of the listing, from the
\* latest row to that of the cursor; what stayed and was not shown is below
\* the cursor, and the listing ends when nothing is.
Listing(c) ==
    /\ stayed[c] \subseteq media
    /\ \A i, j \in DOMAIN shown[c] : i < j => Later(shown[c][i], shown[c][j])
    /\ cursor[c] = NoRow /\ at[c] \notin Ended => shown[c] = <<>>
    /\ cursor[c] # NoRow =>
          /\ \A i \in DOMAIN shown[c] : shown[c][i] = cursor[c] \/ Later(shown[c][i], cursor[c])
          /\ \A r \in stayed[c] : r \in Inside(shown[c]) \/ Below(r, cursor[c])
    /\ kind[c] = "list" => at[c] \in ListPoints
    /\ kind[c] = "list" /\ at[c] = "done" => stayed[c] \subseteq Inside(shown[c])

ListTyped ==
    /\ kind \in Mixes /\ at \in [Clients -> Points] /\ media \subseteq Rows
    /\ cursor \in [Clients -> Rows \cup {NoRow}]
    /\ shown \in [Clients -> Seq(Rows)] /\ stayed \in [Clients -> SUBSET Rows]

ListInv == ListTyped /\ \A c \in Clients : Listing(c)

\* A step that shows the client nothing leaves the listing as it is.
LEMMA ListingKept ==
    ASSUME NEW c \in Clients, Listing(c),
           kind' = kind, shown'[c] = shown[c], cursor'[c] = cursor[c],
           stayed'[c] \subseteq stayed[c] \cap media',
           at[c] \in Ended => at'[c] \in Ended,
           kind[c] = "list" => at'[c] \in ListPoints,
           kind[c] = "list" /\ at'[c] = "done" => at[c] = "done"
    PROVE  Listing(c)'
  BY DEF Listing

\* A step of the handler of d, or of its client, that leaves the tables alone.
LEMMA PointMoves ==
    ASSUME ListInv, NEW d \in Clients, UNCHANGED <<kind, listVars, media>>,
           NEW p \in Points, at' = [at EXCEPT ![d] = p],
           at[d] \in Ended => p \in Ended,
           kind[d] = "list" => p \in ListPoints \ {"done"}
    PROVE  ListInv'
<1>1. ListTyped'
  BY DEF ListInv, ListTyped, listVars
<1>2. ASSUME NEW c \in Clients PROVE Listing(c)'
  <2>1. at'[c] = IF c = d THEN p ELSE at[c]
    BY DEF ListInv, ListTyped
  <2>2. Listing(c)
    BY DEF ListInv
  <2>3. kind[c] = "list" => at'[c] \in ListPoints
    BY <2>1, <2>2 DEF Listing
  <2>4. stayed'[c] \subseteq stayed[c] \cap media'
    BY <2>2 DEF Listing, listVars
  <2>. QED
    BY <2>1, <2>2, <2>3, <2>4, ListingKept DEF listVars
<1>. QED
  BY <1>1, <1>2 DEF ListInv

\* A row that is removed is not one that stayed.
LEMMA RowGoes ==
    ASSUME ListInv, NEW d \in Clients, UNCHANGED <<kind, shown, cursor>>,
           (\E r \in media : RemoveRows({r})) \/ UNCHANGED <<media, stayed>>,
           NEW p \in Points, at' = [at EXCEPT ![d] = p],
           at[d] \in Ended => p \in Ended,
           kind[d] = "list" => p \in ListPoints \ {"done"}
    PROVE  ListInv'
<1>1. CASE UNCHANGED <<media, stayed>>
  BY <1>1, PointMoves DEF listVars
<1>2. ASSUME NEW r \in media, RemoveRows({r}) PROVE ListInv'
  <2>1. media' = media \ {r} /\ stayed' = [c \in Clients |-> stayed[c] \ {r}]
    BY <1>2 DEF RemoveRows
  <2>2. ListTyped'
    BY <2>1 DEF ListInv, ListTyped
  <2>3. ASSUME NEW c \in Clients PROVE Listing(c)'
    <3>1. at'[c] = IF c = d THEN p ELSE at[c]
      BY DEF ListInv, ListTyped
    <3>2. Listing(c)
      BY DEF ListInv
    <3>3. kind[c] = "list" => at'[c] \in ListPoints
      BY <3>1, <3>2 DEF Listing
    <3>4. stayed'[c] \subseteq stayed[c] \cap media'
      BY <2>1, <3>2 DEF Listing
    <3>. QED
      BY <3>1, <3>2, <3>3, <3>4, ListingKept
  <2>. QED
    BY <2>2, <2>3 DEF ListInv
<1>. QED
  BY <1>1, <1>2

\* Another page continues the listing where the one before ended.
LEMMA PageContinues ==
    ASSUME ListInv, NEW c \in Clients, ReadPage(c)
    PROVE  ListInv'
<1>. PICK cur : cur = cursor[c]
  OBVIOUS
<1>. PICK p : p = Page(media, cur)
  OBVIOUS
<1>. DEFINE old == shown[c]
            next == NextCursor(p)
<1>1. /\ at[c] = "page" /\ UNCHANGED <<kind, media>>
      /\ shown' = [shown EXCEPT ![c] = old \o p]
      /\ stayed' = [stayed EXCEPT ![c] = IF cur = NoRow THEN media ELSE stayed[c]]
      /\ cursor' = [cursor EXCEPT ![c] = next]
      /\ at' = [at EXCEPT ![c] = IF next = NoRow THEN "done" ELSE "link"]
  BY DEF ReadPage, Goto
<1>2. /\ cur \in Rows \cup {NoRow} /\ old \in Seq(Rows) /\ media \in SUBSET Rows
      /\ stayed[c] \subseteq media /\ Listing(c)
  BY DEF ListInv, ListTyped, Listing
<1>3. /\ p \in Seq(Rows) /\ Len(p) <= PerPage
      /\ \A i \in DOMAIN p : p[i] \in Rest(media, cur)
      /\ \A i, j \in DOMAIN p : i < j => Later(p[i], p[j])
      /\ \A r \in Rest(media, cur) : r \in Inside(p) \/ (Len(p) = PerPage /\ Later(p[Len(p)], r))
  BY <1>2, PageHolds
<1>4. PerPage \in Nat \ {0} /\ NoRow \notin Rows /\ Len(p) \in Nat
  BY <1>3, PagingAssumption
<1>5. IF Len(p) = PerPage THEN next = p[Len(p)] /\ Len(p) \in DOMAIN p ELSE next = NoRow
  BY <1>3, <1>4 DEF NextCursor
<1>. HIDE DEF next
<1>6. next \in Rows \cup {NoRow}
  BY <1>3, <1>4, <1>5
<1>7. ASSUME NEW i \in DOMAIN old, NEW j \in DOMAIN p PROVE Later(old[i], p[j])
  <2>1. cur # NoRow /\ (old[i] = cur \/ Later(old[i], cur))
    BY <1>1, <1>2 DEF Listing, Ended
  <2>2. p[j] \in Rows /\ Below(p[j], cur) /\ cur \in Rows /\ old[i] \in Rows
    BY <1>2, <1>3, <2>1 DEF Rest
  <2>. QED
    BY <2>1, <2>2, LaterOrder
<1>8. /\ old \o p \in Seq(Rows) /\ Inside(old \o p) = Inside(old) \cup Inside(p)
      /\ \A i \in DOMAIN (old \o p) :
            \/ i \in DOMAIN old /\ (old \o p)[i] = old[i]
            \/ i > Len(old) /\ i - Len(old) \in DOMAIN p /\ (old \o p)[i] = p[i - Len(old)]
  BY <1>2, <1>3, ConcatHolds
<1>9. ASSUME NEW i \in DOMAIN (old \o p), NEW j \in DOMAIN (old \o p), i < j
      PROVE  Later((old \o p)[i], (old \o p)[j])
  <2>0. i \in Nat /\ j \in Nat /\ Len(old) \in Nat /\ DOMAIN old = 1..Len(old)
    BY <1>2, <1>8
  <2>1. CASE i \in DOMAIN old /\ (old \o p)[i] = old[i]
    <3>1. CASE j \in DOMAIN old /\ (old \o p)[j] = old[j]
      BY <1>2, <1>9, <2>1, <3>1 DEF Listing
    <3>2. CASE j - Len(old) \in DOMAIN p /\ (old \o p)[j] = p[j - Len(old)]
      BY <1>7, <2>1, <3>2
    <3>. QED
      BY <1>8, <3>1, <3>2
  <2>2. CASE i > Len(old) /\ i - Len(old) \in DOMAIN p /\ (old \o p)[i] = p[i - Len(old)]
    <3>0. j \notin DOMAIN old
      BY <1>9, <2>0, <2>2
    <3>1. j - Len(old) \in DOMAIN p /\ (old \o p)[j] = p[j - Len(old)]
      BY <1>8, <3>0
    <3>2. i - Len(old) < j - Len(old)
      BY <1>9, <2>0
    <3>. QED
      BY <1>3, <2>2, <3>1, <3>2
  <2>. QED
    BY <1>8, <2>1, <2>2
<1>10. ASSUME next # NoRow, NEW i \in DOMAIN (old \o p)
       PROVE  (old \o p)[i] = next \/ Later((old \o p)[i], next)
  <2>1. next = p[Len(p)] /\ Len(p) \in DOMAIN p
    BY <1>5, <1>10
  <2>2. CASE i \in DOMAIN old /\ (old \o p)[i] = old[i]
    BY <1>7, <2>1, <2>2
  <2>3. ASSUME NEW k \in DOMAIN p, (old \o p)[i] = p[k]
        PROVE  (old \o p)[i] = next \/ Later((old \o p)[i], next)
    <3>1. k = Len(p) \/ k < Len(p)
      BY <1>3, <2>3
    <3>. QED
      BY <1>3, <2>1, <2>3, <3>1
  <2>. QED
    BY <1>8, <2>2, <2>3
<1>11. ASSUME NEW r \in IF cur = NoRow THEN media ELSE stayed[c]
       PROVE  r \in Inside(old \o p) \/ (next # NoRow /\ Below(r, next))
  <2>1. r \in Rows /\ (r \in Inside(old) \/ r \in Rest(media, cur))
    BY <1>2 DEF Rest, Listing
  <2>2. CASE r \in Rest(media, cur) /\ Len(p) = PerPage /\ Later(p[Len(p)], r)
    BY <1>3, <1>4, <1>5, <2>1, <2>2, LaterOrder
  <2>. QED
    BY <1>3, <1>8, <2>1, <2>2
<1>12. ListTyped'
  BY <1>1, <1>6, <1>8 DEF ListInv, ListTyped, Points
<1>13. Listing(c)'
  <2>1. /\ shown'[c] = old \o p /\ cursor'[c] = next /\ media' = media /\ kind' = kind
        /\ stayed'[c] = IF cur = NoRow THEN media ELSE stayed[c]
        /\ at'[c] = IF next = NoRow THEN "done" ELSE "link"
    BY <1>1 DEF ListInv, ListTyped
  <2>2. stayed'[c] \subseteq media'
    BY <1>2, <2>1
  <2>3. \A i, j \in DOMAIN shown'[c] : i < j => Later(shown'[c][i], shown'[c][j])
    BY <1>9, <2>1
  <2>4. next # NoRow =>
          /\ \A i \in DOMAIN shown'[c] : shown'[c][i] = next \/ Later(shown'[c][i], next)
          /\ \A r \in stayed'[c] : r \in Inside(shown'[c]) \/ Below(r, next)
    <3>1. ASSUME next # NoRow, NEW i \in DOMAIN (old \o p)
          PROVE  (old \o p)[i] = next \/ Later((old \o p)[i], next)
      BY <1>10, <3>1
    <3>2. ASSUME next # NoRow, NEW r \in stayed'[c]
          PROVE  r \in Inside(old \o p) \/ Below(r, next)
      BY <1>11, <2>1, <3>2
    <3>3. next # NoRow => \A i \in DOMAIN (old \o p) :
                             (old \o p)[i] = next \/ Later((old \o p)[i], next)
      BY <3>1
    <3>4. next # NoRow => \A r \in stayed'[c] : r \in Inside(old \o p) \/ Below(r, next)
      BY <3>2
    <3>5. shown'[c] = old \o p
      BY <2>1
    <3>. QED
      BY ONLY <3>3, <3>4, <3>5
  <2>5. next = NoRow => stayed'[c] \subseteq Inside(shown'[c])
    BY <1>11, <2>1
  <2>. QED
    BY <2>1, <2>2, <2>3, <2>4, <2>5 DEF Listing, Ended, ListPoints
<1>14. ASSUME NEW d \in Clients, d # c PROVE Listing(d)'
  <2>1. /\ shown'[d] = shown[d] /\ cursor'[d] = cursor[d] /\ stayed'[d] = stayed[d]
        /\ at'[d] = at[d] /\ media' = media /\ kind' = kind
    BY <1>1, <1>14 DEF ListInv, ListTyped
  <2>2. Listing(d)
    BY DEF ListInv
  <2>. QED
    BY <2>1, <2>2 DEF Listing
<1>. QED
  BY <1>12, <1>13, <1>14 DEF ListInv

\* The handlers of requests and their clients keep the listings.
LEMMA RequestKeepsListings ==
    ASSUME ListInv, NEW c \in Clients, HandlerStep(c) \/ ClientStep(c)
    PROVE  ListInv'
<1>1. /\ Listing(c)
      /\ kind[c] = "list" => at[c] \in ListPoints
      /\ at[c] \in Points /\ kind \in Mixes
  BY DEF ListInv, ListTyped, Listing
<1>0. /\ {"done", "link", "permit", "page", "first", "both", "kit", "act", "refused", "gone",
          "toPermit", "toPage", "toFirst", "toSecond", "toKit", "token"} \subseteq Points
      /\ DOMAIN After = {"toPermit", "toPage", "toFirst", "toSecond", "toKit"}
  BY DEF Points, After
<1>2. CASE Begin(c)
  <2>1. Start[kind[c]] \in Points /\ (kind[c] = "list" => Start[kind[c]] = "toPermit")
    BY <1>2 DEF Begin, Start, Kinds, Points, After
  <2>. QED
    BY <1>1, <1>2, <2>1, PointMoves DEF Begin, Goto, ListPoints, Ended
<1>3. CASE Get(c)
  <2>1. /\ at[c] \in DOMAIN After /\ After[at[c]] \in Points \ Ended
        /\ kind[c] = "list" => After[at[c]] \in ListPoints \ {"done"}
    <3>1. at[c] \in DOMAIN After
      BY <1>3 DEF Get, GetWhen
    <3>2. \A q \in DOMAIN After : After[q] \in Points \ Ended
      BY <1>0 DEF After, Ended
    <3>3. \A q \in DOMAIN After \cap ListPoints : After[q] \in ListPoints \ {"done"}
      BY <1>0 DEF After, ListPoints
    <3>. QED
      BY <1>1, <3>1, <3>2, <3>3
  <2>2. at[c] \notin Ended
    BY <2>1 DEF After, Ended
  <2>. QED
    BY <1>3, <2>1, <2>2, PointMoves DEF Get, GetWhen, Goto
<1>4. CASE Refuse(c)
  BY <1>4, PointMoves DEF Refuse, Goto, Points, ListPoints, Ended
<1>5. CASE Permit(c)
  BY <1>5, PointMoves DEF Permit, Goto, Points, After, ListPoints, Ended
<1>6. CASE ReadPage(c)
  BY <1>6, PageContinues
<1>7. CASE First(c)
  <2>1. kind[c] # "list" /\ at[c] \notin Ended
    BY <1>1, <1>7 DEF First, ListPoints, Ended
  <2>. QED
    BY <1>0, <1>7, <2>1, PointMoves DEF First, Goto
<1>8. CASE Act(c)
  <2>1. kind[c] # "list" /\ at[c] \notin Ended
    BY <1>1, <1>8 DEF Act, ListPoints, Ended
  <2>. QED
    BY <1>0, <1>8, <2>1, RowGoes DEF Act, Goto
<1>9. CASE Insert(c)
  <2>1. /\ media \subseteq media' /\ media' \subseteq Rows /\ kind[c] = "upload"
        /\ at' = [at EXCEPT ![c] = "done"] /\ UNCHANGED <<kind, cursor, shown, stayed>>
    BY <1>9 DEF Insert, Goto, ListInv, ListTyped, listVars
  <2>2. ListTyped'
    BY <2>1 DEF ListInv, ListTyped, Points
  <2>3. ASSUME NEW d \in Clients PROVE Listing(d)'
    <3>1. Listing(d) /\ at'[d] = IF d = c THEN "done" ELSE at[d]
      BY <2>1 DEF ListInv, ListTyped
    <3>2. stayed'[d] \subseteq stayed[d] \cap media'
      BY <2>1, <3>1 DEF Listing
    <3>3. kind[d] = "list" => d # c /\ at'[d] \in ListPoints
      BY <2>1, <3>1 DEF Listing
    <3>. QED
      BY <2>1, <3>1, <3>2, <3>3, ListingKept DEF Ended
  <2>. QED
    BY <2>2, <2>3 DEF ListInv
<1>10. CASE Spawn(c)
  <2>1. kind[c] # "list" /\ at[c] \notin Ended
    BY <1>1, <1>10 DEF Spawn, ListPoints, Ended
  <2>. QED
    BY <1>0, <1>10, <2>1, PointMoves DEF Spawn, Goto
<1>11. CASE Follow(c)
  <2>1. at[c] \notin Ended
    BY <1>11 DEF Follow, Ended
  <2>2. CASE at[c] = "link" /\ Goto(c, "toPermit")
    <3>1. "toPermit" \in ListPoints \ {"done"}
      BY DEF ListPoints
    <3>. QED
      BY <1>0, <1>11, <2>1, <2>2, <3>1, PointMoves DEF Follow, Goto
  <2>3. CASE at[c] = "token" /\ Goto(c, "toKit")
    <3>1. kind[c] # "list"
      BY <1>1, <2>3 DEF ListPoints
    <3>. QED
      BY <1>0, <1>11, <2>1, <2>3, <3>1, PointMoves DEF Follow, Goto
  <2>. QED
    BY <1>11, <2>2, <2>3 DEF Follow
<1>12. CASE Expire(c)
  BY <1>1, <1>12, PointMoves DEF Expire, Goto, Points, ListPoints, Ended
<1>13. CASE Leave(c)
  BY <1>1, <1>13, RowGoes DEF Leave, Goto, Points, ListPoints, Ended
<1>. QED
  BY <1>2, <1>3, <1>4, <1>5, <1>6, <1>7, <1>8, <1>9, <1>10, <1>11, <1>12, <1>13
  DEF HandlerStep, ClientStep

LEMMA ListInvInit == Init => ListInv
<1>. SUFFICES ASSUME Init PROVE ListInv
  OBVIOUS
<1>1. ListTyped
  BY DEF Init, ListTyped, Points
<1>2. ASSUME NEW c \in Clients PROVE Listing(c)
  <2>1. /\ shown[c] = <<>> /\ stayed[c] = {} /\ cursor[c] = NoRow /\ at[c] = "idle"
    BY DEF Init
  <2>. QED
    BY <2>1 DEF Listing, ListPoints
<1>. QED
  BY <1>1, <1>2 DEF ListInv

LEMMA ListInvStep == ListInv /\ [Next]_vars => ListInv'
<1>. SUFFICES ASSUME ListInv, [Next]_vars PROVE ListInv'
  OBVIOUS
<1>1. CASE UNCHANGED <<kind, at, listVars, media>>
  <2>1. ListTyped'
    BY <1>1 DEF ListInv, ListTyped, listVars
  <2>2. ASSUME NEW c \in Clients PROVE Listing(c)'
    BY <1>1 DEF ListInv, Listing, listVars
  <2>. QED
    BY <2>1, <2>2 DEF ListInv
<1>2. ASSUME NEW c \in Clients, JobStep(c) PROVE UNCHANGED <<kind, at, listVars, media>>
  BY <1>2 DEF JobStep, ReadConfigs, ReadKeys, ReadKeysOf, ReadRows, Write, WriteWhen, Written,
     Cut, Copy, ZipFails, ZipEnds, ZipEndsWhen, NextEntry, JobOnly
<1>3. Ingest => UNCHANGED <<kind, at, listVars, media>>
  BY DEF Ingest
<1>4. UNCHANGED vars => UNCHANGED <<kind, at, listVars, media>>
  BY DEF vars
<1>5. ASSUME NEW gone, RemoveRows(gone), UNCHANGED <<kind, at, cursor, shown>> PROVE ListInv'
  <2>1. media' = media \ gone /\ stayed' = [c \in Clients |-> stayed[c] \ gone]
    BY <1>5 DEF RemoveRows
  <2>2. ListTyped'
    BY <1>5, <2>1 DEF ListInv, ListTyped
  <2>3. ASSUME NEW c \in Clients PROVE Listing(c)'
    <3>1. Listing(c)
      BY DEF ListInv
    <3>2. stayed'[c] \subseteq stayed[c] \cap media'
      BY <2>1, <3>1 DEF Listing
    <3>. QED
      BY <1>5, <3>1, <3>2, ListingKept DEF Listing
  <2>. QED
    BY <2>2, <2>3 DEF ListInv
<1>6. DeleteConfiguration => ListInv'
  BY <1>5 DEF DeleteConfiguration
<1>. QED
  BY <1>1, <1>2, <1>3, <1>4, <1>6, RequestKeepsListings DEF Next

LEMMA ListedCover == ListInv => PagesCover
<1>. SUFFICES ASSUME ListInv, NEW c \in Clients
     PROVE  /\ \A i, j \in DOMAIN shown[c] : shown[c][i] = shown[c][j] => i = j
            /\ kind[c] = "list" /\ at[c] = "done" => stayed[c] \subseteq Inside(shown[c])
  BY DEF PagesCover, Inside
<1>1. Listing(c) /\ shown[c] \in Seq(Rows)
  BY DEF ListInv, ListTyped
<1>2. ASSUME NEW i \in DOMAIN shown[c], NEW j \in DOMAIN shown[c], i < j
      PROVE  shown[c][i] # shown[c][j]
  <2>1. Later(shown[c][i], shown[c][j]) /\ shown[c][i] \in Rows /\ shown[c][j] \in Rows
    BY <1>1, <1>2 DEF Listing
  <2>. QED
    BY <2>1, LaterOrder
<1>3. \A i, j \in DOMAIN shown[c] : i \in Nat /\ j \in Nat
  BY <1>1
<1>. QED
  BY <1>1, <1>2, <1>3 DEF Listing

\* Whoever follows the links from the first page to the last is shown no row
\* twice, and every row that was there all along: for any rows, with times as
\* they may be, pages of any size, and any uploads and deletions in between.
THEOREM PagesAreComplete == Spec => []PagesCover
<1>. QED
  BY ListInvInit, ListInvStep, ListedCover, PTL DEF Spec

-----------------------------------------------------------------------------
(* The pool. *)

\* Connections of a handler at a point, and of the task it has started.
HeldWith(point, j) ==
    HeldAt(point) + (IF j.stage = "configs" /\ j.writer = "write" THEN 1 ELSE 0)

\* No more connections are out than there are, nor pieces in a pipe than it
\* has room for.
PoolInv ==
    /\ Cardinality(Out) <= MaxSize
    /\ \A c \in Clients : Len(job[c].pipe) <= PipeCap

\* The connections that are out can be counted.
LEMMA CountHeld ==
    ASSUME NEW S \in SUBSET (Clients \X (1..3))
    PROVE  IsFiniteSet(S) /\ Cardinality(S) \in Nat
<1>1. IsFiniteSet(1..3)
  <2>1. 1 \in Int /\ 3 \in Int
    OBVIOUS
  <2>. QED
    BY <2>1, FS_Interval, Zenon
<1>2. IsFiniteSet(Clients)
  BY HandlersAssumption
<1>3. IsFiniteSet(Clients \X (1..3))
  BY <1>1, <1>2, FS_Product
<1>4. IsFiniteSet(S)
  BY <1>3, FS_Subset
<1>. QED
  BY <1>4, FS_CardinalityType

\* A step of one client's handler or task takes a connection if one is free,
\* or gives some back.
LEMMA OneHolder ==
    ASSUME PoolInv, Inv, NEW c \in Clients,
           NEW p, at' = [at EXCEPT ![c] = p],
           NEW j, job' = [job EXCEPT ![c] = j], Len(j.pipe) <= PipeCap,
           HeldWith(p, j) <= Held(c) \/ (Free > 0 /\ HeldWith(p, j) = Held(c) + 1)
    PROVE  PoolInv'
<1>1. at = [d \in Clients |-> at[d]] /\ job = [d \in Clients |-> job[d]]
  BY DEF Inv, Typed
<1>2. \A d \in Clients : Len(job'[d].pipe) <= PipeCap
  BY <1>1 DEF PoolInv
<1>3. /\ \A d \in Clients \ {c} : at'[d] = at[d] /\ job'[d] = job[d]
      /\ at'[c] = p /\ job'[c] = j
  BY <1>1
<1>4. Held(c)' = HeldWith(p, j) /\ \A d \in Clients \ {c} : Held(d)' = Held(d)
  BY <1>3 DEF Held, HeldWith
<1>5. Held(c) \in Nat /\ HeldWith(p, j) \in Nat
  BY DEF Held, HeldWith, HeldAt
<1>6. Out' = {h \in Clients \X (1..3) : h[2] <= Held(h[1])'}
  BY DEF Out
<1>. PICK k : k = Held(c) + 1
  OBVIOUS
<1>. PICK S : S = Out'
  OBVIOUS
<1>7. /\ IsFiniteSet(Out) /\ Cardinality(Out) \in Nat /\ IsFiniteSet(S) /\ Cardinality(S) \in Nat
      /\ MaxSize \in Nat
  BY <1>6, CountHeld, HandlersAssumption DEF Out
<1>8. CASE HeldWith(p, j) <= Held(c)
  <2>1. S \subseteq Out
    <3>. SUFFICES ASSUME NEW h \in Clients \X (1..3), h[2] <= Held(h[1])' PROVE h[2] <= Held(h[1])
      BY <1>6 DEF Out
    <3>1. CASE h[1] = c
      BY <1>4, <1>5, <1>8, <3>1
    <3>2. CASE h[1] # c
      BY <1>4, <3>2
    <3>. QED
      BY <3>1, <3>2
  <2>2. Cardinality(S) <= Cardinality(Out)
    BY <1>7, <2>1, FS_Subset
  <2>. QED
    BY <1>2, <1>7, <2>2 DEF PoolInv
<1>9. CASE Free > 0 /\ HeldWith(p, j) = Held(c) + 1
  <2>1. S \subseteq Out \cup {<<c, k>>}
    <3>. SUFFICES ASSUME NEW h \in Clients \X (1..3), h[2] <= Held(h[1])'
         PROVE  h[2] <= Held(h[1]) \/ h = <<c, k>>
      BY <1>6 DEF Out
    <3>1. CASE h[1] = c
      BY <1>4, <1>5, <1>9, <3>1
    <3>2. CASE h[1] # c
      BY <1>4, <3>2
    <3>. QED
      BY <3>1, <3>2
  <2>2. /\ IsFiniteSet(Out \cup {<<c, k>>})
        /\ \/ Cardinality(Out \cup {<<c, k>>}) = Cardinality(Out)
           \/ Cardinality(Out \cup {<<c, k>>}) = Cardinality(Out) + 1
    BY <1>7, FS_AddElement
  <2>3. Cardinality(S) <= Cardinality(Out) + 1
    <3>1. Cardinality(S) <= Cardinality(Out \cup {<<c, k>>})
      BY <2>1, <2>2, FS_Subset
    <3>. QED
      BY <1>7, <2>2, <3>1
  <2>4. Cardinality(Out) + 1 <= MaxSize
    BY <1>7, <1>9 DEF Free
  <2>. QED
    BY <1>2, <1>7, <2>3, <2>4 DEF PoolInv
<1>. QED
  BY <1>8, <1>9

\* A handler waits for its second connection, too, until one is free.
LEMMA RequestKeepsPool ==
    ASSUME PoolInv, Inv, NEW c \in Clients, HandlerStep(c) \/ ClientStep(c)
    PROVE  PoolInv'
<1>0. /\ at = [d \in Clients |-> at[d]] /\ job = [d \in Clients |-> job[d]]
      /\ Len(job[c].pipe) <= PipeCap
  BY DEF Inv, Typed, PoolInv
<1>1. \A p : HeldAt(p) \in {0, 1, 2}
  BY DEF HeldAt
<1>2. ASSUME NEW p, Goto(c, p), UNCHANGED job,
             HeldAt(p) <= HeldAt(at[c]) \/ (Free > 0 /\ HeldAt(p) = HeldAt(at[c]) + 1)
      PROVE  PoolInv'
  <2>1. at' = [at EXCEPT ![c] = p] /\ job' = [job EXCEPT ![c] = job[c]]
    BY <1>0, <1>2 DEF Goto
  <2>2. \/ HeldWith(p, job[c]) <= Held(c)
        \/ Free > 0 /\ HeldWith(p, job[c]) = Held(c) + 1
    BY <1>1, <1>2 DEF Held, HeldWith
  <2>. QED
    BY <1>0, <2>1, <2>2, OneHolder
<1>3. ASSUME NEW p \in {"toPermit", "toPage", "toFirst", "toKit", "link", "token", "done",
                        "refused", "gone"},
             Goto(c, p), UNCHANGED job
      PROVE  PoolInv'
  <2>1. HeldAt(p) = 0
    BY DEF HeldAt
  <2>. QED
    BY <1>1, <1>2, <1>3, <2>1
<1>4. CASE Begin(c)
  <2>1. Start[kind[c]] \in {"toPermit", "toFirst"}
    BY <1>4 DEF Begin, Kinds, Start
  <2>. QED
    BY <1>3, <1>4, <2>1 DEF Begin
<1>5. CASE Get(c)
  <2>1. \A q \in DOMAIN After : HeldAt(After[q]) = HeldAt(q) + 1
    BY DEF After, HeldAt
  <2>. QED
    BY <1>2, <1>5, <2>1 DEF Get, GetWhen
<1>6. CASE Refuse(c) \/ Expire(c)
  BY <1>3, <1>6 DEF Refuse, Expire
<1>7. CASE Permit(c)
  <2>1. CASE at[c] = "both" /\ Goto(c, "act")
    <3>1. HeldAt("both") = 2 /\ HeldAt("act") = 1
      BY DEF HeldAt
    <3>. QED
      BY <1>2, <1>7, <2>1, <3>1 DEF Permit
  <2>. QED
    BY <1>3, <1>7, <2>1 DEF Permit
<1>8. CASE Follow(c)
  BY <1>3, <1>8 DEF Follow
<1>9. CASE ReadPage(c)
  <2>1. PICK p \in {"done", "link"} : Goto(c, p)
    BY <1>9 DEF ReadPage
  <2>. QED
    BY <1>3, <1>9, <2>1 DEF ReadPage
<1>10. CASE First(c)
  <2>1. HeldAt("first") = 1 /\ HeldAt("toSecond") = 1
    BY DEF HeldAt
  <2>. QED
    BY <1>2, <1>10, <2>1 DEF First
<1>11. CASE Act(c) \/ Insert(c)
  BY <1>3, <1>11 DEF Act, Insert
<1>12. CASE Spawn(c)
  <2>1. /\ at' = [at EXCEPT ![c] = "done"] /\ job' = [job EXCEPT ![c] = Entry("configs")]
    BY <1>12 DEF Spawn, Goto
  <2>2. Len(Entry("configs").pipe) <= PipeCap
    BY HandlersAssumption DEF Entry
  <2>3. HeldWith("done", Entry("configs")) = 0 /\ Held(c) \in Nat
    BY DEF HeldWith, HeldAt, Entry, Held
  <2>4. HeldWith("done", Entry("configs")) <= Held(c)
    BY <2>3
  <2>. PICK j : j = Entry("configs")
    OBVIOUS
  <2>. QED
    BY <2>1, <2>2, <2>4, OneHolder
<1>13. CASE Leave(c)
  BY <1>3, <1>13 DEF Leave
<1>. QED
  BY <1>4, <1>5, <1>6, <1>7, <1>8, <1>9, <1>10, <1>11, <1>12, <1>13 DEF HandlerStep, ClientStep

\* So does a task, and its writer waits for room in the pipe.
LEMMA TaskKeepsPool ==
    ASSUME PoolInv, Inv, NEW c \in Clients, JobStep(c)
    PROVE  PoolInv'
<1>. DEFINE taken(j) == IF j.stage = "configs" /\ j.writer = "write" THEN 1 ELSE 0
<1>0. /\ at = [d \in Clients |-> at[d]] /\ job[c] \in Jobs
      /\ Len(job[c].pipe) \in Nat /\ Len(job[c].pipe) <= PipeCap /\ PipeCap \in Nat \ {0}
  BY HandlersAssumption DEF Inv, Typed, PoolInv, Jobs
<1>1. \A p : HeldAt(p) \in {0, 1, 2}
  BY DEF HeldAt
<1>2. ASSUME NEW j, Set(c, j), JobOnly, Len(j.pipe) <= PipeCap,
             taken(j) <= taken(job[c]) \/ (Free > 0 /\ taken(j) = 1 /\ taken(job[c]) = 0)
      PROVE  PoolInv'
  <2>1. at' = [at EXCEPT ![c] = at[c]] /\ job' = [job EXCEPT ![c] = j]
    BY <1>0, <1>2 DEF JobOnly, Set
  <2>2. \/ HeldWith(at[c], j) <= Held(c)
        \/ Free > 0 /\ HeldWith(at[c], j) = Held(c) + 1
    BY <1>1, <1>2 DEF Held, HeldWith
  <2>. QED
    BY <1>2, <2>1, <2>2, OneHolder
<1>3. ASSUME NEW j \in Jobs, Set(c, j), JobOnly, j.stage = job[c].stage,
             j.writer \in {job[c].writer, "rows", "done"}, Len(j.pipe) <= PipeCap
      PROVE  PoolInv'
  <2>1. taken(j) <= taken(job[c])
    BY <1>3
  <2>. QED
    BY <1>2, <1>3, <2>1
<1>4. CASE ReadConfigs(c)
  <2>. DEFINE j == [job[c] EXCEPT !.writer = "write", !.todo = Configs]
  <2>1. Set(c, j) /\ JobOnly /\ Free > 0 /\ taken(j) = 1 /\ taken(job[c]) = 0
    BY <1>0, <1>4 DEF ReadConfigs, Jobs
  <2>2. j.pipe = job[c].pipe
    BY <1>0 DEF Jobs
  <2>. HIDE DEF j
  <2>. QED
    BY <1>0, <1>2, <2>1, <2>2
<1>5. CASE ReadKeys(c)
  <2>. DEFINE j == [job[c] EXCEPT !.writer = "header", !.todo = {Header}]
  <2>1. Set(c, j) /\ JobOnly /\ taken(j) = 0 /\ j.pipe = job[c].pipe
    BY <1>0, <1>5 DEF ReadKeys, ReadKeysOf, Jobs
  <2>. HIDE DEF j
  <2>. QED
    BY <1>0, <1>2, <2>1
<1>6. CASE ReadRows(c)
  <2>. DEFINE j == [job[c] EXCEPT !.writer = "write", !.todo = {Chunk("line", m) : m \in measurements}]
  <2>1. Set(c, j) /\ JobOnly /\ taken(j) = 0 /\ j.pipe = job[c].pipe
    BY <1>0, <1>6 DEF ReadRows, Jobs
  <2>. HIDE DEF j
  <2>. QED
    BY <1>0, <1>2, <2>1
<1>7. CASE Write(c)
  <2>. PICK q : q = job[c].pipe
    OBVIOUS
  <2>1. PICK x \in job[c].todo :
           Set(c, [job[c] EXCEPT !.todo = job[c].todo \ {x},
                                 !.pipe = IF Len(q) < PipeCap THEN Append(q, x) ELSE q])
    BY <1>7 DEF Write, WriteWhen
  <2>. PICK t : t = IF Len(q) < PipeCap THEN Append(q, x) ELSE q
    OBVIOUS
  <2>. DEFINE j == [job[c] EXCEPT !.todo = job[c].todo \ {x}, !.pipe = t]
  <2>2. q \in Seq(Chunks) /\ x \in Chunks /\ Len(q) <= PipeCap
    BY <1>0 DEF Jobs
  <2>3. t \in Seq(Chunks) /\ Len(t) <= PipeCap
    <3>1. Append(q, x) \in Seq(Chunks) /\ Len(Append(q, x)) = Len(q) + 1 /\ Len(q) \in Nat
      BY <2>2
    <3>. QED
      BY <1>0, <2>2, <3>1
  <2>4. j \in Jobs /\ j.stage = job[c].stage /\ j.writer = job[c].writer /\ j.pipe = t
    BY <1>0, <2>3 DEF Jobs
  <2>5. JobOnly
    BY <1>7 DEF Write, WriteWhen
  <2>. HIDE DEF j
  <2>. QED
    BY <1>3, <2>1, <2>3, <2>4, <2>5 DEF j
<1>8. CASE Written(c)
  <2>. DEFINE j == [job[c] EXCEPT !.writer = IF job[c].writer = "header" THEN "rows" ELSE "done"]
  <2>1. Set(c, j) /\ JobOnly
    BY <1>8 DEF Written
  <2>2. /\ j \in Jobs /\ j.stage = job[c].stage /\ j.writer \in {"rows", "done"}
        /\ j.pipe = job[c].pipe
    BY <1>0 DEF Jobs
  <2>. HIDE DEF j
  <2>. QED
    BY <1>0, <1>3, <2>1, <2>2
<1>9. CASE Cut(c)
  <2>. DEFINE j == [job[c] EXCEPT !.writer = "done", !.todo = {}]
  <2>1. Set(c, j) /\ JobOnly
    BY <1>9 DEF Cut
  <2>2. j \in Jobs /\ j.stage = job[c].stage /\ j.writer = "done" /\ j.pipe = job[c].pipe
    BY <1>0 DEF Jobs
  <2>. HIDE DEF j
  <2>. QED
    BY <1>0, <1>3, <2>1, <2>2
<1>10. CASE Copy(c)
  <2>. DEFINE j == [job[c] EXCEPT !.pipe = Tail(job[c].pipe)]
  <2>1. Set(c, j) /\ JobOnly /\ job[c].pipe # <<>> /\ job[c].pipe \in Seq(Chunks)
    BY <1>0, <1>10 DEF Copy, Jobs
  <2>2. Tail(job[c].pipe) \in Seq(Chunks) /\ Len(Tail(job[c].pipe)) <= PipeCap
    <3>1. Tail(job[c].pipe) \in Seq(Chunks) /\ Len(Tail(job[c].pipe)) = Len(job[c].pipe) - 1
      BY <2>1
    <3>. QED
      BY <1>0, <3>1
  <2>3. /\ j \in Jobs /\ j.stage = job[c].stage /\ j.writer = job[c].writer
        /\ j.pipe = Tail(job[c].pipe)
    BY <1>0, <2>2 DEF Jobs
  <2>. HIDE DEF j
  <2>. QED
    BY <1>0, <1>3, <2>1, <2>2, <2>3
<1>11. CASE ZipFails(c)
  <2>. PICK q : q = job[c].pipe
    OBVIOUS
  <2>1. PICK n \in {0, 1} :
           /\ n <= Len(q)
           /\ Set(c, [job[c] EXCEPT !.zip = "failed", !.pipe = SubSeq(q, n + 1, Len(q))])
    BY <1>11 DEF ZipFails
  <2>. DEFINE rest == SubSeq(q, n + 1, Len(q))
              j == [job[c] EXCEPT !.zip = "failed", !.pipe = rest]
  <2>2. q \in Seq(Chunks)
    BY <1>0 DEF Jobs
  <2>3. rest \in Seq(Chunks) /\ Len(rest) = Len(q) - n
    BY <2>1, <2>2
  <2>. HIDE DEF rest
  <2>4. j \in Jobs /\ j.stage = job[c].stage /\ j.writer = job[c].writer /\ j.pipe = rest
    BY <1>0, <2>3 DEF Jobs
  <2>5. Set(c, j) /\ JobOnly
    BY <1>11, <2>1 DEF ZipFails, rest
  <2>. HIDE DEF j
  <2>. QED
    BY <1>0, <1>3, <2>3, <2>4, <2>5
<1>12. CASE ZipEnds(c)
  <2>. DEFINE j == [job[c] EXCEPT !.zip = "ended"]
  <2>1. Set(c, j) /\ JobOnly
    BY <1>12 DEF ZipEnds, ZipEndsWhen
  <2>2. j \in Jobs /\ j.stage = job[c].stage /\ j.writer = job[c].writer /\ j.pipe = job[c].pipe
    BY <1>0 DEF Jobs
  <2>. HIDE DEF j
  <2>. QED
    BY <1>0, <1>3, <2>1, <2>2
<1>13. CASE NextEntry(c)
  <2>1. PICK j \in {Entry("table"), NoJob} : Set(c, j) /\ JobOnly
    BY <1>13 DEF NextEntry
  <2>2. taken(j) = 0 /\ j.pipe = <<>>
    BY DEF Entry, NoJob
  <2>. HIDE DEF taken
  <2>. QED
    BY <1>0, <1>2, <2>1, <2>2 DEF taken
<1>. QED
  BY <1>4, <1>5, <1>6, <1>7, <1>8, <1>9, <1>10, <1>11, <1>12, <1>13 DEF JobStep

LEMMA PoolInvInit == Init => PoolInv
<1>. SUFFICES ASSUME Init PROVE PoolInv
  OBVIOUS
<1>1. \A c \in Clients : Held(c) = 0 /\ job[c].pipe = <<>>
  BY DEF Init, Held, HeldAt, NoJob
<1>2. Out = {}
  BY <1>1 DEF Out
<1>3. Cardinality(Out) = 0
  BY <1>2, FS_EmptySet
<1>. QED
  BY <1>1, <1>3, HandlersAssumption DEF PoolInv

LEMMA PoolInvStep == PoolInv /\ Inv /\ [Next]_vars => PoolInv'
<1>. SUFFICES ASSUME PoolInv, Inv, [Next]_vars PROVE PoolInv'
  OBVIOUS
<1>1. CASE UNCHANGED <<at, job>>
  <2>1. Out' = Out
    BY <1>1 DEF Out, Held
  <2>. QED
    BY <1>1, <2>1 DEF PoolInv
<1>2. Ingest \/ DeleteConfiguration \/ UNCHANGED vars => UNCHANGED <<at, job>>
  BY DEF Ingest, DeleteConfiguration, vars
<1>. QED
  BY <1>1, <1>2, RequestKeepsPool, TaskKeepsPool DEF Next

\* The state has the shape of the code's data, and the pool never hands out
\* more connections than it has: whatever its size, to any number of handlers,
\* of which some ask for a second connection.
THEOREM PoolIsBounded == Spec => []TypeOK
<1>1. ASSUME Inv, ListInv, PoolInv PROVE TypeOK
  <2>1. \A c \in Clients : job[c] \in Jobs /\ file[c] \in Files
    BY <1>1 DEF Inv, Typed
  <2>2. Free >= 0
    <3>1. Cardinality(Out) \in Nat /\ MaxSize \in Nat
      BY CountHeld, HandlersAssumption DEF Out
    <3>. QED
      BY <1>1, <3>1 DEF PoolInv, Free
  <2>3. \A c \in Clients : shown[c] \in Seq(Rows) /\ stayed[c] \subseteq Rows
    BY <1>1 DEF ListInv, ListTyped
  <2>. QED
    BY <1>1, <2>1, <2>2, <2>3 DEF TypeOK, Inv, Typed, ListInv, ListTyped, PoolInv, Jobs, Files
<1>. QED
  BY <1>1, InvInit, InvStep, ListInvInit, ListInvStep, PoolInvInit, PoolInvStep, PTL DEF Spec
=============================================================================
