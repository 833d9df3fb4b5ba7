------------------------- MODULE MembershipsProofs -------------------------
(***************************************************************************)
(* Proofs about Memberships, for any number of users, ids, requests and    *)
(* transactions: what the checks of the handlers read is enough for        *)
(* serializable transactions to keep the members of a kit right.           *)
(***************************************************************************)
EXTENDS Memberships, FiniteSetTheorems, TLAPS

Member == [user : Users, super : BOOLEAN]
Keys == {Row(i) : i \in Ids} \cup {RowsOf(u) : u \in Users} \cup {Supers}
Transaction == [at : {"idle", "add", "write"}, start : Nat, reads : SUBSET Keys,
                id : Ids \cup {None}, value : Member \cup {None}]
Entry == [start : Nat, reads : SUBSET Keys, writes : SUBSET Keys]

Pending(r) == request[r].at = "write"

\* A transaction that did not see t, read what it wrote, and wrote what t reads.
Rival(t, key) ==
    \E j \in DOMAIN log : ~Saw(t, j) /\ key \in log[j].reads /\ key \in log[j].writes

\* The state has the shape of the schema, and of the log.
Shape ==
    /\ kit \in {"none", "live", "deleted"}
    /\ made \subseteq Ids /\ Live \subseteq made
    /\ members \in [Live -> Member]
    /\ request \in [Requests -> Transaction]
    /\ log \in Seq(Entry)
    /\ \A j \in DOMAIN log : log[j].start < j
    /\ kit = "none" => Live = {} /\ \A r \in Requests : request[r].at = "idle"
    /\ \A r \in Requests : request[r].at = "add" => request[r].value \in Member
    /\ \A r \in Requests : Pending(r) => request[r].start <= Len(log) /\ request[r].id \in made

\* A transaction that adds reads the rows of the user and has an id of its own;
\* if the user has become a member meanwhile, the one that did it is a rival.
AddOK(r) ==
    LET t == request[r] IN
    /\ t.value \in Member /\ RowsOf(t.value.user) \in t.reads
    /\ t.id \notin Live
    /\ \A q \in Requests \ {r} : Pending(q) => request[q].id # t.id
    /\ (\E i \in Live : members[i].user = t.value.user) => Rival(t, RowsOf(t.value.user))

\* One that changes a row finds it as it was; if it takes super access away,
\* another member still has it, or the one that took that is a rival.
ChangeOK(r) ==
    LET t == request[r] IN
    kit = "live" /\ ~Overtaken(t) =>
        /\ t.id \in Live
        /\ t.value # None => t.value.user = members[t.id].user
        /\ members[t.id].super /\ (t.value = None \/ ~t.value.super) =>
              /\ Supers \in t.reads
              /\ Rival(t, Supers) \/ \E s \in SuperMembers : s # t.id

Adds(r) == Row(request[r].id) \notin request[r].reads

PendingOK ==
    \A r \in Requests : Pending(r) => IF Adds(r) THEN AddOK(r) ELSE ChangeOK(r)

Inv == Shape /\ PendingOK /\ SuperRemains /\ OneMembership

-----------------------------------------------------------------------------

\* Two transactions that read and write the same and do not see each other
\* have no serial order.
LEMMA Cycle ==
  ASSUME NEW h \in Seq(Entry), NEW i \in DOMAIN h, NEW j \in DOMAIN h, i # j,
         ~Saw(h[i], j), ~Saw(h[j], i),
         NEW key, key \in h[i].reads, key \in h[i].writes,
                  key \in h[j].reads, key \in h[j].writes
  PROVE  ~Serializable(h)
<1>1. Before(h, i, j) /\ Before(h, j, i)
  BY DEF Before, Meet
<1>2. DOMAIN h \subseteq Nat
  OBVIOUS
<1>3. ASSUME NEW order \in [DOMAIN h -> DOMAIN h], order[i] < order[j], order[j] < order[i]
      PROVE  FALSE
  BY <1>2, <1>3
<1>. QED
  BY <1>1, <1>3 DEF Serializable

\* What writing a row touches are keys.
LEMMA TouchesKeys ==
  ASSUME Shape, NEW id \in Ids, NEW value \in Member \cup {None}
  PROVE  Touches(id, value) \in SUBSET Keys
<1>. DEFINE old == IF id \in Live THEN members[id] ELSE None
<1>1. old \in Member \cup {None}
  BY DEF Shape
<1>2. \A v \in {old, value} \ {None} : v.user \in Users
  BY <1>1 DEF Member
<1>. QED
  BY <1>2 DEF Touches, Keys

\* A transaction with a rival does not commit.
LEMMA RivalFails ==
  ASSUME Shape, NEW r \in Requests, Commit(r),
         NEW key, key \in request[r].reads,
         key \in Touches(request[r].id, request[r].value)
  PROVE  ~Rival(request[r], key)
<1>. SUFFICES ASSUME NEW j \in DOMAIN log, ~Saw(request[r], j),
                     key \in log[j].reads, key \in log[j].writes
              PROVE  FALSE
  BY DEF Rival
<1>. DEFINE t == request[r]
            entry == [start |-> t.start, reads |-> t.reads, writes |-> Touches(t.id, t.value)]
            h == Append(log, entry)
            n == Len(log) + 1
<1>1. Serializable(h) /\ t.at = "write"
  BY DEF Commit, CommitIf
<1>2. t \in Transaction /\ t.id \in Ids
  BY <1>1 DEF Shape, Pending
<1>3. entry \in Entry
  BY <1>2, TouchesKeys DEF Shape, Transaction, Entry
<1>4. /\ h \in Seq(Entry) /\ log \in Seq(Entry) /\ DOMAIN h = 1..n /\ j \in 1..Len(log)
      /\ h[n] = entry /\ h[j] = log[j]
  BY <1>3 DEF Shape
<1>5. ~Saw(h[n], j) /\ ~Saw(h[j], n) /\ n # j
  <2>1. log[j].start < j /\ log[j] \in Entry
    BY <1>4 DEF Shape
  <2>. QED
    BY <1>4, <2>1 DEF Saw, Entry
<1>6. key \in h[n].reads /\ key \in h[n].writes /\ key \in h[j].reads /\ key \in h[j].writes
  BY <1>4
<1>7. n \in DOMAIN h /\ j \in DOMAIN h
  BY <1>4
<1>. HIDE DEF h, n
<1>8. h \in Seq(Entry)
  BY <1>4
<1>. QED
  BY <1>1, <1>8, <1>5, <1>6, <1>7, Cycle DEF h

\* What a request may do to the log when it ends.
LEMMA EndLog ==
  ASSUME Shape, NEW r \in Requests, NEW committed \in Seq(Entry), End(r, committed),
         \A j \in DOMAIN committed : committed[j].start < j,
         Len(log) <= Len(committed)
  PROVE  /\ request' \in [Requests -> Transaction]
         /\ request'[r] = Idle /\ \A q \in Requests \ {r} : request'[q] = request[q]
         /\ log' = committed \/ (log' = <<>> /\ \A q \in Requests : request'[q].at # "write")
         /\ log' \in Seq(Entry) /\ \A j \in DOMAIN log' : log'[j].start < j
         /\ \A q \in Requests : request'[q].at = "write" => request'[q].start <= Len(log')
<1>1. Idle \in Transaction /\ Idle.at = "idle"
  BY DEF Idle, Transaction
<1>. HIDE DEF Idle
<1>2. /\ request' \in [Requests -> Transaction]
      /\ request'[r] = Idle /\ \A q \in Requests \ {r} : request'[q] = request[q]
  <2>1. request' = [request EXCEPT ![r] = Idle] /\ request \in [Requests -> Transaction]
    BY DEF End, Shape
  <2>. QED
    BY <1>1, <2>1
<1>3. log' = committed \/ (log' = <<>> /\ \A q \in Requests : request'[q].at # "write")
  BY <1>1, <1>2 DEF End
<1>4. log' \in Seq(Entry) /\ \A j \in DOMAIN log' : log'[j].start < j
  <2>1. CASE log' = committed
    BY <2>1
  <2>2. CASE log' = <<>>
    BY <2>2
  <2>. QED
    BY <1>3, <2>1, <2>2
<1>5. ASSUME NEW q \in Requests, request'[q].at = "write"
      PROVE  request'[q].start <= Len(log')
  <2>1. q # r /\ request'[q] = request[q]
    BY <1>1, <1>2, <1>5
  <2>2. request[q].start <= Len(log) /\ request[q].start \in Nat
    BY <1>5, <2>1 DEF Shape, Pending, Transaction
  <2>3. Len(log') = Len(committed) /\ Len(committed) \in Nat /\ Len(log) \in Nat
    BY <1>3, <1>5 DEF Shape
  <2>. QED
    BY <2>1, <2>2, <2>3
<1>. QED
  BY <1>2, <1>3, <1>4, <1>5

\* What a commit writes, and to the log.
LEMMA CommitEffect ==
  ASSUME Shape, NEW r \in Requests, Commit(r)
  PROVE  LET t == request[r]
             entry == [start |-> t.start, reads |-> t.reads, writes |-> Touches(t.id, t.value)]
             h == Append(log, entry)
         IN
         /\ kit = "live" /\ kit' = kit /\ made' = made
         /\ t.at = "write" /\ t \in Transaction /\ t.id \in Ids /\ t.id \in made
         /\ entry \in Entry /\ h \in Seq(Entry) /\ Len(h) = Len(log) + 1
         /\ \A j \in DOMAIN log : j \in DOMAIN h /\ h[j] = log[j] /\ j \in 1..Len(log)
         /\ Len(h) \in DOMAIN h /\ h[Len(h)] = entry
         /\ \A j \in DOMAIN h : h[j].start < j
         /\ End(r, h)
<1>. DEFINE t == request[r]
            entry == [start |-> t.start, reads |-> t.reads, writes |-> Touches(t.id, t.value)]
            h == Append(log, entry)
<1>1. /\ kit = "live" /\ kit' = kit /\ made' = made /\ t.at = "write" /\ End(r, h)
  BY DEF Commit, CommitIf
<1>2. t \in Transaction /\ t.id \in made /\ t.id \in Ids /\ t.start <= Len(log)
  BY <1>1 DEF Shape, Pending
<1>3. entry \in Entry /\ entry.start <= Len(log)
  BY <1>2, TouchesKeys DEF Transaction, Entry
<1>. HIDE DEF entry
<1>4. /\ h \in Seq(Entry) /\ Len(h) = Len(log) + 1
      /\ \A j \in DOMAIN log : j \in DOMAIN h /\ h[j] = log[j] /\ j \in 1..Len(log)
      /\ Len(h) \in DOMAIN h /\ h[Len(h)] = entry
      /\ DOMAIN h = 1..(Len(log) + 1) /\ Len(log) \in Nat
  BY <1>3 DEF Shape
<1>5. \A j \in DOMAIN h : h[j].start < j
  <2>1. entry.start \in Nat /\ entry.start < Len(log) + 1
    BY <1>3, <1>4 DEF Entry
  <2>2. ASSUME NEW j \in DOMAIN h, j # Len(log) + 1 PROVE h[j].start < j
    BY <1>4, <2>2 DEF Shape
  <2>. QED
    BY <1>4, <2>1, <2>2
<1>. QED
  BY <1>1, <1>2, <1>3, <1>4, <1>5 DEF entry

\* A transaction that opens is of the form of the others.
LEMMA OpenShape ==
  ASSUME Shape, kit = "live", NEW r \in Requests, NEW t \in Transaction,
         request' = [request EXCEPT ![r] = t],
         t.at = "add" => t.value \in Member,
         t.at = "write" => t.start <= Len(log) /\ t.id \in made',
         made \subseteq made', made' \subseteq Ids, UNCHANGED <<kit, members, log>>
  PROVE  Shape'
<1>1. /\ request' \in [Requests -> Transaction] /\ request'[r] = t
      /\ \A q \in Requests \ {r} : request'[q] = request[q]
  BY DEF Shape
<1>2. \A q \in Requests : request'[q].at = "add" => request'[q].value \in Member
  BY <1>1 DEF Shape
<1>3. \A q \in Requests : request'[q].at = "write" =>
         request'[q].start <= Len(log) /\ request'[q].id \in made'
  BY <1>1 DEF Shape, Pending
<1>. QED
  BY <1>1, <1>2, <1>3 DEF Shape, Pending, Live

\* The shape is kept when a request ends that changes no member.
LEMMA EndShape ==
  ASSUME Shape, NEW r \in Requests, request[r].at # "idle", End(r, log),
         UNCHANGED <<kit, members, made>>
  PROVE  Shape'
<1>1. log \in Seq(Entry) /\ (\A j \in DOMAIN log : log[j].start < j) /\ Len(log) <= Len(log)
  BY DEF Shape
<1>2. /\ request' \in [Requests -> Transaction]
      /\ request'[r] = Idle /\ \A q \in Requests \ {r} : request'[q] = request[q]
      /\ log' \in Seq(Entry) /\ \A j \in DOMAIN log' : log'[j].start < j
      /\ \A q \in Requests : request'[q].at = "write" => request'[q].start <= Len(log')
  BY <1>1, EndLog
<1>3. \A q \in Requests : request'[q].at # "idle" => request'[q] = request[q]
  BY <1>2 DEF Idle
<1>. QED
  BY <1>2, <1>3 DEF Shape, Pending, Live

\* Every step keeps the shape.
LEMMA ShapeStep == Shape /\ [Next]_vars => Shape'
<1>. SUFFICES ASSUME Shape, [Next]_vars PROVE Shape'
  OBVIOUS
<1>1. CASE UNCHANGED vars
  BY <1>1 DEF vars, Shape, Pending, Live
<1>2. ASSUME NEW u \in Users, NEW i \in Ids, CreateKit(u, i) PROVE Shape'
  <2>1. members' = [id \in {i} |-> [user |-> u, super |-> TRUE]] /\ made' = {i}
        /\ kit' = "live" /\ UNCHANGED <<request, log>>
    BY <1>2 DEF CreateKit
  <2>2. \A r \in Requests : request[r].at = "idle"
    BY <1>2 DEF CreateKit, Shape
  <2>. QED
    BY <2>1, <2>2 DEF Shape, Live, Member, Pending
<1>3. CASE DeleteKit
  BY <1>3 DEF DeleteKit, Shape, Live, Pending
<1>4. ASSUME NEW r \in Requests, NEW actor \in Users, NEW u \in Users, NEW super \in BOOLEAN,
             AuthorizeAdd(r, actor, u, super)
      PROVE  Shape'
  <2>. DEFINE t == [Idle EXCEPT !.at = "add", !.value = [user |-> u, super |-> super]]
  <2>1. t \in Transaction /\ t.at = "add" /\ t.value \in Member
    BY DEF Idle, Transaction, Member
  <2>2. request' = [request EXCEPT ![r] = t] /\ UNCHANGED <<kit, members, made, log>>
        /\ kit = "live"
    BY <1>4 DEF AuthorizeAdd, Permitted
  <2>. QED
    BY <2>1, <2>2, OpenShape DEF Shape
<1>5. ASSUME NEW r \in Requests, NEW i \in Ids \cup {None}, BeginAdd(r, i) PROVE Shape'
  <2>. DEFINE t == [at |-> "write", start |-> Len(log), reads |-> AddReads(request[r].value.user),
                     id |-> i, value |-> request[r].value]
  <2>1. request[r].at = "add" /\ request[r].value \in Member
    BY <1>5 DEF BeginAdd, Shape
  <2>2. CASE End(r, log) /\ UNCHANGED <<kit, members, made>>
    BY <2>1, <2>2, EndShape
  <2>3. CASE kit = "live" /\ i \in Ids \ made /\ made' = made \cup {i}
             /\ request' = [request EXCEPT ![r] = t] /\ UNCHANGED <<kit, members, log>>
    <3>1. request[r].value.user \in Users
      BY <2>1 DEF Member
    <3>2. t.reads \in SUBSET Keys
      BY <3>1 DEF AddReads, Keys
    <3>3. t \in Transaction /\ t.at = "write" /\ t.id = i /\ t.start <= Len(log)
      BY <2>1, <2>3, <3>2 DEF Transaction, Shape
    <3>. QED
      BY <2>3, <3>3, OpenShape DEF Shape
  <2>. QED
    BY <1>5, <2>2, <2>3 DEF BeginAdd
<1>6. ASSUME NEW r \in Requests, NEW actor \in Users, NEW i \in Ids, NEW value \in Member \cup {None},
             BeginChange(r, actor, i, value)
      PROVE  Shape'
  <2>1. PICK loses \in BOOLEAN : Open(r, "write", ChangeReads(actor, i, loses), i, value)
    BY <1>6 DEF BeginChange, Shape, Member
  <2>. DEFINE t == [at |-> "write", start |-> Len(log), reads |-> ChangeReads(actor, i, loses),
                     id |-> i, value |-> value]
  <2>2. t.reads \in SUBSET Keys
    BY DEF ChangeReads, Keys
  <2>3. t \in Transaction /\ t.id = i /\ t.start <= Len(log) /\ t.at = "write"
    BY <2>2 DEF Transaction, Shape
  <2>4. request' = [request EXCEPT ![r] = t] /\ UNCHANGED <<kit, members, made, log>>
        /\ kit = "live" /\ i \in made
    BY <1>6, <2>1 DEF Open, BeginChange, Permitted, Shape
  <2>. QED
    BY <2>3, <2>4, OpenShape DEF Shape
<1>7. ASSUME NEW r \in Requests, Commit(r) PROVE Shape'
  <2>. DEFINE t == request[r]
              entry == [start |-> t.start, reads |-> t.reads, writes |-> Touches(t.id, t.value)]
              h == Append(log, entry)
  <2>1. /\ kit = "live" /\ kit' = kit /\ made' = made
        /\ t.at = "write" /\ t \in Transaction /\ t.id \in made
        /\ h \in Seq(Entry) /\ Len(h) = Len(log) + 1 /\ Len(log) \in Nat
        /\ \A j \in DOMAIN h : h[j].start < j
        /\ End(r, h)
    BY <1>7, CommitEffect DEF Shape
  <2>2. Len(log) <= Len(h)
    BY <2>1
  <2>. HIDE DEF h
  <2>3. /\ request' \in [Requests -> Transaction]
        /\ request'[r] = Idle /\ \A q \in Requests \ {r} : request'[q] = request[q]
        /\ log' \in Seq(Entry) /\ \A j \in DOMAIN log' : log'[j].start < j
        /\ \A q \in Requests : request'[q].at = "write" => request'[q].start <= Len(log')
    BY <2>1, <2>2, EndLog
  <2>4. \A q \in Requests : request'[q].at # "idle" => request'[q] = request[q]
    BY <2>3 DEF Idle
  <2>5. members' = [i \in (Live \cup {t.id}) \ (IF t.value = None THEN {t.id} ELSE {}) |->
                      IF i = t.id THEN t.value ELSE members[i]]
    BY <1>7 DEF Commit, CommitIf
  <2>6. t.value \in Member \cup {None}
    BY <2>1 DEF Transaction
  <2>7. Live' \subseteq made /\ members' \in [Live' -> Member]
    BY <2>1, <2>5, <2>6 DEF Shape, Live
  <2>. QED
    BY <2>1, <2>3, <2>4, <2>7 DEF Shape, Pending
<1>8. ASSUME NEW r \in Requests, Abort(r) PROVE Shape'
  BY <1>8, EndShape DEF Abort
<1>9. ASSUME NEW r \in Requests, NEW actor \in Users, NEW i \in Ids, NEW super \in BOOLEAN,
             PatchMembership(r, actor, i, super) \/ DeleteMembership(r, actor, i)
      PROVE  Shape'
  <2>1. i \in Live /\ members[i].user \in Users
    BY <1>9 DEF PatchMembership, DeleteMembership, Shape, Member
  <2>2. [user |-> members[i].user, super |-> super] \in Member
    BY <2>1 DEF Member
  <2>. QED
    BY <1>6, <1>9, <2>2 DEF PatchMembership, DeleteMembership
<1>. QED
  BY <1>1, <1>2, <1>3, <1>4, <1>5, <1>7, <1>8, <1>9 DEF Next

\* The others' transactions are untouched by a step of a request that changes
\* no member and takes an id of its own.
LEMMA OthersKept ==
  ASSUME Inv, NEW r \in Requests, UNCHANGED <<kit, members>>,
         \A q \in Requests \ {r} : request'[q] = request[q],
         log' = log \/ \A q \in Requests : request'[q].at # "write",
         Pending(r)' => \A q \in Requests \ {r} :
             Pending(q) /\ Adds(q) => request[q].id # request'[r].id,
         NEW q \in Requests \ {r}, Pending(q)'
  PROVE  IF Adds(q)' THEN AddOK(q)' ELSE ChangeOK(q)'
<1>1. request'[q] = request[q] /\ Pending(q) /\ log' = log /\ Live' = Live /\ SuperMembers' = SuperMembers
  BY DEF Pending, Live, SuperMembers
<1>2. IF Adds(q) THEN AddOK(q) ELSE ChangeOK(q)
  BY <1>1 DEF Inv, PendingOK
<1>3. CASE Adds(q)
  <2>1. Adds(q)'
    BY <1>1, <1>3 DEF Adds
  <2>2. \A p \in Requests \ {q} : Pending(p)' => request'[p].id # request[q].id
    BY <1>1, <1>2, <1>3 DEF AddOK, Pending
  <2>3. AddOK(q)'
    BY <1>1, <1>2, <1>3, <2>2 DEF AddOK, Rival, Pending
  <2>. QED
    BY <2>1, <2>3
<1>4. CASE ~Adds(q)
  <2>1. ~Adds(q)'
    BY <1>1, <1>4 DEF Adds
  <2>2. ChangeOK(q)'
    BY <1>1, <1>2, <1>4 DEF ChangeOK, Rival, Overtaken
  <2>. QED
    BY <2>1, <2>2
<1>. QED
  BY <1>3, <1>4

\* A commit leaves the others' rivals where they are, and overtakes no less.
LEMMA CommitOthers ==
  ASSUME Inv, NEW r \in Requests, Commit(r), NEW q \in Requests \ {r}, Pending(q)'
  PROVE  LET t == request[r]
             n == Len(log) + 1
         IN
         /\ request'[q] = request[q] /\ Pending(q)
         /\ n \in DOMAIN log' /\ ~Saw(request[q], n)
         /\ log'[n].reads = t.reads /\ log'[n].writes = Touches(t.id, t.value)
         /\ \A key : Rival(request[q], key) => Rival(request[q], key)'
         /\ Overtaken(request[q]) => Overtaken(request[q])'
<1>. DEFINE t == request[r]
            entry == [start |-> t.start, reads |-> t.reads, writes |-> Touches(t.id, t.value)]
            h == Append(log, entry)
            n == Len(log) + 1
<1>1. /\ h \in Seq(Entry) /\ Len(h) = n /\ Len(log) \in Nat
      /\ \A j \in DOMAIN log : j \in DOMAIN h /\ h[j] = log[j]
      /\ Len(h) \in DOMAIN h /\ h[Len(h)] = entry
      /\ \A j \in DOMAIN h : h[j].start < j
      /\ End(r, h)
  BY CommitEffect DEF Inv, Shape
<1>2. Len(log) <= Len(h)
  BY <1>1
<1>3. /\ request'[r] = Idle /\ request'[q] = request[q]
      /\ log' = h \/ (log' = <<>> /\ \A p \in Requests : request'[p].at # "write")
  <2>. HIDE DEF h
  <2>. QED
    BY <1>1, <1>2, EndLog DEF Inv
<1>4. log' = h /\ Pending(q)
  BY <1>3 DEF Pending
<1>5. request[q].start <= Len(log) /\ request[q].start \in Nat
  BY <1>4 DEF Inv, Shape, Pending, Transaction
<1>6. ~Saw(request[q], n)
  BY <1>1, <1>5 DEF Saw
<1>. HIDE DEF h
<1>7. \A key : Rival(request[q], key) => Rival(request[q], key)'
  BY <1>1, <1>3, <1>4 DEF Rival, Saw
<1>8. Overtaken(request[q]) => Overtaken(request[q])'
  BY <1>1, <1>3, <1>4 DEF Overtaken, Saw
<1>. QED
  BY <1>1, <1>3, <1>4, <1>6, <1>7, <1>8

\* The row has super access and is to lose it.
Loses(r) ==
    LET t == request[r] IN
    t.id \in Live /\ members[t.id].super /\ (t.value = None \/ ~t.value.super)

\* What a transaction that commits touches.
LEMMA Touched ==
  ASSUME Inv, NEW r \in Requests, Commit(r)
  PROVE  LET t == request[r]
             W == Touches(t.id, t.value)
         IN
         /\ Row(t.id) \in W
         /\ t.value \in Member => RowsOf(t.value.user) \in W
         /\ Loses(r) => Supers \in W
<1>. DEFINE t == request[r]
            old == IF t.id \in Live THEN members[t.id] ELSE None
<1>1. t.value \in Member => t.value # None
  BY BoundAssumption DEF Member
<1>2. t.id \in Live => members[t.id] # None
  BY BoundAssumption DEF Inv, Shape, Member
<1>. QED
  BY <1>1, <1>2 DEF Touches, Loses

\* A transaction that commits finds what it read still true.
LEMMA CommitFinds ==
  ASSUME Inv, NEW r \in Requests, Commit(r)
  PROVE  LET t == request[r] IN
         /\ Adds(r) => /\ t.value \in Member /\ t.id \notin Live
                       /\ RowsOf(t.value.user) \in t.reads
                       /\ \A i \in Live : members[i].user # t.value.user
         /\ ~Adds(r) => /\ t.id \in Live
                        /\ t.value # None => t.value.user = members[t.id].user
         /\ Loses(r) => Supers \in t.reads /\ \E s \in SuperMembers : s # t.id
<1>. DEFINE t == request[r]
<1>1. kit = "live" /\ ~Overtaken(t) /\ Pending(r)
  BY DEF Commit, CommitIf, Pending
<1>2. CASE Adds(r)
  <2>1. AddOK(r)
    BY <1>1, <1>2 DEF Inv, PendingOK
  <2>2. ~Rival(t, RowsOf(t.value.user))
    BY <2>1, Touched, RivalFails DEF AddOK, Inv
  <2>. QED
    BY <1>2, <2>1, <2>2 DEF AddOK, Loses
<1>3. CASE ~Adds(r)
  <2>1. ChangeOK(r)
    BY <1>1, <1>3 DEF Inv, PendingOK
  <2>2. t.id \in Live /\ (t.value # None => t.value.user = members[t.id].user)
    BY <1>1, <2>1 DEF ChangeOK
  <2>3. ASSUME Loses(r) PROVE Supers \in t.reads /\ \E s \in SuperMembers : s # t.id
    <3>1. Supers \in t.reads /\ (Rival(t, Supers) \/ \E s \in SuperMembers : s # t.id)
      BY <1>1, <2>1, <2>3 DEF ChangeOK, Loses
    <3>2. ~Rival(t, Supers)
      BY <2>3, <3>1, Touched, RivalFails DEF Inv
    <3>. QED
      BY <3>1, <3>2
  <2>. QED
    BY <1>3, <2>2, <2>3
<1>. QED
  BY <1>2, <1>3

\* The members after a commit.
LEMMA CommitMembers ==
  ASSUME Inv, NEW r \in Requests, Commit(r)
  PROVE  LET t == request[r] IN
         /\ Live' = (Live \cup {t.id}) \ (IF t.value = None THEN {t.id} ELSE {})
         /\ \A i \in Live' : members'[i] = IF i = t.id THEN t.value ELSE members[i]
         /\ \A s \in SuperMembers : s \in SuperMembers' \/ (s = t.id /\ Loses(r))
<1>. DEFINE t == request[r]
            left == (Live \cup {t.id}) \ (IF t.value = None THEN {t.id} ELSE {})
<1>1. members' = [i \in left |-> IF i = t.id THEN t.value ELSE members[i]]
  BY DEF Commit, CommitIf
<1>. HIDE DEF left
<1>2. Live' = left /\ \A i \in Live' : members'[i] = IF i = t.id THEN t.value ELSE members[i]
  BY <1>1 DEF Live
<1>. USE DEF left
<1>3. ASSUME NEW s \in SuperMembers, s # t.id PROVE s \in SuperMembers'
  BY <1>2, <1>3 DEF SuperMembers
<1>4. ASSUME t.id \in SuperMembers, ~Loses(r) PROVE t.id \in SuperMembers'
  BY <1>2, <1>4 DEF SuperMembers, Loses
<1>. QED
  BY <1>2, <1>3, <1>4

\* A commit leaves the other transactions right.
LEMMA CommitPending ==
  ASSUME Inv, NEW r \in Requests, Commit(r), NEW q \in Requests \ {r}, Pending(q)'
  PROVE  IF Adds(q)' THEN AddOK(q)' ELSE ChangeOK(q)'
<1>. DEFINE t == request[r]
            o == request[q]
            n == Len(log) + 1
<1>1. /\ request'[q] = o /\ Pending(q) /\ n \in DOMAIN log' /\ ~Saw(o, n)
      /\ log'[n].reads = t.reads /\ log'[n].writes = Touches(t.id, t.value)
      /\ \A key : Rival(o, key) => Rival(o, key)'
      /\ Overtaken(o) => Overtaken(o)'
  BY CommitOthers
<1>2. IF Adds(q) THEN AddOK(q) ELSE ChangeOK(q)
  BY <1>1 DEF Inv, PendingOK
<1>3. \A key : key \in t.reads /\ key \in Touches(t.id, t.value) => Rival(o, key)'
  BY <1>1 DEF Rival, Saw
<1>4. kit = "live" /\ kit' = kit /\ Pending(r)
  BY DEF Commit, CommitIf, Pending
<1>5. /\ Live' = (Live \cup {t.id}) \ (IF t.value = None THEN {t.id} ELSE {})
      /\ \A i \in Live' : members'[i] = IF i = t.id THEN t.value ELSE members[i]
      /\ \A s \in SuperMembers : s \in SuperMembers' \/ (s = t.id /\ Loses(r))
  BY CommitMembers
<1>6. t.value \in Member \cup {None} /\ request'[r] = Idle /\ o.id \in Ids
      /\ \A p \in Requests \ {r} : request'[p] = request[p]
  BY <1>1, <1>4 DEF Inv, Shape, Pending, Transaction, Commit, CommitIf, End
<1>7. CASE Adds(q)
  <2>1. AddOK(q) /\ Adds(q)'
    BY <1>1, <1>2, <1>7 DEF Adds
  <2>2. o.id \notin Live'
    BY <1>4, <1>5, <2>1 DEF AddOK
  <2>3. \A p \in Requests \ {q} : Pending(p)' => request'[p].id # o.id
    BY <1>6, <2>1 DEF AddOK, Pending, Idle
  <2>4. ASSUME NEW i \in Live', members'[i].user = o.value.user
        PROVE  Rival(o, RowsOf(o.value.user))'
    <3>1. CASE i \in Live /\ members[i].user = o.value.user
      BY <1>1, <2>1, <3>1 DEF AddOK
    <3>2. CASE i = t.id /\ Adds(r)
      <4>1. t.value \in Member /\ members'[i] = t.value /\ RowsOf(t.value.user) \in t.reads
        BY <1>5, <3>2, CommitFinds
      <4>2. RowsOf(o.value.user) \in t.reads /\ RowsOf(o.value.user) \in Touches(t.id, t.value)
        BY <2>4, <4>1, Touched
      <4>3. (RowsOf(o.value.user))' = RowsOf(o.value.user)
        BY <1>1 DEF RowsOf
      <4>. QED
        BY <1>3, <4>2, <4>3
    <3>3. CASE i = t.id /\ ~Adds(r)
      <4>1. t.value # None /\ members'[t.id] = t.value
        BY <1>5, <2>4, <3>3
      <4>2. t.id \in Live /\ t.value.user = members[t.id].user
        BY <3>3, <4>1, CommitFinds
      <4>. QED
        BY <2>4, <3>1, <3>3, <4>1, <4>2
    <3>4. CASE i # t.id
      BY <1>5, <2>4, <3>1, <3>4
    <3>. QED
      BY <3>2, <3>3, <3>4
  <2>5. AddOK(q)'
    BY <1>1, <2>1, <2>2, <2>3, <2>4 DEF AddOK
  <2>. QED
    BY <2>1, <2>5
<1>8. CASE ~Adds(q)
  <2>. SUFFICES ASSUME ~Overtaken(o)' PROVE ChangeOK(q)'
    BY <1>1, <1>8 DEF Adds, ChangeOK
  <2>1. /\ o.id \in Live
        /\ o.value # None => o.value.user = members[o.id].user
        /\ members[o.id].super /\ (o.value = None \/ ~o.value.super) =>
              /\ Supers \in o.reads
              /\ Rival(o, Supers) \/ \E s \in SuperMembers : s # o.id
    BY <1>1, <1>2, <1>4, <1>8 DEF ChangeOK
  <2>2. o.id # t.id
    BY <1>1, Touched DEF Overtaken, Saw
  <2>3. o.id \in Live' /\ members'[o.id] = members[o.id]
    BY <1>5, <2>1, <2>2
  <2>4. ASSUME members[o.id].super, o.value = None \/ ~o.value.super
        PROVE  Rival(o, Supers)' \/ \E s \in SuperMembers' : s # o.id
    <3>1. CASE Rival(o, Supers)
      BY <1>1, <3>1
    <3>2. ASSUME NEW s \in SuperMembers, s # o.id
          PROVE  Rival(o, Supers)' \/ s \in SuperMembers'
      <4>1. CASE Loses(r)
        BY <1>3, <4>1, CommitFinds, Touched
      <4>. QED
        BY <1>5, <4>1
    <3>. QED
      BY <2>1, <2>4, <3>1, <3>2
  <2>. QED
    BY <1>1, <2>1, <2>3, <2>4 DEF ChangeOK
<1>. QED
  BY <1>7, <1>8

\* A commit leaves a member with super access, and no user with two
\* memberships.
LEMMA CommitSafe ==
  ASSUME Inv, NEW r \in Requests, Commit(r)
  PROVE  SuperRemains' /\ OneMembership'
<1>. DEFINE t == request[r]
<1>1. /\ Live' = (Live \cup {t.id}) \ (IF t.value = None THEN {t.id} ELSE {})
      /\ \A i \in Live' : members'[i] = IF i = t.id THEN t.value ELSE members[i]
      /\ \A s \in SuperMembers : s \in SuperMembers' \/ (s = t.id /\ Loses(r))
  BY CommitMembers
<1>2. SuperRemains'
  <2>1. SuperMembers # {}
    BY DEF Inv, SuperRemains, Commit, CommitIf
  <2>2. Loses(r) => \E s \in SuperMembers : s # t.id
    BY CommitFinds
  <2>. QED
    BY <1>1, <2>1, <2>2 DEF SuperRemains
<1>3. OneMembership'
  <2>1. ASSUME NEW i \in Live', i # t.id, t.id \in Live' PROVE members'[i].user # t.value.user
    <3>1. CASE Adds(r)
      BY <1>1, <2>1, <3>1, CommitFinds
    <3>2. CASE ~Adds(r)
      BY <1>1, <2>1, <3>2, CommitFinds DEF Inv, OneMembership
    <3>. QED
      BY <3>1, <3>2
  <2>2. ASSUME NEW i \in Live', NEW j \in Live', members'[i].user = members'[j].user
        PROVE  i = j
    <3>1. CASE i # t.id /\ j # t.id
      BY <1>1, <2>2, <3>1 DEF Inv, OneMembership
    <3>2. CASE i = t.id
      <4>1. members'[i] = t.value
        BY <1>1, <3>2
      <4>. QED
        BY <2>1, <2>2, <3>2, <4>1
    <3>3. CASE j = t.id
      <4>1. members'[j] = t.value
        BY <1>1, <3>3
      <4>. QED
        BY <2>1, <2>2, <3>3, <4>1
    <3>. QED
      BY <3>1, <3>2, <3>3
  <2>. QED
    BY <2>2 DEF OneMembership
<1>. QED
  BY <1>2, <1>3

-----------------------------------------------------------------------------

\* A transaction that begins is right: nothing has committed since.
LEMMA OpenRight ==
  ASSUME Inv, Shape', NEW r \in Requests, UNCHANGED <<kit, members, log>>,
         \A q \in Requests \ {r} : request'[q] = request[q],
         Pending(r)' => /\ IF Adds(r)' THEN AddOK(r)' ELSE ChangeOK(r)'
                       /\ \A q \in Requests \ {r} :
                             Pending(q) /\ Adds(q) => request[q].id # request'[r].id
  PROVE  Inv'
<1>1. \A q \in Requests \ {r} : Pending(q)' => IF Adds(q)' THEN AddOK(q)' ELSE ChangeOK(q)'
  BY OthersKept
<1>2. PendingOK'
  BY <1>1 DEF PendingOK
<1>3. SuperRemains' /\ OneMembership'
  BY DEF Inv, SuperRemains, OneMembership, SuperMembers, Live
<1>. QED
  BY <1>2, <1>3 DEF Inv

\* So is what remains when a request ends without a change.
LEMMA EndRight ==
  ASSUME Inv, Shape', NEW r \in Requests, End(r, log), UNCHANGED <<kit, members>>
  PROVE  Inv'
<1>1. log \in Seq(Entry) /\ (\A j \in DOMAIN log : log[j].start < j) /\ Len(log) <= Len(log)
  BY DEF Inv, Shape
<1>2. /\ request'[r] = Idle /\ \A q \in Requests \ {r} : request'[q] = request[q]
      /\ log' = log \/ \A q \in Requests : request'[q].at # "write"
  BY <1>1, EndLog DEF Inv
<1>3. ~Pending(r)'
  BY <1>2 DEF Pending, Idle
<1>4. \A q \in Requests \ {r} : Pending(q)' => IF Adds(q)' THEN AddOK(q)' ELSE ChangeOK(q)'
  BY <1>2, <1>3, OthersKept
<1>5. PendingOK'
  BY <1>3, <1>4 DEF PendingOK
<1>6. SuperRemains' /\ OneMembership'
  BY DEF Inv, SuperRemains, OneMembership, SuperMembers, Live
<1>. QED
  BY <1>5, <1>6 DEF Inv

\* A transaction that begins to change a row has found the row, and another
\* member with super access if it takes that away.
LEMMA ChangeRight ==
  ASSUME Inv, Shape', NEW r \in Requests, NEW actor \in Users, NEW i \in Ids,
         NEW value \in Member \cup {None}, BeginChange(r, actor, i, value)
  PROVE  Inv'
<1>. DEFINE loses == members[i].super /\ (value = None \/ ~value.super)
            t == [at |-> "write", start |-> Len(log), reads |-> ChangeReads(actor, i, loses),
                  id |-> i, value |-> value]
<1>1. /\ i \in Live /\ (value # None => value.user = members[i].user)
      /\ Spared(loses) /\ request' = [request EXCEPT ![r] = t]
      /\ UNCHANGED <<kit, members, made, log>>
  BY DEF BeginChange, Open
<1>2. Row(i) \in t.reads /\ (loses => Supers \in t.reads) /\ t.id = i /\ t.value = value
  BY DEF ChangeReads
<1>3. request'[r] = t /\ \A q \in Requests \ {r} : request'[q] = request[q]
  <2>. HIDE DEF t
  <2>. QED
    BY <1>1 DEF Inv, Shape
<1>4. loses => \E s \in SuperMembers : s # i
  <2>. SUFFICES ASSUME loses, SuperMembers \subseteq {i} PROVE FALSE
    OBVIOUS
  <2>1. SuperMembers = {i}
    BY <1>1 DEF SuperMembers
  <2>2. Cardinality(SuperMembers) = 1
    BY <2>1, FS_Singleton
  <2>. QED
    BY <1>1, <2>2 DEF Spared
<1>. HIDE DEF t
<1>5. ~Adds(r)' /\ ChangeOK(r)'
  BY <1>1, <1>2, <1>3, <1>4 DEF Adds, ChangeOK, Live, SuperMembers
<1>6. \A q \in Requests \ {r} : Pending(q) /\ Adds(q) => request[q].id # request'[r].id
  BY <1>1, <1>2, <1>3 DEF Inv, PendingOK, AddOK
<1>. QED
  BY <1>1, <1>3, <1>5, <1>6, OpenRight

\* A transaction that begins to add has found the user without a membership,
\* and takes an id that nobody has.
LEMMA AddRight ==
  ASSUME Inv, Shape', NEW r \in Requests, NEW i \in Ids \cup {None}, BeginAdd(r, i)
  PROVE  Inv'
<1>. DEFINE u == request[r].value.user
            t == [at |-> "write", start |-> Len(log), reads |-> AddReads(u),
                  id |-> i, value |-> request[r].value]
<1>1. request[r].at = "add" /\ request[r].value \in Member
  BY DEF BeginAdd, Inv, Shape
<1>2. CASE End(r, log) /\ UNCHANGED <<kit, members>>
  BY <1>2, EndRight
<1>3. CASE /\ \A j \in Live : members[j].user # u
           /\ i \in Ids \ made /\ request' = [request EXCEPT ![r] = t]
           /\ UNCHANGED <<kit, members, log>>
  <2>1. /\ t.value = request[r].value /\ t.id = i /\ Row(i) \notin t.reads
        /\ RowsOf(u) \in t.reads
    BY DEF AddReads, Row, RowsOf
  <2>2. request'[r] = t /\ \A q \in Requests \ {r} : request'[q] = request[q]
    <3>. HIDE DEF t
    <3>. QED
      BY <1>3 DEF Inv, Shape
  <2>3. \A q \in Requests \ {r} : Pending(q) => request[q].id # i
    BY <1>3 DEF Inv, Shape
  <2>4. i \notin Live
    BY <1>3 DEF Inv, Shape
  <2>. HIDE DEF t
  <2>5. Adds(r)' /\ AddOK(r)'
    BY <1>1, <1>3, <2>1, <2>2, <2>3, <2>4 DEF Adds, AddOK, Live, Pending
  <2>. QED
    BY <1>3, <2>1, <2>2, <2>3, <2>5, OpenRight
<1>. QED
  BY <1>2, <1>3 DEF BeginAdd

\* The invariant is inductive.
LEMMA InvStep == Inv /\ [Next]_vars => Inv'
<1>. SUFFICES ASSUME Inv, [Next]_vars PROVE Inv'
  OBVIOUS
<1>s. Shape'
  BY ShapeStep DEF Inv
<1>1. CASE UNCHANGED vars
  <2>1. \A r \in Requests : UNCHANGED <<Pending(r), Adds(r), AddOK(r), ChangeOK(r)>>
    BY <1>1 DEF vars, Pending, Adds, AddOK, ChangeOK, Rival, Overtaken, Live, SuperMembers
  <2>. QED
    BY <1>1, <1>s, <2>1 DEF vars, Inv, PendingOK, SuperRemains, OneMembership, SuperMembers, Live
<1>2. ASSUME NEW u \in Users, NEW i \in Ids, CreateKit(u, i) PROVE Inv'
  <2>1. members' = [id \in {i} |-> [user |-> u, super |-> TRUE]] /\ request' = request
    BY <1>2 DEF CreateKit
  <2>2. Live' = {i} /\ i \in SuperMembers'
    BY <2>1 DEF Live, SuperMembers
  <2>3. \A r \in Requests : ~Pending(r)'
    BY <1>2, <2>1 DEF CreateKit, Inv, Shape, Pending
  <2>. QED
    BY <1>s, <2>2, <2>3 DEF Inv, PendingOK, SuperRemains, OneMembership
<1>3. CASE DeleteKit
  <2>1. kit' = "deleted" /\ Live' = {} /\ UNCHANGED <<made, request, log>>
    BY <1>3 DEF DeleteKit, Live
  <2>2. ASSUME NEW r \in Requests, Pending(r)'
        PROVE  IF Adds(r)' THEN AddOK(r)' ELSE ChangeOK(r)'
    <3>1. Adds(r) => AddOK(r)
      BY <2>1, <2>2 DEF Inv, PendingOK, Pending
    <3>. QED
      BY <2>1, <3>1 DEF Adds, AddOK, ChangeOK, Pending
  <2>. QED
    BY <1>s, <2>1, <2>2 DEF Inv, PendingOK, SuperRemains, OneMembership
<1>4. ASSUME NEW r \in Requests, NEW actor \in Users, NEW u \in Users, NEW super \in BOOLEAN,
             AuthorizeAdd(r, actor, u, super)
      PROVE  Inv'
  <2>1. request'[r].at = "add" /\ \A q \in Requests \ {r} : request'[q] = request[q]
    BY <1>4 DEF AuthorizeAdd, Inv, Shape, Idle
  <2>2. ~Pending(r)' /\ UNCHANGED <<kit, members, log>>
    BY <1>4, <2>1 DEF AuthorizeAdd, Pending
  <2>. QED
    BY <1>s, <2>1, <2>2, OpenRight
<1>5. ASSUME NEW r \in Requests, NEW i \in Ids \cup {None}, BeginAdd(r, i) PROVE Inv'
  BY <1>s, <1>5, AddRight
<1>6. ASSUME NEW r \in Requests, NEW actor \in Users, NEW i \in Ids, NEW super \in BOOLEAN,
             PatchMembership(r, actor, i, super) \/ DeleteMembership(r, actor, i)
      PROVE  Inv'
  <2>1. i \in Live /\ members[i].user \in Users
    BY <1>6 DEF PatchMembership, DeleteMembership, Inv, Shape, Member
  <2>2. [user |-> members[i].user, super |-> super] \in Member
    BY <2>1 DEF Member
  <2>. QED
    BY <1>s, <1>6, <2>2, ChangeRight DEF PatchMembership, DeleteMembership
<1>7. ASSUME NEW r \in Requests, Commit(r) PROVE Inv'
  <2>1. SuperRemains' /\ OneMembership'
    BY <1>7, CommitSafe
  <2>2. ~Pending(r)'
    BY <1>7 DEF Commit, CommitIf, End, Inv, Shape, Pending, Idle
  <2>3. PendingOK'
    BY <1>7, <2>2, CommitPending DEF PendingOK
  <2>. QED
    BY <1>s, <2>1, <2>3 DEF Inv
<1>8. ASSUME NEW r \in Requests, Abort(r) PROVE Inv'
  BY <1>s, <1>8, EndRight DEF Abort
<1>. QED
  BY <1>1, <1>2, <1>3, <1>4, <1>5, <1>6, <1>7, <1>8 DEF Next

\* It holds in every state.
LEMMA AlwaysInv == Spec => []Inv
<1>1. Init => Inv
  <2>. SUFFICES ASSUME Init PROVE Inv
    OBVIOUS
  <2>1. Live = {} /\ kit = "none" /\ log = <<>> /\ made = {}
        /\ \A r \in Requests : request[r].at = "idle"
    BY DEF Init, Live, Idle
  <2>2. Shape
    BY <2>1 DEF Init, Shape, Pending, Transaction, Idle, Live
  <2>. QED
    BY <2>1, <2>2 DEF Inv, PendingOK, Pending, SuperRemains, OneMembership
<1>. QED
  BY <1>1, InvStep, PTL DEF Spec

\* A live kit keeps a member with super access, however many transactions take
\* it away at once: each has read the rows that have it, so that of two that
\* did not see each other only one commits.
THEOREM SuperStays == Spec => []SuperRemains
<1>1. Inv => SuperRemains
  BY DEF Inv
<1>. QED
  BY <1>1, AlwaysInv, PTL

\* No user has two memberships, although no key forbids it: a transaction that
\* adds one has read that the user has none.
THEOREM MembersAreUnique == Spec => []OneMembership
<1>1. Inv => OneMembership
  BY DEF Inv
<1>. QED
  BY <1>1, AlwaysInv, PTL

-----------------------------------------------------------------------------

OpenSet == {r \in Requests : Pending(r)}

\* The log has room for what is open, and a kit that is not there has nobody.
LogInv ==
    /\ Len(log) + Cardinality(OpenSet) <= MaxLog + Cardinality(Requests)
    /\ kit # "live" => Live = {}

\* The requests can be counted, and those with an open transaction.
LEMMA CountOpen ==
    ASSUME NEW S \in SUBSET Requests
    PROVE  /\ Cardinality(S) \in Nat /\ Cardinality(Requests) \in Nat
           /\ Cardinality(S) <= Cardinality(Requests)
           /\ \A r \in S : Cardinality(S \ {r}) + 1 = Cardinality(S)
<1>1. IsFiniteSet(Requests)
  BY BoundAssumption
<1>2. IsFiniteSet(S) /\ Cardinality(S) <= Cardinality(Requests)
  BY <1>1, FS_Subset
<1>3. Cardinality(S) \in Nat /\ Cardinality(Requests) \in Nat
  BY <1>1, <1>2, FS_CardinalityType
<1>4. ASSUME NEW r \in S PROVE Cardinality(S \ {r}) + 1 = Cardinality(S)
  <2>1. Cardinality(S \ {r}) = Cardinality(S) - 1
    BY <1>2, FS_RemoveElement
  <2>. QED
    BY <1>3, <2>1
<1>. QED
  BY <1>2, <1>3, <1>4

LEMMA LogInvStep == Shape /\ LogInv /\ [Next]_vars => LogInv'
<1>. SUFFICES ASSUME Shape, LogInv, [Next]_vars PROVE LogInv'
  OBVIOUS
<1>. PICK before, after : before = OpenSet /\ after = OpenSet'
  OBVIOUS
<1>0. before \in SUBSET Requests /\ after \in SUBSET Requests
  BY DEF OpenSet
<1>1. /\ Cardinality(before) \in Nat /\ Cardinality(after) \in Nat
      /\ Cardinality(Requests) \in Nat /\ MaxLog \in Nat
      /\ Cardinality(after) <= Cardinality(Requests)
      /\ \A r \in before : Cardinality(before \ {r}) + 1 = Cardinality(before)
  BY <1>0, CountOpen, BoundAssumption
<1>2. /\ Len(log) \in Nat /\ Len(log) + Cardinality(before) <= MaxLog + Cardinality(Requests)
      /\ kit # "live" => Live = {}
  BY DEF Shape, LogInv
<1>3. ASSUME Len(log') + Cardinality(after) <= MaxLog + Cardinality(Requests),
             kit' # "live" => Live' = {}
      PROVE  LogInv'
  BY <1>3 DEF LogInv
<1>4. CASE UNCHANGED <<request, log>> /\ (kit' # "live" => Live' = {})
  <2>1. after = before
    BY <1>4 DEF OpenSet, Pending
  <2>. QED
    BY <1>2, <1>3, <1>4, <2>1
<1>5. ASSUME NEW r \in Requests, UNCHANGED <<kit, members, log>>, Len(log) < MaxLog
      PROVE  LogInv'
  BY <1>1, <1>2, <1>3, <1>5 DEF Live
<1>6. ASSUME NEW r \in Requests, NEW committed \in Seq(Entry), End(r, committed),
             Len(committed) + (IF Pending(r) THEN 0 ELSE 1) <= Len(log) + 1,
             kit' # "live" => Live' = {}
      PROVE  LogInv'
  <2>1. request'[r].at = "idle" /\ \A q \in Requests \ {r} : request'[q] = request[q]
    BY <1>6 DEF End, Shape, Idle
  <2>2. after = before \ {r}
    BY <2>1 DEF OpenSet, Pending
  <2>3. Cardinality(after) + (IF Pending(r) THEN 1 ELSE 0) = Cardinality(before)
    <3>1. CASE Pending(r)
      <4>1. r \in before
        BY <3>1 DEF OpenSet
      <4>. QED
        BY <1>1, <2>2, <3>1, <4>1
    <3>2. CASE ~Pending(r)
      <4>1. after = before
        BY <2>2, <3>2 DEF OpenSet
      <4>. QED
        BY <1>1, <3>2, <4>1
    <3>. QED
      BY <3>1, <3>2
  <2>4. Len(log') <= Len(committed) /\ Len(log') \in Nat /\ Len(committed) \in Nat
    <3>1. log' = committed \/ log' = <<>>
      BY <1>6 DEF End
    <3>. QED
      BY <1>6, <3>1
  <2>5. Len(log') + Cardinality(after) <= MaxLog + Cardinality(Requests)
    <3>. PICK n : n = Len(log')
      OBVIOUS
    <3>1. n \in Nat /\ n <= Len(committed)
      BY <2>4
    <3>2. n + Cardinality(after) <= MaxLog + Cardinality(Requests)
      <4>1. CASE Pending(r)
        BY <1>1, <1>2, <1>6, <2>3, <2>4, <3>1, <4>1
      <4>2. CASE ~Pending(r)
        BY <1>1, <1>2, <1>6, <2>3, <2>4, <3>1, <4>2
      <4>. QED
        BY <4>1, <4>2
    <3>. QED
      BY <3>2
  <2>. QED
    BY <1>3, <1>6, <2>5
<1>7. log \in Seq(Entry)
  BY DEF Shape
<1>8. ASSUME NEW r \in Requests, End(r, log), UNCHANGED <<kit, members>> PROVE LogInv'
  <2>1. kit' # "live" => Live' = {}
    BY <1>2, <1>8 DEF Live
  <2>2. Len(log) + (IF Pending(r) THEN 0 ELSE 1) <= Len(log) + 1
    BY <1>2
  <2>. QED
    BY <1>6, <1>7, <1>8, <2>1, <2>2
<1>9. ASSUME NEW u \in Users, NEW i \in Ids, CreateKit(u, i) PROVE LogInv'
  BY <1>4, <1>9 DEF CreateKit
<1>10. CASE DeleteKit
  BY <1>4, <1>10 DEF DeleteKit, Live
<1>11. ASSUME NEW r \in Requests, NEW actor \in Users, NEW u \in Users, NEW super \in BOOLEAN,
              AuthorizeAdd(r, actor, u, super)
       PROVE  LogInv'
  <2>1. /\ request[r].at = "idle" /\ request'[r].at = "add"
        /\ \A q \in Requests \ {r} : request'[q] = request[q]
    BY <1>11 DEF AuthorizeAdd, Shape, Idle
  <2>2. after = before
    BY <2>1 DEF OpenSet, Pending
  <2>3. UNCHANGED <<kit, members, log>>
    BY <1>11 DEF AuthorizeAdd
  <2>. QED
    BY <1>2, <1>3, <2>2, <2>3 DEF Live
<1>12. ASSUME NEW r \in Requests, NEW i \in Ids \cup {None}, BeginAdd(r, i) PROVE LogInv'
  BY <1>5, <1>8, <1>12 DEF BeginAdd
<1>13. ASSUME NEW r \in Requests, NEW actor \in Users, NEW i \in Ids, NEW super \in BOOLEAN,
              PatchMembership(r, actor, i, super) \/ DeleteMembership(r, actor, i)
       PROVE  LogInv'
  BY <1>5, <1>13 DEF PatchMembership, DeleteMembership, BeginChange, Open
<1>14. ASSUME NEW r \in Requests, Commit(r) PROVE LogInv'
  <2>1. PICK h \in Seq(Entry) : End(r, h) /\ Len(h) = Len(log) + 1
    BY <1>14, CommitEffect DEF Shape
  <2>2. Pending(r) /\ kit' = "live"
    BY <1>14, CommitEffect DEF Shape, Pending
  <2>3. Len(h) + (IF Pending(r) THEN 0 ELSE 1) <= Len(log) + 1
    BY <1>2, <2>1, <2>2
  <2>. QED
    BY <1>6, <2>1, <2>2, <2>3
<1>15. ASSUME NEW r \in Requests, Abort(r) PROVE LogInv'
  BY <1>8, <1>15 DEF Abort
<1>16. CASE UNCHANGED vars
  BY <1>2, <1>4, <1>16 DEF vars, Live
<1>. QED
  BY <1>9, <1>10, <1>11, <1>12, <1>13, <1>14, <1>15, <1>16 DEF Next

\* The state has the shape of the schema, a kit that is not there has no
\* members, and what has to be remembered of committed transactions is bounded
\* by the requests that can have one open.
THEOREM SchemaKept == Spec => []TypeOK
<1>1. Init => Shape /\ LogInv
  <2>. SUFFICES ASSUME Init PROVE Shape /\ LogInv
    OBVIOUS
  <2>1. Live = {} /\ kit = "none" /\ log = <<>> /\ made = {}
        /\ \A r \in Requests : request[r].at = "idle"
    BY DEF Init, Live, Idle
  <2>2. Shape
    BY <2>1 DEF Init, Shape, Pending, Transaction, Idle, Live
  <2>3. OpenSet = {} /\ Len(log) = 0
    BY <2>1 DEF OpenSet, Pending
  <2>4. Cardinality(OpenSet) = 0 /\ Cardinality(Requests) \in Nat /\ MaxLog \in Nat
    BY <2>3, FS_EmptySet, CountOpen, BoundAssumption
  <2>. QED
    BY <2>1, <2>2, <2>3, <2>4 DEF LogInv
<1>2. Shape /\ LogInv => TypeOK
  <2>. SUFFICES ASSUME Shape, LogInv PROVE TypeOK
    OBVIOUS
  <2>1. /\ Cardinality(OpenSet) \in Nat /\ Cardinality(Requests) \in Nat
        /\ Len(log) \in Nat /\ MaxLog \in Nat
    BY CountOpen, BoundAssumption DEF OpenSet, Shape
  <2>2. Len(log) <= MaxLog + Cardinality(Requests)
    BY <2>1 DEF LogInv
  <2>. QED
    BY <2>2 DEF TypeOK, Shape, LogInv, Member, Transaction, Pending
<1>. QED
  BY <1>1, <1>2, ShapeStep, LogInvStep, PTL DEF Spec
=============================================================================
