---------------------------- MODULE Memberships ----------------------------
(***************************************************************************)
(* The members of a kit (astroplant-api, controllers/kit).  The HTTP       *)
(* requests that add, change and remove a membership run one serializable  *)
(* transaction each: it takes a snapshot, reads and checks, and writes one *)
(* row.  Who may add a member is checked before, in a transaction of its   *)
(* own.  No key keeps a user from having two memberships, and nothing in   *)
(* the schema asks for a member with super access: both rest on the        *)
(* isolation of the transactions.                                          *)
(*                                                                         *)
(* External: PostgreSQL commits a serializable transaction only if it and  *)
(* those that have committed have some serial order, and may always abort  *)
(* it.  The order need not be that of the commits.                         *)
(***************************************************************************)
EXTENDS Integers, Sequences, FiniteSets

CONSTANTS
    Users,
    Ids,            \* ids the sequence of memberships hands out
    Requests,       \* tasks that handle HTTP requests, one after the other
    MaxLog,         \* bound: transactions that commit while others are open
    None

ASSUME BoundAssumption ==
    /\ MaxLog \in Nat /\ IsFiniteSet(Requests)
    /\ None \notin Users \cup Ids \cup [user : Users, super : BOOLEAN]

VARIABLES
    kit,        \* the kit: "none", "live" or "deleted"
    members,    \* the committed memberships: [user, super] by id
    made,       \* ids handed out
    request,    \* where each request stands; the transaction it has open
    log         \* the transactions committed since one of the open ones began

vars == <<kit, members, made, request, log>>

-----------------------------------------------------------------------------

\* What a transaction reads and writes: a row, the rows of a user, or the rows
\* with super access.
Row(i) == <<"row", i>>
RowsOf(u) == <<"user", u>>
Supers == <<"super", TRUE>>

\* write: the change to make, of the row "id"; "value" is None to delete it.
Idle == [at |-> "idle", start |-> 0, reads |-> {}, id |-> None, value |-> None]

Init ==
    /\ kit = "none"
    /\ members = <<>>
    /\ made = {}
    /\ request = [r \in Requests |-> Idle]
    /\ log = <<>>

Live == DOMAIN members
SuperMembers == {i \in Live : members[i].super}
IsSuper(u) == \E i \in SuperMembers : members[i].user = u

\* Every permission asked for here is one that members with super access have:
\* EditMembers, EditSuperMembers and Delete.
Permitted(u) == kit = "live" /\ IsSuper(u)

-----------------------------------------------------------------------------
(* Transactions. *)

\* The transaction t has i of the log in its snapshot.
Saw(t, i) == i <= t.start

\* What writing the row "id" touches: the row, the rows of its user, and the
\* rows with super access if it was or becomes one of them.
Touches(id, value) ==
    LET old == IF id \in Live THEN members[id] ELSE None
        versions == {old, value} \ {None}
        counts(v) == v # None /\ v.super
    IN {Row(id)} \cup {RowsOf(v.user) : v \in versions}
       \cup (IF counts(old) # counts(value) THEN {Supers} ELSE {})

\* The first of two committed transactions has to come before the second.
Meet(S, T) == S \cap T # {}
Before(h, i, j) ==
    IF Saw(h[j], i) THEN Meet(h[i].writes, h[j].reads \cup h[j].writes)
                         \/ Meet(h[i].reads, h[j].writes)
    ELSE ~Saw(h[i], j) /\ Meet(h[i].reads, h[j].writes)

\* Mutant: snapshot isolation, which looks at the written rows only.
AnyHistory(h) == TRUE

\* The transactions have a serial order.
Serializable(h) ==
    \E order \in [DOMAIN h -> DOMAIN h] : \A i, j \in DOMAIN h :
        i # j => /\ order[i] # order[j]
                 /\ Before(h, i, j) => order[i] < order[j]

\* The row was written by another since the snapshot: the update fails.
Overtaken(t) == \E i \in DOMAIN log : ~Saw(t, i) /\ Row(t.id) \in log[i].writes

Open(r, at, reads, id, value) ==
    /\ Len(log) < MaxLog
    /\ request' = [request EXCEPT ![r] =
          [at |-> at, start |-> Len(log), reads |-> reads, id |-> id, value |-> value]]
    /\ UNCHANGED <<kit, members, made, log>>

\* The request ends; what has committed is forgotten when nothing is open.
End(r, committed) ==
    /\ request' = [request EXCEPT ![r] = Idle]
    /\ log' = IF \E q \in Requests \ {r} : request[q].at = "write" THEN committed ELSE <<>>

Abort(r) ==
    /\ request[r].at = "write"
    /\ End(r, log)
    /\ UNCHANGED <<kit, members, made>>

CommitIf(r, P) ==
    LET t == request[r]
        entry == [start |-> t.start, reads |-> t.reads, writes |-> Touches(t.id, t.value)]
        committed == Append(log, entry)
    IN
    /\ t.at = "write" /\ P
    /\ ~Overtaken(t)
    /\ Serializable(committed)
    /\ members' = [i \in (Live \cup {t.id}) \ (IF t.value = None THEN {t.id} ELSE {}) |->
                      IF i = t.id THEN t.value ELSE members[i]]
    /\ End(r, committed)
    /\ UNCHANGED <<kit, made>>

\* Mutant: a membership does not refer to its kit.
CommitAnyway(r) == CommitIf(r, TRUE)

\* The change is written and committed, while the kit is there.
Commit(r) == CommitIf(r, kit = "live")

-----------------------------------------------------------------------------
(* create_kit, delete_kit *)

\* The kit is created together with the membership of the user who asked.
CreateKit(u, i) ==
    /\ kit = "none"
    /\ kit' = "live"
    /\ members' = [id \in {i} |-> [user |-> u, super |-> TRUE]]
    /\ made' = {i}
    /\ UNCHANGED <<request, log>>

\* The memberships go with the kit.  (Permission is checked before, and may
\* have been taken away since.)
DeleteKit ==
    /\ kit = "live"
    /\ kit' = "deleted"
    /\ members' = <<>>
    /\ UNCHANGED <<made, request, log>>

-----------------------------------------------------------------------------
(* add_member *)

\* The permission is checked; "value" is the membership asked for.
AuthorizeAdd(r, actor, u, super) ==
    /\ request[r].at = "idle"
    /\ Permitted(actor)
    /\ request' = [request EXCEPT ![r] =
                      [Idle EXCEPT !.at = "add", !.value = [user |-> u, super |-> super]]]
    /\ UNCHANGED <<kit, members, made, log>>

\* The snapshot: nothing is done for a user with a membership.  Mutant: that
\* is found out before the transaction.
AddReadsNothing(u) == {}
AddReads(u) == {RowsOf(u)}

BeginAdd(r, i) ==
    LET t == request[r] IN
    /\ t.at = "add"
    /\ IF kit # "live" \/ \E j \in Live : members[j].user = t.value.user
         THEN i = None /\ End(r, log) /\ UNCHANGED <<kit, members, made>>
         ELSE /\ i \in Ids \ made
              /\ Len(log) < MaxLog
              /\ made' = made \cup {i}
              /\ request' = [request EXCEPT ![r] =
                    [at |-> "write", start |-> Len(log), reads |-> AddReads(t.value.user),
                     id |-> i, value |-> t.value]]
              /\ UNCHANGED <<kit, members, log>>

-----------------------------------------------------------------------------
(* patch_kit_membership, delete_kit_membership *)

\* What both read: the row, the membership of the actor and, to take super
\* access away, the rows that have it, of which there must be two.
ChangeReads(actor, i, loses) ==
    {Row(i), RowsOf(actor)} \cup (IF loses THEN {Supers} ELSE {})

Spared(loses) == loses => Cardinality(SuperMembers) >= 2

\* The changed row, or none if the membership is removed.
BeginChange(r, actor, i, value) ==
    LET loses == members[i].super /\ (value = None \/ ~value.super) IN
    /\ request[r].at = "idle"
    /\ i \in Live /\ Permitted(actor)
    /\ value # None => value.user = members[i].user
    /\ Spared(loses)
    /\ Open(r, "write", ChangeReads(actor, i, loses), i, value)

PatchMembership(r, actor, i, super) ==
    i \in Live /\ BeginChange(r, actor, i, [user |-> members[i].user, super |-> super])

DeleteMembership(r, actor, i) == i \in Live /\ BeginChange(r, actor, i, None)

-----------------------------------------------------------------------------

Next ==
    \/ \E u \in Users, i \in Ids : CreateKit(u, i)
    \/ DeleteKit
    \/ \E r \in Requests :
          \/ \E actor, u \in Users, super \in BOOLEAN : AuthorizeAdd(r, actor, u, super)
          \/ \E i \in Ids \cup {None} : BeginAdd(r, i)
          \/ \E actor \in Users, i \in Ids, super \in BOOLEAN :
                PatchMembership(r, actor, i, super)
          \/ \E actor \in Users, i \in Ids : DeleteMembership(r, actor, i)
          \/ Commit(r) \/ Abort(r)

Spec == Init /\ [][Next]_vars

-----------------------------------------------------------------------------

\* The state has the shape of the schema.
TypeOK ==
    /\ kit \in {"none", "live", "deleted"}
    /\ Live \subseteq made /\ made \subseteq Ids
    /\ members \in [Live -> [user : Users, super : BOOLEAN]]
    /\ kit # "live" => Live = {}
    /\ \A r \in Requests : request[r].at \in {"idle", "add", "write"}
    /\ \A r \in Requests : request[r].at = "write" => request[r].start <= Len(log)
    /\ Len(log) <= MaxLog + Cardinality(Requests)

\* A kit keeps a member with super access: two of them, each taking the
\* access of the other away, see two in their snapshots, and one fails.
SuperRemains == kit = "live" => SuperMembers # {}

\* A user has at most one membership: the same user added twice at once, the
\* second request does not see the membership of the first.
OneMembership == \A i, j \in Live : members[i].user = members[j].user => i = j
=============================================================================
