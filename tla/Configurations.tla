--------------------------- MODULE Configurations ---------------------------
(***************************************************************************)
(* The configurations of kits (astroplant-api, controllers and models of   *)
(* kit configurations and peripherals).  Every HTTP request that changes   *)
(* one first reads the rows it is about, checks what it read, and later,   *)
(* on another connection, runs one transaction; other requests may have    *)
(* committed in between.  The database (PostgreSQL, read committed) allows *)
(* one active configuration per kit and stamps a configuration when it is  *)
(* first activated; a configuration with a stamp has been used.            *)
(*                                                                         *)
(* A transaction is one step: its first statement locks the rows it        *)
(* changes, and its effects are seen by others all at once or, when it     *)
(* fails, not at all.                                                      *)
(***************************************************************************)
EXTENDS Integers, FiniteSets

CONSTANTS
    Requests,       \* tasks that handle HTTP requests, one after the other
    Kits,
    Configs,        \* ids the sequence of configurations hands out
    KitOf,          \* the kit the configuration of each id is made for
    Peripherals,    \* ids the sequence of peripherals hands out
    MaxEdits,       \* bound: changes to rules and peripherals
    None            \* no configuration

ASSUME ConfigsAssumption == KitOf \in [Configs -> Kits] /\ None \notin Configs
ASSUME EditsAssumption == MaxEdits \in Nat

VARIABLES
    live,       \* ids of the rows of kit_configurations
    active,     \* those with active set
    used,       \* those, deleted ones included, with first_activated_at set
    rules,      \* edit that last set a configuration's controller and rules,
                \* 0 for the defaults
    owner,      \* the configuration of each row of peripherals
    version,    \* edit that last set a peripheral
    made,       \* ids of configurations and peripherals handed out
    edits,      \* edits so far
    request     \* where each request stands and what it has read

tables == <<live, active, used, rules, owner, version, made, edits>>
vars == <<tables, request>>

Waiting == [at |-> "new", config |-> None, with |-> None]

Init ==
    /\ live = {} /\ active = {} /\ used = {}
    /\ rules = [c \in Configs |-> 0]
    /\ owner = [p \in Peripherals |-> None]
    /\ version = [p \in Peripherals |-> 0]
    /\ made = {}
    /\ edits = 0
    /\ request = [r \in Requests |-> Waiting]

Parts(c) == {p \in Peripherals : owner[p] = c}

\* A request that passes the checks of its handler holds on to what it read of
\* c, and on to what it was asked, until its transaction, the step "at".
Hold(r, at, c, with) ==
    /\ request[r].at = "new"
    /\ c \in live
    /\ request' = [request EXCEPT ![r] = [at |-> at, config |-> c, with |-> with]]
    /\ UNCHANGED tables

\* The response is sent, and the task is free for another request.
End(r) == request' = [request EXCEPT ![r] = Waiting]

\* The transaction fails and is rolled back.
Fail(r) == End(r) /\ UNCHANGED tables

-----------------------------------------------------------------------------
(* Creating and cloning: create_new_configuration, clone_configuration.    *)

Insert(c, setup) ==
    /\ c \notin made
    /\ live' = live \cup {c}
    /\ rules' = [rules EXCEPT ![c] = setup]
    /\ UNCHANGED <<active, used, edits>>

CreateConfiguration(r, c) ==
    /\ request[r].at = "new"
    /\ Insert(c, 0)
    /\ made' = made \cup {c}
    /\ End(r)
    /\ UNCHANGED <<owner, version>>

ReadSource(r, c) == Hold(r, "clone", c, rules[c])

\* The rules are those read before, the peripherals those found now, of which
\* there are none if the source has been deleted.
WriteClone(r, c) ==
    LET source == request[r].config IN
    /\ request[r].at = "clone"
    /\ Insert(c, request[r].with)
    /\ \E copy \in [Parts(source) -> Peripherals \ made] :
          LET copies == {copy[p] : p \in Parts(source)}
              original(q) == CHOOSE p \in Parts(source) : copy[p] = q
          IN /\ Cardinality(copies) = Cardinality(Parts(source))
             /\ made' = made \cup {c} \cup copies
             /\ owner' = [q \in Peripherals |-> IF q \in copies THEN c ELSE owner[q]]
             /\ version' = [q \in Peripherals |->
                               IF q \in copies THEN version[original(q)] ELSE version[q]]
    /\ End(r)

-----------------------------------------------------------------------------
(* Changing a configuration: patch_configuration.                          *)

\* What is left active when all configurations of c's kit are deactivated.
\* Mutant: of every kit.
DeactivatedEverywhere(c) == {}
Deactivated(c) == {d \in active : KitOf[d] # KitOf[c]}

\* The partial unique index on the active configurations.  Mutant: dropped.
IndexDropped(A) == TRUE
Index(A) == \A c, d \in A : KitOf[c] = KitOf[d] => c = d

\* The trigger before an update: c is stamped if it is active now.  Mutant:
\* there is no trigger.
StampNothing(c, A) == {}
Stamp(c, A) == {c} \cap A

\* active is "on", "off" or "keep"; rules, whether the controller or the
\* rules are given.  (A description changes nothing else; a patch without
\* anything is refused by the query builder.)
Patches == [active : {"on", "off", "keep"}, rules : BOOLEAN]
              \ {[active |-> "keep", rules |-> FALSE]}

\* A patch that gives rules is refused once the configuration is used.
ReadForPatch(r, c, patch) ==
    /\ patch.rules => c \notin used
    /\ Hold(r, "patch", c, [patch |-> patch, active |-> c \in active])

\* The configurations that are active once the patch of q is applied.  The
\* others of the kit are deactivated if active is given and is not what the
\* request read.
ActiveAfter(q) ==
    LET given == q.with.patch.active # "keep"
        on == q.with.patch.active = "on"
        rest == IF given /\ on # q.with.active THEN Deactivated(q.config) ELSE active
    IN IF ~given THEN rest
       ELSE IF on THEN rest \cup {q.config} ELSE rest \ {q.config}

CommitPatch(r) ==
    LET q == request[r]
        c == q.config
    IN
    /\ q.at = "patch"
    /\ IF c \in live /\ Index(ActiveAfter(q))
         THEN /\ active' = ActiveAfter(q)
              /\ used' = used \cup Stamp(c, ActiveAfter(q))
              /\ IF q.with.patch.rules
                   THEN /\ edits < MaxEdits
                        /\ edits' = edits + 1
                        /\ rules' = [rules EXCEPT ![c] = edits']
                   ELSE UNCHANGED <<edits, rules>>
              /\ End(r)
              /\ UNCHANGED <<live, owner, version, made>>
         ELSE Fail(r)

-----------------------------------------------------------------------------
(* Peripherals: add_peripheral_to_configuration, patch_peripheral,         *)
(* delete_peripheral.  Validation and the definition are not told apart.   *)

ReadForEditIf(r, c, kind, p, allowed) ==
    /\ IF kind = "add" THEN p = None ELSE p \in Parts(c)
    /\ allowed
    /\ Hold(r, kind, c, p)

\* Mutant: a peripheral of a used configuration may be deleted.
ReadForEditOrRemove(r, c, kind, p) ==
    ReadForEditIf(r, c, kind, p, c \notin used \/ kind = "remove")

\* Adding (p is None) or changing a peripheral of c is refused once c is used.
ReadForEdit(r, c, kind, p) == ReadForEditIf(r, c, kind, p, c \notin used)

\* The configuration's row is referenced: the insertion fails without it.
CommitAdd(r, p) ==
    LET c == request[r].config IN
    /\ request[r].at = "add"
    /\ IF c \in live
         THEN /\ p \notin made /\ edits < MaxEdits
              /\ made' = made \cup {p}
              /\ owner' = [owner EXCEPT ![p] = c]
              /\ version' = [version EXCEPT ![p] = edits + 1]
              /\ edits' = edits + 1
              /\ End(r)
              /\ UNCHANGED <<live, active, used, rules>>
         ELSE Fail(r)

CommitChange(r) ==
    LET p == request[r].with IN
    /\ request[r].at = "change"
    /\ IF owner[p] # None
         THEN /\ edits < MaxEdits
              /\ version' = [version EXCEPT ![p] = edits + 1]
              /\ edits' = edits + 1
              /\ End(r)
              /\ UNCHANGED <<live, active, used, rules, owner, made>>
         ELSE Fail(r)

DeleteParts(S) ==
    /\ owner' = [p \in Peripherals |-> IF p \in S THEN None ELSE owner[p]]
    /\ version' = [p \in Peripherals |-> IF p \in S THEN 0 ELSE version[p]]

CommitRemove(r) ==
    /\ request[r].at = "remove"
    /\ DeleteParts({request[r].with})
    /\ End(r)
    /\ UNCHANGED <<live, active, used, rules, made, edits>>

-----------------------------------------------------------------------------
(* Deleting a configuration without media; its peripherals go with it.     *)

ReadForDelete(r, c) == Hold(r, "delete", c, None)

CommitDelete(r) ==
    LET c == request[r].config IN
    /\ request[r].at = "delete"
    /\ live' = live \ {c}
    /\ active' = active \ {c}
    /\ rules' = [rules EXCEPT ![c] = 0]
    /\ DeleteParts(Parts(c))
    /\ End(r)
    /\ UNCHANGED <<used, made, edits>>

-----------------------------------------------------------------------------

Read(r) ==
    \E c \in Configs :
        \/ ReadSource(r, c)
        \/ \E patch \in Patches : ReadForPatch(r, c, patch)
        \/ \E kind \in {"add", "change", "remove"}, p \in Peripherals \cup {None} :
              ReadForEdit(r, c, kind, p)
        \/ ReadForDelete(r, c)

Commit(r) ==
    \/ \E c \in Configs : CreateConfiguration(r, c) \/ WriteClone(r, c)
    \/ CommitPatch(r)
    \/ \E p \in Peripherals : CommitAdd(r, p)
    \/ CommitChange(r) \/ CommitRemove(r) \/ CommitDelete(r)

Next == \E r \in Requests : Read(r) \/ Commit(r)

Spec == Init /\ [][Next]_vars

-----------------------------------------------------------------------------

\* The tables have the shape of the schema: what is active is a row, and has
\* been stamped.
TypeOK ==
    /\ live \subseteq Configs \cap made
    /\ active \subseteq live \cap used
    /\ used \subseteq Configs \cap made
    /\ rules \in [Configs -> 0..MaxEdits]
    /\ owner \in [Peripherals -> live \cup {None}]
    /\ version \in [Peripherals -> 0..MaxEdits]
    /\ made \subseteq Configs \cup Peripherals
    /\ edits \in 0..MaxEdits
    /\ \A r \in Requests : request[r].config \in Configs \cup {None}

\* At most one configuration of a kit is active, though a request decides
\* from a stale read whether it deactivates the others.
OneActive == \A c, d \in active : KitOf[c] = KitOf[d] => c = d

Slots == INSTANCE ActiveSlots WITH
    slot <- [k \in Kits |-> {c \in active : KitOf[c] = k}]

\* Requests keep what ActiveSlots promises: they change the active
\* configuration of one kit at a time, to one of its own or to none.
KeepsSlots == Slots!Spec

\* The controller, the rules and the peripherals of a configuration that has
\* been activated are never changed, as the guards of the handlers intend.
Setup(c) == <<rules[c], {<<p, version[p]>> : p \in Parts(c)}>>
SetupFrozen ==
    [][\A c \in used \cap live : c \in live' => Setup(c)' = Setup(c)]_vars

\* A request that read c before it was used may still change it.
Changes(q, c) ==
    /\ q.config = c
    /\ q.at \in {"add", "change", "remove"} \/ (q.at = "patch" /\ q.with.patch.rules)
Settled(c) == c \in used \cap live /\ \A r \in Requests : ~Changes(request[r], c)

\* Once a configuration is used and the requests that read it before are over,
\* it stays as it is until it is deleted.  So whoever reads its rules and its
\* peripherals in two statements, to clone it (kit_configuration.rs:92), to
\* list it, to archive it or to give a kit its active configuration
\* (mqtt/mod.rs:127), has them of one moment.
SettledStays ==
    [][\A c \in Configs : Settled(c) /\ c \in live' =>
          Settled(c)' /\ Setup(c)' = Setup(c)]_vars
=============================================================================
