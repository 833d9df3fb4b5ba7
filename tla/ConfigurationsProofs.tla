------------------------ MODULE ConfigurationsProofs ------------------------
(***************************************************************************)
(* Proofs about Configurations, for any number of concurrent requests,     *)
(* kits, configurations and peripherals.                                   *)
(***************************************************************************)
EXTENDS Configurations, TLAPS

\* Nothing is supposed of the requests: what they hold on to may be stale.
Inv ==
    /\ live \subseteq Configs /\ used \subseteq Configs
    /\ active \subseteq live \cap used
    /\ OneActive

SlotsOf(A) == [k \in Kits |-> {c \in A : KitOf[c] = k}]

\* The patch changes the active configurations of the kit of c alone, and what
\* it makes active is c.
LEMMA PatchIsLocal ==
    ASSUME NEW q, NEW c \in Configs, q.config = c, active \subseteq Configs
    PROVE  /\ \A d \in Configs : KitOf[d] # KitOf[c] =>
                 (d \in ActiveAfter(q) <=> d \in active)
           /\ ActiveAfter(q) \subseteq active \cup {c}
  BY DEF ActiveAfter, Deactivated

\* A step of which only the kit of c, and c in it, takes notice is a step of
\* ActiveSlots.
LEMMA LocalChange ==
    ASSUME Inv, NEW c \in Configs, active' \subseteq active \cup {c}, OneActive',
           \A d \in Configs : KitOf[d] # KitOf[c] => (d \in active' <=> d \in active),
           used' = used \cup ({c} \cap active')
    PROVE  Slots!Next
<1>. DEFINE k == KitOf[c]
            S == {d \in active' : KitOf[d] = k}
<1>1. k \in Kits /\ active \subseteq Configs /\ active' \subseteq Configs
  BY ConfigsAssumption DEF Inv
<1>2. Slots!Fits(k, S)
  <2>1. CASE S = {}
    BY <2>1 DEF Slots!Fits
  <2>2. CASE S # {}
    <3>1. PICK d \in active' : KitOf[d] = k
      BY <2>2
    <3>2. S = {d}
      BY <3>1 DEF OneActive
    <3>. QED
      BY <1>1, <3>1, <3>2 DEF Slots!Fits
  <2>. QED
    BY <2>1, <2>2
<1>3. SlotsOf(active)' = [SlotsOf(active) EXCEPT ![k] = S]
  <2>1. \A j \in Kits : j # k => {d \in active' : KitOf[d] = j} = {d \in active : KitOf[d] = j}
    BY <1>1
  <2>. QED
    BY <1>1, <2>1 DEF SlotsOf
<1>4. used' = used \cup S
  BY DEF Inv
<1>5. S \in SUBSET Configs
  BY <1>1
<1>. QED
  BY <1>1, <1>2, <1>3, <1>4, <1>5 DEF Slots!Next, Slots!Change, SlotsOf

\* Every step of a request keeps the invariant, and is a step of ActiveSlots or
\* changes nothing it sees.
LEMMA Step ==
    ASSUME Inv, [Next]_vars
    PROVE  Inv' /\ (Slots!Next \/ UNCHANGED <<SlotsOf(active), used>>)
<1>. DEFINE Goal == Inv' /\ (Slots!Next \/ UNCHANGED <<SlotsOf(active), used>>)
<1>1. ASSUME UNCHANGED <<live, active, used>> PROVE Goal
  BY <1>1 DEF Inv, OneActive, SlotsOf
<1>2. ASSUME UNCHANGED tables PROVE Goal
  BY <1>1, <1>2 DEF tables
<1>3. ASSUME NEW c \in Configs, NEW v, Insert(c, v) PROVE Goal
  BY <1>3 DEF Insert, Inv, OneActive, SlotsOf
<1>4. ASSUME NEW r \in Requests, Read(r) PROVE Goal
  BY <1>2, <1>4 DEF Read, ReadSource, ReadForPatch, ReadForEdit, ReadForEditIf,
                       ReadForDelete, Hold
<1>5. ASSUME NEW r \in Requests, NEW c \in Configs, CreateConfiguration(r, c) \/ WriteClone(r, c)
      PROVE  Goal
  BY <1>3, <1>5 DEF CreateConfiguration, WriteClone
<1>6. ASSUME NEW r \in Requests, CommitPatch(r) PROVE Goal
  <2>. DEFINE q == request[r]
              c == q.config
  <2>1. CASE ~(c \in live /\ Index(ActiveAfter(q)))
    BY <1>2, <1>6, <2>1 DEF CommitPatch, Fail
  <2>2. CASE c \in live /\ Index(ActiveAfter(q))
    <3>1. /\ active' = ActiveAfter(q) /\ used' = used \cup Stamp(c, ActiveAfter(q))
          /\ live' = live
      BY <1>6, <2>2 DEF CommitPatch
    <3>2. c \in Configs /\ active \subseteq Configs
      BY <2>2 DEF Inv
    <3>3. /\ \A d \in Configs : KitOf[d] # KitOf[c] => (d \in active' <=> d \in active)
          /\ active' \subseteq active \cup {c}
      BY <3>1, <3>2, PatchIsLocal
    <3>4. used' = used \cup ({c} \cap active')
      BY <3>1 DEF Stamp
    <3>5. OneActive'
      BY <2>2, <3>1 DEF Index, OneActive
    <3>6. Inv'
      BY <2>2, <3>1, <3>3, <3>4, <3>5 DEF Inv
    <3>7. Slots!Next
      BY <3>2, <3>3, <3>4, <3>5, LocalChange
    <3>. QED
      BY <3>6, <3>7
  <2>. QED
    BY <2>1, <2>2
<1>7. ASSUME NEW r \in Requests, NEW p \in Peripherals, CommitAdd(r, p) PROVE Goal
  BY <1>1, <1>2, <1>7 DEF CommitAdd, Fail
<1>8. ASSUME NEW r \in Requests, CommitChange(r) \/ CommitRemove(r) PROVE Goal
  BY <1>1, <1>2, <1>8 DEF CommitChange, CommitRemove, Fail
<1>9. ASSUME NEW r \in Requests, CommitDelete(r) PROVE Goal
  <2>. DEFINE c == request[r].config
  <2>1. live' = live \ {c} /\ active' = active \ {c} /\ used' = used
    BY <1>9 DEF CommitDelete
  <2>2. Inv'
    BY <2>1 DEF Inv, OneActive
  <2>3. CASE c \in active
    <3>1. c \in Configs /\ OneActive'
      BY <2>2, <2>3 DEF Inv
    <3>2. used' = used \cup ({c} \cap active')
      BY <2>1
    <3>. QED
      BY <2>1, <2>2, <3>1, <3>2, LocalChange
  <2>4. CASE c \notin active
    BY <2>1, <2>2, <2>4 DEF SlotsOf
  <2>. QED
    BY <2>3, <2>4
<1>10. CASE UNCHANGED vars
  BY <1>2, <1>10 DEF vars
<1>. QED
  BY <1>4, <1>5, <1>6, <1>7, <1>8, <1>9, <1>10 DEF Next, Commit

\* The database starts empty, as ActiveSlots does.
LEMMA Start == Init => Inv /\ Slots!Init
  BY DEF Init, Inv, OneActive, Slots!Init

\* A kit never has two active configurations, however stale what a request
\* read is when it decides whether to deactivate the others: where it decides
\* wrongly the index makes its transaction fail.
THEOREM AtMostOneActive == Spec => []OneActive
<1>1. Inv /\ [Next]_vars => Inv'
  BY Step
<1>2. Inv => OneActive
  BY DEF Inv
<1>. QED
  BY <1>1, <1>2, Start, PTL DEF Spec

\* Requests implement ActiveSlots: each changes the active configuration of
\* one kit at most, to one of that kit or to none, and whatever has been
\* active is stamped as used.
THEOREM SlotsKept == Spec => KeepsSlots
<1>1. Inv /\ [Next]_vars => Inv'
  BY Step
<1>2. Inv /\ [Next]_vars
         => [Slots!Next]_<<[k \in Kits |-> {c \in active : KitOf[c] = k}], used>>
  BY Step DEF SlotsOf
<1>. QED
  BY <1>1, <1>2, Start, PTL DEF Spec, KeepsSlots, Slots!Spec

-----------------------------------------------------------------------------

\* What a request still holds on to is what it may be told apart by: the
\* peripheral it is about has not changed hands, since ids are not used again.
Owned ==
    /\ live \subseteq Configs \cap made /\ used \subseteq made
    /\ rules = [c \in Configs |-> rules[c]]
    /\ owner = [p \in Peripherals |-> owner[p]]
    /\ version = [p \in Peripherals |-> version[p]]
    /\ request = [r \in Requests |-> request[r]]
    /\ \A p \in Peripherals : owner[p] # None => p \in made /\ owner[p] \in live
    /\ \A r \in Requests : request[r].at \in {"change", "remove"} =>
          /\ request[r].with \in Peripherals \cap made
          /\ owner[request[r].with] \in {None, request[r].config}

\* The controller and rules of c, and its peripherals with what they are.
Keeps(c) ==
    /\ rules'[c] = rules[c]
    /\ \A p \in Peripherals : owner'[p] = c <=> owner[p] = c
    /\ \A p \in Peripherals : owner[p] = c => version'[p] = version[p]

LEMMA KeepsSetup ==
    ASSUME NEW c, Keeps(c)
    PROVE  Setup(c)' = Setup(c)
<1>1. Parts(c)' = Parts(c)
  BY DEF Keeps, Parts
<1>2. \A p \in Parts(c) : version'[p] = version[p]
  BY DEF Keeps, Parts
<1>. QED
  BY <1>1, <1>2 DEF Setup, Keeps

\* Reading leaves the tables alone, and nobody who reads a used configuration
\* gets to change it.
LEMMA ReadSettles ==
    ASSUME Inv, Owned, NEW r \in Requests, Read(r)
    PROVE  /\ Owned'
           /\ \A c \in Configs : Settled(c) => Settled(c)' /\ Keeps(c)
<1>. DEFINE Holds(at, c0, with) ==
              /\ Hold(r, at, c0, with)
              /\ at \in {"add", "change", "remove"} => c0 \notin used
              /\ at \in {"change", "remove"} => with \in Parts(c0)
              /\ at = "patch" => (with.patch.rules => c0 \notin used)
<1>1. PICK c0, at, with : c0 \in Configs /\ Holds(at, c0, with)
  <2>1. ASSUME NEW c \in Configs, ReadSource(r, c)
        PROVE  Holds("clone", c, rules[c])
    BY <2>1 DEF ReadSource
  <2>2. ASSUME NEW c \in Configs, NEW patch \in Patches, ReadForPatch(r, c, patch)
        PROVE  Holds("patch", c, [patch |-> patch, active |-> c \in active])
    BY <2>2 DEF ReadForPatch
  <2>3. ASSUME NEW c \in Configs, NEW kind \in {"add", "change", "remove"},
               NEW p \in Peripherals \cup {None}, ReadForEdit(r, c, kind, p)
        PROVE  Holds(kind, c, p)
    BY <2>3 DEF ReadForEdit, ReadForEditIf
  <2>4. ASSUME NEW c \in Configs, ReadForDelete(r, c)
        PROVE  Holds("delete", c, None)
    BY <2>4 DEF ReadForDelete
  <2>. HIDE DEF Holds
  <2>. QED
    BY <2>1, <2>2, <2>3, <2>4 DEF Read
<1>2. /\ request' = [request EXCEPT ![r] = [at |-> at, config |-> c0, with |-> with]]
      /\ UNCHANGED <<live, active, used, rules, owner, version, made, edits>>
  BY <1>1 DEF Hold, tables
<1>3. \A s \in Requests : request'[s] = IF s = r THEN [at |-> at, config |-> c0, with |-> with]
                                        ELSE request[s]
  BY <1>2 DEF Owned
<1>4. Owned'
  <2>1. at \in {"change", "remove"} => /\ with \in Peripherals \cap made
                                       /\ owner[with] = c0
    BY <1>1, ConfigsAssumption DEF Parts, Owned
  <2>. QED
    BY <1>2, <1>3, <2>1 DEF Owned
<1>5. ASSUME NEW c \in Configs, Settled(c) PROVE Settled(c)' /\ Keeps(c)
  <2>1. ~Changes(request'[r], c)
    BY <1>1, <1>3, <1>5 DEF Changes, Settled
  <2>2. \A s \in Requests : ~Changes(request'[s], c)
    BY <1>3, <1>5, <2>1 DEF Settled
  <2>. QED
    BY <1>2, <1>5, <2>2 DEF Settled, Keeps, Changes
<1>. QED
  BY <1>4, <1>5

\* A request that ends no longer changes anything.
LEMMA EndSettles ==
    ASSUME Owned, NEW r \in Requests, End(r), used \subseteq used',
           NEW c \in Configs, Settled(c), c \in live'
    PROVE  Settled(c)'
<1>1. \A s \in Requests : request'[s] = request[s] \/ request'[s] = Waiting
  BY DEF Owned, End
<1>2. ~Changes(Waiting, c)
  BY DEF Changes, Waiting
<1>. QED
  BY <1>1, <1>2 DEF Settled, Changes

\* A transaction ends its request, and changes rows of a configuration the
\* request had read, or new rows.
LEMMA CommitSettles ==
    ASSUME Inv, Owned, NEW r \in Requests, Commit(r)
    PROVE  /\ Owned' /\ End(r) /\ used \subseteq used'
           /\ \A c \in Configs : Settled(c) /\ c \in live' => Keeps(c)
<1>. DEFINE q == request[r]
            Goal == /\ Owned' /\ End(r) /\ used \subseteq used'
                    /\ \A c \in Configs : Settled(c) /\ c \in live' => Keeps(c)
<1>1. ASSUME End(r)
      PROVE  /\ request' = [s \in Requests |-> request'[s]]
             /\ \A s \in Requests : request'[s] = request[s] \/ request'[s] = Waiting
             /\ Waiting.at = "new"
  BY <1>1 DEF Owned, End, Waiting
<1>2. ASSUME Fail(r) PROVE Goal
  <2>1. UNCHANGED <<live, used, rules, owner, version, made>> /\ End(r)
    BY <1>2 DEF Fail, tables
  <2>. QED
    BY <1>1, <2>1 DEF Owned, Keeps
<1>3. ASSUME NEW c0 \in Configs, CreateConfiguration(r, c0) PROVE Goal
  <2>1. /\ End(r) /\ c0 \notin made /\ made' = made \cup {c0} /\ live' = live \cup {c0}
        /\ rules' = [rules EXCEPT ![c0] = 0] /\ used' = used
        /\ owner' = owner /\ version' = version
    BY <1>3 DEF CreateConfiguration, Insert
  <2>. QED
    BY <1>1, <2>1 DEF Owned, Keeps, Settled
<1>4. ASSUME NEW c0 \in Configs, WriteClone(r, c0) PROVE Goal
  <2>1. PICK C \in SUBSET (Peripherals \ made) :
          /\ made' = made \cup {c0} \cup C
          /\ owner' = [p \in Peripherals |-> IF p \in C THEN c0 ELSE owner[p]]
          /\ \A p \in Peripherals \ C : version'[p] = version[p]
          /\ version' = [p \in Peripherals |-> version'[p]]
    BY <1>4 DEF WriteClone
  <2>2. /\ End(r) /\ c0 \notin made /\ live' = live \cup {c0} /\ used' = used
        /\ rules' = [rules EXCEPT ![c0] = q.with]
    BY <1>4 DEF WriteClone, Insert
  <2>3. \A p \in C : p \notin made /\ owner[p] = None
    BY <2>1 DEF Owned
  <2>4. Owned'
    BY <1>1, <2>1, <2>2, <2>3 DEF Owned
  <2>5. \A c \in Configs : Settled(c) => Keeps(c)
    BY <2>1, <2>2, <2>3, ConfigsAssumption DEF Owned, Settled, Keeps
  <2>. QED
    BY <2>2, <2>4, <2>5
<1>5. ASSUME CommitPatch(r) PROVE Goal
  <2>1. CASE ~(q.config \in live /\ Index(ActiveAfter(q)))
    BY <1>2, <1>5, <2>1 DEF CommitPatch
  <2>2. CASE q.config \in live /\ Index(ActiveAfter(q))
    <3>1. /\ q.at = "patch" /\ End(r)
          /\ used' = used \cup Stamp(q.config, ActiveAfter(q))
          /\ UNCHANGED <<live, owner, version, made>>
          /\ rules' = rules \/ (q.with.patch.rules
                                 /\ rules' = [rules EXCEPT ![q.config] = edits'])
      BY <1>5, <2>2 DEF CommitPatch
    <3>2. used' \subseteq made
      BY <2>2, <3>1 DEF Stamp, Owned
    <3>3. Owned'
      BY <1>1, <3>1, <3>2 DEF Owned
    <3>4. ASSUME NEW c \in Configs, Settled(c) PROVE Keeps(c)
      BY <3>1, <3>4 DEF Owned, Settled, Changes, Keeps
    <3>. QED
      BY <3>1, <3>3, <3>4
  <2>. QED
    BY <2>1, <2>2
<1>6. ASSUME NEW p \in Peripherals, CommitAdd(r, p) PROVE Goal
  <2>1. CASE q.config \notin live
    BY <1>2, <1>6, <2>1 DEF CommitAdd
  <2>2. CASE q.config \in live
    <3>1. /\ q.at = "add" /\ End(r) /\ p \notin made /\ made' = made \cup {p}
          /\ owner' = [x \in Peripherals |-> IF x = p THEN q.config ELSE owner[x]]
          /\ version' = [x \in Peripherals |-> IF x = p THEN edits + 1 ELSE version[x]]
          /\ UNCHANGED <<live, used, rules>>
      BY <1>6, <2>2 DEF CommitAdd, Owned
    <3>2. owner[p] = None
      BY <3>1 DEF Owned
    <3>3. Owned'
      BY <1>1, <2>2, <3>1, <3>2 DEF Owned
    <3>4. ASSUME NEW c \in Configs, Settled(c) PROVE Keeps(c)
      BY <3>1, <3>2, <3>4, ConfigsAssumption DEF Owned, Settled, Changes, Keeps
    <3>. QED
      BY <3>1, <3>3, <3>4
  <2>. QED
    BY <2>1, <2>2
<1>7. ASSUME CommitChange(r) PROVE Goal
  <2>1. CASE owner[q.with] = None
    BY <1>2, <1>7, <2>1 DEF CommitChange
  <2>2. CASE owner[q.with] # None
    <3>1. /\ q.at = "change" /\ End(r)
          /\ version' = [version EXCEPT ![q.with] = edits + 1]
          /\ UNCHANGED <<live, used, rules, owner, made>>
      BY <1>7, <2>2 DEF CommitChange
    <3>2. Owned'
      BY <1>1, <3>1 DEF Owned
    <3>3. owner[q.with] = q.config
      BY <2>2, <3>1 DEF Owned
    <3>4. ASSUME NEW c \in Configs, Settled(c) PROVE Keeps(c)
      BY <3>1, <3>3, <3>4 DEF Owned, Settled, Changes, Keeps
    <3>. QED
      BY <3>1, <3>2, <3>4
  <2>. QED
    BY <2>1, <2>2
<1>8. ASSUME CommitRemove(r) PROVE Goal
  <2>1. /\ q.at = "remove" /\ End(r) /\ UNCHANGED <<live, used, rules, made>>
        /\ owner' = [p \in Peripherals |-> IF p = q.with THEN None ELSE owner[p]]
        /\ version' = [p \in Peripherals |-> IF p = q.with THEN 0 ELSE version[p]]
    BY <1>8 DEF CommitRemove, DeleteParts
  <2>2. owner[q.with] \in {None, q.config}
    BY <2>1 DEF Owned
  <2>3. Owned'
    BY <1>1, <2>1 DEF Owned
  <2>4. ASSUME NEW c \in Configs, Settled(c) PROVE Keeps(c)
    <3>1. q.config # c
      BY <2>1, <2>4 DEF Settled, Changes
    <3>. QED
      BY <2>1, <2>2, <3>1, ConfigsAssumption DEF Keeps
  <2>. QED
    BY <2>1, <2>3, <2>4
<1>9. ASSUME CommitDelete(r) PROVE Goal
  <2>1. /\ End(r) /\ live' = live \ {q.config} /\ UNCHANGED <<used, made>>
        /\ rules' = [rules EXCEPT ![q.config] = 0]
        /\ owner' = [p \in Peripherals |-> IF owner[p] = q.config THEN None ELSE owner[p]]
        /\ version' = [p \in Peripherals |-> IF owner[p] = q.config THEN 0 ELSE version[p]]
    BY <1>9 DEF CommitDelete, DeleteParts, Parts
  <2>2. Owned'
    BY <1>1, <2>1 DEF Owned
  <2>3. ASSUME NEW c \in Configs, c \in live' PROVE Keeps(c)
    BY <2>1, <2>3, ConfigsAssumption DEF Owned, Keeps
  <2>. QED
    BY <2>1, <2>2, <2>3
<1>. QED
  BY <1>3, <1>4, <1>5, <1>6, <1>7, <1>8, <1>9 DEF Commit

\* Whatever is used is left alone from the moment the requests that read it
\* before are over: later ones refuse to change it, and no id is used twice.
THEOREM UsedSettles == Spec => SettledStays
<1>. DEFINE Stays == \A c \in Configs : Settled(c) /\ c \in live' =>
                        Settled(c)' /\ Setup(c)' = Setup(c)
<1>1. Init => Inv /\ Owned
  BY DEF Init, Inv, OneActive, Owned, Waiting
<1>2. ASSUME Inv, Owned, [Next]_vars PROVE Inv' /\ Owned' /\ [Stays]_vars
  <2>1. Inv'
    BY <1>2, Step
  <2>2. ASSUME NEW r \in Requests, Read(r) PROVE Owned' /\ Stays
    BY <1>2, <2>2, ReadSettles, KeepsSetup
  <2>3. ASSUME NEW r \in Requests, Commit(r) PROVE Owned' /\ Stays
    <3>1. /\ Owned' /\ End(r) /\ used \subseteq used'
          /\ \A c \in Configs : Settled(c) /\ c \in live' => Keeps(c)
      BY <1>2, <2>3, CommitSettles
    <3>2. \A c \in Configs : Settled(c) /\ c \in live' => Settled(c)'
      BY <1>2, <3>1, EndSettles
    <3>. QED
      BY <3>1, <3>2, KeepsSetup
  <2>4. CASE UNCHANGED vars
    <3>1. UNCHANGED <<live, used, rules, owner, version, made, request>>
      BY <2>4 DEF vars, tables
    <3>2. Owned'
      BY <1>2, <3>1 DEF Owned
    <3>. QED
      BY <2>1, <2>4, <3>2
  <2>. QED
    BY <1>2, <2>1, <2>2, <2>3, <2>4 DEF Next
<1>. QED
  BY <1>1, <1>2, PTL DEF Spec, SettledStays

-----------------------------------------------------------------------------

\* The numbers of edits are those of edits that were made, and a request that
\* clones holds on to one of them.
Numbers ==
    /\ made \subseteq Configs \cup Peripherals
    /\ rules \in [Configs -> 0..MaxEdits] /\ version \in [Peripherals -> 0..MaxEdits]
    /\ edits \in 0..MaxEdits
    /\ \A r \in Requests : /\ request[r].config \in Configs \cup {None}
                           /\ request[r].at = "clone" => request[r].with \in 0..MaxEdits

LEMMA EndNumbers ==
    ASSUME Owned, Numbers, NEW r \in Requests, End(r)
    PROVE  \A s \in Requests : /\ request'[s].config \in Configs \cup {None}
                               /\ request'[s].at = "clone" => request'[s].with \in 0..MaxEdits
<1>1. \A s \in Requests : request'[s] = request[s] \/ request'[s] = Waiting
  BY DEF Owned, End
<1>2. Waiting.at = "new" /\ Waiting.config = None
  BY DEF Waiting
<1>. QED
  BY <1>1, <1>2 DEF Numbers

LEMMA ReadNumbers ==
    ASSUME Owned, Numbers, NEW r \in Requests, Read(r)
    PROVE  Numbers'
<1>1. ASSUME NEW at, NEW c \in Configs, NEW with, Hold(r, at, c, with),
             at = "clone" => with \in 0..MaxEdits
      PROVE  Numbers'
  <2>1. \A s \in Requests : request'[s] = IF s = r THEN [at |-> at, config |-> c, with |-> with]
                                          ELSE request[s]
    BY <1>1 DEF Hold, Owned
  <2>2. UNCHANGED <<made, rules, version, edits>>
    BY <1>1 DEF Hold, tables
  <2>. QED
    BY <1>1, <2>1, <2>2 DEF Numbers
<1>2. ASSUME NEW c \in Configs, ReadSource(r, c) PROVE Numbers'
  <2>1. rules[c] \in 0..MaxEdits
    BY DEF Numbers
  <2>. QED
    BY <1>1, <1>2, <2>1 DEF ReadSource
<1>3. ASSUME NEW c \in Configs, NEW patch, ReadForPatch(r, c, patch) PROVE Numbers'
  BY <1>1, <1>3 DEF ReadForPatch
<1>4. ASSUME NEW c \in Configs, NEW kind \in {"add", "change", "remove"}, NEW p,
             ReadForEdit(r, c, kind, p)
      PROVE  Numbers'
  BY <1>1, <1>4 DEF ReadForEdit, ReadForEditIf
<1>5. ASSUME NEW c \in Configs, ReadForDelete(r, c) PROVE Numbers'
  BY <1>1, <1>5 DEF ReadForDelete
<1>. QED
  BY <1>2, <1>3, <1>4, <1>5 DEF Read

\* A clone has the numbers of its source.
LEMMA CommitNumbers ==
    ASSUME Owned, Numbers, NEW r \in Requests, Commit(r)
    PROVE  Numbers'
<1>0. 0 \in 0..MaxEdits /\ \A e \in 0..MaxEdits : e < MaxEdits => e + 1 \in 0..MaxEdits
  BY EditsAssumption
<1>1. ASSUME End(r), made' \subseteq Configs \cup Peripherals,
             rules' \in [Configs -> 0..MaxEdits], version' \in [Peripherals -> 0..MaxEdits],
             edits' \in 0..MaxEdits
      PROVE  Numbers'
  BY <1>1, EndNumbers DEF Numbers
<1>2. CASE Fail(r)
  BY <1>1, <1>2 DEF Fail, tables, Numbers
<1>3. ASSUME NEW c \in Configs, CreateConfiguration(r, c) PROVE Numbers'
  <2>1. /\ End(r) /\ made' = made \cup {c} /\ rules' = [rules EXCEPT ![c] = 0]
        /\ version' = version /\ edits' = edits
    BY <1>3 DEF CreateConfiguration, Insert
  <2>. QED
    BY <1>0, <1>1, <2>1 DEF Numbers
<1>4. ASSUME NEW c \in Configs, WriteClone(r, c) PROVE Numbers'
  <2>. DEFINE parts == Parts(request[r].config)
  <2>1. PICK copy \in [parts -> Peripherals \ made] :
           LET copies == {copy[p] : p \in parts}
               original(q) == CHOOSE p \in parts : copy[p] = q
           IN /\ made' = made \cup {c} \cup copies
              /\ version' = [q \in Peripherals |->
                                IF q \in copies THEN version[original(q)] ELSE version[q]]
    BY <1>4 DEF WriteClone
  <2>2. parts \subseteq Peripherals
    BY DEF Parts
  <2>3. ASSUME NEW q \in {copy[p] : p \in parts}
        PROVE  version[CHOOSE p \in parts : copy[p] = q] \in 0..MaxEdits
    <3>1. \E p \in parts : copy[p] = q
      OBVIOUS
    <3>2. (CHOOSE p \in parts : copy[p] = q) \in parts
      BY <3>1
    <3>. QED
      BY <2>2, <3>2 DEF Numbers
  <2>4. version' \in [Peripherals -> 0..MaxEdits]
    BY <2>1, <2>3 DEF Numbers
  <2>5. made' \subseteq Configs \cup Peripherals
    BY <2>1 DEF Numbers
  <2>6. End(r) /\ rules' = [rules EXCEPT ![c] = request[r].with] /\ edits' = edits
        /\ request[r].with \in 0..MaxEdits
    BY <1>4 DEF WriteClone, Insert, Numbers
  <2>7. rules' \in [Configs -> 0..MaxEdits] /\ edits' \in 0..MaxEdits
    BY <2>6 DEF Numbers
  <2>. QED
    BY <1>1, <2>4, <2>5, <2>6, <2>7
<1>5. CASE CommitPatch(r)
  <2>1. CASE ~(request[r].config \in live /\ Index(ActiveAfter(request[r])))
    BY <1>2, <1>5, <2>1 DEF CommitPatch
  <2>2. CASE request[r].config \in live /\ Index(ActiveAfter(request[r]))
    <3>1. /\ End(r) /\ UNCHANGED <<made, version>>
          /\ \/ UNCHANGED <<rules, edits>>
             \/ /\ edits < MaxEdits /\ edits' = edits + 1
                /\ rules' = [rules EXCEPT ![request[r].config] = edits']
      BY <1>5, <2>2 DEF CommitPatch
    <3>2. edits' \in 0..MaxEdits
      BY <1>0, <3>1 DEF Numbers
    <3>3. rules' \in [Configs -> 0..MaxEdits]
      BY <3>1, <3>2 DEF Numbers
    <3>. QED
      BY <1>1, <3>1, <3>2, <3>3 DEF Numbers
  <2>. QED
    BY <2>1, <2>2
<1>6. ASSUME NEW p \in Peripherals, edits < MaxEdits, edits' = edits + 1, End(r),
             version' = [version EXCEPT ![p] = edits + 1], rules' = rules,
             made' \subseteq made \cup {p}
      PROVE  Numbers'
  <2>1. edits + 1 \in 0..MaxEdits
    BY <1>0, <1>6 DEF Numbers
  <2>. QED
    BY <1>1, <1>6, <2>1 DEF Numbers
<1>7. ASSUME NEW p \in Peripherals, CommitAdd(r, p) PROVE Numbers'
  BY <1>2, <1>6, <1>7 DEF CommitAdd
<1>8. CASE CommitChange(r)
  <2>1. request[r].with \in Peripherals
    BY <1>8 DEF CommitChange, Owned
  <2>2. CASE owner[request[r].with] # None
    <3>1. /\ edits < MaxEdits /\ edits' = edits + 1 /\ End(r)
          /\ version' = [version EXCEPT ![request[r].with] = edits + 1]
          /\ UNCHANGED <<rules, made>>
      BY <1>8, <2>2 DEF CommitChange
    <3>2. made' \subseteq made \cup {request[r].with} /\ rules' = rules
      BY <3>1
    <3>. PICK p : p = request[r].with
      OBVIOUS
    <3>3. p \in Peripherals /\ version' = [version EXCEPT ![p] = edits + 1]
      BY <2>1, <3>1
    <3>. QED
      BY <1>6, <3>1, <3>2, <3>3
  <2>3. CASE owner[request[r].with] = None
    <3>1. Fail(r)
      BY <1>8, <2>3 DEF CommitChange
    <3>. QED
      BY <1>2, <3>1
  <2>. QED
    BY <2>2, <2>3
<1>9. ASSUME NEW S, DeleteParts(S) PROVE version' \in [Peripherals -> 0..MaxEdits]
  BY <1>0, <1>9 DEF DeleteParts, Numbers
<1>10. CASE CommitRemove(r)
  BY <1>1, <1>9, <1>10 DEF CommitRemove, Numbers
<1>11. CASE CommitDelete(r)
  <2>1. rules' \in [Configs -> 0..MaxEdits]
    <3>1. rules' = [rules EXCEPT ![request[r].config] = 0]
      BY <1>11 DEF CommitDelete
    <3>. QED
      BY <1>0, <3>1 DEF Numbers
  <2>2. version' \in [Peripherals -> 0..MaxEdits]
    BY <1>9, <1>11 DEF CommitDelete
  <2>3. End(r) /\ UNCHANGED <<made, edits>>
    BY <1>11 DEF CommitDelete
  <2>. QED
    BY <1>1, <2>1, <2>2, <2>3 DEF Numbers
<1>. QED
  BY <1>3, <1>4, <1>5, <1>7, <1>8, <1>10, <1>11 DEF Commit

\* The tables keep the shape of the schema: a peripheral is one of a
\* configuration that is there, though requests decide on what they read
\* before, and what is active is there and has been stamped.
THEOREM TablesKeepShape == Spec => []TypeOK
<1>. DEFINE All == Inv /\ Owned /\ Numbers
<1>1. Init => All
  <2>. SUFFICES ASSUME Init PROVE Owned /\ Numbers
    BY Start
  <2>1. 0 \in 0..MaxEdits
    BY EditsAssumption
  <2>. QED
    BY <2>1 DEF Init, Owned, Numbers, Waiting
<1>2. All /\ [Next]_vars => All'
  <2>. SUFFICES ASSUME Inv, Owned, Numbers, [Next]_vars PROVE All'
    OBVIOUS
  <2>1. CASE UNCHANGED vars
    <3>1. UNCHANGED <<live, active, used, rules, owner, version, made, edits, request>>
      BY <2>1 DEF vars, tables
    <3>. QED
      BY <3>1 DEF Inv, OneActive, Owned, Numbers
  <2>2. Inv'
    BY Step
  <2>. QED
    BY <2>1, <2>2, ReadSettles, ReadNumbers, CommitSettles, CommitNumbers DEF Next
<1>3. All => TypeOK
  <2>. SUFFICES ASSUME Inv, Owned, Numbers PROVE TypeOK
    OBVIOUS
  <2>1. owner \in [Peripherals -> live \cup {None}]
    BY DEF Owned
  <2>2. used \subseteq Configs
    BY DEF Inv, Owned
  <2>. QED
    BY <2>1, <2>2 DEF Inv, Owned, Numbers, TypeOK
<1>. QED
  BY <1>1, <1>2, <1>3, PTL DEF Spec
=============================================================================
