---------------------------- MODULE ActiveSlots ----------------------------
(***************************************************************************)
(* What the configurations of kits promise, with no requests, transactions *)
(* or stale reads: every kit has a slot with at most one configuration of  *)
(* its own, a step changes the slots of one kit only, and what has been in *)
(* a slot counts as used from then on; nothing else does.                  *)
(***************************************************************************)
CONSTANTS Kits, Configs, KitOf

VARIABLES slot,   \* the active configurations of each kit
          used    \* configurations that have been active

Fits(k, S) == S = {} \/ \E c \in Configs : KitOf[c] = k /\ S = {c}

Init == slot = [k \in Kits |-> {}] /\ used = {}

Change(k, S) ==
    /\ Fits(k, S)
    /\ slot' = [slot EXCEPT ![k] = S]
    /\ used' = used \cup S

Next == \E k \in Kits : \E S \in SUBSET Configs : Change(k, S)

Spec == Init /\ [][Next]_<<slot, used>>
=============================================================================
