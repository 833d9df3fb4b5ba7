----------------------------- MODULE RpcPromise -----------------------------
(***************************************************************************)
(* What a kit RPC promises its caller, with no driver, table, number or    *)
(* channel: a call ends at most once, and it is answered only when its own *)
(* request reached the kit.  A request may reach the kit after its call    *)
(* has timed out or has been abandoned.  Two things weaken the promise: a  *)
(* kit that answers what it was not asked, and a server that restarts,     *)
(* after which a late answer to an earlier call may be taken for another.  *)
(***************************************************************************)
CONSTANTS Calls,
          Strays      \* kits may answer what they were not asked

VARIABLES status,     \* of each call
          reached,    \* the calls whose request reached the kit
          restarted   \* the server has been restarted

Pending == {c \in Calls : status[c] = "pending"}

Init ==
    /\ status = [c \in Calls |-> "new"]
    /\ reached = {}
    /\ restarted = FALSE

\* The calls in S move to the status s.
Become(S, s) ==
    /\ status' = [c \in Calls |-> IF c \in S THEN s ELSE status[c]]
    /\ UNCHANGED <<reached, restarted>>

Begin(c) == status[c] = "new" /\ Become({c}, "pending")

Reach(c) ==
    /\ status[c] # "new"
    /\ reached' = reached \cup {c}
    /\ UNCHANGED <<status, restarted>>

AnswerCall(c) == c \in Pending \cap reached /\ Become({c}, "answered")
Stray(c) == Strays /\ c \in Pending /\ Become({c}, "strayed")
Cross(c) == restarted /\ c \in Pending /\ Become({c}, "crossed")

\* One step of the system may time out several calls, or abandon them.
GiveUp(S) == Become(S, "timedOut")
Abandon(S) == Become(S, "abandoned")

\* The server forgets every call in progress.
Restart ==
    /\ restarted' = TRUE
    /\ status' = [c \in Calls |-> IF c \in Pending THEN "abandoned" ELSE status[c]]
    /\ UNCHANGED reached

Next ==
    \/ \E c \in Calls : Begin(c) \/ Reach(c) \/ AnswerCall(c) \/ Stray(c) \/ Cross(c)
    \/ \E S \in SUBSET Pending : GiveUp(S) \/ Abandon(S)
    \/ Restart

Spec == Init /\ [][Next]_<<status, reached, restarted>>
=============================================================================
