--------------------------- MODULE RequestService ---------------------------
(***************************************************************************)
(* What the node promises to whoever writes to its stdin, without threads, *)
(* queue or locks: requests are accepted while the node is open, each is   *)
(* finished at most once, in any order, and the node reports a clean       *)
(* shutdown only when no accepted request is left.  The process may abort  *)
(* at any time before that.                                                *)
(***************************************************************************)
EXTENDS Naturals

CONSTANT Requests

VARIABLES
    phase,      \* "open", "closing", "closed" or "crashed"
    pending,    \* accepted requests
    done        \* finished requests

vars == <<phase, pending, done>>

Init ==
    /\ phase = "open"
    /\ pending = {}
    /\ done = {}

Accept(r) ==
    /\ phase = "open"
    /\ r \notin pending \cup done
    /\ pending' = pending \cup {r}
    /\ UNCHANGED <<phase, done>>

Finish(r) ==
    /\ phase \in {"open", "closing"}
    /\ r \in pending
    /\ pending' = pending \ {r}
    /\ done' = done \cup {r}
    /\ UNCHANGED phase

Close ==
    /\ phase = "open"
    /\ phase' = "closing"
    /\ UNCHANGED <<pending, done>>

Return ==
    /\ phase = "closing"
    /\ pending = {}
    /\ phase' = "closed"
    /\ UNCHANGED <<pending, done>>

Crash ==
    /\ phase \in {"open", "closing"}
    /\ phase' = "crashed"
    /\ UNCHANGED <<pending, done>>

Next ==
    \/ \E r \in Requests : Accept(r) \/ Finish(r)
    \/ Close \/ Return \/ Crash

Spec == Init /\ [][Next]_vars
=============================================================================
