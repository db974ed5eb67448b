--------------------------- MODULE SingleInstance ---------------------------
(***************************************************************************)
(* What a single-instance lock promises: one process at a time, a refusal  *)
(* for whoever comes while it is held, and never a queue. LockFile is      *)
(* shown to implement it, and the forcing campaign is built on it.         *)
(***************************************************************************)
CONSTANT Process

VARIABLES
  holder,           \* the process that holds the lock, if any
  refused           \* the processes on their way out because another holds it

vars == <<holder, refused>>

Init == holder = {} /\ refused = {}

Take(p)   == /\ holder = {} /\ p \notin refused
             /\ holder' = {p}
             /\ UNCHANGED refused

Refuse(p) == /\ holder # {} /\ p \notin holder \cup refused
             /\ refused' = refused \cup {p}
             /\ UNCHANGED holder

\* A process leaves or dies, whether it held the lock or was refused.
Leave(p)  == /\ p \in holder \cup refused
             /\ holder' = holder \ {p} /\ refused' = refused \ {p}

Next == \E p \in Process : Take(p) \/ Refuse(p) \/ Leave(p)

Spec == Init /\ [][Next]_vars

=============================================================================
