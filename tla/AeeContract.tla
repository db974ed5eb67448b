---------------------------- MODULE AeeContract ----------------------------
(***************************************************************************)
(* What an admitted pass promises, whoever assembles the statement: a run  *)
(* is trusted only once it is over, only if nothing disturbed it while it  *)
(* was under way, and only if what it failed to observe is within what was *)
(* allowed it when it ended. AeeRun is shown to implement it.              *)
(***************************************************************************)
EXTENDS Integers

CONSTANTS
  Run,
  DropBound         \* what a run may be allowed to lose: {}, or a bound

VARIABLES
  disturbed,        \* runs in which something was intercepted or went wrong
  lost,             \* lost[r]: how many observations r failed to record
  allowed,          \* allowed[r]: {} or the bound that r was ended with
  over,             \* runs that have ended
  trusted           \* runs a consumer relies on

vars == <<disturbed, lost, allowed, over, trusted>>

Init ==
  /\ disturbed = {} /\ over = {} /\ trusted = {}
  /\ lost = [r \in Run |-> 0]
  /\ allowed = [r \in Run |-> {}]

Disturb(r) == /\ r \notin over
              /\ disturbed' = disturbed \cup {r}
              /\ UNCHANGED <<lost, allowed, over, trusted>>

Lose(r)    == /\ r \notin over
              /\ lost' = [lost EXCEPT ![r] = @ + 1]
              /\ UNCHANGED <<disturbed, allowed, over, trusted>>

End(r, bound) ==
  /\ r \notin over
  /\ over' = over \cup {r}
  /\ allowed' = [allowed EXCEPT ![r] = bound]
  /\ UNCHANGED <<disturbed, lost, trusted>>

Trust(r)   == /\ r \in over \ disturbed
              /\ lost[r] = 0 \/ \E b \in allowed[r] : lost[r] <= b
              /\ trusted' = trusted \cup {r}
              /\ UNCHANGED <<disturbed, lost, allowed, over>>

Next ==
  \E r \in Run :
    \/ Disturb(r) \/ Lose(r) \/ Trust(r)
    \/ \E bound \in DropBound : End(r, bound)

Spec == Init /\ [][Next]_vars

=============================================================================
