------------------------------ MODULE LockFile ------------------------------
(***************************************************************************)
(* The lock of scripts/_lockfile.py, system call by system call: a file    *)
(* any process opens, an flock on it that the kernel drops when its holder *)
(* closes the file or dies, and a text in it that names the holder. An     *)
(* open that fails leaves everything as it was. Its names are not those of *)
(* a gate, so that a module may speak of both.                             *)
(***************************************************************************)
CONSTANTS
  Process,          \* the processes that call single_instance
  Nobody            \* the text of an empty lock file

ASSUME NobodyAssumption == Nobody \notin Process

VARIABLES
  stage,            \* where each process is in single_instance
  flock,            \* kernel: the processes that hold the flock
  text              \* the process the file names, or Nobody

lockVars == <<stage, flock, text>>

----------------------------------------------------------------------------
LockInit ==
  /\ stage = [p \in Process |-> "out"]
  /\ flock = {}
  /\ text = Nobody

Proceed(p, from, to) == stage[p] = from /\ stage' = [stage EXCEPT ![p] = to]

Open(p) ==
  /\ Proceed(p, "out", "opened")
  /\ UNCHANGED <<flock, text>>

\* MUTANT of Flock: a shared lock.
FlockShared(p) ==
  /\ Proceed(p, "opened", "locked")
  /\ flock' = flock \cup {p}
  /\ UNCHANGED text

Flock(p) ==
  /\ flock = {}
  /\ Proceed(p, "opened", "locked")
  /\ flock' = {p}
  /\ UNCHANGED text

\* The flock fails because another holds it.
Busy(p) ==
  /\ flock # {}
  /\ Proceed(p, "opened", "busy")
  /\ UNCHANGED <<flock, text>>

\* The refusal names whatever the file holds by now.
ReadHolder(p) ==
  /\ Proceed(p, "busy", "refused")
  /\ UNCHANGED <<flock, text>>

Clear(p) ==
  /\ Proceed(p, "locked", "truncated")
  /\ text' = Nobody
  /\ UNCHANGED flock

WriteName(p) ==
  /\ Proceed(p, "truncated", "inside")
  /\ text' = p
  /\ UNCHANGED flock

\* MUTANT of Close: only a process that came to the yield gives the lock back.
CloseAfterYield(p) ==
  /\ stage[p] # "out"
  /\ stage' = [stage EXCEPT ![p] = "out"]
  /\ flock' = IF stage[p] = "inside" THEN flock \ {p} ELSE flock
  /\ UNCHANGED text

\* The file is closed, by the finally clause of a process that leaves or fails
\* or by the death of the process; the kernel drops its lock and its text stays.
Close(p) ==
  /\ stage[p] # "out"
  /\ stage' = [stage EXCEPT ![p] = "out"]
  /\ flock' = flock \ {p}
  /\ UNCHANGED text

LockNext ==
  \E p \in Process :
    Open(p) \/ Flock(p) \/ Busy(p) \/ ReadHolder(p)
      \/ Clear(p) \/ WriteName(p) \/ Close(p)

LockSpec == LockInit /\ [][LockNext]_lockVars

----------------------------------------------------------------------------
(* Properties *)

Holding == {"locked", "truncated", "inside"}
Refused == {"busy", "refused"}

\* The state is well typed, and the kernel grants the flock to one at a time.
LockTypeOK ==
  /\ stage \in [Process -> {"out", "opened"} \cup Holding \cup Refused]
  /\ flock = {} \/ \E p \in Process : flock = {p}
  /\ text \in Process \cup {Nobody}

\* Seen from the callers' control state alone, the lock file is a
\* single-instance lock: a process is past the lock only when no other is, a
\* refusal has a holder to blame, and no death leaves the lock taken.
Abstract == INSTANCE SingleInstance WITH
  holder  <- {p \in Process : stage[p] \in Holding},
  refused <- {p \in Process : stage[p] \in Refused}

ImplementsSingleInstance == Abstract!Spec

\* The lock never outlives its holder: when nobody is past it, it is free.
NoStaleLock == flock = {p \in Process : stage[p] \in Holding}

\* Nobody overwrites the name of a process that runs under the lock, so that a
\* refusal read while it runs names it.
InsiderIsNamed == \A p \in Process : stage[p] = "inside" => text = p

=============================================================================
