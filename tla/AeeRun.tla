------------------------------- MODULE AeeRun -------------------------------
(***************************************************************************)
(* Runs observed by a substrate, the statements a producer assembles from  *)
(* what the substrate signed, and a consumer that holds the substrate's    *)
(* key. The substrate and the two parties are outside the repository: the  *)
(* substrate signs the records of AeeRecords, the producer may hand in     *)
(* any statement at all except that it cannot sign as the substrate, and   *)
(* the consumer decides by Verify. A run is known by its run binding.      *)
(***************************************************************************)
EXTENDS AeeResult, AeeRecords

CONSTANTS
  Run,              \* the runs, each its binding
  Attack,           \* the attacks the corpus declares
  Value,            \* the values an interception can commit to
  Statement,        \* the statements a producer may hand in, decoded
  Policy,           \* the policies a consumer may decide under
  SubstrateKey,     \* the substrate's observation key
  DropBound,        \* the bounds a seal may state on them, {} for none
  MaxDrops          \* bound on the observations one run fails to record

ASSUME StatementAssumption == \A s \in Statement : Decoded(s)

\* A consumer of this substrate trusts no other observation key.
ASSUME PolicyAssumption == \A p \in Policy : p.keys \subseteq {SubstrateKey}

ASSUME DropsAssumption == MaxDrops \in Nat /\ DropBound \subseteq SUBSET Int

\* The posture a run binding names is the one the substrate starts in.
ASSUME PostureAssumption == \A r \in Run : r.networkPosture.digest = "pinned"

VARIABLES
  run,              \* run[r]: the substrate's own state for run r
  signed,           \* the leaves the substrate has signed
  decision,         \* {} or the consumer's decision: statement and report
  relied            \* the runs the consumer relies on: an admitted pass

vars == <<run, signed, decision, relied>>

Fresh ==
  [ phase    |-> "ready",             \* then "open", then "sealed"
    posture  |-> "pinned",            \* "drifted" once the posture changes
    armed    |-> FALSE,               \* the vantage observes
    drops    |-> 0,                   \* observations it failed to record
    bound    |-> {},                  \* the bound on them that its seal states
    seen     |-> {},                  \* the leaves of its observations
    named    |-> {},                  \* attacks it could name in time
    declared |-> {} ]                 \* attacks it declared when it armed

Init ==
  /\ run = [r \in Run |-> Fresh]
  /\ signed = {}
  /\ decision = {}
  /\ relied = {}

----------------------------------------------------------------------------
(* The substrate *)

Sign(payload) == signed' = signed \cup {PayloadLeaf(payload)}

Arm(r, attacks) ==
  /\ run[r].phase = "ready"
  /\ run' = [run EXCEPT ![r].phase = "open", ![r].armed = TRUE,
                        ![r].declared = attacks]
  /\ Sign(ArmingPayload(r, run[r].posture, attacks))
  /\ UNCHANGED <<decision, relied>>

Watching(r) == run[r].phase = "open" /\ run[r].armed

\* An attempt is intercepted; the substrate can name its attack, or cannot.
Intercept(r, value, attacks) ==
  LET payload == InterceptionPayload(r, value) IN
  /\ Watching(r)
  /\ run' = [run EXCEPT ![r].seen  = @ \cup {PayloadLeaf(payload)},
                        ![r].named = @ \cup attacks]
  /\ Sign(payload)
  /\ UNCHANGED <<decision, relied>>

Examine(r) ==
  LET payload == ExaminationPayload(r) IN
  /\ run[r].phase = "open"
  /\ run' = [run EXCEPT ![r].seen = @ \cup {PayloadLeaf(payload)}]
  /\ Sign(payload)
  /\ UNCHANGED <<decision, relied>>

\* An observation is lost, the vantage goes down, or the posture drifts.
Disturb(r) ==
  /\ run[r].phase = "open"
  /\ \/ run[r].drops < MaxDrops /\ run' = [run EXCEPT ![r].drops = @ + 1]
     \/ run' = [run EXCEPT ![r].armed = FALSE]
     \/ run' = [run EXCEPT ![r].posture = "drifted"]
  /\ UNCHANGED <<signed, decision, relied>>

\* The one seal of a run, over everything signed in it. It says how much was
\* lost, and may say how much it allows.
SealOf(r, bound) ==
  SealedPayload(r, run[r].posture, run[r].armed, run[r].drops, bound,
                run[r].seen, run[r].named)

Seal(r, bound) ==
  /\ run[r].phase = "open"
  /\ run' = [run EXCEPT ![r].phase = "sealed", ![r].bound = bound]
  /\ Sign(SealOf(r, bound))
  /\ UNCHANGED <<decision, relied>>

----------------------------------------------------------------------------
(* Producer and consumer *)

\* What the producer cannot do is sign as the substrate.
Genuine(s) ==
  \A i \in DOMAIN s.records :
    SubstrateKey \in s.records[i].signedBy => Leaf(s.records[i]) \in signed

Submit(s, policy) ==
  /\ decision = {}
  /\ Genuine(s)
  /\ decision' = {[statement |-> s, report |-> Verify(s, policy)]}
  /\ relied' = relied \cup
       {r \in {RunBinding(s)} : Verify(s, policy).admitted /\ s.result = "pass"}
  /\ UNCHANGED <<run, signed>>

Forget ==
  /\ decision # {}
  /\ decision' = {}
  /\ UNCHANGED <<run, signed, relied>>

----------------------------------------------------------------------------
Next ==
  \/ \E r \in Run :
       \/ \E attacks \in SUBSET Attack : Arm(r, attacks)
       \/ \E value \in Value, attacks \in {{}} \cup {{a} : a \in Attack} :
            Intercept(r, value, attacks)
       \/ Examine(r)
       \/ Disturb(r)
       \/ \E bound \in DropBound : Seal(r, bound)
  \/ \E s \in Statement, policy \in Policy : Submit(s, policy)
  \/ Forget

Spec == Init /\ [][Next]_vars

----------------------------------------------------------------------------
(* Properties *)

RunState ==
  [ phase : {"ready", "open", "sealed"}, posture : {"pinned", "drifted"},
    armed : BOOLEAN, drops : 0..MaxDrops, bound : SUBSET Int, seen : SUBSET signed,
    named : SUBSET Attack, declared : SUBSET Attack ]

\* The state is well typed, and a substrate has signed what it has seen.
TypeOK ==
  /\ run \in [Run -> RunState]
  /\ \A d, e \in decision : d = e
  /\ relied \subseteq Run

IsClaimOf(leaf, r, kind) ==
  leaf.payload.kind = kind /\ leaf.payload.runBinding = {r}

\* Every observation the substrate signed in a run is in the seen set, and a
\* seal it signed says what the run, now over, came to.
SealsTellTheRun ==
  \A r \in Run, leaf \in signed :
    /\ IsClaimOf(leaf, r, "interception") \/ IsClaimOf(leaf, r, "examination")
         => leaf \in run[r].seen
    /\ IsClaimOf(leaf, r, "sealed")
         => run[r].phase = "sealed" /\ leaf.payload = SealOf(r, run[r].bound)

\* Something was intercepted in the run, or it lost its vantage or its posture.
Disturbed(r) ==
  \/ \E leaf \in run[r].seen : leaf.payload.kind = "interception"
  \/ run[r].phase # "ready" /\ ~run[r].armed
  \/ run[r].posture = "drifted"

\* The run lost nothing, or no more than the bound it was sealed with allows.
WithinBound(r) ==
  run[r].drops = 0 \/ \E b \in run[r].bound : run[r].drops <= b

\* A consumer relies on a run only when it is over, nothing was intercepted in
\* it, it kept its vantage and its posture, and it lost no more than the
\* substrate's own seal allows, whatever the producer left out of the statement,
\* added to it or took from another run.
PassMeansQuietRun ==
  \A r \in relied : run[r].phase = "sealed" /\ ~Disturbed(r) /\ WithinBound(r)

\* The runs and the consumer together implement the abstract promise.
Contract == INSTANCE AeeContract WITH
  disturbed <- {r \in Run : Disturbed(r)},
  lost      <- [r \in Run |-> run[r].drops],
  allowed   <- [r \in Run |-> run[r].bound],
  over      <- {r \in Run : run[r].phase = "sealed"},
  trusted   <- relied

ImplementsContract == Contract!Spec

Admitted == {d \in decision : d.report.admitted}

\* A clean row taken from the vantage, in a statement the consumer admits,
\* obliges the statement to carry every observation of the run and to report
\* caught every attack the substrate named, though none of those records need
\* verify under the consumer's keys.
CleanRowCarriesTheRun ==
  \A d \in Admitted :
    LET s == d.statement
        r == RunBinding(s)
    IN  (\E i \in DOMAIN s.rows :
           /\ IsSubstrate(s.rows[i]) /\ s.rows[i].method = "intercepted"
           /\ ~IsCaughtLabel(s, s.rows[i].label))
        => /\ r \in Run /\ run[r].phase = "sealed"
           /\ run[r].seen = ObservedLeaves(s)
           /\ \A a \in run[r].named :
                \E i \in DOMAIN s.rows :
                  s.rows[i].attackId = a /\ IsCaughtLabel(s, s.rows[i].label)

\* No clean row stands for an attack the substrate did not declare it was armed
\* for before the run.
CleanRowWasArmedFor ==
  \A d \in Admitted :
    LET s == d.statement IN
    \A i \in DOMAIN s.rows :
      (/\ IsSubstrate(s.rows[i]) /\ s.rows[i].method = "intercepted"
       /\ ~IsCaughtLabel(s, s.rows[i].label))
      => s.rows[i].attackId \in run[RunBinding(s)].declared

=============================================================================
