--------------------------- MODULE AeeRun_proofs ---------------------------
(***************************************************************************)
(* Theorems about runs, producers and consumers, for any number of runs    *)
(* and attacks and any set of statements: a consumer relies on a run only  *)
(* when it is over and nothing disturbed it, the runs and the consumer     *)
(* implement the abstract contract, and the statement an honest producer   *)
(* makes of a run that lost nothing is never refused.                      *)
(*                                                                         *)
(* The argument has two halves. What the substrate has signed tells what   *)
(* the runs came to (an invariant of its own actions). What the gates      *)
(* demand of a statement makes its clean rows rest on a seal it carries;   *)
(* the tier makes that seal one the substrate signed. The converse needs   *)
(* to know all the substrate has signed in a run (RecordsInv), and follows *)
(* the statement made of it through every check of the three gates.        *)
(***************************************************************************)
EXTENDS AeeLiveness, AeeProducer, AeeResult_proofs

----------------------------------------------------------------------------
(* What the builder puts in a payload (aeetest/build.go) *)

LEMMA ArmingFields ==
  ASSUME NEW r, NEW posture, NEW attacks
  PROVE  LET p == ArmingPayload(r, posture, attacks)
         IN  /\ p.kind = "arming" /\ p.runBinding = {r} /\ p.form = "object"
             /\ p.assessed = Ids(attacks)
BY DEF ArmingPayload, BlankPayload

LEMMA InterceptionFields ==
  ASSUME NEW r, NEW value
  PROVE  LET p == InterceptionPayload(r, value)
         IN  p.kind = "interception" /\ p.runBinding = {r}
BY DEF InterceptionPayload, BlankPayload

LEMMA ExaminationFields ==
  ASSUME NEW r
  PROVE  LET p == ExaminationPayload(r)
         IN  p.kind = "examination" /\ p.runBinding = {r}
BY DEF ExaminationPayload, BlankPayload

LEMMA SealFields ==
  ASSUME NEW r, NEW posture, NEW armed, NEW drops, NEW bound, NEW leaves, NEW named
  PROVE  LET p == SealedPayload(r, posture, armed, drops, bound, leaves, named)
         IN  /\ p.kind = "sealed" /\ p.runBinding = {r} /\ p.form = "object"
             /\ p.stillArmed = IF armed THEN "true" ELSE "false"
             /\ p.dropCount = {drops} /\ p.dropBound = bound
             /\ p.posture = posture /\ p.observedSet = {leaves}
             /\ p.observedAttacks = Ids(named)
BY DEF SealedPayload, BlankPayload

LEMMA PayloadLeafFields ==
  ASSUME NEW payload
  PROVE  PayloadLeaf(payload).payload = payload
BY DEF PayloadLeaf

----------------------------------------------------------------------------
(* What the substrate has signed is true of its runs *)

\* The seal of run r in state x.
SealFor(r, x) == SealedPayload(r, x.posture, x.armed, x.drops, x.bound, x.seen, x.named)

\* What a leaf of run r says holds of a state x of the run.
TrueOf(leaf, r, x) ==
  /\ leaf.payload.kind \in {"interception", "examination"} => leaf \in x.seen
  /\ leaf.payload.kind = "sealed" =>
       x.phase = "sealed" /\ leaf.payload = SealFor(r, x)
  /\ leaf.payload.kind = "arming" =>
       /\ x.phase # "ready" /\ leaf.payload.form = "object"
       /\ leaf.payload.assessed = Ids(x.declared)

\* The part of the inductive invariant that the substrate keeps.
SubstrateInv ==
  /\ run \in [Run -> RunState]
  /\ \A leaf \in signed : \E r \in Run : leaf.payload.runBinding = {r}
  /\ \A r \in Run, leaf \in signed :
       leaf.payload.runBinding = {r} => TrueOf(leaf, r, run[r])

\* What a step of run r to state x has to show: the leaves it signs are true of
\* x, and no leaf that was true of the run stops being so.
AllTrue(leaves, r, x) ==
  \A leaf \in leaves : leaf.payload.runBinding = {r} /\ TrueOf(leaf, r, x)

StaysTrue(r, x) ==
  \A leaf \in signed : TrueOf(leaf, r, run[r]) => TrueOf(leaf, r, x)

\* A step of one run preserves it when the leaves it signs are true of the new
\* state and those signed before stay so.
LEMMA OneRunStep ==
  ASSUME SubstrateInv, NEW r \in Run, NEW x, NEW new,
         run' = [run EXCEPT ![r] = x], signed' = signed \cup new,
         x \in RunState',
         AllTrue(new, r, x), StaysTrue(r, x)
  PROVE  SubstrateInv'
<1>1. run'[r] = x /\ \A q \in Run \ {r} : run'[q] = run[q]
  BY DEF SubstrateInv
<1>2. run' \in [Run -> RunState']
  <2>1. \A q \in Run : run[q] \in RunState'
    BY DEF SubstrateInv, RunState
  <2> QED
    BY <2>1 DEF SubstrateInv
<1>3. \A leaf \in signed' : \E q \in Run : leaf.payload.runBinding = {q}
  BY DEF SubstrateInv, AllTrue
<1>4. ASSUME NEW q \in Run, NEW leaf \in signed', leaf.payload.runBinding = {q}
      PROVE  TrueOf(leaf, q, run'[q])
  <2>1. CASE leaf \in new
    <3>1. q = r
      BY <1>4, <2>1 DEF AllTrue
    <3> QED
      BY <1>1, <2>1, <3>1 DEF AllTrue
  <2>2. CASE leaf \in signed
    <3>1. TrueOf(leaf, q, run[q])
      BY <1>4, <2>2 DEF SubstrateInv
    <3> QED
      BY <1>1, <2>2, <3>1 DEF StaysTrue
  <2> QED
    BY <2>1, <2>2
<1> QED
  BY <1>2, <1>3, <1>4 DEF SubstrateInv, TrueOf, SealFor

\* Nothing is signed yet.
LEMMA SubstrateInit == Init => SubstrateInv
BY DropsAssumption DEF Init, SubstrateInv, Fresh, RunState

\* Arming signs the one record that says what the run is armed for.
LEMMA ArmKeeps ==
  ASSUME SubstrateInv, NEW r \in Run, NEW attacks \in SUBSET Attack, Arm(r, attacks)
  PROVE  SubstrateInv'
<1> DEFINE leaf == PayloadLeaf(ArmingPayload(r, run[r].posture, attacks))
           x == [run[r] EXCEPT !.phase = "open", !.armed = TRUE, !.declared = attacks]
<1>1. run[r] \in RunState /\ run[r].phase = "ready"
  BY DEF Arm, SubstrateInv
<1>2. /\ leaf.payload.kind = "arming" /\ leaf.payload.runBinding = {r}
      /\ leaf.payload.assessed = Ids(attacks) /\ leaf.payload.form = "object"
  BY ArmingFields, PayloadLeafFields
<1>3. run' = [run EXCEPT ![r] = x] /\ signed' = signed \cup {leaf}
  BY DEF Arm, Sign
<1>4. x \in RunState'
  BY <1>1, <1>3 DEF RunState
<1>5. x.phase = "open" /\ x.declared = attacks /\ x.seen = run[r].seen
  BY <1>1 DEF RunState
<1> HIDE DEF leaf, x
<1>6. AllTrue({leaf}, r, x)
  BY <1>2, <1>5 DEF AllTrue, TrueOf
<1>7. StaysTrue(r, x)
  BY <1>1, <1>5 DEF StaysTrue, TrueOf
<1> QED
  BY <1>3, <1>4, <1>6, <1>7, OneRunStep

\* Intercept and Examine, alike: a leaf is signed and seen.
LEMMA SeeingKeeps ==
  ASSUME SubstrateInv, NEW r \in Run, NEW leaf, NEW named \in SUBSET Attack,
         run[r].phase = "open",
         leaf.payload.kind \in {"interception", "examination"},
         leaf.payload.runBinding = {r},
         run' = [run EXCEPT ![r] = [run[r] EXCEPT !.seen  = @ \cup {leaf},
                                                  !.named = named]],
         signed' = signed \cup {leaf}
  PROVE  SubstrateInv'
<1> DEFINE x == [run[r] EXCEPT !.seen = @ \cup {leaf}, !.named = named]
<1>1. run[r] \in RunState
  BY DEF SubstrateInv
<1>2. /\ x.seen = run[r].seen \cup {leaf} /\ x.phase = "open"
      /\ x.declared = run[r].declared
  BY <1>1 DEF RunState
<1>3. x \in RunState'
  BY <1>1 DEF RunState
<1>4. run' = [run EXCEPT ![r] = x]
  OBVIOUS
<1> HIDE DEF x
<1>5. AllTrue({leaf}, r, x)
  BY <1>2 DEF AllTrue, TrueOf
<1>6. StaysTrue(r, x)
  BY <1>2 DEF StaysTrue, TrueOf
<1> QED
  BY <1>3, <1>4, <1>5, <1>6, OneRunStep

LEMMA InterceptKeeps ==
  ASSUME SubstrateInv, NEW r \in Run, NEW value \in Value,
         NEW attacks \in SUBSET Attack, Intercept(r, value, attacks)
  PROVE  SubstrateInv'
<1> DEFINE leaf == PayloadLeaf(InterceptionPayload(r, value))
<1>1. leaf.payload.kind = "interception" /\ leaf.payload.runBinding = {r}
  BY InterceptionFields, PayloadLeafFields
<1>2. /\ run[r].phase = "open" /\ signed' = signed \cup {leaf}
      /\ run' = [run EXCEPT ![r] = [run[r] EXCEPT !.seen  = @ \cup {leaf},
                                                  !.named = @ \cup attacks]]
      /\ run[r].named \cup attacks \in SUBSET Attack
  BY DEF Intercept, Watching, Sign, SubstrateInv, RunState
<1> HIDE DEF leaf
<1> QED
  BY <1>1, <1>2, SeeingKeeps

LEMMA ExamineKeeps ==
  ASSUME SubstrateInv, NEW r \in Run, Examine(r)
  PROVE  SubstrateInv'
<1> DEFINE leaf == PayloadLeaf(ExaminationPayload(r))
<1>1. leaf.payload.kind = "examination" /\ leaf.payload.runBinding = {r}
  BY ExaminationFields, PayloadLeafFields
<1>2. run[r].phase = "open" /\ signed' = signed \cup {leaf}
  BY DEF Examine, Sign
<1>3. /\ run' = [run EXCEPT ![r] = [run[r] EXCEPT !.seen  = @ \cup {leaf},
                                                  !.named = run[r].named]]
      /\ run[r].named \in SUBSET Attack
  <2>1. run[r] \in RunState
    BY DEF SubstrateInv
  <2>2. /\ [run[r] EXCEPT !.seen = @ \cup {leaf}]
             = [run[r] EXCEPT !.seen = @ \cup {leaf}, !.named = run[r].named]
        /\ run[r].named \in SUBSET Attack
    BY <2>1 DEF RunState
  <2> QED
    BY <2>2 DEF Examine
<1> HIDE DEF leaf
<1> QED
  BY <1>1, <1>2, <1>3, SeeingKeeps

\* Disturb changes what a seal would say, but the run is not sealed yet.
LEMMA DisturbKeeps ==
  ASSUME SubstrateInv, NEW r \in Run, Disturb(r)
  PROVE  SubstrateInv'
<1>1. run[r] \in RunState /\ run[r].phase = "open" /\ signed' = signed
  BY DEF Disturb, SubstrateInv
<1>2. PICK x : /\ run' = [run EXCEPT ![r] = x] /\ x \in RunState'
               /\ x.phase = "open" /\ x.seen = run[r].seen
               /\ x.declared = run[r].declared
  <2>1. CASE run[r].drops < MaxDrops /\ run' = [run EXCEPT ![r].drops = @ + 1]
    <3> DEFINE x == [run[r] EXCEPT !.drops = @ + 1]
    <3>0. run[r].drops + 1 \in 0..MaxDrops
      BY <1>1, <2>1, DropsAssumption DEF RunState
    <3>1. /\ x \in RunState' /\ x.phase = "open" /\ x.seen = run[r].seen
          /\ x.declared = run[r].declared
      BY <1>1, <3>0 DEF RunState
    <3>2. run' = [run EXCEPT ![r] = x]
      BY <2>1
    <3> QED
      BY <3>1, <3>2
  <2>2. CASE run' = [run EXCEPT ![r].armed = FALSE]
    <3> DEFINE x == [run[r] EXCEPT !.armed = FALSE]
    <3>1. /\ x \in RunState' /\ x.phase = "open" /\ x.seen = run[r].seen
          /\ x.declared = run[r].declared
      BY <1>1 DEF RunState
    <3>2. run' = [run EXCEPT ![r] = x]
      BY <2>2
    <3> QED
      BY <3>1, <3>2
  <2>3. CASE run' = [run EXCEPT ![r].posture = "drifted"]
    <3> DEFINE x == [run[r] EXCEPT !.posture = "drifted"]
    <3>1. /\ x \in RunState' /\ x.phase = "open" /\ x.seen = run[r].seen
          /\ x.declared = run[r].declared
      BY <1>1 DEF RunState
    <3>2. run' = [run EXCEPT ![r] = x]
      BY <2>3
    <3> QED
      BY <3>1, <3>2
  <2> QED
    BY <2>1, <2>2, <2>3 DEF Disturb
<1>3. StaysTrue(r, x)
  BY <1>1, <1>2 DEF StaysTrue, TrueOf
<1>4. AllTrue({}, r, x) /\ signed' = signed \cup {}
  BY <1>1 DEF AllTrue
<1> QED
  BY <1>2, <1>3, <1>4, OneRunStep

\* The seal is made of the state it is about, and nothing changes that any more.
LEMMA SealKeeps ==
  ASSUME SubstrateInv, NEW r \in Run, NEW bound \in DropBound, Seal(r, bound)
  PROVE  SubstrateInv'
<1> DEFINE leaf == PayloadLeaf(SealOf(r, bound))
           x == [run[r] EXCEPT !.phase = "sealed", !.bound = bound]
<1>1. run[r] \in RunState /\ run[r].phase = "open" /\ bound \in SUBSET Int
  BY DropsAssumption DEF Seal, SubstrateInv
<1>2. /\ x \in RunState' /\ x.phase = "sealed" /\ x.seen = run[r].seen
      /\ x.declared = run[r].declared /\ x.posture = run[r].posture
      /\ x.armed = run[r].armed /\ x.drops = run[r].drops /\ x.bound = bound
      /\ x.named = run[r].named
  BY <1>1 DEF Seal, Sign, RunState
<1>3. leaf.payload = SealFor(r, x)
  BY <1>2, PayloadLeafFields DEF SealOf, SealFor
<1>4. leaf.payload.kind = "sealed" /\ leaf.payload.runBinding = {r}
  BY <1>3, SealFields DEF SealFor
<1>5. run' = [run EXCEPT ![r] = x] /\ signed' = signed \cup {leaf}
  BY DEF Seal, Sign
<1> HIDE DEF leaf, x
<1>6. AllTrue({leaf}, r, x)
  BY <1>2, <1>3, <1>4 DEF AllTrue, TrueOf
<1>7. StaysTrue(r, x)
  BY <1>1, <1>2 DEF StaysTrue, TrueOf
<1> QED
  BY <1>2, <1>5, <1>6, <1>7, OneRunStep

\* Only the substrate signs, and every step of it is one of these.
LEMMA SubstrateStep == SubstrateInv /\ [Next]_vars => SubstrateInv'
<1> SUFFICES ASSUME SubstrateInv, [Next]_vars PROVE SubstrateInv'
  OBVIOUS
<1>1. ASSUME UNCHANGED <<run, signed>> PROVE SubstrateInv'
  BY <1>1 DEF SubstrateInv, RunState, TrueOf, SealFor
<1>2. ASSUME NEW value \in Value, NEW r \in Run,
             NEW attacks \in {{}} \cup {{a} : a \in Attack},
             Intercept(r, value, attacks)
      PROVE  SubstrateInv'
  BY <1>2, InterceptKeeps
<1>3. ASSUME NEW s \in Statement, NEW policy \in Policy, Submit(s, policy)
      PROVE  SubstrateInv'
  BY <1>1, <1>3 DEF Submit
<1> QED
  BY <1>1, <1>2, <1>3, ArmKeeps, ExamineKeeps, DisturbKeeps, SealKeeps
     DEF Next, vars, Forget

----------------------------------------------------------------------------
(* What a statement the consumer admits rests on *)

\* A record that covers a row of an admitted statement was signed by the
\* substrate, and so names one of its runs (tier.go, recordVerifies).
LEMMA CoveringWasSigned ==
  ASSUME SubstrateInv, NEW s, Genuine(s), NEW policy \in Policy,
         TierPolicySatisfied(s, DeriveTiers(s, policy)),
         NEW k \in DOMAIN s.rows, IsSubstrate(s.rows[k]),
         NEW i \in Covering(s, s.rows[k]), i \in DOMAIN s.records,
         BindsTo(s.records[i], RunBinding(s))
  PROVE  /\ RunBinding(s) \in Run /\ Leaf(s.records[i]) \in signed
         /\ Leaf(s.records[i]).payload = s.records[i].payload
         /\ TrueOf(Leaf(s.records[i]), RunBinding(s), run[RunBinding(s)])
<1>1. RowTier(s, s.rows[k], policy) = "attested"
  BY DEF TierPolicySatisfied, DeriveTiers
<1>2. RecordVerifies(s.records[i], policy.keys)
  BY <1>1 DEF RowTier
<1>3. SubstrateKey \in s.records[i].signedBy
  BY <1>2, PolicyAssumption DEF RecordVerifies
<1>4. Leaf(s.records[i]) \in signed
  BY <1>3 DEF Genuine
<1>5. Leaf(s.records[i]).payload = s.records[i].payload
  BY DEF Leaf
<1>6. Leaf(s.records[i]).payload.runBinding = {RunBinding(s)}
  BY <1>5 DEF BindsTo
<1>7. RunBinding(s) \in Run
  BY <1>4, <1>6 DEF SubstrateInv
<1> QED
  BY <1>4, <1>5, <1>6, <1>7 DEF SubstrateInv

\* The seal that covers a clean vantage row tells the consumer that the run is
\* over and how it went, and makes the statement carry all of it.
LEMMA CleanRowTellsTheRun ==
  ASSUME SubstrateInv, NEW s, Genuine(s), NEW policy \in Policy,
         Verify(s, policy).admitted,
         NEW k \in DOMAIN s.rows, CleanVantageRow(s, s.rows[k])
  PROVE  LET r == RunBinding(s) IN
         /\ r \in Run /\ run[r].phase = "sealed"
         /\ run[r].armed /\ WithinBound(r) /\ run[r].posture = "pinned"
         /\ run[r].seen = ObservedLeaves(s)
         /\ \A a \in run[r].named : \E i \in DOMAIN s.rows :
              IsCaughtLabel(s, s.rows[i].label) /\ s.rows[i].attackId = a
<1> DEFINE r == RunBinding(s)
           row == s.rows[k]
<1>1. /\ EvaluateCodes(s) = {} /\ Gate1(s) = {}
      /\ TierPolicySatisfied(s, DeriveTiers(s, policy))
  BY AdmittedIsValid, EvaluateSilent
<1>2. IsSubstrate(row) /\ HasSubstrateRows(s)
  BY DEF CleanVantageRow, HasSubstrateRows
<1>3. SubstrateRowCodes(s, row, r) = {} /\ SubstrateCommitmentCodes(s) = {}
  BY <1>1, <1>2, Gate1SilentSubstrate
<1>4. PICK i \in ValidOfKind(s, row, "sealed") :
        /\ i \in Covering(s, row) /\ i \in DOMAIN s.records
        /\ s.records[i].payload.kind = "sealed"
        /\ s.records[i].decodes /\ BindsTo(s.records[i], r)
  BY <1>3, CleanRowIsCovered
<1> DEFINE p == s.records[i].payload
<1>5. /\ r \in Run /\ Leaf(s.records[i]).payload = p
      /\ TrueOf(Leaf(s.records[i]), r, run[r])
  BY <1>1, <1>2, <1>4, CoveringWasSigned
<1>6. run[r].phase = "sealed" /\ p = SealFor(r, run[r])
  BY <1>4, <1>5 DEF TrueOf
<1>7. SealedConstraintsMet(p, s.env.posture.digest, ArmingPostures(s, row),
                           DeclaredAttackIDs(s))
  BY <1>4 DEF ValidOfKind, KindConstraintsMet
<1>8. /\ p.form = "object" /\ p.dropCount = {run[r].drops} /\ p.dropBound = run[r].bound
      /\ p.stillArmed = IF run[r].armed THEN "true" ELSE "false"
      /\ p.posture = run[r].posture /\ p.observedSet = {run[r].seen}
      /\ p.observedAttacks = Ids(run[r].named)
  BY <1>6, SealFields DEF SealFor
<1> HIDE DEF p
<1>9. WithinBound(r) /\ run[r].armed
  BY <1>7, <1>8 DEF SealedConstraintsMet, WithinBound
<1>10. run[r].posture = "pinned"
  <2>1. run[r].posture = s.env.posture.digest
    BY <1>7, <1>8 DEF SealedConstraintsMet
  <2>2. r.networkPosture = s.env.posture
    BY DEF RunBinding
  <2> QED
    BY <1>5, <2>1, <2>2, PostureAssumption
<1>11. /\ i \in BoundOfKind(s, "sealed")
       /\ ~ObservedSetMismatch(s) /\ ~SealNamedAttackUncaught(s)
  <2>1. i \in BoundOfKind(s, "sealed")
    BY <1>4, <1>8 DEF BoundOfKind, KindOf, p
  <2>2. ~NoRecords(s)
    BY <1>4 DEF NoRecords
  <2> QED
    BY <1>3, <2>1, <2>2 DEF SubstrateCommitmentCodes, When
<1>12. run[r].seen = ObservedLeaves(s)
  BY <1>8, <1>11 DEF ObservedSetMismatch, p
<1>13. ASSUME NEW a \in run[r].named
       PROVE  \E j \in DOMAIN s.rows :
                IsCaughtLabel(s, s.rows[j].label) /\ s.rows[j].attackId = a
  <2>1. AttackIDArrayOK(p.observedAttacks, DeclaredAttackIDs(s))
    BY <1>7 DEF SealedConstraintsMet
  <2>2. a \in p.observedAttacks.ids
    BY <1>8, <1>13 DEF Ids
  <2> QED
    BY <1>11, <2>1, <2>2 DEF SealNamedAttackUncaught, p
<1> QED
  BY <1>5, <1>6, <1>9, <1>10, <1>12, <1>13

----------------------------------------------------------------------------
(* Coverage (commitments.go, assessedSetDeclared) *)

\* A clean vantage row is about an attack the run was armed for: the arming
\* record that covers it declares every attack the statement assesses
\* (commitments.go, assessedSetDeclared).
LEMMA CleanRowWasDeclared ==
  ASSUME SubstrateInv, NEW s, Decoded(s), Genuine(s), NEW policy \in Policy,
         Verify(s, policy).admitted,
         NEW k \in DOMAIN s.rows, CleanVantageRow(s, s.rows[k])
  PROVE  s.rows[k].attackId \in run[RunBinding(s)].declared
<1> DEFINE r == RunBinding(s)
           row == s.rows[k]
<1>1. /\ EvaluateCodes(s) = {} /\ Gate0(s) = {} /\ Gate1(s) = {}
      /\ TierPolicySatisfied(s, DeriveTiers(s, policy))
  BY AdmittedIsValid, EvaluateSilent
<1>2. IsSubstrate(row) /\ HasSubstrateRows(s)
  BY DEF CleanVantageRow, HasSubstrateRows
<1>3. SubstrateRowCodes(s, row, r) = {} /\ SubstrateCommitmentCodes(s) = {}
  BY <1>1, <1>2, Gate1SilentSubstrate
<1>4. PICK i \in ValidOfKind(s, row, "arming") :
        /\ i \in Covering(s, row) /\ i \in DOMAIN s.records
        /\ s.records[i].payload.kind = "arming"
        /\ s.records[i].decodes /\ BindsTo(s.records[i], r)
  BY <1>3, CleanRowIsCovered
<1> DEFINE p == s.records[i].payload
<1>5. /\ r \in Run /\ Leaf(s.records[i]).payload = p
      /\ TrueOf(Leaf(s.records[i]), r, run[r])
  BY <1>1, <1>2, <1>4, CoveringWasSigned
<1>6. p.form = "object" /\ p.assessed = Ids(run[r].declared)
  BY <1>4, <1>5 DEF TrueOf
<1>7. AttackIDArrayOK(p.assessed, DeclaredAttackIDs(s))
  BY <1>4 DEF ValidOfKind, KindConstraintsMet, ArmingConstraintsMet
<1>8. i \in BoundOfKind(s, "arming")
  BY <1>4, <1>6 DEF BoundOfKind, KindOf
<1>9. ~AssessedSetUndeclared(s)
  <2>1. ~NoRecords(s)
    BY <1>4 DEF NoRecords
  <2> QED
    BY <1>3, <2>1 DEF SubstrateCommitmentCodes, When
<1>10. AssessedAttackIDs(s) \subseteq run[r].declared
  BY <1>6, <1>7, <1>8, <1>9 DEF AssessedSetUndeclared, Ids
<1> QED
  BY <1>1, <1>10, CoverageIsChecked

----------------------------------------------------------------------------
(* An admitted pass *)

\* A run whose binding an admitted pass names is over, was not disturbed and lost
\* no more than its seal allows: an interception of the run would be carried,
\* owned by a caught row and priced.
LEMMA AdmittedPassIsQuiet ==
  ASSUME SubstrateInv, NEW s \in Statement, Genuine(s), NEW policy \in Policy,
         Verify(s, policy).admitted, s.result = "pass"
  PROVE  /\ RunBinding(s) \in Run
         /\ run[RunBinding(s)].phase = "sealed" /\ ~Disturbed(RunBinding(s))
         /\ WithinBound(RunBinding(s))
<1> DEFINE r == RunBinding(s)
<1>1. EvaluateCodes(s) = {} /\ Gate0(s) = {} /\ Recompute(s) = "pass"
  BY AdmittedIsValid, EvaluateSilent
<1>2. PICK k \in DOMAIN s.rows : TRUE
  BY <1>1, StatementAssumption, PassRecomputed, CompleteCoverageHasRows
<1>3. CleanVantageRow(s, s.rows[k])
  BY <1>1, <1>2, PassRecomputed DEF CleanVantageRow, IsSubstrate, RowForcesFail
<1>4. /\ r \in Run /\ run[r].phase = "sealed"
      /\ run[r].armed /\ WithinBound(r) /\ run[r].posture = "pinned"
      /\ run[r].seen = ObservedLeaves(s)
  BY <1>3, CleanRowTellsTheRun
<1>5. ASSUME NEW leaf \in run[r].seen, leaf.payload.kind = "interception"
      PROVE  FALSE
  <2>1. PICK i \in DOMAIN s.records :
          /\ leaf = Leaf(s.records[i])
          /\ KindOf(s.records[i]) \in {"interception", "examination"}
    BY <1>4, <1>5 DEF ObservedLeaves
  <2>2. leaf.payload = s.records[i].payload
    BY <2>1 DEF Leaf
  <2>3. KindOf(s.records[i]) = "interception"
    BY <1>5, <2>1, <2>2 DEF KindOf
  <2> QED
    BY <1>1, <2>3, CarriedInterceptionFails
<1> QED
  BY <1>4, <1>5 DEF Disturbed

----------------------------------------------------------------------------
(* The liveness probe (scripts/liveness-probe.py) *)

States == {"unprobed", "notDemonstrated", "unverified", "unsealed", "demonstrated"}

LEMMA StateRanks ==
  /\ Rank("unprobed") = 0 /\ Rank("notDemonstrated") = 1 /\ Rank("unverified") = 2
  /\ Rank("unsealed") = 3 /\ Rank("demonstrated") = 4
BY DEF Rank

\* The best of some states is one of them (better).
LEMMA BestIsThere ==
  ASSUME NEW S \in SUBSET States, S # {}
  PROVE  Best(S) \in S
<1>1. \E v \in S : \A w \in S : Rank(w) <= Rank(v)
  <2>1. CASE "demonstrated" \in S
    BY <2>1, StateRanks DEF States
  <2>2. CASE "demonstrated" \notin S /\ "unsealed" \in S
    BY <2>2, StateRanks DEF States
  <2>3. CASE "demonstrated" \notin S /\ "unsealed" \notin S /\ "unverified" \in S
    BY <2>3, StateRanks DEF States
  <2>4. CASE /\ "demonstrated" \notin S /\ "unsealed" \notin S /\ "unverified" \notin S
             /\ "notDemonstrated" \in S
    BY <2>4, StateRanks DEF States
  <2>5. CASE S \subseteq {"unprobed"}
    <3>1. S = {"unprobed"}
      BY <2>5
    <3>2. Rank("unprobed") <= Rank("unprobed")
      BY StateRanks
    <3> QED
      BY <3>1, <3>2
  <2> QED
    BY <2>1, <2>2, <2>3, <2>4, <2>5 DEF States
<1> QED
  BY <1>1 DEF Best

\* A demonstrated channel has a row that reports a planted attack caught, and a
\* record of its that verifies and matches, with a seal that names the attack.
LEMMA DemonstratedHasRecords ==
  ASSUME NEW s, NEW c \in Demonstrated(s)
  PROVE  \E a \in Planted(s, c), k \in DOMAIN s.rows :
           /\ IsSubstrate(s.rows[k])
           /\ \E i \in Matching(s, s.rows[k], a) : Verifies(s.records[i], {SubstrateKey})
           /\ a \in SealedAttacks(s, {SubstrateKey})
<1> DEFINE keys == {SubstrateKey}
           Of(a) == UNION {{RecordState(s, i, a, keys) : i \in Matching(s, s.rows[k], a)} :
                             k \in {j \in DOMAIN s.rows : ClaimsACatch(s, s.rows[j], a)}}
<1>1. \A a : {"notDemonstrated"} \cup Of(a) \in SUBSET States
  BY DEF RecordState, States
<1>2. \A a : ProbeState(s, a, keys) = Best({"notDemonstrated"} \cup Of(a))
  BY DEF ProbeState
<1>3. \A a : ProbeState(s, a, keys) \in {"notDemonstrated"} \cup Of(a)
  <2> HIDE DEF Of
  <2> QED
    BY <1>1, <1>2, BestIsThere
<1>4. PICK a \in Planted(s, c) : ProbeState(s, a, keys) = "demonstrated"
  <2>1. /\ ChannelVerdict(s, c, keys) = "demonstrated" /\ Planted(s, c) # {}
        /\ ChannelVerdict(s, c, keys) = Best({ProbeState(s, b, keys) : b \in Planted(s, c)})
    BY DEF Demonstrated, ChannelVerdict
  <2>2. {ProbeState(s, b, keys) : b \in Planted(s, c)} \in SUBSET States
    BY <1>1, <1>3
  <2>3. Best({ProbeState(s, b, keys) : b \in Planted(s, c)})
          \in {ProbeState(s, b, keys) : b \in Planted(s, c)}
    BY <2>1, <2>2, BestIsThere
  <2> QED
    BY <2>1, <2>3
<1>5. "demonstrated" \in Of(a)
  BY <1>3, <1>4
<1>6. PICK k \in DOMAIN s.rows :
        /\ ClaimsACatch(s, s.rows[k], a)
        /\ \E i \in Matching(s, s.rows[k], a) : RecordState(s, i, a, keys) = "demonstrated"
  BY <1>5
<1>7. PICK i \in Matching(s, s.rows[k], a) : RecordState(s, i, a, keys) = "demonstrated"
  BY <1>6
<1>8. Verifies(s.records[i], keys) /\ a \in SealedAttacks(s, keys)
  BY <1>7 DEF RecordState
<1> QED
  BY <1>4, <1>6, <1>7, <1>8 DEF ClaimsACatch

\* What verifies under the substrate's key is what the substrate has signed, and
\* is true of one of its runs.
LEMMA VerifiedIsTrue ==
  ASSUME SubstrateInv, NEW s, Genuine(s), NEW i \in DOMAIN s.records,
         Verifies(s.records[i], {SubstrateKey})
  PROVE  \E r \in Run : /\ s.records[i].payload.runBinding = {r}
                        /\ Leaf(s.records[i]).payload = s.records[i].payload
                        /\ TrueOf(Leaf(s.records[i]), r, run[r])
<1>1. Leaf(s.records[i]) \in signed
  BY DEF Verifies, RecordVerifies, Genuine
<1>2. Leaf(s.records[i]).payload = s.records[i].payload
  BY DEF Leaf
<1> QED
  BY <1>1, <1>2 DEF SubstrateInv

\* A channel demonstrated in an admitted statement was caught.
LEMMA DemonstratedIsCaught ==
  ASSUME SubstrateInv, NEW s, Genuine(s), NEW policy \in Policy,
         Verify(s, policy).admitted, NEW c \in Demonstrated(s)
  PROVE  \E a \in Planted(s, c) : PlantedWasCaught(s, a)
<1>1. PICK a \in Planted(s, c), k \in DOMAIN s.rows :
        /\ IsSubstrate(s.rows[k])
        /\ \E i \in Matching(s, s.rows[k], a) : Verifies(s.records[i], {SubstrateKey})
        /\ a \in SealedAttacks(s, {SubstrateKey})
  BY DemonstratedHasRecords
<1>2. PICK i \in Matching(s, s.rows[k], a) : Verifies(s.records[i], {SubstrateKey})
  BY <1>1
<1> DEFINE rec == s.records[i]
<1>3. /\ i \in Resolved(s, s.rows[k]) /\ i \in DOMAIN s.records
      /\ rec.payload.kind = "interception"
      /\ rec.payload.commitment.values \cap ExpectedFor(s, a) # {}
  BY <1>2 DEF Matching, Parsed
<1>4. rec.payload.runBinding = {RunBinding(s)}
  <2>1. HasSubstrateRows(s) /\ Gate1(s) = {}
    BY <1>1, AdmittedIsValid, EvaluateSilent DEF HasSubstrateRows
  <2>2. SubstrateRowCodes(s, s.rows[k], RunBinding(s)) = {}
    BY <1>1, <2>1, Gate1SilentSubstrate
  <2>3. PayloadCodes(rec, RunBinding(s)) = {}
    BY <1>3, <2>2 DEF SubstrateRowCodes
  <2> QED
    BY <2>3 DEF PayloadCodes, When, BindsTo
<1>5. /\ RunBinding(s) \in Run /\ Leaf(rec).payload = rec.payload
      /\ TrueOf(Leaf(rec), RunBinding(s), run[RunBinding(s)])
  <2>1. i \in DOMAIN s.records /\ Verifies(s.records[i], {SubstrateKey})
    BY <1>2, <1>3
  <2>2. PICK r \in Run : /\ rec.payload.runBinding = {r}
                         /\ Leaf(rec).payload = rec.payload
                         /\ TrueOf(Leaf(rec), r, run[r])
    BY <2>1, VerifiedIsTrue
  <2>3. r = RunBinding(s)
    BY <1>4, <2>2
  <2> QED
    BY <2>2, <2>3
<1>6. Leaf(rec) \in run[RunBinding(s)].seen
  BY <1>3, <1>5 DEF TrueOf
<1>7. PICK j \in DOMAIN s.records :
        /\ s.records[j].payload.kind = "sealed" /\ Verifies(s.records[j], {SubstrateKey})
        /\ a \in s.records[j].payload.observedAttacks.ids
  BY <1>1 DEF SealedAttacks, Parsed
<1>8. PICK r \in Run : /\ Leaf(s.records[j]).payload = s.records[j].payload
                       /\ TrueOf(Leaf(s.records[j]), r, run[r])
  BY <1>7, VerifiedIsTrue
<1>9. run[r].phase = "sealed" /\ s.records[j].payload = SealFor(r, run[r])
  BY <1>7, <1>8 DEF TrueOf
<1>10. a \in run[r].named
  <2>1. SealFor(r, run[r]).observedAttacks = Ids(run[r].named)
    BY SealFields DEF SealFor
  <2> QED
    BY <1>7, <1>9, <2>1 DEF Ids
<1> QED
  BY <1>1, <1>3, <1>5, <1>6, <1>9, <1>10 DEF PlantedWasCaught, PlantedWasSeen, NamedInSeal

----------------------------------------------------------------------------
(* The inductive invariant *)

IInv ==
  /\ SubstrateInv
  /\ \A d, e \in decision : d = e
  /\ relied \subseteq Run
  /\ PassMeansQuietRun
  /\ CleanRowCarriesTheRun
  /\ CleanRowWasArmedFor
  /\ DemonstratedMeansCaught

LEMMA InitIInv == Init => IInv
<1> SUFFICES ASSUME Init PROVE IInv
  OBVIOUS
<1>1. SubstrateInv
  BY SubstrateInit
<1> QED
  BY <1>1 DEF Init, IInv, PassMeansQuietRun, CleanRowCarriesTheRun,
              CleanRowWasArmedFor, DemonstratedMeansCaught, Admitted

\* Nothing happens in a run that is over.
LEMMA SealedRunStays ==
  ASSUME SubstrateInv, [Next]_vars, NEW r \in Run, run[r].phase = "sealed"
  PROVE  run'[r] = run[r]
<1>1. ASSUME NEW q \in Run, NEW x, run[q].phase # "sealed",
             run' = [run EXCEPT ![q] = x]
      PROVE  run'[r] = run[r]
  BY <1>1 DEF SubstrateInv
<1>2. ASSUME NEW q \in Run, NEW attacks, Arm(q, attacks) PROVE run'[r] = run[r]
  BY <1>1, <1>2 DEF Arm
<1>3. ASSUME NEW q \in Run, NEW value, NEW attacks, Intercept(q, value, attacks)
      PROVE  run'[r] = run[r]
  BY <1>1, <1>3 DEF Intercept, Watching
<1>4. ASSUME NEW q \in Run, Examine(q) PROVE run'[r] = run[r]
  BY <1>1, <1>4 DEF Examine
<1>5. ASSUME NEW q \in Run, Disturb(q) PROVE run'[r] = run[r]
  BY <1>1, <1>5 DEF Disturb
<1>6. ASSUME NEW q \in Run, NEW bound, Seal(q, bound) PROVE run'[r] = run[r]
  BY <1>1, <1>6 DEF Seal
<1> QED
  BY <1>2, <1>3, <1>4, <1>5, <1>6 DEF Next, vars, Submit, Forget

\* What a run has seen it has seen.
LEMMA SeenGrows ==
  ASSUME SubstrateInv, [Next]_vars, NEW r \in Run
  PROVE  run[r].seen \subseteq run'[r].seen
<1>1. ASSUME NEW q \in Run, NEW x, run[q].seen \subseteq x.seen,
             run' = [run EXCEPT ![q] = x]
      PROVE  run[r].seen \subseteq run'[r].seen
  BY <1>1 DEF SubstrateInv
<1>2. \A q \in Run : run[q] \in RunState
  BY DEF SubstrateInv
<1>3. ASSUME NEW q \in Run, NEW attacks, Arm(q, attacks)
      PROVE  run[r].seen \subseteq run'[r].seen
  <2> DEFINE x == [run[q] EXCEPT !.phase = "open", !.armed = TRUE, !.declared = attacks]
  <2>1. run' = [run EXCEPT ![q] = x]
    BY <1>3 DEF Arm
  <2>2. run[q].seen \subseteq x.seen
    BY <1>2 DEF RunState
  <2> HIDE DEF x
  <2> QED
    BY <1>1, <2>1, <2>2
<1>4. ASSUME NEW q \in Run, NEW value, NEW attacks, Intercept(q, value, attacks)
      PROVE  run[r].seen \subseteq run'[r].seen
  <2> DEFINE leaf == PayloadLeaf(InterceptionPayload(q, value))
             x == [run[q] EXCEPT !.seen = @ \cup {leaf}, !.named = @ \cup attacks]
  <2>1. run' = [run EXCEPT ![q] = x]
    BY <1>4 DEF Intercept
  <2> HIDE DEF leaf
  <2>2. run[q].seen \subseteq x.seen
    BY <1>2 DEF RunState
  <2> HIDE DEF x
  <2> QED
    BY <1>1, <2>1, <2>2
<1>5. ASSUME NEW q \in Run, Examine(q) PROVE run[r].seen \subseteq run'[r].seen
  BY <1>1, <1>2, <1>5 DEF Examine, RunState
<1>6. ASSUME NEW q \in Run, Disturb(q) PROVE run[r].seen \subseteq run'[r].seen
  BY <1>1, <1>2, <1>6 DEF Disturb, RunState
<1>7. ASSUME NEW q \in Run, NEW bound, Seal(q, bound) PROVE run[r].seen \subseteq run'[r].seen
  <2> DEFINE x == [run[q] EXCEPT !.phase = "sealed", !.bound = bound]
  <2>1. run' = [run EXCEPT ![q] = x]
    BY <1>7 DEF Seal
  <2>2. run[q].seen = x.seen
    BY <1>2 DEF RunState
  <2> HIDE DEF x
  <2> QED
    BY <1>1, <2>1, <2>2
<1> QED
  BY <1>3, <1>4, <1>5, <1>6, <1>7 DEF Next, vars, Submit, Forget

\* What the consumer concluded of runs that are over stays so.
LEMMA ConclusionsStay ==
  ASSUME IInv, [Next]_vars, decision' \subseteq decision, relied' = relied
  PROVE  IInv'
<1>1. SubstrateInv'
  BY SubstrateStep DEF IInv
<1>2. PassMeansQuietRun'
  BY SealedRunStays DEF IInv, PassMeansQuietRun, Disturbed, WithinBound
<1>3. ASSUME NEW d \in Admitted', NEW i \in DOMAIN d.statement.rows,
             CleanVantageRow(d.statement, d.statement.rows[i])
      PROVE  /\ d \in Admitted /\ RunBinding(d.statement) \in Run
             /\ run[RunBinding(d.statement)].phase = "sealed"
             /\ run'[RunBinding(d.statement)] = run[RunBinding(d.statement)]
  <2>1. d \in Admitted
    BY DEF Admitted
  <2>2. /\ RunBinding(d.statement) \in Run
        /\ run[RunBinding(d.statement)].phase = "sealed"
    BY <1>3, <2>1 DEF IInv, CleanRowCarriesTheRun, CleanVantageRow
  <2> QED
    BY <2>1, <2>2, SealedRunStays DEF IInv
<1>4. CleanRowCarriesTheRun'
  BY <1>3 DEF IInv, CleanRowCarriesTheRun, CleanVantageRow
<1>5. CleanRowWasArmedFor'
  BY <1>3 DEF IInv, CleanRowWasArmedFor, CleanVantageRow
<1>6. relied' \subseteq Run /\ \A d, e \in decision' : d = e
  BY DEF IInv
<1>7. ASSUME NEW s, NEW a, PlantedWasCaught(s, a) PROVE PlantedWasCaught(s, a)'
  BY <1>7, SeenGrows, SealedRunStays DEF IInv, PlantedWasCaught, PlantedWasSeen, NamedInSeal
<1>8. DemonstratedMeansCaught'
  BY <1>7 DEF IInv, DemonstratedMeansCaught, Admitted
<1> QED
  BY <1>1, <1>2, <1>4, <1>5, <1>6, <1>8 DEF IInv

LEMMA SubmitKeeps ==
  ASSUME IInv, NEW s \in Statement, NEW policy \in Policy, Submit(s, policy)
  PROVE  IInv'
<1>1. SubstrateInv /\ SubstrateInv' /\ run' = run /\ Genuine(s) /\ Decoded(s)
  BY SubstrateStep, StatementAssumption DEF IInv, Next, Submit
<1>2. /\ decision' = {[statement |-> s, report |-> Verify(s, policy)]}
      /\ relied' = relied \cup
           {r \in {RunBinding(s)} : Verify(s, policy).admitted /\ s.result = "pass"}
  BY DEF Submit
<1>3. ASSUME NEW d \in Admitted'
      PROVE  d.statement = s /\ Verify(s, policy).admitted
  BY <1>2 DEF Admitted
<1>4. ASSUME NEW r \in relied', r \notin relied
      PROVE  r \in Run /\ run[r].phase = "sealed" /\ ~Disturbed(r) /\ WithinBound(r)
  BY <1>1, <1>2, <1>4, AdmittedPassIsQuiet
<1>5. relied' \subseteq Run /\ PassMeansQuietRun'
  BY <1>1, <1>4 DEF IInv, PassMeansQuietRun, Disturbed, WithinBound
<1>6. CleanRowCarriesTheRun'
  BY <1>1, <1>3, CleanRowTellsTheRun DEF CleanRowCarriesTheRun, CleanVantageRow
<1>7. CleanRowWasArmedFor'
  BY <1>1, <1>3, CleanRowWasDeclared DEF CleanRowWasArmedFor, CleanVantageRow
<1>8. \A d, e \in decision' : d = e
  BY <1>2
<1>9. DemonstratedMeansCaught'
  BY <1>1, <1>3, DemonstratedIsCaught DEF DemonstratedMeansCaught, PlantedWasCaught, PlantedWasSeen, NamedInSeal
<1> QED
  BY <1>1, <1>5, <1>6, <1>7, <1>8, <1>9 DEF IInv

LEMMA NextIInv == IInv /\ [Next]_vars => IInv'
<1> SUFFICES ASSUME IInv, [Next]_vars PROVE IInv'
  OBVIOUS
<1>1. ASSUME UNCHANGED <<decision, relied>> PROVE IInv'
  BY <1>1, ConclusionsStay
<1>2. CASE Forget
  BY <1>2, ConclusionsStay DEF Forget
<1>3. CASE \E s \in Statement, policy \in Policy : Submit(s, policy)
  BY <1>3, SubmitKeeps
<1> QED
  BY <1>1, <1>2, <1>3 DEF Next, vars, Arm, Intercept, Examine, Disturb, Seal

LEMMA Invariance == Spec => []IInv
BY InitIInv, NextIInv, PTL DEF Spec

----------------------------------------------------------------------------
(* What an honest producer carries *)

\* An injection of an interval into a finite set of that size reaches all of it.
LEMMA SetAsSeq ==
  ASSUME NEW S, IsFiniteSet(S)
  PROVE  /\ DOMAIN SetToSeq(S) = 1..Cardinality(S) /\ Cardinality(S) \in Nat
         /\ Elems(SetToSeq(S)) = S
         /\ \A i, j \in DOMAIN SetToSeq(S) : SetToSeq(S)[i] = SetToSeq(S)[j] => i = j
<1> DEFINE n == Cardinality(S)
           q == SetToSeq(S)
<1>1. n \in Nat /\ ExistsBijection(1..n, S)
  BY FS_CardinalityType
<1>2. \E f \in [1..n -> S] : IsInjective(f)
  BY <1>1 DEF ExistsBijection, Bijection, Injection, IsInjective
<1>3. q \in [1..n -> S] /\ IsInjective(q)
  BY <1>2 DEF SetToSeq
<1>4. q \in Injection(1..n, S)
  BY <1>3 DEF Injection, IsInjective
<1>5. Cardinality(1..n) = n
  BY <1>1, FS_Interval
<1>6. q \in Surjection(1..n, S)
  BY <1>4, <1>5, FS_Injection
<1> HIDE DEF q, n
<1>7. Elems(q) = S
  BY <1>3, <1>6 DEF Elems, Surjection
<1> QED
  BY <1>1, <1>3, <1>7 DEF IsInjective, n, q

\* What signing every leaf of a finite set makes is a finite set.
LEMMA SignedIsFinite ==
  ASSUME NEW S, IsFiniteSet(S), NEW keys
  PROVE  IsFiniteSet({Signed(leaf.payload, keys) : leaf \in S})
<1> DEFINE T == {Signed(leaf.payload, keys) : leaf \in S}
           f == [leaf \in S |-> Signed(leaf.payload, keys)]
<1>1. f \in Surjection(S, T)
  BY DEF Surjection
<1> QED
  BY <1>1, FS_Surjection

----------------------------------------------------------------------------
(* What a substrate has signed in a run is what an honest producer finds *)

\* A leaf the substrate signs when it sees something in run r.
Observation(leaf, r) ==
  \/ \E value \in Value : leaf = PayloadLeaf(InterceptionPayload(r, value))
  \/ leaf = PayloadLeaf(ExaminationPayload(r))

\* The leaf signed when a run that is in state x was armed, in its posture then,
\* and the leaf that seals it in state x.
ArmingLeaf(r, x) == PayloadLeaf(ArmingPayload(r, "pinned", x.declared))
SealLeaf(r, x)   == PayloadLeaf(SealFor(r, x))

\* Of run r, now in state x, the leaves hold its arming and its seal as soon as
\* there is one, and nothing but these and what was seen.
CarriesRun(leaves, r, x) ==
  /\ x.phase = "ready" => x.posture = "pinned"
  /\ x.phase # "ready" => ArmingLeaf(r, x) \in leaves
  /\ x.phase = "sealed" => SealLeaf(r, x) \in leaves
  /\ x.named # {} => \E leaf \in x.seen : leaf.payload.kind = "interception"
  /\ \A leaf \in x.seen : Observation(leaf, r)
  /\ \A leaf \in leaves : leaf.payload.runBinding = {r} =>
       \/ leaf \in x.seen
       \/ x.phase # "ready" /\ leaf = ArmingLeaf(r, x)
       \/ x.phase = "sealed" /\ leaf = SealLeaf(r, x)

RecordsInv ==
  /\ IsFiniteSet(signed)
  /\ \A r \in Run : CarriesRun(signed, r, run[r])

\* Signing leaves of run r leaves what is signed of the other runs as it was.
LEMMA OneRunSigns ==
  ASSUME SubstrateInv, RecordsInv, NEW r \in Run, NEW x, NEW leaf,
         leaf.payload.runBinding = {r},
         run' = [run EXCEPT ![r] = x], signed' \in {signed, signed \cup {leaf}},
         CarriesRun(signed', r, x)
  PROVE  RecordsInv'
<1>1. IsFiniteSet(signed')
  BY FS_AddElement DEF RecordsInv
<1>2. ASSUME NEW q \in Run
      PROVE  CarriesRun(signed', q, run'[q])
  <2>1. CASE q = r
    BY <2>1 DEF SubstrateInv
  <2>2. CASE q # r
    <3>1. run'[q] = run[q] /\ CarriesRun(signed, q, run[q])
      BY <2>2 DEF SubstrateInv, RecordsInv
    <3>2. leaf.payload.runBinding # {q}
      BY <2>2
    <3> QED
      BY <3>1, <3>2 DEF CarriesRun
  <2> QED
    BY <2>1, <2>2
<1> QED
  BY <1>1, <1>2 DEF RecordsInv, CarriesRun, ArmingLeaf, SealLeaf, SealFor, Observation

\* No run is armed yet, and all are in their posture.
LEMMA RecordsInit == Init => RecordsInv
<1> SUFFICES ASSUME Init PROVE RecordsInv
  OBVIOUS
<1>1. IsFiniteSet(signed)
  BY FS_EmptySet DEF Init
<1>2. ASSUME NEW r \in Run
      PROVE  CarriesRun(signed, r, run[r])
  BY DEF Init, CarriesRun, Fresh
<1> QED
  BY <1>1, <1>2 DEF RecordsInv

\* A run is armed before its posture can have changed.
LEMMA ArmRecords ==
  ASSUME SubstrateInv, RecordsInv, NEW r \in Run, NEW attacks \in SUBSET Attack,
         Arm(r, attacks)
  PROVE  RecordsInv'
<1> DEFINE leaf == PayloadLeaf(ArmingPayload(r, run[r].posture, attacks))
           x == [run[r] EXCEPT !.phase = "open", !.armed = TRUE, !.declared = attacks]
<1>1. run[r] \in RunState /\ run[r].phase = "ready" /\ CarriesRun(signed, r, run[r])
  BY DEF Arm, SubstrateInv, RecordsInv
<1>2. leaf.payload.runBinding = {r}
  BY ArmingFields, PayloadLeafFields
<1>3. run' = [run EXCEPT ![r] = x] /\ signed' = signed \cup {leaf}
  BY DEF Arm, Sign
<1>4. /\ x.phase = "open" /\ x.declared = attacks /\ x.seen = run[r].seen
      /\ x.named = run[r].named
  BY <1>1 DEF RunState
<1>5. leaf = ArmingLeaf(r, x)
  BY <1>1, <1>4 DEF ArmingLeaf, CarriesRun
<1> HIDE DEF leaf, x
<1>6. CarriesRun(signed', r, x)
  BY <1>1, <1>3, <1>4, <1>5 DEF CarriesRun
<1> QED
  BY <1>2, <1>3, <1>6, OneRunSigns

\* Intercept and Examine, alike.
LEMMA SeeingRecords ==
  ASSUME SubstrateInv, RecordsInv, NEW r \in Run, NEW leaf, NEW x,
         run[r].phase = "open", Observation(leaf, r),
         leaf.payload.runBinding = {r},
         x.phase = "open", x.declared = run[r].declared,
         x.seen = run[r].seen \cup {leaf},
         x.named # run[r].named => leaf.payload.kind = "interception",
         run' = [run EXCEPT ![r] = x], signed' = signed \cup {leaf}
  PROVE  RecordsInv'
<1>1. CarriesRun(signed, r, run[r])
  BY DEF RecordsInv
<1>2. ArmingLeaf(r, x) = ArmingLeaf(r, run[r])
  BY DEF ArmingLeaf
<1>3. CarriesRun(signed', r, x)
  BY <1>1, <1>2 DEF CarriesRun
<1> QED
  BY <1>3, OneRunSigns

LEMMA InterceptRecords ==
  ASSUME SubstrateInv, RecordsInv, NEW r \in Run, NEW value \in Value,
         NEW attacks \in SUBSET Attack, Intercept(r, value, attacks)
  PROVE  RecordsInv'
<1> DEFINE leaf == PayloadLeaf(InterceptionPayload(r, value))
           x == [run[r] EXCEPT !.seen = @ \cup {leaf}, !.named = @ \cup attacks]
<1>1. /\ leaf.payload.kind = "interception" /\ leaf.payload.runBinding = {r}
      /\ Observation(leaf, r)
  BY InterceptionFields, PayloadLeafFields DEF Observation
<1>2. /\ run[r] \in RunState /\ run[r].phase = "open"
      /\ run' = [run EXCEPT ![r] = x] /\ signed' = signed \cup {leaf}
  BY DEF Intercept, Watching, Sign, SubstrateInv
<1>3. /\ x.phase = "open" /\ x.declared = run[r].declared
      /\ x.seen = run[r].seen \cup {leaf}
  BY <1>2 DEF RunState
<1> HIDE DEF leaf, x
<1> QED
  BY <1>1, <1>2, <1>3, SeeingRecords

LEMMA ExamineRecords ==
  ASSUME SubstrateInv, RecordsInv, NEW r \in Run, Examine(r)
  PROVE  RecordsInv'
<1> DEFINE leaf == PayloadLeaf(ExaminationPayload(r))
           x == [run[r] EXCEPT !.seen = @ \cup {leaf}]
<1>1. leaf.payload.runBinding = {r} /\ Observation(leaf, r)
  BY ExaminationFields, PayloadLeafFields DEF Observation
<1>2. /\ run[r] \in RunState /\ run[r].phase = "open"
      /\ run' = [run EXCEPT ![r] = x] /\ signed' = signed \cup {leaf}
  BY DEF Examine, Sign, SubstrateInv
<1>3. /\ x.phase = "open" /\ x.declared = run[r].declared
      /\ x.seen = run[r].seen \cup {leaf} /\ x.named = run[r].named
  BY <1>2 DEF RunState
<1> HIDE DEF leaf, x
<1> QED
  BY <1>1, <1>2, <1>3, SeeingRecords

\* What goes wrong in a run changes none of its records.
LEMMA DisturbRecords ==
  ASSUME SubstrateInv, RecordsInv, NEW r \in Run, Disturb(r)
  PROVE  RecordsInv'
<1>1. /\ run[r] \in RunState /\ run[r].phase = "open" /\ signed' = signed
      /\ CarriesRun(signed, r, run[r])
  BY DEF Disturb, SubstrateInv, RecordsInv
<1>2. ASSUME NEW x, run' = [run EXCEPT ![r] = x], x.phase = "open",
             x.seen = run[r].seen, x.declared = run[r].declared,
             x.named = run[r].named
      PROVE  RecordsInv'
  <2>1. ArmingLeaf(r, x) = ArmingLeaf(r, run[r])
    BY <1>2 DEF ArmingLeaf
  <2>2. CarriesRun(signed', r, x)
    BY <1>1, <1>2, <2>1 DEF CarriesRun
  <2>3. PayloadLeaf(ExaminationPayload(r)).payload.runBinding = {r}
    BY ExaminationFields, PayloadLeafFields
  <2> QED
    BY <1>1, <1>2, <2>2, <2>3, OneRunSigns
<1>3. CASE run' = [run EXCEPT ![r].drops = @ + 1]
  <2>1. run' = [run EXCEPT ![r] = [run[r] EXCEPT !.drops = @ + 1]]
    BY <1>3
  <2> QED
    BY <1>1, <1>2, <2>1 DEF RunState
<1>4. CASE run' = [run EXCEPT ![r].armed = FALSE]
  <2>1. run' = [run EXCEPT ![r] = [run[r] EXCEPT !.armed = FALSE]]
    BY <1>4
  <2> QED
    BY <1>1, <1>2, <2>1 DEF RunState
<1>5. CASE run' = [run EXCEPT ![r].posture = "drifted"]
  <2>1. run' = [run EXCEPT ![r] = [run[r] EXCEPT !.posture = "drifted"]]
    BY <1>5
  <2> QED
    BY <1>1, <1>2, <2>1 DEF RunState
<1> QED
  BY <1>3, <1>4, <1>5 DEF Disturb

\* The seal is signed of the state in which the run ends.
LEMMA SealRecords ==
  ASSUME SubstrateInv, RecordsInv, NEW r \in Run, NEW bound, Seal(r, bound)
  PROVE  RecordsInv'
<1> DEFINE leaf == PayloadLeaf(SealOf(r, bound))
           x == [run[r] EXCEPT !.phase = "sealed", !.bound = bound]
<1>1. /\ run[r] \in RunState /\ run[r].phase = "open"
      /\ CarriesRun(signed, r, run[r])
  BY DEF Seal, SubstrateInv, RecordsInv
<1>2. run' = [run EXCEPT ![r] = x] /\ signed' = signed \cup {leaf}
  BY DEF Seal, Sign
<1>3. leaf.payload.runBinding = {r}
  BY SealFields, PayloadLeafFields DEF SealOf
<1>4. /\ x.phase = "sealed" /\ x.seen = run[r].seen /\ x.declared = run[r].declared
      /\ x.named = run[r].named /\ SealFor(r, x) = SealOf(r, bound)
  BY <1>1 DEF RunState, SealFor, SealOf
<1>5. leaf = SealLeaf(r, x) /\ ArmingLeaf(r, x) = ArmingLeaf(r, run[r])
  BY <1>4 DEF SealLeaf, ArmingLeaf
<1> HIDE DEF leaf, x
<1>6. CarriesRun(signed', r, x)
  BY <1>1, <1>2, <1>4, <1>5 DEF CarriesRun
<1> QED
  BY <1>2, <1>3, <1>6, OneRunSigns

\* Every step of the substrate keeps the account complete; no other signs.
LEMMA RecordsStep == SubstrateInv /\ RecordsInv /\ [Next]_vars => RecordsInv'
<1> SUFFICES ASSUME SubstrateInv, RecordsInv, [Next]_vars PROVE RecordsInv'
  OBVIOUS
<1>1. ASSUME UNCHANGED <<run, signed>> PROVE RecordsInv'
  BY <1>1 DEF RecordsInv, CarriesRun, ArmingLeaf, SealLeaf, SealFor, Observation
<1>2. ASSUME NEW value \in Value, NEW r \in Run,
             NEW attacks \in {{}} \cup {{a} : a \in Attack},
             Intercept(r, value, attacks)
      PROVE  RecordsInv'
  BY <1>2, InterceptRecords
<1> QED
  BY <1>1, <1>2, ArmRecords, ExamineRecords, DisturbRecords, SealRecords
     DEF Next, Submit, Forget, vars

\* So in every state, what is signed of a run is all there is to know of it.
LEMMA RecordsInvariance == Spec => [](SubstrateInv /\ RecordsInv)
<1>1. IInv => SubstrateInv
  BY DEF IInv
<1> QED
  BY <1>1, Invariance, RecordsInit, RecordsStep, PTL DEF Spec

----------------------------------------------------------------------------
(* The records a producer collects of a complete run *)

ArmingOf(r) == ArmingPayload(r, "pinned", Attack)

SealedOf(r) == SealFor(r, run[r])

\* The payloads of a complete run.
HonestPayload(p, r) ==
  \/ p = ArmingOf(r)
  \/ p = SealedOf(r)
  \/ p = ExaminationPayload(r)
  \/ \E value \in Value : p = InterceptionPayload(r, value)

\* What there is to know of the records a producer collects of run r.
CarriesAll(records, r) ==
  /\ IsFiniteSet(DOMAIN records)
  /\ \A i \in DOMAIN records :
       /\ HonestPayload(records[i].payload, r)
       /\ records[i] = Signed(records[i].payload, {SubstrateKey})
       /\ \A j \in DOMAIN records : records[i].payload = records[j].payload => i = j
  /\ \E i \in DOMAIN records : records[i].payload = ArmingOf(r)
  /\ \E i \in DOMAIN records : records[i].payload = SealedOf(r)
  /\ \A leaf : leaf \in run[r].seen <=>
       \E i \in DOMAIN records :
         /\ leaf = PayloadLeaf(records[i].payload)
         /\ records[i].payload.kind \in {"interception", "examination"}

\* A leaf signed in a complete run is its arming, its seal or an observation.
LEMMA SignedOfRun ==
  ASSUME SubstrateInv, RecordsInv, NEW r \in Run, KeptWatch(r),
         NEW leaf \in signed, leaf.payload.runBinding = {r}
  PROVE  /\ HonestPayload(leaf.payload, r)
         /\ leaf \in run[r].seen <=>
              leaf.payload.kind \in {"interception", "examination"}
         /\ leaf = PayloadLeaf(leaf.payload)
<1> DEFINE x == run[r]
<1>1. /\ CarriesRun(signed, r, x) /\ TrueOf(leaf, r, x) /\ x.phase = "sealed"
      /\ x.declared = Attack
  BY DEF RecordsInv, SubstrateInv, KeptWatch
<1> HIDE DEF x
<1>2. ASSUME NEW o \in x.seen
      PROVE  /\ HonestPayload(o.payload, r) /\ o = PayloadLeaf(o.payload)
             /\ o.payload.kind \in {"interception", "examination"}
  <2>1. Observation(o, r)
    BY <1>1, <1>2 DEF CarriesRun
  <2>2. CASE o = PayloadLeaf(ExaminationPayload(r))
    BY <2>2, ExaminationFields, PayloadLeafFields DEF HonestPayload
  <2>3. ASSUME NEW value \in Value, o = PayloadLeaf(InterceptionPayload(r, value))
        PROVE  <1>2!2
    BY <2>3, InterceptionFields, PayloadLeafFields DEF HonestPayload
  <2> QED
    BY <2>1, <2>2, <2>3 DEF Observation
<1>3. CASE leaf \in x.seen
  BY <1>2, <1>3 DEF x
<1>4. CASE leaf = ArmingLeaf(r, x)
  <2>1. leaf.payload = ArmingOf(r) /\ leaf = PayloadLeaf(leaf.payload)
    BY <1>1, <1>4, PayloadLeafFields DEF ArmingLeaf, ArmingOf
  <2>2. leaf.payload.kind = "arming"
    BY <2>1, ArmingFields DEF ArmingOf
  <2> QED
    BY <1>2, <2>1, <2>2 DEF HonestPayload, x
<1>5. CASE leaf = SealLeaf(r, x)
  <2>1. leaf.payload = SealedOf(r) /\ leaf = PayloadLeaf(leaf.payload)
    BY <1>5, PayloadLeafFields DEF SealLeaf, SealedOf, x
  <2>2. leaf.payload.kind = "sealed"
    BY <2>1, SealFields DEF SealedOf, SealFor
  <2> QED
    BY <1>2, <2>1, <2>2 DEF HonestPayload, x
<1> QED
  BY <1>1, <1>3, <1>4, <1>5 DEF CarriesRun

\* The producer collects all of them, each once (aeetest/build.go).
LEMMA RecordsOfRun ==
  ASSUME SubstrateInv, RecordsInv, NEW r \in Run, KeptWatch(r)
  PROVE  CarriesAll(RecordsOf(r), r)
<1> DEFINE L == {l \in signed : l.payload.runBinding = {r}}
           S == {Signed(leaf.payload, {SubstrateKey}) : leaf \in L}
           records == RecordsOf(r)
<1>1. IsFiniteSet(L)
  BY FS_Subset DEF RecordsInv
<1>2. IsFiniteSet(S)
  BY <1>1, SignedIsFinite
<1>3. records = SetToSeq(S)
  BY DEF RecordsOf
<1> HIDE DEF S, records
<1>4. /\ DOMAIN records = 1..Cardinality(S) /\ Cardinality(S) \in Nat
      /\ Elems(records) = S
      /\ \A i, j \in DOMAIN records : records[i] = records[j] => i = j
  BY <1>2, <1>3, SetAsSeq
<1>5. IsFiniteSet(DOMAIN records)
  BY <1>4, FS_Interval
<1>6. ASSUME NEW i \in DOMAIN records
      PROVE  \E leaf \in L : records[i] = Signed(leaf.payload, {SubstrateKey})
  <2>1. records[i] \in Elems(records)
    BY DEF Elems
  <2>2. records[i] \in S
    BY <1>4, <2>1
  <2> QED
    BY <2>2 DEF S
<1>7. ASSUME NEW leaf \in L
      PROVE  \E i \in DOMAIN records : records[i] = Signed(leaf.payload, {SubstrateKey})
  <2>1. Signed(leaf.payload, {SubstrateKey}) \in S
    BY DEF S
  <2>2. Signed(leaf.payload, {SubstrateKey}) \in Elems(records)
    BY <1>4, <2>1
  <2> QED
    BY <2>2 DEF Elems
<1>8. ASSUME NEW i \in DOMAIN records
      PROVE  /\ HonestPayload(records[i].payload, r)
             /\ records[i] = Signed(records[i].payload, {SubstrateKey})
             /\ PayloadLeaf(records[i].payload) \in L
  <2>1. PICK leaf \in L : records[i] = Signed(leaf.payload, {SubstrateKey})
    BY <1>6
  <2>2. records[i].payload = leaf.payload
    BY <2>1 DEF Signed
  <2> QED
    BY <2>1, <2>2, SignedOfRun
<1>9. ASSUME NEW i \in DOMAIN records, NEW j \in DOMAIN records,
             records[i].payload = records[j].payload
      PROVE  i = j
  BY <1>4, <1>8, <1>9
<1>10. CarriesRun(signed, r, run[r]) /\ run[r].phase = "sealed" /\ run[r].declared = Attack
  BY DEF RecordsInv, KeptWatch
<1>11. ArmingLeaf(r, run[r]) \in L /\ ArmingLeaf(r, run[r]).payload = ArmingOf(r)
  BY <1>10, ArmingFields, PayloadLeafFields DEF ArmingLeaf, ArmingOf, CarriesRun
<1>12. SealLeaf(r, run[r]) \in L /\ SealLeaf(r, run[r]).payload = SealedOf(r)
  BY <1>10, SealFields, PayloadLeafFields DEF SealLeaf, SealedOf, CarriesRun, SealFor
<1>13. \E i \in DOMAIN records : records[i].payload = ArmingOf(r)
  BY <1>7, <1>11 DEF Signed
<1>14. \E i \in DOMAIN records : records[i].payload = SealedOf(r)
  BY <1>7, <1>12 DEF Signed
<1>15. ASSUME NEW leaf \in run[r].seen
       PROVE  leaf \in L
  <2>1. Observation(leaf, r) /\ leaf \in signed
    BY <1>10 DEF CarriesRun, SubstrateInv, RunState
  <2> QED
    BY <2>1, ExaminationFields, InterceptionFields, PayloadLeafFields DEF Observation
<1>16. ASSUME NEW leaf
       PROVE  leaf \in run[r].seen <=>
                \E i \in DOMAIN records :
                  /\ leaf = PayloadLeaf(records[i].payload)
                  /\ records[i].payload.kind \in {"interception", "examination"}
  <2>1. ASSUME leaf \in run[r].seen
        PROVE  \E i \in DOMAIN records :
                  /\ leaf = PayloadLeaf(records[i].payload)
                  /\ records[i].payload.kind \in {"interception", "examination"}
    <3>1. leaf \in L
      BY <1>15, <2>1
    <3>2. PICK i \in DOMAIN records : records[i] = Signed(leaf.payload, {SubstrateKey})
      BY <1>7, <3>1
    <3>3. records[i].payload = leaf.payload
      BY <3>2 DEF Signed
    <3> QED
      BY <2>1, <3>1, <3>3, SignedOfRun
  <2>2. ASSUME NEW i \in DOMAIN records,
               leaf = PayloadLeaf(records[i].payload),
               records[i].payload.kind \in {"interception", "examination"}
        PROVE  leaf \in run[r].seen
    <3>1. leaf \in L /\ leaf.payload = records[i].payload
      BY <1>8, <2>2, PayloadLeafFields
    <3> QED
      BY <2>2, <3>1, SignedOfRun
  <2> QED
    BY <2>1, <2>2
<1> HIDE DEF L
<1> QED
  BY <1>5, <1>8, <1>9, <1>13, <1>14, <1>16 DEF CarriesAll, records

----------------------------------------------------------------------------
(* Those records pass the checks of payloads and kinds (validity.go) *)

\* The payloads of a complete run pass the checks of bytes and the constraints
\* of their kinds (validity.go, analyzePayload and evaluateKind).
LEMMA HonestPayloadReads ==
  ASSUME NEW r, NEW p, HonestPayload(p, r)
  PROVE  /\ p.form = "object" /\ p.canonical /\ p.runBinding = {r}
         /\ p.kind \in CoveringKinds /\ p.method \in KnownMethods
<1>1. CASE p = ArmingOf(r)
  BY <1>1 DEF ArmingOf, ArmingPayload, BlankPayload, CoveringKinds, KnownMethods
<1>2. CASE p = SealedOf(r)
  BY <1>2 DEF SealedOf, SealFor, SealedPayload, BlankPayload, CoveringKinds, KnownMethods
<1>3. CASE p = ExaminationPayload(r)
  BY <1>3 DEF ExaminationPayload, BlankPayload, CoveringKinds, KnownMethods
<1>4. ASSUME NEW value \in Value, p = InterceptionPayload(r, value)
      PROVE  /\ p.form = "object" /\ p.canonical /\ p.runBinding = {r}
             /\ p.kind \in CoveringKinds /\ p.method \in KnownMethods
  BY <1>4 DEF InterceptionPayload, BlankPayload, CoveringKinds, KnownMethods
<1> QED
  BY <1>1, <1>2, <1>3, <1>4 DEF HonestPayload

\* The arming record of a complete run covers (validity.go, evaluateKind).
LEMMA ArmingCovers ==
  ASSUME NEW r, NEW declared, Attack \subseteq declared
  PROVE  ArmingConstraintsMet(ArmingOf(r), "pinned", declared)
BY DEF ArmingOf, ArmingPayload, BlankPayload, Ids, ArmingConstraintsMet,
       ArmingChainSyntaxValid, AttackIDArrayOK

\* So does its seal, which lost no more than it allows and names only declared
\* attacks.
LEMMA SealCovers ==
  ASSUME NEW r, KeptWatch(r), run[r].drops \in Nat, NEW declared,
         run[r].named \subseteq declared, NEW postures \in SUBSET {"pinned"}
  PROVE  SealedConstraintsMet(SealedOf(r), "pinned", postures, declared)
<1> DEFINE p == SealedOf(r)
<1>1. /\ p.stillArmed = "true" /\ p.method = "intercepted" /\ p.dropCount = {run[r].drops}
      /\ p.dropBound = run[r].bound /\ p.posture = "pinned" /\ p.observedSet = {run[r].seen}
      /\ p.observedAttacks = Ids(run[r].named)
  BY DEF SealedOf, SealFor, SealedPayload, BlankPayload, KeptWatch
<1> HIDE DEF p
<1>2. AttackIDArrayOK(p.observedAttacks, declared)
  BY <1>1 DEF AttackIDArrayOK, Ids
<1>3. p.observedSet # {}
  BY <1>1
<1>4. \E dropped \in p.dropCount :
        dropped = 0 \/ \E b \in p.dropBound : dropped >= 0 /\ dropped <= b
  BY <1>1 DEF KeptWatch, WithinBound
<1> QED
  BY <1>1, <1>2, <1>3, <1>4 DEF SealedConstraintsMet, p

\* There is one arming and one seal.
LEMMA HonestPayloadKinds ==
  ASSUME NEW r, NEW p, HonestPayload(p, r)
  PROVE  /\ p.kind = "arming" <=> p = ArmingOf(r)
         /\ p.kind = "sealed" <=> p = SealedOf(r)
<1>1. ArmingOf(r).kind = "arming"
  BY ArmingFields DEF ArmingOf
<1>2. SealedOf(r).kind = "sealed"
  BY SealFields DEF SealedOf, SealFor
<1>3. ExaminationPayload(r).kind = "examination"
  BY ExaminationFields
<1>4. \A value \in Value : InterceptionPayload(r, value).kind = "interception"
  BY InterceptionFields
<1> QED
  BY <1>1, <1>2, <1>3, <1>4 DEF HonestPayload

\* Every record of a complete run meets the constraints of its kind.
LEMMA HonestPayloadCovers ==
  ASSUME NEW r, KeptWatch(r), run[r].drops \in Nat, NEW p, HonestPayload(p, r),
         NEW declared, Attack \subseteq declared, run[r].named \subseteq declared,
         NEW postures \in SUBSET {"pinned"}
  PROVE  KindConstraintsMet(p, "pinned", postures, declared)
<1>1. CASE p = ArmingOf(r)
  BY <1>1, ArmingCovers, HonestPayloadKinds DEF KindConstraintsMet
<1>2. CASE p = SealedOf(r)
  BY <1>2, SealCovers, HonestPayloadKinds DEF KindConstraintsMet
<1>3. CASE p = ExaminationPayload(r)
  <2>1. p.kind = "examination" /\ p.method = "reconstructed"
    BY <1>3 DEF ExaminationPayload, BlankPayload
  <2> QED
    BY <2>1 DEF KindConstraintsMet
<1>4. ASSUME NEW value \in Value, p = InterceptionPayload(r, value)
      PROVE  KindConstraintsMet(p, "pinned", postures, declared)
  <2>1. /\ p.kind = "interception" /\ p.method = "intercepted"
        /\ p.commitment.form = "wellFormed"
    BY <1>4 DEF InterceptionPayload, BlankPayload
  <2> QED
    BY <2>1 DEF KindConstraintsMet, InterceptionConstraintsMet, KnownMethods
<1> QED
  BY <1>1, <1>2, <1>3, <1>4 DEF HonestPayload

\* The record of such a payload reads, and is of this run (validity.go,
\* analyzePayload).
LEMMA HonestRecordReads ==
  ASSUME NEW r, NEW records, CarriesAll(records, r), NEW i \in DOMAIN records
  PROVE  /\ records[i].decodes /\ records[i].jsonType
         /\ records[i].signedBy = {SubstrateKey}
         /\ Leaf(records[i]) = PayloadLeaf(records[i].payload)
         /\ KindOf(records[i]) = records[i].payload.kind
         /\ PayloadCodes(records[i], r) = {}
<1> DEFINE p == records[i].payload
<1>1. records[i] = Signed(p, {SubstrateKey}) /\ HonestPayload(p, r)
  BY DEF CarriesAll
<1>2. /\ p.form = "object" /\ p.canonical /\ p.runBinding = {r}
      /\ p.kind \in CoveringKinds /\ p.method \in KnownMethods
  BY <1>1, HonestPayloadReads
<1>3. /\ records[i].decodes /\ records[i].jsonType
      /\ records[i].signedBy = {SubstrateKey}
  BY <1>1 DEF Signed
<1> HIDE DEF p
<1>4. Leaf(records[i]) = PayloadLeaf(p)
  BY <1>3 DEF Leaf, PayloadLeaf, p
<1>5. KindOf(records[i]) = p.kind
  BY <1>2, <1>3 DEF KindOf, p
<1>6. "absent" \notin {p.kind, p.method}
  BY <1>2 DEF CoveringKinds, KnownMethods
<1>7. PayloadCodes(records[i], r) = {}
  BY <1>2, <1>3, <1>6 DEF PayloadCodes, BindsTo, When, p
<1> QED
  BY <1>3, <1>4, <1>5, <1>7 DEF p

----------------------------------------------------------------------------
(* The statement of an honest producer (aeetest/build.go) *)

\* The statement before its result is recomputed, as Honest makes it.
Assembled(r) ==
  LET records == RecordsOf(r)
      attacks == SetToSeq(Attack)
  IN  [Skeleton[r] EXCEPT
         !.rows = [i \in DOMAIN attacks |->
                     RowFor(attacks[i], attacks[i] \in CaughtAttacks(r), records)],
         !.records = records, !.recordsForm = "array",
         !.batchRoot = [form |-> "root",
                        leaves |-> [i \in DOMAIN records |-> Leaf(records[i])]]]

\* The recompute reads the rows, the environment and the coverage.
LEMMA SameRecompute ==
  ASSUME NEW s, NEW t, s.rows = t.rows, s.env = t.env, s.coverage = t.coverage
  PROVE  Recompute(s) = Recompute(t)
<1>1. ASSUME NEW row
      PROVE  /\ RowIndirectClean(s, row) = RowIndirectClean(t, row)
             /\ RowForcesFail(s, row) = RowForcesFail(t, row)
  BY DEF RowIndirectClean, RowForcesFail, IsCaughtLabel
<1>2. CoverageIncomplete(s) = CoverageIncomplete(t)
  BY DEF CoverageIncomplete
<1>3. Allowed(s) = Allowed(t)
  BY <1>1, <1>2 DEF Allowed
<1>4. /\ Recompute(s) \in Allowed(s) /\ Least(Recompute(s), Allowed(s))
      /\ Recompute(t) \in Allowed(s) /\ Least(Recompute(t), Allowed(s))
  BY <1>3, RecomputeIsLeast
<1>5. Allowed(s) \subseteq {"pass", "pass_indirect", "degraded", "fail"}
  BY DEF Allowed, When
<1>6. /\ ResultRank(Recompute(s)) <= ResultRank(Recompute(t))
      /\ ResultRank(Recompute(t)) <= ResultRank(Recompute(s))
  BY <1>4 DEF Least
<1> QED
  BY <1>4, <1>5, <1>6, Ranks

\* What the producer fills in, and what it takes over (aeetest/build.go).
LEMMA HonestMembers ==
  ASSUME NEW r \in Run
  PROVE  LET h == Honest(r)
             k == Skeleton[r]
         IN  /\ h.parses = k.parses /\ h.typeOK = k.typeOK
             /\ h.predicateTypeOK = k.predicateTypeOK /\ h.snakeCase = k.snakeCase
             /\ h.env = k.env /\ h.coverage = k.coverage /\ h.rowsForm = k.rowsForm
             /\ h.subject = k.subject /\ h.issuedAt = k.issuedAt
             /\ h.recordsForm = "array" /\ h.records = RecordsOf(r)
             /\ h.rows = [i \in DOMAIN SetToSeq(Attack) |->
                            RowFor(SetToSeq(Attack)[i],
                                   SetToSeq(Attack)[i] \in CaughtAttacks(r), RecordsOf(r))]
             /\ h.batchRoot = [form |-> "root", leaves |->
                                 [i \in DOMAIN RecordsOf(r) |-> Leaf(RecordsOf(r)[i])]]
             /\ h.result = Recompute(h)
<1> DEFINE k == Skeleton[r]
           a == Assembled(r)
           h == Honest(r)
           records == RecordsOf(r)
           rows == [i \in DOMAIN SetToSeq(Attack) |->
                      RowFor(SetToSeq(Attack)[i],
                             SetToSeq(Attack)[i] \in CaughtAttacks(r), records)]
           root == [form |-> "root",
                    leaves |-> [i \in DOMAIN records |-> Leaf(records[i])]]
<1>1. StatementMembers \subseteq DOMAIN k
  BY SkeletonAssumption
<1>2. a = [k EXCEPT !.rows = rows, !.records = records, !.recordsForm = "array",
                    !.batchRoot = root]
  BY DEF Assembled
<1>3. h = [a EXCEPT !.result = Recompute(a)]
  BY DEF Honest, Assembled
<1> HIDE DEF k, a, h, rows, root, records
<1>4. /\ DOMAIN a = DOMAIN k
      /\ a.parses = k.parses /\ a.typeOK = k.typeOK
      /\ a.predicateTypeOK = k.predicateTypeOK /\ a.snakeCase = k.snakeCase
      /\ a.env = k.env /\ a.coverage = k.coverage /\ a.rowsForm = k.rowsForm
      /\ a.subject = k.subject /\ a.issuedAt = k.issuedAt
      /\ a.recordsForm = "array" /\ a.records = records
      /\ a.rows = rows /\ a.batchRoot = root
  BY <1>1, <1>2 DEF StatementMembers
<1>5. /\ h.parses = a.parses /\ h.typeOK = a.typeOK
      /\ h.predicateTypeOK = a.predicateTypeOK /\ h.snakeCase = a.snakeCase
      /\ h.env = a.env /\ h.coverage = a.coverage /\ h.rowsForm = a.rowsForm
      /\ h.subject = a.subject /\ h.issuedAt = a.issuedAt
      /\ h.recordsForm = a.recordsForm /\ h.records = a.records
      /\ h.rows = a.rows /\ h.batchRoot = a.batchRoot /\ h.result = Recompute(a)
  BY <1>1, <1>3, <1>4 DEF StatementMembers
<1>6. h.result = Recompute(h)
  BY <1>5, SameRecompute
<1> QED
  BY <1>4, <1>5, <1>6 DEF h, k, records, rows, root

\* One row for each attack; the attacks it reports caught are those of the run.
RowsTell(rows, r) ==
  /\ \A i \in DOMAIN rows :
       /\ rows[i].attackId \in Attack
       /\ rows[i] = RowFor(rows[i].attackId, rows[i].attackId \in CaughtAttacks(r),
                           RecordsOf(r))
       /\ \A j \in DOMAIN rows : rows[i].attackId = rows[j].attackId => i = j
  /\ \A a \in Attack : \E i \in DOMAIN rows : rows[i].attackId = a

\* The rows are made of a sequence of all the attacks.
LEMMA RowsOfRun ==
  ASSUME NEW r \in Run
  PROVE  RowsTell(Honest(r).rows, r)
<1> DEFINE q == SetToSeq(Attack)
           rows == Honest(r).rows
<1>1. /\ Elems(q) = Attack /\ \A i, j \in DOMAIN q : q[i] = q[j] => i = j
  BY AttackAssumption, SetAsSeq
<1>2. rows = [i \in DOMAIN q |-> RowFor(q[i], q[i] \in CaughtAttacks(r), RecordsOf(r))]
  BY HonestMembers
<1> HIDE DEF q, rows
<1>3. ASSUME NEW i \in DOMAIN q
      PROVE  q[i] \in Attack /\ rows[i].attackId = q[i]
             /\ rows[i] = RowFor(q[i], q[i] \in CaughtAttacks(r), RecordsOf(r))
  BY <1>1, <1>2 DEF Elems, RowFor
<1>4. DOMAIN rows = DOMAIN q
  BY <1>2
<1>5. \A a \in Attack : \E i \in DOMAIN q : q[i] = a
  BY <1>1 DEF Elems
<1> QED
  BY <1>1, <1>3, <1>4, <1>5 DEF RowsTell, rows

\* A row's references are the records of the kinds it needs.
LEMMA RefsOfRow ==
  ASSUME NEW r, NEW records, CarriesAll(records, r), NEW kinds
  PROVE  /\ RefsTo(records, kinds).form = "indexes"
         /\ Elems(RefsTo(records, kinds).idx)
              = {i \in DOMAIN records : records[i].payload.kind \in kinds}
<1> DEFINE S == {i \in DOMAIN records : records[i].payload.kind \in kinds}
<1>1. IsFiniteSet(S)
  BY FS_Subset DEF CarriesAll
<1>2. Elems(SetToSeq(S)) = S
  BY <1>1, SetAsSeq
<1> QED
  BY <1>2 DEF RefsTo

----------------------------------------------------------------------------
(* GATE 0 finds nothing in it (statement.go) *)

\* What GATE 0 asks of a statement besides its rows and its result.
FrameIsWellFormed(s) ==
  /\ When(~s.typeOK, "statement-type-unsupported") = {}
  /\ When(~s.predicateTypeOK, "predicate-type-unsupported") = {}
  /\ When(s.snakeCase, "member-spelling") = {}
  /\ EnvironmentDecodeCodes(s.env) = {} /\ EnvironmentCodes(s.env) = {}
  /\ s.env.form # "absent" /\ s.env.vocabulary.form = "object"
  /\ VocabularyCodes(s.env.vocabulary) = {}
  /\ ~IsNil(s.env.corpus.digest) /\ CorpusCodes(s) = {}
  /\ s.coverage.form \notin {"absent", "mistyped"}
  /\ s.rowsForm \notin {"absent", "mistyped"}
  /\ s.subject.count = 1 /\ s.issuedAt = "wellFormed"

\* Every code of GATE 0 but one would refuse the skeleton as well (statement.go).
LEMMA SkeletonFrame ==
  ASSUME NEW k, Gate0(k) \subseteq {"coverage-incomplete"}
  PROVE  FrameIsWellFormed(k)
<1> DEFINE only == {"coverage-incomplete"}
           hasVoc == k.env.form # "absent" /\ k.env.vocabulary.form = "object"
           hasCorpus == k.env.form # "absent" /\ ~IsNil(k.env.corpus.digest)
<1>1. ASSUME NEW fault, NEW code, code # "coverage-incomplete",
             When(fault, code) \subseteq only
      PROVE  When(fault, code) = {}
  BY <1>1 DEF When
<1>2. /\ When(~k.typeOK, "statement-type-unsupported") \subseteq only
      /\ When(~k.predicateTypeOK, "predicate-type-unsupported") \subseteq only
      /\ ParseCodes(k) \subseteq only
      /\ When(k.snakeCase, "member-spelling") \subseteq only
      /\ EnvironmentCodes(k.env) \subseteq only
      /\ hasVoc => VocabularyCodes(k.env.vocabulary) \subseteq only
      /\ hasCorpus => CorpusCodes(k) \subseteq only
      /\ When(k.coverage.form = "absent", "coverage-missing") \subseteq only
      /\ When(k.rowsForm = "absent", "statement-malformed") \subseteq only
      /\ When(k.subject.count # 1, "subject-cardinality") \subseteq only
      /\ (IF k.issuedAt = "absent" THEN {"issued-at-missing"}
          ELSE When(k.issuedAt # "wellFormed", "issued-at-malformed")) \subseteq only
  BY DEF Gate0
<1>3. /\ When(~k.typeOK, "statement-type-unsupported") = {}
      /\ When(~k.predicateTypeOK, "predicate-type-unsupported") = {}
      /\ When(k.snakeCase, "member-spelling") = {}
  BY <1>1, <1>2
<1>4. k.coverage.form # "absent" /\ k.rowsForm # "absent" /\ k.subject.count = 1
      /\ k.issuedAt = "wellFormed"
  BY <1>2 DEF When
<1>5. EnvironmentCodes(k.env) = {}
  BY <1>2 DEF EnvironmentCodes, When
<1>6. /\ k.env.form # "absent" /\ k.env.vocabulary.form = "object"
      /\ ~IsNil(k.env.corpus.digest)
  BY <1>5 DEF EnvironmentCodes, When
<1>7. VocabularyCodes(k.env.vocabulary) = {}
  BY <1>2, <1>6 DEF VocabularyCodes, When
<1>8. CorpusCodes(k) = {}
  BY <1>2, <1>6 DEF CorpusCodes, ExpectedPayloadsCodes, When
<1>9. EnvironmentDecodeCodes(k.env) = {}
  BY <1>2 DEF ParseCodes, EnvironmentDecodeCodes, When
<1>10. k.coverage.form # "mistyped" /\ k.rowsForm # "mistyped"
  BY <1>2 DEF ParseCodes, When
<1> QED
  BY <1>3, <1>4, <1>5, <1>6, <1>7, <1>8, <1>9, <1>10 DEF FrameIsWellFormed

\* What is recomputed is one of the four results (recompute.go).
LEMMA RecomputeIsToken ==
  ASSUME NEW s
  PROVE  Recompute(s) \in ResultTokens
BY RecomputeIsLeast DEF Allowed, When, ResultTokens

\* The attacks of an honest statement are those its manifest declares.
LEMMA AttacksAreDeclared ==
  ASSUME NEW r \in Run
  PROVE  DeclaredAttackIDs(Skeleton[r]) = Attack /\ Attack # {}
<1> DEFINE k == Skeleton[r]
<1>1. /\ FrameIsWellFormed(k) /\ CoveragePartitionsManifest(k)
      /\ ~CoverageIncomplete(k) /\ AssessedAttackIDs(k) = Attack
  BY SkeletonAssumption, SkeletonFrame
<1> HIDE DEF k
<1>2. DeclaredAttackIDs(k) # {}
  BY <1>1 DEF FrameIsWellFormed, CorpusCodes, When
<1>3. DeclaredAttackIDs(k) \subseteq Attack
  BY <1>1, CompleteCoverageAssessesAll
<1>4. k.env.form = "object" /\ ~IsNil(k.env.corpus.digest)
  BY <1>2 DEF DeclaredAttackIDs
<1>5. Elems(k.coverage.assessed) \subseteq DOMAIN k.env.corpus.manifest.classes
  BY <1>1 DEF CoveragePartitionsManifest, AccountedClasses
<1>6. AssessedAttackIDs(k) \subseteq DeclaredAttackIDs(k)
  BY <1>4, <1>5 DEF AssessedAttackIDs, DeclaredAttackIDs
<1> QED
  BY <1>1, <1>2, <1>3, <1>6 DEF k

\* GATE 0 finds nothing wrong with the rows and records of an honest producer.
LEMMA HonestPassesGate0 ==
  ASSUME NEW r \in Run
  PROVE  Gate0(Honest(r)) = {}
<1> DEFINE k == Skeleton[r]
           h == Honest(r)
           rows == h.rows
<1>1. /\ FrameIsWellFormed(k) /\ CoveragePartitionsManifest(k)
      /\ AssessedAttackIDs(k) = Attack /\ SubstrateBindingInputCodes(k) = {}
      /\ IsCaughtLabel(k, "caught")
  BY SkeletonAssumption, SkeletonFrame
<1>2. DeclaredAttackIDs(k) = Attack
  BY AttacksAreDeclared
<1>3. /\ h.typeOK = k.typeOK /\ h.predicateTypeOK = k.predicateTypeOK
      /\ h.snakeCase = k.snakeCase /\ h.env = k.env /\ h.coverage = k.coverage
      /\ h.rowsForm = k.rowsForm /\ h.subject = k.subject /\ h.issuedAt = k.issuedAt
      /\ h.recordsForm = "array" /\ h.result = Recompute(h)
  BY HonestMembers
<1>14. h.batchRoot.form = "root"
  <2>1. \E leaves : h.batchRoot = [form |-> "root", leaves |-> leaves]
    BY HonestMembers
  <2> QED
    BY <2>1
<1>4. h.result \in ResultTokens
  BY <1>3, RecomputeIsToken
<1>5. RowsTell(rows, r)
  BY RowsOfRun
<1> HIDE DEF k, h
<1>6. ASSUME NEW i \in DOMAIN rows
      PROVE  /\ rows[i].basis = "substrate" /\ rows[i].method = "intercepted"
             /\ rows[i].attribution = "paired"
             /\ \/ rows[i].label = "caught" /\ rows[i].actualLayer = "egress"
                \/ rows[i].label = "clean" /\ rows[i].actualLayer = "none"
             /\ rows[i].attackId \in Attack
  <2>1. /\ rows[i].attackId \in Attack
        /\ rows[i] = RowFor(rows[i].attackId, rows[i].attackId \in CaughtAttacks(r),
                            RecordsOf(r))
    BY <1>5 DEF RowsTell
  <2> DEFINE caught == rows[i].attackId \in CaughtAttacks(r)
  <2>2. rows[i].label = (IF caught THEN "caught" ELSE "clean")
        /\ rows[i].actualLayer = (IF caught THEN "egress" ELSE "none")
        /\ rows[i].basis = "substrate" /\ rows[i].method = "intercepted"
        /\ rows[i].attribution = "paired"
    BY <2>1 DEF RowFor
  <2> QED
    BY <2>1, <2>2
<1>7. ParseCodes(h) = {}
  <2>1. \A i \in DOMAIN rows : "mistyped" \notin RowMembers(rows[i])
    BY <1>6, AttackAssumption DEF RowMembers
  <2>2. h.result # "mistyped"
    BY <1>4 DEF ResultTokens
  <2>3. /\ EnvironmentDecodeCodes(h.env) = {} /\ h.coverage.form # "mistyped"
        /\ h.rowsForm # "mistyped" /\ h.issuedAt # "mistyped"
    BY <1>1, <1>3 DEF FrameIsWellFormed
  <2>4. "mistyped" \notin {h.coverage.form, h.rowsForm, h.recordsForm, h.batchRoot.form}
    BY <1>3, <1>14, <2>3
  <2> QED
    BY <2>1, <2>2, <2>3, <2>4 DEF ParseCodes, When
<1>8. \A vocabOK : RowLayerCodes(h, vocabOK) = {}
  BY <1>1, <1>3, <1>6 DEF RowLayerCodes, When, IsCaughtLabel, IsCleanLabel
<1>9. CoverageIntegrityCodes(h) = {}
  <2>1. {rows[i].attackId : i \in DOMAIN rows} = Attack
    BY <1>5 DEF RowsTell
  <2>2. AssessedAttackIDs(h) = Attack /\ DeclaredAttackIDs(h) = Attack
        /\ CoveragePartitionsManifest(h)
    BY <1>1, <1>2, <1>3 DEF AssessedAttackIDs, DeclaredAttackIDs, CoveragePartitionsManifest
  <2>3. \A i, j \in DOMAIN rows : rows[i].attackId = rows[j].attackId => i = j
    BY <1>5 DEF RowsTell
  <2> QED
    BY <2>1, <2>2, <2>3 DEF CoverageIntegrityCodes, When
<1>10. SubstrateBindingInputCodes(h) = {}
  BY <1>1, <1>3 DEF SubstrateBindingInputCodes
<1>11. CorpusCodes(h) = {}
  <2>1. CorpusCodes(h) = CorpusCodes(k)
    BY <1>3 DEF CorpusCodes, ExpectedPayloadsCodes, DeclaredAttackIDs
  <2> QED
    BY <1>1, <2>1 DEF FrameIsWellFormed
<1>12. /\ When(~h.typeOK, "statement-type-unsupported") = {}
       /\ When(~h.predicateTypeOK, "predicate-type-unsupported") = {}
       /\ When(h.snakeCase, "member-spelling") = {}
       /\ EnvironmentCodes(h.env) = {} /\ VocabularyCodes(h.env.vocabulary) = {}
       /\ h.coverage.form # "absent" /\ h.rowsForm # "absent"
       /\ h.subject.count = 1 /\ h.issuedAt = "wellFormed"
  BY <1>1, <1>3 DEF FrameIsWellFormed
<1> HIDE DEF rows
<1> QED
  BY <1>4, <1>7, <1>8, <1>9, <1>10, <1>11, <1>12 DEF Gate0, When, h

----------------------------------------------------------------------------
(* GATE 1 finds nothing in it (validity.go, commitments.go) *)

\* The records of a run tell what the rows have to report.
LEMMA CaughtOfRun ==
  ASSUME SubstrateInv, RecordsInv, NEW r \in Run
  PROVE  /\ CaughtAttacks(r) \subseteq Attack /\ run[r].named \subseteq CaughtAttacks(r)
         /\ CaughtAttacks(r) # {} <=>
              \E leaf \in run[r].seen : leaf.payload.kind = "interception"
<1>1. /\ run[r].named \subseteq Attack
      /\ run[r].named # {} => \E leaf \in run[r].seen : leaf.payload.kind = "interception"
  BY DEF SubstrateInv, RecordsInv, CarriesRun, RunState
<1>2. (CHOOSE a \in Attack : TRUE) \in Attack
  BY AttacksAreDeclared
<1> QED
  BY <1>1, <1>2 DEF CaughtAttacks

\* What a row of an honest statement says and what it refers to.
KindsFor(caught) == IF caught THEN {"interception"} ELSE {"arming", "sealed"}

RowSays(s, row, caught) ==
  /\ row.basis = "substrate" /\ row.method = "intercepted" /\ row.attribution = "paired"
  /\ row.label \in s.env.vocabulary.labels
  /\ IsCaughtLabel(s, row.label) <=> caught
  /\ IsCleanLabel(s, row.label) <=> ~caught
  /\ row.refs.form = "indexes"
  /\ ReadableRefs(row)
       = {j \in DOMAIN s.records : s.records[j].payload.kind \in KindsFor(caught)}
  /\ Elems(row.refs.idx) = ReadableRefs(row)

\* A row is caught or clean as the run says, and refers to the records it needs.
LEMMA HonestRow ==
  ASSUME SubstrateInv, RecordsInv, NEW r \in Run, KeptWatch(r),
         NEW i \in DOMAIN Honest(r).rows
  PROVE  LET row == Honest(r).rows[i]
         IN  RowSays(Honest(r), row, row.attackId \in CaughtAttacks(r))
<1> DEFINE h == Honest(r)
           row == h.rows[i]
           caught == row.attackId \in CaughtAttacks(r)
           records == RecordsOf(r)
<1>1. h.env = Skeleton[r].env /\ h.records = records
  BY HonestMembers
<1>2. row = RowFor(row.attackId, caught, records)
  BY RowsOfRun DEF RowsTell
<1>3. CarriesAll(records, r)
  BY RecordsOfRun
<1>4. /\ "clean" \in h.env.vocabulary.labels \ h.env.vocabulary.caught
      /\ "caught" \in h.env.vocabulary.labels \cap h.env.vocabulary.caught
  BY <1>1, SkeletonAssumption DEF IsCaughtLabel, IsCleanLabel
<1> HIDE DEF h, records, row
<1>5. /\ row.basis = "substrate" /\ row.method = "intercepted"
      /\ row.attribution = "paired"
      /\ row.label = (IF caught THEN "caught" ELSE "clean")
      /\ row.refs = RefsTo(records, KindsFor(caught))
  BY <1>2 DEF RowFor, KindsFor
<1> HIDE DEF caught
<1>6. /\ row.refs.form = "indexes"
      /\ Elems(row.refs.idx)
           = {j \in DOMAIN records : records[j].payload.kind \in KindsFor(caught)}
  BY <1>3, <1>5, RefsOfRow
<1>7. /\ row.label \in h.env.vocabulary.labels
      /\ IsCaughtLabel(h, row.label) <=> caught
      /\ IsCleanLabel(h, row.label) <=> ~caught
  BY <1>4, <1>5 DEF IsCaughtLabel, IsCleanLabel
<1>8. RowSays(h, row, caught)
  BY <1>1, <1>5, <1>6, <1>7 DEF RowSays, ReadableRefs
<1> QED
  BY <1>8 DEF h, row, caught

\* The statement of a complete run, as far as GATE 1 reads it.
LEMMA HonestFrame ==
  ASSUME NEW r \in Run
  PROVE  LET h == Honest(r)
         IN  /\ RunBinding(h) = r /\ h.env.posture.digest = "pinned"
             /\ DeclaredAttackIDs(h) = Attack /\ AssessedAttackIDs(h) = Attack
             /\ h.issuedAt = "wellFormed" /\ ~CoverageIncomplete(h)
<1> DEFINE k == Skeleton[r]
           h == Honest(r)
<1>1. /\ h.env = k.env /\ h.coverage = k.coverage /\ h.subject = k.subject
      /\ h.issuedAt = k.issuedAt
  BY HonestMembers
<1>2. /\ RunBinding(k) = r /\ AssessedAttackIDs(k) = Attack /\ ~CoverageIncomplete(k)
      /\ FrameIsWellFormed(k)
  BY SkeletonAssumption, SkeletonFrame
<1>3. DeclaredAttackIDs(k) = Attack
  BY AttacksAreDeclared
<1> HIDE DEF k, h
<1>4. RunBinding(h) = r
  BY <1>1, <1>2 DEF RunBinding
<1>5. h.env.posture.digest = "pinned"
  <2>1. r.networkPosture = h.env.posture
    BY <1>4 DEF RunBinding
  <2> QED
    BY <2>1, PostureAssumption
<1>6. DeclaredAttackIDs(h) = Attack /\ AssessedAttackIDs(h) = Attack
  BY <1>1, <1>2, <1>3 DEF DeclaredAttackIDs, AssessedAttackIDs
<1>7. h.issuedAt = "wellFormed" /\ ~CoverageIncomplete(h)
  BY <1>1, <1>2 DEF FrameIsWellFormed, CoverageIncomplete
<1> QED
  BY <1>4, <1>5, <1>6, <1>7 DEF h

\* Every kind of record a row refers to is there.
LEMMA KindsAreThere ==
  ASSUME SubstrateInv, RecordsInv, NEW r \in Run, KeptWatch(r), NEW caught,
         caught => CaughtAttacks(r) # {}, NEW kind \in KindsFor(caught)
  PROVE  \E i \in DOMAIN RecordsOf(r) : RecordsOf(r)[i].payload.kind = kind
<1> DEFINE records == RecordsOf(r)
<1>1. CarriesAll(records, r)
  BY RecordsOfRun
<1> HIDE DEF records
<1>2. CASE kind = "arming"
  BY <1>1, <1>2, ArmingFields DEF CarriesAll, ArmingOf, records
<1>3. CASE kind = "sealed"
  BY <1>1, <1>3, SealFields DEF CarriesAll, SealedOf, SealFor, records
<1>4. CASE kind = "interception" /\ caught
  <2>1. PICK leaf \in run[r].seen : leaf.payload.kind = "interception"
    BY <1>4, CaughtOfRun
  <2>2. PICK i \in DOMAIN records : leaf = PayloadLeaf(records[i].payload)
    BY <1>1 DEF CarriesAll
  <2>3. leaf.payload = records[i].payload
    BY <2>2, PayloadLeafFields
  <2> QED
    BY <1>4, <2>1, <2>3 DEF records
<1> QED
  BY <1>2, <1>3, <1>4 DEF KindsFor

\* All but an examination is taken at the vantage (aeetest/build.go).
LEMMA VantagePayload ==
  ASSUME NEW r, NEW p, HonestPayload(p, r), p.kind # "examination"
  PROVE  p.method = "intercepted"
<1>1. ArmingOf(r).method = "intercepted"
  BY DEF ArmingOf, ArmingPayload, BlankPayload
<1>2. SealedOf(r).method = "intercepted"
  BY DEF SealedOf, SealFor, SealedPayload, BlankPayload
<1>3. \A value \in Value : InterceptionPayload(r, value).method = "intercepted"
  BY DEF InterceptionPayload, BlankPayload
<1> QED
  BY <1>1, <1>2, <1>3, ExaminationFields DEF HonestPayload

\* The checks of one substrate row find nothing (validity.go, checkSubstrateRow).
LEMMA HonestRowIsCovered ==
  ASSUME SubstrateInv, RecordsInv, NEW r \in Run, KeptWatch(r),
         NEW i \in DOMAIN Honest(r).rows
  PROVE  /\ SubstrateRowCodes(Honest(r), Honest(r).rows[i], r) = {}
         /\ \A j \in Covering(Honest(r), Honest(r).rows[i]) : j \in DOMAIN Honest(r).records
<1> DEFINE h == Honest(r)
           row == h.rows[i]
           caught == row.attackId \in CaughtAttacks(r)
           records == RecordsOf(r)
<1>1. h.records = records /\ CarriesAll(records, r)
  BY HonestMembers, RecordsOfRun
<1>2. RowSays(h, row, caught)
  BY HonestRow
<1>3. h.env.posture.digest = "pinned" /\ DeclaredAttackIDs(h) = Attack
  BY HonestFrame
<1>4. \A kind \in KindsFor(caught) :
        \E j \in DOMAIN records : records[j].payload.kind = kind
  BY KindsAreThere
<1>5. run[r].named \subseteq Attack /\ run[r].drops \in Nat
  BY DEF SubstrateInv, RunState
<1> HIDE DEF h, row, caught, records
<1>6. /\ ReadableRefs(row)
           = {j \in DOMAIN records : records[j].payload.kind \in KindsFor(caught)}
      /\ Resolved(h, row) = ReadableRefs(row)
  BY <1>1, <1>2 DEF RowSays, Resolved
<1>7. ~RowFailsClosed(h, row)
  BY <1>2 DEF RowSays, RowFailsClosed, KnownMethods, KnownAttributions
<1>8. RefShapeCodes(row) = {}
  <2>1. ReadableRefs(row) # {}
    BY <1>4, <1>6 DEF KindsFor
  <2>2. row.refs.idx # << >>
    BY <1>2, <2>1 DEF RowSays, Elems
  <2> QED
    BY <1>2, <2>2 DEF RefShapeCodes, RowSays, When
<1>9. \A j \in DOMAIN records : PayloadCodes(records[j], r) = {}
  BY <1>1, HonestRecordReads
<1>10. RequiredKinds(h, row) = KindsFor(caught)
  BY <1>2 DEF RowSays, RequiredKinds, KindsFor
<1>11. ArmingPostures(h, row) \in SUBSET {"pinned"}
  <2>1. ArmingOf(r).posture = "pinned"
    BY DEF ArmingOf, ArmingPayload, BlankPayload
  <2>2. ASSUME NEW j \in DOMAIN records, records[j].payload.kind = "arming"
        PROVE  records[j].payload.posture = "pinned"
    BY <1>1, <2>1, <2>2, HonestPayloadKinds DEF CarriesAll
  <2> QED
    BY <1>1, <1>6, <2>2 DEF ArmingPostures
<1>12. ASSUME NEW j \in DOMAIN records
       PROVE  KindConstraintsMet(h.records[j].payload, h.env.posture.digest,
                                 ArmingPostures(h, row), DeclaredAttackIDs(h))
  BY <1>1, <1>3, <1>5, <1>11, HonestPayloadCovers DEF CarriesAll
<1>13. ASSUME NEW kind \in KindsFor(caught)
       PROVE  /\ ValidOfKind(h, row, kind) # {}
              /\ \A j \in ValidOfKind(h, row, kind) :
                   j \in DOMAIN records /\ records[j].payload.kind = kind
  <2>1. PICK j \in DOMAIN records : records[j].payload.kind = kind
    BY <1>4
  <2>2. j \in ValidOfKind(h, row, kind)
    BY <1>1, <1>6, <1>12, <2>1 DEF ValidOfKind
  <2> QED
    BY <1>1, <1>6, <2>2 DEF ValidOfKind
<1>14. ASSUME NEW j \in Covering(h, row)
       PROVE  j \in DOMAIN records /\ records[j].payload.method = "intercepted"
  <2>1. /\ j \in DOMAIN records
        /\ records[j].payload.kind \in KindsFor(caught)
    BY <1>10, <1>13 DEF Covering
  <2>2. records[j].payload.kind # "examination"
    BY <2>1 DEF KindsFor
  <2> QED
    BY <1>1, <2>1, <2>2, VantagePayload DEF CarriesAll
<1>15. ClassMatchCodes(h, row) = {}
  <2>1. \A kind \in RequiredKinds(h, row) : ValidOfKind(h, row, kind) # {}
    BY <1>10, <1>13
  <2>2. \A j \in Covering(h, row) : h.records[j].payload.method # "reconstructed"
    BY <1>1, <1>14
  <2> QED
    BY <2>1, <2>2 DEF ClassMatchCodes, When
<1>16. SubstrateRowCodes(h, row, r) = {}
  <2>1. UNION {PayloadCodes(h.records[j], r) : j \in Resolved(h, row)} = {}
    BY <1>1, <1>6, <1>9
  <2>2. ReadableRefs(row) \subseteq DOMAIN h.records
    BY <1>1, <1>6
  <2> QED
    BY <1>7, <1>8, <1>15, <2>1, <2>2 DEF SubstrateRowCodes
<1> QED
  BY <1>1, <1>14, <1>16 DEF h, row

\* The record set and its root (validity.go, checkRecordsStatementLevel).
LEMMA HonestRecordSet ==
  ASSUME SubstrateInv, RecordsInv, NEW r \in Run, KeptWatch(r)
  PROVE  /\ RecordSetCodes(Honest(r)) = {} /\ ~NoRecords(Honest(r))
         /\ ~AnyRefOutOfRange(Honest(r))
<1> DEFINE h == Honest(r)
           records == RecordsOf(r)
<1>1. /\ h.records = records /\ CarriesAll(records, r)
      /\ h.batchRoot = [form |-> "root",
                        leaves |-> [i \in DOMAIN records |-> Leaf(records[i])]]
  BY HonestMembers, RecordsOfRun
<1>2. ASSUME NEW i \in DOMAIN h.rows
      PROVE  ReadableRefs(h.rows[i]) \subseteq DOMAIN h.records
  BY HonestRow DEF RowSays
<1> HIDE DEF h, records
<1>3. records # << >>
  BY <1>1 DEF CarriesAll
<1>4. ASSUME NEW i \in DOMAIN records
      PROVE  /\ records[i].decodes
             /\ records[i].signedBy = {SubstrateKey}
             /\ Leaf(records[i]) = PayloadLeaf(records[i].payload)
  BY <1>1, HonestRecordReads
<1>5. ASSUME NEW i \in DOMAIN records, NEW j \in DOMAIN records,
             Leaf(records[i]) = Leaf(records[j])
      PROVE  i = j
  <2>1. records[i].payload = records[j].payload
    BY <1>4, <1>5, PayloadLeafFields
  <2> QED
    BY <1>1, <2>1 DEF CarriesAll
<1>6. h.batchRoot.form = "root"
      /\ h.batchRoot.leaves = [i \in DOMAIN records |-> Leaf(records[i])]
  BY <1>1
<1>7. RecordSetCodes(h) = {}
  <2>1. /\ ~ \E i \in DOMAIN records : records[i].signedBy = {}
        /\ ~ \E i \in DOMAIN records : ~records[i].decodes
    BY <1>4
  <2>2. ~ \E i, j \in DOMAIN records :
             /\ i # j /\ records[i].decodes /\ records[j].decodes
             /\ Leaf(records[i]) = Leaf(records[j])
    BY <1>5
  <2> QED
    BY <1>1, <1>3, <1>6, <2>1, <2>2 DEF RecordSetCodes, NoRecords, When
<1> QED
  BY <1>1, <1>2, <1>3, <1>7 DEF NoRecords, AnyRefOutOfRange, h

\* The requirements on interceptions and attribution (commitments.go).
LEMMA HonestInterceptions ==
  ASSUME SubstrateInv, RecordsInv, NEW r \in Run, KeptWatch(r)
  PROVE  AnyBasisCommitmentCodes(Honest(r)) = {}
<1> DEFINE h == Honest(r)
           rows == h.rows
           records == h.records
           caught(i) == rows[i].attackId \in CaughtAttacks(r)
<1>1. CarriesAll(records, r) /\ RowsTell(rows, r)
  BY HonestMembers, RecordsOfRun, RowsOfRun
<1>2. ASSUME NEW i \in DOMAIN rows
      PROVE  RowSays(h, rows[i], caught(i))
  BY HonestRow
<1>3. ASSUME NEW j \in DOMAIN records
      PROVE  KindOf(records[j]) = records[j].payload.kind
  BY <1>1, HonestRecordReads
<1> HIDE DEF h
<1>4. ASSUME NEW i \in DOMAIN rows
      PROVE  Resolved(h, rows[i])
               = {j \in DOMAIN records : records[j].payload.kind \in KindsFor(caught(i))}
  BY <1>2 DEF RowSays, Resolved
<1>5. ~CleanRowContradicted(h)
  <2>1. ASSUME NEW i \in DOMAIN rows, IsCleanLabel(h, rows[i].label),
               NEW j \in Resolved(h, rows[i]), KindOf(records[j]) = "interception"
        PROVE  FALSE
    <3>1. ~caught(i)
      BY <1>2, <2>1 DEF RowSays
    <3>2. j \in DOMAIN records /\ records[j].payload.kind \in {"arming", "sealed"}
      BY <1>4, <2>1, <3>1 DEF KindsFor
    <3> QED
      BY <1>3, <2>1, <3>2
  <2> QED
    BY <2>1 DEF CleanRowContradicted, RowResolves
<1>6. ~InterceptionOrphaned(h)
  <2>1. ASSUME NEW j \in DOMAIN records, KindOf(records[j]) = "interception"
        PROVE  \E i \in DOMAIN rows : /\ IsCaughtLabel(h, rows[i].label)
                                      /\ j \in Resolved(h, rows[i])
    <3>1. records[j].payload.kind = "interception"
      BY <1>3, <2>1
    <3>2. PayloadLeaf(records[j].payload) \in run[r].seen
      BY <1>1, <3>1 DEF CarriesAll
    <3>3. CaughtAttacks(r) # {} /\ CaughtAttacks(r) \subseteq Attack
      BY <3>1, <3>2, CaughtOfRun, PayloadLeafFields
    <3>4. PICK i \in DOMAIN rows : caught(i)
      BY <1>1, <3>3 DEF RowsTell
    <3>5. IsCaughtLabel(h, rows[i].label)
      BY <1>2, <3>4 DEF RowSays
    <3>6. j \in Resolved(h, rows[i])
      BY <1>4, <3>1, <3>4 DEF KindsFor
    <3> QED
      BY <3>5, <3>6
  <2> QED
    BY <2>1 DEF InterceptionOrphaned
<1>7. AttributionCodes(h) = {}
  <2>1. \A i \in DOMAIN rows : PinnedRowCodes(h, rows[i]) = {}
    BY <1>2 DEF RowSays, PinnedRowCodes
  <2> QED
    BY <2>1 DEF AttributionCodes
<1> QED
  BY <1>5, <1>6, <1>7 DEF AnyBasisCommitmentCodes, When, h

\* The requirements on the seal and on what the run was armed for
\* (commitments.go).
LEMMA HonestCommitments ==
  ASSUME SubstrateInv, RecordsInv, NEW r \in Run, KeptWatch(r)
  PROVE  SubstrateCommitmentCodes(Honest(r)) = {}
<1> DEFINE h == Honest(r)
           rows == h.rows
           records == h.records
<1>1. CarriesAll(records, r) /\ RowsTell(rows, r)
  BY HonestMembers, RecordsOfRun, RowsOfRun
<1>2. /\ RunBinding(h) = r /\ h.env.posture.digest = "pinned"
      /\ DeclaredAttackIDs(h) = Attack /\ AssessedAttackIDs(h) = Attack
  BY HonestFrame
<1>3. ASSUME NEW j \in DOMAIN records
      PROVE  /\ KindOf(records[j]) = records[j].payload.kind
             /\ PayloadCodes(records[j], r) = {}
             /\ Leaf(records[j]) = PayloadLeaf(records[j].payload)
             /\ HonestPayload(records[j].payload, r)
  <2>1. HonestPayload(records[j].payload, r)
    BY <1>1 DEF CarriesAll
  <2> HIDE DEF records
  <2> QED
    BY <1>1, <2>1, HonestRecordReads
<1>4. ASSUME NEW i \in DOMAIN rows, rows[i].attackId \in CaughtAttacks(r)
      PROVE  IsCaughtLabel(h, rows[i].label)
  BY <1>4, HonestRow DEF RowSays
<1>5. /\ SealedOf(r).observedSet = {run[r].seen} /\ SealedOf(r).kind = "sealed"
      /\ SealedOf(r).observedAttacks = Ids(run[r].named)
  BY SealFields DEF SealedOf, SealFor
<1>6. ArmingOf(r).assessed = Ids(Attack)
  BY ArmingFields DEF ArmingOf
<1>7. /\ run[r].named \subseteq CaughtAttacks(r) /\ CaughtAttacks(r) \subseteq Attack
      /\ run[r].drops \in Nat
  BY CaughtOfRun DEF SubstrateInv, RunState
<1> HIDE DEF h
<1>8. ObservedLeaves(h) = run[r].seen
  <2>1. ASSUME NEW leaf
        PROVE  leaf \in ObservedLeaves(h) <=> leaf \in run[r].seen
    BY <1>1, <1>3 DEF ObservedLeaves, CarriesAll
  <2> QED
    BY <2>1
<1>9. ASSUME NEW j \in BoundOfKind(h, "sealed")
      PROVE  j \in DOMAIN records /\ records[j].payload = SealedOf(r)
  BY <1>3, HonestPayloadKinds DEF BoundOfKind
<1>10. ASSUME NEW j \in BoundOfKind(h, "arming")
       PROVE  j \in DOMAIN records /\ records[j].payload = ArmingOf(r)
  BY <1>3, HonestPayloadKinds DEF BoundOfKind
<1>11. ~ObservedSetMismatch(h)
  BY <1>5, <1>8, <1>9 DEF ObservedSetMismatch
<1>12. ASSUME NEW j \in DOMAIN records
       PROVE  CoversAlone(h, j)
  BY <1>2, <1>3, <1>7, HonestPayloadCovers DEF CoversAlone
<1>13. ~SealedRecordAbsent(h)
  <2>1. PICK j \in DOMAIN records : records[j].payload = SealedOf(r)
    BY <1>1 DEF CarriesAll
  <2>2. KindOf(records[j]) = "sealed" /\ PayloadCodes(records[j], r) = {}
    BY <1>3, <1>5, <2>1
  <2>3. j \in ReadableCovering(h)
    BY <1>2, <2>2 DEF ReadableCovering, CoveringKinds
  <2> QED
    BY <1>12, <2>2, <2>3 DEF SealedRecordAbsent
<1>14. CarriedRecordCodes(h) = {}
  BY <1>12 DEF CarriedRecordCodes, ReadableCovering
<1>15. ~SealNamedAttackUncaught(h)
  <2>1. ASSUME NEW id \in run[r].named
        PROVE  \E i \in DOMAIN rows : /\ IsCaughtLabel(h, rows[i].label)
                                      /\ rows[i].attackId = id
    BY <1>1, <1>4, <1>7 DEF RowsTell
  <2> QED
    BY <1>5, <1>9, <2>1 DEF SealNamedAttackUncaught, Ids
<1>16. ~AssessedSetUndeclared(h)
  BY <1>2, <1>6, <1>10 DEF AssessedSetUndeclared, Ids
<1> QED
  BY <1>11, <1>13, <1>14, <1>15, <1>16 DEF SubstrateCommitmentCodes, When, h

\* No record, no row and no commitment is at fault (gate1WithContext).
LEMMA HonestPassesGate1 ==
  ASSUME SubstrateInv, RecordsInv, NEW r \in Run, KeptWatch(r)
  PROVE  Gate1(Honest(r)) = {}
<1> DEFINE h == Honest(r)
<1>1. /\ RecordSetCodes(h) = {} /\ ~AnyRefOutOfRange(h)
      /\ AnyBasisCommitmentCodes(h) = {} /\ SubstrateCommitmentCodes(h) = {}
  BY HonestRecordSet, HonestInterceptions, HonestCommitments
<1>2. RunBinding(h) = r /\ h.issuedAt = "wellFormed" /\ h.recordsForm = "array"
  BY HonestFrame, HonestMembers
<1>3. \A i \in DOMAIN h.rows : SubstrateRowCodes(h, h.rows[i], r) = {}
  BY HonestRowIsCovered
<1> HIDE DEF h
<1>4. AllSubstrateRowCodes(h) = {}
  BY <1>2, <1>3 DEF AllSubstrateRowCodes
<1> QED
  BY <1>1, <1>2, <1>4 DEF Gate1, When, RecordsPresent, h

----------------------------------------------------------------------------
(* It is admitted, with the result its run calls for (verify.go) *)

\* What the rows come to: a fail when one of them reports an attack caught.
LEMMA HonestResult ==
  ASSUME SubstrateInv, RecordsInv, NEW r \in Run, KeptWatch(r)
  PROVE  Recompute(Honest(r)) = IF CaughtAttacks(r) = {} THEN "pass" ELSE "fail"
<1> DEFINE h == Honest(r)
           caught(i) == h.rows[i].attackId \in CaughtAttacks(r)
<1>1. ASSUME NEW i \in DOMAIN h.rows
      PROVE  RowSays(h, h.rows[i], caught(i))
  BY HonestRow
<1>2. RowsTell(h.rows, r) /\ ~CoverageIncomplete(h) /\ CaughtAttacks(r) \subseteq Attack
  BY RowsOfRun, HonestFrame, CaughtOfRun
<1> HIDE DEF h
<1>3. CASE CaughtAttacks(r) # {}
  <2>1. PICK i \in DOMAIN h.rows : caught(i)
    BY <1>2, <1>3 DEF RowsTell
  <2>2. RowForcesFail(h, h.rows[i])
    BY <1>1, <2>1 DEF RowSays, RowForcesFail
  <2> QED
    BY <1>3, <2>2, FailRecomputed DEF h
<1>4. CASE CaughtAttacks(r) = {}
  <2>1. ASSUME NEW i \in DOMAIN h.rows
        PROVE  ~RowForcesFail(h, h.rows[i]) /\ ~RowIndirectClean(h, h.rows[i])
    BY <1>1, <1>4 DEF RowSays, RowForcesFail, RowIndirectClean, KnownBases,
                      KnownMethods, KnownAttributions
  <2>2. Allowed(h) = {"pass"}
    BY <1>2, <2>1 DEF Allowed, When
  <2> QED
    BY <1>4, <2>2, RecomputeIsLeast DEF h
<1> QED
  BY <1>3, <1>4

\* The rows are attested by the substrate's key, so the consumer admits them.
LEMMA HonestIsAdmitted ==
  ASSUME SubstrateInv, RecordsInv, NEW r \in Run, KeptWatch(r),
         NEW policy \in Policy, Expects(policy, r)
  PROVE  LET report == Verify(Honest(r), policy)
         IN  /\ report.verdict = "valid" /\ report.admitted
             /\ report.result = Recompute(Honest(r))
<1> DEFINE h == Honest(r)
<1>1. /\ h.parses = Skeleton[r].parses /\ h.env = Skeleton[r].env
      /\ h.result = Recompute(h)
  BY HonestMembers
<1>2. Skeleton[r].parses
  BY SkeletonAssumption
<1>3. EvaluateCodes(h) = {}
  BY <1>1, <1>2, HonestPassesGate0, HonestPassesGate1 DEF EvaluateCodes, ParseError, When
<1>4. CarriesAll(h.records, r) /\ RunBinding(h) = r
  BY HonestMembers, RecordsOfRun, HonestFrame
<1>5. SubstrateKey \in policy.keys
  BY DEF Expects
<1>6. ASSUME NEW i \in DOMAIN h.rows
      PROVE  /\ SubstrateRowCodes(h, h.rows[i], r) = {}
             /\ \A j \in Covering(h, h.rows[i]) : RecordVerifies(h.records[j], policy.keys)
  BY <1>4, <1>5, HonestRowIsCovered, HonestRecordReads DEF RecordVerifies
<1>7. RecordSignaturesOK(h, policy.keys)
  BY <1>4, <1>6 DEF RecordSignaturesOK
<1>8. TierPolicySatisfied(h, DeriveTiers(h, policy))
  BY <1>3, <1>7, TiersAreSignatures
<1>9. AnchorPolicyCodes(h, policy) = {}
  BY <1>1 DEF AnchorPolicyCodes, Expects
<1> HIDE DEF h
<1>10. Verify(h, policy) = ConsumerReport(h, policy)
  BY <1>3 DEF Verify
<1>11. /\ ConsumerReport(h, policy).verdict = "valid"
       /\ ConsumerReport(h, policy).result = h.result
       /\ ConsumerReport(h, policy).admitted
            = (TierPolicySatisfied(h, DeriveTiers(h, policy))
               /\ AnchorPolicyCodes(h, policy) = {})
  BY DEF ConsumerReport
<1> QED
  BY <1>1, <1>8, <1>9, <1>10, <1>11 DEF h

----------------------------------------------------------------------------
(* Theorems *)

\* The state is well typed, and a substrate has signed what it has seen.
THEOREM TypeCorrect == Spec => []TypeOK
<1>1. IInv => TypeOK
  BY DEF IInv, SubstrateInv, TypeOK
<1> QED
  BY <1>1, Invariance, PTL

\* What the substrate signed in a run is in its seen set, and the seal of a run
\* says what the run, then over, came to (aeetest/build.go).
THEOREM SealsTell == Spec => []SealsTellTheRun
<1>1. IInv => SealsTellTheRun
  <2> SUFFICES ASSUME SubstrateInv PROVE SealsTellTheRun
    BY DEF IInv
  <2>1. ASSUME NEW r \in Run, NEW leaf \in signed, NEW kind,
               IsClaimOf(leaf, r, kind)
        PROVE  leaf.payload.kind = kind /\ TrueOf(leaf, r, run[r])
    BY <2>1 DEF SubstrateInv, IsClaimOf
  <2> QED
    BY <2>1 DEF SealsTellTheRun, TrueOf, SealFor, SealOf
<1> QED
  BY <1>1, Invariance, PTL

\* A consumer relies on a run only when it is over, nothing disturbed it and it
\* lost no more than its seal allows, for any runs, attacks and statements: what
\* the producer left out, added or took from another run is refused (verify.go,
\* validity.go, commitments.go, tier.go).
THEOREM PassesAreQuiet == Spec => []PassMeansQuietRun
<1>1. IInv => PassMeansQuietRun
  BY DEF IInv
<1> QED
  BY <1>1, Invariance, PTL

\* One admitted clean vantage row obliges the statement to carry every
\* observation of the run and to report caught what the substrate named
\* (commitments.go, sealsCommitToCarriedSet and sealNamedAttacksCaught).
THEOREM CleanRowsCarryTheRun == Spec => []CleanRowCarriesTheRun
<1>1. IInv => CleanRowCarriesTheRun
  BY DEF IInv
<1> QED
  BY <1>1, Invariance, PTL

\* No admitted clean vantage row stands for an attack the substrate was not
\* armed for (commitments.go, assessedSetDeclared).
THEOREM CleanRowsWereArmedFor == Spec => []CleanRowWasArmedFor
<1>1. IInv => CleanRowWasArmedFor
  BY DEF IInv
<1> QED
  BY <1>1, Invariance, PTL

\* A channel the probe finds demonstrated in an admitted statement was caught
\* (scripts/liveness-probe.py, row_state and sealed_attacks).
THEOREM DemonstratedIsNoPretence == Spec => []DemonstratedMeansCaught
<1>1. IInv => DemonstratedMeansCaught
  BY DEF IInv
<1> QED
  BY <1>1, Invariance, PTL

\* The rules refuse no honest run, whatever was intercepted in it and however
\* many attacks there are: its statement is valid and admitted, with the result
\* the interceptions call for.
THEOREM HonestRunsAreAccepted == Spec => []HonestRunIsAccepted
<1>1. SubstrateInv /\ RecordsInv => HonestRunIsAccepted
  BY HonestIsAdmitted, HonestResult DEF HonestRunIsAccepted, KeptWatch
<1> QED
  BY <1>1, RecordsInvariance, PTL

----------------------------------------------------------------------------
(* The refinement of AeeContract *)

LEMMA InitContract == Init => Contract!Init
BY DEF Init, Contract!Init, Disturbed, Fresh

\* A step that leaves alone what the contract speaks of is a stutter.
LEMMA QuietStep ==
  ASSUME \A r \in Run : /\ Disturbed(r)' <=> Disturbed(r)
                        /\ run'[r].phase = "sealed" <=> run[r].phase = "sealed"
                        /\ run'[r].drops = run[r].drops /\ run'[r].bound = run[r].bound,
         relied' = relied
  PROVE  UNCHANGED Contract!vars
BY DEF Contract!vars

LEMMA NextContract == IInv /\ IInv' /\ [Next]_vars => [Contract!Next]_Contract!vars
<1> SUFFICES ASSUME IInv, IInv', [Next]_vars
             PROVE  [Contract!Next]_Contract!vars
  OBVIOUS
<1> USE DEF IInv, SubstrateInv
<1>1. ASSUME NEW r \in Run, NEW attacks, Arm(r, attacks)
      PROVE  [Contract!Next]_Contract!vars
  <2>1. \A q \in Run : /\ Disturbed(q)' <=> Disturbed(q)
                       /\ run'[q].phase = "sealed" <=> run[q].phase = "sealed"
                       /\ run'[q].drops = run[q].drops /\ run'[q].bound = run[q].bound
    BY <1>1 DEF Arm, Disturbed, RunState
  <2> QED
    BY <1>1, <2>1, QuietStep DEF Arm
<1>2. ASSUME NEW r \in Run, NEW value, NEW attacks, Intercept(r, value, attacks)
      PROVE  [Contract!Next]_Contract!vars
  <2> DEFINE leaf == PayloadLeaf(InterceptionPayload(r, value))
  <2>1. leaf.payload.kind = "interception"
    BY InterceptionFields, PayloadLeafFields
  <2>2. /\ run[r].phase = "open" /\ run[r] \in RunState
        /\ run' = [run EXCEPT ![r] = [run[r] EXCEPT !.seen  = @ \cup {leaf},
                                                    !.named = @ \cup attacks]]
    BY <1>2 DEF Intercept, Watching
  <2> HIDE DEF leaf
  <2>3. /\ Disturbed(r)' /\ run'[r].phase = "open"
        /\ run'[r].drops = run[r].drops /\ run'[r].bound = run[r].bound
    BY <2>1, <2>2 DEF Disturbed, RunState
  <2>4. \A q \in Run \ {r} : run'[q] = run[q]
    BY <2>2
  <2>5. Contract!Disturb(r)
    BY <1>2, <2>2, <2>3, <2>4 DEF Contract!Disturb, Disturbed, Intercept
  <2> QED
    BY <2>5 DEF Contract!Next
<1>3. ASSUME NEW r \in Run, Examine(r)
      PROVE  [Contract!Next]_Contract!vars
  <2> DEFINE leaf == PayloadLeaf(ExaminationPayload(r))
  <2>1. leaf.payload.kind = "examination"
    BY ExaminationFields, PayloadLeafFields
  <2>2. /\ run[r].phase = "open" /\ run[r] \in RunState /\ relied' = relied
        /\ run' = [run EXCEPT ![r] = [run[r] EXCEPT !.seen = @ \cup {leaf}]]
    BY <1>3 DEF Examine
  <2> HIDE DEF leaf
  <2>3. \A q \in Run : /\ Disturbed(q)' <=> Disturbed(q)
                       /\ run'[q].phase = "sealed" <=> run[q].phase = "sealed"
                       /\ run'[q].drops = run[q].drops /\ run'[q].bound = run[q].bound
    BY <2>1, <2>2 DEF Disturbed, RunState
  <2> QED
    BY <2>2, <2>3, QuietStep
<1>4. ASSUME NEW r \in Run, Disturb(r)
      PROVE  [Contract!Next]_Contract!vars
  <2>1. run[r].phase = "open" /\ run[r] \in RunState
    BY <1>4 DEF Disturb
  <2>2. \A q \in Run \ {r} : run'[q] = run[q]
    BY <1>4 DEF Disturb
  <2>3. CASE run[r].drops < MaxDrops /\ run' = [run EXCEPT ![r].drops = @ + 1]
    <3>1. /\ run'[r].phase = "open" /\ run'[r].drops = run[r].drops + 1
          /\ run'[r].bound = run[r].bound
          /\ Disturbed(r)' <=> Disturbed(r)
      BY <2>1, <2>3 DEF Disturbed, RunState
    <3>2. \A q \in Run : /\ Disturbed(q)' <=> Disturbed(q)
                         /\ run'[q].phase = "sealed" <=> run[q].phase = "sealed"
                         /\ run'[q].bound = run[q].bound
      BY <2>1, <2>2, <3>1 DEF Disturbed
    <3>3. [q \in Run |-> run'[q].drops]
            = [[q \in Run |-> run[q].drops] EXCEPT ![r] = run[r].drops + 1]
      BY <2>2, <3>1
    <3>4. relied' = relied
      BY <1>4 DEF Disturb
    <3>5. Contract!Lose(r)
      BY <2>1, <3>2, <3>3, <3>4 DEF Contract!Lose
    <3> QED
      BY <3>5 DEF Contract!Next
  <2>4. CASE \/ run' = [run EXCEPT ![r].armed = FALSE]
             \/ run' = [run EXCEPT ![r].posture = "drifted"]
    <3>1. /\ run'[r].phase = "open" /\ Disturbed(r)'
          /\ run'[r].drops = run[r].drops /\ run'[r].bound = run[r].bound
      BY <2>1, <2>4 DEF Disturbed, RunState
    <3>2. Contract!Disturb(r)
      BY <1>4, <2>1, <2>2, <3>1 DEF Contract!Disturb, Disturbed, Disturb
    <3> QED
      BY <3>2 DEF Contract!Next
  <2> QED
    BY <1>4, <2>3, <2>4 DEF Disturb
<1>5. ASSUME NEW r \in Run, NEW bound \in DropBound, Seal(r, bound)
      PROVE  [Contract!Next]_Contract!vars
  <2>1. /\ run[r].phase = "open" /\ run[r] \in RunState /\ relied' = relied
        /\ run' = [run EXCEPT ![r] = [run[r] EXCEPT !.phase = "sealed", !.bound = bound]]
    BY <1>5 DEF Seal
  <2>2. \A q \in Run : Disturbed(q)' <=> Disturbed(q)
    BY <2>1 DEF Disturbed, RunState
  <2>3. /\ run'[r].phase = "sealed" /\ run'[r].drops = run[r].drops
        /\ run'[r].bound = bound /\ \A q \in Run \ {r} : run'[q] = run[q]
    BY <2>1 DEF RunState
  <2>4. Contract!End(r, bound)
    BY <2>1, <2>2, <2>3 DEF Contract!End
  <2> QED
    BY <2>4 DEF Contract!Next
<1>6. ASSUME NEW s \in Statement, NEW policy \in Policy, Submit(s, policy)
      PROVE  [Contract!Next]_Contract!vars
  <2> DEFINE r == RunBinding(s)
  <2>1. run' = run
    BY <1>6 DEF Submit
  <2>2. \A q \in Run : Disturbed(q)' <=> Disturbed(q)
    BY <2>1 DEF Disturbed
  <2>3. CASE relied' = relied
    BY <2>1, <2>2, <2>3, QuietStep
  <2>4. CASE relied' = relied \cup {r} /\ r \notin relied
    <3>1. r \in Run /\ run[r].phase = "sealed" /\ ~Disturbed(r) /\ WithinBound(r)
      BY <2>1, <2>4 DEF PassMeansQuietRun, Disturbed, WithinBound
    <3>2. Contract!Trust(r)
      BY <2>1, <2>2, <2>4, <3>1 DEF Contract!Trust, WithinBound
    <3> QED
      BY <3>1, <3>2 DEF Contract!Next
  <2> QED
    BY <1>6, <2>3, <2>4 DEF Submit
<1>7. ASSUME UNCHANGED <<run, relied>>
      PROVE  [Contract!Next]_Contract!vars
  BY <1>7, QuietStep DEF Disturbed
<1> QED
  BY <1>1, <1>2, <1>3, <1>4, <1>5, <1>6, <1>7 DEF Next, vars, Forget

\* The runs, any producer and the consumer together implement the contract.
THEOREM RunsImplementContract == Spec => ImplementsContract
BY InitContract, NextContract, Invariance, PTL DEF Spec, Contract!Spec, ImplementsContract

=============================================================================
