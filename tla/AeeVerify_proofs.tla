-------------------------- MODULE AeeVerify_proofs --------------------------
(***************************************************************************)
(* Theorems about one caller of the verification core, for every set of    *)
(* statements and policies. The inductive invariant says what each stage   *)
(* has established of the statement in hand: a stage is reached only when  *)
(* those before it reported nothing.                                       *)
(*                                                                         *)
(* The second half is about the two rails. Each check of the one is set    *)
(* beside the check of the other that asks the same; where they differ,    *)
(* either some other check of both fails too, or ReadAlike excludes it.    *)
(***************************************************************************)
EXTENDS AeeRails, AeeResult_proofs, WellFoundedInduction

----------------------------------------------------------------------------
(* Reports *)

\* Every tier DeriveTiers derives is one of the three (tier.go).
LEMMA TierValues ==
  ASSUME NEW s, NEW policy
  PROVE  /\ DOMAIN DeriveTiers(s, policy) = DOMAIN s.rows
         /\ \A i \in DOMAIN s.rows :
              DeriveTiers(s, policy)[i] \in {"declared", "unattested", "attested"}
BY DEF DeriveTiers, RowTier

LEMMA ConsumerReportWellFormed ==
  ASSUME NEW s, NEW policy, s.result \in ResultTokens
  PROVE  WellFormed(ConsumerReport(s, policy))
<1> DEFINE tiers == DeriveTiers(s, policy)
           policyCodes == AnchorPolicyCodes(s, policy)
           admitted == /\ TierPolicySatisfied(s, tiers)
                       /\ policyCodes = {}
<1>1. admitted \in BOOLEAN
  OBVIOUS
<1>2. \A i \in DOMAIN tiers : tiers[i] \in {"declared", "unattested", "attested"}
  BY TierValues
<1>3. ConsumerReport(s, policy) =
        [verdict |-> "valid", codes |-> {}, result |-> s.result,
         tiers |-> tiers, policyCodes |-> policyCodes, admitted |-> admitted]
  BY DEF ConsumerReport
<1> HIDE DEF tiers, policyCodes, admitted
<1> QED
  BY <1>1, <1>2, <1>3 DEF WellFormed

LEMMA EmitReportWellFormed ==
  ASSUME NEW s, s.result \in ResultTokens
  PROVE  WellFormed(EmitReport(s))
BY DEF WellFormed, EmitReport

LEMMA InvalidReportWellFormed ==
  ASSUME NEW codes, codes # {}
  PROVE  WellFormed(InvalidReport(codes))
BY DEF WellFormed, InvalidReport

LEMMA TheMember ==
  ASSUME NEW set, set # {}
  PROVE  The(set) \in set
BY DEF The

----------------------------------------------------------------------------
(* The inductive invariant *)

\* What has been established of the call's statement when the call is where it
\* is: every stage before the current one was silent.
StagesSilent ==
  \A c \in call :
    LET s == c.statement IN
    /\ stage \in {"gate0", "gate1", "recompute", "sealed"} => ParseError(s) = {}
    /\ stage \in {"gate1", "recompute", "sealed"} => Gate0(s) = {}
    /\ stage \in {"recompute", "sealed"} => Gate1(s) = {}
    /\ stage = "sealed" => Recompute(s) = s.result /\ context = {s}
    /\ stage = "returned" => context \subseteq {s}

\* The whole report of a finished call is the one its function computes.
Reported ==
  \A c \in call, r \in report :
    /\ r.verdict = "invalid" => r = InvalidReport(EvaluateCodes(c.statement))
    /\ r.verdict = "valid" => EvaluateCodes(c.statement) = {}
    /\ c.function = "Verify" => r = Verify(c.statement, c.policy)
    /\ c.function = "VerifyForEmit" /\ r.verdict = "valid"
         => r = EmitReport(c.statement)

IInv == TypeOK /\ StagesSilent /\ Reported

LEMMA InitIInv == Init => IInv
BY DEF Init, IInv, TypeOK, StagesSilent, Reported, Stages, AtMostOne

\* While a call is under way there is exactly one, and the variables speak of it.
LEMMA OneCall ==
  ASSUME TypeOK, stage # "idle"
  PROVE  call = {The(call)} /\ Input = The(call).statement
BY TheMember DEF TypeOK, AtMostOne, Input

\* A stage that reports codes ends the call with them, whichever function it is.
LEMMA StageReports ==
  ASSUME IInv, NEW codes, codes # {}, codes = EvaluateCodes(Input),
         stage \notin {"idle", "returned"},
         stage' = "returned", report' = {InvalidReport(codes)},
         call' = call, context' \subseteq {Input}
  PROVE  IInv'
<1> DEFINE c == The(call)
<1>1. call = {c} /\ Input = c.statement
  BY OneCall DEF IInv
<1>2. WellFormed(InvalidReport(codes))
  BY InvalidReportWellFormed
<1>3. InvalidReport(codes).verdict = "invalid"
  BY DEF InvalidReport
<1>4. Verify(c.statement, c.policy) = InvalidReport(codes)
  BY <1>1 DEF Verify
<1> HIDE DEF c
<1>5. TypeOK'
  BY <1>1, <1>2 DEF IInv, TypeOK, Stages, AtMostOne
<1>6. StagesSilent'
  BY <1>1 DEF StagesSilent
<1>7. Reported'
  BY <1>1, <1>3, <1>4 DEF Reported
<1> QED
  BY <1>5, <1>6, <1>7 DEF IInv

\* A stage that reports nothing hands the statement to the next one.
LEMMA StagePasses ==
  ASSUME IInv, NEW from \in Stages, NEW to \in Stages,
         stage = from, stage' = to,
         from \notin {"idle", "returned"}, to \notin {"idle", "returned"},
         UNCHANGED <<call, report>>,
         context' \subseteq {Input}
  PROVE  TypeOK' /\ Reported'
<1>1. call = {The(call)} /\ Input = The(call).statement
  BY OneCall DEF IInv
<1>2. report = {} /\ report' = {}
  BY DEF IInv, TypeOK
<1>3. TypeOK'
  BY <1>1, <1>2 DEF IInv, TypeOK, Stages, AtMostOne
<1>4. Reported'
  BY <1>2 DEF Reported
<1> QED
  BY <1>3, <1>4

\* Every step of a call preserves the invariant.
LEMMA NextIInv == IInv /\ [Next]_vars => IInv'
<1> SUFFICES ASSUME IInv, [Next]_vars PROVE IInv'
  OBVIOUS
<1> USE DEF Gate
<1>1. ASSUME NEW function \in Functions, NEW s \in Statement, NEW policy \in Policy,
             Start(function, s, policy)
      PROVE  IInv'
  <2>1. call = {} /\ report = {} /\ context = {}
    BY <1>1 DEF IInv, TypeOK, Start
  <2>2. \E c : /\ call' = {c} /\ c.function \in Functions /\ c.policy \in Policy
               /\ stage' = "parse" /\ context' = {} /\ report' = {}
    BY <1>1, <2>1 DEF Start
  <2>3. TypeOK'
    BY <2>2 DEF TypeOK, Stages, AtMostOne
  <2> QED
    BY <1>1, <2>1, <2>3 DEF IInv, StagesSilent, Reported, Start
<1>2. ASSUME Parse PROVE IInv'
  <2>1. call = {The(call)} /\ Input = The(call).statement /\ context' \subseteq {Input}
    BY <1>2, OneCall DEF Parse, IInv, TypeOK
  <2>2. CASE ParseError(Input) = {}
    <3>1. TypeOK' /\ Reported'
      BY <1>2, <2>1, <2>2, StagePasses DEF Parse, Stages
    <3>2. StagesSilent'
      BY <1>2, <2>1, <2>2 DEF Parse, StagesSilent
    <3> QED BY <3>1, <3>2 DEF IInv
  <2>3. CASE ParseError(Input) # {}
    BY <1>2, <2>1, <2>3, StageReports DEF Parse, EvaluateCodes
  <2> QED BY <2>2, <2>3
<1>3. ASSUME CheckGate0 PROVE IInv'
  <2>1. call = {The(call)} /\ Input = The(call).statement /\ context' \subseteq {Input}
    BY <1>3, OneCall DEF CheckGate0, IInv, TypeOK
  <2>2. ParseError(Input) = {}
    BY <1>3, <2>1 DEF CheckGate0, IInv, StagesSilent
  <2>3. CASE Gate0(Input) = {}
    <3>1. TypeOK' /\ Reported'
      BY <1>3, <2>1, <2>3, StagePasses DEF CheckGate0, Stages
    <3>2. StagesSilent'
      BY <1>3, <2>1, <2>2, <2>3 DEF CheckGate0, StagesSilent
    <3> QED BY <3>1, <3>2 DEF IInv
  <2>4. CASE Gate0(Input) # {}
    BY <1>3, <2>1, <2>2, <2>4, StageReports DEF CheckGate0, EvaluateCodes
  <2> QED BY <2>3, <2>4
<1>4. ASSUME CheckGate1 PROVE IInv'
  <2>1. call = {The(call)} /\ Input = The(call).statement /\ context' \subseteq {Input}
    BY <1>4, OneCall DEF CheckGate1, IInv, TypeOK
  <2>2. ParseError(Input) = {} /\ Gate0(Input) = {}
    BY <1>4, <2>1 DEF CheckGate1, IInv, StagesSilent
  <2>3. CASE Gate1(Input) = {}
    <3>1. TypeOK' /\ Reported'
      BY <1>4, <2>1, <2>3, StagePasses DEF CheckGate1, Stages
    <3>2. StagesSilent'
      BY <1>4, <2>1, <2>2, <2>3 DEF CheckGate1, StagesSilent
    <3> QED BY <3>1, <3>2 DEF IInv
  <2>4. CASE Gate1(Input) # {}
    BY <1>4, <2>1, <2>2, <2>4, StageReports DEF CheckGate1, EvaluateCodes
  <2> QED BY <2>3, <2>4
<1>5. ASSUME CheckResult PROVE IInv'
  <2>1. call = {The(call)} /\ Input = The(call).statement /\ context' \subseteq {Input}
    BY <1>5, OneCall DEF CheckResult, IInv, TypeOK
  <2>2. ParseError(Input) = {} /\ Gate0(Input) = {} /\ Gate1(Input) = {}
    BY <1>5, <2>1 DEF CheckResult, IInv, StagesSilent
  <2>3. CASE Recompute(Input) = Input.result
    <3>0. When(Recompute(Input) # Input.result, "result-recompute-mismatch") = {}
            /\ context' = {Input}
      BY <1>5, <2>3 DEF CheckResult, When
    <3>1. TypeOK' /\ Reported'
      BY <1>5, <2>1, <3>0, StagePasses DEF CheckResult, Stages
    <3>2. StagesSilent'
      BY <1>5, <2>1, <2>2, <2>3, <3>0 DEF CheckResult, StagesSilent
    <3> QED BY <3>1, <3>2 DEF IInv
  <2>4. CASE Recompute(Input) # Input.result
    <3>1. /\ EvaluateCodes(Input) # {}
          /\ EvaluateCodes(Input) =
               When(Recompute(Input) # Input.result, "result-recompute-mismatch")
      BY <2>2, <2>4 DEF EvaluateCodes, When
    <3> QED
      BY <1>5, <2>1, <3>1, StageReports DEF CheckResult
  <2> QED BY <2>3, <2>4
<1>6. ASSUME Return PROVE IInv'
  <2> DEFINE c == The(call)
  <2>1. call = {c} /\ Input = c.statement
    BY <1>6, OneCall DEF Return, IInv
  <2>2. /\ ParseError(Input) = {} /\ Gate0(Input) = {} /\ Gate1(Input) = {}
        /\ Recompute(Input) = Input.result /\ context = {Input}
    BY <1>6, <2>1 DEF Return, IInv, StagesSilent
  <2>3. The(context) = Input /\ EvaluateCodes(Input) = {} /\ Input.result \in ResultTokens
    BY <2>2, TheMember, Gate0Silent DEF EvaluateCodes, When
  <2>4. Verify(Input, c.policy) = ConsumerReport(Input, c.policy)
    BY <2>3 DEF Verify
  <2>5. /\ WellFormed(ConsumerReport(Input, c.policy)) /\ WellFormed(EmitReport(Input))
        /\ ConsumerReport(Input, c.policy).verdict = "valid"
        /\ EmitReport(Input).verdict = "valid"
    BY <2>3, ConsumerReportWellFormed, EmitReportWellFormed DEF ConsumerReport, EmitReport
  <2>6. \E r : /\ report' = {r} /\ WellFormed(r) /\ r.verdict = "valid"
               /\ c.function = "Verify" => r = Verify(c.statement, c.policy)
               /\ c.function = "VerifyForEmit" => r = EmitReport(c.statement)
    BY <1>6, <2>1, <2>3, <2>4, <2>5 DEF Return
  <2> HIDE DEF c
  <2>7. TypeOK'
    BY <1>6, <2>1, <2>6 DEF Return, IInv, TypeOK, Stages, AtMostOne
  <2>8. StagesSilent'
    BY <1>6, <2>1, <2>2 DEF Return, StagesSilent
  <2>9. Reported'
    BY <1>6, <2>1, <2>3, <2>6 DEF Return, Reported
  <2> QED
    BY <2>7, <2>8, <2>9 DEF IInv
<1>7. ASSUME Finish PROVE IInv'
  BY <1>7 DEF Finish, IInv, TypeOK, StagesSilent, Reported, Stages, AtMostOne
<1>8. ASSUME UNCHANGED vars PROVE IInv'
  BY <1>8 DEF vars, IInv, TypeOK, StagesSilent, Reported, Input
<1> QED
  BY <1>1, <1>2, <1>3, <1>4, <1>5, <1>6, <1>7, <1>8 DEF Next, Step

LEMMA Invariance == Spec => []IInv
BY InitIInv, NextIInv, PTL DEF Spec

\* The statement of a call is one a caller may hand in, to the end of the call.
Received == \A c \in call : c.statement \in Statement

LEMMA StatementsReceived == Spec => []Received
<1>1. Init => Received
  BY DEF Init, Received
<1>2. Received /\ [Next]_vars => Received'
  <2> SUFFICES ASSUME Received, [Next]_vars PROVE Received'
    OBVIOUS
  <2>1. ASSUME call' = call PROVE Received'
    BY <2>1 DEF Received
  <2>2. ASSUME NEW function \in Functions, NEW s \in Statement, NEW policy \in Policy,
               Start(function, s, policy)
        PROVE  Received'
    BY <2>2 DEF Start, Received
  <2>3. ASSUME Finish PROVE Received'
    BY <2>3 DEF Finish, Received
  <2> QED
    BY <2>1, <2>2, <2>3 DEF Next, Step, Parse, CheckGate0, CheckGate1, CheckResult,
                            Gate, Return, vars
<1> QED
  BY <1>1, <1>2, PTL DEF Spec

\* A statement found valid passed every stage, and is one a caller decoded.
LEMMA ValidIsDecoded ==
  ASSUME IInv, Received, NEW s \in ValidInputs
  PROVE  EvaluateCodes(s) = {} /\ Decoded(s)
<1>1. PICK c \in call, r \in report : s = c.statement /\ r.verdict = "valid"
  BY DEF ValidInputs
<1> QED
  BY <1>1, StatementAssumption DEF IInv, Reported, Received

----------------------------------------------------------------------------
(* Theorems *)

\* The state is well typed, a report is well formed, and one is there exactly
\* when the call has returned (verify.go).
THEOREM TypeCorrect == Spec => []TypeOK
<1>1. IInv => TypeOK
  BY DEF IInv
<1> QED
  BY <1>1, Invariance, PTL

\* The branches the code calls defensive or unreachable are (validity.go, the
\* issuedAt parse of GATE 1; tier.go, the re-check of a validated row).
THEOREM DefensiveBranchesAreUnreached == Spec => []DefensiveBranchesUnreached
<1>1. IInv => DefensiveBranchesUnreached
  <2> SUFFICES ASSUME IInv PROVE DefensiveBranchesUnreached
    OBVIOUS
  <2>1. ASSUME stage = "gate1"
        PROVE  /\ Input.env.form \notin {"absent", "mistyped"}
               /\ Input.env.vocabulary.form = "object"
               /\ Input.coverage.form \notin {"absent", "mistyped"}
               /\ DeclaredAttackIDs(Input) # {}
               /\ ~IsNil(Input.env.posture.digest)
               /\ Input.issuedAt = "wellFormed"
    <3>1. Gate0(Input) = {}
      BY <2>1, OneCall DEF IInv, StagesSilent
    <3> QED
      BY <3>1, Gate0Silent
  <2>2. ASSUME stage = "sealed", NEW i \in DOMAIN Input.rows, IsSubstrate(Input.rows[i])
        PROVE  SubstrateRowCodes(Input, Input.rows[i], RunBinding(Input)) = {}
    <3>1. Gate1(Input) = {}
      BY <2>2, OneCall DEF IInv, StagesSilent
    <3>2. HasSubstrateRows(Input)
      BY <2>2 DEF HasSubstrateRows
    <3> QED
      BY <2>2, <3>1, <3>2, Gate1SilentSubstrate
  <2> QED
    BY <2>1, <2>2 DEF DefensiveBranchesUnreached
<1> QED
  BY <1>1, Invariance, PTL

\* A statement that carries an interception is valid only with result fail,
\* whatever its rows claim (commitments.go, interceptionsOrphaned; recompute.go).
THEOREM CarriedInterceptionsForceFail == Spec => []CarriedInterceptionForcesFail
<1>1. IInv => CarriedInterceptionForcesFail
  <2> SUFFICES ASSUME IInv, NEW s \in ValidInputs,
                      NEW i \in DOMAIN s.records, KindOf(s.records[i]) = "interception"
               PROVE  s.result = "fail"
    BY DEF CarriedInterceptionForcesFail
  <2>1. EvaluateCodes(s) = {}
    BY DEF ValidInputs, IInv, Reported
  <2> QED
    BY <2>1, CarriedInterceptionFails
<1> QED
  BY <1>1, Invariance, PTL

\* Between a manifest, the coverage and the rows of a valid statement no attack is
\* lost or counted twice: each has one row, or a class excluded by name and a
\* result that says so (statement.go, gate0CoverageIntegrity; recompute.go).
THEOREM AttacksAreAccounted == Spec => []EveryAttackIsAccounted
<1>1. IInv /\ Received => EveryAttackIsAccounted
  <2> SUFFICES ASSUME IInv, Received, NEW s \in ValidInputs, NEW id \in DeclaredAttackIDs(s)
               PROVE  \/ /\ Cardinality(RowsOf(s, id)) = 1
                         /\ ExcludedFor(s, id) = {}
                      \/ /\ RowsOf(s, id) = {} /\ ExcludedFor(s, id) # {}
                         /\ s.result \in {"degraded", "fail"}
    BY DEF EveryAttackIsAccounted, RowsOf, ExcludedFor
  <2>1. EvaluateCodes(s) = {} /\ Decoded(s)
    BY ValidIsDecoded
  <2> QED
    BY <2>1, AttackAccounted
<1> QED
  BY <1>1, Invariance, StatementsReceived, PTL

\* A valid pass has a clean substrate row, an arming record and a seal of this
\* run behind every attack it declares (recompute.go, validity.go,
\* commitments.go).
THEOREM PassesAreWitnessed == Spec => []PassIsWitnessed
<1>1. IInv /\ Received => PassIsWitnessed
  <2>1. ASSUME IInv, Received, NEW s \in ValidInputs, s.result = "pass"
        PROVE  /\ DeclaredAttackIDs(s) # {}
               /\ \A id \in DeclaredAttackIDs(s) : Witnessed(s, id)
    <3>1. EvaluateCodes(s) = {} /\ Decoded(s)
      BY <2>1, ValidIsDecoded
    <3>2. DeclaredAttackIDs(s) # {}
      BY <3>1, EvaluateSilent, Gate0Silent
    <3> QED
      BY <2>1, <3>1, <3>2, PassRestsOnSubstrate
  <2>2. ASSUME IInv, Received
        PROVE  \A s \in ValidInputs : s.result = "pass" =>
                 /\ DeclaredAttackIDs(s) # {}
                 /\ \A id \in DeclaredAttackIDs(s) : Witnessed(s, id)
    BY <2>1, <2>2
  <2> QED
    BY <2>2, Zenon DEF PassIsWitnessed, Witnessed
<1> QED
  BY <1>1, Invariance, StatementsReceived, PTL

\* What the producer's check accepts under some keys, a consumer that trusts
\* exactly those admits, and nothing else (tier.go, CheckRecordSignatures and
\* DeriveTiers): neither side can be right about a statement alone.
THEOREM QACheckIsAdmission == Spec => []QACheckPredictsAdmission
<1>1. IInv => QACheckPredictsAdmission
  <2> SUFFICES ASSUME IInv, NEW c \in call, NEW r \in report, c.function = "Verify",
                      r.verdict = "valid", r.policyCodes = {}
               PROVE  r.admitted <=> RecordSignaturesOK(c.statement, c.policy.keys)
    BY DEF QACheckPredictsAdmission
  <2> DEFINE s == c.statement
  <2>1. EvaluateCodes(s) = {} /\ r = ConsumerReport(s, c.policy)
    BY DEF IInv, Reported, Verify
  <2>2. r.admitted <=> TierPolicySatisfied(s, DeriveTiers(s, c.policy))
    BY <2>1 DEF ConsumerReport
  <2> QED
    BY <2>1, <2>2, TiersAreSignatures
<1> QED
  BY <1>1, Invariance, PTL

----------------------------------------------------------------------------
(* The operators both rails read a statement with *)

\* The instance of the reference rail has definitions of its own for what both
\* rails extend: they are the same (AeeStatement).
LEMMA SameReading ==
  /\ \A fault, code : Reference!When(fault, code) = When(fault, code)
  /\ \A seq : Reference!Elems(seq) = Elems(seq)
  /\ \A d : Reference!IsNil(d) <=> IsNil(d)
  /\ \A d : Reference!EmptyDigest(d) <=> EmptyDigest(d)
  /\ \A rec : Reference!Leaf(rec) = Leaf(rec)
  /\ \A m, c : Reference!ClassAttacks(m, c) = ClassAttacks(m, c)
  /\ \A s : Reference!RunBinding(s) = RunBinding(s)
  /\ \A set : Reference!Cardinality(set) = Cardinality(set)
<1>1. \A seq : Reference!Elems(seq) = Elems(seq)
  BY DEF Reference!Elems, Elems
<1>2. \A d : Reference!IsNil(d) <=> IsNil(d)
  BY DEF Reference!IsNil, IsNil
<1>3. \A d : Reference!EmptyDigest(d) <=> EmptyDigest(d)
  BY <1>2 DEF Reference!EmptyDigest, EmptyDigest
<1>4. \A fault, code : Reference!When(fault, code) = When(fault, code)
  BY DEF Reference!When, When
<1>5. \A m, c : Reference!ClassAttacks(m, c) = ClassAttacks(m, c)
  BY <1>1 DEF Reference!ClassAttacks, ClassAttacks
<1>6. \A rec : Reference!Leaf(rec) = Leaf(rec)
  BY DEF Reference!Leaf, Leaf
<1>7. \A s : Reference!RunBinding(s) = RunBinding(s)
  BY DEF Reference!RunBinding, RunBinding
<1>8. \A set : Reference!Cardinality(set) = Cardinality(set)
  BY DEF Reference!Cardinality, Cardinality
<1> QED
  BY <1>1, <1>2, <1>3, <1>4, <1>5, <1>6, <1>7, <1>8

LEMMA SameAssessed ==
  ASSUME NEW s PROVE Reference!AssessedAttackIDs(s) = AssessedAttackIDs(s)
BY SameReading DEF Reference!AssessedAttackIDs, AssessedAttackIDs

\* Whatever a check of the reference rail reports is in its refusal: no check
\* waits for another (run_vectors.py, verify).
LEMMA ReferenceReports ==
  ASSUME NEW s, s.parses
  PROVE  /\ Reference!CheckStatementType(s) \subseteq Reference!Codes(s)
         /\ Reference!CheckGate0Wellformed(s) \subseteq Reference!Codes(s)
         /\ Reference!CheckVocabulary(s) \subseteq Reference!Codes(s)
         /\ Reference!CheckCorpus(s) \subseteq Reference!Codes(s)
         /\ When(s.subject.count # 1, "subject-cardinality") \subseteq Reference!Codes(s)
         /\ Reference!CheckCoverage(s) \subseteq Reference!Codes(s)
         /\ Reference!CheckPerRowStatements(s) \subseteq Reference!Codes(s)
         /\ Reference!CheckSubstrateBindingInputs(s) \subseteq Reference!Codes(s)
         /\ Reference!CheckFailClosedRows(s) \subseteq Reference!Codes(s)
         /\ Reference!CheckRecords(s) \subseteq Reference!Codes(s)
         /\ Reference!CheckGate1Coverage(s) \subseteq Reference!Codes(s)
         /\ Reference!CheckCommitments(s) \subseteq Reference!Codes(s)
         /\ Reference!CheckResultRecompute(s) \subseteq Reference!Codes(s)
BY SameReading DEF Reference!Codes

----------------------------------------------------------------------------
(* GATE 0 on both rails *)

\* An environment is an object or absent, and its members are there or missing.
LEMMA EnvironmentForms ==
  ASSUME NEW s, Decoded(s), WellTyped(s)
  PROVE  /\ s.env.form \in {"object", "absent"}
         /\ s.env.form = "object" <=> Reference!HasEnv(s)
         /\ \A d \in {s.env.substrate, s.env.catchPolicy, s.env.runEntropy,
                      s.env.posture.digest, s.env.corpus.digest} :
              IsNil(d) <=> ~Reference!HasMember(d)
         /\ Reference!HasVocab(s) <=>
              s.env.form = "object" /\ s.env.vocabulary.form = "object"
         /\ s.env.corpus.manifest.form # "absent" <=> s.env.corpus.manifest.form = "object"
         /\ Reference!HasManifest(s) <=>
              /\ s.env.form = "object" /\ ~IsNil(s.env.corpus.digest)
              /\ s.env.corpus.manifest.form = "object"
BY SameReading
   DEF Decoded, WellTyped, Reference!HasEnv, Reference!HasMember, IsNil,
       Reference!HasVocab, Reference!Vocab, Reference!HasManifest, Reference!Manifest,
       Reference!IsDict

LEMMA EnvironmentShared ==
  ASSUME NEW s, s.parses, Decoded(s), WellTyped(s)
  PROVE  EnvironmentCodes(s.env) \subseteq Reference!Codes(s)
<1>1. EnvironmentCodes(s.env) \subseteq Reference!CheckGate0Wellformed(s)
  <2> DEFINE missing == \E d \in {s.env.substrate, s.env.corpus.digest, s.env.catchPolicy,
                                 s.env.posture.digest} :
                          ~Reference!HasEnv(s) \/ ~Reference!HasMember(d)
             unknown == /\ Reference!HasEnv(s)
                        /\ Reference!IsDict(s.env.posture.digest)
                        /\ ~s.env.posture.registered
  <2>1. /\ When(missing, "environment-incomplete") \subseteq Reference!CheckGate0Wellformed(s)
        /\ When(~Reference!HasVocab(s), "vocabulary-missing")
             \subseteq Reference!CheckGate0Wellformed(s)
        /\ When(unknown, "posture-vocabulary") \subseteq Reference!CheckGate0Wellformed(s)
    BY SameReading DEF Reference!CheckGate0Wellformed
  <2>2. CASE s.env.form = "absent"
    <3>1. missing /\ ~Reference!HasVocab(s)
      BY <2>2, EnvironmentForms
    <3> QED
      BY <2>1, <2>2, <3>1 DEF EnvironmentCodes, When
  <2>3. CASE s.env.form = "object"
    <3>1. /\ missing <=> \/ IsNil(s.env.substrate) \/ IsNil(s.env.catchPolicy)
                         \/ IsNil(s.env.corpus.digest) \/ IsNil(s.env.posture.digest)
          /\ Reference!HasVocab(s) <=> s.env.vocabulary.form = "object"
          /\ unknown <=> ~IsNil(s.env.posture.digest) /\ ~s.env.posture.registered
      BY <2>3, EnvironmentForms, SameReading DEF Reference!IsDict
    <3> QED
      BY <2>1, <2>3, <3>1 DEF EnvironmentCodes, When
  <2> QED
    BY <2>2, <2>3, EnvironmentForms
<1> QED
  BY <1>1, ReferenceReports

\* The rails read the same attacks from a manifest that is there.
LEMMA SameDeclared ==
  ASSUME NEW s, Decoded(s), WellTyped(s), Reference!HasManifest(s)
  PROVE  /\ Reference!DeclaredAttacks(s) = DeclaredAttackIDs(s)
         /\ Reference!Classes(s) = DOMAIN s.env.corpus.manifest.classes
         /\ DOMAIN s.env.corpus.manifest.classes # {} => Reference!HasClasses(s)
<1> DEFINE m == s.env.corpus.manifest
<1>1. s.env.form = "object" /\ ~IsNil(s.env.corpus.digest)
  BY EnvironmentForms
<1>2. Reference!HasClasses(s) <=> m.classesPresent
  BY DEF Reference!HasClasses, Reference!Manifest
<1>3. ~m.classesPresent => DOMAIN m.classes = {}
  BY DEF Decoded
<1>4. Reference!Classes(s) = DOMAIN m.classes
  BY <1>2, <1>3 DEF Reference!Classes, Reference!Manifest
<1>5. DeclaredAttackIDs(s) = UNION {ClassAttacks(m, c) : c \in DOMAIN m.classes}
  BY <1>1 DEF DeclaredAttackIDs
<1>6. Reference!DeclaredAttacks(s) = UNION {ClassAttacks(m, c) : c \in DOMAIN m.classes}
  BY <1>4, SameReading DEF Reference!DeclaredAttacks, Reference!Manifest
<1> QED
  BY <1>2, <1>3, <1>4, <1>5, <1>6

LEMMA VocabularyShared ==
  ASSUME NEW s, Decoded(s), WellTyped(s), Reference!HasVocab(s)
  PROVE  Reference!CheckVocabulary(s) = VocabularyCodes(s.env.vocabulary)
<1> DEFINE voc == s.env.vocabulary
<1>1. Reference!HasLabels(s) <=> voc.labelsPresent /\ voc.caughtPresent
  BY DEF Reference!HasLabels, Reference!Vocab
<1>2. CASE Reference!HasLabels(s)
  BY <1>1, <1>2, SameReading
     DEF Reference!CheckVocabulary, VocabularyCodes, Reference!Vocab, When
<1>3. CASE ~Reference!HasLabels(s)
  BY <1>1, <1>3, SameReading DEF Reference!CheckVocabulary, VocabularyCodes, When
<1> QED
  BY <1>2, <1>3

\* expectedPayloads is held to the same rules (statement.go; _expected_payloads_ok).
LEMMA ExpectedShared ==
  ASSUME NEW s, Decoded(s), WellTyped(s), Reference!HasManifest(s)
  PROVE  LET expected == s.env.corpus.manifest.expected IN
         /\ expected.form # "absent" /\ ~Reference!ExpectedPayloadsOk(s)
              <=> ExpectedPayloadsCodes(s) # {}
         /\ ExpectedPayloadsCodes(s)
              \subseteq {"manifest-expected-payloads-malformed"}
<1> DEFINE expected == s.env.corpus.manifest.expected
<1>1. /\ expected.form \in {"map", "absent", "mistyped"}
      /\ DOMAIN expected.values = {} => expected.wellFormed
  BY DEF Decoded
<1>2. Reference!ExpectedPayloadsOk(s) <=>
        /\ expected.form = "map" /\ expected.wellFormed
        /\ \A id \in DOMAIN expected.values :
             id \in DeclaredAttackIDs(s) /\ expected.values[id] # {}
  BY SameDeclared DEF Reference!ExpectedPayloadsOk, Reference!Manifest
<1>3. ExpectedPayloadsCodes(s) # {} <=>
        \/ expected.form = "mistyped"
        \/ /\ expected.form = "map"
           /\ \E id \in DOMAIN expected.values :
                \/ id \notin DeclaredAttackIDs(s)
                \/ expected.values[id] = {}
                \/ ~expected.wellFormed
  BY DEF ExpectedPayloadsCodes, When
<1>4. ExpectedPayloadsCodes(s) \subseteq {"manifest-expected-payloads-malformed"}
  BY DEF ExpectedPayloadsCodes, When
<1> QED
  BY <1>1, <1>2, <1>3, <1>4

LEMMA CorpusShared ==
  ASSUME NEW s, Decoded(s), WellTyped(s), s.env.form # "absent",
         ~IsNil(s.env.corpus.digest)
  PROVE  Reference!CheckCorpus(s) = CorpusCodes(s)
<1> DEFINE m == s.env.corpus.manifest
<1>1. /\ s.env.form = "object" /\ Reference!HasEnv(s) /\ m.canonicalizable
      /\ Reference!IsDict(s.env.corpus.digest)
  BY EnvironmentForms, SameReading DEF WellTyped, Reference!IsDict
<1>2. CASE m.form = "absent"
  <2>1. ~Reference!HasManifest(s)
    BY <1>2, EnvironmentForms
  <2> QED
    BY <1>1, <1>2, <2>1, SameReading
       DEF Reference!CheckCorpus, CorpusCodes, Reference!Manifest, When
<1>3. CASE m.form # "absent"
  <2>1. Reference!HasManifest(s)
    BY <1>1, <1>3, EnvironmentForms
  <2>2. /\ Reference!DeclaredAttacks(s) = DeclaredAttackIDs(s)
        /\ Reference!HasClasses(s) /\ Reference!CorpusDupes(m) <=> DuplicateAttack(m)
    BY <2>1, SameDeclared DEF DuplicateAttack, Reference!CorpusDupes
  <2>3. When(m.expected.form # "absent" /\ ~Reference!ExpectedPayloadsOk(s),
             "manifest-expected-payloads-malformed") = ExpectedPayloadsCodes(s)
    BY <2>1, ExpectedShared DEF When
  <2>4. Reference!CheckCorpus(s) =
          When(s.env.corpus.digest # m.hash, "corpus-digest-mismatch")
            \cup When(DeclaredAttackIDs(s) = {}, "corpus-manifest-no-attacks")
            \cup When(DuplicateAttack(m), "manifest-duplicate-attack")
            \cup ExpectedPayloadsCodes(s)
    <3>1. Reference!When(m.form = "absent", "environment-incomplete") = {}
      BY <1>3 DEF Reference!When
    <3>2. Reference!When(~m.canonicalizable \/ s.env.corpus.digest # m.hash,
                         "corpus-digest-mismatch")
            = When(s.env.corpus.digest # m.hash, "corpus-digest-mismatch")
      BY <1>1, SameReading DEF When
    <3>3. Reference!When(Reference!HasClasses(s) /\ Reference!CorpusDupes(m),
                         "manifest-duplicate-attack")
            = When(DuplicateAttack(m), "manifest-duplicate-attack")
      BY <2>2, SameReading DEF When
    <3>4. Reference!When(Reference!DeclaredAttacks(s) = {}, "corpus-manifest-no-attacks")
            = When(DeclaredAttackIDs(s) = {}, "corpus-manifest-no-attacks")
      BY <2>2, SameReading
    <3>5. Reference!When(m.expected.form # "absent" /\ ~Reference!ExpectedPayloadsOk(s),
                         "manifest-expected-payloads-malformed")
            = ExpectedPayloadsCodes(s)
      BY <2>3, SameReading
    <3> QED
      BY <1>1, <2>1, <3>1, <3>2, <3>3, <3>4, <3>5
         DEF Reference!CheckCorpus, Reference!Manifest
  <2> QED
    BY <1>1, <1>3, <2>4 DEF CorpusCodes
<1> QED
  BY <1>2, <1>3

\* Two rows for one attack: the core compares them two by two, the reference
\* rail counts the attacks (statement.go; _coverage_check_rows).
LEMMA DuplicateRows ==
  ASSUME NEW s, s.rows \in Seq(Elems(s.rows))
  PROVE  Cardinality({s.rows[i].attackId : i \in DOMAIN s.rows}) < Len(s.rows) <=>
           \E i, j \in DOMAIN s.rows : i # j /\ s.rows[i].attackId = s.rows[j].attackId
<1> DEFINE S == DOMAIN s.rows
           T == {s.rows[i].attackId : i \in S}
           f == [i \in S |-> s.rows[i].attackId]
<1>1. /\ Len(s.rows) \in Nat /\ S = 1..Len(s.rows)
      /\ IsFiniteSet(S) /\ Cardinality(S) = Len(s.rows)
  <2>1. Len(s.rows) \in Nat /\ S = 1..Len(s.rows)
    OBVIOUS
  <2> QED
    BY <2>1, FS_Interval
<1>2. f \in Surjection(S, T)
  BY DEF Surjection
<1>3. f \in Injection(S, T) <=> \A i, j \in S : f[i] = f[j] => i = j
  BY <1>2 DEF Surjection, Injection, IsInjective
<1>4. Cardinality(T) \in Nat /\ Cardinality(T) <= Cardinality(S)
        /\ (Cardinality(T) = Cardinality(S) <=> f \in Injection(S, T))
  BY <1>1, <1>2, FS_Surjection, FS_CardinalityType
<1>5. f \in Injection(S, T) <=>
        ~ \E i, j \in S : i # j /\ s.rows[i].attackId = s.rows[j].attackId
  BY <1>3
<1> HIDE DEF S, T, f
<1> QED
  BY <1>1, <1>4, <1>5 DEF S, T

\* How often coverage accounts for a class, on either rail.
LEMMA SamePartition ==
  ASSUME NEW s, Decoded(s), WellTyped(s), Reference!HasManifest(s)
  PROVE  Reference!CoveragePartitionOk(s) <=> CoveragePartitionsManifest(s)
<1> DEFINE cov == s.coverage
           At(c) == Cardinality({i \in DOMAIN cov.assessed : cov.assessed[i] = c})
           Else(c) == Cardinality({m \in {"outOfScope", "routedElsewhere"} : c \in cov[m]})
           Elsewhere(c) == (IF c \in cov.outOfScope THEN 1 ELSE 0)
                             + (IF c \in cov.routedElsewhere THEN 1 ELSE 0)
<1>1. ASSUME NEW c PROVE Else(c) = Elsewhere(c)
  <2> DEFINE M == {m \in {"outOfScope", "routedElsewhere"} : c \in cov[m]}
  <2>0. Cardinality({}) = 0 /\ Cardinality({"outOfScope"}) = 1
          /\ Cardinality({"routedElsewhere"}) = 1
          /\ Cardinality({"outOfScope", "routedElsewhere"}) = 2
    <3>1. {"outOfScope", "routedElsewhere"} = {"outOfScope"} \cup {"routedElsewhere"}
      OBVIOUS
    <3>2. Cardinality({"outOfScope"} \cup {"routedElsewhere"})
            = Cardinality({"outOfScope"}) + 1
      BY FS_Singleton, FS_AddElement
    <3>3. Cardinality({"outOfScope"}) = 1 /\ Cardinality({"routedElsewhere"}) = 1
      BY FS_Singleton
    <3>4. Cardinality({}) = 0
      BY FS_EmptySet
    <3> QED
      BY <3>1, <3>2, <3>3, <3>4
  <2>1. CASE c \in cov.outOfScope /\ c \in cov.routedElsewhere
    <3>1. M = {"outOfScope", "routedElsewhere"}
      BY <2>1
    <3> QED BY <2>0, <2>1, <3>1
  <2>2. CASE c \in cov.outOfScope /\ c \notin cov.routedElsewhere
    <3>1. M = {"outOfScope"}
      BY <2>2
    <3> QED BY <2>0, <2>2, <3>1
  <2>3. CASE c \notin cov.outOfScope /\ c \in cov.routedElsewhere
    <3>1. M = {"routedElsewhere"}
      BY <2>3
    <3> QED BY <2>0, <2>3, <3>1
  <2>4. CASE c \notin cov.outOfScope /\ c \notin cov.routedElsewhere
    <3>1. M = {}
      BY <2>4
    <3> QED BY <2>0, <2>4, <3>1
  <2> QED
    BY <2>1, <2>2, <2>3, <2>4
<1>2. ASSUME NEW c PROVE TimesAccounted(cov, c) = 1 <=> At(c) + Else(c) = 1
  <2>1. TimesAccounted(cov, c) = At(c) + (IF c \in cov.outOfScope THEN 1 ELSE 0)
                                       + (IF c \in cov.routedElsewhere THEN 1 ELSE 0)
    BY DEF TimesAccounted
  <2>2. Else(c) = Elsewhere(c)
    BY <1>1
  <2>3. At(c) \in Nat
    <3>1. DOMAIN cov.assessed = 1..Len(cov.assessed) /\ Len(cov.assessed) \in Nat
      BY DEF Decoded
    <3>2. {i \in DOMAIN cov.assessed : cov.assessed[i] = c} \in SUBSET (1..Len(cov.assessed))
      BY <3>1
    <3>3. \A n \in Nat : IsFiniteSet(1..n)
      BY FS_Interval
    <3> QED
      BY <3>1, <3>2, <3>3, FS_Subset, FS_CardinalityType
  <2> HIDE DEF At, Else
  <2> QED
    BY <2>1, <2>2, <2>3
<1> HIDE DEF At, Else
<1>3. CoveragePartitionsManifest(s) <=>
        /\ Elems(cov.assessed) \cup cov.outOfScope \cup cov.routedElsewhere
             \subseteq DOMAIN s.env.corpus.manifest.classes
        /\ \A c \in DOMAIN s.env.corpus.manifest.classes : At(c) + Else(c) = 1
  BY <1>2 DEF CoveragePartitionsManifest, AccountedClasses
<1>4. Reference!CoveragePartitionOk(s) <=>
        /\ Elems(cov.assessed) \cup cov.outOfScope \cup cov.routedElsewhere
             \subseteq DOMAIN s.env.corpus.manifest.classes
        /\ \A c \in DOMAIN s.env.corpus.manifest.classes : At(c) + Else(c) = 1
  BY SameDeclared, SameReading DEF Reference!CoveragePartitionOk, At, Else
<1> QED
  BY <1>3, <1>4

\* A row for an attack outside the manifest is a row-attack-unknown on either
\* rail; without one the rows the reference rail knows are all of them.
LEMMA CoverageShared ==
  ASSUME NEW s, Decoded(s), WellTyped(s), Reference!HasManifest(s),
         s.coverage.form = "object", s.env.corpus.manifest.classesPresent
  PROVE  /\ CoverageIntegrityCodes(s) # {} =>
              CoverageIntegrityCodes(s) \cap Reference!CheckCoverage(s) # {}
         /\ CoverageIntegrityCodes(s) = {} => Reference!CheckCoverage(s) = {}
<1> DEFINE ids   == {s.rows[i].attackId : i \in DOMAIN s.rows}
           known == ids \cap DeclaredAttackIDs(s)
<1>1. /\ Reference!HasClasses(s)
      /\ Reference!DeclaredAttacks(s) = DeclaredAttackIDs(s)
      /\ Reference!CoveragePartitionOk(s) <=> CoveragePartitionsManifest(s)
  BY SameDeclared, SamePartition DEF Reference!HasClasses, Reference!Manifest
<1>2. Reference!CoverageCheckRows(s) =
        When(\E i, j \in DOMAIN s.rows : i # j /\ s.rows[i].attackId = s.rows[j].attackId,
             "statement-malformed")
          \cup When(ids # known, "row-attack-unknown")
          \cup When(known # AssessedAttackIDs(s), "coverage-incomplete")
  <2>1. Cardinality(ids) < Len(s.rows) <=>
          \E i, j \in DOMAIN s.rows : i # j /\ s.rows[i].attackId = s.rows[j].attackId
    BY DuplicateRows DEF Decoded
  <2>2. Reference!CoverageCheckRows(s) =
          When(Cardinality(ids) < Len(s.rows), "statement-malformed")
            \cup When(ids # known, "row-attack-unknown")
            \cup When(known # AssessedAttackIDs(s), "coverage-incomplete")
    <3>1. UNION {Reference!ClassAttacks(Reference!Manifest(s), c)
                    : c \in Reference!Elems(s.coverage.assessed)} = AssessedAttackIDs(s)
      <4>1. Reference!Elems(s.coverage.assessed) = Elems(s.coverage.assessed)
        BY SameReading
      <4>2. \A c : Reference!ClassAttacks(Reference!Manifest(s), c)
                     = ClassAttacks(s.env.corpus.manifest, c)
        BY SameReading DEF Reference!Manifest
      <4> QED
        BY <4>1, <4>2 DEF AssessedAttackIDs
    <3>2. Reference!Cardinality(ids) = Cardinality(ids)
      BY SameReading
    <3> HIDE DEF ids
    <3>3. Reference!CoverageCheckRows(s) =
            Reference!When(Reference!Cardinality(ids) < Len(s.rows), "statement-malformed")
              \cup Reference!When(ids # ids \cap Reference!DeclaredAttacks(s),
                                  "row-attack-unknown")
              \cup Reference!When(ids \cap Reference!DeclaredAttacks(s)
                                    # AssessedAttackIDs(s), "coverage-incomplete")
      BY <3>1 DEF Reference!CoverageCheckRows, ids
    <3> QED
      BY <1>1, <3>2, <3>3, SameReading
  <2> QED
    BY <2>1, <2>2 DEF When
<1>3. Reference!CheckCoverage(s) =
        When(~CoveragePartitionsManifest(s), "coverage-incomplete")
          \cup Reference!CoverageCheckRows(s)
  BY <1>1, SameReading DEF Reference!CheckCoverage, When
<1>4. CoverageIntegrityCodes(s) =
        When(~CoveragePartitionsManifest(s) \/ ids # AssessedAttackIDs(s),
             "coverage-incomplete")
          \cup When(\E i, j \in DOMAIN s.rows :
                      i # j /\ s.rows[i].attackId = s.rows[j].attackId,
                    "statement-malformed")
          \cup When(~(ids \subseteq DeclaredAttackIDs(s)), "row-attack-unknown")
  BY DEF CoverageIntegrityCodes
<1>5. ids \subseteq DeclaredAttackIDs(s) <=> ids = known
  OBVIOUS
<1> HIDE DEF ids, known
<1> QED
  BY <1>2, <1>3, <1>4, <1>5 DEF When

\* A row that is clean for one rail is clean for the other, once the vocabulary
\* is there and its caught labels are labels.
LEMMA SameLabels ==
  ASSUME NEW s, Decoded(s), WellTyped(s), Reference!HasVocab(s),
         VocabularyCodes(s.env.vocabulary) = {}, NEW row
  PROVE  /\ Reference!HasLabels(s)
         /\ Reference!IsClean(s, row) <=> IsCleanLabel(s, row.label)
         /\ Reference!IsCaught(s, row) <=> IsCaughtLabel(s, row.label)
         /\ s.env.vocabulary.caught \subseteq s.env.vocabulary.labels
         /\ s.env.vocabulary.digest = s.env.vocabulary.hash
<1> DEFINE voc == s.env.vocabulary
<1>1. /\ voc.labelsPresent /\ voc.caughtPresent
      /\ voc.caught \subseteq voc.labels /\ voc.digest = voc.hash
  BY DEF VocabularyCodes, When
<1>2. Reference!HasLabels(s)
  BY <1>1 DEF Reference!HasLabels, Reference!Vocab
<1> QED
  BY <1>1, <1>2 DEF Reference!IsClean, Reference!IsCaught, Reference!Vocab,
                    IsCleanLabel, IsCaughtLabel

LEMMA RowLayersShared ==
  ASSUME NEW s, Decoded(s), WellTyped(s)
  PROVE  LET vocabOK == /\ Reference!HasVocab(s)
                        /\ VocabularyCodes(s.env.vocabulary) = {} IN
         /\ RowLayerCodes(s, vocabOK) \subseteq Reference!CheckPerRowStatements(s)
         /\ vocabOK => RowLayerCodes(s, vocabOK) = Reference!CheckPerRowStatements(s)
<1> DEFINE vocabOK == /\ Reference!HasVocab(s)
                      /\ VocabularyCodes(s.env.vocabulary) = {}
           Go(row) == IF row.actualLayer \in {"absent", "mistyped"}
                      THEN {"malformed-missing-actual-layer"}
                      ELSE When(/\ vocabOK /\ IsCleanLabel(s, row.label)
                                /\ row.actualLayer # "none",
                                "clean-row-layer-not-none")
           Py(row) == When("mistyped" \in {row.attackId, row.label, row.basis, row.method,
                                           row.actualLayer}, "statement-malformed")
                        \cup When(row.actualLayer = "absent", "malformed-missing-actual-layer")
                        \cup When(/\ Reference!IsClean(s, row)
                                  /\ row.actualLayer \notin {"absent", "none"},
                                  "clean-row-layer-not-none")
<1>1. RowLayerCodes(s, vocabOK) = UNION {Go(s.rows[i]) : i \in DOMAIN s.rows}
  BY DEF RowLayerCodes
<1>2. Reference!CheckPerRowStatements(s) = UNION {Py(s.rows[i]) : i \in DOMAIN s.rows}
  BY SameReading DEF Reference!CheckPerRowStatements
<1>3. ASSUME NEW i \in DOMAIN s.rows
      PROVE  /\ Go(s.rows[i]) \subseteq Py(s.rows[i])
             /\ vocabOK => Go(s.rows[i]) = Py(s.rows[i])
  <2> DEFINE row == s.rows[i]
  <2>1. "mistyped" \notin {row.attackId, row.label, row.basis, row.method, row.actualLayer}
    BY DEF WellTyped, RowMembers
  <2>2. vocabOK => (Reference!IsClean(s, row) <=> IsCleanLabel(s, row.label))
    BY SameLabels
  <2> HIDE DEF vocabOK
  <2> QED
    BY <2>1, <2>2 DEF When
<1> HIDE DEF vocabOK, Go, Py
<1>4. /\ RowLayerCodes(s, vocabOK) \subseteq Reference!CheckPerRowStatements(s)
      /\ vocabOK => RowLayerCodes(s, vocabOK) = Reference!CheckPerRowStatements(s)
  BY <1>1, <1>2, <1>3
<1> QED
  BY <1>4 DEF vocabOK

LEMMA BindingInputsShared ==
  ASSUME NEW s, Decoded(s), WellTyped(s), DigestsCarried(s), HasSubstrateRows(s)
  PROVE  /\ SubstrateBindingInputCodes(s) \subseteq Reference!CheckSubstrateBindingInputs(s)
         /\ s.env.form = "object" =>
              Reference!CheckSubstrateBindingInputs(s) = SubstrateBindingInputCodes(s)
<1> DEFINE four == {s.env.substrate, s.env.corpus.digest, s.env.catchPolicy,
                    s.env.posture.digest}
<1>1. Reference!HasSubstrate(s)
  BY DEF Reference!HasSubstrate, HasSubstrateRows, IsSubstrate
<1>2. s.env.form = "absent" \/ IsNil(s.env.runEntropy) <=>
        ~Reference!HasEnv(s) \/ ~Reference!HasMember(s.env.runEntropy)
  BY EnvironmentForms
<1>3. ~IsNil(s.env.runEntropy) /\ ~IsLowerHex64(s.env.runEntropy) <=>
        s.env.runEntropy = "noncanonical"
  BY DEF DigestsCarried, IsLowerHex64, EmptyDigest, IsNil
<1>4. s.env.form = "object" \/ s.env.form = "absent"
  BY EnvironmentForms
<1>5. SubstrateBindingInputCodes(s) =
        When(s.env.form = "absent" \/ IsNil(s.env.runEntropy), "run-entropy-missing")
          \cup When(s.subject.count >= 1 /\ EmptyDigest(s.subject.sha256),
                    "subject-sha256-missing")
          \cup When(\/ /\ s.env.form # "absent"
                       /\ "noncanonical" \in four \cup {s.env.runEntropy}
                    \/ s.subject.count >= 1 /\ s.subject.sha256 = "noncanonical",
                    "digest-not-canonical")
  BY <1>3 DEF SubstrateBindingInputCodes, When
<1>6. Reference!CheckSubstrateBindingInputs(s) =
        When(s.env.form = "absent" \/ IsNil(s.env.runEntropy), "run-entropy-missing")
          \cup When(s.subject.count >= 1 /\ EmptyDigest(s.subject.sha256),
                    "subject-sha256-missing")
          \cup When(\/ "noncanonical" \in four \cup {s.env.runEntropy}
                    \/ s.subject.count >= 1 /\ s.subject.sha256 = "noncanonical",
                    "digest-not-canonical")
  BY <1>1, <1>2, SameReading DEF Reference!CheckSubstrateBindingInputs, When
<1> QED
  BY <1>4, <1>5, <1>6 DEF When

\* What GATE 0 of the core reports has a code the reference rail reports too.
LEMMA Gate0Shared ==
  ASSUME NEW s, s.parses, Decoded(s), ReadAlike(s), Gate0(s) # {}
  PROVE  Gate0(s) \cap Reference!Codes(s) # {}
<1> DEFINE env       == s.env
           hasVoc    == env.form # "absent" /\ env.vocabulary.form = "object"
           vocCodes  == IF hasVoc THEN VocabularyCodes(env.vocabulary) ELSE {}
           hasCorpus == env.form # "absent" /\ ~IsNil(env.corpus.digest)
           covered   == /\ hasCorpus /\ s.coverage.form = "object"
                        /\ env.corpus.manifest.classesPresent
           corpusCodes == IF hasCorpus THEN CorpusCodes(s) ELSE {}
           integrity   == IF covered THEN CoverageIntegrityCodes(s) ELSE {}
           inputs      == IF HasSubstrateRows(s) THEN SubstrateBindingInputCodes(s) ELSE {}
           issued      == IF s.issuedAt = "absent" THEN {"issued-at-missing"}
                          ELSE When(s.issuedAt # "wellFormed", "issued-at-malformed")
           layers      == RowLayerCodes(s, hasVoc /\ vocCodes = {})
           rest == When(~s.typeOK, "statement-type-unsupported")
                     \cup When(~s.predicateTypeOK, "predicate-type-unsupported")
                     \cup ParseCodes(s)
                     \cup When(s.snakeCase, "member-spelling")
                     \cup When(s.result \notin ResultTokens, "result-vocabulary")
                     \cup When(s.coverage.form = "absent", "coverage-missing")
                     \cup When(s.rowsForm = "absent", "statement-malformed")
                     \cup When(s.subject.count # 1, "subject-cardinality")
                     \cup issued
<1>0. WellTyped(s) /\ DigestsCarried(s)
  BY DEF ReadAlike
<1>1. Gate0(s) = rest \cup EnvironmentCodes(env) \cup vocCodes \cup corpusCodes
                   \cup layers \cup integrity \cup inputs
  BY DEF Gate0
<1>2. rest \subseteq Reference!Codes(s)
  <2>1. ParseCodes(s) \subseteq When(s.result = "mistyped", "result-vocabulary")
                                 \cup When(s.issuedAt = "mistyped", "issued-at-malformed")
    BY <1>0 DEF ParseCodes, EnvironmentDecodeCodes, WellTyped, When
  <2>2. DOMAIN Reference!RESULT_ORDER = ResultTokens
    BY DEF Reference!RESULT_ORDER, ResultTokens
  <2>3. /\ When(s.snakeCase, "member-spelling") \subseteq Reference!Codes(s)
        /\ When(s.result \notin ResultTokens, "result-vocabulary") \subseteq Reference!Codes(s)
        /\ issued \subseteq Reference!Codes(s)
    BY <2>2, SameReading, ReferenceReports DEF Reference!CheckGate0Wellformed
  <2>4. /\ When(~s.typeOK, "statement-type-unsupported") \subseteq Reference!Codes(s)
        /\ When(~s.predicateTypeOK, "predicate-type-unsupported") \subseteq Reference!Codes(s)
    BY SameReading, ReferenceReports DEF Reference!CheckStatementType
  <2>5. When(s.coverage.form = "absent", "coverage-missing") \subseteq Reference!Codes(s)
    BY ReferenceReports DEF Reference!CheckCoverage, When
  <2>6. s.rowsForm # "absent"
    BY <1>0 DEF WellTyped
  <2>7. /\ When(s.result = "mistyped", "result-vocabulary")
             \subseteq When(s.result \notin ResultTokens, "result-vocabulary")
        /\ When(s.issuedAt = "mistyped", "issued-at-malformed") \subseteq issued
    BY DEF When, ResultTokens
  <2> HIDE DEF issued
  <2> QED
    BY <2>1, <2>3, <2>4, <2>5, <2>6, <2>7, ReferenceReports DEF When
<1>3. EnvironmentCodes(env) \subseteq Reference!Codes(s)
  BY <1>0, EnvironmentShared
<1>4. hasVoc <=> Reference!HasVocab(s)
  BY <1>0, EnvironmentForms
<1>5. vocCodes \subseteq Reference!Codes(s)
  BY <1>0, <1>4, VocabularyShared, ReferenceReports
<1>6. corpusCodes \subseteq Reference!Codes(s)
  BY <1>0, CorpusShared, ReferenceReports
<1>7. layers \subseteq Reference!Codes(s)
  <2>1. (hasVoc /\ vocCodes = {}) <=>
          Reference!HasVocab(s) /\ VocabularyCodes(env.vocabulary) = {}
    BY <1>4
  <2>2. layers = RowLayerCodes(s, Reference!HasVocab(s) /\ VocabularyCodes(env.vocabulary) = {})
    BY <2>1 DEF RowLayerCodes
  <2> QED
    BY <1>0, <2>2, RowLayersShared, ReferenceReports
<1>8. inputs \subseteq Reference!Codes(s)
  BY <1>0, BindingInputsShared, ReferenceReports
<1>9. ASSUME integrity # {}
      PROVE  (integrity \cup corpusCodes) \cap Reference!Codes(s) # {}
  <2>1. covered
    BY <1>9
  <2>2. CASE env.corpus.manifest.form = "absent"
    <3>1. corpusCodes = {"environment-incomplete"}
      BY <2>1, <2>2 DEF CorpusCodes
    <3> QED
      BY <1>6, <3>1
  <2>3. CASE env.corpus.manifest.form # "absent"
    <3>1. Reference!HasManifest(s)
      BY <1>0, <2>1, <2>3, EnvironmentForms
    <3>2. integrity \cap Reference!CheckCoverage(s) # {}
      BY <1>0, <1>9, <2>1, <3>1, CoverageShared
    <3> QED
      BY <3>2, ReferenceReports
  <2> QED
    BY <2>2, <2>3
<1> HIDE DEF rest, vocCodes, corpusCodes, layers, integrity, inputs
<1> QED
  BY <1>1, <1>2, <1>3, <1>5, <1>6, <1>7, <1>8, <1>9

\* A statement the rails read alike and GATE 0 of the core lets pass.
PassesGate0(s) == /\ s.parses /\ Decoded(s) /\ ReadAlike(s) /\ Gate0(s) = {}

\* What the gates after GATE 0 find: the members are there on either rail.
LEMMA Gate0Leaves ==
  ASSUME NEW s, PassesGate0(s)
  PROVE  /\ WellTyped(s) /\ DigestsCarried(s) /\ Decoded(s)
         /\ s.env.form = "object" /\ Reference!HasVocab(s) /\ Reference!HasLabels(s)
         /\ VocabularyCodes(s.env.vocabulary) = {} /\ EnvironmentCodes(s.env) = {}
         /\ ~IsNil(s.env.corpus.digest) /\ CorpusCodes(s) = {}
         /\ Reference!HasManifest(s) /\ Reference!HasClasses(s)
         /\ Reference!DeclaredAttacks(s) = DeclaredAttackIDs(s)
         /\ s.coverage.form = "object" /\ CoverageIntegrityCodes(s) = {}
         /\ RowLayerCodes(s, Reference!HasVocab(s)
                               /\ VocabularyCodes(s.env.vocabulary) = {}) = {}
         /\ HasSubstrateRows(s) => SubstrateBindingInputCodes(s) = {}
         /\ s.issuedAt = "wellFormed" /\ s.subject.count = 1
         /\ s.result \in ResultTokens /\ ~s.snakeCase /\ s.typeOK /\ s.predicateTypeOK
<1> DEFINE env    == s.env
           hasVoc == env.form # "absent" /\ env.vocabulary.form = "object"
           vocCodes == IF hasVoc THEN VocabularyCodes(env.vocabulary) ELSE {}
           hasCorpus == env.form # "absent" /\ ~IsNil(env.corpus.digest)
<1>1. WellTyped(s) /\ DigestsCarried(s) /\ Decoded(s) /\ Gate0(s) = {}
  BY DEF PassesGate0, ReadAlike
<1>2. /\ s.env.form = "object" /\ s.env.vocabulary.form = "object"
      /\ s.coverage.form = "object" /\ DeclaredAttackIDs(s) # {}
      /\ s.issuedAt = "wellFormed" /\ s.result \in ResultTokens
  BY <1>1, Gate0Silent DEF Decoded
<1>3. /\ EnvironmentCodes(env) = {} /\ VocabularyCodes(env.vocabulary) = {}
      /\ RowLayerCodes(s, hasVoc /\ vocCodes = {}) = {}
      /\ HasSubstrateRows(s) => SubstrateBindingInputCodes(s) = {}
      /\ hasCorpus => CorpusCodes(s) = {}
      /\ hasCorpus /\ s.env.corpus.manifest.classesPresent => CoverageIntegrityCodes(s) = {}
      /\ s.subject.count = 1 /\ ~s.snakeCase /\ s.typeOK /\ s.predicateTypeOK
  BY <1>1, <1>2 DEF Gate0, When
<1>4. hasCorpus /\ CorpusCodes(s) = {}
  BY <1>2, <1>3 DEF EnvironmentCodes, When
<1>5. Reference!HasVocab(s) /\ Reference!HasLabels(s)
  BY <1>1, <1>2, <1>3, EnvironmentForms, SameLabels
<1>6. Reference!HasManifest(s)
  <2>1. s.env.corpus.manifest.form # "absent"
    BY <1>4 DEF CorpusCodes
  <2> QED
    BY <1>1, <1>2, <1>4, <2>1, EnvironmentForms
<1>7. /\ Reference!HasClasses(s) /\ s.env.corpus.manifest.classesPresent
      /\ Reference!DeclaredAttacks(s) = DeclaredAttackIDs(s)
  <2>1. DOMAIN s.env.corpus.manifest.classes # {}
    BY <1>2 DEF DeclaredAttackIDs
  <2> QED
    BY <1>1, <1>6, <2>1, SameDeclared DEF Reference!HasClasses, Reference!Manifest
<1>8. RowLayerCodes(s, Reference!HasVocab(s) /\ VocabularyCodes(env.vocabulary) = {}) = {}
  BY <1>2, <1>3, <1>5 DEF RowLayerCodes
<1> QED
  BY <1>1, <1>2, <1>3, <1>4, <1>5, <1>6, <1>7, <1>8

\* Where GATE 0 of the core is silent, so are the checks of the reference rail
\* that ask the same of the statement.
LEMMA Gate0SilentOnBoth ==
  ASSUME NEW s, PassesGate0(s)
  PROVE  /\ Reference!CheckStatementType(s) = {}
         /\ Reference!CheckGate0Wellformed(s) = {}
         /\ Reference!CheckVocabulary(s) = {}
         /\ Reference!CheckCorpus(s) = {}
         /\ When(s.subject.count # 1, "subject-cardinality") = {}
         /\ Reference!CheckCoverage(s) = {}
         /\ Reference!CheckPerRowStatements(s) = {}
         /\ Reference!CheckSubstrateBindingInputs(s) = {}
<1>1. Reference!CheckStatementType(s) = {}
  BY Gate0Leaves DEF Reference!CheckStatementType, Reference!When
<1>2. Reference!CheckVocabulary(s) = {}
  BY Gate0Leaves, VocabularyShared
<1>3. Reference!CheckCorpus(s) = {}
  BY Gate0Leaves, CorpusShared
<1>4. When(s.subject.count # 1, "subject-cardinality") = {}
  BY Gate0Leaves DEF When
<1>5. Reference!CheckCoverage(s) = {}
  BY Gate0Leaves, CoverageShared DEF Reference!HasClasses, Reference!Manifest
<1>6. Reference!CheckPerRowStatements(s) = {}
  BY Gate0Leaves, RowLayersShared
<1>7. Reference!CheckSubstrateBindingInputs(s) = {}
  <2>1. CASE HasSubstrateRows(s)
    BY <2>1, Gate0Leaves, BindingInputsShared
  <2>2. CASE ~HasSubstrateRows(s)
    BY <2>2 DEF Reference!CheckSubstrateBindingInputs, Reference!HasSubstrate,
                HasSubstrateRows, IsSubstrate
  <2> QED
    BY <2>1, <2>2
<1>8. Reference!CheckGate0Wellformed(s) = {}
  <2>1. DOMAIN Reference!RESULT_ORDER = ResultTokens
    BY DEF Reference!RESULT_ORDER, ResultTokens
  <2>2. /\ Reference!HasEnv(s)
        /\ \A d \in {s.env.substrate, s.env.corpus.digest, s.env.catchPolicy,
                     s.env.posture.digest} : Reference!HasMember(d)
        /\ Reference!IsDict(s.env.posture.digest) => s.env.posture.registered
    BY Gate0Leaves, EnvironmentForms, SameReading DEF EnvironmentCodes, When, Reference!IsDict
  <2> QED
    BY <2>1, <2>2, Gate0Leaves DEF Reference!CheckGate0Wellformed, Reference!When
<1> QED
  BY <1>1, <1>2, <1>3, <1>4, <1>5, <1>6, <1>7, <1>8

----------------------------------------------------------------------------
(* What GATE 1 reads, on both rails *)

LEMMA RecordSetShared ==
  ASSUME NEW s
  PROVE  Reference!CheckRecords(s) = RecordSetCodes(s)
<1> DEFINE recs    == s.records
           decoded == {i \in DOMAIN recs : recs[i].decodes}
<1>1. Reference!HasRecords(s) <=> ~NoRecords(s)
  BY DEF Reference!HasRecords, NoRecords
<1>2. decoded # DOMAIN recs <=> \E i \in DOMAIN recs : ~recs[i].decodes
  OBVIOUS
<1>3. Reference!When(\E i, j \in decoded : i # j /\ Reference!Leaf(recs[i]) = Reference!Leaf(recs[j]),
                     "duplicate-record")
        = When(\E i, j \in DOMAIN recs : /\ i # j /\ recs[i].decodes /\ recs[j].decodes
                                         /\ Leaf(recs[i]) = Leaf(recs[j]),
               "duplicate-record")
  BY SameReading DEF When
<1>4. [i \in DOMAIN recs |-> Reference!Leaf(recs[i])] = [i \in DOMAIN recs |-> Leaf(recs[i])]
  BY SameReading
<1>5. CASE NoRecords(s)
  BY <1>1, <1>5, SameReading DEF Reference!CheckRecords, RecordSetCodes
<1>6. CASE ~NoRecords(s) /\ decoded = DOMAIN recs
  <2>1. Reference!CheckRecords(s) =
          When(\E i \in DOMAIN recs : recs[i].signedBy = {}, "record-signatures-empty")
            \cup (IF s.batchRoot.form = "absent" THEN {"batch-root-missing"}
                  ELSE When(s.batchRoot.leaves # [i \in DOMAIN recs |-> Leaf(recs[i])],
                            "batch-root-mismatch"))
            \cup When(\E i, j \in DOMAIN recs : /\ i # j /\ recs[i].decodes /\ recs[j].decodes
                                                /\ Leaf(recs[i]) = Leaf(recs[j]),
                      "duplicate-record")
    BY <1>1, <1>3, <1>4, <1>6, SameReading DEF Reference!CheckRecords
  <2> QED
    BY <1>2, <1>6, <2>1 DEF RecordSetCodes, When
<1>7. CASE ~NoRecords(s) /\ decoded # DOMAIN recs
  <2>1. Reference!CheckRecords(s) =
          When(\E i \in DOMAIN recs : recs[i].signedBy = {}, "record-signatures-empty")
            \cup {"record-undecodable"}
            \cup When(\E i, j \in DOMAIN recs : /\ i # j /\ recs[i].decodes /\ recs[j].decodes
                                                /\ Leaf(recs[i]) = Leaf(recs[j]),
                      "duplicate-record")
    BY <1>1, <1>3, <1>7, SameReading DEF Reference!CheckRecords
  <2> QED
    BY <1>2, <1>7, <2>1 DEF RecordSetCodes, When
<1> QED
  BY <1>5, <1>6, <1>7

\* A payload reads when the core finds no fault in its bytes and the reference
\* rail finds its content (analyzePayload; RecordView).
LEMMA ReadAlikeRecords ==
  ASSUME NEW rec, NEW binding, DecodedPayload(rec.payload)
  PROVE  PayloadCodes(rec, binding) = {} <=>
           /\ Reference!Readable(rec) /\ rec.jsonType
           /\ rec.payload.kind # "absent" /\ rec.payload.method # "absent"
           /\ rec.payload.runBinding = {binding}
BY DEF PayloadCodes, Reference!Readable, DecodedPayload, When, BindsTo

LEMMA KindIsRead ==
  ASSUME NEW rec
  PROVE  /\ Reference!Readable(rec) => /\ Reference!Kind(rec) = rec.payload.kind
                                       /\ KindOf(rec) = rec.payload.kind
                                       /\ Reference!Method(rec) = rec.payload.method
         /\ Reference!Kind(rec) # "absent" => Reference!Readable(rec)
BY DEF Reference!Readable, Reference!Kind, Reference!Method, KindOf

\* The run binding is derived by both rails once GATE 0 is silent.
LEMMA SameBinding ==
  ASSUME NEW s, PassesGate0(s), HasSubstrateRows(s)
  PROVE  /\ Reference!HasSubstrate(s)
         /\ Reference!DerivedBinding(s) = {RunBinding(s)}
         /\ \A p : Reference!PostureOf(p) = Reference!DigestOf(s.env.posture.digest)
                     <=> p.posture = s.env.posture.digest
         /\ s.env.posture.digest # "absent"
<1>1. Reference!HasSubstrate(s)
  BY DEF Reference!HasSubstrate, HasSubstrateRows, IsSubstrate
<1>2. /\ ~IsNil(s.env.substrate) /\ ~IsNil(s.env.catchPolicy) /\ ~IsNil(s.env.posture.digest)
  BY Gate0Leaves DEF EnvironmentCodes, When
<1>3. SubstrateBindingInputCodes(s) = {}
  BY Gate0Leaves
<1>4. ~IsNil(s.env.runEntropy) /\ ~EmptyDigest(s.subject.sha256)
  BY <1>3, Gate0Leaves DEF SubstrateBindingInputCodes, When
<1>5. ~EmptyDigest(s.env.corpus.digest) /\ ~EmptyDigest(s.env.vocabulary.digest)
  <2>1. ~EmptyDigest(s.env.corpus.manifest.hash) /\ ~EmptyDigest(s.env.vocabulary.hash)
    BY Gate0Leaves DEF Decoded
  <2>2. s.env.corpus.digest = s.env.corpus.manifest.hash
    BY Gate0Leaves DEF CorpusCodes, When
  <2>3. s.env.vocabulary.digest = s.env.vocabulary.hash
    BY Gate0Leaves, SameLabels
  <2> QED
    BY <2>1, <2>2, <2>3
<1>6. "none" \notin {s.env.substrate, s.env.catchPolicy, s.env.runEntropy,
                     s.env.posture.digest}
  BY Gate0Leaves DEF DigestsCarried
<1>7. \A d \in {s.env.substrate, s.env.catchPolicy, s.env.runEntropy,
                s.env.posture.digest} : ~EmptyDigest(d)
  BY <1>2, <1>4, <1>6 DEF EmptyDigest
<1>8. Reference!DerivedBinding(s) = {RunBinding(s)}
  BY <1>1, <1>4, <1>5, <1>7, Gate0Leaves, SameReading
     DEF Reference!DerivedBinding, Reference!Vocab
<1>9. s.env.posture.digest # "absent"
  BY Gate0Leaves DEF Decoded
<1>10. Reference!DigestOf(s.env.posture.digest) = {s.env.posture.digest}
  BY <1>7, SameReading DEF Reference!DigestOf
<1> QED
  BY <1>1, <1>8, <1>9, <1>10 DEF Reference!PostureOf

\* A record of each kind meets its constraints for both rails or for neither.
LEMMA SameConstraints ==
  ASSUME NEW s, PassesGate0(s), HasSubstrateRows(s), NEW p, DecodedPayload(p), NEW postures
  PROVE  LET pinned   == s.env.posture.digest
             declared == DeclaredAttackIDs(s) IN
         /\ Reference!ArmingOk(s, p) <=> ArmingConstraintsMet(p, pinned, declared)
         /\ Reference!SealedOk(s, p, postures) <=>
              SealedConstraintsMet(p, pinned, postures, declared)
         /\ Reference!ExaminationOk(p) <=> p.method = "reconstructed"
         /\ Reference!CommitmentCodes(p) = {} <=> p.commitment.form = "wellFormed"
<1> DEFINE pinned   == s.env.posture.digest
           declared == DeclaredAttackIDs(s)
<1>1. /\ Reference!PostureOf(p) = Reference!DigestOf(pinned) <=> p.posture = pinned
      /\ pinned # "absent"
  BY SameBinding
<1>2. \A arr : Reference!AttackIdArrayOk(arr, Reference!DeclaredAttacks(s))
                 <=> AttackIDArrayOK(arr, declared)
  BY Gate0Leaves DEF Reference!AttackIdArrayOk, AttackIDArrayOK
<1>3. Reference!ArmingChainOk(p) <=> ArmingChainSyntaxValid(p)
  BY DEF Reference!ArmingChainOk, ArmingChainSyntaxValid
<1>4. p.armedAt \in {"inTime"} \cup Reference!When(s.issuedAt # "wellFormed", "late")
        <=> p.armedAt = "inTime"
  BY Gate0Leaves DEF Reference!When
<1>5. Reference!ArmingOk(s, p) <=> ArmingConstraintsMet(p, pinned, declared)
  BY <1>1, <1>2, <1>3, <1>4 DEF Reference!ArmingOk, ArmingConstraintsMet
<1>6. (\E drops \in p.dropCount :
         drops = 0 \/ (drops > 0 /\ \E bound \in p.dropBound : drops <= bound))
        <=> (\E dropped \in p.dropCount :
               \/ dropped = 0
               \/ \E bound \in p.dropBound : dropped >= 0 /\ dropped <= bound)
  BY DEF DecodedPayload
<1>7. p.posture = pinned =>
        \A posture : Reference!PostureOf(p) = {posture} <=> p.posture = posture
  BY <1>1 DEF Reference!PostureOf
<1>8. Reference!SealedOk(s, p, postures) <=>
        SealedConstraintsMet(p, pinned, postures, declared)
  BY <1>1, <1>2, <1>6, <1>7 DEF Reference!SealedOk, SealedConstraintsMet
<1> QED
  BY <1>5, <1>8 DEF Reference!ExaminationOk, Reference!CommitmentCodes, DecodedPayload

----------------------------------------------------------------------------
(* One substrate row, on both rails *)

\* A set of positions has a first one.
Precedes == {pair \in Nat \X Nat : pair[1] < pair[2]}

LEMMA FirstPosition ==
  ASSUME NEW set, set \subseteq Nat, set # {}
  PROVE  \E k \in set : \A l \in set : k <= l
<1>1. IsWellFoundedOn(Precedes, Nat)
  BY NatLessThanWellFounded, Zenon DEF OpToRel, Precedes
<1>2. PICK k \in set : \A l \in set : ~(<<l, k>> \in Precedes)
  BY <1>1, WFMin
<1>3. ASSUME NEW l \in set PROVE k <= l
  <2>1. <<l, k>> \in Nat \X Nat
    OBVIOUS
  <2>2. ~(l < k)
    BY <1>2, <2>1 DEF Precedes
  <2> QED
    BY <2>2
<1> QED
  BY <1>3

LEMMA SameFailClosed ==
  ASSUME NEW s, PassesGate0(s), NEW row, IsSubstrate(row)
  PROVE  /\ Reference!FailClosed(s, row) <=> RowFailsClosed(s, row)
         /\ Reference!RowIsRead(s, row) <=> ~RowFailsClosed(s, row)
<1>1. /\ Reference!HasLabels(s)
      /\ s.env.vocabulary.caught \subseteq s.env.vocabulary.labels
  BY Gate0Leaves, SameLabels
<1>2. DOMAIN Reference!METHOD_ORDER = KnownMethods
  BY DEF Reference!METHOD_ORDER, KnownMethods
<1>3. Reference!FailClosed(s, row) <=> RowFailsClosed(s, row)
  BY <1>1, <1>2 DEF Reference!FailClosed, RowFailsClosed, IsSubstrate, KnownAttributions,
                    Reference!Vocab
<1> QED
  BY <1>3 DEF Reference!RowIsRead, IsSubstrate

LEMMA RowReports ==
  ASSUME NEW s, s.parses, NEW i \in DOMAIN s.rows
  PROVE  Reference!Gate1Row(s, s.rows[i]) \subseteq Reference!Codes(s)
<1>1. Reference!Gate1Row(s, s.rows[i]) \subseteq Reference!CheckGate1Coverage(s)
  BY DEF Reference!CheckGate1Coverage
<1> QED
  BY <1>1, ReferenceReports

\* A fault in the bytes of a record is said of the row that refers to it by both
\* rails, except that it does not decode: that the reference rail says of the
\* record (check_records). Of a payload that is not canonical it says no more.
LEMMA PayloadShared ==
  ASSUME NEW s, PassesGate0(s), HasSubstrateRows(s),
         NEW rec, DecodedPayload(rec.payload)
  PROVE  /\ PayloadCodes(rec, RunBinding(s)) # {} =>
              PayloadCodes(rec, RunBinding(s))
                \cap (Reference!Gate1CheckPayload(s, rec)
                        \cup When(~rec.decodes, "record-undecodable")) # {}
         /\ PayloadCodes(rec, RunBinding(s)) = {} => Reference!Gate1CheckPayload(s, rec) = {}
<1> DEFINE p == rec.payload
<1>1. Reference!DerivedBinding(s) = {RunBinding(s)}
  BY SameBinding
<1>2. Reference!NamesRun(s, rec) <=>
        Reference!Readable(rec) /\ p.runBinding = {RunBinding(s)}
  BY <1>1 DEF Reference!NamesRun
<1>3. Reference!Readable(rec) <=> rec.decodes /\ p.form = "object" /\ p.canonical
  BY DEF Reference!Readable
<1>4. p.form \in {"object", "notObject", "notIJson"}
  BY DEF DecodedPayload
<1>5. Reference!PayloadError(rec) =
        IF ~rec.decodes \/ Reference!Readable(rec) THEN {}
        ELSE IF p.form = "notIJson" THEN {"payload-not-ijson"} ELSE {"payload-not-canonical"}
  BY DEF Reference!PayloadError
<1>6. Reference!Gate1CheckPayload(s, rec) =
        When(~rec.jsonType, "payload-media-type")
          \cup (IF Reference!PayloadError(rec) # {} THEN Reference!PayloadError(rec)
                ELSE IF ~Reference!Readable(rec) THEN {"payload-not-canonical"}
                ELSE When("absent" \in {p.kind, p.method} \/ p.runBinding = {},
                          "payload-missing-reserved")
                       \cup When(p.runBinding # {} /\ p.runBinding # {RunBinding(s)},
                                 "run-binding-mismatch"))
  BY <1>1, <1>2, SameReading DEF Reference!Gate1CheckPayload, When
<1> HIDE DEF p
<1>7. CASE ~rec.decodes
  BY <1>3, <1>4, <1>5, <1>6, <1>7 DEF PayloadCodes, When, p
<1>8. CASE rec.decodes /\ p.form # "object"
  BY <1>3, <1>4, <1>5, <1>6, <1>8 DEF PayloadCodes, When, p
<1>9. CASE rec.decodes /\ p.form = "object" /\ ~p.canonical
  <2>1. Reference!Gate1CheckPayload(s, rec) =
          When(~rec.jsonType, "payload-media-type") \cup {"payload-not-canonical"}
    BY <1>3, <1>5, <1>6, <1>9
  <2>2. "payload-not-canonical" \in PayloadCodes(rec, RunBinding(s))
    BY <1>9 DEF PayloadCodes, When, p
  <2> QED
    BY <2>1, <2>2
<1>10. CASE Reference!Readable(rec)
  BY <1>3, <1>5, <1>6, <1>10 DEF PayloadCodes, When, BindsTo, p
<1> QED
  BY <1>3, <1>7, <1>8, <1>9, <1>10

\* The records a substrate row refers to when all of them read: both rails seek
\* its cover among them all.
RowReads(s, row) ==
  /\ row.refs.form = "indexes"
  /\ \A i \in Resolved(s, row) : PayloadCodes(s.records[i], RunBinding(s)) = {}

OfKind(s, row, kind) == {i \in Resolved(s, row) : s.records[i].payload.kind = kind}
Useless(s, row) ==
  {i \in Resolved(s, row) : s.records[i].payload.kind \notin CoveringKinds}

LEMMA RecordsDecoded ==
  ASSUME NEW s, Decoded(s), NEW i \in DOMAIN s.records
  PROVE  DecodedPayload(s.records[i].payload)
BY DEF Decoded

LEMMA SameCandidates ==
  ASSUME NEW s, Decoded(s), NEW row, RowReads(s, row)
  PROVE  /\ Reference!Refs(row) = ReadableRefs(row)
         /\ Reference!ResolvedViews(s, row) = Resolved(s, row)
         /\ Reference!Usable(s, row) = Resolved(s, row)
         /\ \A i \in Resolved(s, row) :
              /\ i \in DOMAIN s.records /\ Reference!Readable(s.records[i])
              /\ Reference!Kind(s.records[i]) = s.records[i].payload.kind
              /\ KindOf(s.records[i]) = s.records[i].payload.kind
              /\ Reference!Method(s.records[i]) = s.records[i].payload.method
         /\ \A kind : Reference!UsableOfKind(s, row, kind) = OfKind(s, row, kind)
<1>1. Reference!Refs(row) = ReadableRefs(row)
  BY SameReading DEF RowReads, Reference!Refs, ReadableRefs
<1>2. Reference!ResolvedViews(s, row) = Resolved(s, row)
  BY <1>1 DEF Reference!ResolvedViews, Resolved
<1>3. ASSUME NEW i \in Resolved(s, row)
      PROVE  /\ i \in DOMAIN s.records
             /\ Reference!Readable(s.records[i]) /\ s.records[i].jsonType
  BY RecordsDecoded, ReadAlikeRecords DEF RowReads, Resolved
<1>4. Reference!Usable(s, row) = Resolved(s, row)
  BY <1>2, <1>3 DEF Reference!Usable
<1>5. ASSUME NEW i \in Resolved(s, row)
      PROVE  /\ Reference!Kind(s.records[i]) = s.records[i].payload.kind
             /\ KindOf(s.records[i]) = s.records[i].payload.kind
             /\ Reference!Method(s.records[i]) = s.records[i].payload.method
  BY <1>3, KindIsRead
<1>6. \A kind : Reference!UsableOfKind(s, row, kind) = OfKind(s, row, kind)
  BY <1>4, <1>5 DEF Reference!UsableOfKind, OfKind
<1> QED
  BY <1>1, <1>2, <1>3, <1>4, <1>5, <1>6

\* The code that stands in for a missing cover is that of the same record.
LEMMA SameUncovered ==
  ASSUME NEW s, Decoded(s), NEW row, RowReads(s, row), NEW specific,
         row.refs.idx \in Seq(Elems(row.refs.idx))
  PROVE  Reference!UncoveredCode(s, row, specific) =
           IF Useless(s, row) = {} THEN specific
           ELSE CoversNothingCode(FirstRef(s, row, Useless(s, row)).payload.kind)
<1> DEFINE pos   == {k \in DOMAIN row.refs.idx : row.refs.idx[k] \in Useless(s, row)}
           first == CHOOSE k \in pos : \A l \in pos : k <= l
           rec   == s.records[row.refs.idx[first]]
           useless == {k \in DOMAIN row.refs.idx :
                         /\ row.refs.idx[k] \in Reference!Usable(s, row)
                         /\ Reference!Kind(s.records[row.refs.idx[k]])
                              \notin Reference!COVERING_KINDS}
<1>1. Reference!COVERING_KINDS = CoveringKinds
  BY DEF Reference!COVERING_KINDS, CoveringKinds
<1>2. useless = pos
  BY <1>1, SameCandidates DEF Useless
<1>3. pos = {} <=> Useless(s, row) = {}
  BY DEF Useless, Resolved, ReadableRefs, RowReads, Elems
<1>4. FirstRef(s, row, Useless(s, row)) = rec
  BY DEF FirstRef
<1>5. Reference!UncoveredCode(s, row, specific) =
        IF pos = {} THEN specific
        ELSE IF Reference!Kind(rec) = "moat-drop" THEN "moat-drop-covers-nothing"
        ELSE IF Reference!Kind(rec) = "uncommitted-observation"
             THEN "uncommitted-observation-covers-nothing"
        ELSE "record-kind-unknown-covers-nothing"
  BY <1>2 DEF Reference!UncoveredCode
<1>6. ASSUME pos # {} PROVE Reference!Kind(rec) = rec.payload.kind
  <2>1. pos \subseteq Nat
    OBVIOUS
  <2>2. first \in pos
    BY <1>6, <2>1, FirstPosition
  <2>3. row.refs.idx[first] \in Resolved(s, row)
    BY <2>2 DEF Useless
  <2> QED
    BY <2>3, SameCandidates
<1> HIDE DEF pos, first, rec
<1> QED
  BY <1>3, <1>4, <1>5, <1>6 DEF CoversNothingCode

\* The first record of a set in reference order is one of the set.
LEMMA FirstIsOne ==
  ASSUME NEW s, NEW row, row.refs.form = "indexes", row.refs.idx \in Seq(Elems(row.refs.idx)),
         NEW set, set \subseteq Resolved(s, row), set # {}
  PROVE  \E i \in set : FirstRef(s, row, set) = s.records[i]
<1> DEFINE pos   == {k \in DOMAIN row.refs.idx : row.refs.idx[k] \in set}
           first == CHOOSE k \in pos : \A l \in pos : k <= l
<1>1. pos # {} /\ pos \subseteq Nat
  BY DEF Resolved, ReadableRefs, Elems
<1>2. first \in pos
  BY <1>1, FirstPosition
<1>3. FirstRef(s, row, set) = s.records[row.refs.idx[first]]
  BY DEF FirstRef
<1> QED
  BY <1>2, <1>3

\* The records of a kind that cover a row.
LEMMA SameCovering ==
  ASSUME NEW s, PassesGate0(s), HasSubstrateRows(s), NEW row, RowReads(s, row)
  PROVE  LET usable(kind) == Reference!UsableOfKind(s, row, kind)
             p(i)         == s.records[i].payload
             postures     == Reference!ArmingPosturesOf(
                               {s.records[i] : i \in Reference!Usable(s, row)}) IN
         /\ {i \in usable("examination") : Reference!ExaminationOk(p(i))}
              = ValidOfKind(s, row, "examination")
         /\ {i \in usable("arming") : Reference!ArmingOk(s, p(i))}
              = ValidOfKind(s, row, "arming")
         /\ {i \in usable("sealed") : Reference!SealedOk(s, p(i), postures)}
              = ValidOfKind(s, row, "sealed")
         /\ {i \in usable("interception") : /\ Reference!CommitmentCodes(p(i)) = {}
                                            /\ p(i).method \in KnownMethods}
              = ValidOfKind(s, row, "interception")
<1> DEFINE usable(kind) == Reference!UsableOfKind(s, row, kind)
           p(i)         == s.records[i].payload
           postures     == Reference!ArmingPosturesOf(
                             {s.records[i] : i \in Reference!Usable(s, row)})
           pinned       == s.env.posture.digest
           declared     == DeclaredAttackIDs(s)
<1>1. Decoded(s)
  BY Gate0Leaves
<1>2. \A kind : usable(kind) = OfKind(s, row, kind)
  BY <1>1, SameCandidates
<1>3. \A i \in Resolved(s, row) : i \in DOMAIN s.records /\ DecodedPayload(p(i))
  BY <1>1, RecordsDecoded DEF Resolved
<1>4. postures = ArmingPostures(s, row)
  <2> DEFINE arms == {r \in {s.records[i] : i \in Resolved(s, row)} :
                        Reference!Kind(r) = "arming"}
  <2>1. postures = UNION {Reference!PostureOf(r.payload) : r \in arms}
    BY <1>1, SameCandidates DEF Reference!ArmingPosturesOf
  <2>2. arms = {s.records[i] : i \in {j \in Resolved(s, row) : p(j).kind = "arming"}}
    BY <1>1, SameCandidates
  <2>3. postures = UNION {Reference!PostureOf(p(i)) :
                            i \in {j \in Resolved(s, row) : p(j).kind = "arming"}}
    BY <2>1, <2>2
  <2> QED
    BY <2>3 DEF ArmingPostures, Reference!PostureOf
<1>5. {i \in usable("examination") : Reference!ExaminationOk(p(i))}
        = ValidOfKind(s, row, "examination")
  BY <1>2 DEF OfKind, ValidOfKind, KindConstraintsMet, Reference!ExaminationOk
<1>6. {i \in usable("arming") : Reference!ArmingOk(s, p(i))} = ValidOfKind(s, row, "arming")
  <2>1. \A i \in Resolved(s, row) :
          Reference!ArmingOk(s, p(i)) <=> ArmingConstraintsMet(p(i), pinned, declared)
    BY <1>3, SameConstraints
  <2> QED
    BY <1>2, <2>1 DEF OfKind, ValidOfKind, KindConstraintsMet
<1>7. {i \in usable("sealed") : Reference!SealedOk(s, p(i), postures)}
        = ValidOfKind(s, row, "sealed")
  <2>1. \A i \in Resolved(s, row) :
          Reference!SealedOk(s, p(i), postures)
            <=> SealedConstraintsMet(p(i), pinned, postures, declared)
    BY <1>3, SameConstraints
  <2> HIDE DEF postures
  <2> QED
    BY <1>2, <1>4, <2>1 DEF OfKind, ValidOfKind, KindConstraintsMet
<1>8. {i \in usable("interception") : /\ Reference!CommitmentCodes(p(i)) = {}
                                      /\ p(i).method \in KnownMethods}
        = ValidOfKind(s, row, "interception")
  <2>1. \A i \in Resolved(s, row) :
          Reference!CommitmentCodes(p(i)) = {} <=> p(i).commitment.form = "wellFormed"
    BY <1>3, SameConstraints
  <2> QED
    BY <1>2, <2>1 DEF OfKind, ValidOfKind, KindConstraintsMet, InterceptionConstraintsMet
<1> QED
  BY <1>5, <1>6, <1>7, <1>8

\* A kind a row needs of which one good record is as good as another: both rails
\* report its absence with the same code.
LEMMA SameNeed ==
  ASSUME NEW s, Decoded(s), NEW row, RowReads(s, row),
         row.refs.idx \in Seq(Elems(row.refs.idx)),
         NEW kind \in {"examination", "arming", "sealed"},
         NEW good, good = ValidOfKind(s, row, kind)
  PROVE  /\ Reference!Need(s, row, kind, good, UncoveredCode(s, row)).covering = good
         /\ Reference!Need(s, row, kind, good, UncoveredCode(s, row)).codes =
              IF good = {} THEN {MissingKindCode(s, row, kind)} ELSE {}
<1> DEFINE need == Reference!Need(s, row, kind, good, UncoveredCode(s, row))
           of   == OfKind(s, row, kind)
<1>1. /\ need.covering = good
      /\ need.codes = IF of = {} THEN {Reference!UncoveredCode(s, row, UncoveredCode(s, row))}
                      ELSE When(good = {}, Reference!COVERS_NOTHING[kind])
  BY SameCandidates, SameReading DEF Reference!Need
<1>2. MissingKindCode(s, row, kind) =
        IF of # {} THEN KindFailCode(FirstRef(s, row, of).payload)
        ELSE Reference!UncoveredCode(s, row, UncoveredCode(s, row))
  <2>1. Reference!UncoveredCode(s, row, UncoveredCode(s, row)) =
          IF Useless(s, row) = {} THEN UncoveredCode(s, row)
          ELSE CoversNothingCode(FirstRef(s, row, Useless(s, row)).payload.kind)
    BY SameUncovered
  <2> QED
    BY <2>1 DEF MissingKindCode, OfKind, Useless
<1>3. good \subseteq of
  BY DEF ValidOfKind, OfKind
<1>4. ASSUME of # {}
      PROVE  KindFailCode(FirstRef(s, row, of).payload) = Reference!COVERS_NOTHING[kind]
  <2>1. PICK i \in of : FirstRef(s, row, of) = s.records[i]
    <3>1. of \subseteq Resolved(s, row) /\ row.refs.form = "indexes"
      BY DEF OfKind, RowReads
    <3> HIDE DEF of
    <3> QED
      BY <1>4, <3>1, FirstIsOne
  <2>2. s.records[i].payload.kind = kind
    BY <2>1 DEF OfKind
  <2> QED
    BY <2>1, <2>2 DEF KindFailCode, Reference!COVERS_NOTHING
<1> HIDE DEF need, of
<1> QED
  BY <1>1, <1>2, <1>3, <1>4 DEF When, need

\* What a row is matched with (validity.go, checkSubstrateRow after the payloads;
\* _gate1_class_match and _gate1_method_cap).
Matched(s, row) ==
  Reference!ClassMatch(s, row).codes
    \cup Reference!MethodCap(s, row, Reference!ClassMatch(s, row).covering)

\* The cap: a row that says it was intercepted and rests on a reconstruction.
LEMMA SameMethodCap ==
  ASSUME NEW s, Decoded(s), NEW row, RowReads(s, row), row.method \in KnownMethods,
         NEW covering, covering \subseteq Resolved(s, row)
  PROVE  Reference!MethodCap(s, row, covering) =
           When(/\ row.method = "intercepted"
                /\ \E i \in covering : s.records[i].payload.method = "reconstructed",
                "method-cap-exceeded")
<1> DEFINE methods == {Reference!Method(s.records[i]) : i \in covering}
                        \cap DOMAIN Reference!METHOD_ORDER
<1>1. methods = {s.records[i].payload.method : i \in covering} \cap KnownMethods
  BY SameCandidates DEF Reference!METHOD_ORDER, KnownMethods
<1>2. (\E m \in methods : Reference!METHOD_ORDER[row.method] > Reference!METHOD_ORDER[m])
        <=> /\ row.method = "intercepted"
            /\ \E i \in covering : s.records[i].payload.method = "reconstructed"
  <2>1. /\ Reference!METHOD_ORDER["intercepted"] = 1
        /\ Reference!METHOD_ORDER["reconstructed"] = 0
    BY DEF Reference!METHOD_ORDER
  <2>2. CASE row.method = "intercepted"
    <3>1. \A m \in methods : 1 > Reference!METHOD_ORDER[m] <=> m = "reconstructed"
      BY <1>1, <2>1 DEF KnownMethods
    <3> QED
      BY <1>1, <2>1, <2>2, <3>1 DEF KnownMethods
  <2>3. CASE row.method = "reconstructed"
    BY <1>1, <2>1, <2>3 DEF KnownMethods
  <2> QED
    BY <2>2, <2>3 DEF KnownMethods
<1>3. Reference!MethodCap(s, row, covering) =
        When(\E m \in methods : Reference!METHOD_ORDER[row.method] > Reference!METHOD_ORDER[m],
             "method-cap-exceeded")
  BY SameReading DEF Reference!MethodCap
<1> HIDE DEF methods
<1> QED
  BY <1>2, <1>3 DEF When

\* A row that is not caught: the match reports the same and covers the same.
LEMMA SameMatch ==
  ASSUME NEW s, PassesGate0(s), HasSubstrateRows(s), NEW row, RowReads(s, row),
         row.refs.idx \in Seq(Elems(row.refs.idx)), row.method \in KnownMethods,
         row.method = "reconstructed" \/ ~IsCaughtLabel(s, row.label)
  PROVE  /\ Reference!ClassMatch(s, row).covering = Covering(s, row)
         /\ ClassMatchCodes(s, row) # {} => ClassMatchCodes(s, row) \cap Matched(s, row) # {}
         /\ ClassMatchCodes(s, row) = {} => Matched(s, row) = {}
<1> DEFINE match   == Reference!ClassMatch(s, row)
           missing == {k \in RequiredKinds(s, row) : ValidOfKind(s, row, k) = {}}
           cap     == When(/\ row.method = "intercepted"
                           /\ \E i \in Covering(s, row) :
                                s.records[i].payload.method = "reconstructed",
                           "method-cap-exceeded")
<1>0. Decoded(s)
  BY Gate0Leaves
<1>1. /\ match.covering = Covering(s, row)
      /\ match.codes = {MissingKindCode(s, row, k) : k \in missing}
  <2>1. CASE row.method = "reconstructed"
    <3>1. RequiredKinds(s, row) = {"examination"}
            /\ UncoveredCode(s, row) = "reconstructed-row-uncovered"
      BY <2>1 DEF RequiredKinds, UncoveredCode
    <3> DEFINE need == Reference!Need(s, row, "examination",
                                      ValidOfKind(s, row, "examination"),
                                      UncoveredCode(s, row))
    <3>2. match = need
      BY <2>1, <3>1, SameCovering DEF Reference!ClassMatch, Reference!CoverReconstructed
    <3>3. /\ need.covering = ValidOfKind(s, row, "examination")
          /\ need.codes = IF ValidOfKind(s, row, "examination") = {}
                          THEN {MissingKindCode(s, row, "examination")} ELSE {}
      BY <1>0, SameNeed
    <3> HIDE DEF need, match
    <3> QED
      BY <3>1, <3>2, <3>3 DEF Covering
  <2>2. CASE row.method # "reconstructed"
    <3>1. RequiredKinds(s, row) = {"arming", "sealed"}
            /\ UncoveredCode(s, row) = "clean-row-uncovered"
      BY <2>2 DEF RequiredKinds, UncoveredCode
    <3> DEFINE arm  == Reference!Need(s, row, "arming", ValidOfKind(s, row, "arming"),
                                      UncoveredCode(s, row))
               seal == Reference!Need(s, row, "sealed", ValidOfKind(s, row, "sealed"),
                                      UncoveredCode(s, row))
    <3>2. ~Reference!IsCaught(s, row)
      BY <2>2, Gate0Leaves, SameLabels
    <3>3. match = [covering |-> arm.covering \cup seal.covering,
                   codes |-> arm.codes \cup seal.codes]
      BY <2>2, <3>1, <3>2, SameCovering DEF Reference!ClassMatch, Reference!CoverClean
    <3>4. /\ arm.covering = ValidOfKind(s, row, "arming")
          /\ arm.codes = IF ValidOfKind(s, row, "arming") = {}
                         THEN {MissingKindCode(s, row, "arming")} ELSE {}
      BY <1>0, SameNeed
    <3>5. /\ seal.covering = ValidOfKind(s, row, "sealed")
          /\ seal.codes = IF ValidOfKind(s, row, "sealed") = {}
                          THEN {MissingKindCode(s, row, "sealed")} ELSE {}
      BY <1>0, SameNeed
    <3> HIDE DEF arm, seal
    <3> QED
      BY <3>1, <3>3, <3>4, <3>5 DEF Covering
  <2> QED
    BY <2>1, <2>2
<1>2. Covering(s, row) \subseteq Resolved(s, row)
  BY DEF Covering, ValidOfKind
<1>3. Reference!MethodCap(s, row, match.covering) = cap
  BY <1>0, <1>1, <1>2, SameMethodCap
<1>4. Matched(s, row) = {MissingKindCode(s, row, k) : k \in missing} \cup cap
  BY <1>1, <1>3 DEF Matched
<1>5. ClassMatchCodes(s, row) = IF missing # {} THEN {MissingKindCode(s, row, k) : k \in missing}
                                ELSE cap
  BY DEF ClassMatchCodes
<1> HIDE DEF match, missing, cap
<1> QED
  BY <1>1, <1>4, <1>5 DEF match

\* The commitment of an interception, as the code for it says (validity.go,
\* commitmentFailCode; _carried_record_fault).
LEMMA InterceptionFault ==
  ASSUME NEW s, NEW p, DecodedPayload(p), p.kind = "interception"
  PROVE  /\ InterceptionConstraintsMet(p) <=> Reference!CarriedRecordFault(s, p) = {}
         /\ ~InterceptionConstraintsMet(p) =>
              Reference!CarriedRecordFault(s, p) = {KindFailCode(p)}
         /\ Reference!CommitmentCodes(p) # {} => Reference!CommitmentCodes(p) = {KindFailCode(p)}
<1>1. DOMAIN Reference!METHOD_ORDER = KnownMethods
  BY DEF Reference!METHOD_ORDER, KnownMethods
<1>2. Reference!CarriedRecordFault(s, p) =
        IF Reference!CommitmentCodes(p) # {} THEN Reference!CommitmentCodes(p)
        ELSE When(p.method \notin KnownMethods, "payload-missing-reserved")
  BY <1>1, SameReading DEF Reference!CarriedRecordFault
<1>3. KindFailCode(p) = IF p.commitment.form \in {"malformed", "mistyped"}
                        THEN "payload-commitment-malformed" ELSE "payload-missing-reserved"
  BY DEF KindFailCode
<1>4. CASE p.commitment.form = "wellFormed"
  <2>1. Reference!CommitmentCodes(p) = {}
    BY <1>4 DEF Reference!CommitmentCodes
  <2> QED
    BY <1>2, <1>3, <1>4, <2>1 DEF InterceptionConstraintsMet, When
<1>5. CASE p.commitment.form = "absent"
  <2>1. Reference!CommitmentCodes(p) = {"payload-missing-reserved"}
    BY <1>5 DEF Reference!CommitmentCodes
  <2> QED
    BY <1>2, <1>3, <1>5, <2>1 DEF InterceptionConstraintsMet
<1>6. CASE p.commitment.form \in {"malformed", "mistyped"}
  <2>1. Reference!CommitmentCodes(p) = {"payload-commitment-malformed"}
    BY <1>6 DEF Reference!CommitmentCodes
  <2> QED
    BY <1>2, <1>3, <1>6, <2>1 DEF InterceptionConstraintsMet
<1> QED
  BY <1>4, <1>5, <1>6 DEF DecodedPayload

\* A record that reads is one of this run for the reference rail too.
LEMMA ReadIsOfThisRun ==
  ASSUME NEW s, PassesGate0(s), HasSubstrateRows(s), NEW i \in DOMAIN s.records,
         PayloadCodes(s.records[i], RunBinding(s)) = {}
  PROVE  LET rec == s.records[i] IN
         /\ Reference!Readable(rec) /\ Reference!NamesRun(s, rec) /\ rec.jsonType
         /\ rec.payload.runBinding # {} /\ rec.payload.method # "absent"
         /\ Reference!Kind(rec) = rec.payload.kind /\ KindOf(rec) = rec.payload.kind
         /\ rec \in Reference!OfThisRun(s, rec.payload.kind)
<1> DEFINE rec == s.records[i]
<1>1. /\ Reference!Readable(rec) /\ rec.jsonType /\ rec.payload.method # "absent"
      /\ rec.payload.runBinding = {RunBinding(s)}
  BY Gate0Leaves, RecordsDecoded, ReadAlikeRecords
<1>2. Reference!NamesRun(s, rec)
  BY <1>1, SameBinding DEF Reference!NamesRun
<1>3. Reference!Kind(rec) = rec.payload.kind /\ KindOf(rec) = rec.payload.kind
  BY <1>1, KindIsRead
<1> QED
  BY <1>1, <1>2, <1>3 DEF Reference!OfThisRun

\* A caught row: what the core reports of its match the reference rail reports of
\* the row, or of the interception as a record carried.
LEMMA CaughtShared ==
  ASSUME NEW s, PassesGate0(s), HasSubstrateRows(s), NEW row, RowReads(s, row),
         row.refs.idx \in Seq(Elems(row.refs.idx)), row.method \in KnownMethods,
         row.method # "reconstructed", IsCaughtLabel(s, row.label),
         ClassMatchCodes(s, row) # {}
  PROVE  ClassMatchCodes(s, row)
           \cap (Matched(s, row) \cup Reference!CommitCarriedCover(s)) # {}
<1> DEFINE found == OfKind(s, row, "interception")
           good  == {i \in found : Reference!CommitmentCodes(s.records[i].payload) = {}}
           valid == ValidOfKind(s, row, "interception")
           match == Reference!ClassMatch(s, row)
<1>0. Decoded(s)
  BY Gate0Leaves
<1>1. /\ RequiredKinds(s, row) = {"interception"}
      /\ UncoveredCode(s, row) = "caught-row-uncovered" /\ Covering(s, row) = valid
  BY DEF RequiredKinds, UncoveredCode, Covering
<1>2. /\ match.covering = good
      /\ match.codes = IF found = {} THEN {Reference!UncoveredCode(s, row, "caught-row-uncovered")}
                       ELSE UNION {Reference!CommitmentCodes(s.records[i].payload) : i \in found}
  <2>1. Reference!IsCaught(s, row)
    BY Gate0Leaves, SameLabels
  <2>2. Reference!UsableOfKind(s, row, "interception") = found
    BY <1>0, SameCandidates
  <2> HIDE DEF found
  <2> QED
    BY <2>1, <2>2 DEF Reference!ClassMatch, Reference!CoverCaught
<1>3. CASE found = {}
  <2>1. valid = {}
    BY <1>3 DEF ValidOfKind, OfKind
  <2>2. ClassMatchCodes(s, row) = {MissingKindCode(s, row, "interception")}
    BY <1>1, <2>1 DEF ClassMatchCodes
  <2>3. MissingKindCode(s, row, "interception")
          = Reference!UncoveredCode(s, row, "caught-row-uncovered")
    <3>1. Reference!UncoveredCode(s, row, "caught-row-uncovered") =
            IF Useless(s, row) = {} THEN "caught-row-uncovered"
            ELSE CoversNothingCode(FirstRef(s, row, Useless(s, row)).payload.kind)
      BY <1>0, SameUncovered
    <3> QED
      BY <1>1, <1>3, <3>1 DEF MissingKindCode, OfKind, Useless
  <2> HIDE DEF match
  <2> QED
    BY <1>2, <1>3, <2>2, <2>3 DEF Matched, match
<1>4. CASE found # {} /\ valid = {}
  <2>1. ClassMatchCodes(s, row) = {MissingKindCode(s, row, "interception")}
    BY <1>1, <1>4 DEF ClassMatchCodes
  <2>2. MissingKindCode(s, row, "interception") = KindFailCode(FirstRef(s, row, found).payload)
    BY <1>4 DEF MissingKindCode, OfKind
  <2>3. PICK i \in found : FirstRef(s, row, found) = s.records[i]
    <3>1. found \subseteq Resolved(s, row) /\ row.refs.form = "indexes"
      BY DEF OfKind, RowReads
    <3> HIDE DEF found
    <3> QED
      BY <1>4, <3>1, FirstIsOne
  <2> DEFINE p == s.records[i].payload
  <2>4. /\ i \in DOMAIN s.records /\ i \in Resolved(s, row) /\ p.kind = "interception"
        /\ ~InterceptionConstraintsMet(p) /\ DecodedPayload(p)
        /\ PayloadCodes(s.records[i], RunBinding(s)) = {}
    <3>1. i \in Resolved(s, row) /\ p.kind = "interception"
      BY DEF OfKind
    <3>2. i \in DOMAIN s.records /\ PayloadCodes(s.records[i], RunBinding(s)) = {}
      BY <3>1 DEF Resolved, RowReads
    <3>3. ~InterceptionConstraintsMet(p)
      BY <1>4, <3>1 DEF ValidOfKind, KindConstraintsMet
    <3> QED
      BY <1>0, <3>1, <3>2, <3>3, RecordsDecoded
  <2>5. Reference!CarriedRecordFault(s, p) = {KindFailCode(p)}
    BY <2>4, InterceptionFault
  <2>6. /\ s.records[i] \in Reference!OfThisRun(s, "interception") /\ s.records[i].jsonType
        /\ p.runBinding # {} /\ p.method # "absent"
    BY <2>4, ReadIsOfThisRun
  <2>7. KindFailCode(p) \in Reference!CommitCarriedCover(s)
    BY <2>5, <2>6 DEF Reference!CommitCarriedCover, Reference!COVERING_KINDS
  <2> QED
    BY <2>1, <2>2, <2>3, <2>7
<1>5. CASE valid # {}
  <2>1. /\ ClassMatchCodes(s, row) = {"method-cap-exceeded"} /\ row.method = "intercepted"
        /\ \E i \in valid : s.records[i].payload.method = "reconstructed"
    BY <1>1, <1>5 DEF ClassMatchCodes, When
  <2>2. good \subseteq Resolved(s, row)
    BY DEF OfKind
  <2>3. valid \subseteq good
    <3>1. good = {i \in Reference!UsableOfKind(s, row, "interception") :
                    Reference!CommitmentCodes(s.records[i].payload) = {}}
      BY <1>0, SameCandidates
    <3>2. valid = {i \in Reference!UsableOfKind(s, row, "interception") :
                     /\ Reference!CommitmentCodes(s.records[i].payload) = {}
                     /\ s.records[i].payload.method \in KnownMethods}
      BY SameCovering
    <3> HIDE DEF good, valid
    <3> QED
      BY <3>1, <3>2
  <2> HIDE DEF good, match
  <2>4. Reference!MethodCap(s, row, good) = {"method-cap-exceeded"}
    BY <1>0, <2>1, <2>2, <2>3, SameMethodCap DEF When
  <2> QED
    BY <1>2, <2>1, <2>4 DEF Matched, match
<1> QED
  BY <1>3, <1>4, <1>5

----------------------------------------------------------------------------
(* GATE 1, on a statement about whose faults the rails share nothing *)

\* GATE 1 of the core and the reference rail have no code in common. What follows
\* shows that then neither has one: a fault either finds is one both report.
Undisputed(s) == PassesGate0(s) /\ Gate1(s) \cap Reference!Codes(s) = {}

LEMMA RecordSetSilent ==
  ASSUME NEW s, Undisputed(s)
  PROVE  /\ RecordSetCodes(s) = {} /\ Reference!CheckRecords(s) = {}
         /\ ~NoRecords(s) => \A i \in DOMAIN s.records : s.records[i].decodes
<1>1. RecordSetCodes(s) \subseteq Gate1(s)
  BY DEF Gate1
<1>2. RecordSetCodes(s) \subseteq Reference!Codes(s)
  BY RecordSetShared, ReferenceReports DEF Undisputed, PassesGate0
<1>3. RecordSetCodes(s) = {}
  BY <1>1, <1>2 DEF Undisputed
<1> QED
  BY <1>3, RecordSetShared DEF RecordSetCodes, When

\* A statement with substrate rows has records: where it has none, the rails
\* agree that they are absent.
LEMMA RecordsAreThere ==
  ASSUME NEW s, Undisputed(s), HasSubstrateRows(s)
  PROVE  ~NoRecords(s) /\ Reference!HasRecords(s) /\ RecordsPresent(s)
<1>1. PassesGate0(s) /\ WellTyped(s) /\ Decoded(s) /\ s.parses
  BY Gate0Leaves DEF Undisputed, PassesGate0
<1>2. Reference!HasRecords(s) <=> ~NoRecords(s)
  BY DEF Reference!HasRecords, NoRecords
<1>3. ASSUME NoRecords(s) PROVE FALSE
  <2>1. s.recordsForm = "absent"
    BY <1>1, <1>3 DEF WellTyped, Decoded, NoRecords
  <2>2. "records-absent" \in Gate1(s)
    BY <2>1 DEF Gate1, RecordsPresent
  <2>3. PICK i \in DOMAIN s.rows : IsSubstrate(s.rows[i]) /\ ~RowFailsClosed(s, s.rows[i])
    BY <1>1, <1>3 DEF PassesGate0, ReadAlike, AbsenceIsSeen
  <2>4. Reference!Gate1Row(s, s.rows[i]) = {"records-absent"}
    BY <1>1, <1>2, <1>3, <2>3, SameFailClosed DEF Reference!Gate1Row
  <2> QED
    BY <1>1, <2>2, <2>4, RowReports DEF Undisputed
<1>4. RecordsPresent(s)
  BY <1>1, <1>3 DEF RecordsPresent, Decoded, NoRecords
<1> QED
  BY <1>2, <1>3, <1>4

\* The references of a substrate row read the same where the core finds no fault
\* in their shape.
LEMMA SameRefs ==
  ASSUME NEW s, PassesGate0(s), NEW i \in DOMAIN s.rows,
         s.rows[i].refs.form # "malformed"
  PROVE  /\ Reference!Refs(s.rows[i]) = ReadableRefs(s.rows[i])
         /\ Reference!ResolvedViews(s, s.rows[i]) = Resolved(s, s.rows[i])
<1>1. s.rows[i].refs.form \in {"indexes", "absent"}
  BY Gate0Leaves DEF Decoded
<1>2. Reference!Refs(s.rows[i]) = ReadableRefs(s.rows[i])
  BY <1>1, SameReading DEF Reference!Refs, ReadableRefs
<1> QED
  BY <1>2 DEF Reference!ResolvedViews, Resolved

\* What the reference rail says of a substrate row it reads to the end.
LEMMA RowToTheEnd ==
  ASSUME NEW s, PassesGate0(s), NEW i \in DOMAIN s.rows, IsSubstrate(s.rows[i]),
         ~NoRecords(s), ~RowFailsClosed(s, s.rows[i]), RefShapeCodes(s.rows[i]) = {},
         ReadableRefs(s.rows[i]) \subseteq DOMAIN s.records
  PROVE  /\ s.rows[i].refs.form = "indexes"
         /\ Reference!Gate1Row(s, s.rows[i]) =
              (UNION {Reference!Gate1CheckPayload(s, s.records[k]) :
                        k \in Resolved(s, s.rows[i])})
                \cup Matched(s, s.rows[i])
         /\ Matched(s, s.rows[i]) \subseteq Reference!Gate1Row(s, s.rows[i])
<1> DEFINE row == s.rows[i]
           payloads == UNION {Reference!Gate1CheckPayload(s, s.records[k]) :
                                k \in Resolved(s, row)}
<1>0. row.refs.form \in {"indexes", "absent", "malformed"}
  BY Gate0Leaves DEF Decoded
<1>1. row.refs.form = "indexes" /\ row.refs.idx # << >>
  BY <1>0 DEF RefShapeCodes, When
<1>2. /\ Reference!RowIsRead(s, row) /\ Reference!HasRecords(s)
  BY SameFailClosed DEF Reference!HasRecords, NoRecords
<1>3. Reference!Refs(row) = ReadableRefs(row) /\ Reference!ResolvedViews(s, row) = Resolved(s, row)
  BY <1>1, SameRefs
<1>4. Reference!RefCodes(s, row) = {}
  BY <1>1, <1>3 DEF Reference!RefCodes, Reference!When
<1>5. Reference!Gate1Row(s, row) = payloads \cup Matched(s, row)
  BY <1>1, <1>2, <1>3, <1>4 DEF Reference!Gate1Row, Matched
<1>6. Matched(s, row) \subseteq payloads \cup Matched(s, row)
  OBVIOUS
<1> HIDE DEF payloads, row
<1> QED
  BY <1>1, <1>5, <1>6 DEF payloads, row

\* What the core finds in a substrate row, the reference rail finds in the row, in
\* the records as a set, or among the records carried.
LEMMA RowShared ==
  ASSUME NEW s, Undisputed(s), HasSubstrateRows(s),
         NEW i \in DOMAIN s.rows, IsSubstrate(s.rows[i]),
         SubstrateRowCodes(s, s.rows[i], RunBinding(s)) # {}
  PROVE  SubstrateRowCodes(s, s.rows[i], RunBinding(s)) \cap Reference!Codes(s) # {}
<1> DEFINE row   == s.rows[i]
           codes == SubstrateRowCodes(s, row, RunBinding(s))
           payloadCodes == UNION {PayloadCodes(s.records[k], RunBinding(s)) :
                                    k \in Resolved(s, row)}
<1>1. PassesGate0(s) /\ Decoded(s) /\ s.parses
  BY Gate0Leaves DEF Undisputed, PassesGate0
<1>2. ~NoRecords(s) /\ Reference!HasRecords(s)
  BY RecordsAreThere
<1>3. /\ row.refs.form \in {"indexes", "absent", "malformed"}
      /\ row.refs.idx \in Seq(Elems(row.refs.idx))
  BY <1>1 DEF Decoded
<1>4. Reference!Gate1Row(s, row) \subseteq Reference!Codes(s)
  BY <1>1, RowReports
<1>5. CASE RowFailsClosed(s, row)
  <2>1. codes = {"fail-closed-substrate-row"}
    BY <1>5 DEF SubstrateRowCodes
  <2>2. Reference!CheckFailClosedRows(s) = {"fail-closed-substrate-row"}
    <3>1. Reference!FailClosed(s, row) /\ row.basis = "substrate"
      BY <1>1, <1>5, SameFailClosed DEF IsSubstrate
    <3> QED
      BY <3>1 DEF Reference!CheckFailClosedRows, Reference!When
  <2> QED
    BY <1>1, <2>1, <2>2, ReferenceReports
<1>6. CASE ~RowFailsClosed(s, row) /\ RefShapeCodes(row) # {}
  <2>1. codes = RefShapeCodes(row)
    BY <1>6 DEF SubstrateRowCodes
  <2>2. Reference!RowIsRead(s, row)
    BY <1>1, <1>6, SameFailClosed
  <2>3. CASE row.refs.form = "malformed"
    <3>1. "ref-malformed" \in Reference!RefCodes(s, row)
      BY <2>3 DEF Reference!RefCodes, Reference!When
    <3>2. "ref-malformed" \in Reference!Gate1Row(s, row)
      BY <1>2, <2>2, <2>3, <3>1 DEF Reference!Gate1Row
    <3> QED
      BY <1>4, <2>1, <2>3, <3>2 DEF RefShapeCodes
  <2>4. CASE row.refs.form # "malformed"
    <3>1. RefShapeCodes(row) = {"refs-empty"}
            /\ (row.refs.form = "absent" \/ row.refs.idx = << >>)
      BY <1>6, <2>4 DEF RefShapeCodes, When
    <3>2. "refs-empty" \in Reference!Gate1Row(s, row)
      BY <1>2, <1>3, <2>2, <2>4, <3>1 DEF Reference!Gate1Row
    <3> QED
      BY <1>4, <2>1, <3>1, <3>2
  <2> QED
    BY <2>3, <2>4
<1>7. CASE /\ ~RowFailsClosed(s, row) /\ RefShapeCodes(row) = {}
           /\ ~(ReadableRefs(row) \subseteq DOMAIN s.records)
  <2>1. codes = {"ref-out-of-range"}
    BY <1>7 DEF SubstrateRowCodes
  <2>2. row.refs.form # "malformed"
    BY <1>7 DEF RefShapeCodes
  <2>3. ~(Reference!Refs(row) \subseteq DOMAIN s.records)
    BY <1>1, <1>7, <2>2, SameRefs
  <2>4. "ref-out-of-range" \in Reference!CheckGate1Coverage(s)
    BY <1>2, <2>3 DEF Reference!CheckGate1Coverage, Reference!When
  <2> QED
    BY <1>1, <2>1, <2>4, ReferenceReports
<1>8. CASE /\ ~RowFailsClosed(s, row) /\ RefShapeCodes(row) = {}
           /\ ReadableRefs(row) \subseteq DOMAIN s.records
  <2>1. /\ row.refs.form = "indexes"
        /\ Reference!Gate1Row(s, row) =
             (UNION {Reference!Gate1CheckPayload(s, s.records[k]) : k \in Resolved(s, row)})
               \cup Matched(s, row)
        /\ Matched(s, row) \subseteq Reference!Gate1Row(s, row)
    BY <1>1, <1>2, <1>8, RowToTheEnd
  <2>2. CASE payloadCodes # {}
    <3>1. codes = payloadCodes
      BY <1>8, <2>2 DEF SubstrateRowCodes
    <3>2. PICK k \in Resolved(s, row) : PayloadCodes(s.records[k], RunBinding(s)) # {}
      BY <2>2
    <3>3. k \in DOMAIN s.records /\ s.records[k].decodes
      BY <1>2, RecordSetSilent DEF Resolved
    <3>4. PayloadCodes(s.records[k], RunBinding(s))
            \cap Reference!Gate1CheckPayload(s, s.records[k]) # {}
      BY <1>1, <3>2, <3>3, PayloadShared, RecordsDecoded DEF When
    <3> QED
      BY <1>4, <2>1, <3>1, <3>2, <3>4
  <2>3. CASE payloadCodes = {}
    <3>1. codes = ClassMatchCodes(s, row)
      BY <1>8, <2>3 DEF SubstrateRowCodes
    <3>2. RowReads(s, row) /\ row.method \in KnownMethods
      BY <1>8, <2>1, <2>3 DEF RowReads, RowFailsClosed
    <3>3. codes \cap (Matched(s, row) \cup Reference!CommitCarriedCover(s)) # {}
      <4>1. CASE row.method # "reconstructed" /\ IsCaughtLabel(s, row.label)
        BY <1>1, <1>3, <3>1, <3>2, <4>1, CaughtShared
      <4>2. CASE row.method = "reconstructed" \/ ~IsCaughtLabel(s, row.label)
        BY <1>1, <1>3, <3>1, <3>2, <4>2, SameMatch
      <4> QED
        BY <4>1, <4>2
    <3>4. Reference!CommitCarriedCover(s) \subseteq Reference!Codes(s)
      <4>1. Reference!CommitCarriedCover(s) \subseteq Reference!CheckCommitments(s)
        BY <1>1, <1>2, SameBinding DEF Reference!CheckCommitments
      <4> QED
        BY <1>1, <4>1, ReferenceReports
    <3>5. Matched(s, row) \subseteq Reference!Codes(s)
      BY <1>4, <2>1, Zenon
    <3> QED
      BY <3>3, <3>4, <3>5
  <2> QED
    BY <2>2, <2>3
<1> QED
  BY <1>5, <1>6, <1>7, <1>8

\* So no substrate row has a fault, and the rails read kinds and references alike.
LEMMA RowsSilent ==
  ASSUME NEW s, Undisputed(s), NEW i \in DOMAIN s.rows, IsSubstrate(s.rows[i])
  PROVE  SubstrateRowCodes(s, s.rows[i], RunBinding(s)) = {}
<1>1. HasSubstrateRows(s)
  BY DEF HasSubstrateRows
<1>2. RecordsPresent(s) /\ s.issuedAt = "wellFormed"
  BY <1>1, RecordsAreThere, Gate0Leaves DEF Undisputed
<1>3. SubstrateRowCodes(s, s.rows[i], RunBinding(s)) \subseteq AllSubstrateRowCodes(s)
  BY DEF AllSubstrateRowCodes
<1>4. SubstrateRowCodes(s, s.rows[i], RunBinding(s)) \subseteq Gate1(s)
  BY <1>1, <1>2, <1>3 DEF Gate1
<1> QED
  BY <1>1, <1>4, RowShared DEF Undisputed

\* So the rails read the kind of every record, and the references of every row,
\* alike: what they read unlike is where a substrate row would have a fault.
LEMMA SameKinds ==
  ASSUME NEW s, Undisputed(s)
  PROVE  /\ \A i \in DOMAIN s.records : KindOf(s.records[i]) = Reference!Kind(s.records[i])
         /\ \A i \in DOMAIN s.rows :
              /\ Reference!Refs(s.rows[i]) = ReadableRefs(s.rows[i])
              /\ Reference!ResolvedViews(s, s.rows[i]) = Resolved(s, s.rows[i])
<1>1. PassesGate0(s) /\ WellTyped(s) /\ Decoded(s) /\ KindsReadAlike(s)
  BY Gate0Leaves DEF Undisputed, PassesGate0, ReadAlike
<1>2. ASSUME NEW i \in DOMAIN s.records
      PROVE  KindOf(s.records[i]) = Reference!Kind(s.records[i])
  <2>1. CASE \E j \in DOMAIN s.rows : IsSubstrate(s.rows[j]) /\ i \in Resolved(s, s.rows[j])
    <3>1. PICK j \in DOMAIN s.rows : IsSubstrate(s.rows[j]) /\ i \in Resolved(s, s.rows[j])
      BY <2>1
    <3>2. SubstrateRowCodes(s, s.rows[j], RunBinding(s)) = {} /\ HasSubstrateRows(s)
      BY <3>1, RowsSilent DEF HasSubstrateRows
    <3>3. PayloadCodes(s.records[i], RunBinding(s)) = {}
      BY <3>1, <3>2 DEF SubstrateRowCodes
    <3> QED
      BY <1>1, <3>2, <3>3, ReadIsOfThisRun
  <2> QED
    BY <1>1, <2>1 DEF KindsReadAlike
<1>3. ASSUME NEW i \in DOMAIN s.rows
      PROVE  s.rows[i].refs.form # "malformed"
  <2>1. SUFFICES ASSUME s.rows[i].refs.form = "malformed" PROVE FALSE
    OBVIOUS
  <2>2. IsSubstrate(s.rows[i])
    BY <1>1, <2>1 DEF WellTyped
  <2>3. RefShapeCodes(s.rows[i]) = {"ref-malformed"}
    BY <2>1 DEF RefShapeCodes
  <2> QED
    BY <2>2, <2>3, RowsSilent DEF SubstrateRowCodes
<1> QED
  BY <1>1, <1>2, <1>3, SameRefs

\* A statement with no row in fault has none that fails closed for the reference.
LEMMA FailClosedSilent ==
  ASSUME NEW s, Undisputed(s)
  PROVE  Reference!CheckFailClosedRows(s) = {}
<1>1. ASSUME NEW i \in DOMAIN s.rows, s.rows[i].basis = "substrate"
      PROVE  ~Reference!FailClosed(s, s.rows[i])
  <2>1. SubstrateRowCodes(s, s.rows[i], RunBinding(s)) = {}
    BY <1>1, RowsSilent DEF IsSubstrate
  <2>2. ~RowFailsClosed(s, s.rows[i])
    BY <2>1 DEF SubstrateRowCodes
  <2> QED
    BY <1>1, <2>2, SameFailClosed DEF Undisputed, IsSubstrate
<1> QED
  BY <1>1 DEF Reference!CheckFailClosedRows, Reference!When

----------------------------------------------------------------------------
(* The requirements on the whole statement, on both rails *)

LEMMA ContradictedShared ==
  ASSUME NEW s, Undisputed(s)
  PROVE  /\ Reference!CommitCleanRowContradicted(s) <=> CleanRowContradicted(s)
         /\ Reference!CommitInterceptionOrphaned(s) <=> InterceptionOrphaned(s)
<1>1. /\ Reference!HasLabels(s)
      /\ \A row : /\ Reference!IsClean(s, row) <=> IsCleanLabel(s, row.label)
                  /\ Reference!IsCaught(s, row) <=> IsCaughtLabel(s, row.label)
  BY Gate0Leaves, SameLabels DEF Undisputed
<1>2. ASSUME NEW i \in DOMAIN s.rows, NEW kind
      PROVE  Reference!Resolves(s, s.rows[i], kind) <=> RowResolves(s, s.rows[i], kind)
  <2>1. Resolved(s, s.rows[i]) \subseteq DOMAIN s.records
    BY DEF Resolved
  <2> QED
    BY <2>1, SameKinds DEF Reference!Resolves, RowResolves
<1>3. Reference!CommitCleanRowContradicted(s) <=> CleanRowContradicted(s)
  BY <1>1, <1>2 DEF Reference!CommitCleanRowContradicted, CleanRowContradicted
<1>4. Reference!CommitInterceptionOrphaned(s) <=> InterceptionOrphaned(s)
  BY <1>1, SameKinds DEF Reference!CommitInterceptionOrphaned, InterceptionOrphaned
<1> QED
  BY <1>3, <1>4

LEMMA AttributionShared ==
  ASSUME NEW s, Undisputed(s)
  PROVE  Reference!CommitAttribution(s) = AttributionCodes(s)
<1> DEFINE inters(row) == {i \in Resolved(s, row) : KindOf(s.records[i]) = "interception"}
<1>1. /\ Decoded(s) /\ WellTyped(s) /\ Reference!HasManifest(s) /\ CorpusCodes(s) = {}
  BY Gate0Leaves DEF Undisputed
<1>2. s.env.corpus.manifest.expected.form # "absent" => Reference!ExpectedPayloadsOk(s)
  <2>1. ExpectedPayloadsCodes(s) = {}
    BY <1>1 DEF CorpusCodes
  <2> QED
    BY <1>1, <2>1, ExpectedShared
<1>3. ASSUME NEW i \in DOMAIN s.rows
      PROVE  Reference!AttributionOf(s, s.rows[i]) = PinnedRowCodes(s, s.rows[i])
  <2> DEFINE row == s.rows[i]
             expected == ExpectedFor(s, row.attackId)
  <2>1. (IF Reference!HasManifest(s) /\ Reference!Manifest(s).expected.form = "map"
              /\ Reference!ExpectedPayloadsOk(s)
              /\ row.attackId \in DOMAIN Reference!Manifest(s).expected.values
         THEN Reference!Manifest(s).expected.values[row.attackId] ELSE {}) = expected
    BY <1>1, <1>2 DEF ExpectedFor, Reference!Manifest
  <2>2. {k \in Reference!ResolvedViews(s, row) :
           Reference!Kind(s.records[k]) = "interception"} = inters(row)
    <3>1. Resolved(s, row) \subseteq DOMAIN s.records
      BY DEF Resolved
    <3> QED
      BY <3>1, SameKinds
  <2>3. Reference!AttributionOf(s, row) =
          IF row.attribution # "pinned" THEN {}
          ELSE IF inters(row) = {} THEN {"attribution-pinned-recordless"}
          ELSE IF expected = {} THEN {"attribution-unpinnable"}
          ELSE When(\E k \in inters(row) :
                      LET commitment == s.records[k].payload.commitment IN
                      /\ commitment.form \in {"malformed", "wellFormed"}
                      /\ commitment.values \cap expected = {},
                    "attribution-pin-unmatched")
    <3> HIDE DEF expected, inters
    <3> QED
      BY <2>1, <2>2, SameReading DEF Reference!AttributionOf
  <2>4. PinnedRowCodes(s, row) =
          IF row.attribution # "pinned" THEN {}
          ELSE IF inters(row) = {} THEN {"attribution-pinned-recordless"}
          ELSE IF expected = {} THEN {"attribution-unpinnable"}
          ELSE When(\E k \in inters(row) :
                      LET commitment == s.records[k].payload.commitment IN
                      /\ commitment.form \in {"malformed", "wellFormed"}
                      /\ commitment.values \cap expected = {},
                    "attribution-pin-unmatched")
    <3>1. RowResolves(s, row, "interception") <=> inters(row) # {}
      BY DEF RowResolves
    <3>2. PinUnmatched(s, row) <=>
            \E k \in inters(row) :
              LET commitment == s.records[k].payload.commitment IN
              /\ commitment.form \in {"malformed", "wellFormed"}
              /\ commitment.values \cap expected = {}
      BY DEF PinUnmatched
    <3> HIDE DEF inters, expected
    <3> QED
      BY <3>1, <3>2 DEF PinnedRowCodes, expected, When
  <2> HIDE DEF row, expected, inters
  <2> QED
    BY <2>3, <2>4 DEF row
<1>4. {i \in DOMAIN s.rows : Reference!AttributionOf(s, s.rows[i]) # {}}
        = {i \in DOMAIN s.rows : PinnedRowCodes(s, s.rows[i]) # {}}
  BY <1>3
<1> QED
  BY <1>3, <1>4 DEF Reference!CommitAttribution, AttributionCodes

LEMMA AnyBasisShared ==
  ASSUME NEW s, Undisputed(s)
  PROVE  /\ AnyBasisCommitmentCodes(s) = {}
         /\ Reference!When(Reference!CommitCleanRowContradicted(s), "clean-row-contradicted") = {}
         /\ Reference!When(Reference!CommitInterceptionOrphaned(s),
                           "interception-record-orphaned") = {}
         /\ Reference!CommitAttribution(s) = {}
<1>1. AnyBasisCommitmentCodes(s) =
        Reference!When(Reference!CommitCleanRowContradicted(s), "clean-row-contradicted")
          \cup Reference!When(Reference!CommitInterceptionOrphaned(s),
                              "interception-record-orphaned")
          \cup Reference!CommitAttribution(s)
  BY ContradictedShared, AttributionShared, SameReading DEF AnyBasisCommitmentCodes, When
<1>2. AnyBasisCommitmentCodes(s) \subseteq Reference!CheckCommitments(s)
  BY <1>1 DEF Reference!CheckCommitments
<1>3. AnyBasisCommitmentCodes(s) \subseteq Gate1(s)
  <2>1. HasSubstrateRows(s) => RecordsPresent(s) /\ s.issuedAt = "wellFormed"
    BY RecordsAreThere, Gate0Leaves DEF Undisputed
  <2> QED
    BY <2>1 DEF Gate1
<1>4. AnyBasisCommitmentCodes(s) = {}
  BY <1>2, <1>3, ReferenceReports DEF Undisputed, PassesGate0
<1> QED
  BY <1>1, <1>4

\* The carried records of a kind that name this run.
LEMMA SameBound ==
  ASSUME NEW s, Undisputed(s), HasSubstrateRows(s), NEW kind, kind # "absent"
  PROVE  Reference!OfThisRun(s, kind) = {s.records[i] : i \in BoundOfKind(s, kind)}
<1>1. ASSUME NEW i \in DOMAIN s.records
      PROVE  /\ Reference!Kind(s.records[i]) = kind /\ Reference!NamesRun(s, s.records[i])
                  <=> i \in BoundOfKind(s, kind)
  <2>1. KindOf(s.records[i]) = Reference!Kind(s.records[i])
    BY SameKinds
  <2>2. Reference!Kind(s.records[i]) = kind => Reference!Readable(s.records[i])
    BY KindIsRead
  <2>3. Reference!NamesRun(s, s.records[i]) <=>
          Reference!Readable(s.records[i]) /\ BindsTo(s.records[i], RunBinding(s))
    BY SameBinding DEF Reference!NamesRun, BindsTo, Undisputed
  <2> QED
    BY <2>1, <2>2, <2>3 DEF BoundOfKind
<1>2. {j \in DOMAIN s.records :
         Reference!Kind(s.records[j]) = kind /\ Reference!NamesRun(s, s.records[j])}
        = BoundOfKind(s, kind)
  BY <1>1 DEF BoundOfKind
<1> QED
  BY <1>2 DEF Reference!OfThisRun

LEMMA SealsShared ==
  ASSUME NEW s, Undisputed(s), HasSubstrateRows(s)
  PROVE  /\ Reference!CommitObservedSet(s) <=> ObservedSetMismatch(s)
         /\ Reference!CommitSealAttacks(s) <=> SealNamedAttackUncaught(s)
         /\ Reference!CommitAssessedSubset(s) <=> AssessedSetUndeclared(s)
<1>1. /\ Reference!HasLabels(s) /\ Reference!HasClasses(s) /\ s.coverage.form = "object"
      /\ Reference!DeclaredAttacks(s) = DeclaredAttackIDs(s)
      /\ \A row : Reference!IsCaught(s, row) <=> IsCaughtLabel(s, row.label)
  BY Gate0Leaves, SameLabels DEF Undisputed
<1>2. Reference!OfThisRun(s, "sealed") = {s.records[i] : i \in BoundOfKind(s, "sealed")}
        /\ Reference!OfThisRun(s, "arming") = {s.records[i] : i \in BoundOfKind(s, "arming")}
  BY SameBound
<1>3. \A arr : Reference!AttackIdArrayOk(arr, Reference!DeclaredAttacks(s))
                 <=> AttackIDArrayOK(arr, DeclaredAttackIDs(s))
  BY <1>1 DEF Reference!AttackIdArrayOk, AttackIDArrayOK
<1>4. Reference!CommitObservedSet(s) <=> ObservedSetMismatch(s)
  <2>1. Reference!ObservedSetDigest(s) = ObservedLeaves(s)
    BY SameKinds, SameReading DEF Reference!ObservedSetDigest, ObservedLeaves
  <2>2. Reference!CommitObservedSet(s) <=>
          \E i \in BoundOfKind(s, "sealed") :
            s.records[i].payload.observedSet \notin {{}, {ObservedLeaves(s)}}
    BY <1>2, <2>1 DEF Reference!CommitObservedSet
  <2> QED
    BY <2>2 DEF ObservedSetMismatch
<1>5. Reference!CommitSealAttacks(s) <=> SealNamedAttackUncaught(s)
  <2>1. ASSUME NEW id
        PROVE  (\A j \in DOMAIN s.rows :
                  Reference!IsCaught(s, s.rows[j]) => s.rows[j].attackId # id)
                 <=> ~ \E j \in DOMAIN s.rows : /\ IsCaughtLabel(s, s.rows[j].label)
                                               /\ s.rows[j].attackId = id
    BY <1>1
  <2>2. ASSUME NEW p
        PROVE  (LET named == p.observedAttacks IN
                /\ Reference!HasLabels(s)
                /\ Reference!AttackIdArrayOk(named, Reference!DeclaredAttacks(s))
                /\ \E id \in named.ids : \A j \in DOMAIN s.rows :
                     Reference!IsCaught(s, s.rows[j]) => s.rows[j].attackId # id)
               <=> (LET named == p.observedAttacks IN
                    /\ AttackIDArrayOK(named, DeclaredAttackIDs(s))
                    /\ \E id \in named.ids :
                         ~ \E j \in DOMAIN s.rows : /\ IsCaughtLabel(s, s.rows[j].label)
                                                   /\ s.rows[j].attackId = id)
    BY <1>1, <1>3, <2>1
  <2> QED
    BY <1>2, <2>2 DEF Reference!CommitSealAttacks, SealNamedAttackUncaught
<1>6. Reference!CommitAssessedSubset(s) <=> AssessedSetUndeclared(s)
  BY <1>1, <1>2, <1>3, SameAssessed DEF Reference!CommitAssessedSubset, AssessedSetUndeclared
<1> QED
  BY <1>4, <1>5, <1>6

\* What is wrong with a carried record of this run that reads, whatever its kind.
LEMMA FaultShared ==
  ASSUME NEW s, PassesGate0(s), HasSubstrateRows(s), NEW i \in DOMAIN s.records,
         s.records[i].payload.kind \in CoveringKinds
  PROVE  Reference!CarriedRecordFault(s, s.records[i].payload) =
           IF CoversAlone(s, i) THEN {} ELSE {KindFailCode(s.records[i].payload)}
<1> DEFINE p == s.records[i].payload
<1>1. DecodedPayload(p)
  BY Gate0Leaves, RecordsDecoded
<1>2. /\ Reference!ArmingOk(s, p) <=>
           ArmingConstraintsMet(p, s.env.posture.digest, DeclaredAttackIDs(s))
      /\ Reference!SealedOk(s, p, {}) <=>
           SealedConstraintsMet(p, s.env.posture.digest, {}, DeclaredAttackIDs(s))
      /\ Reference!ExaminationOk(p) <=> p.method = "reconstructed"
  BY <1>1, SameConstraints
<1>3. CASE p.kind = "arming"
  <2>1. KindFailCode(p) = "arming-covers-nothing"
    BY <1>3 DEF KindFailCode
  <2>2. Reference!CarriedRecordFault(s, p) =
          When(~Reference!ArmingOk(s, p), "arming-covers-nothing")
    BY <1>3, SameReading DEF Reference!CarriedRecordFault
  <2> QED
    BY <1>2, <1>3, <2>1, <2>2 DEF CoversAlone, KindConstraintsMet, When
<1>4. CASE p.kind = "sealed"
  <2>1. KindFailCode(p) = "sealed-covers-nothing"
    BY <1>4 DEF KindFailCode
  <2>2. Reference!CarriedRecordFault(s, p) =
          When(~Reference!SealedOk(s, p, {}), "sealed-covers-nothing")
    BY <1>4, SameReading DEF Reference!CarriedRecordFault
  <2> QED
    BY <1>2, <1>4, <2>1, <2>2 DEF CoversAlone, KindConstraintsMet, When
<1>5. CASE p.kind = "examination"
  <2>1. KindFailCode(p) = "examination-covers-nothing"
    BY <1>5 DEF KindFailCode
  <2>2. Reference!CarriedRecordFault(s, p) =
          When(~Reference!ExaminationOk(p), "examination-covers-nothing")
    BY <1>5, SameReading DEF Reference!CarriedRecordFault
  <2> QED
    BY <1>2, <1>5, <2>1, <2>2 DEF CoversAlone, KindConstraintsMet, When
<1>6. CASE p.kind = "interception"
  <2>1. CoversAlone(s, i) <=> InterceptionConstraintsMet(p)
    BY <1>6 DEF CoversAlone, KindConstraintsMet
  <2> HIDE DEF p
  <2>2. /\ InterceptionConstraintsMet(p) <=> Reference!CarriedRecordFault(s, p) = {}
        /\ ~InterceptionConstraintsMet(p) =>
             Reference!CarriedRecordFault(s, p) = {KindFailCode(p)}
    BY <1>1, <1>6, InterceptionFault
  <2> QED
    BY <2>1, <2>2 DEF p
<1> QED
  BY <1>3, <1>4, <1>5, <1>6 DEF CoveringKinds

\* The carried records both rails hold to the constraints of their kind.
LEMMA CarriedShared ==
  ASSUME NEW s, Undisputed(s), HasSubstrateRows(s)
  PROVE  Reference!CommitCarriedCover(s) = CarriedRecordCodes(s)
<1> DEFINE held == {r \in UNION {Reference!OfThisRun(s, kind) :
                                   kind \in Reference!COVERING_KINDS} :
                      r.jsonType /\ r.payload.runBinding # {} /\ r.payload.method # "absent"}
           Fault(i) == Reference!CarriedRecordFault(s, s.records[i].payload)
<1>0. PassesGate0(s) /\ Decoded(s)
  BY Gate0Leaves DEF Undisputed
<1>1. Reference!COVERING_KINDS = CoveringKinds /\ "absent" \notin CoveringKinds
  BY DEF Reference!COVERING_KINDS, CoveringKinds
<1>2. ASSUME NEW i \in ReadableCovering(s)
      PROVE  /\ i \in DOMAIN s.records /\ s.records[i] \in held
             /\ s.records[i].payload.kind \in CoveringKinds
  <2>1. i \in DOMAIN s.records /\ PayloadCodes(s.records[i], RunBinding(s)) = {}
          /\ KindOf(s.records[i]) \in CoveringKinds
    BY DEF ReadableCovering
  <2> QED
    BY <1>0, <1>1, <2>1, ReadIsOfThisRun
<1>3. ASSUME NEW r \in held
      PROVE  \E i \in ReadableCovering(s) : r = s.records[i]
  <2>1. PICK kind \in CoveringKinds : r \in Reference!OfThisRun(s, kind)
    BY <1>1
  <2>2. PICK i \in DOMAIN s.records :
          /\ r = s.records[i] /\ Reference!Kind(r) = kind /\ Reference!NamesRun(s, r)
    BY <2>1 DEF Reference!OfThisRun
  <2>3. /\ Reference!Readable(r) /\ r.payload.kind = kind /\ KindOf(r) = kind
        /\ r.payload.runBinding = {RunBinding(s)}
    BY <1>0, <1>1, <2>2, KindIsRead, SameBinding DEF Reference!NamesRun
  <2>4. PayloadCodes(r, RunBinding(s)) = {}
    BY <1>0, <1>1, <2>2, <2>3, ReadAlikeRecords, RecordsDecoded
  <2> QED
    BY <2>2, <2>3, <2>4 DEF ReadableCovering
<1>4. held = {s.records[i] : i \in ReadableCovering(s)}
  BY <1>2, <1>3
<1>5. Reference!CommitCarriedCover(s) = UNION {Fault(i) : i \in ReadableCovering(s)}
  <2>1. Reference!CommitCarriedCover(s) =
          UNION {Reference!CarriedRecordFault(s, r.payload) : r \in held}
    BY DEF Reference!CommitCarriedCover
  <2> HIDE DEF held
  <2> QED
    BY <1>4, <2>1
<1>6. ASSUME NEW i \in ReadableCovering(s)
      PROVE  Fault(i) = IF CoversAlone(s, i) THEN {} ELSE {KindFailCode(s.records[i].payload)}
  BY <1>0, <1>2, FaultShared
<1> HIDE DEF held, Fault
<1> QED
  BY <1>5, <1>6 DEF CarriedRecordCodes

\* A seal that satisfies the core satisfies the reference rail, once no carried
\* record is at fault: then every posture an arming record claims is the pinned
\* one (sealedRecordPresent; _commit_sealed_present).
LEMMA SealShared ==
  ASSUME NEW s, Undisputed(s), HasSubstrateRows(s)
  PROVE  /\ SealedRecordAbsent(s) => ~Reference!CommitSealedPresent(s)
         /\ CarriedRecordCodes(s) = {} /\ ~SealedRecordAbsent(s) =>
              Reference!CommitSealedPresent(s)
<1> DEFINE pinned   == s.env.posture.digest
           postures == Reference!ArmingPosturesOf(Reference!Elems(s.records))
           declared == DeclaredAttackIDs(s)
<1>0. PassesGate0(s) /\ Decoded(s) /\ PosturesHeld(s)
  BY Gate0Leaves DEF Undisputed, PassesGate0, ReadAlike
<1>1. ASSUME NEW i \in DOMAIN s.records
      PROVE  DecodedPayload(s.records[i].payload)
  BY <1>0, RecordsDecoded
<1>2. ASSUME NEW i \in DOMAIN s.records, NEW claims
      PROVE  Reference!SealedOk(s, s.records[i].payload, claims) <=>
               SealedConstraintsMet(s.records[i].payload, pinned, claims, declared)
  BY <1>0, <1>1, SameConstraints
<1>3. ASSUME Reference!CommitSealedPresent(s) PROVE ~SealedRecordAbsent(s)
  <2>1. PICK seal \in Reference!OfThisRun(s, "sealed") :
          seal.jsonType /\ Reference!SealedOk(s, seal.payload, postures)
    BY <1>3 DEF Reference!CommitSealedPresent
  <2>2. PICK i \in BoundOfKind(s, "sealed") : seal = s.records[i]
    BY SameBound
  <2>3. i \in DOMAIN s.records /\ KindOf(s.records[i]) = "sealed"
          /\ seal.payload.runBinding = {RunBinding(s)}
    BY <2>2 DEF BoundOfKind, BindsTo
  <2>4. Reference!Kind(seal) = "sealed" /\ Reference!Readable(seal)
          /\ seal.payload.kind = "sealed"
    BY <2>2, <2>3, SameKinds, KindIsRead
  <2>5. SealedConstraintsMet(seal.payload, pinned, postures, declared)
    BY <1>2, <2>1, <2>2, <2>3
  <2>6. /\ seal.payload.method = "intercepted"
        /\ SealedConstraintsMet(seal.payload, pinned, {}, declared)
    BY <2>5 DEF SealedConstraintsMet
  <2>7. PayloadCodes(seal, RunBinding(s)) = {}
    BY <1>1, <2>1, <2>2, <2>3, <2>4, <2>6, ReadAlikeRecords
  <2>8. i \in ReadableCovering(s)
    BY <2>2, <2>3, <2>7 DEF ReadableCovering, CoveringKinds
  <2>9. CoversAlone(s, i)
    BY <2>2, <2>4, <2>6 DEF CoversAlone, KindConstraintsMet
  <2> QED
    BY <2>3, <2>8, <2>9 DEF SealedRecordAbsent
<1>4. ASSUME CarriedRecordCodes(s) = {}, ~SealedRecordAbsent(s)
      PROVE  Reference!CommitSealedPresent(s)
  <2>1. PICK i \in ReadableCovering(s) : KindOf(s.records[i]) = "sealed" /\ CoversAlone(s, i)
    BY <1>4 DEF SealedRecordAbsent
  <2>2. i \in DOMAIN s.records /\ PayloadCodes(s.records[i], RunBinding(s)) = {}
    BY DEF ReadableCovering
  <2>3. /\ s.records[i].payload.kind = "sealed" /\ s.records[i].jsonType
        /\ s.records[i] \in Reference!OfThisRun(s, "sealed")
    BY <1>0, <2>1, <2>2, ReadIsOfThisRun
  <2>4. SealedConstraintsMet(s.records[i].payload, pinned, {}, declared)
    BY <2>1, <2>3 DEF CoversAlone, KindConstraintsMet
  <2>5. ASSUME NEW j \in DOMAIN s.records, Reference!Kind(s.records[j]) = "arming"
        PROVE  s.records[j].payload.posture \in {"absent", pinned}
    <3>1. CASE PayloadCodes(s.records[j], RunBinding(s)) # {}
      BY <1>0, <2>5, <3>1 DEF PosturesHeld
    <3>2. CASE PayloadCodes(s.records[j], RunBinding(s)) = {}
      <4>1. s.records[j].payload.kind = "arming" /\ KindOf(s.records[j]) = "arming"
        BY <2>5, SameKinds, KindIsRead
      <4>2. j \in ReadableCovering(s)
        BY <3>2, <4>1 DEF ReadableCovering, CoveringKinds
      <4>3. CoversAlone(s, j)
        BY <1>4, <4>2 DEF CarriedRecordCodes
      <4>4. ArmingConstraintsMet(s.records[j].payload, pinned, declared)
        BY <4>1, <4>3 DEF CoversAlone, KindConstraintsMet
      <4> QED
        BY <4>4 DEF ArmingConstraintsMet
    <3> QED
      BY <3>1, <3>2
  <2>6. postures \subseteq {pinned}
    BY <2>5 DEF Reference!ArmingPosturesOf, Reference!PostureOf, Reference!Elems
  <2>7. SealedConstraintsMet(s.records[i].payload, pinned, postures, declared)
    BY <2>4, <2>6 DEF SealedConstraintsMet
  <2>8. Reference!SealedOk(s, s.records[i].payload, postures)
    BY <1>2, <2>2, <2>7
  <2> QED
    BY <2>3, <2>8 DEF Reference!CommitSealedPresent
<1> QED
  BY <1>3, <1>4

LEMMA CommitmentsSilent ==
  ASSUME NEW s, Undisputed(s)
  PROVE  /\ HasSubstrateRows(s) => SubstrateCommitmentCodes(s) = {}
         /\ Reference!CheckCommitments(s) = {}
<1>1. CASE HasSubstrateRows(s)
  <2>0. PassesGate0(s) /\ Gate1(s) \cap Reference!Codes(s) = {} /\ s.parses
    BY DEF Undisputed, PassesGate0
  <2>1. /\ ~NoRecords(s) /\ Reference!HasRecords(s) /\ RecordsPresent(s)
        /\ Reference!HasSubstrate(s) /\ s.issuedAt = "wellFormed"
    BY <1>1, <2>0, RecordsAreThere, SameBinding, Gate0Leaves
  <2>2. SubstrateCommitmentCodes(s) \subseteq Gate1(s)
    BY <1>1, <2>1 DEF Gate1
  <2> DEFINE observed == When(ObservedSetMismatch(s), "observed-set-mismatch")
             carried  == CarriedRecordCodes(s)
             named    == When(SealNamedAttackUncaught(s), "observed-attack-uncaught")
             assessed == When(AssessedSetUndeclared(s), "assessed-set-exceeds-declaration")
             sealed   == When(SealedRecordAbsent(s), "sealed-record-absent")
             unsealed == When(~Reference!CommitSealedPresent(s), "sealed-record-absent")
  <2>3. SubstrateCommitmentCodes(s) =
          observed \cup sealed \cup carried \cup named \cup assessed
    BY <2>1 DEF SubstrateCommitmentCodes
  <2>4. Reference!CheckCommitments(s) =
          observed \cup unsealed \cup carried \cup named \cup assessed
    <3>1. Reference!When(Reference!CommitObservedSet(s), "observed-set-mismatch") = observed
      BY <1>1, SealsShared, SameReading DEF When
    <3>2. Reference!When(Reference!CommitSealAttacks(s), "observed-attack-uncaught") = named
      BY <1>1, SealsShared, SameReading DEF When
    <3>3. Reference!When(Reference!CommitAssessedSubset(s),
                         "assessed-set-exceeds-declaration") = assessed
      BY <1>1, SealsShared, SameReading DEF When
    <3>4. Reference!When(~Reference!CommitSealedPresent(s), "sealed-record-absent") = unsealed
      BY SameReading
    <3>5. Reference!CommitCarriedCover(s) = carried
      BY <1>1, CarriedShared
    <3> HIDE DEF observed, carried, named, assessed, unsealed
    <3> QED
      BY <2>1, <3>1, <3>2, <3>3, <3>4, <3>5, AnyBasisShared DEF Reference!CheckCommitments
  <2>5. /\ SealedRecordAbsent(s) => ~Reference!CommitSealedPresent(s)
        /\ carried = {} /\ ~SealedRecordAbsent(s) => Reference!CommitSealedPresent(s)
    BY <1>1, SealShared
  <2>6. sealed \subseteq unsealed
    BY <2>5 DEF When
  <2>7. Reference!CheckCommitments(s) \subseteq Reference!Codes(s)
    BY <2>0, ReferenceReports
  <2> HIDE DEF observed, carried, named, assessed, sealed, unsealed
  <2>8. observed = {} /\ carried = {} /\ named = {} /\ assessed = {} /\ sealed = {}
    BY <2>0, <2>2, <2>3, <2>4, <2>6, <2>7
  <2>9. unsealed = {}
    BY <2>5, <2>8 DEF sealed, unsealed, When
  <2> QED
    BY <2>3, <2>4, <2>8, <2>9
<1>2. CASE ~HasSubstrateRows(s)
  <2>1. ~Reference!HasSubstrate(s)
    BY <1>2 DEF HasSubstrateRows, Reference!HasSubstrate, IsSubstrate
  <2> QED
    BY <1>2, <2>1, AnyBasisShared DEF Reference!CheckCommitments
<1> QED
  BY <1>1, <1>2

----------------------------------------------------------------------------
(* GATE 1 is silent on both rails *)

\* A substrate row without a fault (validity.go, checkSubstrateRow).
LEMMA RowLeaves ==
  ASSUME NEW s, NEW row, SubstrateRowCodes(s, row, RunBinding(s)) = {}
  PROVE  /\ ~RowFailsClosed(s, row) /\ RefShapeCodes(row) = {}
         /\ ReadableRefs(row) \subseteq DOMAIN s.records
         /\ \A k \in Resolved(s, row) : PayloadCodes(s.records[k], RunBinding(s)) = {}
         /\ ClassMatchCodes(s, row) = {}
<1> DEFINE payloadCodes == UNION {PayloadCodes(s.records[k], RunBinding(s)) :
                                    k \in Resolved(s, row)}
<1>1. /\ ~RowFailsClosed(s, row) /\ RefShapeCodes(row) = {}
      /\ ReadableRefs(row) \subseteq DOMAIN s.records
  BY DEF SubstrateRowCodes
<1>2. payloadCodes = {} /\ ClassMatchCodes(s, row) = {}
  BY <1>1 DEF SubstrateRowCodes
<1> QED
  BY <1>1, <1>2

\* What covers a row that reads and has no fault, and that the match is silent.
LEMMA MatchSilent ==
  ASSUME NEW s, Undisputed(s), NEW i \in DOMAIN s.rows, IsSubstrate(s.rows[i])
  PROVE  /\ Matched(s, s.rows[i]) = {}
         /\ Reference!ClassMatch(s, s.rows[i]).covering = Covering(s, s.rows[i])
<1> DEFINE row == s.rows[i]
<1>1. PassesGate0(s) /\ Decoded(s) /\ HasSubstrateRows(s)
  BY Gate0Leaves DEF Undisputed, HasSubstrateRows
<1>2. /\ ~RowFailsClosed(s, row) /\ RefShapeCodes(row) = {} /\ ClassMatchCodes(s, row) = {}
      /\ \A k \in Resolved(s, row) : PayloadCodes(s.records[k], RunBinding(s)) = {}
  BY RowsSilent, RowLeaves
<1>3. row.refs.form \in {"indexes", "absent", "malformed"}
        /\ row.refs.idx \in Seq(Elems(row.refs.idx))
  BY <1>1 DEF Decoded
<1>4. RowReads(s, row) /\ row.method \in KnownMethods
  BY <1>2, <1>3 DEF RowReads, RowFailsClosed, RefShapeCodes, When
<1>5. CASE row.method = "reconstructed" \/ ~IsCaughtLabel(s, row.label)
  BY <1>1, <1>2, <1>3, <1>4, <1>5, SameMatch
<1>6. CASE row.method # "reconstructed" /\ IsCaughtLabel(s, row.label)
  <2> DEFINE found == Reference!UsableOfKind(s, row, "interception")
             valid == ValidOfKind(s, row, "interception")
             match == Reference!ClassMatch(s, row)
  <2>1. Covering(s, row) = valid /\ valid # {}
    BY <1>2, <1>6 DEF RequiredKinds, Covering, ClassMatchCodes
  <2>2. found = OfKind(s, row, "interception")
    BY <1>1, <1>4, SameCandidates
  <2>3. ASSUME NEW k \in found
        PROVE  /\ Reference!CommitmentCodes(s.records[k].payload) = {}
               /\ s.records[k].payload.method \in KnownMethods
    <3> DEFINE p == s.records[k].payload
    <3>1. k \in Resolved(s, row) /\ k \in DOMAIN s.records /\ p.kind = "interception"
      BY <2>2 DEF OfKind, Resolved
    <3>2. KindOf(s.records[k]) = "interception"
      BY <1>1, <1>4, <3>1, SameCandidates
    <3>3. k \in ReadableCovering(s)
      BY <1>2, <3>1, <3>2 DEF ReadableCovering, CoveringKinds
    <3>4. CarriedRecordCodes(s) = {}
      <4>1. SubstrateCommitmentCodes(s) = {} /\ ~NoRecords(s)
        BY <1>1, CommitmentsSilent, RecordsAreThere
      <4> QED
        BY <4>1 DEF SubstrateCommitmentCodes
    <3>5. CoversAlone(s, k)
      BY <3>3, <3>4 DEF CarriedRecordCodes
    <3>6. InterceptionConstraintsMet(p)
      BY <3>1, <3>5 DEF CoversAlone, KindConstraintsMet
    <3>7. p.commitment.form = "wellFormed" /\ p.method \in KnownMethods
      BY <3>6 DEF InterceptionConstraintsMet
    <3> QED
      BY <3>7 DEF Reference!CommitmentCodes
  <2>4. {k \in found : Reference!CommitmentCodes(s.records[k].payload) = {}} = found
          /\ valid = found
    <3>1. valid = {k \in found : /\ Reference!CommitmentCodes(s.records[k].payload) = {}
                                 /\ s.records[k].payload.method \in KnownMethods}
      BY <1>1, <1>4, SameCovering
    <3> HIDE DEF found, valid
    <3> QED
      BY <2>3, <3>1
  <2>5. match.covering = found /\ match.codes = {}
    <3>1. Reference!IsCaught(s, row)
      BY <1>1, <1>6, Gate0Leaves, SameLabels
    <3>2. match = Reference!CoverCaught(s, row)
      BY <1>6, <3>1 DEF Reference!ClassMatch
    <3>3. Reference!CoverCaught(s, row).covering = found
      BY <2>4 DEF Reference!CoverCaught
    <3>4. Reference!CoverCaught(s, row).codes = {}
      <4>1. found # {}
        BY <2>1, <2>4
      <4>2. UNION {Reference!CommitmentCodes(s.records[k].payload) : k \in found} = {}
        BY <2>3
      <4> QED
        BY <4>1, <4>2 DEF Reference!CoverCaught
    <3> QED
      BY <3>2, <3>3, <3>4
  <2>6. Reference!MethodCap(s, row, found) = {}
    <3>1. ~ (/\ row.method = "intercepted"
             /\ \E k \in found : s.records[k].payload.method = "reconstructed")
      BY <1>2, <1>6, <2>1, <2>4 DEF ClassMatchCodes, RequiredKinds, When
    <3>2. found \subseteq Resolved(s, row)
      BY <2>2 DEF OfKind
    <3> HIDE DEF found
    <3> QED
      BY <1>1, <1>4, <3>1, <3>2, SameMethodCap DEF When
  <2> HIDE DEF found, valid, match
  <2> QED
    BY <2>1, <2>4, <2>5, <2>6 DEF Matched, match
<1> QED
  BY <1>5, <1>6

LEMMA RowsSilentOnBoth ==
  ASSUME NEW s, Undisputed(s), NEW i \in DOMAIN s.rows
  PROVE  Reference!Gate1Row(s, s.rows[i]) = {}
<1> DEFINE row == s.rows[i]
<1>1. PassesGate0(s) /\ Decoded(s)
  BY Gate0Leaves DEF Undisputed
<1>2. CASE IsSubstrate(row)
  <2>1. HasSubstrateRows(s) /\ ~NoRecords(s)
    BY <1>2, RecordsAreThere DEF HasSubstrateRows
  <2>2. /\ ~RowFailsClosed(s, row) /\ RefShapeCodes(row) = {}
        /\ ReadableRefs(row) \subseteq DOMAIN s.records
        /\ \A k \in Resolved(s, row) : PayloadCodes(s.records[k], RunBinding(s)) = {}
    BY <1>2, RowsSilent, RowLeaves
  <2>3. Reference!Gate1Row(s, row) =
          (UNION {Reference!Gate1CheckPayload(s, s.records[k]) : k \in Resolved(s, row)})
            \cup Matched(s, row)
    BY <1>1, <1>2, <2>1, <2>2, RowToTheEnd
  <2>4. \A k \in Resolved(s, row) : Reference!Gate1CheckPayload(s, s.records[k]) = {}
    BY <1>1, <2>1, <2>2, PayloadShared, RecordsDecoded DEF Resolved
  <2>5. Matched(s, row) = {}
    BY <1>2, MatchSilent
  <2> QED
    BY <2>3, <2>4, <2>5
<1>3. CASE ~IsSubstrate(row)
  BY <1>3 DEF Reference!Gate1Row, Reference!RowIsRead, IsSubstrate
<1> QED
  BY <1>2, <1>3

\* Two rails that share no code on a statement GATE 0 lets pass find none in it
\* before the result is compared.
LEMMA Gate1SilentOnBoth ==
  ASSUME NEW s, Undisputed(s)
  PROVE  /\ Gate1(s) = {}
         /\ Reference!CheckFailClosedRows(s) = {} /\ Reference!CheckRecords(s) = {}
         /\ Reference!CheckGate1Coverage(s) = {} /\ Reference!CheckCommitments(s) = {}
<1> DEFINE outside == When(~NoRecords(s) /\ AnyRefOutOfRange(s), "ref-out-of-range")
<1>1. Reference!When(/\ Reference!HasRecords(s)
                     /\ \E i \in DOMAIN s.rows :
                          ~(Reference!Refs(s.rows[i]) \subseteq DOMAIN s.records),
                     "ref-out-of-range") = outside
  BY SameKinds, SameReading
     DEF AnyRefOutOfRange, Reference!HasRecords, NoRecords, When
<1>2. Reference!CheckGate1Coverage(s) = outside
  <2>1. UNION {Reference!Gate1Row(s, s.rows[i]) : i \in DOMAIN s.rows} = {}
    BY RowsSilentOnBoth
  <2> HIDE DEF outside
  <2> QED
    BY <1>1, <2>1 DEF Reference!CheckGate1Coverage
<1>3. outside = {}
  <2>1. outside \subseteq Gate1(s)
    BY DEF Gate1
  <2>2. outside \subseteq Reference!Codes(s)
    BY <1>2, ReferenceReports DEF Undisputed, PassesGate0
  <2> HIDE DEF outside
  <2> QED
    BY <2>1, <2>2 DEF Undisputed
<1>4. Gate1(s) = {}
  <2>1. RecordSetCodes(s) = {} /\ AnyBasisCommitmentCodes(s) = {}
    BY RecordSetSilent, AnyBasisShared
  <2>2. CASE ~HasSubstrateRows(s)
    BY <1>3, <2>1, <2>2 DEF Gate1
  <2>3. CASE HasSubstrateRows(s)
    <3>1. RecordsPresent(s) /\ s.issuedAt = "wellFormed"
      BY <2>3, RecordsAreThere, Gate0Leaves DEF Undisputed
    <3>2. AllSubstrateRowCodes(s) = {}
      BY RowsSilent DEF AllSubstrateRowCodes
    <3>3. SubstrateCommitmentCodes(s) = {}
      BY <2>3, CommitmentsSilent
    <3> QED
      BY <1>3, <2>1, <2>3, <3>1, <3>2, <3>3 DEF Gate1
  <2> QED
    BY <2>2, <2>3
<1> QED
  BY <1>2, <1>3, <1>4, FailClosedSilent, RecordSetSilent, CommitmentsSilent

----------------------------------------------------------------------------
(* The result and the tiers, on both rails *)

\* The rails price a row, and a statement, alike (recompute.go; _recompute).
LEMMA SameRecompute ==
  ASSUME NEW s, PassesGate0(s)
  PROVE  Reference!Recompute(s) = Recompute(s)
<1> DEFINE candidates ==
             {"pass"}
               \cup Reference!When(\E i \in DOMAIN s.rows :
                                     Reference!RowForcesFail(s, s.rows[i]), "fail")
               \cup Reference!When(s.coverage.form = "object"
                      /\ s.coverage.outOfScope \cup s.coverage.routedElsewhere # {}, "degraded")
               \cup Reference!When(\E i \in DOMAIN s.rows :
                      /\ ~Reference!RowForcesFail(s, s.rows[i])
                      /\ <<s.rows[i].basis, s.rows[i].method>> # <<"substrate", "intercepted">>,
                    "pass_indirect")
           Lowest(v) == \A w \in candidates :
                          Reference!RESULT_ORDER[v] <= Reference!RESULT_ORDER[w]
<1>1. ASSUME NEW row
      PROVE  Reference!RowForcesFail(s, row) <=> RowForcesFail(s, row)
  <2>1. Reference!HasLabels(s) /\ (Reference!IsClean(s, row) <=> IsCleanLabel(s, row.label))
    BY Gate0Leaves, SameLabels
  <2>2. DOMAIN Reference!METHOD_ORDER = KnownMethods
    BY DEF Reference!METHOD_ORDER, KnownMethods
  <2>3. Reference!FailClosed(s, row) <=>
          \/ row.label \notin s.env.vocabulary.labels
          \/ row.basis \notin KnownBases \/ row.method \notin KnownMethods
          \/ row.attribution \notin KnownAttributions
    BY <2>1, <2>2 DEF Reference!FailClosed, Reference!Vocab, KnownBases, KnownAttributions
  <2> QED
    BY <2>1, <2>3 DEF Reference!RowForcesFail, RowForcesFail, IsCleanLabel, IsCaughtLabel
<1>2. candidates = Allowed(s)
  <2>1. s.coverage.form = "object"
    BY Gate0Leaves
  <2>2. ASSUME NEW row
        PROVE  RowIndirectClean(s, row) <=>
                 /\ ~Reference!RowForcesFail(s, row)
                 /\ <<row.basis, row.method>> # <<"substrate", "intercepted">>
    BY <1>1 DEF RowIndirectClean
  <2>3. Reference!When(\E i \in DOMAIN s.rows : Reference!RowForcesFail(s, s.rows[i]), "fail")
          = When(\E i \in DOMAIN s.rows : RowForcesFail(s, s.rows[i]), "fail")
    BY <1>1, SameReading DEF When
  <2>4. Reference!When(s.coverage.form = "object"
                         /\ s.coverage.outOfScope \cup s.coverage.routedElsewhere # {}, "degraded")
          = When(CoverageIncomplete(s), "degraded")
    BY <2>1, SameReading DEF When, CoverageIncomplete
  <2>5. Reference!When(\E i \in DOMAIN s.rows :
                         /\ ~Reference!RowForcesFail(s, s.rows[i])
                         /\ <<s.rows[i].basis, s.rows[i].method>> # <<"substrate", "intercepted">>,
                       "pass_indirect")
          = When(\E i \in DOMAIN s.rows : RowIndirectClean(s, s.rows[i]), "pass_indirect")
    BY <2>2, SameReading DEF When
  <2> QED
    BY <2>3, <2>4, <2>5 DEF Allowed
<1>3. Allowed(s) \subseteq {"pass", "pass_indirect", "degraded", "fail"}
  BY DEF Allowed, When
<1>4. /\ Reference!RESULT_ORDER["fail"] = 0 /\ Reference!RESULT_ORDER["degraded"] = 1
      /\ Reference!RESULT_ORDER["pass_indirect"] = 2 /\ Reference!RESULT_ORDER["pass"] = 3
  BY DEF Reference!RESULT_ORDER
<1>5. Reference!Recompute(s) = CHOOSE v \in candidates : Lowest(v)
  BY DEF Reference!Recompute
<1> HIDE DEF candidates
<1>6. \A v \in Allowed(s) : Lowest(v) <=> Least(v, Allowed(s))
  <2>1. \A v \in Allowed(s) : Reference!RESULT_ORDER[v] = ResultRank(v)
    BY <1>3, <1>4, Ranks
  <2> QED
    BY <1>2, <2>1 DEF Least
<1>7. Recompute(s) \in Allowed(s) /\ Least(Recompute(s), Allowed(s))
  BY RecomputeIsLeast
<1> HIDE DEF Lowest
<1>8. Reference!Recompute(s) \in Allowed(s) /\ Least(Reference!Recompute(s), Allowed(s))
  BY <1>2, <1>5, <1>6, <1>7
<1>9. \A v, w \in Allowed(s) : Least(v, Allowed(s)) /\ Least(w, Allowed(s)) => v = w
  <2>1. \A v, w \in Allowed(s) :
          ResultRank(v) <= ResultRank(w) /\ ResultRank(w) <= ResultRank(v) => v = w
    BY <1>3, Ranks
  <2> QED
    BY <2>1 DEF Least
<1> QED
  BY <1>7, <1>8, <1>9

\* The tier of a row of a known basis on a valid statement (tier.go; _tiers).
LEMMA SameTier ==
  ASSUME NEW s, Undisputed(s), NEW i \in DOMAIN s.rows, s.rows[i].basis \in KnownBases,
         NEW policy
  PROVE  RowTier(s, s.rows[i], policy) = Reference!Tier(s, s.rows[i], policy.keys)
<1> DEFINE row == s.rows[i]
<1>1. CASE row.basis = "artifact"
  BY <1>1 DEF RowTier, Reference!Tier, IsSubstrate
<1>2. CASE IsSubstrate(row)
  <2>1. SubstrateRowCodes(s, row, RunBinding(s)) = {} /\ Covering(s, row) # {}
    BY <1>2, RowsSilent, SilentRowIsCovered
  <2>2. Reference!RowIsRead(s, row)
    BY <1>2, <2>1, RowLeaves, SameFailClosed DEF Undisputed
  <2>3. Reference!ClassMatch(s, row).covering = Covering(s, row)
    BY <1>2, MatchSilent
  <2>4. \A rec : Reference!RecordVerifies(rec, policy.keys) <=> RecordVerifies(rec, policy.keys)
    BY DEF Reference!RecordVerifies, RecordVerifies
  <2>5. row.basis # "artifact"
    BY <1>2 DEF IsSubstrate
  <2> HIDE DEF row
  <2>6. RowTier(s, row, policy) =
          IF policy.keys = {} THEN "unattested"
          ELSE IF \A k \in Covering(s, row) : RecordVerifies(s.records[k], policy.keys)
          THEN "attested" ELSE "unattested"
    BY <1>2, <2>1 DEF RowTier
  <2>7. Reference!Tier(s, row, policy.keys) =
          IF policy.keys = {} THEN "unattested"
          ELSE IF \A k \in Covering(s, row) : Reference!RecordVerifies(s.records[k], policy.keys)
          THEN "attested" ELSE "unattested"
    BY <2>1, <2>2, <2>3, <2>5 DEF Reference!Tier
  <2> QED
    BY <2>4, <2>6, <2>7 DEF row
<1> QED
  BY <1>1, <1>2 DEF KnownBases, IsSubstrate

\* One verdict, one tier column, a code in common.
LEMMA OneVerdict ==
  ASSUME NEW s, Decoded(s), ReadAlike(s)
  PROVE  /\ EvaluateCodes(s) # {} => EvaluateCodes(s) \cap Reference!Codes(s) # {}
         /\ EvaluateCodes(s) = {} =>
              /\ Reference!Codes(s) = {}
              /\ \A policy : \A i \in DOMAIN s.rows : s.rows[i].basis \in KnownBases =>
                   RowTier(s, s.rows[i], policy) = Reference!Tier(s, s.rows[i], policy.keys)
<1>1. CASE ~s.parses
  <2>1. EvaluateCodes(s) = {"statement-malformed"}
    BY <1>1 DEF EvaluateCodes, ParseError, When
  <2>2. Reference!Codes(s) = {"statement-malformed"}
    BY <1>1 DEF Reference!Codes
  <2> QED
    BY <2>1, <2>2
<1>2. CASE s.parses /\ Gate0(s) # {}
  <2>1. EvaluateCodes(s) = Gate0(s)
    BY <1>2 DEF EvaluateCodes, ParseError, When
  <2> QED
    BY <1>2, <2>1, Gate0Shared
<1>3. CASE PassesGate0(s) /\ ~Undisputed(s)
  <2>1. Gate1(s) \cap Reference!Codes(s) # {}
    BY <1>3 DEF Undisputed
  <2>2. EvaluateCodes(s) = Gate1(s)
    BY <1>3, <2>1 DEF EvaluateCodes, ParseError, When, PassesGate0
  <2> QED
    BY <2>1, <2>2
<1>4. CASE Undisputed(s)
  <2>0. PassesGate0(s) /\ HasRows(s) /\ s.parses
    BY <1>4 DEF Undisputed, PassesGate0, ReadAlike
  <2>1. EvaluateCodes(s) = When(Recompute(s) # s.result, "result-recompute-mismatch")
    BY <1>4, <2>0, Gate1SilentOnBoth DEF EvaluateCodes, ParseError, When, PassesGate0
  <2>2. Reference!Codes(s) = Reference!CheckResultRecompute(s)
    BY <1>4, <2>0, Gate0SilentOnBoth, Gate1SilentOnBoth, SameReading DEF Reference!Codes
  <2>3. Reference!CheckResultRecompute(s) =
          When(Recompute(s) # s.result, "result-recompute-mismatch")
    BY <2>0, Gate0Leaves, SameRecompute, SameReading
       DEF Reference!CheckResultRecompute, HasRows
  <2>4. EvaluateCodes(s) = Reference!Codes(s)
    BY <2>1, <2>2, <2>3
  <2> QED
    BY <1>4, <2>4, SameTier
<1> QED
  BY <1>1, <1>2, <1>3, <1>4 DEF PassesGate0

----------------------------------------------------------------------------
(* The theorem *)

\* On every statement they read alike, and under every key policy, the core and
\* the reference rail reach one verdict, share a code where they refuse it and
\* derive one tier column where they do not (packaging/run_vectors.py, which
\* compares them on the vectors; aee/verify.go).
THEOREM RailsAgree == Spec => []RailsReachOneVerdict
<1>1. IInv /\ Received => RailsReachOneVerdict
  <2> SUFFICES ASSUME IInv, Received, NEW c \in call, NEW r \in report,
                      c.function = "Verify", ReadAlike(c.statement)
               PROVE  LET s       == c.statement
                          outcome == Reference!Outcome(s, c.policy.keys) IN
                      IF r.verdict = "valid"
                      THEN /\ outcome.verdict = "valid"
                           /\ \A i \in DOMAIN s.rows :
                                s.rows[i].basis \in KnownBases => r.tiers[i] = outcome.tiers[i]
                      ELSE r.codes \cap Reference!Codes(s) # {}
    BY DEF RailsReachOneVerdict
  <2> DEFINE s       == c.statement
             outcome == Reference!Outcome(s, c.policy.keys)
  <2>1. Decoded(s) /\ r = Verify(s, c.policy)
    BY StatementAssumption DEF IInv, Reported, Received
  <2>2. CASE EvaluateCodes(s) = {}
    <3>1. r = ConsumerReport(s, c.policy)
      BY <2>1, <2>2 DEF Verify
    <3>2. r.verdict = "valid" /\ r.tiers = [i \in DOMAIN s.rows |-> RowTier(s, s.rows[i], c.policy)]
      BY <3>1 DEF ConsumerReport, DeriveTiers
    <3>3. /\ Reference!Codes(s) = {}
          /\ \A i \in DOMAIN s.rows : s.rows[i].basis \in KnownBases =>
               RowTier(s, s.rows[i], c.policy) = Reference!Tier(s, s.rows[i], c.policy.keys)
      BY <2>1, <2>2, OneVerdict
    <3>4. /\ outcome.verdict = "valid"
          /\ outcome.tiers = [i \in DOMAIN s.rows |-> Reference!Tier(s, s.rows[i], c.policy.keys)]
      BY <3>3 DEF Reference!Outcome
    <3> HIDE DEF s, outcome
    <3> QED
      BY <3>2, <3>3, <3>4 DEF s, outcome
  <2>3. CASE EvaluateCodes(s) # {}
    <3>1. r = InvalidReport(EvaluateCodes(s))
      BY <2>1, <2>3 DEF Verify
    <3>2. r.verdict = "invalid" /\ r.codes = EvaluateCodes(s)
      BY <3>1 DEF InvalidReport
    <3> QED
      BY <2>1, <2>3, <3>2, OneVerdict
  <2> QED
    BY <2>2, <2>3
<1> QED
  BY <1>1, Invariance, StatementsReceived, PTL

=============================================================================
