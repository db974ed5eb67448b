-------------------------- MODULE AeeResult_proofs --------------------------
(***************************************************************************)
(* What the gates and the recompute, taken as functions of a statement,    *)
(* guarantee together. Nothing is assumed of the statement.                *)
(***************************************************************************)
EXTENDS AeeResult, FiniteSetTheorems, TLAPS

\* A check that contributes no code found no fault (every use of When).
LEMMA WhenEmpty ==
  ASSUME NEW fault \in BOOLEAN, NEW code, When(fault, code) = {}
  PROVE  ~fault
BY DEF When

\* The order of the four results (recompute.go, resultRank).
LEMMA Ranks ==
  /\ ResultRank("fail") = 0 /\ ResultRank("degraded") = 1
  /\ ResultRank("pass_indirect") = 2 /\ ResultRank("pass") = 3
BY DEF ResultRank

Allowed(s) ==
  {"pass"}
    \cup When(\E i \in DOMAIN s.rows : RowIndirectClean(s, s.rows[i]), "pass_indirect")
    \cup When(CoverageIncomplete(s), "degraded")
    \cup When(\E i \in DOMAIN s.rows : RowForcesFail(s, s.rows[i]), "fail")

Least(v, allowed) == \A w \in allowed : ResultRank(v) <= ResultRank(w)

\* The recompute answers the least result the three conditions allow.
LEMMA RecomputeIsLeast ==
  ASSUME NEW s
  PROVE  Recompute(s) \in Allowed(s) /\ Least(Recompute(s), Allowed(s))
<1>1. Allowed(s) \subseteq {"pass", "pass_indirect", "degraded", "fail"}
        /\ "pass" \in Allowed(s)
  BY DEF Allowed, When
<1>2. \E v \in Allowed(s) : Least(v, Allowed(s))
  <2>1. CASE "fail" \in Allowed(s)
    BY <2>1, <1>1, Ranks DEF Least
  <2>2. CASE "fail" \notin Allowed(s) /\ "degraded" \in Allowed(s)
    BY <2>2, <1>1, Ranks DEF Least
  <2>3. CASE Allowed(s) \subseteq {"pass", "pass_indirect"} /\ "pass_indirect" \in Allowed(s)
    BY <2>3, <1>1, Ranks DEF Least
  <2>4. CASE Allowed(s) \subseteq {"pass"}
    BY <2>4, <1>1, Ranks DEF Least
  <2> QED
    BY <2>1, <2>2, <2>3, <2>4, <1>1
<1>3. Recompute(s) = CHOOSE v \in Allowed(s) : Least(v, Allowed(s))
  BY DEF Recompute, Allowed, Least
<1> QED
  BY <1>2, <1>3

\* A row that forces fail makes the recompute answer fail (recompute.go).
LEMMA FailRecomputed ==
  ASSUME NEW s, NEW i \in DOMAIN s.rows, RowForcesFail(s, s.rows[i])
  PROVE  Recompute(s) = "fail"
<1>1. Allowed(s) \subseteq {"pass", "pass_indirect", "degraded", "fail"}
        /\ "fail" \in Allowed(s)
  BY DEF Allowed, When
<1> QED
  BY <1>1, RecomputeIsLeast, Ranks DEF Least

\* The recompute answers pass only when nothing lowers the result: coverage is
\* complete and every row is clean, on the substrate, intercepted.
LEMMA PassRecomputed ==
  ASSUME NEW s, Recompute(s) = "pass"
  PROVE  /\ ~CoverageIncomplete(s)
         /\ \A i \in DOMAIN s.rows :
              /\ ~RowForcesFail(s, s.rows[i])
              /\ s.rows[i].basis = "substrate" /\ s.rows[i].method = "intercepted"
<1>1. Allowed(s) \subseteq {"pass", "pass_indirect", "degraded", "fail"}
  BY DEF Allowed, When
<1>2. \A w \in Allowed(s) : w = "pass"
  BY <1>1, RecomputeIsLeast, Ranks DEF Least
<1>3. ~CoverageIncomplete(s)
  BY <1>2 DEF Allowed, When
<1>4. \A i \in DOMAIN s.rows : ~RowIndirectClean(s, s.rows[i])
  BY <1>2 DEF Allowed, When
<1>5. \A i \in DOMAIN s.rows : ~RowForcesFail(s, s.rows[i])
  BY <1>2 DEF Allowed, When
<1> QED
  BY <1>3, <1>4, <1>5 DEF RowIndirectClean

----------------------------------------------------------------------------
(* What GATE 0 leaves for the later stages *)

\* The members GATE 1 dereferences are there once GATE 0 reports nothing
\* (statement.go).
LEMMA Gate0Silent ==
  ASSUME NEW s, Gate0(s) = {}
  PROVE  /\ s.env.form \notin {"absent", "mistyped"}
         /\ s.env.vocabulary.form = "object"
         /\ s.coverage.form \notin {"absent", "mistyped"}
         /\ DeclaredAttackIDs(s) # {}
         /\ ~IsNil(s.env.posture.digest)
         /\ s.issuedAt = "wellFormed"
         /\ s.result \in ResultTokens
<1> DEFINE hasVoc == s.env.form # "absent" /\ s.env.vocabulary.form = "object"
           hasCorpus == s.env.form # "absent" /\ ~IsNil(s.env.corpus.digest)
<1>1. /\ ParseCodes(s) = {} /\ EnvironmentCodes(s.env) = {}
      /\ hasCorpus => CorpusCodes(s) = {}
      /\ When(s.coverage.form = "absent", "coverage-missing") = {}
      /\ When(s.result \notin ResultTokens, "result-vocabulary") = {}
      /\ (IF s.issuedAt = "absent" THEN {"issued-at-missing"}
          ELSE When(s.issuedAt # "wellFormed", "issued-at-malformed")) = {}
  BY DEF Gate0
<1>2. s.result \in ResultTokens /\ s.coverage.form # "absent"
        /\ s.issuedAt = "wellFormed"
  BY <1>1 DEF When
<1>3. /\ s.env.form # "absent" /\ s.env.vocabulary.form = "object"
      /\ ~IsNil(s.env.posture.digest) /\ ~IsNil(s.env.corpus.digest)
  BY <1>1 DEF EnvironmentCodes, When
<1>4. s.coverage.form # "mistyped" /\ EnvironmentDecodeCodes(s.env) = {}
  BY <1>1 DEF ParseCodes, When
<1>5. s.env.form # "mistyped"
  BY <1>3, <1>4 DEF EnvironmentDecodeCodes, When
<1>6. CorpusCodes(s) = {}
  BY <1>1, <1>3
<1>7. DeclaredAttackIDs(s) # {}
  BY <1>6 DEF CorpusCodes, When
<1> QED
  BY <1>2, <1>3, <1>4, <1>5, <1>7

----------------------------------------------------------------------------
(* The order of the gates *)

\* A statement on which Evaluate reports nothing has passed every stage.
LEMMA EvaluateSilent ==
  ASSUME NEW s, EvaluateCodes(s) = {}
  PROVE  /\ ParseError(s) = {} /\ Gate0(s) = {} /\ Gate1(s) = {}
         /\ Recompute(s) = s.result
BY DEF EvaluateCodes, When

\* The requirements on interceptions hold of every statement GATE 1 lets pass,
\* with substrate rows or without (validity.go, commitments.go).
LEMMA Gate1Silent ==
  ASSUME NEW s, Gate1(s) = {}
  PROVE  AnyBasisCommitmentCodes(s) = {}
BY DEF Gate1

\* What GATE 1 has established of a statement with substrate rows.
LEMMA Gate1SilentSubstrate ==
  ASSUME NEW s, Gate1(s) = {}, HasSubstrateRows(s)
  PROVE  /\ \A i \in DOMAIN s.rows :
              IsSubstrate(s.rows[i]) =>
                SubstrateRowCodes(s, s.rows[i], RunBinding(s)) = {}
         /\ SubstrateCommitmentCodes(s) = {}
<1>1. AllSubstrateRowCodes(s) = {} /\ SubstrateCommitmentCodes(s) = {}
  BY DEF Gate1
<1> QED
  BY <1>1 DEF AllSubstrateRowCodes

\* A statement that carries an interception record is found valid only with
\* result fail: some caught row owns the record (interceptionsOrphaned), and a
\* caught row makes the recompute answer fail.
LEMMA CarriedInterceptionFails ==
  ASSUME NEW s, EvaluateCodes(s) = {},
         NEW i \in DOMAIN s.records, KindOf(s.records[i]) = "interception"
  PROVE  s.result = "fail"
<1>1. AnyBasisCommitmentCodes(s) = {}
  BY EvaluateSilent, Gate1Silent
<1>2. ~InterceptionOrphaned(s)
  BY <1>1 DEF AnyBasisCommitmentCodes, When
<1>3. PICK j \in DOMAIN s.rows : IsCaughtLabel(s, s.rows[j].label)
  BY <1>2 DEF InterceptionOrphaned
<1>4. RowForcesFail(s, s.rows[j])
  BY <1>3 DEF RowForcesFail
<1>5. Recompute(s) = "fail"
  BY <1>4, FailRecomputed
<1> QED
  BY <1>5, EvaluateSilent

----------------------------------------------------------------------------
(* Coverage (statement.go, gate0CoverageIntegrity) *)

\* GATE 0 lets no statement pass without comparing rows, coverage and manifest:
\* the three are there, and the manifest declares an attack.
LEMMA CoverageIsChecked ==
  ASSUME NEW s, Decoded(s), Gate0(s) = {}
  PROVE  /\ CoveragePartitionsManifest(s)
         /\ {s.rows[i].attackId : i \in DOMAIN s.rows} = AssessedAttackIDs(s)
         /\ \A i, j \in DOMAIN s.rows :
              s.rows[i].attackId = s.rows[j].attackId => i = j
<1>1. /\ s.env.form # "absent" /\ ~IsNil(s.env.corpus.digest)
      /\ s.coverage.form = "object" /\ DeclaredAttackIDs(s) # {}
  <2>1. /\ s.env.form \notin {"absent", "mistyped"} /\ DeclaredAttackIDs(s) # {}
        /\ s.coverage.form \notin {"absent", "mistyped"}
    BY Gate0Silent
  <2>2. s.coverage.form = "object"
    BY <2>1 DEF Decoded
  <2>3. ~IsNil(s.env.corpus.digest)
    BY <2>1 DEF DeclaredAttackIDs
  <2> QED
    BY <2>1, <2>2, <2>3
<1>2. s.env.corpus.manifest.classesPresent
  BY <1>1 DEF DeclaredAttackIDs, Decoded
<1>3. CoverageIntegrityCodes(s) = {}
  BY <1>1, <1>2 DEF Gate0
<1> QED
  BY <1>3 DEF CoverageIntegrityCodes, When

\* A class the coverage accounts for once and does not exclude is assessed.
LEMMA NotExcludedIsAssessed ==
  ASSUME NEW s, CoveragePartitionsManifest(s), ~CoverageIncomplete(s),
         NEW c \in DOMAIN s.env.corpus.manifest.classes
  PROVE  c \in Elems(s.coverage.assessed)
<1> DEFINE cov == s.coverage
           at == {i \in DOMAIN cov.assessed : cov.assessed[i] = c}
<1>1. TimesAccounted(cov, c) = 1
  BY DEF CoveragePartitionsManifest
<1>2. c \notin cov.outOfScope /\ c \notin cov.routedElsewhere
  BY DEF CoverageIncomplete
<1>3. Cardinality(at) + 0 + 0 = 1
  BY <1>1, <1>2 DEF TimesAccounted
<1>4. at # {}
  <2>1. SUFFICES ASSUME at = {} PROVE FALSE
    OBVIOUS
  <2>2. Cardinality(at) = 0
    BY <2>1, FS_EmptySet
  <2> QED
    BY <1>3, <2>2
<1> QED
  BY <1>4 DEF Elems

\* Coverage that excludes nothing assesses every attack the manifest declares.
LEMMA CompleteCoverageAssessesAll ==
  ASSUME NEW s, CoveragePartitionsManifest(s), ~CoverageIncomplete(s)
  PROVE  DeclaredAttackIDs(s) \subseteq AssessedAttackIDs(s)
<1> SUFFICES ASSUME NEW id \in DeclaredAttackIDs(s)
             PROVE  id \in AssessedAttackIDs(s)
  OBVIOUS
<1>1. PICK c \in DOMAIN s.env.corpus.manifest.classes :
        id \in ClassAttacks(s.env.corpus.manifest, c)
  BY DEF DeclaredAttackIDs
<1>2. c \in Elems(s.coverage.assessed)
  BY NotExcludedIsAssessed
<1> QED
  BY <1>1, <1>2 DEF AssessedAttackIDs

\* A statement whose coverage excludes nothing has a row for every attack its
\* manifest declares, and the manifest declares one.
LEMMA CompleteCoverageHasRows ==
  ASSUME NEW s, Decoded(s), Gate0(s) = {}, ~CoverageIncomplete(s)
  PROVE  /\ DOMAIN s.rows # {}
         /\ \A id \in DeclaredAttackIDs(s) :
              \E i \in DOMAIN s.rows : s.rows[i].attackId = id
<1>1. /\ CoveragePartitionsManifest(s)
      /\ {s.rows[i].attackId : i \in DOMAIN s.rows} = AssessedAttackIDs(s)
  BY CoverageIsChecked
<1>2. DeclaredAttackIDs(s) \subseteq AssessedAttackIDs(s) /\ DeclaredAttackIDs(s) # {}
  BY <1>1, CompleteCoverageAssessesAll, Gate0Silent
<1> QED
  BY <1>1, <1>2

\* A statement whose coverage excludes something is found degraded or fail.
LEMMA ExcludedIsDegraded ==
  ASSUME NEW s, CoverageIncomplete(s)
  PROVE  Recompute(s) \in {"degraded", "fail"}
<1>1. Allowed(s) \subseteq {"pass", "pass_indirect", "degraded", "fail"}
        /\ "degraded" \in Allowed(s)
  BY DEF Allowed, When
<1> QED
  BY <1>1, RecomputeIsLeast, Ranks DEF Least

\* GATE 0 lets no two classes declare one attack (statement.go, gate0Corpus).
LEMMA AttackHasOneClass ==
  ASSUME NEW s, Decoded(s), Gate0(s) = {}, NEW id,
         NEW c, NEW d,
         id \in ClassAttacks(s.env.corpus.manifest, c),
         id \in ClassAttacks(s.env.corpus.manifest, d)
  PROVE  c = d
<1> DEFINE m == s.env.corpus.manifest
<1>1. /\ s.env.form # "absent" /\ ~IsNil(s.env.corpus.digest)
      /\ m.form # "absent" /\ m.canonicalizable
  <2>1. s.env.form \notin {"absent", "mistyped"} /\ DeclaredAttackIDs(s) # {}
    BY Gate0Silent
  <2>2. ~IsNil(s.env.corpus.digest)
    BY <2>1 DEF DeclaredAttackIDs
  <2>3. CorpusCodes(s) = {}
    BY <2>1, <2>2 DEF Gate0
  <2> QED
    BY <2>1, <2>2, <2>3 DEF CorpusCodes
<1>2. CorpusCodes(s) = {}
  BY <1>1 DEF Gate0
<1>3. ~DuplicateAttack(m)
  BY <1>1, <1>2 DEF CorpusCodes, When
<1>4. PICK i \in DOMAIN m.classes[c] : m.classes[c][i] = id
  BY DEF ClassAttacks, Elems
<1>5. PICK j \in DOMAIN m.classes[d] : m.classes[d][j] = id
  BY DEF ClassAttacks, Elems
<1>6. c \in DOMAIN m.classes /\ d \in DOMAIN m.classes
  BY DEF ClassAttacks
<1>7. <<c, i>> = <<d, j>>
  BY <1>3, <1>4, <1>5, <1>6 DEF DuplicateAttack
<1> QED
  BY <1>7

\* No class is both assessed and excluded, and none is left out (the partition
\* gate0CoverageIntegrity asks for).
LEMMA AssessedOrExcluded ==
  ASSUME NEW s, Decoded(s), CoveragePartitionsManifest(s),
         NEW c \in DOMAIN s.env.corpus.manifest.classes
  PROVE  (c \in Elems(s.coverage.assessed))
           <=> (c \notin s.coverage.outOfScope \cup s.coverage.routedElsewhere)
<1> DEFINE cov == s.coverage
           at == {i \in DOMAIN cov.assessed : cov.assessed[i] = c}
<1>1. Cardinality(at) + (IF c \in cov.outOfScope THEN 1 ELSE 0)
        + (IF c \in cov.routedElsewhere THEN 1 ELSE 0) = 1
  BY DEF CoveragePartitionsManifest, TimesAccounted
<1>2. IsFiniteSet(at)
  <2>1. DOMAIN cov.assessed = 1 .. Len(cov.assessed) /\ Len(cov.assessed) \in Nat
    BY DEF Decoded
  <2>2. IsFiniteSet(DOMAIN cov.assessed)
    BY <2>1, FS_Interval
  <2> QED
    BY <2>2, FS_Subset
<1>3. Cardinality(at) \in Nat /\ (Cardinality(at) = 0 <=> at = {})
  BY <1>2, FS_CardinalityType, FS_EmptySet
<1>4. c \in Elems(cov.assessed) <=> at # {}
  BY DEF Elems
<1> QED
  BY <1>1, <1>3, <1>4

\* The rows for an attack, and the classes excluded by name that declare it.
RowsOf(s, id) == {i \in DOMAIN s.rows : s.rows[i].attackId = id}
ExcludedFor(s, id) ==
  {c \in s.coverage.outOfScope \cup s.coverage.routedElsewhere :
     id \in ClassAttacks(s.env.corpus.manifest, c)}

\* Every attack the manifest of a valid statement declares has one row and no
\* excluded class, or an excluded class, no row and a result that shows it.
LEMMA AttackAccounted ==
  ASSUME NEW s, Decoded(s), EvaluateCodes(s) = {}, NEW id \in DeclaredAttackIDs(s)
  PROVE  \/ Cardinality(RowsOf(s, id)) = 1 /\ ExcludedFor(s, id) = {}
         \/ /\ RowsOf(s, id) = {} /\ ExcludedFor(s, id) # {}
            /\ s.result \in {"degraded", "fail"}
<1> DEFINE m == s.env.corpus.manifest
<1>1. Gate0(s) = {} /\ Recompute(s) = s.result
  BY EvaluateSilent
<1>2. /\ CoveragePartitionsManifest(s)
      /\ {s.rows[i].attackId : i \in DOMAIN s.rows} = AssessedAttackIDs(s)
      /\ \A i, j \in DOMAIN s.rows :
           s.rows[i].attackId = s.rows[j].attackId => i = j
  BY <1>1, CoverageIsChecked
<1>3. PICK c \in DOMAIN m.classes : id \in ClassAttacks(m, c)
  BY DEF DeclaredAttackIDs
<1>4. \A d : id \in ClassAttacks(m, d) => d = c
  BY <1>1, <1>3, AttackHasOneClass
<1>5. c \in Elems(s.coverage.assessed)
        <=> c \notin s.coverage.outOfScope \cup s.coverage.routedElsewhere
  BY <1>2, AssessedOrExcluded
<1>6. CASE c \in Elems(s.coverage.assessed)
  <2>1. PICK i \in DOMAIN s.rows : s.rows[i].attackId = id
    BY <1>2, <1>3, <1>6 DEF AssessedAttackIDs
  <2>2. RowsOf(s, id) = {i}
    BY <1>2, <2>1 DEF RowsOf
  <2>3. ExcludedFor(s, id) = {}
    BY <1>4, <1>5, <1>6 DEF ExcludedFor
  <2> QED
    BY <2>2, <2>3, FS_Singleton
<1>7. CASE c \notin Elems(s.coverage.assessed)
  <2>1. c \in ExcludedFor(s, id)
    BY <1>3, <1>5, <1>7 DEF ExcludedFor
  <2>2. id \notin AssessedAttackIDs(s)
    BY <1>4, <1>7 DEF AssessedAttackIDs
  <2>3. RowsOf(s, id) = {}
    BY <1>2, <2>2 DEF RowsOf
  <2>4. CoverageIncomplete(s)
    BY <2>1 DEF ExcludedFor, CoverageIncomplete
  <2> QED
    BY <1>1, <2>1, <2>3, <2>4, ExcludedIsDegraded
<1> QED
  BY <1>6, <1>7

----------------------------------------------------------------------------
(* Substrate rows (validity.go, tier.go) *)

\* A clean row taken from the vantage (as CleanRowCarriesTheRun has it).
CleanVantageRow(s, row) ==
  /\ IsSubstrate(row) /\ row.method = "intercepted"
  /\ ~IsCaughtLabel(s, row.label)

\* An admitted report is a valid one (verify.go).
LEMMA AdmittedIsValid ==
  ASSUME NEW s, NEW policy, Verify(s, policy).admitted
  PROVE  /\ EvaluateCodes(s) = {}
         /\ TierPolicySatisfied(s, DeriveTiers(s, policy))
<1>1. EvaluateCodes(s) = {}
  BY DEF Verify, InvalidReport
<1>2. ConsumerReport(s, policy).admitted
  BY <1>1 DEF Verify
<1> QED
  BY <1>1, <1>2 DEF ConsumerReport

\* A record of each kind that a clean vantage row needs covers it, and every
\* record it resolves reads and names this run (validity.go, checkSubstrateRow).
LEMMA CleanRowIsCovered ==
  ASSUME NEW s, NEW row, CleanVantageRow(s, row),
         SubstrateRowCodes(s, row, RunBinding(s)) = {},
         NEW kind \in {"arming", "sealed"}
  PROVE  \E i \in ValidOfKind(s, row, kind) :
           /\ i \in Covering(s, row) /\ i \in DOMAIN s.records
           /\ s.records[i].payload.kind = kind
           /\ s.records[i].decodes /\ BindsTo(s.records[i], RunBinding(s))
<1>1. RequiredKinds(s, row) = {"arming", "sealed"}
  BY DEF CleanVantageRow, RequiredKinds
<1>2. /\ ClassMatchCodes(s, row) = {}
      /\ \A i \in Resolved(s, row) : PayloadCodes(s.records[i], RunBinding(s)) = {}
  BY DEF SubstrateRowCodes
<1>3. ValidOfKind(s, row, kind) # {}
  BY <1>1, <1>2 DEF ClassMatchCodes
<1>4. PICK i \in ValidOfKind(s, row, kind) : TRUE
  BY <1>3
<1>5. i \in Resolved(s, row) /\ s.records[i].payload.kind = kind
  BY <1>4 DEF ValidOfKind
<1>6. s.records[i].decodes /\ BindsTo(s.records[i], RunBinding(s))
  BY <1>2, <1>5 DEF PayloadCodes, When
<1>7. i \in Covering(s, row)
  BY <1>1, <1>4 DEF Covering
<1> QED
  BY <1>4, <1>5, <1>6, <1>7 DEF Resolved

\* Some record covers a substrate row on which GATE 1 reports nothing: a row
\* needs a record of at least one kind.
LEMMA SilentRowIsCovered ==
  ASSUME NEW s, NEW row, SubstrateRowCodes(s, row, RunBinding(s)) = {}
  PROVE  Covering(s, row) # {}
<1>1. ClassMatchCodes(s, row) = {}
  BY DEF SubstrateRowCodes
<1>2. \A k \in RequiredKinds(s, row) : ValidOfKind(s, row, k) # {}
  BY <1>1 DEF ClassMatchCodes
<1>3. PICK k \in RequiredKinds(s, row) : TRUE
  BY DEF RequiredKinds
<1> QED
  BY <1>2, <1>3 DEF Covering

\* On a valid statement the producer's signature check and the consumer's tier
\* policy come to the same, under any keys, none included (tier.go).
LEMMA TiersAreSignatures ==
  ASSUME NEW s, NEW policy, EvaluateCodes(s) = {}
  PROVE  TierPolicySatisfied(s, DeriveTiers(s, policy))
           <=> RecordSignaturesOK(s, policy.keys)
<1> DEFINE Verified(row) ==
             \A j \in Covering(s, row) : RecordVerifies(s.records[j], policy.keys)
<1>1. ASSUME NEW i \in DOMAIN s.rows, IsSubstrate(s.rows[i])
      PROVE  /\ SubstrateRowCodes(s, s.rows[i], RunBinding(s)) = {}
             /\ RowTier(s, s.rows[i], policy) = "attested" <=> Verified(s.rows[i])
  <2>1. SubstrateRowCodes(s, s.rows[i], RunBinding(s)) = {}
    BY <1>1, EvaluateSilent, Gate1SilentSubstrate DEF HasSubstrateRows
  <2>2. PICK j \in Covering(s, s.rows[i]) : TRUE
    BY <2>1, SilentRowIsCovered
  <2>3. CASE policy.keys = {}
    <3>1. ~RecordVerifies(s.records[j], policy.keys)
      BY <2>3 DEF RecordVerifies
    <3> QED
      BY <1>1, <2>1, <2>2, <2>3, <3>1 DEF RowTier
  <2>4. CASE policy.keys # {}
    BY <1>1, <2>1, <2>4 DEF RowTier
  <2> QED
    BY <2>1, <2>3, <2>4
<1>2. TierPolicySatisfied(s, DeriveTiers(s, policy)) <=>
        \A i \in DOMAIN s.rows :
          IsSubstrate(s.rows[i]) => RowTier(s, s.rows[i], policy) = "attested"
  BY DEF TierPolicySatisfied, DeriveTiers
<1> QED
  BY <1>1, <1>2 DEF RecordSignaturesOK

\* A record that covers a clean vantage row is one of this run's of its kind,
\* as the requirements on the whole statement read it (commitments.go).
LEMMA CoveringIsBound ==
  ASSUME NEW s, Decoded(s), NEW row, CleanVantageRow(s, row),
         SubstrateRowCodes(s, row, RunBinding(s)) = {},
         NEW kind \in {"arming", "sealed"}
  PROVE  \E i \in ValidOfKind(s, row, kind) :
           i \in Resolved(s, row) \cap BoundOfKind(s, kind)
<1>1. PICK i \in ValidOfKind(s, row, kind) :
        /\ i \in DOMAIN s.records /\ s.records[i].payload.kind = kind
        /\ s.records[i].decodes /\ BindsTo(s.records[i], RunBinding(s))
  BY CleanRowIsCovered
<1>2. i \in Resolved(s, row)
  BY <1>1 DEF ValidOfKind
<1>3. PayloadCodes(s.records[i], RunBinding(s)) = {}
  BY <1>2 DEF SubstrateRowCodes
<1>4. s.records[i].payload.form = "object"
  BY <1>1, <1>3 DEF PayloadCodes, Decoded, DecodedPayload
<1> QED
  BY <1>1, <1>2, <1>4 DEF BoundOfKind, KindOf

\* An attack with a clean substrate row, an arming record of this run that
\* declared every attack, and a seal of it that names none (PassIsWitnessed).
Witnessed(s, id) ==
  \E i \in DOMAIN s.rows :
    /\ s.rows[i].attackId = id
    /\ s.rows[i].basis = "substrate"
    /\ IsCleanLabel(s, s.rows[i].label)
    /\ \E j \in Resolved(s, s.rows[i]) \cap BoundOfKind(s, "arming") :
         s.records[j].payload.assessed.ids = DeclaredAttackIDs(s)
    /\ \E j \in Resolved(s, s.rows[i]) \cap BoundOfKind(s, "sealed") :
         /\ s.records[j].payload.stillArmed = "true"
         /\ s.records[j].payload.observedAttacks.ids = {}
         /\ s.records[j].payload.observedSet = {ObservedLeaves(s)}

\* A valid pass rests on the substrate, attack by attack (recompute.go,
\* validity.go and commitments.go together).
LEMMA PassRestsOnSubstrate ==
  ASSUME NEW s, Decoded(s), EvaluateCodes(s) = {}, s.result = "pass",
         NEW id \in DeclaredAttackIDs(s)
  PROVE  Witnessed(s, id)
<1>1. Gate0(s) = {} /\ Gate1(s) = {} /\ Recompute(s) = "pass"
  BY EvaluateSilent
<1>2. /\ ~CoverageIncomplete(s)
      /\ \A i \in DOMAIN s.rows :
           /\ ~RowForcesFail(s, s.rows[i])
           /\ s.rows[i].basis = "substrate" /\ s.rows[i].method = "intercepted"
  BY <1>1, PassRecomputed
<1>3. PICK i \in DOMAIN s.rows : s.rows[i].attackId = id
  BY <1>1, <1>2, CompleteCoverageHasRows
<1> DEFINE row == s.rows[i]
<1>4. IsCleanLabel(s, row.label) /\ CleanVantageRow(s, row) /\ HasSubstrateRows(s)
  BY <1>2 DEF RowForcesFail, IsCleanLabel, IsCaughtLabel, CleanVantageRow,
              IsSubstrate, HasSubstrateRows
<1>5. /\ SubstrateRowCodes(s, row, RunBinding(s)) = {}
      /\ SubstrateCommitmentCodes(s) = {}
  BY <1>1, <1>4, Gate1SilentSubstrate DEF CleanVantageRow
<1>6. PICK a \in ValidOfKind(s, row, "arming") :
        a \in Resolved(s, row) \cap BoundOfKind(s, "arming")
  BY <1>4, <1>5, CoveringIsBound
<1>7. PICK z \in ValidOfKind(s, row, "sealed") :
        z \in Resolved(s, row) \cap BoundOfKind(s, "sealed")
  BY <1>4, <1>5, CoveringIsBound
<1>8. /\ ~ObservedSetMismatch(s) /\ ~SealNamedAttackUncaught(s)
      /\ ~AssessedSetUndeclared(s)
  <2>1. ~NoRecords(s)
    BY <1>6 DEF BoundOfKind, NoRecords
  <2> QED
    BY <1>5, <2>1 DEF SubstrateCommitmentCodes, When
<1>9. s.records[a].payload.assessed.ids = DeclaredAttackIDs(s)
  <2>1. AttackIDArrayOK(s.records[a].payload.assessed, DeclaredAttackIDs(s))
    BY <1>6 DEF ValidOfKind, KindConstraintsMet, ArmingConstraintsMet
  <2>2. AssessedAttackIDs(s) \subseteq s.records[a].payload.assessed.ids
    BY <1>6, <1>8, <2>1 DEF AssessedSetUndeclared
  <2>3. DeclaredAttackIDs(s) \subseteq AssessedAttackIDs(s)
    BY <1>1, <1>2, CoverageIsChecked, CompleteCoverageAssessesAll
  <2> QED
    BY <2>1, <2>2, <2>3 DEF AttackIDArrayOK
<1> DEFINE seal == s.records[z].payload
<1>10. SealedConstraintsMet(seal, s.env.posture.digest, ArmingPostures(s, row),
                            DeclaredAttackIDs(s))
  BY <1>7 DEF ValidOfKind, KindConstraintsMet
<1>11. seal.observedAttacks.ids = {}
  <2>1. AttackIDArrayOK(seal.observedAttacks, DeclaredAttackIDs(s))
    BY <1>10 DEF SealedConstraintsMet
  <2>2. \A j \in DOMAIN s.rows : ~IsCaughtLabel(s, s.rows[j].label)
    BY <1>2 DEF RowForcesFail
  <2> QED
    BY <1>7, <1>8, <2>1, <2>2 DEF SealNamedAttackUncaught
<1>12. seal.stillArmed = "true" /\ seal.observedSet = {ObservedLeaves(s)}
  BY <1>7, <1>8, <1>10 DEF SealedConstraintsMet, ObservedSetMismatch
<1> QED
  BY <1>2, <1>3, <1>4, <1>6, <1>7, <1>9, <1>11, <1>12 DEF Witnessed

=============================================================================
