------------------------------ MODULE AeeGate0 ------------------------------
(***************************************************************************)
(* GATE 0, statement well-formedness: Gate0 of aee/statement.go and the    *)
(* decoding faults aee/types.go records for it, as operators on a decoded  *)
(* statement.                                                              *)
(*                                                                         *)
(* A gate returns the set of codes it reports. The code appends to a slice *)
(* and calls its first element primary; here the slice is the set of its   *)
(* elements, because a verdict depends on whether it is empty and a code   *)
(* property on what it holds.                                              *)
(***************************************************************************)
EXTENDS AeeStatement

ResultTokens == {"fail", "degraded", "pass_indirect", "pass"}
KnownMethods == {"intercepted", "reconstructed"}
KnownBases   == {"substrate", "artifact"}
KnownAttributions == {"pinned", "paired"}

----------------------------------------------------------------------------
(* Decoding faults (types.go): codes recorded while members are read *)

RowMembers(row) == {row.attackId, row.label, row.basis, row.method,
                    row.attribution, row.actualLayer}

EnvironmentDecodeCodes(env) ==
  IF env.form = "absent" THEN {}
  ELSE When(\/ env.form = "mistyped"
            \/ "mistyped" \in {env.substrate, env.catchPolicy, env.runEntropy,
                               env.posture.digest, env.corpus.digest,
                               env.vocabulary.form}
            \/ /\ ~IsNil(env.corpus.digest)
               /\ env.corpus.manifest.form = "undecodable",
            "statement-malformed")

ParseCodes(s) ==
  When(s.result = "mistyped", "result-vocabulary")
    \cup EnvironmentDecodeCodes(s.env)
    \cup When(\/ "mistyped" \in {s.coverage.form, s.rowsForm, s.recordsForm,
                                 s.batchRoot.form}
              \/ \E i \in DOMAIN s.rows : "mistyped" \in RowMembers(s.rows[i]),
              "statement-malformed")
    \cup When(s.issuedAt = "mistyped", "issued-at-malformed")

----------------------------------------------------------------------------
(* GATE 0: statement well-formedness (statement.go) *)

\* MUTANT of EnvironmentCodes: a missing networkPosture is not required.
EnvironmentCodesNoPosture(env) ==
  IF env.form = "absent"
  THEN {"environment-incomplete", "vocabulary-missing"}
  ELSE When(\/ IsNil(env.substrate) \/ IsNil(env.catchPolicy)
            \/ IsNil(env.corpus.digest), "environment-incomplete")
         \cup When(env.vocabulary.form # "object", "vocabulary-missing")

EnvironmentCodes(env) ==
  IF env.form = "absent"
  THEN {"environment-incomplete", "vocabulary-missing"}
  ELSE When(\/ IsNil(env.substrate) \/ IsNil(env.catchPolicy)
            \/ IsNil(env.corpus.digest) \/ IsNil(env.posture.digest),
            "environment-incomplete")
         \cup When(env.vocabulary.form # "object", "vocabulary-missing")
         \cup When(~IsNil(env.posture.digest) /\ ~env.posture.registered,
                   "posture-vocabulary")

VocabularyCodes(voc) ==
  IF ~voc.labelsPresent \/ ~voc.caughtPresent
  THEN {"vocabulary-not-canonical"}
  ELSE When(~voc.canonical, "vocabulary-not-canonical")
         \cup When(~(voc.caught \subseteq voc.labels),
                   "vocabulary-caught-not-subset")
         \cup When(voc.digest # voc.hash, "vocabulary-digest-mismatch")

\* An attack identifier that two classes, or one class twice, declare.
DuplicateAttack(m) ==
  \E c, d \in DOMAIN m.classes :
    \E i \in DOMAIN m.classes[c], j \in DOMAIN m.classes[d] :
      <<c, i>> # <<d, j>> /\ m.classes[c][i] = m.classes[d][j]

ExpectedPayloadsCodes(s) ==
  LET expected == s.env.corpus.manifest.expected IN
  When(\/ expected.form = "mistyped"
       \/ /\ expected.form = "map"
          /\ \E id \in DOMAIN expected.values :
               \/ id \notin DeclaredAttackIDs(s)
               \/ expected.values[id] = {}
               \/ ~expected.wellFormed,
       "manifest-expected-payloads-malformed")

CorpusCodes(s) ==
  LET corpus == s.env.corpus
      m      == corpus.manifest
  IN  IF m.form = "absent" THEN {"environment-incomplete"}
      ELSE IF ~m.canonicalizable THEN {"statement-malformed"}
      ELSE When(corpus.digest # m.hash, "corpus-digest-mismatch")
             \cup When(DuplicateAttack(m), "manifest-duplicate-attack")
             \cup When(DeclaredAttackIDs(s) = {}, "corpus-manifest-no-attacks")
             \cup ExpectedPayloadsCodes(s)

RowLayerCodes(s, vocabOK) ==
  UNION { LET row == s.rows[i] IN
          IF row.actualLayer \in {"absent", "mistyped"}
          THEN {"malformed-missing-actual-layer"}
          ELSE When(/\ vocabOK
                    /\ IsCleanLabel(s, row.label)
                    /\ row.actualLayer # "none",
                    "clean-row-layer-not-none")
          : i \in DOMAIN s.rows }

\* How often the three coverage members together account for a class.
TimesAccounted(cov, c) ==
  Cardinality({i \in DOMAIN cov.assessed : cov.assessed[i] = c})
    + (IF c \in cov.outOfScope THEN 1 ELSE 0)
    + (IF c \in cov.routedElsewhere THEN 1 ELSE 0)

AccountedClasses(cov) == Elems(cov.assessed) \cup cov.outOfScope \cup cov.routedElsewhere

CoveragePartitionsManifest(s) ==
  LET classes == DOMAIN s.env.corpus.manifest.classes IN
  /\ AccountedClasses(s.coverage) \subseteq classes
  /\ \A c \in classes : TimesAccounted(s.coverage, c) = 1

\* MUTANT of CoverageIntegrityCodes: coverage is held to the manifest class by
\* class, and the rows only to the manifest.
CoverageIntegrityCodesByClass(s) ==
  LET ids == {s.rows[i].attackId : i \in DOMAIN s.rows} IN
  When(~CoveragePartitionsManifest(s), "coverage-incomplete")
    \cup When(~(ids \subseteq DeclaredAttackIDs(s)), "row-attack-unknown")

CoverageIntegrityCodes(s) ==
  LET ids == {s.rows[i].attackId : i \in DOMAIN s.rows} IN
  When(~CoveragePartitionsManifest(s) \/ ids # AssessedAttackIDs(s),
       "coverage-incomplete")
    \cup When(\E i, j \in DOMAIN s.rows :
                i # j /\ s.rows[i].attackId = s.rows[j].attackId,
              "statement-malformed")
    \cup When(~(ids \subseteq DeclaredAttackIDs(s)), "row-attack-unknown")

\* The digests that enter the binding verbatim. An empty one passes here.
SubstrateBindingInputCodes(s) ==
  When(s.env.form = "absent" \/ IsNil(s.env.runEntropy), "run-entropy-missing")
    \cup When(s.subject.count >= 1 /\ EmptyDigest(s.subject.sha256),
              "subject-sha256-missing")
    \cup When(\/ /\ s.env.form # "absent"
                 /\ \/ ~IsNil(s.env.runEntropy) /\ ~IsLowerHex64(s.env.runEntropy)
                    \/ "noncanonical" \in {s.env.catchPolicy, s.env.corpus.digest,
                                           s.env.posture.digest, s.env.substrate}
              \/ s.subject.count >= 1 /\ s.subject.sha256 = "noncanonical",
              "digest-not-canonical")

Gate0(s) ==
  LET env      == s.env
      hasVoc   == env.form # "absent" /\ env.vocabulary.form = "object"
      vocCodes == IF hasVoc THEN VocabularyCodes(env.vocabulary) ELSE {}
      hasCorpus == env.form # "absent" /\ ~IsNil(env.corpus.digest)
  IN  When(~s.typeOK, "statement-type-unsupported")
        \cup When(~s.predicateTypeOK, "predicate-type-unsupported")
        \cup ParseCodes(s)
        \cup When(s.snakeCase, "member-spelling")
        \cup When(s.result \notin ResultTokens, "result-vocabulary")
        \cup EnvironmentCodes(env)
        \cup vocCodes
        \cup (IF hasCorpus THEN CorpusCodes(s) ELSE {})
        \cup When(s.coverage.form = "absent", "coverage-missing")
        \cup When(s.rowsForm = "absent", "statement-malformed")
        \cup When(s.subject.count # 1, "subject-cardinality")
        \cup RowLayerCodes(s, hasVoc /\ vocCodes = {})
        \cup (IF /\ hasCorpus /\ s.coverage.form = "object"
                 /\ env.corpus.manifest.classesPresent
              THEN CoverageIntegrityCodes(s) ELSE {})
        \cup (IF HasSubstrateRows(s) THEN SubstrateBindingInputCodes(s) ELSE {})
        \cup (IF s.issuedAt = "absent" THEN {"issued-at-missing"}
              ELSE When(s.issuedAt # "wellFormed", "issued-at-malformed"))

=============================================================================
