--------------------------- MODULE ReferenceRail ---------------------------
(***************************************************************************)
(* The reference rail: ReferenceVerifier of packaging/run_vectors.py, the  *)
(* second implementation of the rules the verification core implements.    *)
(*                                                                         *)
(* It reads the same statements, and reads them differently: an            *)
(* environment member counts as carried when its key is there whatever its *)
(* type, a digest that is not there is None and compares as None, a        *)
(* payload whose bytes are not canonical has no content, and every check   *)
(* runs whatever the ones before it reported, so that a refusal carries    *)
(* the union of their codes.                                               *)
(*                                                                         *)
(* An optional value is a set of at most one element, {} for None. A refs  *)
(* member that is "malformed" is a list with an entry that is no index,    *)
(* beside those that are.                                                  *)
(***************************************************************************)
EXTENDS AeeStatement

RESULT_ORDER    == [fail |-> 0, degraded |-> 1, pass_indirect |-> 2, pass |-> 3]
METHOD_ORDER    == [reconstructed |-> 0, intercepted |-> 1]
COVERING_KINDS  == {"interception", "arming", "sealed", "examination"}
COVERS_NOTHING  == [ arming      |-> "arming-covers-nothing",
                     sealed      |-> "sealed-covers-nothing",
                     examination |-> "examination-covers-nothing" ]

----------------------------------------------------------------------------
(* Reading a member *)

\* env.get(member) is a dict; the member's digest, None when it has none.
IsDict(d)    == ~IsNil(d)
DigestOf(d)  == IF EmptyDigest(d) THEN {} ELSE {d}
HasMember(d) == d # "missing"

HasEnv(s)    == s.env.form = "object"
Vocab(s)     == s.env.vocabulary
HasVocab(s)  == HasEnv(s) /\ Vocab(s).form = "object"
HasLabels(s) == HasVocab(s) /\ Vocab(s).labelsPresent /\ Vocab(s).caughtPresent
Manifest(s)  == s.env.corpus.manifest
HasManifest(s) == HasEnv(s) /\ IsDict(s.env.corpus.digest) /\ Manifest(s).form = "object"
HasClasses(s)  == HasManifest(s) /\ Manifest(s).classesPresent

Classes(s) == IF HasClasses(s) THEN DOMAIN Manifest(s).classes ELSE {}

\* declared_attacks
DeclaredAttacks(s) == UNION {ClassAttacks(Manifest(s), c) : c \in Classes(s)}

\* RecordView: a record's payload is read only when its bytes are the
\* canonical form of an object.
Readable(rec) == rec.decodes /\ rec.payload.form = "object" /\ rec.payload.canonical
Kind(rec)     == IF Readable(rec) THEN rec.payload.kind ELSE "absent"
Method(rec)   == IF Readable(rec) THEN rec.payload.method ELSE "absent"

\* RecordView: the code of a payload that decodes and is not read.
PayloadError(rec) ==
  IF ~rec.decodes \/ Readable(rec) THEN {}
  ELSE IF rec.payload.form = "notIJson" THEN {"payload-not-ijson"}
  ELSE {"payload-not-canonical"}

HasRecords(s) == s.records # << >>

HasSubstrate(s) == \E i \in DOMAIN s.rows : s.rows[i].basis = "substrate"

Refs(row) == IF row.refs.form = "absent" THEN {} ELSE Elems(row.refs.idx)

\* _resolved_views
ResolvedViews(s, row) == Refs(row) \cap DOMAIN s.records

\* A payload's posture claim; an absent one is None.
PostureOf(p) == IF p.posture = "absent" THEN {} ELSE {p.posture}

IsCaught(s, row) == HasLabels(s) /\ row.label \in Vocab(s).caught
IsClean(s, row)  == /\ HasLabels(s) /\ row.label \in Vocab(s).labels
                    /\ row.label \notin Vocab(s).caught

\* binding_preimage and _check_run_binding: None when a digest is not there.
DerivedBinding(s) ==
  IF /\ HasSubstrate(s) /\ s.subject.count >= 1
     /\ \A d \in {s.env.catchPolicy, s.env.corpus.digest, Vocab(s).digest,
                  s.env.runEntropy, s.subject.sha256, s.env.substrate} : ~EmptyDigest(d)
     /\ HasVocab(s)
  THEN {RunBinding(s)} ELSE {}

\* A record's run binding equals the derived one, None to None included.
NamesRun(s, rec) == Readable(rec) /\ rec.payload.runBinding = DerivedBinding(s)

----------------------------------------------------------------------------
(* What a record of each kind has to carry *)

\* _attack_id_array_ok
AttackIdArrayOk(arr, declared) == arr.form = "sortedArray" /\ arr.ids \subseteq declared

ArmingChainOk(p) ==
  \/ "absent" = p.runSeq /\ {p.prevRunBinding, p.chainScope} = {"absent"}
  \/ p.runSeq = "first" /\ p.chainScope = "wellFormed" /\ p.prevRunBinding = "absent"
  \/ p.runSeq = "later" /\ p.chainScope = "wellFormed" /\ p.prevRunBinding = "hex"

\* MUTANT of ArmingOk: the literal version 1 that the rail compared with before.
ArmingOkVersion1(s, p) ==
  /\ p.armedAt \in {"inTime"} \cup When(s.issuedAt # "wellFormed", "late")
  /\ PostureOf(p) = DigestOf(s.env.posture.digest)
  /\ p.method = "intercepted"
  /\ p.bindingVersion # "implemented" /\ ArmingChainOk(p)
  /\ AttackIdArrayOk(p.assessed, DeclaredAttacks(s))

ArmingOk(s, p) ==
  /\ p.armedAt \in {"inTime"} \cup When(s.issuedAt # "wellFormed", "late")
  /\ PostureOf(p) = DigestOf(s.env.posture.digest)
  /\ p.method = "intercepted"
  /\ p.bindingVersion # "other" /\ ArmingChainOk(p)
  /\ AttackIdArrayOk(p.assessed, DeclaredAttacks(s))

SealedOk(s, p, armingPostures) ==
  /\ p.stillArmed = "true"
  /\ \E drops \in p.dropCount :
       drops = 0 \/ (drops > 0 /\ \E bound \in p.dropBound : drops <= bound)
  /\ PostureOf(p) = DigestOf(s.env.posture.digest)
  /\ \A posture \in armingPostures : PostureOf(p) = {posture}
  /\ p.method = "intercepted" /\ p.observedSet # {}
  /\ AttackIdArrayOk(p.observedAttacks, DeclaredAttacks(s))

ExaminationOk(p) == p.method = "reconstructed"

\* The posture claims of the arming records among the given ones.
ArmingPosturesOf(recs) ==
  UNION {PostureOf(rec.payload) : rec \in {r \in recs : Kind(r) = "arming"}}

----------------------------------------------------------------------------
(* GATE 0 *)

CheckGate0Wellformed(s) ==
  When(s.snakeCase, "member-spelling")
    \cup When(s.result \notin DOMAIN RESULT_ORDER, "result-vocabulary")
    \cup (IF s.issuedAt = "absent" THEN {"issued-at-missing"}
          ELSE When(s.issuedAt # "wellFormed", "issued-at-malformed"))
    \cup When(\E d \in {s.env.substrate, s.env.corpus.digest, s.env.catchPolicy,
                        s.env.posture.digest} : ~HasEnv(s) \/ ~HasMember(d),
              "environment-incomplete")
    \cup When(~HasVocab(s), "vocabulary-missing")
    \cup When(/\ HasEnv(s) /\ IsDict(s.env.posture.digest)
              /\ ~s.env.posture.registered, "posture-vocabulary")

CheckVocabulary(s) ==
  IF ~HasVocab(s) THEN {}
  ELSE When(~HasLabels(s) \/ ~Vocab(s).canonical, "vocabulary-not-canonical")
         \cup (IF ~HasLabels(s) THEN {}
               ELSE When(~(Vocab(s).caught \subseteq Vocab(s).labels),
                         "vocabulary-caught-not-subset")
                      \cup When(Vocab(s).digest # Vocab(s).hash,
                                "vocabulary-digest-mismatch"))

\* _corpus_dupes
CorpusDupes(m) ==
  \E c, d \in DOMAIN m.classes : \E i \in DOMAIN m.classes[c], j \in DOMAIN m.classes[d] :
    <<c, i>> # <<d, j>> /\ m.classes[c][i] = m.classes[d][j]

\* _expected_payloads_ok
ExpectedPayloadsOk(s) ==
  LET expected == Manifest(s).expected IN
  /\ expected.form = "map" /\ expected.wellFormed
  /\ \A id \in DOMAIN expected.values : id \in DeclaredAttacks(s) /\ expected.values[id] # {}

CheckCorpus(s) ==
  IF ~HasEnv(s) \/ ~IsDict(s.env.corpus.digest) THEN {}
  ELSE When(Manifest(s).form = "absent", "environment-incomplete")
         \cup (IF ~HasManifest(s) THEN {}
               ELSE When(~Manifest(s).canonicalizable
                           \/ s.env.corpus.digest # Manifest(s).hash,
                         "corpus-digest-mismatch")
                      \cup When(DeclaredAttacks(s) = {}, "corpus-manifest-no-attacks")
                      \cup When(HasClasses(s) /\ CorpusDupes(Manifest(s)),
                                "manifest-duplicate-attack")
                      \cup When(Manifest(s).expected.form # "absent" /\ ~ExpectedPayloadsOk(s),
                                "manifest-expected-payloads-malformed"))

\* _coverage_partition_ok
CoveragePartitionOk(s) ==
  LET cov      == s.coverage
      times(c) == Cardinality({i \in DOMAIN cov.assessed : cov.assessed[i] = c})
                    + Cardinality({m \in {"outOfScope", "routedElsewhere"} : c \in cov[m]})
  IN  /\ Elems(cov.assessed) \cup cov.outOfScope \cup cov.routedElsewhere \subseteq Classes(s)
      /\ \A c \in Classes(s) : times(c) = 1

\* _coverage_check_rows. Which class a duplicated identifier counts for depends
\* on the order of the manifest's members, left out: any assessed one will do.
CoverageCheckRows(s) ==
  LET ids      == {s.rows[i].attackId : i \in DOMAIN s.rows}
      known    == ids \cap DeclaredAttacks(s)
      assessed == UNION {ClassAttacks(Manifest(s), c) : c \in Elems(s.coverage.assessed)}
  IN  When(Cardinality(ids) < Len(s.rows), "statement-malformed")
        \cup When(ids # known, "row-attack-unknown")
        \cup When(known # assessed, "coverage-incomplete")

CheckCoverage(s) ==
  IF s.coverage.form # "object" THEN {"coverage-missing"}
  ELSE IF ~HasClasses(s) THEN {}
  ELSE When(~CoveragePartitionOk(s), "coverage-incomplete") \cup CoverageCheckRows(s)

\* The attribution of a row is not among the members whose type is checked.
CheckPerRowStatements(s) ==
  UNION {LET row == s.rows[i] IN
         When("mistyped" \in {row.attackId, row.label, row.basis, row.method,
                              row.actualLayer}, "statement-malformed")
           \cup When(row.actualLayer = "absent", "malformed-missing-actual-layer")
           \cup When(IsClean(s, row) /\ row.actualLayer \notin {"absent", "none"},
                     "clean-row-layer-not-none")
         : i \in DOMAIN s.rows}

CheckSubstrateBindingInputs(s) ==
  IF ~HasSubstrate(s) THEN {}
  ELSE When(s.subject.count >= 1 /\ EmptyDigest(s.subject.sha256), "subject-sha256-missing")
         \cup When(~HasEnv(s) \/ ~HasMember(s.env.runEntropy), "run-entropy-missing")
         \cup When("noncanonical" \in {s.env.substrate, s.env.corpus.digest, s.env.catchPolicy,
                                       s.env.posture.digest, s.env.runEntropy}
                      \cup {d \in {s.subject.sha256} : s.subject.count >= 1},
                   "digest-not-canonical")

FailClosed(s, row) ==
  \/ HasLabels(s) /\ row.label \notin Vocab(s).labels
  \/ row.basis \notin {"substrate", "artifact"}
  \/ row.method \notin DOMAIN METHOD_ORDER
  \/ row.attribution \notin {"pinned", "paired"}

CheckFailClosedRows(s) ==
  When(\E i \in DOMAIN s.rows : FailClosed(s, s.rows[i]) /\ s.rows[i].basis = "substrate",
       "fail-closed-substrate-row")

----------------------------------------------------------------------------
(* The records as a set *)

CheckRecords(s) ==
  LET recs    == s.records
      decoded == {i \in DOMAIN recs : recs[i].decodes}
  IN  IF ~HasRecords(s) THEN When(s.batchRoot.form # "absent", "batch-root-orphaned")
      ELSE When(\E i \in DOMAIN recs : recs[i].signedBy = {}, "record-signatures-empty")
             \cup (IF decoded # DOMAIN recs THEN {"record-undecodable"}
                   ELSE IF s.batchRoot.form = "absent" THEN {"batch-root-missing"}
                   ELSE When(s.batchRoot.leaves # [i \in DOMAIN recs |-> Leaf(recs[i])],
                             "batch-root-mismatch"))
             \cup When(\E i, j \in decoded : i # j /\ Leaf(recs[i]) = Leaf(recs[j]),
                       "duplicate-record")

----------------------------------------------------------------------------
(* GATE 1: one substrate row *)

\* _gate1_check_payload
Gate1CheckPayload(s, rec) ==
  When(~rec.jsonType, "payload-media-type")
    \cup (IF PayloadError(rec) # {} THEN PayloadError(rec)
          ELSE IF ~Readable(rec) THEN {"payload-not-canonical"}
          ELSE When("absent" \in {rec.payload.kind, rec.payload.method}
                      \/ rec.payload.runBinding = {}, "payload-missing-reserved")
                 \cup When(/\ DerivedBinding(s) # {} /\ rec.payload.runBinding # {}
                           /\ ~NamesRun(s, rec), "run-binding-mismatch"))

\* The records a row's cover is sought among.
Usable(s, row) ==
  {i \in ResolvedViews(s, row) : Readable(s.records[i]) /\ s.records[i].jsonType}

UsableOfKind(s, row, kind) == {i \in Usable(s, row) : Kind(s.records[i]) = kind}

\* _covers_nothing, and the code it stands in for when it finds nothing.
UncoveredCode(s, row, specific) ==
  LET useless == {k \in DOMAIN row.refs.idx :
                    /\ row.refs.idx[k] \in Usable(s, row)
                    /\ Kind(s.records[row.refs.idx[k]]) \notin COVERING_KINDS}
      first   == CHOOSE k \in useless : \A l \in useless : k <= l
      kind    == Kind(s.records[row.refs.idx[first]])
  IN  IF useless = {} THEN specific
      ELSE IF kind = "moat-drop" THEN "moat-drop-covers-nothing"
      ELSE IF kind = "uncommitted-observation"
           THEN "uncommitted-observation-covers-nothing"
      ELSE "record-kind-unknown-covers-nothing"

\* A kind a row needs: which of the usable records of it are good, the code when
\* there is none of it, and the code when none of them is good.
Need(s, row, kind, good, uncovered) ==
  [ covering |-> good,
    codes |-> IF UsableOfKind(s, row, kind) = {} THEN {UncoveredCode(s, row, uncovered)}
              ELSE When(good = {}, COVERS_NOTHING[kind]) ]

CoverReconstructed(s, row) ==
  LET examined == {i \in UsableOfKind(s, row, "examination") : ExaminationOk(s.records[i].payload)}
  IN  Need(s, row, "examination", examined, "reconstructed-row-uncovered")

\* _gate1_cover_caught: every bad record is reported, covered row or not.
CommitmentCodes(p) ==
  CASE p.commitment.form = "absent"     -> {"payload-missing-reserved"}
    [] p.commitment.form = "wellFormed" -> {}
    [] OTHER                            -> {"payload-commitment-malformed"}

CoverCaught(s, row) ==
  LET found == UsableOfKind(s, row, "interception") IN
  [ covering |-> {i \in found : CommitmentCodes(s.records[i].payload) = {}},
    codes |-> IF found = {} THEN {UncoveredCode(s, row, "caught-row-uncovered")}
              ELSE UNION {CommitmentCodes(s.records[i].payload) : i \in found} ]

CoverClean(s, row) ==
  LET postures == ArmingPosturesOf({s.records[i] : i \in Usable(s, row)})
      armed    == {i \in UsableOfKind(s, row, "arming") : ArmingOk(s, s.records[i].payload)}
      sealed   == {i \in UsableOfKind(s, row, "sealed") :
                     SealedOk(s, s.records[i].payload, postures)}
      arm  == Need(s, row, "arming", armed, "clean-row-uncovered")
      seal == Need(s, row, "sealed", sealed, "clean-row-uncovered")
  IN  [covering |-> arm.covering \cup seal.covering, codes |-> arm.codes \cup seal.codes]

\* _gate1_class_match
ClassMatch(s, row) ==
  IF row.method = "reconstructed" THEN CoverReconstructed(s, row)
  ELSE IF IsCaught(s, row) THEN CoverCaught(s, row)
  ELSE CoverClean(s, row)

\* _gate1_method_cap
MethodCap(s, row, covering) ==
  LET methods == {Method(s.records[i]) : i \in covering} \cap DOMAIN METHOD_ORDER IN
  When(\E m \in methods : METHOD_ORDER[row.method] > METHOD_ORDER[m], "method-cap-exceeded")

\* _gate1_row; what covers the row is read again by the tiers.
RowIsRead(s, row) == row.basis = "substrate" /\ ~FailClosed(s, row)

RefCodes(s, row) ==
  When(row.refs.form = "malformed", "ref-malformed")
    \cup When(~(Refs(row) \subseteq DOMAIN s.records), "ref-out-of-range")

Gate1Row(s, row) ==
  IF ~RowIsRead(s, row) THEN {}
  ELSE IF ~HasRecords(s) THEN {"records-absent"}
  ELSE IF row.refs.form = "absent" \/ (row.refs.form = "indexes" /\ row.refs.idx = << >>)
       THEN {"refs-empty"} \cup When(IsCaught(s, row), "caught-row-uncovered")
  ELSE IF RefCodes(s, row) # {} /\ ResolvedViews(s, row) = {} THEN RefCodes(s, row)
  ELSE LET match == ClassMatch(s, row) IN
       RefCodes(s, row)
         \cup (UNION {Gate1CheckPayload(s, s.records[i]) : i \in ResolvedViews(s, row)})
         \cup match.codes \cup MethodCap(s, row, match.covering)

\* _check_gate1_coverage
CheckGate1Coverage(s) ==
  When(HasRecords(s) /\ \E i \in DOMAIN s.rows : ~(Refs(s.rows[i]) \subseteq DOMAIN s.records),
       "ref-out-of-range")
    \cup UNION {Gate1Row(s, s.rows[i]) : i \in DOMAIN s.rows}

----------------------------------------------------------------------------
(* The requirements on the whole statement *)

Resolves(s, row, kind) == \E i \in ResolvedViews(s, row) : Kind(s.records[i]) = kind

CommitCleanRowContradicted(s) ==
  \E i \in DOMAIN s.rows : IsClean(s, s.rows[i]) /\ Resolves(s, s.rows[i], "interception")

CommitInterceptionOrphaned(s) ==
  /\ HasLabels(s)
  /\ \E i \in DOMAIN s.records :
       /\ Kind(s.records[i]) = "interception"
       /\ \A j \in DOMAIN s.rows :
            IsCaught(s, s.rows[j]) => i \notin ResolvedViews(s, s.rows[j])

\* _commit_attribution: the code of one row that declares pinned, if it has one.
AttributionOf(s, row) ==
  LET expected == IF HasManifest(s) /\ Manifest(s).expected.form = "map"
                       /\ ExpectedPayloadsOk(s) /\ row.attackId \in DOMAIN Manifest(s).expected.values
                  THEN Manifest(s).expected.values[row.attackId] ELSE {}
      inters   == {i \in ResolvedViews(s, row) : Kind(s.records[i]) = "interception"}
  IN  IF row.attribution # "pinned" THEN {}
      ELSE IF inters = {} THEN {"attribution-pinned-recordless"}
      ELSE IF expected = {} THEN {"attribution-unpinnable"}
      ELSE When(\E i \in inters :
                  LET commitment == s.records[i].payload.commitment IN
                  /\ commitment.form \in {"malformed", "wellFormed"}
                  /\ commitment.values \cap expected = {},
                "attribution-pin-unmatched")

\* The first row with one reports it.
CommitAttribution(s) ==
  LET bad == {i \in DOMAIN s.rows : AttributionOf(s, s.rows[i]) # {}} IN
  UNION {AttributionOf(s, s.rows[i]) : i \in {j \in bad : \A k \in bad : j <= k}}

\* observed_set_digest
ObservedSetDigest(s) ==
  {Leaf(s.records[i]) : i \in
     {j \in DOMAIN s.records : Kind(s.records[j]) \in {"interception", "examination"}}}

\* The carried records of a kind whose binding is this run's.
OfThisRun(s, kind) ==
  {s.records[i] : i \in {j \in DOMAIN s.records :
                           Kind(s.records[j]) = kind /\ NamesRun(s, s.records[j])}}

CommitObservedSet(s) ==
  \E seal \in OfThisRun(s, "sealed") :
    seal.payload.observedSet \notin {{}, {ObservedSetDigest(s)}}

\* The arming postures compared here are those of every arming record carried.
CommitSealedPresent(s) ==
  \E seal \in OfThisRun(s, "sealed") :
    seal.jsonType /\ SealedOk(s, seal.payload, ArmingPosturesOf(Elems(s.records)))

\* _carried_record_fault
CarriedRecordFault(s, p) ==
  CASE p.kind = "sealed"       -> When(~SealedOk(s, p, {}), "sealed-covers-nothing")
    [] p.kind = "arming"       -> When(~ArmingOk(s, p), "arming-covers-nothing")
    [] p.kind = "examination"  -> When(~ExaminationOk(p), "examination-covers-nothing")
    [] p.kind = "interception" ->
         IF CommitmentCodes(p) # {} THEN CommitmentCodes(p)
         ELSE When(p.method \notin DOMAIN METHOD_ORDER, "payload-missing-reserved")

CommitCarriedCover(s) ==
  UNION {CarriedRecordFault(s, rec.payload) : rec \in
    {r \in UNION {OfThisRun(s, kind) : kind \in COVERING_KINDS} :
       r.jsonType /\ r.payload.runBinding # {} /\ r.payload.method # "absent"}}

CommitSealAttacks(s) ==
  \E seal \in OfThisRun(s, "sealed") :
    LET named == seal.payload.observedAttacks IN
    /\ HasLabels(s) /\ AttackIdArrayOk(named, DeclaredAttacks(s))
    /\ \E id \in named.ids : \A j \in DOMAIN s.rows :
         IsCaught(s, s.rows[j]) => s.rows[j].attackId # id

CommitAssessedSubset(s) ==
  \E arming \in OfThisRun(s, "arming") :
    LET declared == arming.payload.assessed IN
    /\ HasClasses(s) /\ s.coverage.form = "object"
    /\ AttackIdArrayOk(declared, DeclaredAttacks(s))
    /\ ~(AssessedAttackIDs(s) \subseteq declared.ids)

CheckCommitments(s) ==
  When(CommitCleanRowContradicted(s), "clean-row-contradicted")
    \cup When(CommitInterceptionOrphaned(s), "interception-record-orphaned")
    \cup CommitAttribution(s)
    \cup (IF ~HasSubstrate(s) \/ ~HasRecords(s) THEN {}
          ELSE When(CommitObservedSet(s), "observed-set-mismatch")
                 \cup When(~CommitSealedPresent(s), "sealed-record-absent")
                 \cup CommitCarriedCover(s)
                 \cup When(CommitSealAttacks(s), "observed-attack-uncaught")
                 \cup When(CommitAssessedSubset(s), "assessed-set-exceeds-declaration"))

----------------------------------------------------------------------------
(* The result and the tiers *)

\* _recompute
RowForcesFail(s, row)  == ~IsClean(s, row) \/ FailClosed(s, row)
Recompute(s) ==
  LET candidates ==
        {"pass"} \cup When(\E i \in DOMAIN s.rows : RowForcesFail(s, s.rows[i]), "fail")
          \cup When(s.coverage.form = "object"
                      /\ s.coverage.outOfScope \cup s.coverage.routedElsewhere # {}, "degraded")
          \cup When(\E i \in DOMAIN s.rows :
                      /\ ~RowForcesFail(s, s.rows[i])
                      /\ <<s.rows[i].basis, s.rows[i].method>> # <<"substrate", "intercepted">>,
                    "pass_indirect")
  IN  CHOOSE v \in candidates : \A w \in candidates : RESULT_ORDER[v] <= RESULT_ORDER[w]

\* Compared only when there are rows.
CheckResultRecompute(s) ==
  When(HasLabels(s) /\ s.rows # << >> /\ Recompute(s) # s.result,
       "result-recompute-mismatch")

\* _record_verifies
RecordVerifies(rec, keys) == rec.decodes /\ rec.signedBy \cap keys # {}

\* _tiers
Tier(s, row, keys) ==
  IF row.basis = "artifact" THEN "declared"
  ELSE IF keys = {} \/ ~RowIsRead(s, row) THEN "unattested"
  ELSE LET covering == ClassMatch(s, row).covering IN
       IF covering # {} /\ \A i \in covering : RecordVerifies(s.records[i], keys)
       THEN "attested" ELSE "unattested"

----------------------------------------------------------------------------
(* verify *)

CheckStatementType(s) ==
  When(~s.typeOK, "statement-type-unsupported")
    \cup When(~s.predicateTypeOK, "predicate-type-unsupported")

\* The codes of one statement: the strict pass over its bytes answers alone.
Codes(s) ==
  IF ~s.parses THEN {"statement-malformed"}
  ELSE CheckStatementType(s) \cup CheckGate0Wellformed(s) \cup CheckVocabulary(s)
         \cup CheckCorpus(s) \cup When(s.subject.count # 1, "subject-cardinality")
         \cup CheckCoverage(s) \cup CheckPerRowStatements(s)
         \cup CheckSubstrateBindingInputs(s) \cup CheckFailClosedRows(s)
         \cup CheckRecords(s) \cup CheckGate1Coverage(s) \cup CheckCommitments(s)
         \cup CheckResultRecompute(s)

Outcome(s, keys) ==
  IF Codes(s) # {}
  THEN [verdict |-> "invalid", codes |-> Codes(s), result |-> "absent", tiers |-> << >>]
  ELSE [verdict |-> "valid", codes |-> {}, result |-> s.result,
        tiers |-> [i \in DOMAIN s.rows |-> Tier(s, s.rows[i], keys)]]

=============================================================================
