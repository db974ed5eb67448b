------------------------------ MODULE AeeGate1 ------------------------------
(***************************************************************************)
(* GATE 1, coverage validity: gate1WithContext of aee/validity.go and the  *)
(* statement-level requirements of aee/commitments.go. It reads carried    *)
(* payloads and never a signature, a key or a policy.                      *)
(***************************************************************************)
EXTENDS AeeGate0

----------------------------------------------------------------------------
(* GATE 1: the record set (validity.go) *)

\* checkRecordsStatementLevel: what holds of the records before any row is
\* read. A duplicate is sought among the records that decode; the root is
\* recomputed only when all of them do.
RecordSetCodes(s) ==
  LET recs == s.records IN
  IF NoRecords(s)
  THEN When(s.batchRoot.form # "absent", "batch-root-orphaned")
  ELSE When(\E i \in DOMAIN recs : recs[i].signedBy = {}, "record-signatures-empty")
    \cup When(\E i \in DOMAIN recs : ~recs[i].decodes, "record-undecodable")
    \cup When(\E i, j \in DOMAIN recs :
                 /\ i # j /\ recs[i].decodes /\ recs[j].decodes
                 /\ Leaf(recs[i]) = Leaf(recs[j]),
               "duplicate-record")
    \cup (IF \E i \in DOMAIN recs : ~recs[i].decodes THEN {}
          ELSE IF s.batchRoot.form = "absent" THEN {"batch-root-missing"}
          ELSE When(s.batchRoot.leaves # [i \in DOMAIN recs |-> Leaf(recs[i])],
                    "batch-root-mismatch"))

\* anyObservationRefOutOfRange
AnyRefOutOfRange(s) ==
  \E i \in DOMAIN s.rows : ~(ReadableRefs(s.rows[i]) \subseteq DOMAIN s.records)

\* MUTANT of PayloadCodes: the run binding has to be there, not to be this run's.
PayloadCodesAnyRun(rec, binding) ==
  LET p == rec.payload IN
  IF ~rec.decodes THEN {"record-undecodable"}
  ELSE IF p.form # "object" \/ ~p.canonical THEN {"payload-not-canonical"}
  ELSE When(~rec.jsonType, "payload-media-type")
         \cup When(p.runBinding = {} \/ "absent" \in {p.kind, p.method},
                   "payload-missing-reserved")

\* analyzePayload: the byte-level faults of one referenced payload.
PayloadCodes(rec, binding) ==
  LET p == rec.payload IN
  IF ~rec.decodes THEN {"record-undecodable"}
  ELSE IF p.form = "notIJson" THEN {"payload-not-ijson"}
  ELSE IF p.form = "notObject" THEN {"payload-not-canonical"}
  ELSE When(~p.canonical, "payload-not-canonical")
         \cup When(~rec.jsonType, "payload-media-type")
         \cup (IF p.runBinding = {} \/ "absent" \in {p.kind, p.method}
               THEN {"payload-missing-reserved"}
               ELSE When(~BindsTo(rec, binding), "run-binding-mismatch"))

----------------------------------------------------------------------------
(* GATE 1: the constraints of each record kind (validity.go) *)

\* attackIDArrayOK, on a member read as an array of strings.
AttackIDArrayOK(arr, declared) ==
  arr.form = "sortedArray" /\ arr.ids \subseteq declared

\* armingChainSyntaxValid: the optional run-chaining members.
ArmingChainSyntaxValid(p) ==
  IF p.runSeq = "absent"
  THEN p.prevRunBinding = "absent" /\ p.chainScope = "absent"
  ELSE /\ p.runSeq \in {"first", "later"}
       /\ p.chainScope = "wellFormed"
       /\ p.prevRunBinding = IF p.runSeq = "first" THEN "absent" ELSE "hex"

ArmingConstraintsMet(p, pinnedPosture, declared) ==
  /\ p.bindingVersion # "other"
  /\ p.method = "intercepted"
  /\ p.armedAt = "inTime"
  /\ p.posture = pinnedPosture
  /\ ArmingChainSyntaxValid(p)
  /\ AttackIDArrayOK(p.assessed, declared)

\* MUTANT of SealedConstraintsMet: a drop count is not held to its bound.
SealedConstraintsMetAnyBound(p, pinnedPosture, armingPostures, declared) ==
  /\ p.stillArmed = "true"
  /\ p.method = "intercepted"
  /\ \E dropped \in p.dropCount : dropped = 0 \/ (dropped > 0 /\ p.dropBound # {})
  /\ p.posture = pinnedPosture
  /\ \A posture \in armingPostures : p.posture = posture
  /\ p.observedSet # {}
  /\ AttackIDArrayOK(p.observedAttacks, declared)

SealedConstraintsMet(p, pinnedPosture, armingPostures, declared) ==
  /\ p.stillArmed = "true"
  /\ p.method = "intercepted"
  /\ \E dropped \in p.dropCount :
       \/ dropped = 0
       \/ \E bound \in p.dropBound : dropped >= 0 /\ dropped <= bound
  /\ p.posture = pinnedPosture
  /\ \A posture \in armingPostures : p.posture = posture
  /\ p.observedSet # {}
  /\ AttackIDArrayOK(p.observedAttacks, declared)

InterceptionConstraintsMet(p) ==
  p.method \in KnownMethods /\ p.commitment.form = "wellFormed"

CoveringKinds == {"interception", "arming", "sealed", "examination"}

\* evaluateKind: whether a record that passed the payload checks meets every
\* constraint of its kind.
KindConstraintsMet(p, pinnedPosture, armingPostures, declared) ==
  \/ p.kind = "interception" /\ InterceptionConstraintsMet(p)
  \/ p.kind = "arming" /\ ArmingConstraintsMet(p, pinnedPosture, declared)
  \/ /\ p.kind = "sealed"
     /\ SealedConstraintsMet(p, pinnedPosture, armingPostures, declared)
  \/ p.kind = "examination" /\ p.method = "reconstructed"

\* The code for a record of a covering kind that does not meet them.
KindFailCode(p) ==
  CASE p.kind = "interception" -> IF p.commitment.form \in {"malformed", "mistyped"}
                                  THEN "payload-commitment-malformed"
                                  ELSE "payload-missing-reserved"
    [] p.kind = "arming"      -> "arming-covers-nothing"
    [] p.kind = "sealed"      -> "sealed-covers-nothing"
    [] p.kind = "examination" -> "examination-covers-nothing"

\* The code for a record of a kind that never covers.
CoversNothingCode(kind) ==
  CASE kind = "moat-drop" -> "moat-drop-covers-nothing"
    [] kind = "uncommitted-observation" -> "uncommitted-observation-covers-nothing"
    [] OTHER -> "record-kind-unknown-covers-nothing"

----------------------------------------------------------------------------
(* GATE 1: one substrate row (validity.go, checkSubstrateRow) *)

RowFailsClosed(s, row) ==
  \/ row.label \notin s.env.vocabulary.labels \cup s.env.vocabulary.caught
  \/ row.method \notin KnownMethods
  \/ row.attribution \notin KnownAttributions

RefShapeCodes(row) ==
  IF row.refs.form = "malformed" THEN {"ref-malformed"}
  ELSE When(row.refs.form = "absent" \/ row.refs.idx = << >>, "refs-empty")

\* The kinds of record a row needs at least one valid example of each of.
RequiredKinds(s, row) ==
  IF row.method = "reconstructed" THEN {"examination"}
  ELSE IF IsCaughtLabel(s, row.label) THEN {"interception"}
  ELSE {"arming", "sealed"}

UncoveredCode(s, row) ==
  IF row.method = "reconstructed" THEN "reconstructed-row-uncovered"
  ELSE IF IsCaughtLabel(s, row.label) THEN "caught-row-uncovered"
  ELSE "clean-row-uncovered"

\* The posture claims of the arming records a row resolves.
ArmingPostures(s, row) ==
  {s.records[i].payload.posture : i \in
     {j \in Resolved(s, row) : /\ s.records[j].payload.kind = "arming"
                               /\ s.records[j].payload.posture # "absent"}}

\* The records of one kind that cover the row.
ValidOfKind(s, row, kind) ==
  {i \in Resolved(s, row) :
     /\ s.records[i].payload.kind = kind
     /\ KindConstraintsMet(s.records[i].payload, s.env.posture.digest,
                           ArmingPostures(s, row), DeclaredAttackIDs(s))}

Covering(s, row) == UNION {ValidOfKind(s, row, k) : k \in RequiredKinds(s, row)}

\* The first record in reference order among those of the set.
FirstRef(s, row, set) ==
  LET pos == {k \in DOMAIN row.refs.idx : row.refs.idx[k] \in set}
  IN  s.records[row.refs.idx[CHOOSE k \in pos : \A l \in pos : k <= l]]

\* The code for a required kind no valid record of which is resolved: that of
\* the first record of the kind, else that of the first record whose kind
\* never covers, else the row's own.
MissingKindCode(s, row, kind) ==
  LET kindAt(i) == s.records[i].payload.kind
      ofKind    == {i \in Resolved(s, row) : kindAt(i) = kind}
      useless   == {i \in Resolved(s, row) : kindAt(i) \notin CoveringKinds}
  IN  IF ofKind # {} THEN KindFailCode(FirstRef(s, row, ofKind).payload)
      ELSE IF useless # {} THEN CoversNothingCode(FirstRef(s, row, useless).payload.kind)
      ELSE UncoveredCode(s, row)

ClassMatchCodes(s, row) ==
  LET missing == {k \in RequiredKinds(s, row) : ValidOfKind(s, row, k) = {}}
  IN  IF missing # {} THEN {MissingKindCode(s, row, k) : k \in missing}
      ELSE When(/\ row.method = "intercepted"
                /\ \E i \in Covering(s, row) :
                     s.records[i].payload.method = "reconstructed",
                "method-cap-exceeded")

\* The checks in their order, each reached when the ones before it are silent.
SubstrateRowCodes(s, row, binding) ==
  LET payloadCodes == UNION {PayloadCodes(s.records[i], binding) :
                               i \in Resolved(s, row)}
  IN  IF RowFailsClosed(s, row) THEN {"fail-closed-substrate-row"}
      ELSE IF RefShapeCodes(row) # {} THEN RefShapeCodes(row)
      ELSE IF ~(ReadableRefs(row) \subseteq DOMAIN s.records)
           THEN {"ref-out-of-range"}
      ELSE IF payloadCodes # {} THEN payloadCodes
      ELSE ClassMatchCodes(s, row)

----------------------------------------------------------------------------
(* GATE 1: requirements on the whole statement (commitments.go) *)

RowResolves(s, row, kind) == \E i \in Resolved(s, row) : KindOf(s.records[i]) = kind

\* cleanRowsContradicted
CleanRowContradicted(s) ==
  \E i \in DOMAIN s.rows : /\ IsCleanLabel(s, s.rows[i].label)
                           /\ RowResolves(s, s.rows[i], "interception")

\* MUTANT of InterceptionOrphaned: asked of statements with substrate rows only,
\* like the requirements on the seal.
InterceptionOrphanedSubstrateOnly(s) ==
  /\ HasSubstrateRows(s)
  /\ \E i \in DOMAIN s.records :
       /\ KindOf(s.records[i]) = "interception"
       /\ ~ \E j \in DOMAIN s.rows : /\ IsCaughtLabel(s, s.rows[j].label)
                                     /\ i \in Resolved(s, s.rows[j])

\* interceptionsOrphaned
InterceptionOrphaned(s) ==
  \E i \in DOMAIN s.records :
    /\ KindOf(s.records[i]) = "interception"
    /\ ~ \E j \in DOMAIN s.rows : /\ IsCaughtLabel(s, s.rows[j].label)
                                  /\ i \in Resolved(s, s.rows[j])

\* expectedFor
ExpectedFor(s, id) ==
  LET expected == s.env.corpus.manifest.expected
  IN  IF expected.form = "map" /\ id \in DOMAIN expected.values
      THEN expected.values[id] ELSE {}

\* pinMatches, negated: an interception record the row resolves carries none
\* of the expected values. One without a readable commitment is not compared.
PinUnmatched(s, row) ==
  \E i \in Resolved(s, row) :
    LET rec == s.records[i] IN
    /\ KindOf(rec) = "interception"
    /\ rec.payload.commitment.form \in {"malformed", "wellFormed"}
    /\ rec.payload.commitment.values \cap ExpectedFor(s, row.attackId) = {}

PinnedRowCodes(s, row) ==
  IF row.attribution # "pinned" THEN {}
  ELSE IF ~RowResolves(s, row, "interception") THEN {"attribution-pinned-recordless"}
  ELSE IF ExpectedFor(s, row.attackId) = {} THEN {"attribution-unpinnable"}
  ELSE When(PinUnmatched(s, row), "attribution-pin-unmatched")

\* attributionBindings reports the first row that violates the requirement.
AttributionCodes(s) ==
  LET bad == {i \in DOMAIN s.rows : PinnedRowCodes(s, s.rows[i]) # {}}
  IN  UNION {PinnedRowCodes(s, s.rows[i]) :
               i \in {j \in bad : \A k \in bad : j <= k}}

AnyBasisCommitmentCodes(s) ==
  When(CleanRowContradicted(s), "clean-row-contradicted")
    \cup When(InterceptionOrphaned(s), "interception-record-orphaned")
    \cup AttributionCodes(s)

\* MUTANT of ObservedLeaves: examinations are left out.
ObservedLeavesInterceptions(s) ==
  {Leaf(s.records[i]) : i \in
     {j \in DOMAIN s.records : KindOf(s.records[j]) = "interception"}}

\* observedSetDigest
ObservedLeaves(s) ==
  {Leaf(s.records[i]) : i \in
     {j \in DOMAIN s.records :
        KindOf(s.records[j]) \in {"interception", "examination"}}}

\* The carried records of a kind that name this run.
BoundOfKind(s, kind) ==
  {i \in DOMAIN s.records : /\ KindOf(s.records[i]) = kind
                           /\ BindsTo(s.records[i], RunBinding(s))}

\* sealsCommitToCarriedSet
ObservedSetMismatch(s) ==
  \E i \in BoundOfKind(s, "sealed") :
    /\ s.records[i].payload.observedSet # {}
    /\ s.records[i].payload.observedSet # {ObservedLeaves(s)}

\* A carried record of a covering kind that reads, and names this run.
ReadableCovering(s) ==
  {i \in DOMAIN s.records :
     /\ KindOf(s.records[i]) \in CoveringKinds
     /\ PayloadCodes(s.records[i], RunBinding(s)) = {}}

\* Its kind's constraints, with no row and so no arming posture to compare.
CoversAlone(s, i) ==
  KindConstraintsMet(s.records[i].payload, s.env.posture.digest, {},
                     DeclaredAttackIDs(s))

\* sealedRecordPresent, negated
SealedRecordAbsent(s) ==
  ~ \E i \in ReadableCovering(s) :
      KindOf(s.records[i]) = "sealed" /\ CoversAlone(s, i)

\* carriedRecordsCover
CarriedRecordCodes(s) ==
  {KindFailCode(s.records[i].payload) : i \in
     {j \in ReadableCovering(s) : ~CoversAlone(s, j)}}

\* MUTANT of SealNamedAttackUncaught: a row for the attack is enough.
SealNamedAttackUncaughtAnyRow(s) ==
  \E i \in BoundOfKind(s, "sealed") :
    \E id \in s.records[i].payload.observedAttacks.ids :
      ~ \E j \in DOMAIN s.rows : s.rows[j].attackId = id

\* sealNamedAttacksCaught, negated
SealNamedAttackUncaught(s) ==
  \E i \in BoundOfKind(s, "sealed") :
    LET named == s.records[i].payload.observedAttacks IN
    /\ AttackIDArrayOK(named, DeclaredAttackIDs(s))
    /\ \E id \in named.ids :
         ~ \E j \in DOMAIN s.rows : /\ IsCaughtLabel(s, s.rows[j].label)
                                   /\ s.rows[j].attackId = id

\* MUTANT of AssessedSetUndeclared: the declaration has to be about the
\* assessed attacks, not to reach all of them.
AssessedSetUndeclaredInverted(s) ==
  \E i \in BoundOfKind(s, "arming") :
    ~(s.records[i].payload.assessed.ids \subseteq AssessedAttackIDs(s))

\* assessedSetDeclared, negated
AssessedSetUndeclared(s) ==
  \E i \in BoundOfKind(s, "arming") :
    LET declared == s.records[i].payload.assessed IN
    /\ AttackIDArrayOK(declared, DeclaredAttackIDs(s))
    /\ ~(AssessedAttackIDs(s) \subseteq declared.ids)

SubstrateCommitmentCodes(s) ==
  IF NoRecords(s) THEN {}
  ELSE When(ObservedSetMismatch(s), "observed-set-mismatch")
         \cup When(SealedRecordAbsent(s), "sealed-record-absent")
         \cup CarriedRecordCodes(s)
         \cup When(SealNamedAttackUncaught(s), "observed-attack-uncaught")
         \cup When(AssessedSetUndeclared(s), "assessed-set-exceeds-declaration")

----------------------------------------------------------------------------
(* GATE 1 (validity.go, gate1WithContext) *)

AllSubstrateRowCodes(s) ==
  UNION {SubstrateRowCodes(s, s.rows[i], RunBinding(s)) :
           i \in {j \in DOMAIN s.rows : IsSubstrate(s.rows[j])}}

RecordsPresent(s) == s.recordsForm # "absent"

Gate1(s) ==
  RecordSetCodes(s)
    \cup When(~NoRecords(s) /\ AnyRefOutOfRange(s), "ref-out-of-range")
    \cup (IF ~HasSubstrateRows(s) THEN AnyBasisCommitmentCodes(s)
          ELSE IF ~RecordsPresent(s) THEN {"records-absent"}
          ELSE IF s.issuedAt # "wellFormed" THEN {"issued-at-malformed"}
          ELSE AllSubstrateRowCodes(s)
                 \cup AnyBasisCommitmentCodes(s)
                 \cup SubstrateCommitmentCodes(s))

=============================================================================
