--------------------------- MODULE GeneratorChecks ---------------------------
(***************************************************************************)
(* What the two generators of the corpus ask of a statement before they    *)
(* write it, a second reading of the rules beside the rails': the          *)
(* self-verifier of vectors/accept/gen_valid_vectors.py, over every accept *)
(* vector, and the parent gate and the second-fault check of               *)
(* vectors/reject/gen_invalid_vectors.py, over the parents and over what   *)
(* is derived from them. Each operator is the set of what it finds.        *)
(***************************************************************************)
EXTENDS VectorBuilder

----------------------------------------------------------------------------
(* The rule for the result, as both generators read it again *)

\* _forced: unlike the builder's own reading it leaves the attribution out.
Forced(s, row) ==
  \/ IsCaughtLabel(s, row.label) \/ row.label \notin s.env.vocabulary.labels
  \/ row.basis \notin {"substrate", "artifact"}
  \/ row.method \notin {"intercepted", "reconstructed"}

\* recompute_result
ReadAgain(s) ==
  LET candidates ==
        {"pass"} \cup When(\E row \in Elems(s.rows) : Forced(s, row), "fail")
          \cup When(s.coverage.outOfScope \cup s.coverage.routedElsewhere # {}, "degraded")
          \cup When(\E row \in Elems(s.rows) :
                      ~Forced(s, row) /\ <<row.basis, row.method>> # <<"substrate", "intercepted">>,
                    "pass_indirect")
  IN  CHOOSE v \in candidates : \A w \in candidates : RESULT_ORDER[v] <= RESULT_ORDER[w]

----------------------------------------------------------------------------
(* The records and the kinds of them *)

RefsOf(s, row)           == Elems(row.refs.idx) \cap DOMAIN s.records
LoadedKindAt(s, i)       == LoadedKind(s.records[i])
RefersTo(s, row, kind)   == \E i \in RefsOf(s, row) : LoadedKindAt(s, i) = kind
OfKind(s, kind)          == {i \in DOMAIN s.records : LoadedKindAt(s, i) = kind}
PayloadAt(s, i)          == s.records[i].payload
CaughtAttacks(s)         ==
  {row.attackId : row \in {r \in Elems(s.rows) : IsCaughtLabel(s, r.label)}}
Environments(s)          == s.env.vocabulary.digest = s.env.vocabulary.hash
                              /\ s.env.corpus.digest = s.env.corpus.manifest.hash

RootHolds(s) == s.batchRoot = RootOf(s.records)
NoDuplicate(s) ==
  Cardinality({Leaf(rec) : rec \in Elems(s.records)}) = Len(s.records)

\* chain_ok
ChainOk(p) ==
  IF p.runSeq = "absent" THEN {p.prevRunBinding, p.chainScope} = {"absent"}
  ELSE /\ p.runSeq # "malformed" /\ p.chainScope = "wellFormed"
       /\ p.prevRunBinding = IF p.runSeq = "first" THEN "absent" ELSE "hex"

\* arming_ok; the parent gate asks the same, the chain aside.
Arms(s, p) ==
  p.armedAt = "inTime" /\ p.posture = s.env.posture.digest /\ p.method = "intercepted"

\* sealed_ok
Seals(s, p) ==
  /\ p.stillArmed = "true" /\ p.posture = s.env.posture.digest /\ p.method = "intercepted"
  /\ \E drops \in p.dropCount : drops = 0 \/ \E bound \in p.dropBound : drops <= bound

METHOD_RANK == [reconstructed |-> 0, intercepted |-> 1]
Rank(method) == IF method \in DOMAIN METHOD_RANK THEN METHOD_RANK[method] ELSE 0

----------------------------------------------------------------------------
(* The commitments of 0.7 (verify_commitments, commitments_check) *)

PinnedRowFault(s, row) ==
  LET expected == s.env.corpus.manifest.expected.values
      inters   == {i \in RefsOf(s, row) : LoadedKindAt(s, i) = "interception"}
  IN  /\ row.attribution = "pinned"
      /\ \/ inters = {} \/ row.attackId \notin DOMAIN expected
         \/ \E i \in inters : PayloadAt(s, i).commitment.values \cap expected[row.attackId] = {}

OrphanedInterception(s) ==
  \E i \in OfKind(s, "interception") :
    \A row \in Elems(s.rows) : IsCaughtLabel(s, row.label) => i \notin RefsOf(s, row)

\* What every row and every interception is asked for.
RecordFaults(s) ==
  When(\E row \in Elems(s.rows) : row.attribution \notin {"pinned", "paired"}, "attribution")
    \cup When(\E row \in Elems(s.rows) :
                IsCleanLabel(s, row.label) /\ RefersTo(s, row, "interception"),
              "clean row resolves an interception")
    \cup When(OrphanedInterception(s), "orphan")
    \cup When(\E i \in OfKind(s, "interception") : PayloadAt(s, i).commitment.form # "wellFormed",
              "commitment")

\* A seal, and an arming, among the given records.
SealFault(s, p) ==
  \/ p.observedSet # {ObservedSetOf(s.records)} \/ p.observedAttacks.form # "sortedArray"
  \/ ~(p.observedAttacks.ids \subseteq DeclaredAttackIDs(s) \cap CaughtAttacks(s))

ArmingFault(s, p) ==
  p.assessed.form # "sortedArray" \/ ~(AssessedAttackIDs(s) \subseteq p.assessed.ids)

RunFaults(s, indexes) ==
  IF ~HasSubstrateRows(s) THEN {}
  ELSE When(\E i \in indexes \cap OfKind(s, "sealed") : SealFault(s, PayloadAt(s, i)), "seal")
         \cup When(\E i \in indexes \cap OfKind(s, "arming") : ArmingFault(s, PayloadAt(s, i)), "arming")
         \cup When(indexes \cap OfKind(s, "sealed") = {}, "no seal")

\* The accept generator looks at every seal and arming, whatever run it names;
\* it alone asks what a pinned row rests on.
VerifyCommitments(s) ==
  RecordFaults(s) \cup RunFaults(s, DOMAIN s.records)
    \cup When(\E row \in Elems(s.rows) : PinnedRowFault(s, row), "pinned")

\* The parent gate looks at those of this run.
CommitmentsCheck(s) ==
  LET mine == {i \in DOMAIN s.records : BindsTo(s.records[i], RunBinding(s))} IN
  RecordFaults(s) \cup RunFaults(s, mine)
    \cup When(\E i \in mine \cap OfKind(s, "arming") :
                ~(PayloadAt(s, i).assessed.ids \subseteq DeclaredAttackIDs(s)), "undeclared attack")

----------------------------------------------------------------------------
(* The self-verifier of the accept generator (verify) *)

\* One substrate row whose references are all in range.
CoverOf(s, row) ==
  LET arming == \E i \in RefsOf(s, row) : LoadedKindAt(s, i) = "arming"
                    /\ Arms(s, PayloadAt(s, i)) /\ ChainOk(PayloadAt(s, i))
      sealed == \E i \in RefsOf(s, row) : LoadedKindAt(s, i) = "sealed" /\ Seals(s, PayloadAt(s, i))
  IN CASE row.method = "reconstructed" -> RefersTo(s, row, "examination")
       [] row.method = "intercepted"   ->
            /\ IsCaughtLabel(s, row.label) => RefersTo(s, row, "interception")
            /\ IsCleanLabel(s, row.label) => arming /\ sealed
       [] OTHER -> TRUE

\* The cap is taken over every reference of a covering kind, whether or not it
\* is what covers the row.
OverCap(s, row) ==
  \E i \in RefsOf(s, row) :
    /\ LoadedKindAt(s, i) \in {"interception", "arming", "sealed", "examination"}
    /\ Rank(row.method) > Rank(PayloadAt(s, i).method)

Reserved(p) == p.runBinding # {} /\ "absent" \notin {p.kind, p.method}

SubstrateRowFaults(s, row) ==
  IF row.refs.idx = << >> \/ ~(Elems(row.refs.idx) \subseteq DOMAIN s.records)
  THEN {"refs"}
  ELSE When(\E i \in RefsOf(s, row) :
              \/ ~PayloadAt(s, i).canonical \/ ~Reserved(PayloadAt(s, i)) \/ ~s.records[i].jsonType
              \/ s.env.runEntropy # "missing" /\ ~BindsTo(s.records[i], RunBinding(s)), "record")
         \cup When(~CoverOf(s, row), "cover") \cup When(OverCap(s, row), "cap")

\* Coverage at the granularity of an attack.
CoverageFaults(s) ==
  LET ids     == {row.attackId : row \in Elems(s.rows)}
      of(c)   == ids \cap ClassAttacks(s.env.corpus.manifest, c)
  IN  When(~(ids \subseteq DeclaredAttackIDs(s)), "unknown attack")
        \cup When(\E c \in Elems(s.coverage.assessed) :
                    of(c) # ClassAttacks(s.env.corpus.manifest, c), "coverage incomplete")
        \cup When(\E c \in s.coverage.outOfScope \cup s.coverage.routedElsewhere : of(c) # {},
                  "rows for a class not assessed")

SelfVerify(s) ==
  When(~s.env.posture.registered, "posture")
    \cup When(~s.env.vocabulary.canonical \/ ~Environments(s), "digests")
    \cup When(~(s.env.vocabulary.caught \subseteq s.env.vocabulary.labels), "caught")
    \cup When(~NoDuplicate(s) \/ ~RootHolds(s), "batch root")
    \cup When(HasSubstrateRows(s) /\ s.env.runEntropy = "missing", "run entropy")
    \cup (UNION {SubstrateRowFaults(s, row) : row \in {r \in Elems(s.rows) : IsSubstrate(r)}})
    \cup When(ReadAgain(s) # s.result, "result")
    \cup CoverageFaults(s) \cup VerifyCommitments(s)

\* verify_signatures: under which key each record's signature verifies.
Signers(s) ==
  [i \in DOMAIN s.records |->
     IF s.records[i].signedBy \cap {SUB, WRONG} = {} THEN NOKEY
     ELSE CHOOSE key \in s.records[i].signedBy \cap {SUB, WRONG} : TRUE]

----------------------------------------------------------------------------
(* The parent gate of the reject generator (parent_gate_check) *)

\* verify_record_sigs
RecordSigsVerify(s) == \A rec \in Elems(s.records) : rec.signedBy \subseteq {SUB}

\* A row it reads: a substrate one whose label and method are in vocabulary.
GateRowFaults(s, row) ==
  LET refs  == RefsOf(s, row)
      kinds == CASE IsCaughtLabel(s, row.label) /\ row.method = "intercepted" -> {"interception"}
                 [] row.method = "reconstructed" -> {"examination"}
                 [] OTHER -> {"arming", "sealed"}
      cover == {i \in refs : LoadedKindAt(s, i) \in kinds}
  IN  When(refs = {} \/ refs # Elems(row.refs.idx), "refs")
        \cup When(\E i \in refs :
                    LET p == PayloadAt(s, i) IN
                    \/ ~p.canonical \/ ~s.records[i].jsonType \/ ~BindsTo(s.records[i], RunBinding(s))
                    \/ p.kind = "arming" /\ ~Arms(s, p)
                    \/ p.kind = "sealed" /\ ~Seals(s, p)
                    \/ p.kind = "examination" /\ p.method # "reconstructed", "record")
        \cup When({LoadedKindAt(s, i) : i \in cover} # kinds, "cover")
        \cup When(\E i \in cover : Rank(row.method) > Rank(PayloadAt(s, i).method), "cap")

ParentFaults(s) ==
  When(s.result # ReadAgain(s), "result")
    \cup When(~s.env.vocabulary.canonical \/ ~Environments(s), "digests")
    \cup When(~(s.env.vocabulary.caught \subseteq s.env.vocabulary.labels), "caught")
    \cup When(s.recordsForm = "array" /\ ~(RootHolds(s) /\ NoDuplicate(s)), "batch root")
    \cup When(~RecordSigsVerify(s), "signature")
    \cup When(HasSubstrateRows(s) /\ s.env.runEntropy = "missing", "run entropy")
    \cup (UNION {GateRowFaults(s, row) : row \in
           {r \in Elems(s.rows) : /\ IsSubstrate(r) /\ r.method \in DOMAIN METHOD_RANK
                                  /\ r.label \in s.env.vocabulary.labels}})
    \cup CommitmentsCheck(s)

----------------------------------------------------------------------------
(* The second-fault check of the reject generator (second_fault_absence) *)

\* The conditions of the vectors that are about a derived value: what is asked
\* for of every other vector.
ABOUT ==
  [ root    |-> {"bad401", "bad402", "bad403", "bad404", "bad405", "bad406", "bad407", "bad408",
                 "bad409", "bad410"},
    vocab   |-> {"bad601", "bad605", "bad905"},
    corpus  |-> {"bad803"},
    binding |-> {"bad301", "bad303", "bad305", "bad306", "bad307", "bad606", "bad608", "bad609",
                 "bad611", "bad726", "vate1a", "vate3a"},
    seal    |-> {"bad953", "bad954", "bad955", "bad956", "bad957", "bad974", "bad975", "bad976",
                 "bad977", "bad978", "bad987", "bad995", "bad996", "bad997", "bad998"},
    result  |-> {"bad001", "bad002", "bad003", "bad004", "bad005", "bad006", "bad007", "bad008",
                 "bad009", "bad010", "bad601", "bad808", "bad905"} ]

\* A payload the generator can load, undecodable base64 aside.
Loads(rec)      == rec.decodes /\ rec.payload.form # "notObject"
HasVocabulary(s) == s.env.form = "object" /\ s.env.vocabulary.form = "object"

BindingsHold(s) ==
  \A rec \in Elems(s.records) :
    Loads(rec) /\ rec.payload.runBinding # {} => BindsTo(rec, RunBinding(s))

SealsHold(s) ==
  \A i \in OfKind(s, "sealed") :
    Loads(s.records[i]) => PayloadAt(s, i).observedSet \in {{}, {ObservedSetOf(s.records)}}

\* Every derived value the vector is not about is still what it is derived from.
\* A statement that is text carries nothing to look at; a seal may count a
\* record no verifier reads where the vector declares so.
GeneratorSecondFaults(id, s, alsoCarries) ==
  LET asked(family) == id \notin ABOUT[family]
      digested      == s.env.form = "object" /\ s.env.corpus.digest # "missing"
                         /\ s.env.corpus.manifest.form = "object"
  IN IF ~s.parses THEN {}
     ELSE When(asked("root") /\ s.recordsForm = "array" /\ ~RootHolds(s), "batch root")
            \cup When(/\ asked("vocab") /\ HasVocabulary(s)
                      /\ s.env.vocabulary.digest # s.env.vocabulary.hash, "vocabulary")
            \cup When(/\ asked("corpus") /\ digested
                      /\ s.env.corpus.digest # s.env.corpus.manifest.hash, "corpus")
            \cup When(/\ asked("binding") /\ HasSubstrateRows(s)
                      /\ s.env.runEntropy # "missing" /\ s.subject.sha256 # "none"
                      /\ ~BindingsHold(s), "binding")
            \cup When(~RecordSigsVerify(s), "signature")
            \cup When(/\ asked("seal") /\ ~SealsHold(s)
                      /\ "observed-set-mismatch" \notin alsoCarries, "seal")
            \cup When(/\ asked("result") /\ HasVocabulary(s) /\ s.coverage.form = "object"
                      /\ s.result \in DOMAIN RESULT_ORDER /\ s.result # ReadAgain(s), "result")

\* ind_family_check: the members of a family declare one set of at least two
\* readings, and no two of those predict the same everywhere.
DiscriminatingFamily(members) ==
  LET readings(v) == DOMAIN v.readings IN
  /\ \A v, w \in members : readings(v) = readings(w)
  /\ \A v \in members : Cardinality(readings(v)) >= 2
  /\ \A v \in members : \A left, right \in readings(v) :
       left # right => \E w \in members : w.readings[left] # w.readings[right]

=============================================================================
