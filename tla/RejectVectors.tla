---------------------------- MODULE RejectVectors ----------------------------
(***************************************************************************)
(* The reject vectors of vectors/reject/gen_invalid_vectors.py, each an    *)
(* accept vector changed in one way and derived again as far as the change *)
(* calls for. A statement whose bytes a strict parser refuses is its       *)
(* parent, unparsed: nothing of it is read.                                *)
(***************************************************************************)
EXTENDS AcceptVectors

CONSTANT P(_)  \* the accept vectors

\* vec: the accept vector it starts from, the codes either rail may name, and
\* the statement.
Bad(parent, codes, statement) == [parent |-> parent, codes |-> codes, statement |-> statement]

Run(id) == RunBinding(P(id))

SetResult(s, value)      == [s EXCEPT !.result = value]
SetRefs(s, row, indexes) == [s EXCEPT !.rows[row].refs.idx = indexes]
MalformedRefs(s)         == [s EXCEPT !.rows[1].refs.form = "malformed"]
Unparsed(s)              == [s EXCEPT !.parses = FALSE]

\* mutate_record_payload and raw_record_bytes: the record signed again.
MutatePayload(s, i, payload) ==
  Reroot([s EXCEPT !.records[i] = SignedWith([@ EXCEPT !.payload = payload], SUB)])

PayloadOf(id, i) == P(id).records[i].payload

----------------------------------------------------------------------------
(* The result, the references and the payload bytes *)

ResultVectors ==
  [ bad001 |-> Bad("ok002", {"result-vocabulary", "result-recompute-mismatch"},
                 SetResult(P("ok002"), "PASS")),
    bad002 |-> Bad("ok001", {"result-recompute-mismatch"}, SetResult(P("ok001"), "pass")),
    bad003 |-> Bad("ok009", {"result-recompute-mismatch"}, SetResult(P("ok009"), "pass")),
    bad004 |-> Bad("ok008", {"result-recompute-mismatch"}, SetResult(P("ok008"), "pass")),
    bad005 |-> Bad("ok004", {"result-recompute-mismatch"}, SetResult(P("ok004"), "pass")),
    bad006 |-> Bad("ok002", {"result-recompute-mismatch"}, SetResult(P("ok002"), "fail")),
    bad007 |-> Bad("ok002", {"result-recompute-mismatch"}, SetResult(P("ok002"), "degraded")),
    bad008 |-> Bad("ok002", {"result-vocabulary", "result-recompute-mismatch"},
                 SetResult(P("ok002"), "error")),
    bad009 |-> Bad("ok007", {"result-recompute-mismatch"}, SetResult(P("ok007"), "pass")),
    bad010 |-> Bad("ok002", {"result-recompute-mismatch"}, SetResult(P("ok002"), "pass_indirect")) ]

\* 104 and 105 append a record after the interception or the examination and
\* the seal, and point the row at index 1.
RefVectors ==
  [ bad101 |-> Bad("ok001", {"refs-empty", "caught-row-uncovered"}, SetRefs(P("ok001"), 1, << >>)),
    bad102 |-> Bad("ok001", {"ref-out-of-range"}, SetRefs(P("ok001"), 1, <<1, 8>>)),
    bad103 |-> Bad("ok001", {"ref-malformed"}, MalformedRefs(P("ok001"))),
    bad104 |-> Bad("ok001", {"caught-row-uncovered"},
                 Reroot(SetRefs(WithRecord(P("ok001"), Arming(Run("ok001"))), 1, <<2>>))),
    bad105 |-> Bad("ok031", {"reconstructed-row-uncovered"},
                 Reroot(SetRefs(WithRecord(P("ok031"), Interception(Run("ok031"), "a")), 1, <<2>>))),
    bad106 |-> Bad("ok002", {"clean-row-uncovered"}, SetRefs(P("ok002"), 1, <<1>>)),
    bad107 |-> Bad("ok002", {"clean-row-uncovered"}, SetRefs(P("ok002"), 1, <<2>>)),
    bad108 |-> Bad("ok001", {"ref-malformed"}, MalformedRefs(P("ok001"))) ]

PayloadVectors ==
  LET p       == PayloadOf("ok001", 1)
      With(q) == MutatePayload(P("ok001"), 1, q)
      notIJson == Bad("ok001", {"payload-not-ijson"}, With([p EXCEPT !.form = "notIJson"]))
      notCanonical == Bad("ok001", {"payload-not-canonical"}, With([p EXCEPT !.canonical = FALSE]))
      without(q) == Bad("ok001", {"payload-missing-reserved"}, With(q))
  IN [ bad201 |-> notCanonical,
       bad202 |-> notIJson,
       bad203 |-> notIJson,
       bad204 |-> Bad("ok001", {"payload-media-type"},
                    Reroot([P("ok001") EXCEPT !.records[1].jsonType = FALSE])),
       bad208 |-> notCanonical,
       bad205 |-> without([p EXCEPT !.runBinding = {}]),
       bad206 |-> without([p EXCEPT !.kind = "absent"]),
       bad207 |-> without([p EXCEPT !.method = "absent"]) ]

----------------------------------------------------------------------------
(* The run and the records as a set *)

Resigned(s, run) ==
  Reroot([s EXCEPT !.records = <<Arming(run), Seal(run)>>])

BindingVectors ==
  [ bad301 |-> Bad("ok002", {"run-binding-mismatch"},
                 Resigned(P("ok002"), [Run("ok002") EXCEPT !.corpus = "M_ALT"])),
    bad302 |-> Bad("ok001", {"method-cap-exceeded"},
                 MutatePayload(P("ok001"), 1, [PayloadOf("ok001", 1) EXCEPT !.method = "reconstructed"])),
    bad303 |-> Bad("ok002", {"run-binding-mismatch"},
                 Resigned(P("ok002"), Run("ok002") @@ [aeeBindingVersion |-> "1"])),
    bad726 |-> Bad("ok002", {"arming-covers-nothing"},
                 MutatePayload(P("ok002"), 1, [PayloadOf("ok002", 1) EXCEPT !.bindingVersion = "other"])),
    bad304 |-> Bad("ok030", {"method-cap-exceeded"},
                 [P("ok030") EXCEPT !.rows[1].method = "intercepted"]) ]

\* A root over other leaves than the carried ones, in the order given.
RootOver(s, leaves) == [s EXCEPT !.batchRoot = [form |-> "root", leaves |-> leaves]]

NoRoot == [form |-> "absent", leaves |-> << >>]

RootVectors ==
  LET three == P("ok014")
      leaf(i) == Leaf(three.records[i])
      twice == WithRecord(P("ok002"), P("ok002").records[1])
      mismatch(parent, s) == Bad(parent, {"batch-root-mismatch"}, s)
      \* a hash of no sequence of leaves
      nowhere == << >>
  IN [ bad401 |-> Bad("ok002", {"batch-root-missing"}, [P("ok002") EXCEPT !.batchRoot = NoRoot]),
       bad402 |-> mismatch("ok014", RootOver(three, nowhere)),
       bad403 |-> mismatch("ok014", RootOver(three, <<leaf(1), leaf(2), leaf(3), leaf(3)>>)),
       bad404 |-> mismatch("ok014", RootOver(three, <<leaf(2), leaf(1), leaf(3)>>)),
       bad405 |-> Bad("ok002", {"duplicate-record"}, Reroot(twice)),
       bad406 |-> mismatch("ok002", RootOver(P("ok002"), nowhere)),
       bad407 |-> Bad("ok001", {"records-absent", "ref-out-of-range"},
                    [P("ok001") EXCEPT !.recordsForm = "absent", !.records = << >>,
                                       !.batchRoot = NoRoot]),
       bad408 |-> Bad("ok007", {"batch-root-orphaned"}, RootOver(P("ok007"), nowhere)),
       bad409 |-> mismatch("ok029", RootOver(P("ok029"), nowhere)),
       bad410 |-> Bad("ok002", {"duplicate-record", "record-undecodable"},
                    [Reroot(WithRecord(twice, Future(Run("ok002"), "aee-future-x", "intercepted")))
                       EXCEPT !.records[4].decodes = FALSE]) ]

----------------------------------------------------------------------------
(* The rows *)

RowMutation(parent, i, row, codes) == Bad(parent, codes, [P(parent) EXCEPT !.rows[i] = row])

RowVectors ==
  LET caught == P("ok001").rows[1]
      closed == {"fail-closed-substrate-row"}
      layer  == {"clean-row-layer-not-none"}
      Raised(parent, i) ==
        RowMutation(parent, i,
          [P(parent).rows[i] EXCEPT !.actualLayer = "policy.egress_sinkhole"], layer)
  IN [ bad501 |-> RowMutation("ok001", 1, [caught EXCEPT !.method = "example.method-x"], closed),
       bad502 |-> RowMutation("ok001", 1, [caught EXCEPT !.actualLayer = "absent"],
                    {"malformed-missing-actual-layer"}),
       bad503 |-> Raised("ok002", 1),
       bad994 |-> Raised("ok011", 2),
       bad818 |-> Raised("ok007", 1),
       bad504 |-> RowMutation("ok001", 1, [caught EXCEPT !.label = "example_label_a"], closed),
       bad505 |-> RowMutation("ok001", 1, [caught EXCEPT !.method = "absent"], closed),
       bad506 |-> RowMutation("ok001", 1, [caught EXCEPT !.actualLayer = "mistyped"],
                    {"statement-malformed"}) ]

----------------------------------------------------------------------------
(* The environment *)

\* A vocabulary carried under its own new digest.
WithVocabulary(s, voc) ==
  [s EXCEPT !.env.vocabulary = [voc EXCEPT !.digest = "changed", !.hash = "changed"]]

\* _verbatim_rebind: the binding is derived over the value as it is carried.
Verbatim(s) == Resigned(s, RunBinding(s))

EnvironmentVectors ==
  LET voc == DEFAULT_VOCAB
      clean == P("ok002")
      vocabulary(codes, v) == Bad("ok002", codes, RebindRecords(WithVocabulary(clean, v)))
  IN [ bad601 |-> Bad("ok007", {"vocabulary-missing"},
                    [P("ok007") EXCEPT !.env.vocabulary =
                       [voc EXCEPT !.form = "absent", !.labels = {}, !.caught = {}]]),
       bad602 |-> vocabulary({"vocabulary-caught-not-subset"},
                    [voc EXCEPT !.caught = {"egress_captured", "example_label_x"}]),
       bad603 |-> vocabulary({"vocabulary-not-canonical"}, [voc EXCEPT !.canonical = FALSE]),
       bad604 |-> vocabulary({"vocabulary-not-canonical"}, [voc EXCEPT !.canonical = FALSE]),
       bad605 |-> Bad("ok002", {"vocabulary-digest-mismatch"},
                    RebindRecords([clean EXCEPT !.env.vocabulary.digest = "stale-vocabulary"])),
       bad606 |-> Bad("ok002", {"run-entropy-missing"}, [clean EXCEPT !.env.runEntropy = "missing"]),
       bad607 |-> Bad("ok002", {"subject-cardinality"}, [clean EXCEPT !.subject.count = 2]),
       bad608 |-> Bad("ok002", {"digest-not-canonical"},
                    Verbatim([clean EXCEPT !.env.runEntropy = "noncanonical"])),
       bad609 |-> Bad("ok002", {"digest-not-canonical"},
                    Verbatim([clean EXCEPT !.env.substrate = "noncanonical"])),
       bad610 |-> Bad("ok001", {"fail-closed-substrate-row"},
                    RebindRecords(WithVocabulary(P("ok001"),
                      [voc EXCEPT !.labels = {}, !.caught = {}]))),
       bad611 |-> Bad("ok002", {"subject-sha256-missing"}, [clean EXCEPT !.subject.sha256 = "none"]),
       bad612 |-> Bad("ok001", {"vocabulary-not-canonical"},
                    RebindRecords(WithVocabulary(P("ok001"), [voc EXCEPT !.canonical = FALSE]))) ]

----------------------------------------------------------------------------
(* The constraints of each kind *)

ArmingMutation(payload) ==
  Bad("ok002", {"arming-covers-nothing"}, MutatePayload(P("ok002"), 1, payload))

\* _seal_mut: the seal the row names is the faulty one, and a healthy one keeps
\* the statement sealed.
SealMutation(parent, payload) ==
  Bad(parent, {"sealed-covers-nothing"},
      Reroot(WithRecord(MutatePayload(P(parent), 2, payload), Seal(Run(parent)))))

ArmingVectors ==
  LET p == PayloadOf("ok002", 1) IN
  [ bad701 |-> ArmingMutation([p EXCEPT !.armedAt = "absent"]),
    bad702 |-> ArmingMutation([p EXCEPT !.armedAt = "late"]),
    bad703 |-> Bad("ok002",
                 {"arming-covers-nothing", "sealed-covers-nothing", "clean-row-uncovered"},
                 MutatePayload(P("ok002"), 1, [p EXCEPT !.posture = "other-posture"])),
    bad704 |-> ArmingMutation([p EXCEPT !.method = "reconstructed"]) ]

\* The members that chain one run to the run before it.
ChainVectors ==
  LET p == PayloadOf("ok002", 1) IN
  [ bad718 |-> ArmingMutation([p EXCEPT !.runSeq = "malformed", !.chainScope = "wellFormed"]),
    bad719 |-> ArmingMutation([p EXCEPT !.runSeq = "first"]),
    bad720 |-> ArmingMutation([p EXCEPT !.runSeq = "later", !.chainScope = "wellFormed",
                                        !.prevRunBinding = "malformed"]),
    bad721 |-> ArmingMutation([p EXCEPT !.runSeq = "first", !.chainScope = "malformed"]),
    bad722 |-> ArmingMutation([p EXCEPT !.runSeq = "first", !.chainScope = "malformed"]),
    bad723 |-> ArmingMutation([p EXCEPT !.runSeq = "first", !.chainScope = "malformed"]),
    bad988 |-> ArmingMutation([p EXCEPT !.runSeq = "first", !.chainScope = "malformed"]) ]

SealVectors ==
  LET p     == PayloadOf("ok002", 2)
      armed == PayloadOf("ok002", 1)
  IN
  [ bad705 |-> SealMutation("ok002", [p EXCEPT !.dropCount = {}]),
    bad706 |-> SealMutation("ok002", [p EXCEPT !.stillArmed = "absent"]),
    bad707 |-> SealMutation("ok002", [p EXCEPT !.stillArmed = "false"]),
    bad708 |-> SealMutation("ok002", [p EXCEPT !.dropCount = {3}]),
    bad709 |-> SealMutation("ok003", [PayloadOf("ok003", 2) EXCEPT !.dropCount = {6}]),
    bad710 |-> SealMutation("ok002", [p EXCEPT !.posture = "other-posture"]),
    bad712 |-> Bad("ok031", {"examination-covers-nothing"},
                 MutatePayload(P("ok031"), 1,
                   [PayloadOf("ok031", 1) EXCEPT !.method = "intercepted"])),
    bad713 |-> LET seal  == Seal(Run("ok002"))
               IN  Bad("ok002", {"sealed-covers-nothing"},
                     Reroot(SetRefs(WithRecords(P("ok002"),
                       <<Arming(Run("ok002")), seal, [seal EXCEPT !.payload.stillArmed = "false"]>>), 1, <<1, 3>>))),
    bad714 |-> Bad("ok002", {"record-kind-unknown-covers-nothing"},
                 MutatePayload(P("ok002"), 1, [armed EXCEPT !.kind = "aee-future-x"])),
    bad715 |-> SealMutation("ok002", [p EXCEPT !.stillArmed = "absent"]),
    bad716 |-> SealMutation("ok002", [p EXCEPT !.posture = "absent"]),
    bad717 |-> ArmingMutation([armed EXCEPT !.posture = "absent"]),
    bad727 |-> ArmingMutation([armed EXCEPT !.armedAt = "malformed"]) ]

----------------------------------------------------------------------------
(* Rows and coverage against the manifest *)

\* A manifest carried under its own new digest.
WithManifest(s, name, manifest) ==
  [s EXCEPT !.env.corpus = [digest |-> name, manifest |-> [manifest EXCEPT !.hash = name]]]

\* Something listed twice: a subject, a row, a class.
TwiceVectors ==
  [ bad728 |-> Bad("ok007", {"subject-cardinality"}, [P("ok007") EXCEPT !.subject.count = 2]),
    bad729 |-> Bad("ok001", {"statement-malformed"}, [P("ok001") EXCEPT !.rows = Append(@, @[1])]),
    bad730 |-> Bad("ok004", {"coverage-incomplete"},
                 [P("ok004") EXCEPT !.coverage.outOfScope = {"XA", "XB"}]) ]

ArtifactRefVectors ==
  [ bad724 |-> Bad("ok029", {"ref-out-of-range"}, SetRefs(P("ok029"), 1, <<100>>)),
    bad990 |-> Bad("ok029", {"ref-out-of-range"}, SetRefs(P("ok029"), 1, <<1, 100>>)),
    bad993 |-> Bad("ok045", {"ref-out-of-range"}, SetRefs(P("ok045"), 2, <<100>>)) ]

CoverageVectors ==
  LET degraded   == P("ok004")
      incomplete == {"coverage-incomplete"}
      xb         == P("ok033").env.corpus.manifest
  IN [ bad804 |-> Bad("ok033", {"manifest-duplicate-attack"},
                    WithManifest(P("ok033"), "duplicated",
                      [xb EXCEPT !.classes.XB = Append(@, "XA1")])),
       bad805 |-> RowMutation("ok001", 1, [P("ok001").rows[1] EXCEPT !.attackId = "XA9"],
                    {"row-attack-unknown", "coverage-incomplete"}),
       bad806 |-> Bad("ok046", incomplete, [P("ok046") EXCEPT !.rows = <<@[1]>>]),
       bad807 |-> Bad("ok004", incomplete, [degraded EXCEPT !.rows = Append(@, ArtifactRow("XB1"))]),
       bad816 |-> Bad("ok004", incomplete,
                    [degraded EXCEPT !.coverage.outOfScope = {}, !.result = "pass"]),
       bad819 |-> Bad("ok001", incomplete, [P("ok001") EXCEPT !.coverage.assessed = <<"XA", "XZ">>]),
       bad731 |-> Bad("ok004", incomplete, [degraded EXCEPT !.coverage.outOfScope = {"XB", "XZ"}]),
       bad732 |-> Bad("ok004", incomplete, [degraded EXCEPT !.coverage.routedElsewhere = {"XZ"}]) ]

\* Bytes a strict parser refuses: a duplicate member, an unpaired or directly
\* encoded surrogate, an overlong encoding, a raw control character, a
\* noncharacter.
UnparsedVectors ==
  [id \in {"bad725", "bad733", "bad734", "bad735", "bad736", "bad737", "bad738", "bad743"} |->
     Bad("ok002", {"statement-malformed"}, Unparsed(P("ok002")))]

\* Payload bytes outside I-JSON, and a signatures member with no entry.
RecordByteVectors ==
  [id \in {"bad739", "bad740", "bad741", "bad742", "bad744"} |-> PayloadVectors.bad202]
    @@ [id \in {"bad745", "bad749"} |->
          Bad("ok001", {"record-signatures-empty"}, [P("ok001") EXCEPT !.records[1].signedBy = {}])]

NoAttackManifest(name, classes, assessed) ==
  LET s == P("ok007") IN
  Bad("ok007", {"corpus-manifest-no-attacks"},
    [WithManifest(s, name, [s.env.corpus.manifest EXCEPT !.classes = classes])
       EXCEPT !.rows = << >>, !.coverage.assessed = assessed, !.result = "pass"])

NoAttackVectors ==
  [ bad746 |-> NoAttackManifest("no classes", << >>, << >>),
    bad747 |-> NoAttackManifest("an empty class", [XA |-> << >>], <<"XA">>) ]

TypeVectors ==
  LET artifact == P("ok007") IN
  [ bad801 |-> Bad("ok002", {"predicate-type-unsupported"},
                 [P("ok002") EXCEPT !.predicateTypeOK = FALSE]),
    bad802 |-> Bad("ok007", {"environment-incomplete"},
                 [artifact EXCEPT !.env.catchPolicy = "missing"]),
    bad803 |-> Bad("ok007", {"corpus-digest-mismatch"},
                 [artifact EXCEPT !.env.corpus.digest = "stale-corpus"]) ]

StatementVectors ==
  LET artifact == P("ok007")
      clean    == P("ok002")
      incomplete(s) == Bad("ok007", {"environment-incomplete"}, s)
      issued(form)  == Bad("ok007", {"issued-at-malformed"}, [artifact EXCEPT !.issuedAt = form])
      posture(p)    == Bad("ok002", {"posture-vocabulary"},
                           RebindRecords([clean EXCEPT !.env.posture = Posture(p)]))
  IN [ bad817 |-> Bad("ok031", {"record-undecodable"},
                    [P("ok031") EXCEPT !.records[1].decodes = FALSE]),
       bad808 |-> Bad("ok002", {"coverage-missing"}, [clean EXCEPT !.coverage.form = "absent"]),
       bad809 |-> Bad("ok002", {"member-spelling"}, [clean EXCEPT !.snakeCase = TRUE]),
       bad810 |-> Bad("ok007", {"issued-at-missing"}, [artifact EXCEPT !.issuedAt = "absent"]),
       bad811 |-> issued("malformed"),
       bad812 |-> incomplete([artifact EXCEPT !.env.posture.digest = "missing"]),
       bad813 |-> incomplete([artifact EXCEPT !.env.corpus.digest = "missing"]),
       bad814 |-> incomplete([artifact EXCEPT !.env.substrate = "missing"]),
       bad750 |-> ArmingMutation([PayloadOf("ok002", 1) EXCEPT !.armedAt = "malformed"]),
       bad751 |-> ArmingMutation([PayloadOf("ok002", 1) EXCEPT !.armedAt = "malformed"]),
       bad815 |-> Bad("ok002", {"statement-type-unsupported"}, [clean EXCEPT !.typeOK = FALSE]),
       bad820 |-> issued("malformed"),
       bad821 |-> issued("malformed"),
       bad822 |-> issued("malformed"),
       bad823 |-> posture("example_posture_x"),
       bad824 |-> posture("the number 3"),
       bad825 |-> posture("an array around sinkhole") ]

\* What the records commit to changes and the records stay.
SpliceVectors ==
  LET mismatch(parent, s) == Bad(parent, {"run-binding-mismatch"}, s)
      clean == P("ok002")
  IN [ bad305 |-> mismatch("ok002", [clean EXCEPT !.env.posture = Posture("allowlist")]),
       bad306 |-> mismatch("ok002", WithVocabulary(clean, [DEFAULT_VOCAB EXCEPT !.caught = {}])),
       bad307 |-> mismatch("ok002",
                    [clean EXCEPT !.env.posture.posture = "sinkhole, with a producerNote"]) ]

\* The same, of the run that an admission receipt is about.
ReceiptSpliceVectors ==
  LET mismatch(parent, s) == Bad(parent, {"run-binding-mismatch"}, s)
      clean == P("ok002")
  IN [ vate1a |-> mismatch("vate1d", [P("vate1d") EXCEPT !.subject.sha256 = "admission-receipt-b"]),
       vate1c |-> Bad("ok002", {"subject-cardinality"}, [clean EXCEPT !.subject.count = 2]),
       vate3a |-> mismatch("ok002", [clean EXCEPT !.env.substrate = "second-substrate-image"]) ]

=============================================================================
