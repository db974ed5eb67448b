---------------------------- MODULE CarriedVectors ----------------------------
(***************************************************************************)
(* The rest of the reject vectors of vectors/reject/gen_invalid_vectors.py:*)
(* those about what is carried beside the rows, which no row need name (an *)
(* orphaned interception, a seal's commitments, an arming's declaration,   *)
(* the records a pinned row rests on, a faulty record no row references),  *)
(* and the two indeterminate vectors.                                      *)
(***************************************************************************)
EXTENDS RejectVectors

\* The parent with one more record bound to its run, and rooted again.
Carrying(parent, rec) == Reroot(WithRecord(P(parent), rec))

CommitmentVectors ==
  [ bad950 |-> Bad("ok014", {"clean-row-contradicted"},
                 Built(man_2, <<CaughtRow("XA1", <<1>>), CleanRow("XA2", <<1, 2, 3>>)>>,
                   <<Interception(b_2, "a"), Arming(b_2), Seal(b_2)>>)),
    bad951 |-> Bad("ok001", {"caught-row-uncovered", "interception-record-orphaned"},
                 SetRefs(P("ok001"), 1, <<2>>)),
    bad952 |-> Bad("ok001", {"sealed-record-absent"},
                 Reroot([P("ok001") EXCEPT !.records = <<@[1]>>])),
    bad953 |-> Bad("ok046", {"observed-set-mismatch"},
                 RebindNoReseal([P("ok046") EXCEPT !.records = <<@[1], @[3]>>,
                   !.rows = <<@[1]>>, !.env.corpus = man_1])),
    bad954 |-> Bad("ok001", {"observed-set-mismatch"},
                 Rooted(SetRefs(WithRecord(P("ok001"), Interception(b_1, "b")), 1, <<1, 3>>))) ]

\* A second seal or arming, bound to this run, which no row names.
SecondRecordVectors ==
  [ bad996 |-> Bad("ok002", {"observed-set-mismatch"},
                 Rooted(WithRecord(P("ok002"),
                   [Seal(b_1) EXCEPT !.payload.observedSet = {{Leaf(P("ok002").records[1])}}]))),
    bad997 |-> Bad("ok002", {"observed-attack-uncaught"},
                 Carrying("ok002", Naming(Seal(b_1), {"XA1"}))),
    bad998 |-> Bad("ok002", {"assessed-set-exceeds-declaration"},
                 Carrying("ok002", [Arming(b_1) EXCEPT !.payload.assessed = Ids({})])) ]

\* One record's payload with one of its members changed.
Reannounced(parent, i, codes, payload) == Bad(parent, codes, MutatePayload(P(parent), i, payload))

Sealing(parent, i, ids)     == [PayloadOf(parent, i) EXCEPT !.observedAttacks = Ids(ids)]
Declaring(parent, assessed) == [PayloadOf(parent, 1) EXCEPT !.assessed = assessed]

NamedAttackVectors ==
  LET uncaught == {"observed-attack-uncaught"}
  IN [ bad955 |-> Reannounced("ok002", 2, uncaught, Sealing("ok002", 2, {"XA1"})),
       bad995 |-> Reannounced("ok053", 4, uncaught, Sealing("ok053", 4, {"XA1", "XB1"})),
       bad956 |-> Bad("ok046", uncaught \cup {"coverage-incomplete"},
                    Reroot([P("ok046") EXCEPT !.rows = <<@[1]>>,
                      !.records = <<@[1], Naming(@[3], {"XA1", "XA2"})>>])),
       bad957 |-> Reannounced("ok004", 1, {"assessed-set-exceeds-declaration"},
                    Declaring("ok004", Ids({"XB1"}))) ]

AnnouncedVectors ==
  LET undeclared == {"arming-covers-nothing"} IN
  [ bad977 |-> Reannounced("ok002", 1, undeclared, Declaring("ok002", BlankPayload.assessed)),
    bad978 |-> Reannounced("ok011", 1, undeclared,
                 Declaring("ok011", [form |-> "unsortedArray", ids |-> {"XA1", "XA2"}])),
    bad987 |-> Reannounced("ok011", 1, undeclared,
                 Declaring("ok011", Ids({"XA1", "XA2", "XZ9"}))),
    bad974 |-> SealMutation("ok002", [PayloadOf("ok002", 2) EXCEPT !.observedSet = {}]),
    bad975 |-> SealMutation("ok002",
                 [PayloadOf("ok002", 2) EXCEPT !.observedAttacks = BlankPayload.observedAttacks]),
    bad976 |-> SealMutation("ok002", Sealing("ok002", 2, {"XZ9"})),
    bad979 |-> Bad("ok029", {"interception-record-orphaned"},
                 Reroot([P("ok029") EXCEPT !.records[1] = Interception(unchecked, "a")])) ]

----------------------------------------------------------------------------
(* Attribution *)

\* The statement of ok-001 under a manifest with expected payloads.
ExpectedPayloads(expected) ==
  LET corpus == Corpus("man_expected", [XA |-> <<"XA1">>], expected)
      run    == BindingOf(corpus)
  IN  Bad("ok001", {"manifest-expected-payloads-malformed"},
        Built(corpus, <<CaughtRow("XA1", <<1>>)>>, <<Interception(run, "a"), Seal(run)>>))

\* The manifest of ok-055 changed, and the run derived again.
ManifestMutated(expected) ==
  Bad("ok055", {"manifest-expected-payloads-malformed"},
    RebindRecords(WithManifest(P("ok055"), "man_changed",
      [man_pin_multi.manifest EXCEPT !.expected = expected])))

Malformed(expected) == [expected EXCEPT !.wellFormed = FALSE]

ExpectedPayloadVectors ==
  [ bad961 |-> ExpectedPayloads(Expected([XZ9 |-> {"a"}])),
    bad962 |-> ExpectedPayloads(Malformed(Expected([XA1 |-> {"a", "b"}]))),
    bad963 |-> ExpectedPayloads(Malformed(Expected([XA1 |-> {"A"}]))),
    bad964 |-> ExpectedPayloads(Expected([XA1 |-> {}])) ]

ExpectationVectors ==
  [ bad991 |-> ManifestMutated(Malformed(Expected(
                 [XA1 |-> {"a", "a2", "not-a-commitment"}, XB1 |-> {"b"}]))),
    bad992 |-> ManifestMutated(Expected([XA1 |-> {"a", "a2"}, XB1 |-> {"b"}, XZ9 |-> {"c"}])) ]

Committing(parent, i, codes, form, values) ==
  Reannounced(parent, i, codes,
    [PayloadOf(parent, i) EXCEPT !.commitment = [form |-> form, values |-> values]])

PayloadCommitmentVectors ==
  LET malformed == {"payload-commitment-malformed"} IN
  [ bad965 |-> Committing("ok001", 1, malformed, "malformed", {"not-a-commitment"}),
    bad989 |-> Committing("ok001", 1, malformed, "malformed", {"a", "not-a-commitment"}),
    bad966 |-> Committing("ok001", 1, malformed, "malformed", {}),
    bad967 |-> Committing("ok001", 1, {"payload-missing-reserved"}, "absent", {}) ]

UnmatchedVectors ==
  LET unmatched == {"attribution-pin-unmatched"} IN
  [ bad982 |-> Bad("ok051", unmatched, SetRefs(SetRefs(P("ok051"), 1, <<2>>), 2, <<1>>)),
    bad986 |-> Committing("ok055", 2, unmatched, "wellFormed", {"b"}) ]

Attributed(parent, value) == [P(parent).rows[1] EXCEPT !.attribution = value]

RowAttributionVectors ==
  LET closed   == {"fail-closed-substrate-row"}
      mismatch == {"result-recompute-mismatch"}
  IN [ bad968 |-> RowMutation("ok001", 1, Attributed("ok001", "absent"), closed),
       bad969 |-> RowMutation("ok001", 1, Attributed("ok001", "example_strong"), closed),
       bad970 |-> RowMutation("ok007", 1, Attributed("ok007", "absent"), mismatch),
       bad971 |-> RowMutation("ok007", 1, Attributed("ok007", "example_strong"), mismatch) ]

Lost == {"caught-row-uncovered", "attribution-pinned-recordless"}

\* Pinned rows whose interception is gone, or of another's manifest.
PinnedVectors ==
  [ bad958 |-> Bad("ok047", Lost,
                 Reroot(SetRefs([P("ok047") EXCEPT !.records = <<@[2]>>], 1, <<1>>))),
    bad959 |-> Bad("ok047", {"attribution-unpinnable"},
                 CaughtRun(Pinned(CaughtRow("XA1", <<1>>)), Interception(b_1, "a"))),
    bad960 |-> Committing("ok047", 1, {"attribution-pin-unmatched"}, "wellFormed", {"b"}) ]

AttributionVectors ==
  LET unpinned == Corpus("man_unpinned", man_live.manifest.classes,
                    Expected([XA1 |-> {"channel a"}, XB1 |-> {"channel b"}]))
      run      == BindingOf(unpinned)
      live     == P("ok052")
  IN [ bad983 |-> Committing("ok052", 2, {"attribution-pin-unmatched"}, "wellFormed", {"d"}),
       bad984 |-> Bad("ok052", {"attribution-unpinnable"},
                    Built(unpinned, live.rows,
                      <<Interception(run, "channel a"), Interception(run, "channel b"),
                        Interception(run, "channel c"), Naming(Seal(run), {"XA1", "XB1", "XC1"})>>)),
       bad985 |-> Bad("ok052", Lost,
                    Reroot(SetRefs(SetRefs(SetRefs(
                      [live EXCEPT !.records = <<@[1], @[3], @[4]>>], 1, <<1>>), 2, <<3>>), 3, <<2>>))) ]

----------------------------------------------------------------------------
(* Records that no row, or the wrong row, rests on *)

\* _noncovering_sole_cover
NoncoveringSoleCover(kind, code) ==
  Bad("ok001", {code}, CaughtRun(CaughtRow("XA1", <<1>>), Future(b_1, kind, "intercepted")))

OrphanVectors ==
  [ bad972 |-> Bad("ok001", {"interception-record-orphaned"},
                 Reroot([P("ok001") EXCEPT !.records = <<@[1], Interception(b_1, "b"), @[2]>>])),
    bad973 |-> Bad("ok002", {"attribution-pinned-recordless"},
                 Built(man_pin, <<Pinned(CleanRow("XA1", <<1, 2>>))>>,
                   <<Arming(b_pin), Seal(b_pin)>>)) ]

SoleCoverVectors ==
  [ bad980 |-> NoncoveringSoleCover("moat-drop", "moat-drop-covers-nothing"),
    bad981 |-> NoncoveringSoleCover("uncommitted-observation",
                 "uncommitted-observation-covers-nothing") ]

UnreferencedVectors ==
  [ bad900 |-> SealMutation("ok002", [PayloadOf("ok002", 2) EXCEPT !.method = "reconstructed"]),
    bad901 |-> SealMutation("ok003", [PayloadOf("ok003", 2) EXCEPT !.dropCount = {-1}]),
    bad902 |-> Bad("ok002", {"sealed-covers-nothing"},
                 Reroot(SetRefs(WithRecord(P("ok002"),
                   [Arming(b_1) EXCEPT !.payload.posture = "other-posture"]), 1, <<1, 2, 3>>))),
    bad905 |-> Bad("ok033", {"vocabulary-not-canonical"},
                 WithVocabulary(P("ok033"), [DEFAULT_VOCAB EXCEPT !.labelsPresent = FALSE, !.labels = {}])),
    bad906 |-> Bad("ok033", {"environment-incomplete"},
                 [P("ok033") EXCEPT !.env.corpus.manifest.form = "absent",
                    !.env.corpus.manifest.classesPresent = FALSE,
                    !.env.corpus.manifest.classes = << >>]) ]

UncoveringVectors ==
  [ bad1015 |-> Bad("ok002", {"arming-covers-nothing"},
                  Carrying("ok002", [Arming(b_1) EXCEPT !.payload.armedAt = "absent"])),
    bad1016 |-> Bad("ok002", {"examination-covers-nothing"},
                  Carrying("ok002", [Examination(b_1, "a-to-b") EXCEPT !.payload.method = "intercepted"])),
    bad1017 |-> Bad("ok001", {"sealed-record-absent"},
                  MutatePayload(P("ok001"), 2, [PayloadOf("ok001", 2) EXCEPT !.stillArmed = "false"])) ]

\* _seal_ref_swap: the row's seal reference moves from the faulty seal to the
\* healthy one beside it.
SealRefSwap(bad) ==
  LET s      == bad.statement
      seals  == {i \in DOMAIN s.records : LoadedKind(s.records[i]) = "sealed"}
      Swapped(i) == IF i \in seals THEN CHOOSE j \in seals : j # i ELSE i
  IN  Bad(bad.parent, {"sealed-covers-nothing"},
        [s EXCEPT !.rows[1].refs.idx = << >> \o [k \in DOMAIN @ |-> Swapped(@[k])]])

SwappedVectors ==
  [ bad1001 |-> SealRefSwap(SealVectors.bad705),      bad1002 |-> SealRefSwap(SealVectors.bad706),
    bad1003 |-> SealRefSwap(SealVectors.bad707),      bad1004 |-> SealRefSwap(SealVectors.bad708),
    bad1005 |-> SealRefSwap(SealVectors.bad709),      bad1006 |-> SealRefSwap(SealVectors.bad710),
    bad1007 |-> SealRefSwap(SealVectors.bad713),      bad1008 |-> SealRefSwap(SealVectors.bad715),
    bad1009 |-> SealRefSwap(SealVectors.bad716),
    bad1010 |-> SealRefSwap(UnreferencedVectors.bad900),
    bad1011 |-> SealRefSwap(UnreferencedVectors.bad901),
    bad1012 |-> SealRefSwap(AnnouncedVectors.bad974), bad1013 |-> SealRefSwap(AnnouncedVectors.bad975),
    bad1014 |-> SealRefSwap(AnnouncedVectors.bad976) ]

\* In the order they are written, and all of them.
RejectTables ==
  << ResultVectors, RefVectors, PayloadVectors, BindingVectors, RootVectors, RowVectors,
     EnvironmentVectors, ArmingVectors, SealVectors, TwiceVectors, ChainVectors,
     ArtifactRefVectors, UnparsedVectors, TypeVectors, CoverageVectors, RecordByteVectors,
     NoAttackVectors, StatementVectors, SpliceVectors, CommitmentVectors, SecondRecordVectors,
     NamedAttackVectors, PinnedVectors, ExpectedPayloadVectors, PayloadCommitmentVectors,
     RowAttributionVectors, OrphanVectors, AnnouncedVectors, SoleCoverVectors, UnmatchedVectors,
     ExpectationVectors, AttributionVectors, UnreferencedVectors, SwappedVectors,
     UncoveringVectors, ReceiptSpliceVectors >>

----------------------------------------------------------------------------
(* What may be carried beside the declared codes *)

\* INHERENT_EXTRA, and the clause the vector itself declares.
AlsoCarries ==
  [id \in {"bad202", "bad203", "bad739", "bad740", "bad741", "bad742", "bad744", "bad817"} |->
     {"observed-set-mismatch"}]
  @@ [id \in {"bad101", "bad103", "bad104", "bad105", "bad108", "bad504", "bad610"} |->
        {"interception-record-orphaned"}]
  @@ [id \in {"bad301", "bad303", "bad305", "bad306", "bad307", "vate1a", "vate3a"} |->
        {"sealed-record-absent"}]
  @@ [ bad506 |-> {"malformed-missing-actual-layer"}, bad902 |-> {"arming-covers-nothing"},
       bad1017 |-> {"sealed-covers-nothing"} ]

\* OBSERVED_EXTRA
AlsoEmits ==
  [id \in {"bad202", "bad203", "bad204", "bad739", "bad740", "bad741", "bad742", "bad744"} |->
     {"caught-row-uncovered"}]
  @@ [id \in {"bad201", "bad208"} |-> {"caught-row-uncovered", "observed-set-mismatch"}]
  @@ [id \in {"bad606", "bad611", "bad703", "bad902"} |-> {"sealed-record-absent"}]
  @@ [id \in {"ind001", "ind002"} |-> {"clean-row-uncovered", "payload-not-canonical"}]
  @@ [id \in {"bad991", "bad992"} |-> {"attribution-unpinnable"}]
  @@ [ bad206 |-> {"record-kind-unknown-covers-nothing"},
       bad806 |-> {"interception-record-orphaned"},
       bad817 |-> {"payload-not-canonical", "reconstructed-row-uncovered"} ]

----------------------------------------------------------------------------
(* The indeterminate family *)

\* _clean_with_spare_seal, with one record undecodable and another unsigned.
TwoRecordFaults(undecodable, unsigned) ==
  LET spare == Carrying("ok002", [Seal(b_1) EXCEPT !.payload.dropBound = {5}]) IN
  [spare EXCEPT !.records[undecodable].decodes = FALSE, !.records[unsigned].signedBy = {}]

Indeterminate(statement, positional) ==
  [ statement |-> statement,
    readings  |-> [ setLevel |-> "record-signatures-empty", positional |-> positional,
                    decodeFirst |-> "record-undecodable" ] ]

IndeterminateVectors ==
  [ ind001 |-> Indeterminate(TwoRecordFaults(1, 2), "record-undecodable"),
    ind002 |-> Indeterminate(TwoRecordFaults(2, 1), "record-signatures-empty") ]

IndeterminateTables == <<IndeterminateVectors>>

=============================================================================
