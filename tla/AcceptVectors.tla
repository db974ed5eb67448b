---------------------------- MODULE AcceptVectors ----------------------------
(***************************************************************************)
(* The accept vectors: build_vectors of vectors/accept/gen_valid_vectors.py*)
(* statement by statement, each under its number.                          *)
(***************************************************************************)
EXTENDS VectorBuilder

man_1   == Corpus("man_1", [XA |-> <<"XA1">>], NoExpected)
man_2   == Corpus("man_2", [XA |-> <<"XA1", "XA2">>], NoExpected)
man_ab  == Corpus("man_ab", [XA |-> <<"XA1">>, XB |-> <<"XB1">>], NoExpected)
man_2b  == Corpus("man_2b", [XA |-> <<"XA1", "XA2">>, XB |-> <<"XB1">>], NoExpected)
man_2b2 == Corpus("man_2b2", [XA |-> <<"XA1", "XA2">>, XB |-> <<"XB1", "XB2">>], NoExpected)
b_1   == BindingOf(man_1)
b_2   == BindingOf(man_2)
b_ab  == BindingOf(man_ab)
b_2b  == BindingOf(man_2b)
b_2b2 == BindingOf(man_2b2)

\* The two shapes most vectors start from: one clean row that an arming and a
\* seal cover, and one caught row that an interception covers.
CleanRun(arming, seal) == Built(man_1, <<CleanRow("XA1", <<1, 2>>)>>, <<arming, seal>>)
CaughtRun(row, record) == Built(man_1, <<row>>, <<record, Seal(b_1)>>)

SkippedXB == [Defaults EXCEPT !.assessed = {"XA"}, !.outOfScope = {"XB"}]

AcceptFrom001 ==
  [ ok001 |-> CaughtRun(CaughtRow("XA1", <<1>>), Interception(b_1, "a")),
    ok002 |-> CleanRun(Arming(b_1), Seal(b_1)),
    ok003 |-> CleanRun(Arming(b_1),
                [Seal(b_1) EXCEPT !.payload.dropCount = {3}, !.payload.dropBound = {5}]),
    ok004 |-> MakeStatement(man_ab, <<CleanRow("XA1", <<1, 2>>)>>,
                <<Arming(b_ab), Seal(b_ab)>>, SkippedXB),
    ok005 |-> MakeStatement(man_ab, <<CleanRow("XA1", <<1, 2>>)>>,
                <<Arming(b_ab), Seal(b_ab)>>,
                [Defaults EXCEPT !.assessed = {"XA"}, !.routedElsewhere = {"XB"}]),
    ok006 |-> Built(man_1, <<ExaminedRow("XA1", <<1>>)>>,
                <<Examination(b_1, "a-to-b"), Seal(b_1)>>),
    ok007 |-> Recordless(man_1, <<ArtifactRow("XA1")>>),
    ok008 |-> Recordless(man_1, <<[ArtifactRow("XA1") EXCEPT !.method = "example_unknown_method"]>>),
    ok009 |-> Recordless(man_1, <<[ArtifactRow("XA1") EXCEPT !.label = "example_label_a"]>>),
    ok010 |-> Recordless(man_1, <<[ArtifactRow("XA1") EXCEPT !.basis = "substrate_observed"]>>) ]

AcceptFrom011 ==
  [ ok011 |-> Built(man_2, <<CleanRow("XA1", <<1, 2>>), CleanRow("XA2", <<1, 2>>)>>,
                <<Arming(b_2), Seal(b_2)>>),
    \* 012 carries selectors, which no gate reads
    ok012 |-> CleanRun(Arming(b_1), Seal(b_1)),
    ok013 |-> Built(man_1, <<CleanRow("XA1", <<1, 2>>)>>,
                <<Arming(b_1), Seal(b_1), Future(b_1, "aee-future-x", "intercepted")>>),
    ok014 |-> Built(man_2, <<CaughtRow("XA1", <<1>>), CleanRow("XA2", <<2, 3>>)>>,
                <<Interception(b_2, "a"), Arming(b_2), Seal(b_2)>>),
    ok015 |-> Built(man_2b,
                <<CaughtRow("XA1", <<1>>), CaughtRow("XA2", <<2>>), CleanRow("XB1", <<3, 4>>)>>,
                <<Interception(b_2b, "a"), Interception(b_2b, "b"), Arming(b_2b), Seal(b_2b)>>),
    ok016 |-> CaughtRun([CaughtRow("XA1", <<1>>) EXCEPT !.actualLayer = "none"],
                Interception(b_1, "a")) ]

AcceptFrom017 ==
  [ ok017 |-> Built(man_1, <<[CaughtRow("XA1", <<1, 2>>) EXCEPT !.method = "reconstructed"]>>,
                <<Examination(b_1, "a-to-b"), Interception(b_1, "a"), Seal(b_1)>>),
    \* 018 carries members of the predicate that no gate reads, 019 wrong keyids
    ok018 |-> CleanRun(Arming(b_1), Seal(b_1)),
    ok019 |-> CleanRun(Arming(b_1), Seal(b_1)),
    ok020 |-> CaughtRun(CaughtRow("XA1", <<1>>), SignedWith(Interception(b_1, "a"), NOKEY)),
    ok021 |-> CaughtRun(CaughtRow("XA1", <<1>>), Noted(Interception(b_1, "a"), "extraA")),
    ok022 |-> Built(man_1, <<CleanRow("XA1", <<1, 2, 3>>)>>,
                <<Noted(Arming(b_1), "vantage a"), Noted(Arming(b_1), "vantage b"), Seal(b_1)>>),
    ok023 |-> CleanRun(Noted(Arming(b_1), "embeddedVerificationKey"), Seal(b_1)),
    ok024 |-> Built(man_2b,
                <<CaughtRow("XA1", <<1>>), CaughtRow("XA2", <<2>>), ArtifactRow("XB1")>>,
                <<Interception(b_2b, "a"), SignedWith(Interception(b_2b, "b"), WRONG),
                  Seal(b_2b)>>),
    \* 025 carries disclaimers
    ok025 |-> CleanRun(Arming(b_1), Seal(b_1)) ]

NoCaught == [Defaults EXCEPT !.vocabulary = Vocab("none caught", {"egress_captured", "no_egress"}, {})]

\* A binding nothing derives, under records no substrate row reads.
unchecked == [b_1 EXCEPT !.runEntropy = "unchecked-binding"]

AcceptFrom026 ==
  [ ok026 |-> Built(man_2b2,
                <<CaughtRow("XA1", <<1>>), CaughtRow("XA2", <<2>>), CaughtRow("XB1", <<3>>),
                  CleanRow("XB2", <<4, 5>>)>>,
                <<Interception(b_2b2, "a"), Interception(b_2b2, "b"), Interception(b_2b2, "c"),
                  Arming(b_2b2), Seal(b_2b2)>>),
    ok027 |-> Recordless(man_1, <<[ArtifactRow("XA1") EXCEPT !.method = "absent"]>>),
    ok028 |-> MakeStatement(man_1, <<CleanRow("XA1", <<1, 2>>)>>,
                <<Arming(Binding(man_1, NoCaught)), Seal(Binding(man_1, NoCaught))>>, NoCaught),
    ok029 |-> MakeStatement(man_1, <<ArtifactRow("XA1")>>,
                <<Examination(unchecked, "a-to-b"), Examination(unchecked, "c-to-d")>>,
                [Defaults EXCEPT !.entropy = FALSE]),
    ok030 |-> Built(man_1, <<Row("XA1", "egress_captured", "substrate", "reconstructed", "none",
                                 <<1, 2, 3>>)>>,
                <<Examination(b_1, "a-to-b"), Interception(b_1, "a"),
                  [Interception(b_1, "b") EXCEPT !.payload.method = "reconstructed"], Seal(b_1)>>),
    ok031 |-> Built(man_1, <<Row("XA1", "egress_captured", "substrate", "reconstructed", "none",
                                 <<1>>)>>,
                <<Examination(b_1, "a-to-b"), Seal(b_1)>>),
    ok032 |-> Recordless(man_1, <<[ArtifactRow("XA1") EXCEPT !.method = "inferred"]>>),
    ok033 |-> MakeStatement(man_ab, <<ArtifactRow("XA1")>>, << >>,
                [SkippedXB EXCEPT !.entropy = FALSE]) ]

AcceptFrom034 ==
  [ ok034 |-> CleanRun([Arming(b_1) EXCEPT !.payload.runSeq = "first",
                          !.payload.chainScope = "wellFormed"], Seal(b_1)),
    ok035 |-> Built(man_1, <<CleanRow("XA1", <<1, 2, 3>>)>>,
                <<Arming(b_1), Seal(b_1),
                  Noted(Future(b_1, "aee-future-x", "reconstructed"), "signed reconstructed")>>),
    \* 036 nests a payload to the bound, 038 and 039 write UTC as -00:00
    ok036 |-> CleanRun(Noted(Arming(b_1), "aaDeep"), Seal(b_1)),
    ok038 |-> Recordless(man_1, <<ArtifactRow("XA1")>>),
    ok039 |-> CleanRun(Arming(b_1), Seal(b_1)) ]

\* A clean run under another posture object, which the binding hashes whole.
PosturedRun(posture) ==
  LET opts == [Defaults EXCEPT !.posture = posture]
      run  == Binding(man_1, opts)
  IN  MakeStatement(man_1, <<CleanRow("XA1", <<1, 2>>)>>, <<Arming(run), Seal(run)>>, opts)

AcceptFrom040 ==
  [ ok040 |-> PosturedRun(Posture("no_network")),
    ok041 |-> PosturedRun(Posture("allowlist")),
    ok042 |-> PosturedRun(Posture("unsafe_bypass_egress")),
    ok043 |-> PosturedRun([DEFAULT_POSTURE EXCEPT !.posture = "sinkhole, with a producerNote"]),
    ok044 |-> Recordless(man_1, <<[ArtifactRow("XA1") EXCEPT !.method = "intercepted"]>>),
    ok045 |-> Built(man_ab, <<CleanRow("XA1", <<1, 2>>), ArtifactRow("XB1")>>,
                <<Arming(b_ab), Seal(b_ab)>>),
    ok900 |-> MakeStatement(man_ab, <<[ArtifactRow("XA1") EXCEPT !.label = "egress_captured"]>>,
                << >>, [SkippedXB EXCEPT !.entropy = FALSE]),
    ok901 |-> Recordless(man_1, <<[ArtifactRow("XA1") EXCEPT !.basis = "absent"]>>),
    ok046 |-> Built(man_2, <<CaughtRow("XA1", <<1>>), CaughtRow("XA2", <<2>>)>>,
                <<Interception(b_2, "a"), Interception(b_2, "b"), Naming(Seal(b_2), {"XA1"})>>) ]

man_pin  == Corpus("man_pin", [XA |-> <<"XA1">>], Expected([XA1 |-> {"a"}]))
b_pin    == BindingOf(man_pin)
man_pin2 == Corpus("man_pin2", [XA |-> <<"XA1">>, XB |-> <<"XB1">>],
                   Expected([XA1 |-> {"a"}, XB1 |-> {"b"}]))
b_pin2   == BindingOf(man_pin2)
man_pin_multi == Corpus("man_pin_multi", [XA |-> <<"XA1">>, XB |-> <<"XB1">>],
                        Expected([XA1 |-> {"a", "a2"}, XB1 |-> {"b"}]))
b_pin_multi   == BindingOf(man_pin_multi)

AcceptFrom047 ==
  [ ok047 |-> Built(man_pin, <<Pinned(CaughtRow("XA1", <<1>>))>>,
                <<Interception(b_pin, "a"), Seal(b_pin)>>),
    ok048 |-> Built(man_pin, <<CaughtRow("XA1", <<1>>)>>,
                <<Interception(b_pin, "a"), Seal(b_pin)>>),
    ok049 |-> Built(man_1, <<CaughtRow("XA1", <<1>>)>>,
                <<Interception(b_1, "a"), Naming(Seal(b_1), {"XA1"})>>),
    ok050 |-> Built(man_1, <<CleanRow("XA1", <<1, 2, 3, 4>>)>>,
                <<Arming(b_1), Seal(b_1), Future(b_1, "moat-drop", "reconstructed"),
                  Future(b_1, "uncommitted-observation", "reconstructed")>>) ]

AcceptFrom051 ==
  [ ok051 |-> Built(man_pin2, <<Pinned(CaughtRow("XA1", <<1>>)), Pinned(CaughtRow("XB1", <<2>>))>>,
                <<Interception(b_pin2, "a"), Interception(b_pin2, "b"), Seal(b_pin2)>>),
    ok055 |-> Built(man_pin_multi,
                <<Pinned(CaughtRow("XA1", <<1, 2>>)), Pinned(CaughtRow("XB1", <<3>>))>>,
                <<Interception(b_pin_multi, "a"), Interception(b_pin_multi, "a2"),
                  Interception(b_pin_multi, "b"), Seal(b_pin_multi)>>) ]

\* One planted probe per channel, each pinned to its own expected payload.
man_live == Corpus("man_live", [XA |-> <<"XA1">>, XB |-> <<"XB1">>, XC |-> <<"XC1">>],
                   Expected([XA1 |-> {"channel a"}, XB1 |-> {"channel b"}, XC1 |-> {"channel c"}]))
b_live   == BindingOf(man_live)
ProbeRow(id, ref) == Pinned(CaughtRow(id, <<ref>>))

AcceptFrom052 ==
  [ ok052 |-> Built(man_live, <<ProbeRow("XA1", 1), ProbeRow("XB1", 2), ProbeRow("XC1", 3)>>,
                <<Interception(b_live, "channel a"), Interception(b_live, "channel b"),
                  Interception(b_live, "channel c"),
                  Naming(Seal(b_live), {"XA1", "XB1", "XC1"})>>),
    ok053 |-> Built(man_live,
                <<ProbeRow("XA1", 1), CleanRow("XB1", <<3, 4>>), ProbeRow("XC1", 2)>>,
                <<Interception(b_live, "channel a"), Interception(b_live, "channel c"),
                  Arming(b_live), Naming(Seal(b_live), {"XA1", "XC1"})>>),
    ok054 |-> CaughtRun(CaughtRow("XA1", <<1>>), Noted(Interception(b_1, "a"), "exampleFidelity")) ]

ReceiptA  == [Defaults EXCEPT !.subject = "admission-receipt-a"]
b_receipt_a == Binding(man_1, ReceiptA)
OtherSubstrate    == [Defaults EXCEPT !.substrate = "second-substrate-image"]
b_other_substrate == Binding(man_1, OtherSubstrate)

AcceptVate ==
  [ vate1b |-> MakeStatement(man_1, <<CleanRow("XA1", <<1, 2>>)>>,
                 <<Noted(Arming(b_receipt_a), "vateAdmissionDigest"), Seal(b_receipt_a)>>, ReceiptA),
    vate1d |-> MakeStatement(man_1, <<CleanRow("XA1", <<1, 2>>)>>,
                 <<Arming(b_receipt_a), Seal(b_receipt_a)>>, ReceiptA),
    vate2a |-> Built(man_2, <<CleanRow("XA1", <<1, 2>>), CleanRow("XA2", <<1, 2>>)>>,
                 <<Noted(Arming(b_2), "vateSideEffectAmounts"), Seal(b_2)>>),
    vate3b |-> CleanRun(Noted(Arming(b_1), "vateObservedRuntime"), Seal(b_1)),
    vate3c |-> MakeStatement(man_1, <<CleanRow("XA1", <<1, 2>>)>>,
                 <<Arming(b_other_substrate), Seal(b_other_substrate)>>, OtherSubstrate) ]

\* In the order they are written, and all of them.
AcceptTables ==
  << AcceptFrom001, AcceptFrom011, AcceptFrom017, AcceptFrom026, AcceptFrom034, AcceptFrom040,
     AcceptFrom047, AcceptFrom051, AcceptFrom052, AcceptVate >>

AcceptVectors == FoldLeft(LAMBDA vectors, table : vectors @@ table, << >>, AcceptTables)

=============================================================================
