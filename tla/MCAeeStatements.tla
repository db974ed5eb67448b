-------------------------- MODULE MCAeeStatements --------------------------
(***************************************************************************)
(* Statements for TLC: what an honest producer assembles from the records  *)
(* of one run, as aeetest.Build and the vector generators do, and the      *)
(* edits that lead away from it. Two attacks in two classes, one run and a *)
(* second one whose records may be carried beside it.                      *)
(***************************************************************************)
EXTENDS AeeResult, AeeRecords

ObservationKey == "substrateKey"
OtherKey     == "otherKey"

BindingOf(entropy) ==
  [ catchPolicy |-> "policy", corpus |-> "corpus",
    networkPosture |-> [digest |-> "pinned", registered |-> TRUE],
    observationVocabulary |-> "vocabulary", runEntropy |-> entropy,
    subject |-> "bundle", substrate |-> "image" ]

ThisRun  == BindingOf("entropy1")
OtherRun == BindingOf("entropy2")

----------------------------------------------------------------------------
(* Records *)

QuietSeal(run, leaves, named) == SealedPayload(run, "pinned", TRUE, 0, {}, leaves, named)

Arming       == Signed(ArmingPayload(ThisRun, "pinned", {"a1", "a2"}), {ObservationKey})
Interception == Signed(InterceptionPayload(ThisRun, "v1"), {ObservationKey})
Examination  == Signed(ExaminationPayload(ThisRun), {ObservationKey})
SealOver(recs, named) ==
  Signed(QuietSeal(ThisRun, {Leaf(recs[i]) : i \in DOMAIN recs}, named),
         {ObservationKey})

----------------------------------------------------------------------------
(* Statements *)

Refs(idx) == [form |-> "indexes", idx |-> idx]

Row(id, label, basis, method, attribution, layer, refs) ==
  [attackId |-> id, label |-> label, basis |-> basis, method |-> method,
   attribution |-> attribution, actualLayer |-> layer, refs |-> refs]

CleanRow(id, refs)  == Row(id, "clean", "substrate", "intercepted", "paired", "none", Refs(refs))
CaughtRow(id, refs) == Row(id, "caught", "substrate", "intercepted", "pinned", "egress", Refs(refs))
ExaminedRow(id, refs) == Row(id, "clean", "substrate", "reconstructed", "paired", "none", Refs(refs))
ArtifactRow(id) ==
  Row(id, "clean", "artifact", "reconstructed", "paired", "none", [form |-> "absent", idx |-> << >>])

Vocabulary ==
  [form |-> "object", labelsPresent |-> TRUE, caughtPresent |-> TRUE,
   canonical |-> TRUE, labels |-> {"clean", "caught"}, caught |-> {"caught"},
   digest |-> "vocabulary", hash |-> "vocabulary"]

Manifest ==
  [form |-> "object", canonicalizable |-> TRUE, hash |-> "corpus",
   classesPresent |-> TRUE,
   classes |-> [c \in {"c1", "c2"} |-> IF c = "c1" THEN <<"a1">> ELSE <<"a2">>],
   expected |-> [form |-> "map", wellFormed |-> TRUE,
                 values |-> [id \in {"a1"} |-> {"v1"}]]]

Environment ==
  [form |-> "object", substrate |-> "image", catchPolicy |-> "policy",
   runEntropy |-> "entropy1", posture |-> ThisRun.networkPosture,
   vocabulary |-> Vocabulary,
   corpus |-> [digest |-> "corpus", manifest |-> Manifest]]

\* A sequence written as a function, evaluated now: TLC's workers would
\* otherwise share the unevaluated one.
Now(f) == << >> \o f

Reroot(s) ==
  [s EXCEPT !.batchRoot = [form |-> IF NoRecords(s) THEN "absent" ELSE "root",
                           leaves |-> Now([i \in DOMAIN s.records |-> Leaf(s.records[i])])]]

\* A producer's last touch: the root and the result of what is carried.
Complete(s) == Reroot([s EXCEPT !.result = Recompute(s)])

Build(rows, records, assessed) ==
  Complete(
    [parses |-> TRUE, typeOK |-> TRUE, predicateTypeOK |-> TRUE,
     snakeCase |-> FALSE, result |-> "pass", env |-> Environment,
     coverage |-> [form |-> "object", assessed |-> assessed,
                   outOfScope |-> {"c1", "c2"} \ Elems(assessed),
                   routedElsewhere |-> {}],
     rowsForm |-> "array", rows |-> rows,
     recordsForm |-> IF records = << >> THEN "absent" ELSE "array",
     records |-> records,
     batchRoot |-> [form |-> "absent", leaves |-> << >>],
     subject |-> [count |-> 1, sha256 |-> "bundle"], issuedAt |-> "wellFormed"])

HonestClean ==
  Build(<<CleanRow("a1", <<1, 2>>), CleanRow("a2", <<1, 2>>)>>,
        <<Arming, SealOver(<< >>, {})>>, <<"c1", "c2">>)
HonestCaught ==
  Build(<<CaughtRow("a1", <<2>>), CleanRow("a2", <<1, 3>>)>>,
        <<Arming, Interception, SealOver(<<Interception>>, {"a1"})>>, <<"c1", "c2">>)
HonestExamined ==
  Build(<<ExaminedRow("a1", <<1>>)>>,
        <<Examination, SealOver(<<Examination>>, {})>>, <<"c1">>)
HonestArtifact ==
  Build(<<ArtifactRow("a1"), ArtifactRow("a2")>>, << >>, <<"c1", "c2">>)

\* Every class out of scope: nothing was run, and no row says so.
HonestSkipped == Build(<< >>, << >>, << >>)

HonestBase == {HonestClean, HonestCaught, HonestExamined, HonestArtifact, HonestSkipped}

----------------------------------------------------------------------------
(* Edits of the rows, the coverage and the record set *)

\* Drop one element; the indexes above it move down.
Without(seq, k) ==
  Now([i \in 1..(Len(seq) - 1) |-> IF i < k THEN seq[i] ELSE seq[i + 1]])

RefsWithout(refs, k) ==
  LET kept == SelectSeq(refs.idx, LAMBDA i : i # k) IN
  [refs EXCEPT !.idx = Now([j \in DOMAIN kept |-> IF kept[j] > k THEN kept[j] - 1 ELSE kept[j]])]

DropRecord(s, k) ==
  LET kept == Without(s.records, k) IN
  [s EXCEPT !.records = kept,
            !.recordsForm = IF kept = << >> THEN "absent" ELSE @,
            !.rows = Now([i \in DOMAIN s.rows |->
                            [s.rows[i] EXCEPT !.refs = RefsWithout(@, k)]])]

AddRecord(s, rec) ==
  [s EXCEPT !.records = Append(@, rec), !.recordsForm = "array"]

\* Records a producer may hold beside the ones of an honest statement.
SpareRecords ==
  { Signed(QuietSeal(OtherRun, {}, {}), {ObservationKey}),
    Signed(QuietSeal(ThisRun, {}, {}), {OtherKey}),
    Signed([QuietSeal(ThisRun, {}, {}) EXCEPT !.stillArmed = "false"],
           {ObservationKey}),
    Signed(InterceptionPayload(ThisRun, "v2"), {ObservationKey}),
    Signed(ExaminationPayload(ThisRun), {OtherKey}),
    Signed(ArmingPayload(OtherRun, "drifted", {"a1", "a2"}), {ObservationKey}),
    Signed([InterceptionPayload(ThisRun, "v1") EXCEPT !.canonical = FALSE],
           {ObservationKey}),
    Signed([BlankPayload EXCEPT !.kind = "moat-drop", !.method = "intercepted",
              !.runBinding = {ThisRun}], {ObservationKey}) }

RowEdits(row, records) ==
  {[row EXCEPT !.label = l] : l \in {"clean", "caught", "stray"}}
    \cup {[row EXCEPT !.basis = b] : b \in {"substrate", "artifact", "absent"}}
    \cup {[row EXCEPT !.method = m] : m \in {"intercepted", "reconstructed", "absent"}}
    \cup {[row EXCEPT !.attribution = a] : a \in {"pinned", "paired", "absent"}}
    \cup {[row EXCEPT !.attackId = id] : id \in {"a1", "a2", "a3"}}
    \cup {[row EXCEPT !.actualLayer = l] : l \in {"none", "egress"}}
    \cup {[row EXCEPT !.refs = Refs(Append(@.idx, k))] : k \in 1..(Len(records) + 1)}
    \cup {[row EXCEPT !.refs = Refs(Without(@.idx, k))] : k \in DOMAIN row.refs.idx}

CoverageEdits(cov) ==
  {[cov EXCEPT !.assessed = a, !.outOfScope = o] :
     a \in {<<"c1">>, <<"c2">>, <<"c1", "c2">>, << >>}, o \in SUBSET {"c1", "c2"}}
    \cup {[cov EXCEPT !.routedElsewhere = {"c2"}]}

StructuralEdits(s) ==
  (UNION {{[s EXCEPT !.rows[i] = r] : r \in RowEdits(s.rows[i], s.records)}
            : i \in DOMAIN s.rows})
    \cup {[s EXCEPT !.rows = Without(@, i)] : i \in DOMAIN s.rows}
    \cup {[s EXCEPT !.coverage = c] : c \in CoverageEdits(s.coverage)}
    \cup {DropRecord(s, k) : k \in DOMAIN s.records}
    \cup {AddRecord(s, rec) : rec \in SpareRecords}

----------------------------------------------------------------------------
(* Faults of single members *)

PayloadEdits(p) ==
  { [p EXCEPT !.form = "notIJson"], [p EXCEPT !.form = "notObject"],
    [p EXCEPT !.canonical = FALSE], [p EXCEPT !.runBinding = {}],
    [p EXCEPT !.runBinding = {OtherRun}], [p EXCEPT !.kind = "absent"],
    [p EXCEPT !.kind = "unknown"], [p EXCEPT !.kind = "uncommitted-observation"],
    [p EXCEPT !.method = "absent"], [p EXCEPT !.method = "reconstructed"],
    [p EXCEPT !.method = "unknown"], [p EXCEPT !.posture = "drifted"],
    [p EXCEPT !.posture = "absent"] }
    \cup (IF p.kind # "arming" THEN {} ELSE
          { [p EXCEPT !.bindingVersion = "other"],
            [p EXCEPT !.bindingVersion = "implemented"],
            [p EXCEPT !.armedAt = "late"], [p EXCEPT !.armedAt = "malformed"],
            [p EXCEPT !.chainScope = "wellFormed"],
            [p EXCEPT !.runSeq = "first", !.chainScope = "wellFormed"],
            [p EXCEPT !.runSeq = "later", !.chainScope = "wellFormed",
                      !.prevRunBinding = "hex"],
            [p EXCEPT !.runSeq = "later", !.chainScope = "wellFormed"],
            [p EXCEPT !.assessed = Ids({"a1"})], [p EXCEPT !.assessed = Ids({"a3"})],
            [p EXCEPT !.assessed.form = "absent"] })
    \cup (IF p.kind # "sealed" THEN {} ELSE
          { [p EXCEPT !.stillArmed = "false"], [p EXCEPT !.stillArmed = "absent"],
            [p EXCEPT !.dropCount = {}], [p EXCEPT !.dropCount = {2}],
            [p EXCEPT !.dropCount = {2}, !.dropBound = {1}],
            [p EXCEPT !.dropCount = {2}, !.dropBound = {2}],
            [p EXCEPT !.dropCount = {-1}, !.dropBound = {2}],
            [p EXCEPT !.observedSet = {}], [p EXCEPT !.observedSet = {{}}],
            [p EXCEPT !.observedAttacks = Ids({"a2"})],
            [p EXCEPT !.observedAttacks.form = "unsortedArray"] })
    \cup (IF p.kind # "interception" THEN {} ELSE
          { [p EXCEPT !.commitment.form = f] : f \in {"absent", "mistyped", "malformed"} }
            \cup {[p EXCEPT !.commitment.values = {"v2"}]})

RecordEdits(rec) ==
  {[rec EXCEPT !.payload = p] : p \in PayloadEdits(rec.payload)}
    \cup {[rec EXCEPT !.jsonType = FALSE], [rec EXCEPT !.decodes = FALSE],
          [rec EXCEPT !.signedBy = {}], [rec EXCEPT !.signedBy = {OtherKey}],
          [rec EXCEPT !.signedBy = {ObservationKey, OtherKey}]}

EnvironmentEdits(env) ==
  { [env EXCEPT !.substrate = d] : d \in {"missing", "mistyped", "none", "noncanonical"} }
    \cup {[env EXCEPT !.catchPolicy = d] : d \in {"missing", "none", "noncanonical"}}
    \cup {[env EXCEPT !.runEntropy = d] : d \in {"missing", "none", "noncanonical"}}
    \cup {[env EXCEPT !.posture.digest = d] : d \in {"missing", "none", "noncanonical"}}
    \cup {[env EXCEPT !.posture.registered = FALSE]}
    \cup {[env EXCEPT !.vocabulary = [@ EXCEPT !.form = f, !.labels = {}, !.caught = {}]]
             : f \in {"absent", "mistyped"}}
    \cup {[env EXCEPT !.vocabulary.labelsPresent = FALSE, !.vocabulary.labels = {}],
          [env EXCEPT !.vocabulary.canonical = FALSE],
          [env EXCEPT !.vocabulary.caught = {"caught", "stray"}],
          [env EXCEPT !.vocabulary.caught = {}],
          [env EXCEPT !.vocabulary.digest = "stale"]}
    \cup {[env EXCEPT !.corpus.digest = d] : d \in {"missing", "none", "noncanonical", "stale"}}
    \cup {[env EXCEPT !.corpus.manifest.form = "absent",
                      !.corpus.manifest.classesPresent = FALSE,
                      !.corpus.manifest.classes = [c \in {} |-> << >>]],
          [env EXCEPT !.corpus.manifest.canonicalizable = FALSE],
          [env EXCEPT !.corpus.manifest.classes = [c \in {"c1"} |-> << >>]],
          [env EXCEPT !.corpus.manifest.classes["c2"] = <<"a1">>],
          [env EXCEPT !.corpus.manifest.expected.form = "mistyped"],
          [env EXCEPT !.corpus.manifest.expected.form = "absent"],
          [env EXCEPT !.corpus.manifest.expected.wellFormed = FALSE],
          [env EXCEPT !.corpus.manifest.expected.values = [id \in {"a1"} |-> {}]],
          [env EXCEPT !.corpus.manifest.expected.values = [id \in {"a3"} |-> {"v1"}]]}

\* An environment that is absent, or that is not an object: every member nil.
NoEnvironment(form) ==
  [Environment EXCEPT !.form = form, !.substrate = "missing",
     !.catchPolicy = "missing", !.runEntropy = "missing",
     !.posture.digest = "missing", !.corpus.digest = "missing",
     !.vocabulary = [@ EXCEPT !.form = "absent", !.labels = {}, !.caught = {}]]

MemberEdits(s) ==
  { [s EXCEPT !.parses = FALSE], [s EXCEPT !.typeOK = FALSE],
    [s EXCEPT !.predicateTypeOK = FALSE], [s EXCEPT !.snakeCase = TRUE],
    [s EXCEPT !.env = NoEnvironment("absent")],
    [s EXCEPT !.env = NoEnvironment("mistyped")],
    [s EXCEPT !.coverage.form = "absent"], [s EXCEPT !.coverage.form = "mistyped"],
    [s EXCEPT !.rowsForm = "absent", !.rows = << >>],
    [s EXCEPT !.recordsForm = "array", !.records = << >>],
    [s EXCEPT !.recordsForm = "absent", !.records = << >>],
    [s EXCEPT !.recordsForm = "mistyped", !.records = << >>],
    [s EXCEPT !.batchRoot = [form |-> "absent", leaves |-> << >>]],
    [s EXCEPT !.batchRoot = [form |-> "root", leaves |-> << >>]],
    [s EXCEPT !.subject.count = 0], [s EXCEPT !.subject.count = 2],
    [s EXCEPT !.subject.sha256 = "none"], [s EXCEPT !.subject.sha256 = "noncanonical"],
    [s EXCEPT !.issuedAt = "absent"], [s EXCEPT !.issuedAt = "malformed"] }
    \cup {[s EXCEPT !.result = r] : r \in ResultTokens \cup {"absent", "unknown", "mistyped"}}
    \cup {[s EXCEPT !.env = e] : e \in EnvironmentEdits(s.env)}
    \cup (UNION {{[s EXCEPT !.records[i] = r] : r \in RecordEdits(s.records[i])}
                   : i \in DOMAIN s.records})
    \cup {[s EXCEPT !.records = Append(@, @[i])] : i \in DOMAIN s.records}
    \cup {[s EXCEPT !.rows[i].refs.form = f] : i \in DOMAIN s.rows, f \in {"absent", "malformed"}}
    \cup {[s EXCEPT !.rows[i].actualLayer = "absent"] : i \in DOMAIN s.rows}
    \cup {[s EXCEPT !.rows[i].attribution = "mistyped"] : i \in DOMAIN s.rows}

\* Each edited statement as it stands, and as a producer would finish it.
Completed(set) == set \cup {Complete(s) : s \in set}

\* The records of this run, issued again for the run the statement describes.
Rebound(s) ==
  LET again(rec) == IF rec.payload.runBinding = {ThisRun}
                    THEN [rec EXCEPT !.payload.runBinding = {RunBinding(s)}] ELSE rec
  IN  Complete([s EXCEPT !.records = Now([i \in DOMAIN s.records |-> again(s.records[i])])])

OneEdit(base)   == UNION {StructuralEdits(s) \cup MemberEdits(s) : s \in base}
TwoStructural(base) == UNION {StructuralEdits(t) : t \in UNION {StructuralEdits(s) : s \in base}}

=============================================================================
