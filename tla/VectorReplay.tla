---------------------------- MODULE VectorReplay ----------------------------
(***************************************************************************)
(* The committed corpus as the harness meets it: the MANIFEST that         *)
(* vectors/gen_manifest.py derives from the indexes of the generators, the *)
(* answers of the two rails (cmd/aee-verify over the Go core, and the      *)
(* reference rail) on every vector, the second-fault self-check of         *)
(* packaging/run_vectors.py, and the gate that holds the reference rail to *)
(* the codes the corpus declares (scripts/observed-code-closure-gate.py).  *)
(***************************************************************************)
EXTENDS AcceptVectors, AeeResult, GeneratorChecks

AcceptVector(id) == AcceptVectors[id]
Rejects   == INSTANCE CarriedVectors WITH P <- AcceptVector
Reference == INSTANCE ReferenceRail
SelfTest  == INSTANCE RailSelfTest

----------------------------------------------------------------------------
(* The manifest (vectors/gen_manifest.py) *)

TIER_EXPECTATIONS ==
  [ ok019 |-> [with |-> <<"attested">>,   without |-> <<"unattested">>],
    ok020 |-> [with |-> <<"unattested">>, without |-> <<"unattested">>],
    ok023 |-> [with |-> <<"attested">>,   without |-> <<"unattested">>],
    ok024 |-> [with    |-> <<"attested", "unattested", "declared">>,
               without |-> <<"unattested", "unattested", "declared">>],
    ok029 |-> [with |-> <<"declared">>,   without |-> <<"declared">>],
    ok045 |-> [with |-> <<"attested", "declared">>, without |-> <<"unattested", "declared">>] ]

AsExpected(verdict) ==
  [ verdict |-> {verdict}, result |-> {}, tierWithPinnedKey |-> {}, tierWithoutKey |-> {},
    codes |-> {}, alsoCarries |-> {}, alsoEmits |-> {}, family |-> {}, readings |-> << >> ]

Declared(clauses, id) == IF id \in DOMAIN clauses THEN clauses[id] ELSE {}

\* entries: the three indexes of the generators, in their order.
AcceptExpectation(id, vector) ==
  LET tiers == When(id \in DOMAIN TIER_EXPECTATIONS, id) IN
  [AsExpected("valid") EXCEPT !.result = {vector.result},
     !.tierWithPinnedKey = {TIER_EXPECTATIONS[t].with : t \in tiers},
     !.tierWithoutKey    = {TIER_EXPECTATIONS[t].without : t \in tiers}]

RejectExpectation(id, vector) ==
  [AsExpected("invalid") EXCEPT !.codes = vector.codes,
     !.alsoCarries = Declared(Rejects!AlsoCarries, id), !.alsoEmits = Declared(Rejects!AlsoEmits, id)]

\* indeterminate_entries
IndeterminateExpectation(id, vector) ==
  [AsExpected("invalid") EXCEPT !.family = {"signature-count-vs-payload-decode"},
     !.readings = vector.readings, !.alsoEmits = Declared(Rejects!AlsoEmits, id)]

ManifestRow(kind, id, expected) ==
  [id |-> id, kind |-> kind, file |-> <<"statements", id>>, expected |-> expected]

Expectation(kind, id, vector) ==
  CASE kind = "accept" -> AcceptExpectation(id, vector)
    [] kind = "reject" -> RejectExpectation(id, vector)
    [] kind = "indeterminate" -> IndeterminateExpectation(id, vector)

\* main: the rows of every table of one kind, then those of the next.
Listing(kind, tables) ==
  FoldLeft(LAMBDA seq, table :
             seq \o FoldSet(LAMBDA id, some :
                              Append(some, ManifestRow(kind, id, Expectation(kind, id, table[id]))),
                            << >>, DOMAIN table),
           << >>, tables)

GenManifest(accept, reject, indeterminate) ==
  Listing("accept", accept) \o Listing("reject", reject)
    \o Listing("indeterminate", indeterminate)

CountsOf(listed) ==
  [kind \in {listed[i].kind : i \in DOMAIN listed} |->
     Cardinality({i \in DOMAIN listed : listed[i].kind = kind})]

\* What the vectors of these tables say, by the name of their file.
StatementsOf(accept, reject) ==
  FoldLeft(LAMBDA all, table : all @@ table, << >>, accept)
    @@ FoldLeft(LAMBDA all, table : all @@ [id \in DOMAIN table |-> table[id].statement],
                << >>, reject)

----------------------------------------------------------------------------
(* The two rails *)

PinnedKey == {SUB}
Keyed(pass) == IF pass = "pinned" THEN PinnedKey ELSE {}

\* Of a set of codes the first in the order they are asked: Go asks for the
\* signatures of every record before it decodes any.
PrimaryCode(codes) ==
  IF codes = {} THEN {}
  ELSE IF "record-signatures-empty" \in codes THEN {"record-signatures-empty"}
  ELSE {CHOOSE code \in codes : TRUE}

\* run of cmd/aee-verify: with a policy the exit status is the admission. The
\* members Go's encoder omits when they are empty are absent.
GoAnswer(s, pass) ==
  LET policy == [keys |-> Keyed(pass), expectedCorpus |-> "none", expectedSubstrate |-> "none"]
      r == Verify(s, policy)
      passed == IF pass = "pinned" THEN r.admitted ELSE r.verdict = "valid"
  IN [ exit   |-> IF passed THEN "valid" ELSE "invalid",
       report |-> {[ verdict     |-> {r.verdict},
                     codes       |-> {c \in {r.codes} : c # {}},
                     result      |-> {v \in {r.result} : v # "absent"},
                     tiers       |-> {t \in {r.tiers} : t # << >>},
                     primaryCode |-> PrimaryCode(r.codes) ]} ]

\* _run_observe, for the reference rail: one verifier has the pinned key, the
\* other none.
ObservedByReference(s) ==
  LET with    == Reference!Outcome(s, PinnedKey)
      without == Reference!Outcome(s, {})
      some(v) == When(with.verdict = "valid", v)
  IN [ verdict |-> with.verdict, verdictWithoutKey |-> without.verdict, codes |-> with.codes,
       primaryCode |-> PrimaryCode(with.codes),
       result |-> some(with.result), tiersWithKey |-> some(with.tiers),
       tiersWithoutKey |-> some(without.tiers), resultWithoutKey |-> some(without.result) ]

----------------------------------------------------------------------------
(* The second-fault self-check (second_fault_absence) *)

\* The codes of _CODE_REGISTRY that make a family's recompute meaningless.
FaultFamily ==
  LET named == {"records-absent", "refs-empty", "ref-malformed", "ref-out-of-range",
                "batch-root-missing"}
  IN [ root    |-> named \cup {"record-undecodable", "batch-root-mismatch",
                               "batch-root-orphaned", "duplicate-record"},
       vocab   |-> {"vocabulary-missing", "vocabulary-not-canonical",
                    "vocabulary-caught-not-subset", "vocabulary-digest-mismatch"},
       corpus  |-> {"environment-incomplete", "corpus-digest-mismatch",
                    "manifest-duplicate-attack"},
       binding |-> named \cup {"environment-incomplete", "posture-vocabulary",
                               "subject-cardinality", "subject-sha256-missing",
                               "run-entropy-missing", "digest-not-canonical",
                               "payload-not-canonical", "payload-not-ijson",
                               "payload-media-type", "payload-missing-reserved",
                               "run-binding-mismatch"} ]

\* _sfa_batch_root
BatchRootFault(s) ==
  /\ s.records # << >> /\ s.batchRoot.form = "root"
  /\ \/ \E i \in DOMAIN s.records : ~s.records[i].decodes
     \/ s.batchRoot.leaves # [i \in DOMAIN s.records |-> Leaf(s.records[i])]

\* _sfa_vocabulary
VocabularyFault(s) ==
  LET voc == s.env.vocabulary IN
  /\ s.env.form = "object" /\ voc.form = "object" /\ voc.labelsPresent /\ voc.caughtPresent
  /\ voc.digest # voc.hash

\* _sfa_corpus
CorpusFault(s) ==
  LET corpus == s.env.corpus IN
  /\ s.env.form = "object" /\ ~IsNil(corpus.digest) /\ corpus.manifest.form = "object"
  /\ ~corpus.manifest.canonicalizable \/ corpus.digest # corpus.manifest.hash

\* _sfa_binding: the readable records some row refers to name the derived run.
BindingFault(s) ==
  \E run \in Reference!DerivedBinding(s) : \E i \in DOMAIN s.rows :
    \E j \in Reference!ResolvedViews(s, s.rows[i]) :
      Reference!Readable(s.records[j]) /\ s.records[j].payload.runBinding # {run}

SecondFaultAbsence(s, codes) ==
  LET asked(family) == codes \cap FaultFamily[family] = {} IN
  When(asked("root") /\ BatchRootFault(s), "second fault: batch root")
    \cup When(asked("vocab") /\ VocabularyFault(s), "second fault: vocabulary")
    \cup When(asked("corpus") /\ CorpusFault(s), "second fault: corpus")
    \cup When(asked("binding") /\ BindingFault(s), "second fault: binding")

----------------------------------------------------------------------------
(* The generators write what their own checks pass (main of each) *)

\* PARENTS: the accept vectors the others are derived from.
PARENTS == {"ok001", "ok002", "ok003", "vate1d", "ok004", "ok031", "ok007", "ok008", "ok009",
            "ok030", "ok046", "ok011", "ok014", "ok029", "ok033", "ok045", "ok053"}

GeneratorFaults(kind, id, s) ==
  CASE kind = "accept" -> SelfVerify(s) \cup (IF id \in PARENTS THEN ParentFaults(s) ELSE {})
    [] OTHER -> GeneratorSecondFaults(id, s, Declared(Rejects!AlsoCarries, id))

\* The signers a reader is shown, of the two vectors about signatures.
ShownSigners ==
  /\ {"substrate-observation-test", "wrong-signer-test"} =
       {Signers(AcceptVectors["ok024"])[i] : i \in DOMAIN AcceptVectors["ok024"].records}
  /\ NOKEY \in {Signers(AcceptVectors["ok020"])[i] : i \in DOMAIN AcceptVectors["ok020"].records}

\* The clauses and the tier pins each name a vector that is built.
BuiltRejects == (UNION {DOMAIN Rejects!RejectTables[t] : t \in DOMAIN Rejects!RejectTables})
                  \cup DOMAIN Rejects!IndeterminateVectors

ClausesAreClaimed ==
  /\ DOMAIN Rejects!AlsoCarries \cup DOMAIN Rejects!AlsoEmits \subseteq BuiltRejects
  /\ PARENTS \cup DOMAIN TIER_EXPECTATIONS \subseteq DOMAIN AcceptVectors
  /\ DiscriminatingFamily({Rejects!IndeterminateVectors[id] : id \in DOMAIN Rejects!IndeterminateVectors})

----------------------------------------------------------------------------
(* The closure of the observed codes (observed-code-closure-gate.py) *)

\* declared_codes
DeclaredCodes(e) ==
  e.codes \cup e.alsoCarries \cup e.alsoEmits \cup {e.readings[r] : r \in DOMAIN e.readings}

\* Findings.visit: what the rail emits and nothing declares, and what it is
\* declared to emit and does not.
Unpinned(e, observed) == observed \ DeclaredCodes(e)
Dead(e, observed)     == e.alsoEmits \ observed

=============================================================================
