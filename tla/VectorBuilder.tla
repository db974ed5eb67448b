---------------------------- MODULE VectorBuilder ----------------------------
(***************************************************************************)
(* The builders the committed vectors are made with: the helpers of        *)
(* vectors/accept/gen_valid_vectors.py, which the reject generator imports,*)
(* and the reseals of vectors/reject/gen_invalid_vectors.py.               *)
(*                                                                         *)
(* A vector is data to the decoded statement's own abstraction: an attack, *)
(* a class and a note are names, a digest is the name of what it hashes, a *)
(* reference counts from 1, and a member no gate reads is left out unless  *)
(* it tells two leaves apart.                                              *)
(***************************************************************************)
EXTENDS AeeRecords, SequencesExt

\* derive_key: the keys of the roles that sign records, and a signature that
\* verifies under none of them.
SUB   == "substrate-observation-test"
WRONG == "wrong-signer-test"
NOKEY == "no key"

----------------------------------------------------------------------------
(* The environment *)

\* corpus_obj: a corpus object under its name, which stands for its digest.
Corpus(name, classes, expected) ==
  [ digest |-> name,
    manifest |-> [form |-> "object", canonicalizable |-> TRUE, hash |-> name,
                  classesPresent |-> TRUE, classes |-> classes, expected |-> expected] ]

NoExpected       == [form |-> "absent", wellFormed |-> TRUE, values |-> << >>]
Expected(values) == [form |-> "map", wellFormed |-> TRUE, values |-> values]

\* vocab_obj
Vocab(name, labels, caught) ==
  [form |-> "object", labelsPresent |-> TRUE, caughtPresent |-> TRUE, canonical |-> TRUE,
   labels |-> labels, caught |-> caught, digest |-> name, hash |-> name]

DEFAULT_VOCAB == Vocab("vocabulary", {"egress_captured", "no_egress"}, {"egress_captured"})

EGRESS_POSTURES == {"no_network", "allowlist", "sinkhole", "unsafe_bypass_egress"}

Posture(token) ==
  [digest |-> "posture", registered |-> token \in EGRESS_POSTURES, posture |-> token]

DEFAULT_POSTURE == Posture("sinkhole")

\* The options of make_statement, as a call that names none leaves them.
Defaults ==
  [ assessed |-> {}, outOfScope |-> {}, routedElsewhere |-> {}, vocabulary |-> DEFAULT_VOCAB,
    entropy |-> TRUE, posture |-> DEFAULT_POSTURE, subject |-> "subject",
    substrate |-> "substrate" ]

\* run_binding, over the inputs a statement built with these options carries.
Binding(corpus, opts) ==
  [ catchPolicy |-> "catch-policy", corpus |-> corpus.digest,
    networkPosture |-> opts.posture, observationVocabulary |-> opts.vocabulary.digest,
    runEntropy |-> "run-entropy", subject |-> opts.subject, substrate |-> opts.substrate ]

BindingOf(corpus) == Binding(corpus, Defaults)

----------------------------------------------------------------------------
(* Records *)

\* make_record, for each kind. A new seal commits to some set, a new arming to a
\* declaration not yet made: Finalize gives both their values.
Interception(run, note) ==
  Signed([InterceptionPayload(run, note) EXCEPT !.producer = note], {SUB})
Arming(run) ==
  Signed([ArmingPayload(run, "posture", {}) EXCEPT !.assessed.form = "pending"], {SUB})
Seal(run) ==
  Signed(SealedPayload(run, "posture", TRUE, 0, {}, {}, {}), {SUB})
Examination(run, note) ==
  Signed([ExaminationPayload(run) EXCEPT !.producer = note], {SUB})
Future(run, kind, method) ==
  Signed([BlankPayload EXCEPT !.kind = kind, !.method = method, !.runBinding = {run}], {SUB})

Naming(seal, ids)     == [seal EXCEPT !.payload.observedAttacks = Ids(ids)]
Noted(rec, note)      == [rec EXCEPT !.payload.producer = note]
SignedWith(rec, key)  == [rec EXCEPT !.signedBy = {key}]

\* observed_set_digest: over what a lenient loader reads, where the rails read
\* I-JSON.
LoadedKind(rec) == IF rec.payload.form = "notObject" THEN "absent" ELSE rec.payload.kind
ObservedSetOf(records) ==
  {Leaf(rec) : rec \in {r \in Elems(records) : LoadedKind(r) \in {"interception", "examination"}}}

\* finalize_records: the set of every seal that carries one, and an arming's
\* declaration.
Finalize(records, declared) ==
  LET observed == ObservedSetOf(records)
      final(rec) ==
        IF LoadedKind(rec) = "sealed" /\ rec.payload.observedSet # {}
        THEN [rec EXCEPT !.payload.observedSet = {observed}]
        ELSE IF rec.payload.assessed.form = "pending"
        THEN [rec EXCEPT !.payload.assessed = Ids(declared)]
        ELSE rec
  IN  << >> \o [i \in DOMAIN records |-> final(records[i])]

\* rfc6962_root over the PAE of every record.
RootOf(records) ==
  [form |-> IF records = << >> THEN "absent" ELSE "root",
   leaves |-> << >> \o [i \in DOMAIN records |-> Leaf(records[i])]]

----------------------------------------------------------------------------
(* Rows and statements *)

\* make_row
Row(id, label, basis, method, layer, refs) ==
  [attackId |-> id, label |-> label, basis |-> basis, method |-> method,
   attribution |-> "paired", actualLayer |-> layer,
   refs |-> [form |-> "indexes", idx |-> refs]]

CleanRow(id, refs)    == Row(id, "no_egress", "substrate", "intercepted", "none", refs)
CaughtRow(id, refs)   ==
  Row(id, "egress_captured", "substrate", "intercepted", "policy.egress_sinkhole", refs)
ExaminedRow(id, refs) == Row(id, "no_egress", "substrate", "reconstructed", "none", refs)
ArtifactRow(id)       == Row(id, "no_egress", "artifact", "reconstructed", "none", << >>)
Pinned(row)           == [row EXCEPT !.attribution = "pinned"]

RESULT_ORDER == [fail |-> 0, degraded |-> 1, pass_indirect |-> 2, pass |-> 3]

\* carried_result of make_statement: the generator's own reading of the rule.
CarriedResult(rows, vocabulary, unassessed) ==
  LET ForcesFail(row) ==
        \/ row.label \in vocabulary.caught \/ row.label \notin vocabulary.labels
        \/ row.basis \notin {"substrate", "artifact"}
        \/ row.method \notin {"intercepted", "reconstructed"}
        \/ row.attribution \notin {"pinned", "paired"}
      Indirect(row) == row.basis # "substrate" \/ row.method # "intercepted"
      candidates ==
        {"pass"} \cup When(\E row \in rows : ForcesFail(row), "fail")
          \cup When(unassessed # {}, "degraded")
          \cup When(\E row \in rows : ~ForcesFail(row) /\ Indirect(row), "pass_indirect")
  IN  CHOOSE v \in candidates : \A w \in candidates : RESULT_ORDER[v] <= RESULT_ORDER[w]

\* make_statement
ManifestAttacks(corpus) ==
  UNION {Elems(corpus.manifest.classes[c]) : c \in DOMAIN corpus.manifest.classes}

MakeStatement(corpus, rows, records, opts) ==
  LET classes  == corpus.manifest.classes
      final    == Finalize(records, ManifestAttacks(corpus))
      skipped  == opts.outOfScope \cup opts.routedElsewhere
  IN [ parses |-> TRUE, typeOK |-> TRUE, predicateTypeOK |-> TRUE, snakeCase |-> FALSE,
       result |-> CarriedResult(Elems(rows), opts.vocabulary, skipped),
       env |-> [form |-> "object", substrate |-> opts.substrate, corpus |-> corpus,
                catchPolicy |-> "catch-policy", posture |-> opts.posture,
                vocabulary |-> opts.vocabulary,
                runEntropy |-> IF opts.entropy THEN "run-entropy" ELSE "missing"],
       coverage |-> [form |-> "object",
                     assessed |-> SetToSeq(IF opts.assessed = {} THEN DOMAIN classes
                                           ELSE opts.assessed),
                     outOfScope |-> opts.outOfScope,
                     routedElsewhere |-> opts.routedElsewhere],
       rowsForm |-> "array", rows |-> rows,
       recordsForm |-> IF records = << >> THEN "absent" ELSE "array",
       records |-> final, batchRoot |-> RootOf(final),
       subject |-> [count |-> 1, sha256 |-> opts.subject], issuedAt |-> "wellFormed" ]

Built(corpus, rows, records) == MakeStatement(corpus, rows, records, Defaults)

\* A statement without a run: artifact rows only, no entropy, no records.
Recordless(corpus, rows) ==
  MakeStatement(corpus, rows, << >>, [Defaults EXCEPT !.entropy = FALSE])

----------------------------------------------------------------------------
(* What a mutation leaves to be derived again (gen_invalid_vectors.py) *)

\* reseal: a record whose value changes is signed again.
Reseal(s) ==
  LET final == Finalize(s.records, ManifestAttacks(s.env.corpus)) IN
  [s EXCEPT !.records = << >> \o [i \in DOMAIN final |->
     IF final[i] = s.records[i] THEN s.records[i] ELSE SignedWith(final[i], SUB)]]

\* merkle_root over what is carried; and reroot, which seals first.
Rooted(s)  == [s EXCEPT !.batchRoot = RootOf(s.records)]

\* MUTANT of Reroot: the seals keep committing to what was carried before.
RerootUnsealed(s) == Rooted(s)

Reroot(s)  == Rooted(Reseal(s))

\* rebind_records, which derives the run again from what the statement now
\* carries; _rebind_no_reseal leaves the seals to what they commit to.
Rebound(s) ==
  [s EXCEPT !.records = << >> \o [i \in DOMAIN s.records |->
     SignedWith([s.records[i] EXCEPT !.payload.runBinding = {RunBinding(s)}], SUB)]]
RebindRecords(s)  == Reroot(Rebound(s))
RebindNoReseal(s) == Rooted(Rebound(s))

\* The statement with one more record, and with its records replaced.
WithRecord(s, rec)   == [s EXCEPT !.records = Append(@, rec)]
WithRecords(s, recs) == [s EXCEPT !.records = recs]

=============================================================================
