---------------------------- MODULE RailSelfTest ----------------------------
(***************************************************************************)
(* The self-test of the reference rail (self_test of packaging/            *)
(* run_vectors.py): one statement the rail must accept, and that statement *)
(* changed in one way and derived again nowhere, with the codes it must    *)
(* and must not answer. The known answers of the primitives (Ed25519, the  *)
(* order of UTF-16 strings, base64) are outside the abstraction.           *)
(***************************************************************************)
EXTENDS VectorBuilder

Rail == INSTANCE ReferenceRail

\* _selftest_build
SelfTestBase ==
  LET corpus == Corpus("self-test", [XA |-> <<"XA1", "XA2">>], NoExpected)
      run    == BindingOf(corpus)
  IN  Built(corpus, <<CaughtRow("XA1", <<3>>), CleanRow("XA2", <<1, 2>>)>>,
            <<Arming(run), Naming(Seal(run), {"XA1"}), Interception(run, "synthetic")>>)

\* A statement, the codes it must answer and those it must not.
Case(s, codes, not) == [statement |-> s, codes |-> codes, not |-> not]

Undecodable(rec) == [rec EXCEPT !.decodes = FALSE]

MutationCases ==
  LET s   == SelfTestBase
      rec == s.records[1]
      voc == s.env.vocabulary
  IN { Case([s EXCEPT !.result = "pass"], {"result-recompute-mismatch"}, {}),
       Case([s EXCEPT !.batchRoot.leaves = << >>], {"batch-root-mismatch"}, {}),
       \* labels in the reverse order, and a label beyond the BMP
       Case([s EXCEPT !.env.vocabulary.canonical = FALSE], {"vocabulary-not-canonical"}, {}),
       Case([s EXCEPT !.env.vocabulary = [Vocab("astral", voc.labels \cup {"astral"}, voc.caught)
                                            EXCEPT !.canonical = FALSE]],
            {"vocabulary-not-canonical"}, {"vocabulary-digest-mismatch"}),
       Case([s EXCEPT !.rows[1].refs.idx = <<1>>], {"caught-row-uncovered"}, {}),
       Case([s EXCEPT !.rows[1].method = "examined"], {"fail-closed-substrate-row"}, {}),
       Case([s EXCEPT !.env.runEntropy = "missing"], {"run-entropy-missing"}, {"run-binding-mismatch"}),
       Case([s EXCEPT !.rows[2].refs.idx = <<8>>], {"ref-out-of-range"}, {}),
       Case([s EXCEPT !.records = @ \o <<rec, Undecodable(rec)>>],
            {"record-undecodable", "duplicate-record"}, {}),
       Case([s EXCEPT !.records = @ \o <<Undecodable(rec), Undecodable(rec)>>],
            {"record-undecodable"}, {"duplicate-record"}),
       Case([s EXCEPT !.parses = FALSE], {"statement-malformed"}, {}) }

\* The rail's answers with and without its key, and with one record under a key
\* of no policy: a tier moves, the verdict and the result do not.
SelfTestPasses ==
  LET base  == Rail!Outcome(SelfTestBase, {SUB})
      bare  == Rail!Outcome(SelfTestBase, {})
      other == Rail!Outcome([SelfTestBase EXCEPT !.records[3] = SignedWith(@, WRONG)], {SUB})
  IN /\ base.verdict = "valid" /\ base.result = "fail" /\ bare.result = base.result
     /\ base.tiers = <<"attested", "attested">> /\ bare.tiers = <<"unattested", "unattested">>
     /\ other.verdict = "valid" /\ other.tiers = <<"unattested", "attested">>
     /\ \A case \in MutationCases :
          /\ case.codes \subseteq Rail!Codes(case.statement)
          /\ case.not \cap Rail!Codes(case.statement) = {}

=============================================================================
