---------------------------- MODULE MCVectorSuite ----------------------------
(***************************************************************************)
(* The harness over the committed corpus, under the two rails of the       *)
(* repository; over four vectors of it, under rails that answer anything   *)
(* on one vector or on the indeterminate family; and over those four with  *)
(* a fault in the manifest or on the disk.                                 *)
(***************************************************************************)
EXTENDS VectorSuite, VectorReplay

----------------------------------------------------------------------------
(* Suites *)

File(id) == <<"statements", id>>

\* A suite whose files are all on disk.
OnDisk(name, rows, statements, directories) ==
  [ name |-> name, rows |-> rows, counts |-> {CountsOf(rows)}, statements |-> statements,
    onDisk |-> {rows[i].file : i \in DOMAIN rows}, directories |-> directories ]

\* The suite of some tables.
SuiteOf(name, accept, reject, indeterminate, directories) ==
  The({OnDisk(name, rows, statements, directories) :
         rows \in {GenManifest(accept, reject, indeterminate)},
         statements \in {StatementsOf(accept, reject \o indeterminate)}})

Suite(name, accepts, rejects, directories) ==
  The({SuiteOf(name, accept, reject, indeterminate, directories) :
         accept \in {accepts}, reject \in {rejects},
         indeterminate \in {Rejects!IndeterminateTables}})

Committed ==
  Suite("committed", AcceptTables, Rejects!RejectTables,
        {"statements", "accept", "reject", "indeterminate", "keys"})

Few ==
  Suite("few", <<Restrict(AcceptFrom017, {"ok024"})>>,
        <<Restrict(Rejects!ResultVectors, {"bad002"})>>, {"statements"})

Without(statements, id) == Restrict(statements, DOMAIN statements \ {id})

\* The suite with one more row, and a statement for it.
WithRow(few, row) ==
  OnDisk(few.name, Append(few.rows, row), few.statements @@ [bad003 |-> few.statements.bad002],
         few.directories)

Faulty(few) ==
  LET extra == [few.rows[2] EXCEPT !.id = "bad003", !.file = File("bad003")] IN
  [ unlisted   |-> [few EXCEPT !.onDisk = @ \cup {File("extra")}],
    missing    |-> [few EXCEPT !.onDisk = @ \ {File("ok024")}, !.statements = Without(@, "ok024")],
    unreadable |-> [few EXCEPT !.statements = Without(@, "bad002")],
    crashing   |-> [few EXCEPT !.statements = Without(@, "ind002")],
    miscounted |-> [few EXCEPT !.counts = {[The(@) EXCEPT !.accept = 2]}],
    uncounted  |-> [few EXCEPT !.counts = {}],
    stray      |-> [few EXCEPT !.directories = @ \cup {"retired"}],
    hidden     |-> [few EXCEPT !.directories = @ \cup {"keys"}, !.onDisk = @ \cup {<<"keys", "k">>}],
    \* A retired directory that is named for a kind.
    beside     |-> [few EXCEPT !.directories = @ \cup {"reject"}, !.onDisk = @ \cup {<<"reject", "k">>}],
    spread     |-> [few EXCEPT !.rows[1].file = <<"accept", "ok024">>],
    listless   |-> [few EXCEPT !.rows = << >>],
    unscored   |-> WithRow(few, [extra EXCEPT !.kind = "undecided"]),
    acceptless |-> OnDisk(few.name, Tail(few.rows), few.statements, few.directories),
    twice      |-> WithRow(few, [extra EXCEPT !.id = "bad002", !.file = File("bad002")]),
    \* A second row declares the file of another; its own is on disk.
    shared     |-> [WithRow(few, [extra EXCEPT !.file = File("bad002")])
                      EXCEPT !.onDisk = @ \cup {File("bad003")}] ]

FaultySuites(names) ==
  UNION {{few} \cup {[faulty[name] EXCEPT !.name = name] : name \in names, faulty \in {Faulty(few)}} :
           few \in {Few}}

FaultNames ==
  {"unlisted", "missing", "unreadable", "crashing", "miscounted", "uncounted", "stray", "hidden", "beside",
   "spread", "listless", "unscored", "acceptless", "twice"}

AllSuites    == FaultySuites(FaultNames) \cup {Committed}
RetiredSuite == FaultySuites({"beside"})

----------------------------------------------------------------------------
(* Rails. An erratic rail is named for what it answers as it likes. *)

Maybe(values) == {{}} \cup {{v} : v \in values}

AnswersWith(codes, results, tiers, primary) ==
  {[exit |-> e, report |-> r] : e \in {"valid", "invalid"},
     r \in {{}} \cup {{q} : q \in [verdict : Maybe({"valid", "invalid"}), codes : Maybe(codes),
                                   result : Maybe(results), tiers : Maybe(tiers),
                                   primaryCode : Maybe(primary)]}}

TwoFaults == {"record-undecodable", "record-signatures-empty"}

Anything(id) ==
  CASE id = "ok024"  -> AnswersWith({}, {"pass", "fail"},
                          {<<"attested", "unattested", "declared">>,
                           <<"unattested", "unattested", "declared">>}, {})
    [] id = "bad002" -> AnswersWith({{"result-recompute-mismatch"}},
                          {"pass"}, {<<"attested">>}, {})
    [] OTHER         -> {[exit |-> "invalid", report |-> {r}] : r \in
                           [verdict : {{"invalid"}}, codes : {{c} : c \in SUBSET TwoFaults},
                            result : {{}}, tiers : {{}}, primaryCode : Maybe(TwoFaults)]}

Erratic(name, id) == name = id \/ (name = "ind" /\ id \in {"ind001", "ind002"})

\* Without the key an erratic answer on the family is the right one.
MCAnswersOf(name, id, s, pass) ==
  IF Erratic(name, id) /\ (name # "ind" \/ pass = "pinned")
  THEN Anything(id) ELSE {GoAnswer(s, pass)}

RepositoryRails == {"reference", "go"}
MCRails         == RepositoryRails \cup {"ok024", "bad002", "ind", "incapable"}
MCCapable       == MCRails \ {"incapable"}

IsCorpus == suite.name = "committed"

\* The committed corpus is replayed under the rails of the repository. The
\* erratic rails are asked about the suite without a fault, and that of the
\* family about one with a fault beside it.
MCInit ==
  /\ Init
  /\ IsCorpus => rail \in RepositoryRails
  /\ rail \in {"ok024", "bad002"} => suite.name = "few"
  /\ rail = "ind" => suite.name \in {"few", "miscounted"}

\* Over the whole corpus every call answers in time.
InTime == IsCorpus => NoAnswer \notin reply'.pinned \cup reply'.bare
MCSpec == MCInit /\ [][Next /\ InTime]_vars /\ WF_vars(Step)

----------------------------------------------------------------------------
(* Properties of the corpus *)

\* The reference rail emits on a vector the codes the corpus declares for it and
\* no others, as observed-code-closure-gate.py asks.
EmitsOnlyDeclared ==
  IsCorpus /\ rail = "reference" /\ scores # << >> =>
    LET observed == scores[Len(scores)].codes
        e        == ExpectedOf(scores[Len(scores)].id)
    IN  Unpinned(e, observed) = {} /\ Dead(e, observed) = {}

\* Every committed vector conforms under both rails of the repository, the
\* reference rail and the Go core behind its command line, and the reference
\* rail emits on it the codes the corpus declares for it and no others.
EveryVectorConforms ==
  /\ IsCorpus => Failed = {} /\ exit \subseteq {0}
  /\ EmitsOnlyDeclared

\* The generators wrote these vectors: their own reading of the rules, on a
\* statement before it is written, finds nothing in any accept vector, any
\* parent or any derived vector beside what it is about.
GeneratorsWroteTheCorpus ==
  IsCorpus /\ rail = "reference" =>
    \A row \in {scores[i] : i \in {Len(scores)} \ {0}} :
      \A s \in {suite.statements[row.id]} : GeneratorFaults(row.kind, row.id, s) = {}

\* What the tables of the corpus claim of each other before any run: no clause
\* names a vector that is not built, the vectors about signatures show their
\* signers, and the reference rail passes its self-test.
ASSUME CorpusIsClosed == ClausesAreClaimed /\ ShownSigners /\ SelfTest!SelfTestPasses

=============================================================================
