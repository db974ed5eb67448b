---------------------------- MODULE VectorSuite ----------------------------
(***************************************************************************)
(* The conformance harness: run_suite of packaging/run_vectors.py. It      *)
(* replays the vectors a MANIFEST lists under one rail, its own or an      *)
(* external program called twice per vector (with the pinned key and       *)
(* without any), scores every answer, and holds the manifest to what is on *)
(* disk.                                                                   *)
(*                                                                         *)
(* An optional value is a set of at most one element. A row of a manifest  *)
(* names its file by directory and base name, and a vector is known by     *)
(* that base name, whatever identifier its row bears. A suite holds the    *)
(* statements of the files that can be read. The wording of reasons and    *)
(* the gate columns are left out: a reason is a name.                      *)
(***************************************************************************)
EXTENDS Integers, Sequences, FiniteSets

CONSTANTS
  Suites,             \* suites: a manifest, and what is on the disk beside it
  Rails,              \* what --verifier may name
  Capable,            \* the rails the probe accepts
  AnswersOf(_, _, _, _), \* what a rail may answer on a vector, in a pass
  Observed(_),           \* what the reference rail observes of a statement
  SecondFaults(_, _)     \* the self-check of a statement against declared codes

\* What a directory and a manifest are: finitely many rows, each of one family
\* at most, and finitely many files, each in one of the directories.
WellFormed(s) ==
  /\ s.rows \in Seq({s.rows[i] : i \in DOMAIN s.rows})
  /\ \A i \in DOMAIN s.rows : LET family == s.rows[i].expected.family IN
       IsFiniteSet(family) /\ Cardinality(family) <= 1
  /\ \A counts \in s.counts : IsFiniteSet(DOMAIN counts)
  /\ IsFiniteSet(s.onDisk) /\ IsFiniteSet(s.directories)
  /\ s.onDisk \subseteq s.directories \X {file[2] : file \in s.onDisk}

ASSUME SuiteAssumption == \A s \in Suites : WellFormed(s)

VARIABLES suite, rail, pc, next, reply, scores, failures, exit, report

vars == <<suite, rail, pc, next, reply, scores, failures, exit, report>>

The(set) == CHOOSE x \in set : TRUE
Fault(condition, name) == IF condition THEN {name} ELSE {}

REPLAYED_KINDS        == {"accept", "indeterminate", "reject"}
SUITE_NON_VECTOR_DIRS == {"__pycache__", "keys", ".build"}

----------------------------------------------------------------------------
(* The manifest *)

ManifestRows == suite.rows
Elements     == {ManifestRows[i] : i \in DOMAIN ManifestRows}

\* manifest_index: of two rows with one identifier the later one is kept.
Index(id) ==
  LET named == {i \in DOMAIN ManifestRows : ManifestRows[i].id = id} IN
  {ManifestRows[i] : i \in {j \in named : \A k \in named : k <= j}}

VectorIds == {row.id : row \in Elements}

\* flat_layout
Directories == {The(Index(id)).file[1] : id \in VectorIds}
FlatLayout  == Cardinality(Directories) = 1 /\ Directories \cap REPLAYED_KINDS = {}
Flat        == The(Directories)

\* manifest_kinds
Listed(kind) == {id \in VectorIds : The(Index(id)).kind = kind}
ListedKinds  == {The(Index(id)).kind : id \in VectorIds}

NoExpectation ==
  [ verdict |-> {}, result |-> {}, tierWithPinnedKey |-> {}, tierWithoutKey |-> {},
    codes |-> {}, alsoCarries |-> {}, alsoEmits |-> {}, family |-> {}, readings |-> << >> ]

\* The expectation of a vector, by the base name of its file.
ExpectedOf(name) == IF name \in VectorIds THEN The(Index(name)).expected ELSE NoExpectation

Predicted(e) == {e.readings[r] : r \in DOMAIN e.readings}

----------------------------------------------------------------------------
(* One call of an external rail *)

\* external_failure
ExternalFailure ==
  [verdict |-> "error", codes |-> {}, result |-> {}, tiers |-> {}, primaryCode |-> {}]

\* A call that timed out or could not be started: no exit status, no report.
NoAnswer == [exit |-> "none", report |-> {}]

\* MUTANT of ExternalRecord: the exit status is held against the report under
\* a key policy too, where it states admission.
ExternalRecordBothPasses(r, exitVerdict, keyed) ==
  IF r.verdict \notin {{}, {exitVerdict}} THEN ExternalFailure
  ELSE [ verdict |-> IF r.verdict = {} THEN exitVerdict ELSE The(r.verdict),
         codes |-> UNION r.codes, result |-> r.result, tiers |-> r.tiers,
         primaryCode |-> r.primaryCode ]

\* external_record
ExternalRecord(r, exitVerdict, keyed) ==
  IF ~keyed /\ r.verdict \notin {{}, {exitVerdict}} THEN ExternalFailure
  ELSE [ verdict |-> IF r.verdict = {} THEN exitVerdict ELSE The(r.verdict),
         codes |-> UNION r.codes, result |-> r.result, tiers |-> r.tiers,
         primaryCode |-> r.primaryCode ]

\* parse_external: no line, a line that is no JSON object, or a member of the
\* wrong type leaves no report at all.
ParseExternal(answer, keyed) ==
  IF answer.report = {} THEN ExternalFailure
  ELSE ExternalRecord(The(answer.report), answer.exit, keyed)

\* observe_external
ObserveExternal(pinned, bare) ==
  LET with == ParseExternal(pinned, TRUE)
      without == ParseExternal(bare, FALSE)
  IN [ verdict |-> with.verdict, verdictWithoutKey |-> without.verdict,
       codes |-> with.codes, primaryCode |-> with.primaryCode, result |-> with.result,
       tiersWithKey |-> with.tiers, tiersWithoutKey |-> without.tiers,
       resultWithoutKey |-> without.result ]

----------------------------------------------------------------------------
(* The score of one vector *)

\* _eval_establishment. The errors of a call need no reason of their own: a
\* failed call leaves the verdict of its pass unestablished.
Established(o) == o.verdict \in {"valid", "invalid"}

EvalEstablishment(o) ==
  Fault(~Established(o), "verdict not established")
    \cup Fault(Established(o) /\ o.verdictWithoutKey # o.verdict, "verdict moves with the key")

\* MUTANT of EvalAcceptTiers: an unanswered column is a skipped check.
EvalAcceptTiersAnswered(e, o) ==
  Fault(e.tierWithPinnedKey # {} /\ o.tiersWithKey \notin {{}, e.tierWithPinnedKey},
       "tiers with key")
    \cup Fault(e.tierWithoutKey # {} /\ o.tiersWithoutKey \notin {{}, e.tierWithoutKey},
              "tiers without key")

\* _eval_accept_tiers, _eval_tier_result_invariance
EvalAcceptTiers(e, o) ==
  Fault(e.tierWithPinnedKey # {} /\ o.tiersWithKey # e.tierWithPinnedKey, "tiers with key")
    \cup Fault(e.tierWithoutKey # {} /\ o.tiersWithoutKey # e.tierWithoutKey,
              "tiers without key")
    \cup Fault(o.tiersWithKey # {} /\ o.result # {} /\ o.resultWithoutKey # o.result,
              "result moves with the key")

\* _eval_accept
EvalAccept(e, o) ==
  Fault(o.verdict # "valid", "expected valid")
    \cup Fault(o.verdict = "valid" /\ e.result # {} /\ o.result # e.result, "result")
    \cup EvalAcceptTiers(e, o)

\* What an invalid vector may not come with.
Emitted(o) == o.result # {} \/ o.tiersWithKey \notin {{}, {<< >>}}

EvalRefusal(o) ==
  IF o.verdict # "invalid" THEN {"expected invalid"}
  ELSE Fault(Emitted(o), "invalid with a result or tiers")

\* _eval_indeterminate
EvalIndeterminate(e, o) ==
  EvalRefusal(o)
    \cup Fault(/\ o.verdict = "invalid" /\ Predicted(e) # {}
              /\ Predicted(e) \cap o.codes = {}, "no declared reading")

\* _eval_reject_stages: the codes are a comparison of their own.
RejectParity(e, o) ==
  Fault(o.verdict = "invalid" /\ e.codes # {} /\ e.codes \cap o.codes = {}, "no expected code")

\* evaluate_vector_detailed, with the self-check of _run_process_vector.
Evaluate(row, o) ==
  LET e       == ExpectedOf(row.file[2])
      verdict == IF e.verdict # {} THEN The(e.verdict)
                 ELSE IF row.kind = "accept" THEN "valid" ELSE "invalid"
  IN [ reasons |->
         EvalEstablishment(o)
           \cup Fault(Established(o) /\ o.verdict # verdict, "verdict")
           \cup (CASE row.kind = "accept"        -> EvalAccept(e, o)
                   [] row.kind = "indeterminate" -> EvalIndeterminate(e, o)
                   [] OTHER                  -> EvalRefusal(o))
           \cup (IF row.kind \in {"reject", "indeterminate"}
                 THEN SecondFaults(suite.statements[row.file[2]], e.codes \cup e.alsoCarries \cup Predicted(e))
                 ELSE {}),
       parity |-> IF row.kind \in {"accept", "indeterminate"} THEN {} ELSE RejectParity(e, o) ]

Column(faults) == IF faults = {} THEN "PASS" ELSE "FAIL"

\* The row _run_process_vector returns; one that could not be opened has no
\* columns beside its status and nothing observed.
ScoredRow(row, o) ==
  LET ev == Evaluate(row, o) IN
  [ id |-> row.file[2], kind |-> row.kind, opened |-> TRUE,
    status |-> Column(ev.reasons \cup ev.parity), conformance |-> Column(ev.reasons),
    parity |-> Column(ev.parity), codes |-> o.codes, primaryCode |-> o.primaryCode ]

UnreadableRow(row) ==
  [ id |-> row.file[2], kind |-> row.kind, opened |-> FALSE, status |-> "FAIL",
    conformance |-> "absent", parity |-> "absent", codes |-> {}, primaryCode |-> {} ]

Failed == {i \in DOMAIN scores : scores[i].status = "FAIL"}

----------------------------------------------------------------------------
(* The manifest against the disk (manifest_closure) *)

\* vector_files_in
FilesIn(dir) == {file \in suite.onDisk : file[1] = dir}

\* MUTANT of KindCoverage: a kind no contract scores is replayed all the same.
KindCoverageEmptyOnly == {<<"empty kind", kind>> : kind \in REPLAYED_KINDS \ ListedKinds}

\* _closure_kind_coverage
KindCoverage ==
  {<<"unscored kind", kind>> : kind \in ListedKinds \ REPLAYED_KINDS}
    \cup {<<"empty kind", kind>> : kind \in REPLAYED_KINDS \ ListedKinds}

\* _closure_flat. The rows of a file no row names are not marked: that needs a
\* row whose kind is the directory's name, which flat_layout has refused.
BothDirections ==
  {<<"not on disk", id>> : id \in
     {i \in UNION {Listed(kind) : kind \in REPLAYED_KINDS} :
        The(Index(i)).file \notin suite.onDisk}}
    \cup {<<"unlisted", file[2]>> : file \in {f \in FilesIn(Flat) : f[2] \notin VectorIds}}

\* _closure_directories
StrayDirectories ==
  {<<"stray directory", dir>> : dir \in
     {d \in suite.directories \ (ListedKinds \cup {Flat}) :
        d \in SUITE_NON_VECTOR_DIRS => FilesIn(d) # {}}}

\* _closure_counts, _counts_against_rows
Counts ==
  IF suite.counts = {} THEN {<<"counts", "absent">>}
  ELSE LET counts == The(suite.counts) IN
       {<<"count", kind>> : kind \in
          {k \in REPLAYED_KINDS \cap ListedKinds :
             k \notin DOMAIN counts \/ counts[k] # Cardinality(Listed(k))}}
         \cup {<<"uncounted kind", kind>> : kind \in DOMAIN counts \ ListedKinds}
         \cup Fault(Cardinality(FilesIn(Flat)) # Cardinality(VectorIds), <<"count", "total">>)

ClosureFailures == KindCoverage \cup BothDirections \cup StrayDirectories \cup Counts

----------------------------------------------------------------------------
(* The families of indeterminate vectors (family_coherence_failures) *)

FamilyMembers(family) ==
  {i \in DOMAIN scores : scores[i].kind = "indeterminate" /\ ExpectedOf(scores[i].id).family = {family}}

Families ==
  UNION {ExpectedOf(scores[i].id).family : i \in
           {j \in DOMAIN scores : scores[j].kind = "indeterminate"}}

\* _answers
Answers(row, reading, committed) ==
  LET readings == ExpectedOf(row.id).readings IN
  /\ reading \in DOMAIN readings
  /\ IF committed THEN row.primaryCode = {readings[reading]} ELSE readings[reading] \in row.codes

\* MUTANT of Coherent: every member is explained by some reading of its own.
CoherentEachAlone(family) ==
  LET members == FamilyMembers(family) IN
  \A i \in members : \E reading \in DOMAIN ExpectedOf(scores[i].id).readings :
    Answers(scores[i], reading, \A j \in members : scores[j].primaryCode # {})

\* The readings sought are those the first member declares.
Coherent(family) ==
  LET members   == FamilyMembers(family)
      first     == CHOOSE i \in members : \A j \in members : i <= j
      committed == \A i \in members : scores[i].primaryCode # {}
  IN  \E reading \in DOMAIN ExpectedOf(scores[first].id).readings :
        \A i \in members : Answers(scores[i], reading, committed)

CoherenceFailures == {family \in Families : ~Coherent(family)}

----------------------------------------------------------------------------
(* The run *)

Init ==
  /\ suite \in Suites /\ rail \in Rails
  /\ pc = "start" /\ next = 1
  /\ reply = [pinned |-> {}, bare |-> {}]
  /\ scores = << >> /\ failures = 0
  /\ exit = {} /\ report = {}

End(code) == pc' = "done" /\ exit' = {code}

\* discover_vectors and flat_layout raise SystemExit: no report is written.
Refuse ==
  /\ pc = "start" /\ (ManifestRows = << >> \/ ~FlatLayout)
  /\ End(1)
  /\ UNCHANGED <<suite, rail, next, reply, scores, failures, report>>

\* _run_rail_selection: a verifier the probe does not accept is replaced by the
\* reference rail.
Start ==
  /\ pc = "start" /\ ManifestRows # << >> /\ FlatLayout
  /\ rail' = IF rail \in Capable THEN rail ELSE "reference"
  /\ pc' = "vector"
  /\ UNCHANGED <<suite, next, reply, scores, failures, exit, report>>

Current  == ManifestRows[next]
Name     == Current.file[2]
Readable == Name \in DOMAIN suite.statements
AtVector == pc = "vector" /\ next \in DOMAIN ManifestRows

\* The end of _run_process_vector: the next vector is up.
Append1(row) ==
  /\ scores' = Append(scores, row)
  /\ failures' = failures + (IF row.status = "FAIL" THEN 1 ELSE 0)
  /\ next' = next + 1 /\ pc' = "vector"
  /\ reply' = [pinned |-> {}, bare |-> {}]
  /\ UNCHANGED <<suite, rail, exit, report>>

Unreadable == AtVector /\ ~Readable /\ Append1(UnreadableRow(Current))

JudgeReference ==
  /\ AtVector /\ Readable /\ rail = "reference"
  /\ \E o \in {Observed(suite.statements[Name])} : Append1(ScoredRow(Current, o))

Call ==
  /\ AtVector /\ Readable /\ rail # "reference"
  /\ pc' = "pinned"
  /\ UNCHANGED <<suite, rail, next, reply, scores, failures, exit, report>>

\* run_external: what comes back from the pass under way.
Receive(answer) ==
  /\ \/ pc = "pinned" /\ pc' = "bare" /\ reply' = [reply EXCEPT !.pinned = {answer}]
     \/ pc = "bare" /\ pc' = "judge" /\ reply' = [reply EXCEPT !.bare = {answer}]
  /\ UNCHANGED <<suite, rail, next, scores, failures, exit, report>>

Answer ==
  /\ pc \in {"pinned", "bare"}
  /\ \E answer \in AnswersOf(rail, Name, suite.statements[Name], pc) : Receive(answer)

\* MUTANT of TimeOut: the pass without the key waits for ever.
TimeOutPinnedOnly == pc = "pinned" /\ Receive(NoAnswer)

\* 120 seconds have passed, or the program could not be started.
TimeOut == Receive(NoAnswer)

Judge ==
  /\ pc = "judge"
  /\ Append1(ScoredRow(Current, ObserveExternal(The(reply.pinned), The(reply.bare))))

\* _run_manifest_closure
Close ==
  /\ pc = "vector" /\ next \notin DOMAIN ManifestRows
  /\ failures' = failures + Cardinality(ClosureFailures)
  /\ pc' = "coherence"
  /\ UNCHANGED <<suite, rail, next, reply, scores, exit, report>>

\* A family nothing explains fails every indeterminate row, one that was never
\* opened by a KeyError.
IsIndeterminate(row) == row.kind = "indeterminate"

Cohere ==
  /\ pc = "coherence"
  /\ CoherenceFailures # {} =>
       \A i \in DOMAIN scores : IsIndeterminate(scores[i]) => scores[i].opened
  /\ scores' = IF CoherenceFailures = {} THEN scores
             ELSE << >> \o [i \in DOMAIN scores |->
                    IF IsIndeterminate(scores[i])
                    THEN [scores[i] EXCEPT !.status = "FAIL", !.conformance = "FAIL"]
                    ELSE scores[i]]
  /\ failures' = failures + Cardinality(CoherenceFailures)
  /\ pc' = "report"
  /\ UNCHANGED <<suite, rail, next, reply, exit, report>>

Crash ==
  /\ pc = "coherence" /\ CoherenceFailures # {}
  /\ \E i \in DOMAIN scores : IsIndeterminate(scores[i]) /\ ~scores[i].opened
  /\ End(1)
  /\ UNCHANGED <<suite, rail, next, reply, scores, failures, report>>

\* _run_write_report and the exit status.
Report ==
  /\ pc = "report"
  /\ report' = {[ rail |-> rail, vectors |-> Len(scores), fail |-> Cardinality(Failed),
                  conform |-> Cardinality({i \in DOMAIN scores : scores[i].conformance = "PASS"}),
                  parityMismatch |-> Cardinality({i \in DOMAIN scores : scores[i].parity = "FAIL"}),
                  suiteRefusals |-> IF failures < Cardinality(Failed) THEN 0
                                    ELSE failures - Cardinality(Failed) ]}
  /\ End(IF failures > 0 THEN 1 ELSE 0)
  /\ UNCHANGED <<suite, rail, next, reply, scores, failures>>

Step == Refuse \/ Start \/ Unreadable \/ JudgeReference \/ Call \/ TimeOut \/ Judge
          \/ Close \/ Cohere \/ Crash \/ Report

Next == Step \/ Answer

\* The harness runs on, and a call it made is cut off; a rail need not answer.
Spec == Init /\ [][Next]_vars /\ WF_vars(Step)

----------------------------------------------------------------------------
(* Properties *)

TypeOK ==
  /\ rail \in Rails \cup {"reference"}
  /\ pc \in {"start", "vector", "pinned", "bare", "judge", "coherence", "report", "done"}
  /\ next \in 1..Len(ManifestRows) + 1 /\ Len(scores) = next - 1
  /\ reply.pinned # {} <=> pc \in {"bare", "judge"}
  /\ reply.bare # {} <=> pc = "judge"
  /\ failures \in Nat
  /\ \A i \in DOMAIN scores :
       /\ scores[i].id = ManifestRows[i].file[2] /\ scores[i].kind = ManifestRows[i].kind
       /\ scores[i].status = "PASS" => scores[i].conformance = "PASS" /\ scores[i].parity = "PASS"
  /\ exit \subseteq {0, 1} /\ (exit # {} <=> pc = "done")

\* A vector passes under an external rail only on what the rail itself said: in
\* both passes it answered, with one verdict, the expected one; of an accepted
\* statement it named the result and every tier column the manifest declares,
\* and of a refused one it named neither. No answer, a report nobody could
\* read and a column left out are none of them a pass.
Stated(answer) ==
  IF answer.report = {} THEN {}
  ELSE IF The(answer.report).verdict = {} THEN {answer.exit}
  ELSE {The(The(answer.report).verdict)}

SilenceNeverPasses ==
  [][pc = "judge" /\ scores'[next].status = "PASS" =>
       LET e       == ExpectedOf(Current.file[2])
           pinned  == The(reply.pinned)
           bare    == The(reply.bare)
           verdict == IF Current.kind = "accept" THEN {"valid"} ELSE {"invalid"}
       IN /\ Stated(pinned) = verdict /\ Stated(bare) = verdict /\ {bare.exit} = verdict
          /\ IF Current.kind = "accept"
             THEN /\ e.result # {} =>
                       /\ The(pinned.report).result = e.result
                       /\ The(pinned.report).tiers # {} => The(bare.report).result = e.result
                  /\ e.tierWithPinnedKey # {} => The(pinned.report).tiers = e.tierWithPinnedKey
                  /\ e.tierWithoutKey # {} => The(bare.report).tiers = e.tierWithoutKey
             ELSE The(pinned.report).result = {}]_vars

\* A run that ends well has read every member of an indeterminate family the
\* same way: one declared reading explains all of the answers of the rail.
OneReadingExplainsFamily ==
  exit = {0} =>
    \A family \in Families : \E reading \in DOMAIN ExpectedOf(
        scores[The({i \in FamilyMembers(family) : \A j \in FamilyMembers(family) : i <= j})].id).readings :
      \A i \in FamilyMembers(family) :
        /\ reading \in DOMAIN ExpectedOf(scores[i].id).readings
        /\ ExpectedOf(scores[i].id).readings[reading] \in scores[i].codes \cup scores[i].primaryCode

\* What exit status 0 is earned by: every row passed, every vector of a kind some
\* contract scores, of each kind at least one and as many as the manifest counts,
\* nothing named that is not there, and nothing there that is not named, other
\* than in a directory that has the name of a kind (FilesAndRowsNameEachOther).
\* Beside any other status the totals of the report, if there is one, say that
\* something failed ("0 fail" beside a non-zero exit is never shipped).
ExitZeroIsEarned ==
  /\ exit = {0} =>
       /\ report # {} /\ \A i \in DOMAIN scores : scores[i].status = "PASS" /\ scores[i].opened
       /\ ListedKinds = REPLAYED_KINDS
       /\ \A id \in VectorIds : The(Index(id)).file \in suite.onDisk
       /\ {file[2] : file \in {f \in suite.onDisk : f[1] \notin REPLAYED_KINDS}} = VectorIds
       /\ \A kind \in REPLAYED_KINDS :
            The(suite.counts)[kind] = Cardinality({id \in VectorIds : The(Index(id)).kind = kind})
  /\ \A r \in report : IF exit = {0} THEN r.fail = 0 /\ r.conform = r.vectors
                        ELSE r.fail + r.suiteRefusals > 0

\* manifest_closure: "the MANIFEST and the vector files on disk name each other
\* exactly, in both directions", of a suite that was replayed with exit status 0.
FilesAndRowsNameEachOther ==
  exit = {0} => suite.onDisk = {The(Index(id)).file : id \in VectorIds}

\* Every run ends, whatever the rail does with its calls: it hangs at worst for
\* the time of its timeouts.
EveryRunEnds == <>(pc = "done")

=============================================================================
