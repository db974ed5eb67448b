---------------------------- MODULE AeeProducer ----------------------------
(***************************************************************************)
(* The honest producer: the statement it makes of one run, with every      *)
(* record the substrate signed in it, one row for each attack and the      *)
(* result recomputed. Build of aeetest/build.go makes such statements of   *)
(* runs with one attack.                                                   *)
(***************************************************************************)
EXTENDS AeeRun, SequencesExt

CONSTANT
  Skeleton          \* for each run, its statement with no rows and no records

ASSUME AttackAssumption == IsFiniteSet(Attack) /\ "mistyped" \notin Attack

StatementMembers ==
  {"parses", "typeOK", "predicateTypeOK", "snakeCase", "result", "env", "coverage", "rowsForm",
   "rows", "recordsForm", "records", "batchRoot", "subject", "issuedAt"}

\* All the skeleton lacks is rows: it is of the run, whose attacks are those it
\* assesses, it excludes nothing, and it has labels for what the rows may say.
ASSUME SkeletonAssumption ==
  \A r \in Run :
    LET s == Skeleton[r] IN
    /\ StatementMembers \subseteq DOMAIN s
    /\ RunBinding(s) = r /\ Decoded(s) /\ s.parses
    /\ Gate0(s) \subseteq {"coverage-incomplete"} /\ SubstrateBindingInputCodes(s) = {}
    /\ CoveragePartitionsManifest(s) /\ ~CoverageIncomplete(s) /\ AssessedAttackIDs(s) = Attack
    /\ IsCleanLabel(s, "clean") /\ IsCaughtLabel(s, "caught")
    /\ "caught" \in s.env.vocabulary.labels

RecordsOf(r) ==
  SetToSeq({Signed(leaf.payload, {SubstrateKey}) :
              leaf \in {l \in signed : l.payload.runBinding = {r}}})

RefsTo(records, kinds) ==
  [form |-> "indexes",
   idx  |-> SetToSeq({i \in DOMAIN records : records[i].payload.kind \in kinds})]

\* The attacks the rows report caught. An interception the substrate could not
\* name in time is put down to one of them, for some row has to own it.
CaughtAttacks(r) ==
  IF \A leaf \in run[r].seen : leaf.payload.kind # "interception" THEN {}
  ELSE IF run[r].named = {} THEN {CHOOSE a \in Attack : TRUE}
  ELSE run[r].named

RowFor(a, caught, records) ==
  [attackId |-> a, basis |-> "substrate", method |-> "intercepted",
   attribution |-> "paired",
   label       |-> IF caught THEN "caught" ELSE "clean",
   actualLayer |-> IF caught THEN "egress" ELSE "none",
   refs        |-> RefsTo(records, IF caught THEN {"interception"}
                                   ELSE {"arming", "sealed"})]

\* Build: the rows and records, then the root and the result over them.
Honest(r) ==
  LET records == RecordsOf(r)
      attacks == SetToSeq(Attack)
      s == [Skeleton[r] EXCEPT
              !.rows = [i \in DOMAIN attacks |->
                          RowFor(attacks[i], attacks[i] \in CaughtAttacks(r), records)],
              !.records = records, !.recordsForm = "array",
              !.batchRoot = [form |-> "root",
                             leaves |-> [i \in DOMAIN records |-> Leaf(records[i])]]]
  IN  [s EXCEPT !.result = Recompute(s)]

\* A run that is over, was armed for every attack and kept its watch: the
\* vantage, the posture, and what it saw but for what its seal allows it to lose.
KeptWatch(r) ==
  /\ run[r].phase = "sealed" /\ run[r].armed /\ run[r].declared = Attack
  /\ run[r].posture = "pinned" /\ WithinBound(r)

\* The consumer has the substrate's key, and its anchors are those of the run.
Expects(policy, r) ==
  SubstrateKey \in policy.keys /\ AnchorPolicyCodes(Skeleton[r], policy) = {}

\* The rules refuse no honest run: what the substrate signed in a run that
\* kept its watch makes a statement that a consumer who expects the run admits,
\* a pass when nothing was intercepted and a fail otherwise.
HonestRunIsAccepted ==
  \A r \in Run, policy \in Policy :
    KeptWatch(r) /\ Expects(policy, r)
    => LET report == Verify(Honest(r), policy) IN
       /\ report.verdict = "valid" /\ report.admitted
       /\ report.result = IF CaughtAttacks(r) = {} THEN "pass" ELSE "fail"

=============================================================================
