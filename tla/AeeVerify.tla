----------------------------- MODULE AeeVerify -----------------------------
(***************************************************************************)
(* One caller of the verification core (aee/verify.go): Verify and         *)
(* VerifyForEmit, each a run of the shared Evaluate, stage by stage. The   *)
(* caller hands in any statement, under any policy, any number of times.   *)
(***************************************************************************)
EXTENDS AeeResult

CONSTANTS
  Statement,        \* the statements a caller may hand in, decoded
  Policy            \* the consumer policies it may hand in with them

ASSUME StatementAssumption == \A s \in Statement : Decoded(s)

Functions == {"Verify", "VerifyForEmit"}

VARIABLES
  stage,            \* where the call is; "idle" between calls
  call,             \* {} or the call's function, statement and policy
  context,          \* {} or what Evaluate sealed: the statement
  report            \* {} or what the call returned

vars == <<stage, call, context, report>>

----------------------------------------------------------------------------
Init ==
  /\ stage = "idle"
  /\ call = {}
  /\ context = {}
  /\ report = {}

\* A call of Verify or VerifyForEmit.
Start(function, s, policy) ==
  /\ stage = "idle"
  /\ stage' = "parse"
  /\ call' = {[function |-> function, statement |-> s, policy |-> policy]}
  /\ UNCHANGED <<context, report>>

The(set) == CHOOSE x \in set : TRUE

Input == The(call).statement

\* Go on to the next stage when this one reports nothing, else return.
Gate(from, codes, to) ==
  /\ stage = from
  /\ IF codes = {}
     THEN stage' = to /\ UNCHANGED report
     ELSE stage' = "returned" /\ report' = {InvalidReport(codes)}
  /\ UNCHANGED call

Parse      == /\ Gate("parse", ParseError(Input), "gate0")
              /\ UNCHANGED context
CheckGate0 == /\ Gate("gate0", Gate0(Input), "gate1")
              /\ UNCHANGED context
CheckGate1 == /\ Gate("gate1", Gate1(Input), "recompute")
              /\ UNCHANGED context

\* The last check of Evaluate seals the context.
CheckResult ==
  /\ Gate("recompute",
          When(Recompute(Input) # Input.result, "result-recompute-mismatch"),
          "sealed")
  /\ context' = IF Recompute(Input) = Input.result THEN {Input} ELSE {}

\* VerifyForEmit returns here; Verify derives the consumer's report.
Return ==
  /\ stage = "sealed"
  /\ stage' = "returned"
  /\ report' = {IF The(call).function = "VerifyForEmit"
                THEN EmitReport(The(context))
                ELSE ConsumerReport(The(context), The(call).policy)}
  /\ UNCHANGED <<call, context>>

Step == Parse \/ CheckGate0 \/ CheckGate1 \/ CheckResult \/ Return

\* The caller is done with the report; nothing of the call is kept.
Finish ==
  /\ stage = "returned"
  /\ stage' = "idle"
  /\ call' = {} /\ context' = {} /\ report' = {}

Next ==
  \/ Finish
  \/ \E function \in Functions, s \in Statement, policy \in Policy :
       Start(function, s, policy)
  \/ Step

Spec == Init /\ [][Next]_vars

----------------------------------------------------------------------------
(* Properties *)

Stages == {"idle", "parse", "gate0", "gate1", "recompute", "sealed", "returned"}

\* An invalid report has codes and neither result nor tiers; a valid one has no
\* codes and a result.
WellFormed(r) ==
  \/ /\ r.verdict = "invalid" /\ r.codes # {}
     /\ r.result = "absent" /\ r.tiers = << >> /\ ~r.admitted
  \/ /\ r.verdict = "valid" /\ r.codes = {}
     /\ r.result \in ResultTokens /\ r.admitted \in BOOLEAN
     /\ \A i \in DOMAIN r.tiers : r.tiers[i] \in {"declared", "unattested", "attested"}

AtMostOne(set) == \A x, y \in set : x = y

\* The state is well typed; the context, when sealed, is the call's statement,
\* and a report is there exactly when the call has returned.
TypeOK ==
  /\ stage \in Stages
  /\ AtMostOne(call) /\ AtMostOne(report)
  /\ \A c \in call : c.function \in Functions /\ c.policy \in Policy
  /\ context \subseteq {c.statement : c \in call}
  /\ \A r \in report : WellFormed(r)
  /\ (call = {}) <=> (stage = "idle")
  /\ (report = {}) <=> (stage # "returned")

\* The statement of a finished call that was found valid, if the last one was.
ValidInputs == {c.statement : c \in {d \in call : \E r \in report : r.verdict = "valid"}}

\* The gates lean on the ones before them: when GATE 1 runs, every member it
\* dereferences without a nil check is there and issuedAt parses again
\* (validity.go calls that branch "defensive only"); when tiers are derived,
\* checkSubstrateRow finds nothing (tier.go: "Unreachable on a validated
\* context") and CheckRecordSignatures cannot fail on a code.
DefensiveBranchesUnreached ==
  /\ stage = "gate1" =>
       /\ Input.env.form \notin {"absent", "mistyped"}
       /\ Input.env.vocabulary.form = "object"
       /\ Input.coverage.form \notin {"absent", "mistyped"}
       /\ DeclaredAttackIDs(Input) # {}
       /\ ~IsNil(Input.env.posture.digest)
       /\ Input.issuedAt = "wellFormed"
  /\ stage = "sealed" =>
       \A i \in DOMAIN Input.rows :
         IsSubstrate(Input.rows[i]) =>
           SubstrateRowCodes(Input, Input.rows[i], RunBinding(Input)) = {}

\* A statement that carries an interception record, whatever row or basis it
\* hangs from and whichever run it names, is valid only with result fail: the
\* orphan check makes some caught row own it and the recompute prices that row.
CarriedInterceptionForcesFail ==
  \A s \in ValidInputs :
    (\E i \in DOMAIN s.records : KindOf(s.records[i]) = "interception")
      => s.result = "fail"

\* Every attack the manifest declares is accounted for exactly once: a valid
\* statement has one row for it and excludes no class that declares it, or has no
\* row for it, excludes a class that declares it by name, and is at best degraded.
EveryAttackIsAccounted ==
  \A s \in ValidInputs :
    \A id \in DeclaredAttackIDs(s) :
      LET rows     == {i \in DOMAIN s.rows : s.rows[i].attackId = id}
          excluded == {c \in s.coverage.outOfScope \cup s.coverage.routedElsewhere :
                         id \in ClassAttacks(s.env.corpus.manifest, c)}
      IN  \/ Cardinality(rows) = 1 /\ excluded = {}
          \/ rows = {} /\ excluded # {} /\ s.result \in {"degraded", "fail"}

\* A valid pass rests on the substrate: each declared attack has a clean
\* substrate row, an arming record of this run that declared every attack
\* covers it, and a seal of this run that names none and was still armed.
PassIsWitnessed ==
  \A s \in ValidInputs : s.result = "pass" =>
    /\ DeclaredAttackIDs(s) # {}
    /\ \A id \in DeclaredAttackIDs(s) : \E i \in DOMAIN s.rows :
         /\ s.rows[i].attackId = id
         /\ s.rows[i].basis = "substrate"
         /\ IsCleanLabel(s, s.rows[i].label)
         /\ \E j \in Resolved(s, s.rows[i]) \cap BoundOfKind(s, "arming") :
              s.records[j].payload.assessed.ids = DeclaredAttackIDs(s)
         /\ \E j \in Resolved(s, s.rows[i]) \cap BoundOfKind(s, "sealed") :
              /\ s.records[j].payload.stillArmed = "true"
              /\ s.records[j].payload.observedAttacks.ids = {}
              /\ s.records[j].payload.observedSet = {ObservedLeaves(s)}

\* The producer's signature check and the consumer's admission derive from the
\* same covering records: under the same keys, and with no anchor supplied,
\* one succeeds exactly when the other does.
QACheckPredictsAdmission ==
  \A c \in call, r \in report :
    c.function = "Verify" /\ r.verdict = "valid" /\ r.policyCodes = {} =>
      (r.admitted <=> RecordSignaturesOK(c.statement, c.policy.keys))

=============================================================================
