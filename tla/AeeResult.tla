----------------------------- MODULE AeeResult -----------------------------
(***************************************************************************)
(* What is derived from a statement the gates accept: the result recompute *)
(* (aee/recompute.go), the evidence tier per row (aee/tier.go) and the     *)
(* comparison with a consumer's anchors (aee/verify.go).                   *)
(*                                                                         *)
(* A consumer policy is a record of a set of observation keys and of the   *)
(* expected corpus and substrate digests, "none" when not supplied; the    *)
(* nil policy is the one with no keys and no expectation.                  *)
(***************************************************************************)
EXTENDS AeeGate1

----------------------------------------------------------------------------
(* The result recompute (recompute.go) *)

\* classifyRow: the row forces the result fail.
RowForcesFail(s, row) ==
  \/ IsCaughtLabel(s, row.label)
  \/ row.label \notin s.env.vocabulary.labels
  \/ row.basis \notin KnownBases
  \/ row.method \notin KnownMethods
  \/ row.attribution \notin KnownAttributions

\* classifyRow: the row is clean, on an observation indirect in vantage or time.
RowIndirectClean(s, row) ==
  /\ ~RowForcesFail(s, row)
  /\ row.basis # "substrate" \/ row.method # "intercepted"

CoverageIncomplete(s) ==
  s.coverage.outOfScope # {} \/ s.coverage.routedElsewhere # {}

\* resultRank, on the four results Recompute ranks
ResultRank(v) == [fail |-> 0, degraded |-> 1, pass_indirect |-> 2, pass |-> 3][v]

\* Recompute: the minimum of the results the three conditions allow.
Recompute(s) ==
  LET allowed ==
        {"pass"}
          \cup When(\E i \in DOMAIN s.rows : RowIndirectClean(s, s.rows[i]),
                    "pass_indirect")
          \cup When(CoverageIncomplete(s), "degraded")
          \cup When(\E i \in DOMAIN s.rows : RowForcesFail(s, s.rows[i]), "fail")
  IN  CHOOSE v \in allowed : \A w \in allowed : ResultRank(v) <= ResultRank(w)

----------------------------------------------------------------------------
(* The evidence tier (tier.go) *)

\* recordVerifies
RecordVerifies(rec, keys) == rec.decodes /\ rec.signedBy \cap keys # {}

\* DeriveTiers, for one row. The binding and the decoded records are the ones
\* GATE 1 left in the context, recomputed here by the same operators.
RowTier(s, row, policy) ==
  IF ~IsSubstrate(row) THEN "declared"
  ELSE IF policy.keys = {} THEN "unattested"
  ELSE IF SubstrateRowCodes(s, row, RunBinding(s)) # {} THEN "unattested"
  ELSE IF \A i \in Covering(s, row) : RecordVerifies(s.records[i], policy.keys)
  THEN "attested" ELSE "unattested"

DeriveTiers(s, policy) == [i \in DOMAIN s.rows |-> RowTier(s, s.rows[i], policy)]

----------------------------------------------------------------------------
(* The consumer-policy step (verify.go) *)

TierPolicySatisfied(s, tiers) ==
  \A i \in DOMAIN s.rows : IsSubstrate(s.rows[i]) => tiers[i] = "attested"

AnchorPolicyCodes(s, policy) ==
  When(/\ policy.expectedCorpus # "none"
       /\ policy.expectedCorpus # s.env.corpus.digest,
       "corpus-anchor-mismatch")
    \cup When(/\ policy.expectedSubstrate # "none"
              /\ policy.expectedSubstrate # s.env.substrate,
              "substrate-anchor-mismatch")

\* MUTANT of RecordSignaturesOK: one covering record that verifies is enough.
RecordSignaturesOKAnyRecord(s, keys) ==
  \A i \in DOMAIN s.rows :
    IsSubstrate(s.rows[i]) =>
      \E j \in Covering(s, s.rows[i]) : RecordVerifies(s.records[j], keys)

\* CheckRecordSignatures, the producer-QA check: it derives no tier.
RecordSignaturesOK(s, keys) ==
  \A i \in DOMAIN s.rows :
    IsSubstrate(s.rows[i]) =>
      /\ SubstrateRowCodes(s, s.rows[i], RunBinding(s)) = {}
      /\ \A j \in Covering(s, s.rows[i]) : RecordVerifies(s.records[j], keys)

----------------------------------------------------------------------------
(* Reports (verify.go) *)

\* A report of an invalid statement has neither result nor tiers.
InvalidReport(codes) ==
  [ verdict |-> "invalid", codes |-> codes, result |-> "absent",
    tiers |-> << >>, policyCodes |-> {}, admitted |-> FALSE ]

\* VerifyForEmit returns a context or an error; its success is recorded as a
\* valid report that nothing consumer-relative was derived for.
EmitReport(s) ==
  [ verdict |-> "valid", codes |-> {}, result |-> s.result,
    tiers |-> << >>, policyCodes |-> {}, admitted |-> FALSE ]

ConsumerReport(s, policy) ==
  LET tiers == DeriveTiers(s, policy) IN
  [ verdict     |-> "valid",
    codes       |-> {},
    result      |-> s.result,
    tiers       |-> tiers,
    policyCodes |-> AnchorPolicyCodes(s, policy),
    admitted    |-> /\ TierPolicySatisfied(s, tiers)
                    /\ AnchorPolicyCodes(s, policy) = {} ]

\* ParseStatement's error, as Verify reports it.
ParseError(s) == When(~s.parses, "statement-malformed")

\* Evaluate: the first stage that finds a fault returns its codes.
EvaluateCodes(s) ==
  IF ParseError(s) # {} THEN ParseError(s)
  ELSE IF Gate0(s) # {} THEN Gate0(s)
  ELSE IF Gate1(s) # {} THEN Gate1(s)
  ELSE When(Recompute(s) # s.result, "result-recompute-mismatch")

\* Verify
Verify(s, policy) ==
  IF EvaluateCodes(s) # {} THEN InvalidReport(EvaluateCodes(s))
  ELSE ConsumerReport(s, policy)

=============================================================================
