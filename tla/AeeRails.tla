------------------------------ MODULE AeeRails ------------------------------
(***************************************************************************)
(* The two rails over the same statement. packaging/run_vectors.py replays *)
(* every vector under the Go core and under its own ReferenceVerifier and  *)
(* asks them for one verdict, a shared code and one tier column; here they *)
(* are asked over every statement a caller hands in, corpus or not.        *)
(***************************************************************************)
EXTENDS AeeVerify

Reference == INSTANCE ReferenceRail

----------------------------------------------------------------------------
(* Where the rails part: each condition is a difference between their      *)
(* sources, and none of them is reached by a statement of the corpora.     *)

\* A member of the wrong JSON type: the Go decoder records statement-malformed
\* and the reference rail sees a member that is there, or one that is not. Of a
\* references member with an entry that is no index Go reads nothing, the other
\* rail the entries that are indexes; only on a substrate row is it a fault. An
\* empty records array is absent for the reference rail and present for Go.
WellTyped(s) ==
  /\ "mistyped" \notin {s.env.form, s.env.substrate, s.env.catchPolicy, s.env.runEntropy,
                        s.env.posture.digest, s.env.corpus.digest, s.env.vocabulary.form,
                        s.coverage.form, s.rowsForm, s.recordsForm, s.batchRoot.form}
  /\ s.rowsForm = "array" /\ (s.recordsForm = "array" => s.records # << >>)
  /\ \A i \in DOMAIN s.rows :
       /\ "mistyped" \notin RowMembers(s.rows[i])
       /\ s.rows[i].refs.form = "malformed" => IsSubstrate(s.rows[i])
  /\ s.env.corpus.manifest.form # "undecodable" /\ s.env.corpus.manifest.canonicalizable

\* A binding input without a sha256 entry enters Go's binding as the empty
\* string; the reference rail then derives no binding at all.
DigestsCarried(s) ==
  HasSubstrateRows(s) =>
    "none" \notin {s.env.substrate, s.env.catchPolicy, s.env.runEntropy, s.env.posture.digest}

\* The reference rail compares the result only when there are rows.
HasRows(s) == s.rows # << >>

\* Go reads the kind of a record whose bytes are not canonical, the reference
\* rail does not. Both refuse such a record where a substrate row refers to it.
KindsReadAlike(s) ==
  \A i \in DOMAIN s.records :
    \/ KindOf(s.records[i]) = Reference!Kind(s.records[i])
    \/ \E j \in DOMAIN s.rows : IsSubstrate(s.rows[j]) /\ i \in Resolved(s, s.rows[j])

\* The reference rail wants a seal that has the posture of every arming record
\* carried; Go looks at those that can be read and are of this run.
PosturesHeld(s) ==
  \A i \in DOMAIN s.records :
    Reference!Kind(s.records[i]) = "arming" /\ PayloadCodes(s.records[i], RunBinding(s)) # {}
      => s.records[i].payload.posture \in {"absent", s.env.posture.digest}

\* That there are no records is said by Go of the statement, and by the reference
\* rail of each substrate row that does not fail closed.
AbsenceIsSeen(s) ==
  HasSubstrateRows(s) /\ NoRecords(s) =>
    \E i \in DOMAIN s.rows : IsSubstrate(s.rows[i]) /\ ~RowFailsClosed(s, s.rows[i])

ReadAlike(s) ==
  /\ WellTyped(s) /\ DigestsCarried(s) /\ HasRows(s)
  /\ KindsReadAlike(s) /\ PosturesHeld(s) /\ AbsenceIsSeen(s)

----------------------------------------------------------------------------
(* Properties *)

\* On every statement they read alike the rails reach one verdict, and where
\* they refuse it they share a code, though Go stops at the first gate with a
\* fault and the reference rail runs every check: no fault that only a later
\* gate sees is missing from either, and no later check invents one. This is
\* what run_vectors.py asks of two rails, on inputs no vector carries. Where they
\* find it valid they derive the same tier for every row of a known basis,
\* under every key policy: Go from the records its gate left in the context, the
\* reference rail by matching the row again.
RailsReachOneVerdict ==
  \A c \in call, r \in report :
    c.function = "Verify" /\ ReadAlike(c.statement) =>
      LET outcome == Reference!Outcome(c.statement, c.policy.keys)
          codes   == Reference!Codes(c.statement) IN
      IF r.verdict = "valid"
      THEN /\ outcome.verdict = "valid"
           /\ \A i \in DOMAIN c.statement.rows :
                c.statement.rows[i].basis \in KnownBases => r.tiers[i] = outcome.tiers[i]
      ELSE r.codes \cap codes # {}

\* README, step 3 of the verification: the carried result must equal the pure
\* recompute, and a statement is valid only if it does, on either rail.
EitherRailRecomputes ==
  \A c \in call, r \in report :
    WellTyped(c.statement) /\ Reference!Codes(c.statement) = {} =>
      c.statement.result = Recompute(c.statement)

=============================================================================
