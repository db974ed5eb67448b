---------------------------- MODULE AeeLiveness ----------------------------
(***************************************************************************)
(* The liveness probe, scripts/liveness-probe.py: from the bytes of one    *)
(* statement, whether the detector of each assessed class (a channel) was  *)
(* shown to catch what the corpus planted there. A set of keys stands for  *)
(* --key, and the empty set for a probe without one.                       *)
(***************************************************************************)
EXTENDS AeeRun

\* VERDICTS, worst to best
Rank(v) ==
  [unprobed |-> 0, notDemonstrated |-> 1, unverified |-> 2, unsealed |-> 3, demonstrated |-> 4][v]

\* better, of all the states there are
Best(states) == CHOOSE v \in states : \A w \in states : Rank(w) <= Rank(v)

\* MUTANT of Verifies: the report is structural whatever key is given.
VerifiesStructurally(rec, keys) == rec.decodes

\* Verifier.record_verifies
Verifies(rec, keys) == keys = {} \/ RecordVerifies(rec, keys)

\* record_payload: the records of one kind that parse.
Parsed(s, kind) ==
  {i \in DOMAIN s.records : /\ s.records[i].decodes /\ s.records[i].payload.form # "notObject"
                            /\ s.records[i].payload.kind = kind}

\* sealed_attacks: of every seal that is carried, whatever run it is about.
SealedAttacks(s, keys) ==
  UNION {s.records[i].payload.observedAttacks.ids :
           i \in {j \in Parsed(s, "sealed") :
                    /\ Verifies(s.records[j], keys)
                    /\ s.records[j].payload.observedAttacks.form \in {"sortedArray", "unsortedArray"}}}

\* claims_a_catch
ClaimsACatch(s, row, a) ==
  /\ row.attackId = a /\ IsCaughtLabel(s, row.label)
  /\ IsSubstrate(row) /\ row.attribution = "pinned"

\* row_state: the records the row resolves that commit to an expected value.
Matching(s, row, a) ==
  {i \in Resolved(s, row) \cap Parsed(s, "interception") :
     /\ s.records[i].payload.commitment.form \in {"wellFormed", "malformed"}
     /\ s.records[i].payload.commitment.values \cap ExpectedFor(s, a) # {}}

RecordState(s, i, a, keys) ==
  IF ~Verifies(s.records[i], keys) THEN "unverified"
  ELSE IF a \notin SealedAttacks(s, keys) THEN "unsealed" ELSE "demonstrated"

\* probe_state, over the rows and the records of each
ProbeState(s, a, keys) ==
  Best({"notDemonstrated"} \cup
       UNION {{RecordState(s, i, a, keys) : i \in Matching(s, s.rows[k], a)} :
                k \in {j \in DOMAIN s.rows : ClaimsACatch(s, s.rows[j], a)}})

\* evaluate, for one class of coverage.assessedClasses
Planted(s, c) ==
  {a \in ClassAttacks(s.env.corpus.manifest, c) :
     s.env.corpus.manifest.expected.form = "map" /\ a \in DOMAIN s.env.corpus.manifest.expected.values}

ChannelVerdict(s, c, keys) ==
  IF Planted(s, c) = {} THEN "unprobed"
  ELSE Best({ProbeState(s, a, keys) : a \in Planted(s, c)})

----------------------------------------------------------------------------
(* Properties *)

Demonstrated(s) ==
  {c \in Elems(s.coverage.assessed) : ChannelVerdict(s, c, {SubstrateKey}) = "demonstrated"}

\* In the run the statement is about, one of the substrate's, it intercepted a
\* value the corpus planted for the attack.
PlantedWasSeen(s, a) ==
  /\ RunBinding(s) \in Run
  /\ \E leaf \in run[RunBinding(s)].seen :
       /\ leaf.payload.kind = "interception"
       /\ leaf.payload.commitment.values \cap ExpectedFor(s, a) # {}

NamedInSeal(r, a) == run[r].phase = "sealed" /\ a \in run[r].named

\* It intercepted the plant, and at the end of some run it named the attack.
PlantedWasCaught(s, a) ==
  PlantedWasSeen(s, a) /\ \E r \in Run : NamedInSeal(r, a)

\* When the probe, given the substrate's key, finds a channel demonstrated in a
\* statement the consumer admits, an attack planted on the channel was caught:
\* no record of another party or another run stands for the interception, and
\* the substrate did name the attack when some run ended. Which run that was
\* the probe does not ask (row_state, sealed_attacks): see DemonstratedIsSealed.
DemonstratedMeansCaught ==
  \A d \in Admitted : \A c \in Demonstrated(d.statement) :
    \E a \in Planted(d.statement, c) : PlantedWasCaught(d.statement, a)

\* What the head of the script says of a demonstrated channel, that "the run-end
\* seal names" the attack: the seal of the run the statement is about. The code
\* reads any seal that is carried (sealed_attacks), and so it does not hold.
DemonstratedIsSealed ==
  \A d \in Admitted : \A c \in Demonstrated(d.statement) :
    \E a \in Planted(d.statement, c) :
      PlantedWasSeen(d.statement, a) /\ NamedInSeal(RunBinding(d.statement), a)

=============================================================================
