------------------------------ MODULE MCAeeRun ------------------------------
(***************************************************************************)
(* AeeRun on small instances. A producer holds a pool of records, among    *)
(* them records of another run and records signed by a key of its own, and *)
(* puts any few of them, under any labels, into a statement.               *)
(***************************************************************************)
EXTENDS AeeProducer, AeeLiveness, MCAeeStatements, FiniteSetsExt

MCPolicy ==
  { [keys |-> {ObservationKey}, expectedCorpus |-> "corpus", expectedSubstrate |-> "none"] }

\* A seal that states no bound, and one that allows a single loss.
MCDropBound == {{}, {1}}

\* The statement of each run before anything is observed in it.
MCSkeleton ==
  LET classes == [c \in (IF Cardinality(Attack) = 1 THEN {"c1"} ELSE {"c1", "c2"})
                    |-> Manifest.classes[c]]
  IN  [r \in Run |->
         [Build(<< >>, << >>, SetToSeq(DOMAIN classes)) EXCEPT
            !.env.runEntropy = r.runEntropy,
            !.env.corpus.manifest.classes = classes,
            !.coverage.outOfScope = {}]]

\* The kinds of record a producer refers a row to.
KindsFor(row) ==
  IF row.method = "reconstructed" THEN {"examination"}
  ELSE IF row.label = "caught" THEN {"interception"} ELSE {"arming", "sealed"}

WithRefs(row, recs) ==
  LET isRef(i) == recs[i].payload.kind \in KindsFor(row)
  IN  [row EXCEPT !.refs = Refs(SelectSeq([i \in DOMAIN recs |-> i], isRef))]

\* A statement about run r over a set of records. The corpus of an instance is
\* the classes its statements assess.
Assemble(r, rows, set, classes) ==
  LET recs == SetToSeq(set)
      s    == Build(Now([i \in DOMAIN rows |-> WithRefs(rows[i], recs)]), recs, classes)
      m    == [Manifest EXCEPT !.classes = [c \in Elems(classes) |-> @[c]]]
  IN  Complete([s EXCEPT !.env.runEntropy = r.runEntropy,
                         !.env.corpus.manifest = m,
                         !.coverage.outOfScope = {}])

RowKinds(id) ==
  {CleanRow(id, << >>), [CaughtRow(id, << >>) EXCEPT !.attribution = "paired"],
   ExaminedRow(id, << >>)}

UpTo(n, pool) == UNION {kSubset(k, pool) : k \in 0..n}

----------------------------------------------------------------------------
(* Two runs, one attack: records of one run beside a statement of another *)

TwoRuns    == {ThisRun, OtherRun}
TwoAttacks == {"a1", "a2"}

InterceptionLeaf(r) == PayloadLeaf(InterceptionPayload(r, "v1"))

GenuinePayloads ==
  {ArmingPayload(r, "pinned", {"a1"}) : r \in TwoRuns}
    \cup {InterceptionPayload(r, "v1") : r \in TwoRuns}
    \cup {QuietSeal(r, {}, {}) : r \in TwoRuns}
    \cup {QuietSeal(r, {InterceptionLeaf(r)}, {}) : r \in TwoRuns}
    \cup {QuietSeal(ThisRun, {InterceptionLeaf(ThisRun)}, {"a1"})}

OwnPayloads == {ArmingPayload(ThisRun, "pinned", {"a1"}), QuietSeal(ThisRun, {}, {})}

TwoRunPool ==
  {Signed(p, {ObservationKey}) : p \in GenuinePayloads}
    \cup {Signed(p, {OtherKey}) : p \in OwnPayloads}

TwoRunStatement ==
  {Assemble(ThisRun, <<row>>, set, <<"c1">>) :
     row \in RowKinds("a1") \ {ExaminedRow("a1", << >>)}, set \in UpTo(4, TwoRunPool)}

\* The attack that is planted is reported caught, beside any seals there are,
\* one of another run and one that the producer signed itself among them.
Seals ==
  {Signed(QuietSeal(ThisRun, {InterceptionLeaf(ThisRun)}, named), {key}) :
     named \in {{}, {"a1"}}, key \in {ObservationKey, OtherKey}}
    \cup {Signed(QuietSeal(OtherRun, {InterceptionLeaf(OtherRun)}, {"a1"}), {ObservationKey})}

PinnedStatement ==
  {Assemble(ThisRun, <<CaughtRow("a1", << >>)>>,
            {Signed(InterceptionPayload(ThisRun, "v1"), {ObservationKey})} \cup seals, <<"c1">>) :
     seals \in UpTo(2, Seals)}

----------------------------------------------------------------------------
(* One run, two attacks: everything that can go wrong in a run *)

Observations == {InterceptionPayload(ThisRun, "v1"), ExaminationPayload(ThisRun)}

\* What a substrate can have seen, and the attacks it can have named in it.
SeenAndNamed ==
  {<<seen, named>> \in (SUBSET Observations) \X {{}, {"a1"}, TwoAttacks} :
     InterceptionPayload(ThisRun, "v1") \in seen \/ named = {}}

\* How a run can have gone when it is sealed: it lost its posture or its vantage
\* and no observation, or one observation that no bound allows, or as many as the
\* bound or one more, and neither of the two.
Endings ==
  {[posture |-> posture, armed |-> armed, drops |-> 0, bound |-> {}] :
     posture \in {"pinned", "drifted"}, armed \in BOOLEAN}
    \cup {[posture |-> "pinned", armed |-> TRUE, drops |-> lost[1], bound |-> lost[2]] :
            lost \in {<<1, {}>>, <<1, {1}>>, <<2, {1}>>}}

OneRunSeals ==
  {SealedPayload(ThisRun, e.posture, e.armed, e.drops, e.bound,
                 {PayloadLeaf(p) : p \in sn[1]}, sn[2]) :
     e \in Endings, sn \in SeenAndNamed}

OneRunRecords ==
  {{Signed(ArmingPayload(ThisRun, "pinned", attacks), {ObservationKey}),
    Signed(seal, {ObservationKey})}
     \cup {Signed(p, {ObservationKey}) : p \in observed}
     \cup {Signed(p, {OtherKey}) : p \in own} :
       attacks \in {{"a1"}, TwoAttacks}, seal \in OneRunSeals,
       observed \in SUBSET Observations,
       own \in SUBSET {QuietSeal(ThisRun, {}, {})}}

OneRunStatement ==
  {Assemble(ThisRun, <<first, second>>, set, <<"c1", "c2">>) :
     first \in RowKinds("a1"), second \in RowKinds("a2"), set \in OneRunRecords}

MCStatement == OneRunStatement \cup TwoRunStatement \cup PinnedStatement

\* The one run keeps its vantage and its posture, or loses no observation and
\* states no bound.
OneFault(r) ==
  \/ run[r].drops = 0 /\ run[r].bound = {}
  \/ run[r].posture = "pinned" /\ (run[r].phase = "ready" \/ run[r].armed)

\* Two runs under way are about one attack, examine nothing and lose nothing.
Plain(r) ==
  /\ run[r].posture = "pinned" /\ run[r].drops = 0 /\ run[r].bound = {}
  /\ run[r].phase = "ready" \/ run[r].armed
  /\ run[r].named \cup run[r].declared \subseteq {"a1"}
  /\ PayloadLeaf(ExaminationPayload(r)) \notin signed

OneAnyOrTwoPlain ==
  \/ run[OtherRun] = Fresh /\ OneFault(ThisRun)
  \/ \A r \in Run : Plain(r)

----------------------------------------------------------------------------
\* Every statement of these instances is finished: its batch root and result
\* are those of the records and rows it carries.
ASSUME FinishedAssumption == \A s \in Statement : s = Complete(s)

=============================================================================
