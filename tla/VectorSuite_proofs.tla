-------------------------- MODULE VectorSuite_proofs --------------------------
(***************************************************************************)
(* Theorems about the conformance harness: what a pass, an exit status and *)
(* a report say, for any suite, any rail and any answers. The harness adds *)
(* up what went wrong, so that each comparison it made is known of a run    *)
(* that ended with nothing to add.                                          *)
(***************************************************************************)
EXTENDS VectorSuite, FiniteSetTheorems, SequenceTheorems, WellFoundedInduction, TLAPS

----------------------------------------------------------------------------
(* What a pass says of the answers *)

LEMMA OnlyOne == \A x : The({x}) = x
BY DEF The

LEMMA NothingFound ==
  /\ \A condition, name : Fault(condition, name) = {} <=> ~condition
  /\ \A faults : Column(faults) \in {"PASS", "FAIL"} /\ (Column(faults) = "PASS" <=> faults = {})
BY DEF Fault, Column

\* A call that failed has no verdict; of one that did not, the report was read.
LEMMA AnswerIsRead ==
  ASSUME NEW answer, NEW keyed \in BOOLEAN,
         ParseExternal(answer, keyed).verdict \in {"valid", "invalid"}
  PROVE  /\ answer.report # {}
         /\ Stated(answer) = {ParseExternal(answer, keyed).verdict}
         /\ ParseExternal(answer, keyed).result = The(answer.report).result
         /\ ParseExternal(answer, keyed).tiers = The(answer.report).tiers
         /\ ~keyed => answer.exit = ParseExternal(answer, keyed).verdict
<1> DEFINE r == The(answer.report)
<1>1. answer.report # {}
  BY DEF ParseExternal, ExternalFailure
<1>2. ParseExternal(answer, keyed) = ExternalRecord(r, answer.exit, keyed)
  BY <1>1 DEF ParseExternal
<1>3. keyed \/ r.verdict \in {{}, {answer.exit}}
  BY <1>2 DEF ExternalRecord, ExternalFailure
<1>4. ParseExternal(answer, keyed) =
        [ verdict |-> IF r.verdict = {} THEN answer.exit ELSE The(r.verdict),
          codes |-> UNION r.codes, result |-> r.result, tiers |-> r.tiers,
          primaryCode |-> r.primaryCode ]
  BY <1>2, <1>3 DEF ExternalRecord
<1> HIDE DEF r
<1>5. Stated(answer) = {ParseExternal(answer, keyed).verdict}
  BY <1>1, <1>4 DEF Stated, r
<1>6. ~keyed => answer.exit = ParseExternal(answer, keyed).verdict
  <2>1. ParseExternal(answer, keyed).verdict
          = IF r.verdict = {} THEN answer.exit ELSE The(r.verdict)
    BY <1>4
  <2>2. ASSUME r.verdict = {answer.exit} PROVE The(r.verdict) = answer.exit
    BY <2>2, OnlyOne
  <2> QED
    BY <1>3, <2>1, <2>2
<1> QED
  BY <1>1, <1>4, <1>5, <1>6 DEF r

\* What an external rail is found to have said, it said.
LEMMA ObservedIsStated ==
  ASSUME NEW pinned, NEW bare, NEW o, o = ObserveExternal(pinned, bare),
         Established(o), o.verdictWithoutKey = o.verdict
  PROVE  /\ Stated(pinned) = {o.verdict} /\ Stated(bare) = {o.verdict}
         /\ bare.exit = o.verdict
         /\ o.result = The(pinned.report).result
         /\ o.resultWithoutKey = The(bare.report).result
         /\ o.tiersWithKey = The(pinned.report).tiers
         /\ o.tiersWithoutKey = The(bare.report).tiers
<1> DEFINE with == ParseExternal(pinned, TRUE)
           without == ParseExternal(bare, FALSE)
<1>1. /\ o.verdict = with.verdict /\ o.verdictWithoutKey = without.verdict
      /\ o.result = with.result /\ o.resultWithoutKey = without.result
      /\ o.tiersWithKey = with.tiers /\ o.tiersWithoutKey = without.tiers
  BY DEF ObserveExternal
<1>2. with.verdict \in {"valid", "invalid"} /\ without.verdict \in {"valid", "invalid"}
  BY <1>1 DEF Established
<1> HIDE DEF with, without
<1> QED
  BY <1>1, <1>2, AnswerIsRead DEF with, without

\* What was compared of a row that passes.
LEMMA PassedWhat ==
  ASSUME NEW row, NEW o, ScoredRow(row, o).status = "PASS"
  PROVE  LET e == ExpectedOf(row.file[2]) IN
         /\ Established(o) /\ o.verdictWithoutKey = o.verdict
         /\ o.verdict = IF row.kind = "accept" THEN "valid" ELSE "invalid"
         /\ IF row.kind = "accept"
            THEN /\ e.result # {} =>
                      /\ o.result = e.result
                      /\ o.tiersWithKey # {} => o.resultWithoutKey = e.result
                 /\ e.tierWithPinnedKey # {} => o.tiersWithKey = e.tierWithPinnedKey
                 /\ e.tierWithoutKey # {} => o.tiersWithoutKey = e.tierWithoutKey
            ELSE o.result = {}
<1> DEFINE e == ExpectedOf(row.file[2])
<1>1. Evaluate(row, o).reasons = {}
  <2>1. ScoredRow(row, o).status = Column(Evaluate(row, o).reasons \cup Evaluate(row, o).parity)
    BY DEF ScoredRow
  <2> QED
    BY <2>1, NothingFound
<1>2. /\ EvalEstablishment(o) = {}
      /\ (CASE row.kind = "accept"        -> EvalAccept(e, o)
            [] row.kind = "indeterminate" -> EvalIndeterminate(e, o)
            [] OTHER                      -> EvalRefusal(o)) = {}
  BY <1>1 DEF Evaluate
<1>3. Established(o) /\ o.verdictWithoutKey = o.verdict
  BY <1>2, NothingFound DEF EvalEstablishment
<1>4. CASE row.kind = "accept"
  <2>1. EvalAccept(e, o) = {}
    BY <1>2, <1>4
  <2>2. /\ o.verdict = "valid"
        /\ e.result # {} => o.result = e.result
        /\ EvalAcceptTiers(e, o) = {}
    BY <2>1, NothingFound DEF EvalAccept
  <2>3. /\ e.tierWithPinnedKey # {} => o.tiersWithKey = e.tierWithPinnedKey
        /\ e.tierWithoutKey # {} => o.tiersWithoutKey = e.tierWithoutKey
        /\ o.tiersWithKey # {} /\ o.result # {} => o.resultWithoutKey = o.result
    BY <2>2, NothingFound DEF EvalAcceptTiers
  <2> QED
    BY <1>3, <1>4, <2>2, <2>3
<1>5. CASE row.kind # "accept"
  <2>1. EvalRefusal(o) = {}
    BY <1>2, <1>5 DEF EvalIndeterminate
  <2>2. o.verdict = "invalid" /\ o.result = {}
    BY <2>1, NothingFound DEF EvalRefusal, Emitted
  <2> QED
    BY <1>3, <1>5, <2>2
<1> QED
  BY <1>4, <1>5

----------------------------------------------------------------------------
(* What a run has added up *)

Replayable == ManifestRows # << >> /\ FlatLayout

\* The columns of a row.
IsScore(row) ==
  row = [ id |-> row.id, kind |-> row.kind, opened |-> row.opened, status |-> row.status,
          conformance |-> row.conformance, parity |-> row.parity, codes |-> row.codes,
          primaryCode |-> row.primaryCode ]

\* The scores are those of the rows so far, and a row that is not read or is
\* found wanting anywhere fails.
ScoresOfRows ==
  /\ scores \in Seq({scores[i] : i \in DOMAIN scores})
  /\ \A i \in DOMAIN scores :
       /\ IsScore(scores[i])
       /\ scores[i].status \in {"PASS", "FAIL"}
       /\ scores[i].status = "PASS" => scores[i].opened

\* A run with no failure so far has no row that failed, and nothing was found by
\* the comparisons it has behind it.
NothingAddedUp ==
  failures = 0 =>
    /\ \A i \in DOMAIN scores : scores[i].status = "PASS"
    /\ pc \in {"coherence", "report"} => ClosureFailures = {}
    /\ pc = "report" => CoherenceFailures = {}

\* A run that ended well went through all of it, and its report was written from
\* the scores as they are.
EndedWell ==
  exit = {0} =>
    /\ failures = 0 /\ report # {} /\ Replayable
    /\ \A i \in DOMAIN scores : scores[i].status = "PASS"
    /\ ClosureFailures = {} /\ CoherenceFailures = {}

Reported ==
  \A r \in report :
    /\ r.fail = Cardinality(Failed) /\ r.vectors = Len(scores)
    /\ r.conform = Cardinality({i \in DOMAIN scores : scores[i].conformance = "PASS"})
    /\ r.suiteRefusals = IF failures < Cardinality(Failed) THEN 0
                         ELSE failures - Cardinality(Failed)
    /\ exit = {0} <=> failures = 0

IInv ==
  /\ suite \in Suites /\ TypeOK /\ ScoresOfRows
  /\ reply = [pinned |-> reply.pinned, bare |-> reply.bare]
  /\ pc \notin {"start", "done"} => Replayable
  /\ pc \in {"pinned", "bare", "judge"} => next \in DOMAIN ManifestRows
  /\ pc # "done" => report = {}
  /\ NothingAddedUp /\ EndedWell /\ Reported

\* What depends on the suite alone stays, for the suite does.
LEMMA SuiteStays ==
  ASSUME suite' = suite
  PROVE  /\ ManifestRows' = ManifestRows
         /\ Replayable' = Replayable
         /\ ClosureFailures' = ClosureFailures
         /\ \A name : ExpectedOf(name)' = ExpectedOf(name)
<1>1. ManifestRows' = ManifestRows
  BY DEF ManifestRows
<1>2. Elements' = Elements
  BY <1>1 DEF Elements
<1>3. VectorIds' = VectorIds
  BY <1>2 DEF VectorIds
<1>4. \A id : Index(id)' = Index(id)
  BY <1>1 DEF Index
<1>5. Directories' = Directories
  BY <1>3, <1>4 DEF Directories
<1>6. FlatLayout' = FlatLayout /\ Flat' = Flat
  BY <1>5 DEF FlatLayout, Flat
<1>7. /\ \A kind : Listed(kind)' = Listed(kind)
      /\ ListedKinds' = ListedKinds
  BY <1>3, <1>4 DEF Listed, ListedKinds
<1>8. \A dir : FilesIn(dir)' = FilesIn(dir)
  BY DEF FilesIn
<1>9. KindCoverage' = KindCoverage
  BY <1>7 DEF KindCoverage
<1>10. BothDirections' = BothDirections
  BY <1>3, <1>4, <1>6, <1>7, <1>8 DEF BothDirections
<1>11. StrayDirectories' = StrayDirectories
  BY <1>6, <1>7, <1>8 DEF StrayDirectories
<1>12. Counts' = Counts
  BY <1>3, <1>6, <1>7, <1>8 DEF Counts
<1>13. ClosureFailures' = ClosureFailures
  BY <1>9, <1>10, <1>11, <1>12 DEF ClosureFailures
<1>14. \A name : ExpectedOf(name)' = ExpectedOf(name)
  BY <1>3, <1>4 DEF ExpectedOf
<1>15. Replayable' = Replayable
  BY <1>1, <1>6 DEF Replayable
<1> QED
  BY <1>1, <1>13, <1>14, <1>15

LEMMA CoherenceStays ==
  ASSUME suite' = suite, scores' = scores
  PROVE  /\ CoherenceFailures' = CoherenceFailures
         /\ Failed' = Failed
<1>1. \A name : ExpectedOf(name)' = ExpectedOf(name)
  BY SuiteStays
<1>2. \A family : FamilyMembers(family)' = FamilyMembers(family)
  BY <1>1 DEF FamilyMembers
<1>3. Families' = Families
  BY <1>1 DEF Families
<1>4. \A row, reading, committed :
        Answers(row, reading, committed)' <=> Answers(row, reading, committed)
  BY <1>1 DEF Answers
<1>5. \A family : Coherent(family)' <=> Coherent(family)
  BY <1>1, <1>2, <1>4 DEF Coherent
<1>6. CoherenceFailures' = CoherenceFailures
  BY <1>3, <1>5 DEF CoherenceFailures
<1> QED
  BY <1>6 DEF Failed

----------------------------------------------------------------------------
(* There is finitely much to find, so that nothing found is none of it *)

LEMMA FiniteImage ==
  ASSUME NEW S, IsFiniteSet(S), NEW f
  PROVE  IsFiniteSet({f[x] : x \in S})
<1> DEFINE g == [x \in S |-> f[x]]
           T == {f[x] : x \in S}
<1>1. g \in Surjection(S, T)
  BY DEF Surjection
<1> QED
  BY <1>1, FS_Surjection

\* A finite set of positions has a last one, and any set of them a first.
Precedes == {pair \in Nat \X Nat : pair[1] < pair[2]}

LEMMA FirstPosition ==
  ASSUME NEW set, set \subseteq Nat, set # {}
  PROVE  \E k \in set : \A l \in set : k <= l
<1>1. IsWellFoundedOn(Precedes, Nat)
  BY NatLessThanWellFounded, Zenon DEF OpToRel, Precedes
<1>2. PICK k \in set : \A l \in set : ~(<<l, k>> \in Precedes)
  BY <1>1, WFMin
<1>3. ASSUME NEW l \in set PROVE k <= l
  <2>1. <<l, k>> \in Nat \X Nat
    OBVIOUS
  <2>2. ~(l < k)
    BY <1>2, <2>1 DEF Precedes
  <2> QED
    BY <2>2
<1> QED
  BY <1>3

LEMMA LastPosition ==
  ASSUME NEW n \in Nat, NEW set, set \subseteq 1..n, set # {}
  PROVE  \E k \in set : \A l \in set : l <= k
<1> DEFINE mirrored == {n - k : k \in set}
<1>1. mirrored \subseteq Nat /\ mirrored # {}
  OBVIOUS
<1>2. PICK m \in mirrored : \A l \in mirrored : m <= l
  BY <1>1, FirstPosition
<1>3. PICK k \in set : m = n - k
  OBVIOUS
<1>4. ASSUME NEW l \in set PROVE l <= k
  <2>1. n - l \in mirrored
    OBVIOUS
  <2>2. n - k <= n - l
    BY <1>2, <1>3, <2>1
  <2> HIDE DEF mirrored
  <2> QED
    BY <2>2
<1> QED
  BY <1>4

LEMMA CountOf == \A n \in Nat : IsFiniteSet(1..n) /\ Cardinality(1..n) = n
BY FS_Interval

LEMMA FiniteSuite ==
  ASSUME suite \in Suites
  PROVE  /\ WellFormed(suite)
         /\ IsFiniteSet(DOMAIN ManifestRows) /\ IsFiniteSet(Elements) /\ IsFiniteSet(VectorIds)
         /\ IsFiniteSet(ListedKinds)
         /\ \A dir : IsFiniteSet(FilesIn(dir))
         /\ \A name : LET family == ExpectedOf(name).family IN
              IsFiniteSet(family) /\ Cardinality(family) <= 1
<1>1. WellFormed(suite)
  BY SuiteAssumption
<1>2. IsFiniteSet(DOMAIN ManifestRows)
  <2>1. Len(ManifestRows) \in Nat /\ DOMAIN ManifestRows = 1..Len(ManifestRows)
    BY <1>1 DEF WellFormed, ManifestRows
  <2> QED
    BY <2>1, FS_Interval
<1>3. IsFiniteSet(Elements)
  BY <1>2, FiniteImage DEF Elements
<1>4. IsFiniteSet(VectorIds)
  <2> DEFINE f == [row \in Elements |-> row.id]
  <2>1. VectorIds = {f[row] : row \in Elements}
    BY DEF VectorIds
  <2> HIDE DEF f
  <2> QED
    BY <1>3, <2>1, FiniteImage
<1>5. IsFiniteSet(ListedKinds)
  <2> DEFINE f == [id \in VectorIds |-> The(Index(id)).kind]
  <2>1. ListedKinds = {f[id] : id \in VectorIds}
    BY DEF ListedKinds
  <2> HIDE DEF f
  <2> QED
    BY <1>4, <2>1, FiniteImage
<1>6. ASSUME NEW dir PROVE IsFiniteSet(FilesIn(dir))
  <2>1. FilesIn(dir) \in SUBSET suite.onDisk
    BY DEF FilesIn
  <2> QED
    BY <1>1, <2>1, FS_Subset DEF WellFormed
<1>7. ASSUME NEW name
      PROVE  /\ IsFiniteSet(ExpectedOf(name).family)
             /\ Cardinality(ExpectedOf(name).family) <= 1
  <2>1. CASE name \notin VectorIds
    BY <2>1, FS_EmptySet DEF ExpectedOf, NoExpectation
  <2>2. CASE name \in VectorIds
    <3>1. Index(name) # {}
      <4> DEFINE named == {i \in DOMAIN ManifestRows : ManifestRows[i].id = name}
      <4>1. named # {}
        BY <2>2 DEF VectorIds, Elements
      <4>2. Len(ManifestRows) \in Nat /\ named \subseteq 1..Len(ManifestRows)
        BY <1>1 DEF WellFormed, ManifestRows
      <4>3. PICK j \in named : \A k \in named : k <= j
        BY <4>1, <4>2, LastPosition
      <4> QED
        BY <4>3 DEF Index
    <3>2. The(Index(name)) \in Index(name)
      BY <3>1 DEF The
    <3>3. PICK i \in DOMAIN ManifestRows : The(Index(name)) = ManifestRows[i]
      BY <3>2 DEF Index
    <3> QED
      BY <1>1, <2>2, <3>3 DEF ExpectedOf, WellFormed, ManifestRows
  <2> QED
    BY <2>1, <2>2
<1> QED
  BY <1>1, <1>2, <1>3, <1>4, <1>5, <1>6, <1>7

LEMMA FewClosureFailures == suite \in Suites => IsFiniteSet(ClosureFailures)
<1> SUFFICES ASSUME suite \in Suites PROVE IsFiniteSet(ClosureFailures)
  OBVIOUS
<1>1. /\ IsFiniteSet(VectorIds) /\ IsFiniteSet(ListedKinds)
      /\ \A dir : IsFiniteSet(FilesIn(dir))
      /\ IsFiniteSet(suite.directories)
      /\ \A counts \in suite.counts : IsFiniteSet(DOMAIN counts)
  BY FiniteSuite DEF WellFormed
<1>2. IsFiniteSet(REPLAYED_KINDS)
  <2>1. REPLAYED_KINDS = (({} \cup {"accept"}) \cup {"indeterminate"}) \cup {"reject"}
    BY DEF REPLAYED_KINDS
  <2> QED
    BY <2>1, FS_EmptySet, FS_AddElement
<1>3. \A S, T : IsFiniteSet(S) /\ IsFiniteSet(T) => IsFiniteSet(S \cup T)
  BY FS_Union
<1>4. \A S : \A T \in SUBSET S : IsFiniteSet(S) => IsFiniteSet(T)
  BY FS_Subset
<1>5. \A tag, S : IsFiniteSet(S) => IsFiniteSet({<<tag, x>> : x \in S})
  <2> SUFFICES ASSUME NEW tag, NEW S, IsFiniteSet(S)
               PROVE  IsFiniteSet({<<tag, x>> : x \in S})
    OBVIOUS
  <2> DEFINE f == [x \in S |-> <<tag, x>>]
  <2>1. {<<tag, x>> : x \in S} = {f[x] : x \in S}
    OBVIOUS
  <2> HIDE DEF f
  <2> QED
    BY <2>1, FiniteImage
<1>6. IsFiniteSet(KindCoverage)
  <2>1. /\ ListedKinds \ REPLAYED_KINDS \in SUBSET ListedKinds
        /\ REPLAYED_KINDS \ ListedKinds \in SUBSET REPLAYED_KINDS
    OBVIOUS
  <2>2. /\ IsFiniteSet(ListedKinds \ REPLAYED_KINDS)
        /\ IsFiniteSet(REPLAYED_KINDS \ ListedKinds)
    BY <1>1, <1>2, <1>4, <2>1
  <2> QED
    BY <1>3, <1>5, <2>2 DEF KindCoverage
<1>7. IsFiniteSet(BothDirections)
  <2> DEFINE gone == {i \in UNION {Listed(kind) : kind \in REPLAYED_KINDS} :
                        The(Index(i)).file \notin suite.onDisk}
             left == {f \in FilesIn(Flat) : f[2] \notin VectorIds}
             g == [file \in left |-> <<"unlisted", file[2]>>]
  <2>1. gone \in SUBSET VectorIds /\ left \in SUBSET FilesIn(Flat)
    BY DEF Listed
  <2>2. IsFiniteSet(gone) /\ IsFiniteSet(left)
    BY <1>1, <1>4, <2>1
  <2>3. BothDirections = {<<"not on disk", id>> : id \in gone} \cup {g[file] : file \in left}
    BY DEF BothDirections
  <2> HIDE DEF gone, left, g
  <2>4. IsFiniteSet({g[file] : file \in left})
    BY <2>2, FiniteImage
  <2> QED
    BY <1>3, <1>5, <2>2, <2>3, <2>4
<1>8. IsFiniteSet(StrayDirectories)
  <2> DEFINE stray == {d \in suite.directories \ (ListedKinds \cup {Flat}) :
                         d \in SUITE_NON_VECTOR_DIRS => FilesIn(d) # {}}
  <2>1. stray \in SUBSET suite.directories
    OBVIOUS
  <2>2. IsFiniteSet(stray)
    BY <1>1, <1>4, <2>1
  <2>3. StrayDirectories = {<<"stray directory", dir>> : dir \in stray}
    BY DEF StrayDirectories
  <2> HIDE DEF stray
  <2> QED
    BY <1>5, <2>2, <2>3
<1>9. IsFiniteSet(Counts)
  <2>1. CASE suite.counts = {}
    <3>1. Counts = {} \cup {<<"counts", "absent">>}
      BY <2>1 DEF Counts
    <3> QED
      BY <3>1, FS_EmptySet, FS_AddElement
  <2>2. CASE suite.counts # {}
    <3> DEFINE counts == The(suite.counts)
               wrong == {k \in REPLAYED_KINDS \cap ListedKinds :
                           k \notin DOMAIN counts \/ counts[k] # Cardinality(Listed(k))}
               total == Fault(Cardinality(FilesIn(Flat)) # Cardinality(VectorIds),
                              <<"count", "total">>)
    <3>1. IsFiniteSet(DOMAIN counts)
      BY <1>1, <2>2 DEF The
    <3>2. Counts = {<<"count", kind>> : kind \in wrong}
                     \cup {<<"uncounted kind", kind>> : kind \in DOMAIN counts \ ListedKinds}
                     \cup total
      BY <2>2 DEF Counts
    <3>3. wrong \in SUBSET REPLAYED_KINDS /\ DOMAIN counts \ ListedKinds \in SUBSET DOMAIN counts
      OBVIOUS
    <3>4. IsFiniteSet(wrong) /\ IsFiniteSet(DOMAIN counts \ ListedKinds)
      BY <1>2, <1>4, <3>1, <3>3
    <3>5. IsFiniteSet(total)
      <4>1. total = {} \/ total = {} \cup {<<"count", "total">>}
        BY DEF Fault
      <4>2. IsFiniteSet({}) /\ IsFiniteSet({} \cup {<<"count", "total">>})
        BY FS_EmptySet, FS_AddElement
      <4> HIDE DEF total
      <4> QED
        BY <4>1, <4>2
    <3> HIDE DEF wrong, total, counts
    <3> QED
      BY <1>3, <1>5, <3>2, <3>4, <3>5
  <2> QED
    BY <2>1, <2>2
<1> QED
  BY <1>3, <1>6, <1>7, <1>8, <1>9 DEF ClosureFailures

LEMMA FewCoherenceFailures ==
  ASSUME suite \in Suites, ScoresOfRows
  PROVE  IsFiniteSet(CoherenceFailures)
<1>1. IsFiniteSet(DOMAIN scores)
  BY FS_Interval DEF ScoresOfRows
<1> DEFINE J == {j \in DOMAIN scores : scores[j].kind = "indeterminate"}
           f == [i \in J |-> ExpectedOf(scores[i].id).family]
<1>2. IsFiniteSet(J)
  <2>1. J \in SUBSET DOMAIN scores
    OBVIOUS
  <2> QED
    BY <1>1, <2>1, FS_Subset
<1>3. Families = UNION {f[i] : i \in J}
  BY DEF Families
<1>4. \A T \in {f[i] : i \in J} : IsFiniteSet(T)
  BY FiniteSuite
<1> HIDE DEF J, f
<1>5. IsFiniteSet({f[i] : i \in J})
  BY <1>2, FiniteImage
<1>6. IsFiniteSet(Families)
  BY <1>3, <1>4, <1>5, FS_UNION
<1>7. CoherenceFailures \in SUBSET Families
  BY DEF CoherenceFailures
<1> QED
  BY <1>6, <1>7, FS_Subset

\* What is added to the failures is a number, and nothing is added when nothing
\* is found.
LEMMA NothingToAdd ==
  ASSUME NEW S, IsFiniteSet(S), failures \in Nat
  PROVE  /\ failures + Cardinality(S) \in Nat
         /\ failures + Cardinality(S) = 0 <=> failures = 0 /\ S = {}
BY FS_CardinalityType, FS_EmptySet

----------------------------------------------------------------------------
(* The invariant *)

LEMMA RowsAreListed ==
  ASSUME suite \in Suites
  PROVE  /\ WellFormed(suite)
         /\ Len(ManifestRows) \in Nat /\ DOMAIN ManifestRows = 1..Len(ManifestRows)
<1>1. WellFormed(suite)
  BY SuiteAssumption
<1> QED
  BY <1>1 DEF WellFormed, ManifestRows

LEMMA InitIInv == Init => IInv
<1> SUFFICES ASSUME Init PROVE IInv
  OBVIOUS
<1>1. WellFormed(suite) /\ Len(ManifestRows) \in Nat
  BY RowsAreListed DEF Init
<1>2. TypeOK
  BY <1>1 DEF Init, TypeOK
<1>3. ScoresOfRows
  BY DEF Init, ScoresOfRows
<1>4. NothingAddedUp /\ EndedWell /\ Reported
  BY DEF Init, NothingAddedUp, EndedWell, Reported
<1> QED
  BY <1>2, <1>3, <1>4 DEF IInv, Init

\* The status of a scored row is that of its columns.
LEMMA ScoredRowReads ==
  ASSUME NEW row, NEW o
  PROVE  /\ IsScore(ScoredRow(row, o))
         /\ ScoredRow(row, o).id = row.file[2] /\ ScoredRow(row, o).kind = row.kind
         /\ ScoredRow(row, o).opened = TRUE
         /\ ScoredRow(row, o).status \in {"PASS", "FAIL"}
         /\ ScoredRow(row, o).status = "PASS" =>
              ScoredRow(row, o).conformance = "PASS" /\ ScoredRow(row, o).parity = "PASS"
<1> DEFINE ev == Evaluate(row, o)
<1>1. ScoredRow(row, o) =
        [ id |-> row.file[2], kind |-> row.kind, opened |-> TRUE,
          status |-> Column(ev.reasons \cup ev.parity), conformance |-> Column(ev.reasons),
          parity |-> Column(ev.parity), codes |-> o.codes, primaryCode |-> o.primaryCode ]
  BY DEF ScoredRow
<1> HIDE DEF ev
<1>2. IsScore(ScoredRow(row, o))
  BY <1>1 DEF IsScore
<1> QED
  BY <1>1, <1>2, NothingFound

\* A row of a family nothing explains is marked, and is the same row.
LEMMA MarkedRow ==
  ASSUME NEW row, IsScore(row),
         NEW marked, marked = [row EXCEPT !.status = "FAIL", !.conformance = "FAIL"]
  PROVE  /\ IsScore(marked) /\ marked.status = "FAIL"
         /\ marked.id = row.id /\ marked.kind = row.kind
<1>1. marked = [ id |-> row.id, kind |-> row.kind, opened |-> row.opened, status |-> "FAIL",
                 conformance |-> "FAIL", parity |-> row.parity, codes |-> row.codes,
                 primaryCode |-> row.primaryCode ]
  BY DEF IsScore
<1> QED
  BY <1>1 DEF IsScore

\* One more row, whatever it says.
LEMMA Append1Keeps ==
  ASSUME IInv, NEW row, Append1(row), pc \notin {"start", "done"},
         next \in DOMAIN ManifestRows, IsScore(row),
         row.id = Current.file[2], row.kind = Current.kind,
         row.status \in {"PASS", "FAIL"},
         row.status = "PASS" =>
           row.opened /\ row.conformance = "PASS" /\ row.parity = "PASS"
  PROVE  IInv'
<1>1. /\ WellFormed(suite) /\ suite' = suite
      /\ Len(ManifestRows) \in Nat /\ DOMAIN ManifestRows = 1..Len(ManifestRows)
      /\ ManifestRows' = ManifestRows /\ Replayable' = Replayable
  BY RowsAreListed, SuiteStays DEF IInv, Append1
<1> DEFINE S == {scores[i] : i \in DOMAIN scores} \cup {row}
<1>2. /\ scores \in Seq(S) /\ Len(scores) = next - 1 /\ next \in 1..Len(ManifestRows)
  BY <1>1 DEF IInv, ScoresOfRows, TypeOK
<1>3. /\ scores' \in Seq(S) /\ Len(scores') = next /\ DOMAIN scores' = 1..next
      /\ \A i \in 1..next - 1 : scores'[i] = scores[i]
      /\ scores'[next] = row
  BY <1>2 DEF Append1
<1>4. \A i \in DOMAIN scores' : i \in DOMAIN scores \/ i = next
  BY <1>2, <1>3
<1>5. ScoresOfRows'
  <2>1. scores' \in Seq({scores'[i] : i \in DOMAIN scores'})
    BY <1>3
  <2>2. \A i \in DOMAIN scores' :
          /\ IsScore(scores'[i])
          /\ scores'[i].status \in {"PASS", "FAIL"}
          /\ scores'[i].status = "PASS" => scores'[i].opened
    BY <1>2, <1>3, <1>4 DEF IInv, ScoresOfRows
  <2> QED
    BY <2>1, <2>2 DEF ScoresOfRows
<1>6. TypeOK'
  <2>1. next' = next + 1 /\ pc' = "vector" /\ exit' = exit /\ rail' = rail
        /\ failures' \in Nat /\ reply'.pinned = {} /\ reply'.bare = {}
    BY DEF Append1, IInv, TypeOK
  <2>2. \A i \in DOMAIN scores' :
          /\ scores'[i].id = ManifestRows[i].file[2] /\ scores'[i].kind = ManifestRows[i].kind
          /\ scores'[i].status = "PASS" =>
               scores'[i].conformance = "PASS" /\ scores'[i].parity = "PASS"
    BY <1>2, <1>3, <1>4 DEF IInv, TypeOK, Current
  <2> QED
    BY <1>1, <1>2, <1>3, <2>1, <2>2 DEF IInv, TypeOK
<1>7. NothingAddedUp'
  <2>1. ASSUME failures' = 0 PROVE failures = 0 /\ row.status = "PASS"
    BY <2>1 DEF Append1, IInv, TypeOK
  <2> QED
    BY <1>2, <1>3, <1>4, <2>1 DEF IInv, NothingAddedUp, Append1
<1>8. exit' = {} /\ report' = {}
  BY DEF Append1, IInv, TypeOK
<1> QED
  BY <1>1, <1>5, <1>6, <1>7, <1>8 DEF IInv, Append1, EndedWell, Reported

\* A step that leaves the scores and the failures alone, before the end.
LEMMA CallKeeps ==
  ASSUME IInv, Start \/ Call \/ \E answer : Receive(answer)
  PROVE  IInv'
<1>1. /\ suite' = suite /\ ManifestRows' = ManifestRows /\ Replayable' = Replayable
      /\ next' = next /\ scores' = scores /\ failures' = failures
      /\ exit' = exit /\ report' = report
  BY SuiteStays DEF Start, Call, Receive
<1>2. pc # "done" /\ pc' \in {"vector", "pinned", "bare", "judge"}
  BY DEF Start, Call, Receive, AtVector
<1>3. pc' \in {"pinned", "bare", "judge"} => next \in DOMAIN ManifestRows
  BY DEF Start, Call, Receive, AtVector, IInv
<1>4. Replayable
  BY DEF Start, Call, Receive, AtVector, IInv, Replayable
<1>5. TypeOK'
  <2>1. rail' \in Rails \cup {"reference"}
    BY DEF Start, Call, Receive, IInv, TypeOK
  <2>2. (reply.pinned # {})' <=> pc' \in {"bare", "judge"}
    BY DEF Start, Call, Receive, AtVector, IInv, TypeOK
  <2>3. (reply.bare # {})' <=> pc' = "judge"
    BY DEF Start, Call, Receive, AtVector, IInv, TypeOK
  <2> QED
    BY <1>1, <1>2, <2>1, <2>2, <2>3 DEF IInv, TypeOK
<1>6. ScoresOfRows'
  BY <1>1 DEF IInv, ScoresOfRows
<1>7. NothingAddedUp' /\ EndedWell' /\ Reported'
  BY <1>1, <1>2 DEF IInv, TypeOK, NothingAddedUp, EndedWell, Reported
<1>8. reply' = [pinned |-> reply'.pinned, bare |-> reply'.bare]
  BY DEF Start, Call, Receive, IInv
<1> QED
  BY <1>1, <1>2, <1>3, <1>4, <1>5, <1>6, <1>7, <1>8 DEF IInv

\* A run that ends before there is a report.
LEMMA StopKeeps == IInv /\ (Refuse \/ Crash) => IInv'
<1> SUFFICES ASSUME IInv, Refuse \/ Crash PROVE IInv'
  OBVIOUS
<1>1. /\ suite' = suite /\ ManifestRows' = ManifestRows
      /\ rail' = rail /\ next' = next /\ reply' = reply
      /\ scores' = scores /\ failures' = failures /\ report' = report
      /\ pc \in {"start", "coherence"} /\ pc' = "done" /\ exit' = {1}
  BY SuiteStays DEF Refuse, Crash, End
<1>2. TypeOK' /\ ScoresOfRows'
  BY <1>1 DEF IInv, TypeOK, ScoresOfRows
<1>3. NothingAddedUp' /\ EndedWell' /\ Reported'
  BY <1>1 DEF IInv, NothingAddedUp, EndedWell, Reported
<1> QED
  BY <1>1, <1>2, <1>3 DEF IInv

LEMMA CloseKeeps == IInv /\ Close => IInv'
<1> SUFFICES ASSUME IInv, Close PROVE IInv'
  OBVIOUS
<1>1. /\ suite' = suite /\ ManifestRows' = ManifestRows /\ Replayable' = Replayable
      /\ ClosureFailures' = ClosureFailures
      /\ rail' = rail /\ next' = next /\ reply' = reply /\ scores' = scores
      /\ exit' = exit /\ report' = report
      /\ pc = "vector" /\ pc' = "coherence"
  BY SuiteStays DEF Close
<1>2. /\ failures' \in Nat
      /\ failures' = 0 <=> failures = 0 /\ ClosureFailures = {}
  BY FewClosureFailures, NothingToAdd DEF Close, IInv, TypeOK
<1>3. TypeOK' /\ ScoresOfRows'
  BY <1>1, <1>2 DEF IInv, TypeOK, ScoresOfRows
<1>4. NothingAddedUp'
  BY <1>1, <1>2 DEF IInv, NothingAddedUp
<1>5. exit' = {} /\ report' = {}
  BY <1>1 DEF IInv, TypeOK
<1> QED
  BY <1>1, <1>3, <1>4, <1>5 DEF IInv, EndedWell, Reported

LEMMA RowsAreSequence ==
  ASSUME NEW n \in Nat, NEW f, f = [i \in 1..n |-> f[i]]
  PROVE  f \in Seq({f[i] : i \in DOMAIN f}) /\ DOMAIN f = 1..n /\ Len(f) = n
<1> DEFINE T == {f[i] : i \in DOMAIN f}
<1>1. DOMAIN f = 1..n
  OBVIOUS
<1>2. f \in [1..n -> T]
  BY <1>1
<1> HIDE DEF T
<1>3. f \in Seq(T)
  BY <1>2
<1>4. Len(f) = n
  BY <1>1, <1>3
<1> QED
  BY <1>1, <1>3, <1>4 DEF T

LEMMA CohereKeeps == IInv /\ Cohere => IInv'
<1> SUFFICES ASSUME IInv, Cohere PROVE IInv'
  OBVIOUS
<1>1. /\ suite' = suite /\ ManifestRows' = ManifestRows /\ Replayable' = Replayable
      /\ ClosureFailures' = ClosureFailures
      /\ rail' = rail /\ next' = next /\ reply' = reply
      /\ exit' = exit /\ report' = report
      /\ pc = "coherence" /\ pc' = "report"
  BY SuiteStays DEF Cohere
<1>2. /\ failures' \in Nat
      /\ failures' = 0 <=> failures = 0 /\ CoherenceFailures = {}
  BY FewCoherenceFailures, NothingToAdd DEF Cohere, IInv, TypeOK
<1>3. /\ DOMAIN scores' = DOMAIN scores /\ Len(scores') = Len(scores)
      /\ scores' \in Seq({scores'[i] : i \in DOMAIN scores'})
      /\ \A i \in DOMAIN scores :
           \/ scores'[i] = scores[i]
           \/ scores'[i] = [scores[i] EXCEPT !.status = "FAIL", !.conformance = "FAIL"]
  <2>1. CASE CoherenceFailures = {}
    <3>1. scores' = scores
      BY <2>1 DEF Cohere
    <3> QED
      BY <3>1 DEF IInv, ScoresOfRows
  <2>2. CASE CoherenceFailures # {}
    <3> DEFINE marked(i) == IF IsIndeterminate(scores[i])
                            THEN [scores[i] EXCEPT !.status = "FAIL", !.conformance = "FAIL"]
                            ELSE scores[i]
               f == [i \in DOMAIN scores |-> marked(i)]
    <3>1. scores' = << >> \o f
      BY <2>2 DEF Cohere
    <3>2. Len(scores) \in Nat /\ DOMAIN scores = 1..Len(scores)
      BY DEF IInv, ScoresOfRows
    <3>3. \A i \in DOMAIN scores : f[i] = marked(i)
      OBVIOUS
    <3>4. f = [i \in 1..Len(scores) |-> f[i]]
      BY <3>2
    <3> HIDE DEF f
    <3>5. f \in Seq({f[i] : i \in DOMAIN f}) /\ DOMAIN f = DOMAIN scores /\ Len(f) = Len(scores)
      BY <3>2, <3>4, RowsAreSequence
    <3>6. scores' = f
      BY <3>1, <3>5, ConcatEmptySeq
    <3> QED
      BY <3>3, <3>5, <3>6
  <2> QED
    BY <2>1, <2>2
<1>4. /\ \A i \in DOMAIN scores : scores'[i].id = scores[i].id /\ scores'[i].kind = scores[i].kind
      /\ \A i \in DOMAIN scores : scores'[i].status = "PASS" => scores'[i] = scores[i]
      /\ \A i \in DOMAIN scores : IsScore(scores'[i]) /\ scores'[i].status \in {"PASS", "FAIL"}
  <2> SUFFICES ASSUME NEW i \in DOMAIN scores
               PROVE  /\ scores'[i].id = scores[i].id /\ scores'[i].kind = scores[i].kind
                      /\ scores'[i].status = "PASS" => scores'[i] = scores[i]
                      /\ IsScore(scores'[i]) /\ scores'[i].status \in {"PASS", "FAIL"}
    OBVIOUS
  <2>1. IsScore(scores[i]) /\ scores[i].status \in {"PASS", "FAIL"}
    BY DEF IInv, ScoresOfRows
  <2>2. CASE scores'[i] = scores[i]
    BY <2>1, <2>2
  <2>3. CASE scores'[i] = [scores[i] EXCEPT !.status = "FAIL", !.conformance = "FAIL"]
    BY <2>1, <2>3, MarkedRow
  <2> QED
    BY <1>3, <2>2, <2>3
<1>5. TypeOK'
  <2>1. ASSUME NEW i \in DOMAIN scores'
        PROVE  /\ scores'[i].id = ManifestRows[i].file[2]
               /\ scores'[i].kind = ManifestRows[i].kind
               /\ scores'[i].status = "PASS" =>
                    scores'[i].conformance = "PASS" /\ scores'[i].parity = "PASS"
    <3>1. i \in DOMAIN scores
      BY <1>3
    <3>2. /\ scores[i].id = ManifestRows[i].file[2]
          /\ scores[i].kind = ManifestRows[i].kind
          /\ scores[i].status = "PASS" =>
               scores[i].conformance = "PASS" /\ scores[i].parity = "PASS"
      BY <3>1 DEF IInv, TypeOK
    <3>3. /\ scores'[i].id = scores[i].id /\ scores'[i].kind = scores[i].kind
          /\ scores'[i].status = "PASS" => scores'[i] = scores[i]
      BY <1>4, <3>1
    <3> QED
      BY <3>2, <3>3
  <2> QED
    BY <1>1, <1>2, <1>3, <2>1 DEF IInv, TypeOK
<1>6. ScoresOfRows'
  BY <1>3, <1>4 DEF IInv, ScoresOfRows
<1>7. NothingAddedUp'
  <2>1. ASSUME failures' = 0 PROVE scores' = scores /\ failures = 0 /\ CoherenceFailures = {}
    BY <1>2, <2>1 DEF Cohere
  <2>2. ASSUME failures' = 0 PROVE CoherenceFailures' = {}
    BY <1>1, <2>1, <2>2, CoherenceStays
  <2> QED
    BY <1>1, <2>1, <2>2 DEF IInv, NothingAddedUp
<1>8. exit' = {} /\ report' = {}
  BY <1>1 DEF IInv, TypeOK
<1> QED
  BY <1>1, <1>5, <1>6, <1>7, <1>8 DEF IInv, EndedWell, Reported

LEMMA ReportKeeps == IInv /\ Report => IInv'
<1> SUFFICES ASSUME IInv, Report PROVE IInv'
  OBVIOUS
<1>1. /\ suite' = suite /\ ManifestRows' = ManifestRows /\ Replayable' = Replayable
      /\ ClosureFailures' = ClosureFailures
      /\ rail' = rail /\ next' = next /\ reply' = reply /\ scores' = scores
      /\ failures' = failures
      /\ pc = "report" /\ pc' = "done"
  BY SuiteStays DEF Report, End
<1>2. CoherenceFailures' = CoherenceFailures /\ Failed' = Failed
  BY <1>1, CoherenceStays
<1>3. /\ failures \in Nat
      /\ exit' = {IF failures > 0 THEN 1 ELSE 0}
      /\ report' # {}
  BY DEF Report, End, IInv, TypeOK
<1>4. exit' \subseteq {0, 1} /\ exit' # {} /\ (exit' = {0} <=> failures = 0)
  BY <1>3
<1>5. TypeOK' /\ ScoresOfRows'
  BY <1>1, <1>4 DEF IInv, TypeOK, ScoresOfRows
<1>6. NothingAddedUp'
  BY <1>1 DEF IInv, NothingAddedUp
<1>7. EndedWell'
  BY <1>1, <1>2, <1>3, <1>4 DEF IInv, EndedWell, NothingAddedUp
<1>8. Reported'
  <2> SUFFICES ASSUME NEW r \in report'
               PROVE  /\ r.fail = Cardinality(Failed) /\ r.vectors = Len(scores)
                      /\ r.conform = Cardinality({i \in DOMAIN scores : scores[i].conformance = "PASS"})
                      /\ r.suiteRefusals = IF failures < Cardinality(Failed) THEN 0
                                           ELSE failures - Cardinality(Failed)
    BY <1>1, <1>2, <1>4 DEF Reported
  <2> QED
    BY DEF Report
<1> QED
  BY <1>1, <1>5, <1>6, <1>7, <1>8 DEF IInv

LEMMA NextKeeps == IInv /\ [Next]_vars => IInv'
<1> SUFFICES ASSUME IInv, [Next]_vars PROVE IInv'
  OBVIOUS
<1>1. ASSUME Unreadable PROVE IInv'
  <2>1. /\ IsScore(UnreadableRow(Current))
        /\ UnreadableRow(Current).id = Current.file[2]
        /\ UnreadableRow(Current).kind = Current.kind
        /\ UnreadableRow(Current).status = "FAIL"
    BY DEF UnreadableRow, IsScore
  <2> QED
    BY <1>1, <2>1, Append1Keeps DEF Unreadable, AtVector
<1>2. ASSUME JudgeReference PROVE IInv'
  <2>1. PICK o : Append1(ScoredRow(Current, o))
    BY <1>2 DEF JudgeReference
  <2> QED
    BY <1>2, <2>1, ScoredRowReads, Append1Keeps DEF JudgeReference, AtVector
<1>3. ASSUME Judge PROVE IInv'
  <2>1. PICK o : Append1(ScoredRow(Current, o))
    BY <1>3 DEF Judge
  <2>2. pc = "judge" /\ next \in DOMAIN ManifestRows
    BY <1>3 DEF Judge, IInv
  <2> QED
    BY <2>1, <2>2, ScoredRowReads, Append1Keeps
<1>4. ASSUME Answer \/ TimeOut PROVE IInv'
  <2>1. \E answer : Receive(answer)
    BY <1>4 DEF Answer, TimeOut
  <2> QED
    BY <2>1, CallKeeps
<1>5. ASSUME UNCHANGED vars PROVE IInv'
  <2>1. /\ suite' = suite /\ ManifestRows' = ManifestRows /\ Replayable' = Replayable
        /\ ClosureFailures' = ClosureFailures
        /\ CoherenceFailures' = CoherenceFailures /\ Failed' = Failed
    BY <1>5, SuiteStays, CoherenceStays DEF vars
  <2>2. /\ rail' = rail /\ pc' = pc /\ next' = next /\ reply' = reply /\ scores' = scores
        /\ failures' = failures /\ exit' = exit /\ report' = report
    BY <1>5 DEF vars
  <2>3. TypeOK' /\ ScoresOfRows'
    BY <2>1, <2>2 DEF IInv, TypeOK, ScoresOfRows
  <2>4. NothingAddedUp' /\ EndedWell' /\ Reported'
    BY <2>1, <2>2 DEF IInv, NothingAddedUp, EndedWell, Reported
  <2> QED
    BY <2>1, <2>2, <2>3, <2>4 DEF IInv
<1>6. CASE Start \/ Call
  BY <1>6, CallKeeps
<1>7. CASE Refuse \/ Crash
  BY <1>7, StopKeeps
<1>8. CASE Close \/ Cohere \/ Report
  BY <1>8, CloseKeeps, CohereKeeps, ReportKeeps
<1> QED
  BY <1>1, <1>2, <1>3, <1>4, <1>5, <1>6, <1>7, <1>8 DEF Next, Step

LEMMA Invariance == Spec => []IInv
<1>1. Init => IInv
  BY InitIInv
<1>2. IInv /\ [Next]_vars => IInv'
  BY NextKeeps
<1> QED
  BY <1>1, <1>2, PTL DEF Spec

\* The types of the harness's state, and that the scores are those of the rows
\* so far, in their order (main and _run_process_vector of run_vectors.py).
THEOREM TypeCorrect == Spec => []TypeOK
<1>1. IInv => TypeOK
  BY DEF IInv
<1> QED
  BY <1>1, Invariance, PTL

----------------------------------------------------------------------------
(* What the harness promises *)

\* A vector passes under an external rail only on what the rail said, in both
\* passes (evaluate_vector_detailed and observe_external of run_vectors.py).
THEOREM SilencePassesNothing == Spec => SilenceNeverPasses
<1> DEFINE earned ==
      pc = "judge" /\ scores'[next].status = "PASS" =>
       LET e       == ExpectedOf(Current.file[2])
           pinned  == The(reply.pinned)
           bare    == The(reply.bare)
           verdict == IF Current.kind = "accept" THEN {"valid"} ELSE {"invalid"}
       IN /\ Stated(pinned) = verdict /\ Stated(bare) = verdict /\ {bare.exit} = verdict
          /\ IF Current.kind = "accept"
             THEN /\ e.result # {} =>
                       /\ The(pinned.report).result = e.result
                       /\ The(pinned.report).tiers # {} => The(bare.report).result = e.result
                  /\ e.tierWithPinnedKey # {} => The(pinned.report).tiers = e.tierWithPinnedKey
                  /\ e.tierWithoutKey # {} => The(bare.report).tiers = e.tierWithoutKey
             ELSE The(pinned.report).result = {}
<1>1. IInv /\ Next => earned
  <2> SUFFICES ASSUME IInv, Next, pc = "judge", scores'[next].status = "PASS"
               PROVE  earned
    OBVIOUS
  <2>1. Judge
    BY DEF Next, Step, Refuse, Start, Unreadable, JudgeReference, Call, AtVector, TimeOut,
           Receive, Answer, Close, Cohere, Crash, Report
  <2> DEFINE pinned == The(reply.pinned)
             bare == The(reply.bare)
             o == ObserveExternal(pinned, bare)
             row == Current
             verdict == IF row.kind = "accept" THEN "valid" ELSE "invalid"
  <2>2. scores'[next] = ScoredRow(row, o)
    <3>1. scores' = Append(scores, ScoredRow(row, o))
      BY <2>1 DEF Judge, Append1
    <3>2. scores \in Seq({scores[i] : i \in DOMAIN scores}) /\ Len(scores) = next - 1
          /\ next \in Int
      BY RowsAreListed DEF IInv, ScoresOfRows, TypeOK
    <3> HIDE DEF row, o
    <3> QED
      BY <3>1, <3>2
  <2>3. ScoredRow(row, o).status = "PASS"
    BY <2>2
  <2> HIDE DEF o
  <2>4. /\ Established(o) /\ o.verdictWithoutKey = o.verdict /\ o.verdict = verdict
        /\ IF row.kind = "accept"
           THEN /\ ExpectedOf(row.file[2]).result # {} =>
                     /\ o.result = ExpectedOf(row.file[2]).result
                     /\ o.tiersWithKey # {} =>
                          o.resultWithoutKey = ExpectedOf(row.file[2]).result
                /\ ExpectedOf(row.file[2]).tierWithPinnedKey # {} =>
                     o.tiersWithKey = ExpectedOf(row.file[2]).tierWithPinnedKey
                /\ ExpectedOf(row.file[2]).tierWithoutKey # {} =>
                     o.tiersWithoutKey = ExpectedOf(row.file[2]).tierWithoutKey
           ELSE o.result = {}
    BY <2>3, PassedWhat
  <2>5. o = ObserveExternal(pinned, bare)
    BY DEF o
  <2> HIDE DEF pinned, bare
  <2>6. /\ Stated(pinned) = {o.verdict} /\ Stated(bare) = {o.verdict}
        /\ bare.exit = o.verdict
        /\ o.result = The(pinned.report).result
        /\ o.resultWithoutKey = The(bare.report).result
        /\ o.tiersWithKey = The(pinned.report).tiers
        /\ o.tiersWithoutKey = The(bare.report).tiers
    BY <2>4, <2>5, ObservedIsStated
  <2> HIDE DEF o
  <2>7. /\ Stated(pinned) = {verdict} /\ Stated(bare) = {verdict} /\ {bare.exit} = {verdict}
        /\ {verdict} = IF row.kind = "accept" THEN {"valid"} ELSE {"invalid"}
    BY <2>4, <2>6
  <2> HIDE DEF verdict
  <2>8. row.kind = "accept" =>
          /\ ExpectedOf(row.file[2]).result # {} =>
               /\ The(pinned.report).result = ExpectedOf(row.file[2]).result
               /\ The(pinned.report).tiers # {} =>
                    The(bare.report).result = ExpectedOf(row.file[2]).result
          /\ ExpectedOf(row.file[2]).tierWithPinnedKey # {} =>
               The(pinned.report).tiers = ExpectedOf(row.file[2]).tierWithPinnedKey
          /\ ExpectedOf(row.file[2]).tierWithoutKey # {} =>
               The(bare.report).tiers = ExpectedOf(row.file[2]).tierWithoutKey
    BY <2>4, <2>6
  <2>9. row.kind # "accept" => The(pinned.report).result = {}
    BY <2>4, <2>6
  <2> QED
    BY <2>7, <2>8, <2>9 DEF pinned, bare
<1>2. IInv /\ [Next]_vars => [earned]_vars
  BY <1>1
<1> QED
  BY <1>2, Invariance, PTL DEF Spec, SilenceNeverPasses

\* Of the files on disk that lie in no directory named for a kind, one for one
\* is named by a row.
LEMMA FilesAreRows ==
  ASSUME suite \in Suites, Replayable, ClosureFailures = {}
  PROVE  /\ ListedKinds = REPLAYED_KINDS
         /\ {file[2] : file \in {f \in suite.onDisk : f[1] \notin REPLAYED_KINDS}} = VectorIds
<1>1. /\ WellFormed(suite) /\ IsFiniteSet(VectorIds) /\ IsFiniteSet(FilesIn(Flat))
  BY FiniteSuite
<1>2. KindCoverage = {} /\ BothDirections = {} /\ StrayDirectories = {} /\ Counts = {}
  BY DEF ClosureFailures
<1>3. ListedKinds = REPLAYED_KINDS
  BY <1>2 DEF KindCoverage
<1>4. Flat \notin REPLAYED_KINDS
  <2>1. Directories # {}
    <3>1. Cardinality(Directories) = 1
      BY DEF Replayable, FlatLayout
    <3> QED
      BY <3>1, FS_EmptySet
  <2>2. Flat \in Directories
    BY <2>1 DEF Flat, The
  <2> QED
    BY <2>2 DEF Replayable, FlatLayout
<1>5. {f \in suite.onDisk : f[1] \notin REPLAYED_KINDS} = FilesIn(Flat)
  <2>1. ASSUME NEW f \in suite.onDisk, f[1] \notin REPLAYED_KINDS PROVE f[1] = Flat
    <3>1. f[1] \in suite.directories
      BY <1>1 DEF WellFormed
    <3>2. FilesIn(f[1]) # {}
      BY DEF FilesIn
    <3> QED
      BY <1>2, <1>3, <2>1, <3>1, <3>2 DEF StrayDirectories
  <2> QED
    BY <1>4, <2>1 DEF FilesIn
<1> DEFINE g == [f \in FilesIn(Flat) |-> f[2]]
<1>6. g \in [FilesIn(Flat) -> VectorIds]
  <2>1. \A f \in FilesIn(Flat) : f[2] \in VectorIds
    BY <1>2 DEF BothDirections
  <2> QED
    BY <2>1
<1>7. \A f, h \in FilesIn(Flat) : g[f] = g[h] => f = h
  <2>1. FilesIn(Flat) \subseteq suite.directories \X {f[2] : f \in suite.onDisk}
    BY <1>1 DEF FilesIn, WellFormed
  <2>2. \A f \in FilesIn(Flat) : f = <<Flat, f[2]>>
    BY <2>1 DEF FilesIn
  <2>3. \A f \in FilesIn(Flat) : g[f] = f[2]
    OBVIOUS
  <2> HIDE DEF g
  <2> QED
    BY <2>2, <2>3
<1>8. Cardinality(FilesIn(Flat)) = Cardinality(VectorIds)
  <2>1. suite.counts # {}
    BY <1>2 DEF Counts
  <2> QED
    BY <1>2, <2>1, NothingFound DEF Counts
<1> HIDE DEF g
<1>9. g \in Injection(FilesIn(Flat), VectorIds)
  BY <1>6, <1>7 DEF Injection, IsInjective
<1>10. g \in Surjection(FilesIn(Flat), VectorIds)
  BY <1>1, <1>8, <1>9, FS_Injection
<1>11. VectorIds = {f[2] : f \in FilesIn(Flat)}
  <2>1. \A id \in VectorIds : \E f \in FilesIn(Flat) : g[f] = id
    BY <1>10 DEF Surjection
  <2> QED
    BY <1>6, <2>1 DEF g
<1> QED
  BY <1>3, <1>5, <1>11

\* What exit status 0 is taken for, and that a run which ends otherwise reports
\* that something failed (run_suite, manifest_closure and _run_write_report of
\* run_vectors.py).
THEOREM ExitZeroEarned == Spec => []ExitZeroIsEarned
<1>1. IInv => ExitZeroIsEarned
  <2> SUFFICES ASSUME IInv PROVE ExitZeroIsEarned
    OBVIOUS
  <2>1. ASSUME exit = {0}
        PROVE  /\ report # {}
               /\ \A i \in DOMAIN scores : scores[i].status = "PASS" /\ scores[i].opened
               /\ ListedKinds = REPLAYED_KINDS
               /\ \A id \in VectorIds : The(Index(id)).file \in suite.onDisk
               /\ {file[2] : file \in {f \in suite.onDisk : f[1] \notin REPLAYED_KINDS}} = VectorIds
               /\ \A kind \in REPLAYED_KINDS :
                    The(suite.counts)[kind]
                      = Cardinality({id \in VectorIds : The(Index(id)).kind = kind})
    <3>1. /\ report # {} /\ Replayable /\ ClosureFailures = {}
          /\ \A i \in DOMAIN scores : scores[i].status = "PASS"
      BY <2>1 DEF IInv, EndedWell
    <3>2. \A i \in DOMAIN scores : scores[i].opened
      BY <3>1 DEF IInv, ScoresOfRows
    <3>3. /\ ListedKinds = REPLAYED_KINDS
          /\ {file[2] : file \in {f \in suite.onDisk : f[1] \notin REPLAYED_KINDS}} = VectorIds
      BY <3>1, FilesAreRows DEF IInv
    <3>4. BothDirections = {} /\ Counts = {}
      BY <3>1 DEF ClosureFailures
    <3>5. ASSUME NEW id \in VectorIds PROVE The(Index(id)).file \in suite.onDisk
      <4>1. id \in UNION {Listed(kind) : kind \in REPLAYED_KINDS}
        BY <3>3 DEF ListedKinds, Listed
      <4> QED
        BY <3>4, <4>1 DEF BothDirections
    <3>6. ASSUME NEW kind \in REPLAYED_KINDS
          PROVE  The(suite.counts)[kind]
                   = Cardinality({id \in VectorIds : The(Index(id)).kind = kind})
      <4>1. suite.counts # {}
        BY <3>4 DEF Counts
      <4>2. The(suite.counts)[kind] = Cardinality(Listed(kind))
        BY <3>3, <3>4, <4>1 DEF Counts
      <4> QED
        BY <4>2 DEF Listed
    <3> QED
      BY <3>1, <3>2, <3>3, <3>5, <3>6
  <2>2. ASSUME NEW r \in report
        PROVE  IF exit = {0} THEN r.fail = 0 /\ r.conform = r.vectors
                             ELSE r.fail + r.suiteRefusals > 0
    <3>1. /\ r.fail = Cardinality(Failed) /\ r.vectors = Len(scores)
          /\ r.conform = Cardinality({i \in DOMAIN scores : scores[i].conformance = "PASS"})
          /\ r.suiteRefusals = IF failures < Cardinality(Failed) THEN 0
                               ELSE failures - Cardinality(Failed)
          /\ exit = {0} <=> failures = 0
      BY DEF IInv, Reported
    <3>2. Len(scores) \in Nat /\ DOMAIN scores = 1..Len(scores)
      BY DEF IInv, ScoresOfRows
    <3>3. CASE exit = {0}
      <4>1. /\ \A i \in DOMAIN scores : scores[i].status = "PASS"
        BY <3>3 DEF IInv, EndedWell
      <4>2. Failed = {}
        BY <4>1 DEF Failed
      <4>3. {i \in DOMAIN scores : scores[i].conformance = "PASS"} = 1..Len(scores)
        BY <3>2, <4>1 DEF IInv, TypeOK
      <4>4. Cardinality(1..Len(scores)) = Len(scores)
        BY <3>2, CountOf
      <4> QED
        BY <3>1, <3>3, <4>2, <4>3, <4>4, FS_EmptySet
    <3>4. CASE exit # {0}
      <4>1. IsFiniteSet(DOMAIN scores) /\ Failed \in SUBSET DOMAIN scores
        BY <3>2, CountOf DEF Failed
      <4>2. Cardinality(Failed) \in Nat
        BY <4>1, FS_Subset, FS_CardinalityType
      <4>3. failures \in Nat /\ failures # 0
        BY <3>1, <3>4 DEF IInv, TypeOK
      <4> QED
        BY <3>1, <3>4, <4>2, <4>3
    <3> QED
      BY <3>3, <3>4
  <2> QED
    BY <2>1, <2>2 DEF ExitZeroIsEarned
<1> QED
  BY <1>1, Invariance, PTL

\* A row is of one family at most, so that a family some row is of has a first
\* member.
LEMMA FamilyHasFirst ==
  ASSUME suite \in Suites, ScoresOfRows, NEW family \in Families
  PROVE  \E first \in FamilyMembers(family) :
           /\ \A j \in FamilyMembers(family) : first <= j
           /\ \A i \in FamilyMembers(family) :
                (\A j \in FamilyMembers(family) : i <= j) => i = first
<1>1. PICK i \in DOMAIN scores :
        scores[i].kind = "indeterminate" /\ family \in ExpectedOf(scores[i].id).family
  BY DEF Families
<1>2. ExpectedOf(scores[i].id).family = {family}
  <2> DEFINE of == ExpectedOf(scores[i].id).family
  <2>1. IsFiniteSet(of) /\ Cardinality(of) <= 1
    BY FiniteSuite
  <2> HIDE DEF of
  <2>2. of # {}
    BY <1>1 DEF of
  <2>3. Cardinality(of) = 1
    BY <2>1, <2>2, FS_CardinalityType, FS_EmptySet
  <2>4. \E x : of = {x}
    BY <2>1, <2>3, FS_Singleton
  <2> QED
    BY <1>1, <2>4 DEF of
<1>3. FamilyMembers(family) # {} /\ FamilyMembers(family) \subseteq Nat
  BY <1>1, <1>2 DEF FamilyMembers, ScoresOfRows
<1>4. PICK first \in FamilyMembers(family) : \A j \in FamilyMembers(family) : first <= j
  BY <1>3, FirstPosition
<1>5. ASSUME NEW k \in FamilyMembers(family), \A j \in FamilyMembers(family) : k <= j
      PROVE  k = first
  <2>1. k <= first /\ first <= k /\ k \in Nat /\ first \in Nat
    BY <1>3, <1>4, <1>5
  <2> QED
    BY <2>1
<1> QED
  BY <1>4, <1>5

\* A run that ends well has read every member of an indeterminate family the
\* same way (family_coherence_failures of run_vectors.py).
THEOREM FamiliesReadOneWay == Spec => []OneReadingExplainsFamily
<1>1. IInv => OneReadingExplainsFamily
  <2> SUFFICES ASSUME IInv, exit = {0}, NEW family \in Families
               PROVE  LET members == FamilyMembers(family)
                          first == The({i \in members : \A j \in members : i <= j})
                      IN \E reading \in DOMAIN ExpectedOf(scores[first].id).readings :
                           \A i \in members :
                             /\ reading \in DOMAIN ExpectedOf(scores[i].id).readings
                             /\ ExpectedOf(scores[i].id).readings[reading]
                                  \in scores[i].codes \cup scores[i].primaryCode
    BY DEF OneReadingExplainsFamily
  <2> DEFINE members == FamilyMembers(family)
  <2>1. Coherent(family)
    BY DEF IInv, EndedWell, CoherenceFailures
  <2>2. PICK first \in members :
          /\ \A j \in members : first <= j
          /\ \A i \in members : (\A j \in members : i <= j) => i = first
    BY FamilyHasFirst DEF IInv
  <2>3. (CHOOSE i \in members : \A j \in members : i <= j) = first
    BY <2>2
  <2>4. The({i \in members : \A j \in members : i <= j}) = first
    <3>1. {i \in members : \A j \in members : i <= j} = {first}
      BY <2>2
    <3> QED
      BY <3>1, OnlyOne
  <2>5. PICK reading \in DOMAIN ExpectedOf(scores[first].id).readings :
          \A i \in members :
            Answers(scores[i], reading, \A j \in members : scores[j].primaryCode # {})
    BY <2>1, <2>3 DEF Coherent
  <2>6. \A i \in members :
          /\ reading \in DOMAIN ExpectedOf(scores[i].id).readings
          /\ ExpectedOf(scores[i].id).readings[reading]
               \in scores[i].codes \cup scores[i].primaryCode
    BY <2>5 DEF Answers
  <2> QED
    BY <2>4, <2>5, <2>6
<1> QED
  BY <1>1, Invariance, PTL

=============================================================================
