--------------------------- MODULE CorpusPipeline ---------------------------
(***************************************************************************)
(* How the corpus under vectors/ is made and what may disturb it: the three *)
(* generators, vectors/accept/gen_valid_vectors.py, vectors/reject/         *)
(* gen_invalid_vectors.py and vectors/gen_manifest.py, each a process that  *)
(* writes one file after the other and may refuse or die between any two of *)
(* them, over a directory that people also edit by hand; and the two gates  *)
(* over what is there, scripts/regenerability-gate.py and                   *)
(* scripts/accept-anchor-gate.py.                                           *)
(*                                                                          *)
(* A statement is its body and the mutations it carries, and its published  *)
(* identifier, a digest of its bytes, is the statement itself: vector_id    *)
(* is injective. What GeneratorChecks says of one statement is here the     *)
(* sets Valid and Unsound.                                                  *)
(***************************************************************************)
EXTENDS FiniteSetsExt, Sequences, Integers, Functions

CONSTANTS
  AcceptOrder,   \* the slugs of build_vectors, in order
  RejectOrder,   \* VECTORS, in order
  IndOrder,      \* IND_VECTORS, in order
  Short,         \* the short references a slug may be meant by
  Bodies,        \* the accept statements that are ever built
  Valid,         \* the bodies both generators' self-checks find nothing in
  Result,        \* the result a body carries
  Mutations,
  Unsound,       \* the mutations that leave a second fault
  Sources,       \* what the authored tables may say
  HandPlaced,    \* the files people put there: a name and a statement
  FirstSource,   \* what they say to begin with
  MaxMishaps     \* how often a process dies or anybody edits a table or the tree

Statement(body, muts) == [body |-> body, muts |-> muts]
Statements == [body : Bodies, muts : SUBSET Mutations]
Names      == Statements
TornFile   == Statement("torn", {})

AcceptSlugs == Range(AcceptOrder)
RejectSlugs == Range(RejectOrder)
IndSlugs    == Range(IndOrder)

\* What Python can hold under these names; what the authors wrote may be wrong
\* in any other way.
WellFormed(s) ==
  /\ DOMAIN s.accept \subseteq AcceptSlugs /\ \A slug \in DOMAIN s.accept : s.accept[slug] \in Bodies
  /\ DOMAIN s.reject \subseteq RejectSlugs /\ \A slug \in DOMAIN s.reject : s.reject[slug].muts \subseteq Mutations
  /\ DOMAIN s.ind \subseteq IndSlugs /\ \A slug \in DOMAIN s.ind : s.ind[slug].muts \subseteq Mutations
  /\ \A id \in DOMAIN s.exceptions : s.exceptions[id] \in Int

ASSUME SourcesAreTables == FirstSource \in Sources /\ \A s \in Sources : WellFormed(s)

\* The accept vectors are a dict, and the assertions of write_reject_vectors and
\* main keep the slugs of the other two apart.
ASSUME SlugsAreDistinct ==
  /\ \A order \in {AcceptOrder, RejectOrder, IndOrder} :
       order \in Seq(Range(order)) /\ IsInjective(order)
  /\ RejectSlugs \cap IndSlugs = {}

\* No statement is what is left of a file that was not written to its end.
ASSUME StatementsParse == "torn" \notin Bodies /\ IsFiniteSet(Mutations)

VARIABLES
  src,       \* the authored tables: the generators' own source
  disk,      \* the generated files
  baseline,  \* docs/ACCEPT-ANCHOR-BASELINE.json
  run,       \* the generator under way
  recipe,    \* how many generators of the recipe ended well, in order, with
             \* nothing else happening to the tables or the tree
  last,      \* how the last process ended, until anything else happens
  mishaps

pipelineVars == <<src, disk, baseline, run, recipe, last, mishaps>>

NoTable     == [form |-> "missing", rows |-> {}]
Torn        == [form |-> "torn", rows |-> {}]
Table(rows) == [form |-> "table", rows |-> rows]
NoManifest        == [form |-> "missing", rows |-> {}, digest |-> << >>]
TornManifest      == [form |-> "torn", rows |-> {}, digest |-> << >>]
Manifest(rows, d) == [form |-> "table", rows |-> rows, digest |-> d]
NoMap       == [form |-> "missing", ids |-> << >>]
TornMap     == [form |-> "torn", ids |-> << >>]
IdMap(ids)  == [form |-> "table", ids |-> ids]

EmptyTree ==
  [ files |-> << >>, map |-> NoMap, accept |-> NoTable, reject |-> NoTable,
    ind |-> NoTable, manifest |-> NoManifest ]

Idle == [gen |-> "none", pc |-> "idle", src |-> {}, n |-> 0, ids |-> << >>, parents |-> << >>,
         out |-> NoManifest, invalid |-> FALSE, disturbed |-> FALSE]

NoEnd == [gen |-> "none", ok |-> FALSE, inOrder |-> FALSE]

Put(f, name, value) == [x \in DOMAIN f \cup {name} |-> IF x = name THEN value ELSE f[x]]
Distinct(f)         == IsInjective(f)

----------------------------------------------------------------------------
(* What a generator makes of the tables *)

\* write_index of the accept generator: a row for each vector that was built,
\* a vector for each row and each anchor, and the result the statement carries.
AcceptRowsAgree(s) ==
  /\ DOMAIN s.rows = DOMAIN s.accept
  /\ s.anchors \subseteq DOMAIN s.rows
  /\ \A slug \in DOMAIN s.rows : s.rows[slug].result = Result[s.accept[slug]]

AcceptRows(s, ids) ==
  {[id |-> ids[slug], result |-> s.rows[slug].result, conds |-> s.rows[slug].conds] :
     slug \in DOMAIN s.rows}

\* published_parent: the accept slugs a short reference may mean.
Meant(ref, ids) ==
  IF ref \in DOMAIN ids THEN {ref} ELSE {slug \in DOMAIN ids : ref \in Short[slug]}

Resolves(entries, ids) ==
  \A slug \in DOMAIN entries : Cardinality(Meant(entries[slug].parent, ids)) = 1

\* The rows of one of the reject generator's two tables.
DerivedRows(entries, ids, parents) ==
  {[id |-> ids[slug], conds |-> entries[slug].conds,
    parent |-> parents[CHOOSE p \in Meant(entries[slug].parent, parents) : TRUE]] :
     slug \in DOMAIN entries}

\* What a builder returns: its parent, read from the disk, and one edit of it.
Mutated(parent, entry) == Statement(parent.body, parent.muts \cup entry.muts)
SecondFault(st)        == st.muts \cap Unsound # {}

\* parent_gate_check
IsValid(st) == st.body \in Valid /\ st.muts = {}

Parents(s) == {s.reject[slug].from : slug \in DOMAIN s.reject}
                \cup {s.ind[slug].from : slug \in DOMAIN s.ind}

----------------------------------------------------------------------------
(* gen_manifest.py, all of whose checks come before its one write *)

\* accept_slugs: the slug a published identifier was authored under.
SlugOf(map, id) ==
  LET of == {slug \in DOMAIN map.ids : map.ids[slug] = id}
  IN  IF of = {} THEN "none" ELSE CHOOSE slug \in of : TRUE

ManifestRows(s, t) ==
  {[id |-> r.id, kind |-> "accept", conds |-> r.conds,
    pinned |-> SlugOf(t.map, r.id) \in s.pins] : r \in t.accept.rows}
  \cup {[id |-> r.id, kind |-> "reject", conds |-> r.conds, pinned |-> FALSE] : r \in t.reject.rows}
  \cup {[id |-> r.id, kind |-> "indeterminate", conds |-> r.conds, pinned |-> FALSE] : r \in t.ind.rows}

\* MUTANT of ManifestRefused: only rows without a file are refused.
ManifestRefusedOneWay(s, t) ==
  \/ t.map.form # "table"
  \/ t.accept.form # "table" \/ t.accept.rows = {}
  \/ ~(s.pins \subseteq {SlugOf(t.map, r.id) : r \in t.accept.rows})
  \/ t.reject.form # "table" \/ t.reject.rows = {}
  \/ t.ind.form = "missing"
  \/ ~({row.id : row \in ManifestRows(s, t)} \subseteq DOMAIN t.files)

\* table_rows, check_tier_claims and the closure of main, in both directions.
\* Only the two large tables have to have a row.
ManifestRefused(s, t) ==
  \/ t.map.form # "table"
  \/ t.accept.form # "table" \/ t.accept.rows = {}
  \/ ~(s.pins \subseteq {SlugOf(t.map, r.id) : r \in t.accept.rows})
  \/ t.reject.form # "table" \/ t.reject.rows = {}
  \/ t.ind.form = "missing"
  \/ DOMAIN t.files # {row.id : row \in ManifestRows(s, t)}

ManifestOf(s, t) == Manifest(ManifestRows(s, t), t.files)

----------------------------------------------------------------------------
(* regenerability-gate.py: the generators run over a copy of the tracked    *)
(* tree from which every generated file has been wiped                      *)

AcceptIds(s) == [slug \in DOMAIN s.accept |-> Statement(s.accept[slug], {})]

DerivedFrom(s, entries) ==
  [slug \in DOMAIN entries |-> Mutated(AcceptIds(s)[entries[slug].from], entries[slug])]
DerivedIds(s) ==
  [slug \in DOMAIN s.reject \cup DOMAIN s.ind |->
     IF slug \in DOMAIN s.reject THEN DerivedFrom(s, s.reject)[slug] ELSE DerivedFrom(s, s.ind)[slug]]

\* What the three of them write.
Written(s) ==
  LET ids   == AcceptIds(s)
      files == Range(ids) \cup Range(DerivedIds(s))
  IN  [ files |-> [st \in files |-> st], map |-> IdMap(ids), manifest |-> NoManifest,
        accept |-> Table(AcceptRows(s, ids)),
        reject |-> Table(DerivedRows(s.reject, DerivedFrom(s, s.reject), ids)),
        ind    |-> Table(DerivedRows(s.ind, DerivedFrom(s, s.ind), ids)) ]
Regenerated(s) == [Written(s) EXCEPT !.manifest = ManifestOf(s, Written(s))]

\* All three exit zero.
AcceptExitsZero(s) ==
  /\ Distinct(AcceptIds(s)) /\ AcceptRowsAgree(s)
  /\ \A slug \in DOMAIN s.accept : IsValid(AcceptIds(s)[slug])
RejectExitsZero(s) ==
  /\ Parents(s) \subseteq DOMAIN s.accept /\ DOMAIN s.accept # {}
  /\ Distinct(DerivedIds(s))
  /\ \A slug \in DOMAIN DerivedIds(s) : ~SecondFault(DerivedIds(s)[slug])
  /\ s.clauses \subseteq DOMAIN DerivedIds(s)
  /\ Resolves(s.reject, AcceptIds(s)) /\ Resolves(s.ind, AcceptIds(s))
Regenerates(s) ==
  AcceptExitsZero(s) /\ RejectExitsZero(s) /\ ~ManifestRefused(s, Written(s))

\* OWNED: the map is no part of the published tree.
Owned(t) == [t EXCEPT !.map = NoMap]

\* compare, over the working tree
RegenerabilityOk(s, t) == Regenerates(s) /\ Owned(t) = Owned(Regenerated(s))

----------------------------------------------------------------------------
(* accept-anchor-gate.py *)

OfKind(t, kind) == {row \in t.manifest.rows : row.kind = kind}
IdsOf(rows)     == {row.id : row \in rows}
Conditions(rows) == UNION {row.conds : row \in rows}

\* check_parents: each refusal's parent is shipped as an accept vector, and
\* the index and the manifest name the same refusals.
ParentsShipped(t) ==
  /\ IdsOf(OfKind(t, "reject")) = IdsOf(t.reject.rows)
  /\ \A row \in t.reject.rows : row.parent \in IdsOf(OfKind(t, "accept"))

\* mutation_paths: in how many places two statements differ. Two bodies differ
\* in more than one, and a file that does not parse differs in one.
Distance(parent, child) ==
  IF parent = child THEN 0
  ELSE IF TornFile \in {parent, child} THEN 1
  ELSE (IF parent.body = child.body THEN 0 ELSE 2) + Cardinality(SymDiff(parent.muts, child.muts))

\* MUTANT of OneMutation: no mutation at all is taken for one.
OneMutationAtMost(s, t) ==
  \A row \in t.reject.rows :
    LET count == Distance(t.files[row.parent], t.files[row.id]) IN
    IF row.id \in DOMAIN s.exceptions THEN count = s.exceptions[row.id] ELSE count <= 1

\* check_one_mutation: one, or what the declaration says, which is never one.
OneMutation(s, t) ==
  /\ \A row \in t.reject.rows :
       LET count == Distance(t.files[row.parent], t.files[row.id]) IN
       IF row.id \in DOMAIN s.exceptions THEN count # 1 /\ count = s.exceptions[row.id]
       ELSE count = 1
  /\ DOMAIN s.exceptions \subseteq IdsOf(t.reject.rows)

\* condition_sides
Refused(t)  == Conditions(OfKind(t, "reject"))
Accepted(t) == Conditions(t.manifest.rows \ OfKind(t, "reject"))
Anchored(t) == Refused(t) \cap Accepted(t)

\* What the gate cannot read is a failure, and so are a corpus with no refusal
\* and an exception for a vector that needs none (load_exceptions).
AnchorReadable(s, t) ==
  /\ t.manifest.form = "table" /\ t.reject.form = "table" /\ t.reject.rows # {}
  /\ Refused(t) # {}
  /\ \A id \in DOMAIN s.exceptions : s.exceptions[id] >= 2
  /\ \A row \in t.reject.rows : row.parent \in IdsOf(OfKind(t, "accept"))
       => {row.parent, row.id} \subseteq DOMAIN t.files

\* check_ratchet
Regressed(t, b)    == b.anchored \cap (Refused(t) \ Accepted(t))
HoldsNothing(t, b) == b.anchored = {} /\ Anchored(t) # {}

AnchorOk(s, t, b) ==
  /\ AnchorReadable(s, t) /\ b.form = "table"
  /\ ParentsShipped(t) /\ OneMutation(s, t)
  /\ Regressed(t, b) = {} /\ ~HoldsNothing(t, b)

----------------------------------------------------------------------------
(* A generator run *)

PipelineInit ==
  /\ src = FirstSource
  /\ disk = EmptyTree /\ baseline = [form |-> "missing", anchored |-> {}]
  /\ run = Idle /\ recipe = 0 /\ last = NoEnd /\ mishaps = 0

Place(gen) == CASE gen = "accept" -> 1 [] gen = "reject" -> 2 [] gen = "manifest" -> 3

\* The tables are read when the process starts.
Start(gen, pc) ==
  /\ run.gen = "none"
  /\ run' = [Idle EXCEPT !.gen = gen, !.pc = pc, !.src = src, !.n = 1]
  /\ recipe' = IF recipe < Place(gen) - 1 THEN 0 ELSE Place(gen) - 1
  /\ last' = NoEnd
  /\ UNCHANGED <<src, disk, baseline, mishaps>>

StartAccept   == Start("accept", "accept")
StartReject   == Start("reject", "loadMap")
StartManifest == Start("manifest", "readTables")

Goto(pc) == run' = [run EXCEPT !.pc = pc]

InOrder == ~run.disturbed /\ recipe = Place(run.gen) - 1

End(ok) ==
  /\ run' = Idle
  /\ recipe' = IF ok /\ InOrder THEN Place(run.gen) ELSE 0
  /\ last' = [gen |-> run.gen, ok |-> ok, inOrder |-> InOrder]
  /\ UNCHANGED <<src, baseline, mishaps>>

\* A refusal, and the last write of a generator with its exit status.
Refuse          == disk' = disk /\ End(FALSE)
Finish(newTree) == disk' = newTree /\ End(~run.invalid)

Skip == run' = [run EXCEPT !.n = @ + 1] /\ UNCHANGED <<src, disk, baseline, recipe, last, mishaps>>

Write(newTree) == disk' = newTree /\ UNCHANGED <<src, baseline, recipe, last, mishaps>>
Read           == UNCHANGED <<src, disk, baseline, recipe, last, mishaps>>

\* accept_parent: the parent a slug names, from the disk.
Readable(slug) ==
  /\ slug \in DOMAIN run.parents /\ run.parents[slug] \in DOMAIN disk.files
  /\ disk.files[run.parents[slug]] # TornFile
Parent(slug)   == disk.files[run.parents[slug]]

\* The order a generator goes through, and what its tables say to build.
Order   == CASE run.pc = "accept" -> AcceptOrder [] run.pc = "reject" -> RejectOrder
             [] run.pc = "ind" -> IndOrder [] OTHER -> << >>
Entries == CASE run.pc = "accept" -> run.src.accept [] run.pc = "reject" -> run.src.reject
             [] run.pc = "ind" -> run.src.ind [] OTHER -> << >>
AtEntry == run.n \in DOMAIN Order /\ Order[run.n] \in DOMAIN Entries
AtGap   == run.n \in DOMAIN Order /\ Order[run.n] \notin DOMAIN Entries
AtEnd   == run.n > Len(Order)

\* The statement to be written next, unless a derived one has no parent to be
\* derived from or comes out with a second fault.
Due ==
  IF ~AtEntry THEN {}
  ELSE LET entry == Entries[Order[run.n]] IN
       IF run.gen = "accept" THEN {Statement(entry, {})}
       ELSE IF ~Readable(entry.from) THEN {}
       ELSE {st \in {Mutated(Parent(entry.from), entry)} : ~SecondFault(st)}

\* A statement is named after its bytes, and no two vectors are the same bytes.
\* One that its own verifier refuses is written all the same by the accept
\* generator, whose exit status remembers.
WriteStatement ==
  /\ AtEntry
  /\ IF Due = {} \/ Due \subseteq Range(run.ids) THEN Refuse
     ELSE \E st \in Due :
            /\ Write([disk EXCEPT !.files = Put(@, st, st)])
            /\ run' = [run EXCEPT !.ids = Put(@, Order[run.n], st), !.n = @ + 1,
                                  !.invalid = @ \/ (run.gen = "accept" /\ ~IsValid(st))]

PassOver == AtGap /\ Skip

----------------------------------------------------------------------------
(* gen_valid_vectors.py: main, after the statements *)

WriteBuildIds ==
  /\ run.pc = "accept" /\ AtEnd
  /\ Write([disk EXCEPT !.map = IdMap(run.ids)]) /\ Goto("acceptIndex")

WriteAcceptIndex ==
  /\ run.pc = "acceptIndex"
  /\ IF AcceptRowsAgree(run.src)
     THEN Finish([disk EXCEPT !.accept = Table(AcceptRows(run.src, run.ids))])
     ELSE Refuse

----------------------------------------------------------------------------
(* gen_invalid_vectors.py: main, around the statements *)

\* accept_ids, which is read once; the parents are read anew for each vector.
LoadMap ==
  /\ run.pc = "loadMap"
  /\ IF disk.map.form # "table" \/ disk.map.ids = << >> THEN Refuse
     ELSE run' = [run EXCEPT !.parents = disk.map.ids, !.pc = "gateParents"] /\ Read

GateParents ==
  /\ run.pc = "gateParents"
  /\ IF \A p \in Parents(run.src) : Readable(p) /\ IsValid(Parent(p))
     THEN Goto("reject") /\ Read
     ELSE Refuse

ToIndeterminate ==
  /\ run.pc = "reject" /\ AtEnd
  /\ run' = [run EXCEPT !.pc = "ind", !.n = 1] /\ Read

\* A clause keyed to a vector that is not there is refused before a table is
\* written.
WriteRejectIndex ==
  /\ run.pc = "ind" /\ AtEnd
  /\ IF run.src.clauses \subseteq DOMAIN run.ids /\ Resolves(run.src.reject, run.parents)
     THEN /\ Write([disk EXCEPT !.reject = Table(DerivedRows(run.src.reject, run.ids, run.parents))])
          /\ Goto("indIndex")
     ELSE Refuse

WriteIndIndex ==
  /\ run.pc = "indIndex"
  /\ IF Resolves(run.src.ind, run.parents)
     THEN Finish([disk EXCEPT !.ind = Table(DerivedRows(run.src.ind, run.ids, run.parents))])
     ELSE Refuse

----------------------------------------------------------------------------
(* gen_manifest.py: main *)

ReadTables ==
  /\ run.pc = "readTables"
  /\ IF ManifestRefused(run.src, disk) THEN Refuse
     ELSE run' = [run EXCEPT !.out = ManifestOf(run.src, disk), !.pc = "writeManifest"] /\ Read

WriteManifest == run.pc = "writeManifest" /\ Finish([disk EXCEPT !.manifest = run.out])

----------------------------------------------------------------------------
(* A process that dies before a write or in it: every file is written in    *)
(* place.                                                                   *)

HalfWritten ==
  {[disk EXCEPT !.files = Put(@, st, TornFile)] : st \in Due}
    \cup (IF run.pc = "accept" /\ AtEnd     THEN {[disk EXCEPT !.map = TornMap]} ELSE {})
    \cup (IF run.pc = "acceptIndex"         THEN {[disk EXCEPT !.accept = Torn]} ELSE {})
    \cup (IF run.pc = "ind" /\ AtEnd        THEN {[disk EXCEPT !.reject = Torn]} ELSE {})
    \cup (IF run.pc = "indIndex"            THEN {[disk EXCEPT !.ind = Torn]} ELSE {})
    \cup (IF run.pc = "writeManifest"       THEN {[disk EXCEPT !.manifest = TornManifest]} ELSE {})

Crash ==
  /\ run.gen # "none" /\ mishaps < MaxMishaps /\ mishaps' = mishaps + 1
  /\ disk' \in {disk} \cup HalfWritten
  /\ run' = Idle /\ recipe' = 0 /\ last' = NoEnd /\ UNCHANGED <<src, baseline>>

----------------------------------------------------------------------------
(* What else happens to the tables and the tree *)

\* Whatever a process reads from now on is another's doing.
Disturb ==
  /\ mishaps < MaxMishaps /\ mishaps' = mishaps + 1
  /\ run' = IF run.gen = "none" THEN run ELSE [run EXCEPT !.disturbed = TRUE]
  /\ recipe' = 0 /\ last' = NoEnd /\ UNCHANGED baseline

EditSource == Disturb /\ src' \in Sources \ {src} /\ UNCHANGED disk

\* A statement put under a name by hand, a file or a row taken away.
EditTree ==
  /\ Disturb /\ UNCHANGED src
  /\ \/ \E file \in HandPlaced : disk' = [disk EXCEPT !.files = Put(@, file.name, file.st)]
     \/ \E name \in DOMAIN disk.files : disk' = [disk EXCEPT !.files = Restrict(@, DOMAIN @ \ {name})]
     \/ disk.map.form # "missing" /\ disk' = [disk EXCEPT !.map = NoMap]
     \/ \E row \in disk.accept.rows : disk' = [disk EXCEPT !.accept.rows = @ \ {row}]
     \/ \E row \in disk.reject.rows : disk' = [disk EXCEPT !.reject.rows = @ \ {row}]

\* Another revision is checked out; the map, which is not tracked, stays.
Checkout ==
  /\ Disturb /\ run.gen = "none"
  /\ src' \in {s \in Sources \ {src} : Regenerates(s)}
  /\ disk' = [Regenerated(src') EXCEPT !.map = disk.map]

\* accept-anchor-gate.py --sync: whatever else is wrong, no regression is
\* written down.
SyncAnchors ==
  /\ AnchorReadable(src, disk) /\ Regressed(disk, baseline) = {}
  /\ baseline' = [form |-> "table", anchored |-> Anchored(disk)]
  /\ UNCHANGED <<src, disk, run, recipe, last, mishaps>>

PipelineNext ==
  \/ StartAccept \/ StartReject \/ StartManifest
  \/ WriteStatement \/ PassOver
  \/ WriteBuildIds \/ WriteAcceptIndex
  \/ LoadMap \/ GateParents \/ ToIndeterminate \/ WriteRejectIndex \/ WriteIndIndex
  \/ ReadTables \/ WriteManifest
  \/ Crash \/ EditSource \/ EditTree \/ Checkout \/ SyncAnchors

PipelineSpec == PipelineInit /\ [][PipelineNext]_pipelineVars

----------------------------------------------------------------------------
(* Properties *)

\* When both gates pass, the manifest names every statement there is, under the
\* name of its bytes, with as many rows as there are vectors authored, no two of
\* them about one statement unless one of them calls it an accept vector
\* (OneStatementOneRow); each accept vector is valid and has the pins its author
\* wrote; and each refusal differs from the valid vector it is published beside in
\* one mutation of it, or in as many places as a declaration says. (compare;
\* check_parents; check_one_mutation)
GateOkIsOneDerivation ==
  AnchorOk(src, disk, baseline) /\ RegenerabilityOk(src, disk) =>
    /\ DOMAIN disk.files = IdsOf(disk.manifest.rows)
    /\ \A st \in DOMAIN disk.files : disk.files[st] = st
    /\ Cardinality(disk.manifest.rows) =
         Cardinality(DOMAIN src.accept) + Cardinality(DOMAIN src.reject) + Cardinality(DOMAIN src.ind)
    /\ \A row, other \in disk.manifest.rows :
         row.id = other.id => row = other \/ "accept" \in {row.kind, other.kind}
    /\ \A slug \in DOMAIN src.accept :
         LET id == Statement(src.accept[slug], {}) IN
         \E row \in OfKind(disk, "accept") :
           row.id = id /\ IsValid(id) /\ (row.pinned <=> slug \in src.pins)
    /\ \A row \in disk.reject.rows :
         /\ IsValid(row.parent)
         /\ IF row.id \in DOMAIN src.exceptions
            THEN Distance(row.parent, row.id) = src.exceptions[row.id] /\ src.exceptions[row.id] > 1
            ELSE row.id.body = row.parent.body /\ Cardinality(row.id.muts) = 1

\* gen_invalid_vectors.py: "Two identifiers may not address one statement", and
\* gen_manifest.py: "every vector file must have exactly one INDEX row", of a tree
\* that both gates pass.
OneStatementOneRow ==
  AnchorOk(src, disk, baseline) /\ RegenerabilityOk(src, disk) =>
    \A row, other \in disk.manifest.rows : row.id = other.id => row = other

\* The recipe both indexes publish is true: the generators run in order, with
\* nothing else happening, leave the tree the regenerability gate asks for, and
\* one that refuses was given tables that make no corpus, or there was a
\* statement file no table is about. (accept_parent; main of the three)
RecipeReproduces ==
  /\ recipe = 3 => RegenerabilityOk(src, disk)
  /\ last.gen # "none" /\ last.inOrder /\ ~last.ok =>
       \/ ~Regenerates(src)
       \/ last.gen = "manifest" /\ DOMAIN disk.files \ DOMAIN Regenerated(src).files # {}

=============================================================================
