---------------------------- MODULE Corpus_proofs ----------------------------
(***************************************************************************)
(* Theorems about the corpus: how it is made, for any tables, slugs and      *)
(* mutations and any number of mishaps (CorpusPipeline), and how it is       *)
(* published, for any number of developers, rails, vectors and edits         *)
(* (CorpusPublication).                                                     *)
(***************************************************************************)
EXTENDS CorpusPipeline, CorpusPublication, FiniteSetTheorems, TLAPS

----------------------------------------------------------------------------
(* CorpusPipeline: what is on the disk, and what a process holds *)

IsMapping(f) == f = [x \in DOMAIN f |-> f[x]]

IsTree(t) ==
  /\ t = [ files |-> t.files, map |-> t.map, accept |-> t.accept, reject |-> t.reject,
           ind |-> t.ind, manifest |-> t.manifest ]
  /\ IsMapping(t.files)

IsRun(r) ==
  r = [gen |-> r.gen, pc |-> r.pc, src |-> r.src, n |-> r.n, ids |-> r.ids, parents |-> r.parents,
       out |-> r.out, invalid |-> r.invalid, disturbed |-> r.disturbed]

Shapes == src \in Sources /\ IsTree(disk) /\ IsRun(run)

LEMMA PutIsMapping ==
  ASSUME NEW f, NEW name, NEW value
  PROVE  /\ IsMapping(Put(f, name, value))
         /\ DOMAIN Put(f, name, value) = DOMAIN f \cup {name}
         /\ Put(f, name, value)[name] = value
         /\ \A x \in DOMAIN f : x # name => Put(f, name, value)[x] = f[x]
BY DEF Put, IsMapping

LEMMA EditsOfATree ==
  ASSUME NEW t, IsTree(t), NEW files, IsMapping(files), NEW map, NEW table
  PROVE  /\ IsTree([t EXCEPT !.files = files])
         /\ IsTree([t EXCEPT !.map = map])
         /\ IsTree([t EXCEPT !.accept = table])
         /\ IsTree([t EXCEPT !.reject = table])
         /\ IsTree([t EXCEPT !.ind = table])
         /\ IsTree([t EXCEPT !.manifest = table])
BY DEF IsTree

LEMMA RowsOfATree ==
  ASSUME NEW t, IsTree(t), NEW rows
  PROVE  /\ IsTree([t EXCEPT !.accept.rows = rows])
         /\ IsTree([t EXCEPT !.reject.rows = rows])
BY DEF IsTree
----------------------------------------------------------------------------
(* What the tables make *)

LEMMA RangeOfInjective ==
  ASSUME NEW f, IsMapping(f), IsInjective(f), IsFiniteSet(DOMAIN f)
  PROVE  IsFiniteSet(Range(f)) /\ Cardinality(Range(f)) = Cardinality(DOMAIN f)
<1>1. f \in [DOMAIN f -> Range(f)]
  BY DEF IsMapping, Range
<1>2. f \in Surjection(DOMAIN f, Range(f)) /\ f \in Injection(DOMAIN f, Range(f))
  BY <1>1 DEF Surjection, Injection, Range
<1> QED BY <1>2, FS_Surjection

LEMMA OrdersAreFinite ==
  ASSUME NEW order \in {AcceptOrder, RejectOrder, IndOrder}
  PROVE  /\ Len(order) \in Nat /\ DOMAIN order = 1..Len(order)
         /\ IsFiniteSet(Range(order))
<1>1. Len(order) \in Nat /\ DOMAIN order = 1..Len(order) /\ order \in [1..Len(order) -> Range(order)]
  BY SlugsAreDistinct
<1>2. IsFiniteSet(1..Len(order))
  BY <1>1, FS_Interval
<1>3. order \in Surjection(1..Len(order), Range(order))
  BY <1>1 DEF Surjection, Range
<1> QED BY <1>1, <1>2, <1>3, FS_Surjection

LEMMA TablesOf ==
  ASSUME NEW s \in Sources
  PROVE  /\ DOMAIN s.accept \subseteq AcceptSlugs /\ IsFiniteSet(DOMAIN s.accept)
         /\ DOMAIN s.reject \subseteq RejectSlugs /\ IsFiniteSet(DOMAIN s.reject)
         /\ DOMAIN s.ind \subseteq IndSlugs /\ IsFiniteSet(DOMAIN s.ind)
         /\ DOMAIN s.reject \cap DOMAIN s.ind = {}
<1>1. WellFormed(s)
  BY SourcesAreTables
<1>2. /\ DOMAIN s.accept \subseteq AcceptSlugs
      /\ DOMAIN s.reject \subseteq RejectSlugs
      /\ DOMAIN s.ind \subseteq IndSlugs
  BY <1>1 DEF WellFormed
<1>3. IsFiniteSet(AcceptSlugs) /\ IsFiniteSet(RejectSlugs) /\ IsFiniteSet(IndSlugs)
  BY OrdersAreFinite DEF AcceptSlugs, RejectSlugs, IndSlugs
<1>4. DOMAIN s.reject \cap DOMAIN s.ind = {}
  BY <1>2, SlugsAreDistinct
<1> QED BY <1>2, <1>3, <1>4, FS_Subset

LEMMA InjectiveById ==
  ASSUME NEW f, NEW g, DOMAIN g \subseteq DOMAIN f, IsInjective(f), \A x \in DOMAIN g : g[x].id = f[x]
  PROVE  IsInjective(g)
BY DEF IsInjective

\* The statements that are built.
LEMMA BuiltStatements ==
  ASSUME NEW s
  PROVE  /\ IsMapping(AcceptIds(s)) /\ DOMAIN AcceptIds(s) = DOMAIN s.accept
         /\ \A slug \in DOMAIN s.accept : AcceptIds(s)[slug] = Statement(s.accept[slug], {})
         /\ IsMapping(DerivedIds(s)) /\ DOMAIN DerivedIds(s) = DOMAIN s.reject \cup DOMAIN s.ind
         /\ \A slug \in DOMAIN s.reject :
              /\ DerivedIds(s)[slug] = DerivedFrom(s, s.reject)[slug]
              /\ DerivedIds(s)[slug] = Mutated(AcceptIds(s)[s.reject[slug].from], s.reject[slug])
         /\ DOMAIN s.reject \cap DOMAIN s.ind = {} =>
              \A slug \in DOMAIN s.ind :
                /\ DerivedIds(s)[slug] = DerivedFrom(s, s.ind)[slug]
                /\ DerivedIds(s)[slug] = Mutated(AcceptIds(s)[s.ind[slug].from], s.ind[slug])
<1>1. IsMapping(AcceptIds(s)) /\ DOMAIN AcceptIds(s) = DOMAIN s.accept
  BY DEF AcceptIds, IsMapping
<1>2. \A slug \in DOMAIN s.accept : AcceptIds(s)[slug] = Statement(s.accept[slug], {})
  BY DEF AcceptIds
<1>3. IsMapping(DerivedIds(s)) /\ DOMAIN DerivedIds(s) = DOMAIN s.reject \cup DOMAIN s.ind
  BY DEF DerivedIds, IsMapping
<1>4. \A slug \in DOMAIN s.reject :
        /\ DerivedIds(s)[slug] = DerivedFrom(s, s.reject)[slug]
        /\ DerivedIds(s)[slug] = Mutated(AcceptIds(s)[s.reject[slug].from], s.reject[slug])
  BY DEF DerivedIds, DerivedFrom
<1>5. DOMAIN s.reject \cap DOMAIN s.ind = {} =>
        \A slug \in DOMAIN s.ind :
          /\ DerivedIds(s)[slug] = DerivedFrom(s, s.ind)[slug]
          /\ DerivedIds(s)[slug] = Mutated(AcceptIds(s)[s.ind[slug].from], s.ind[slug])
  BY DEF DerivedIds, DerivedFrom
<1> QED BY <1>1, <1>2, <1>3, <1>4, <1>5

LEMMA StatementFields ==
  \A body, muts : Statement(body, muts).body = body /\ Statement(body, muts).muts = muts
BY DEF Statement

LEMMA TableFields == \A rows : Table(rows).form = "table" /\ Table(rows).rows = rows
BY DEF Table

LEMMA MapFields == \A ids : IdMap(ids).form = "table" /\ IdMap(ids).ids = ids
BY DEF IdMap

\* An accept vector is a body without a mutation.
LEMMA AcceptStatement ==
  ASSUME NEW s \in Sources, NEW slug \in DOMAIN s.accept
  PROVE  /\ AcceptIds(s)[slug] = Statement(s.accept[slug], {})
         /\ AcceptIds(s)[slug].body \in Bodies /\ AcceptIds(s)[slug].muts = {}
<1>1. AcceptIds(s)[slug] = Statement(s.accept[slug], {})
  BY BuiltStatements
<1>2. s.accept[slug] \in Bodies
  BY SourcesAreTables DEF WellFormed
<1> QED BY <1>1, <1>2, StatementFields

LEMMA WhatIsWritten ==
  ASSUME NEW s
  PROVE  /\ Written(s).files = [st \in Range(AcceptIds(s)) \cup Range(DerivedIds(s)) |-> st]
         /\ Written(s).map = IdMap(AcceptIds(s))
         /\ Written(s).accept = Table(AcceptRows(s, AcceptIds(s)))
         /\ Written(s).reject = Table(DerivedRows(s.reject, DerivedFrom(s, s.reject), AcceptIds(s)))
         /\ Written(s).ind = Table(DerivedRows(s.ind, DerivedFrom(s, s.ind), AcceptIds(s)))
         /\ IsTree(Written(s))
BY DEF Written, IsTree, IsMapping

LEMMA RowsWritten ==
  ASSUME NEW s
  PROVE  /\ Written(s).map.form = "table" /\ Written(s).map.ids = AcceptIds(s)
         /\ Written(s).accept.rows = AcceptRows(s, AcceptIds(s))
         /\ Written(s).reject.rows = DerivedRows(s.reject, DerivedFrom(s, s.reject), AcceptIds(s))
         /\ Written(s).ind.rows = DerivedRows(s.ind, DerivedFrom(s, s.ind), AcceptIds(s))
<1>1. Written(s).map.form = "table" /\ Written(s).map.ids = AcceptIds(s)
  <2>1. Written(s).map = IdMap(AcceptIds(s))
    BY WhatIsWritten
  <2> QED BY <2>1, MapFields
<1>2. Written(s).accept.rows = AcceptRows(s, AcceptIds(s))
  <2>1. Written(s).accept = Table(AcceptRows(s, AcceptIds(s)))
    BY WhatIsWritten
  <2> QED BY <2>1, TableFields
<1>3. Written(s).reject.rows = DerivedRows(s.reject, DerivedFrom(s, s.reject), AcceptIds(s))
  <2>1. Written(s).reject = Table(DerivedRows(s.reject, DerivedFrom(s, s.reject), AcceptIds(s)))
    BY WhatIsWritten
  <2> QED BY <2>1, TableFields
<1>4. Written(s).ind.rows = DerivedRows(s.ind, DerivedFrom(s, s.ind), AcceptIds(s))
  <2>1. Written(s).ind = Table(DerivedRows(s.ind, DerivedFrom(s, s.ind), AcceptIds(s)))
    BY WhatIsWritten
  <2> QED BY <2>1, TableFields
<1> QED BY <1>1, <1>2, <1>3, <1>4

LEMMA ListedByTheManifest == \A s, t : ManifestOf(s, t).rows = ManifestRows(s, t)
BY DEF ManifestOf, Manifest

LEMMA WhatIsRegenerated ==
  ASSUME NEW s
  PROVE  /\ Regenerated(s).files = Written(s).files
         /\ Regenerated(s).accept = Written(s).accept
         /\ Regenerated(s).reject = Written(s).reject
         /\ Regenerated(s).ind = Written(s).ind
         /\ Regenerated(s).manifest = ManifestOf(s, Written(s))
         /\ IsTree(Regenerated(s))
<1>1. IsTree(Written(s))
  BY WhatIsWritten
<1>2. IsTree(Regenerated(s))
  BY <1>1 DEF IsTree, Regenerated
<1> QED BY <1>1, <1>2 DEF Regenerated, IsTree

\* The gate compares all that is published, and nothing else.
LEMMA ComparedAll ==
  ASSUME NEW t, NEW u, IsTree(t), IsTree(u)
  PROVE  Owned(t) = Owned(u) <=>
           /\ t.files = u.files /\ t.accept = u.accept /\ t.reject = u.reject
           /\ t.ind = u.ind /\ t.manifest = u.manifest
<1>1. \A v : IsTree(v) =>
        Owned(v) = [ files |-> v.files, map |-> NoMap, accept |-> v.accept, reject |-> v.reject,
                     ind |-> v.ind, manifest |-> v.manifest ]
  BY DEF Owned, IsTree
<1> QED BY <1>1
----------------------------------------------------------------------------
(* The rows of a regenerated manifest, one for each authored entry *)

AcceptRow(s) ==
  [slug \in DOMAIN s.accept |->
     [id |-> AcceptIds(s)[slug], kind |-> "accept", conds |-> s.rows[slug].conds,
      pinned |-> slug \in s.pins]]

DerivedRow(s, entries, kind) ==
  [slug \in DOMAIN entries |->
     [id |-> DerivedIds(s)[slug], kind |-> kind, conds |-> entries[slug].conds, pinned |-> FALSE]]

LEMMA ListedRows ==
  ASSUME NEW s, NEW entries, NEW kind,
         \A slug \in DOMAIN entries : DerivedIds(s)[slug] = DerivedFrom(s, entries)[slug]
  PROVE  {[id |-> r.id, kind |-> kind, conds |-> r.conds, pinned |-> FALSE] :
            r \in DerivedRows(entries, DerivedFrom(s, entries), AcceptIds(s))}
           = Range(DerivedRow(s, entries, kind))
<1> DEFINE parent(slug) == AcceptIds(s)[CHOOSE p \in Meant(entries[slug].parent, AcceptIds(s)) : TRUE]
           tabled(slug) == [id |-> DerivedFrom(s, entries)[slug], conds |-> entries[slug].conds,
                            parent |-> parent(slug)]
           listed(r) == [id |-> r.id, kind |-> kind, conds |-> r.conds, pinned |-> FALSE]
<1>1. DerivedRows(entries, DerivedFrom(s, entries), AcceptIds(s)) = {tabled(slug) : slug \in DOMAIN entries}
  BY DEF DerivedRows
<1> HIDE DEF parent
<1>2. \A slug \in DOMAIN entries : DerivedRow(s, entries, kind)[slug] = listed(tabled(slug))
  BY DEF DerivedRow
<1>3. DOMAIN DerivedRow(s, entries, kind) = DOMAIN entries
  BY DEF DerivedRow
<1> HIDE DEF tabled, listed
<1>4. {listed(r) : r \in DerivedRows(entries, DerivedFrom(s, entries), AcceptIds(s))}
        = Range(DerivedRow(s, entries, kind))
  BY <1>1, <1>2, <1>3 DEF Range
<1> QED BY <1>4 DEF listed

LEMMA RowsOfTheManifest ==
  ASSUME NEW s \in Sources, Regenerates(s)
  PROVE  ManifestRows(s, Written(s)) =
           Range(AcceptRow(s)) \cup Range(DerivedRow(s, s.reject, "reject"))
             \cup Range(DerivedRow(s, s.ind, "indeterminate"))
<1> DEFINE t == Written(s)
           ids == AcceptIds(s)
<1>1. IsInjective(ids) /\ DOMAIN s.rows = DOMAIN s.accept /\ DOMAIN ids = DOMAIN s.accept
  BY BuiltStatements DEF Regenerates, AcceptExitsZero, Distinct, AcceptRowsAgree
<1>2. \A slug \in DOMAIN s.accept : SlugOf(t.map, ids[slug]) = slug
  <2>1. t.map.ids = ids
    BY RowsWritten
  <2>2. TAKE slug \in DOMAIN s.accept
  <2>3. {x \in DOMAIN ids : ids[x] = ids[slug]} = {slug}
    BY <1>1, <2>2 DEF IsInjective
  <2> QED BY <2>1, <2>3 DEF SlugOf
<1>3. {[id |-> r.id, kind |-> "accept", conds |-> r.conds,
        pinned |-> SlugOf(t.map, r.id) \in s.pins] : r \in t.accept.rows} = Range(AcceptRow(s))
  <2> DEFINE tabled(slug) == [id |-> ids[slug], result |-> s.rows[slug].result, conds |-> s.rows[slug].conds]
             listed(r) == [id |-> r.id, kind |-> "accept", conds |-> r.conds,
                           pinned |-> SlugOf(t.map, r.id) \in s.pins]
  <2>1. t.accept.rows = {tabled(slug) : slug \in DOMAIN s.accept}
    <3>1. t.accept.rows = AcceptRows(s, ids)
      BY RowsWritten
    <3> QED BY <1>1, <3>1 DEF AcceptRows
  <2>2. \A slug \in DOMAIN s.accept : AcceptRow(s)[slug] = listed(tabled(slug))
    BY <1>2 DEF AcceptRow
  <2>3. DOMAIN AcceptRow(s) = DOMAIN s.accept
    BY DEF AcceptRow
  <2> HIDE DEF tabled, listed
  <2>4. {listed(r) : r \in t.accept.rows} = Range(AcceptRow(s))
    BY <2>1, <2>2, <2>3 DEF Range
  <2> QED BY <2>4 DEF listed
<1>4. {[id |-> r.id, kind |-> "reject", conds |-> r.conds, pinned |-> FALSE] : r \in t.reject.rows}
        = Range(DerivedRow(s, s.reject, "reject"))
  <2>1. t.reject.rows = DerivedRows(s.reject, DerivedFrom(s, s.reject), ids)
    BY RowsWritten
  <2>2. \A slug \in DOMAIN s.reject : DerivedIds(s)[slug] = DerivedFrom(s, s.reject)[slug]
    BY BuiltStatements
  <2> QED BY <2>1, <2>2, ListedRows
<1>5. {[id |-> r.id, kind |-> "indeterminate", conds |-> r.conds, pinned |-> FALSE] : r \in t.ind.rows}
        = Range(DerivedRow(s, s.ind, "indeterminate"))
  <2>1. t.ind.rows = DerivedRows(s.ind, DerivedFrom(s, s.ind), ids)
    BY RowsWritten
  <2>2. \A slug \in DOMAIN s.ind : DerivedIds(s)[slug] = DerivedFrom(s, s.ind)[slug]
    BY BuiltStatements, TablesOf
  <2> QED BY <2>1, <2>2, ListedRows
<1> QED BY <1>3, <1>4, <1>5 DEF ManifestRows

LEMMA RowsAreEntries ==
  ASSUME NEW s \in Sources, Regenerates(s)
  PROVE  /\ IsMapping(AcceptRow(s)) /\ IsInjective(AcceptRow(s)) /\ DOMAIN AcceptRow(s) = DOMAIN s.accept
         /\ \A entries, kind : entries \in {s.reject, s.ind} =>
              /\ IsMapping(DerivedRow(s, entries, kind)) /\ IsInjective(DerivedRow(s, entries, kind))
              /\ DOMAIN DerivedRow(s, entries, kind) = DOMAIN entries
<1>1. IsInjective(AcceptIds(s)) /\ IsInjective(DerivedIds(s))
  BY DEF Regenerates, AcceptExitsZero, RejectExitsZero, Distinct
<1>2. /\ IsMapping(AcceptRow(s)) /\ DOMAIN AcceptRow(s) = DOMAIN s.accept
      /\ \A slug \in DOMAIN s.accept : AcceptRow(s)[slug].id = AcceptIds(s)[slug]
  BY DEF AcceptRow, IsMapping
<1>3. IsInjective(AcceptRow(s))
  BY <1>1, <1>2, BuiltStatements, InjectiveById
<1>4. ASSUME NEW entries, NEW kind, entries \in {s.reject, s.ind}
      PROVE  /\ IsMapping(DerivedRow(s, entries, kind)) /\ IsInjective(DerivedRow(s, entries, kind))
             /\ DOMAIN DerivedRow(s, entries, kind) = DOMAIN entries
  <2>1. /\ IsMapping(DerivedRow(s, entries, kind)) /\ DOMAIN DerivedRow(s, entries, kind) = DOMAIN entries
        /\ \A slug \in DOMAIN entries : DerivedRow(s, entries, kind)[slug].id = DerivedIds(s)[slug]
    BY DEF DerivedRow, IsMapping
  <2>2. DOMAIN entries \subseteq DOMAIN DerivedIds(s)
    BY <1>4, BuiltStatements
  <2>3. IsInjective(DerivedRow(s, entries, kind))
    BY <1>1, <2>1, <2>2, InjectiveById
  <2> QED BY <2>1, <2>3
<1> QED BY <1>2, <1>3, <1>4

LEMMA UnionOfDisjoint ==
  ASSUME NEW S, IsFiniteSet(S), NEW T, IsFiniteSet(T), S \cap T = {}
  PROVE  IsFiniteSet(S \cup T) /\ Cardinality(S \cup T) = Cardinality(S) + Cardinality(T)
<1>1. Cardinality(S) \in Nat /\ Cardinality(T) \in Nat /\ Cardinality({}) = 0
  BY FS_CardinalityType, FS_EmptySet
<1>2. IsFiniteSet(S \cup T) /\ Cardinality(S \cup T) = Cardinality(S) + Cardinality(T) - Cardinality({})
  BY FS_Union
<1> QED BY <1>1, <1>2

LEMMA AsManyRowsAsEntries ==
  ASSUME NEW s \in Sources, Regenerates(s)
  PROVE  Cardinality(ManifestRows(s, Written(s))) =
           Cardinality(DOMAIN s.accept) + Cardinality(DOMAIN s.reject) + Cardinality(DOMAIN s.ind)
<1> DEFINE a == Range(AcceptRow(s))
           r == Range(DerivedRow(s, s.reject, "reject"))
           i == Range(DerivedRow(s, s.ind, "indeterminate"))
<1>1. /\ IsFiniteSet(a) /\ Cardinality(a) = Cardinality(DOMAIN s.accept)
      /\ IsFiniteSet(r) /\ Cardinality(r) = Cardinality(DOMAIN s.reject)
      /\ IsFiniteSet(i) /\ Cardinality(i) = Cardinality(DOMAIN s.ind)
  <2>1. IsFiniteSet(a) /\ Cardinality(a) = Cardinality(DOMAIN s.accept)
    BY RowsAreEntries, RangeOfInjective, TablesOf
  <2>2. IsFiniteSet(r) /\ Cardinality(r) = Cardinality(DOMAIN s.reject)
    BY RowsAreEntries, RangeOfInjective, TablesOf
  <2>3. IsFiniteSet(i) /\ Cardinality(i) = Cardinality(DOMAIN s.ind)
    BY RowsAreEntries, RangeOfInjective, TablesOf
  <2> QED BY <2>1, <2>2, <2>3
<1>2. /\ \A row \in a : row.kind = "accept"
      /\ \A row \in r : row.kind = "reject"
      /\ \A row \in i : row.kind = "indeterminate"
  <2>1. /\ \A slug \in DOMAIN AcceptRow(s) : AcceptRow(s)[slug].kind = "accept"
        /\ \A entries, kind : \A slug \in DOMAIN DerivedRow(s, entries, kind) :
             DerivedRow(s, entries, kind)[slug].kind = kind
    BY DEF AcceptRow, DerivedRow
  <2> QED BY <2>1 DEF Range
<1> HIDE DEF a, r, i
<1>3. a \cap r = {} /\ (a \cup r) \cap i = {}
  BY <1>2
<1>4. IsFiniteSet(a \cup r) /\ Cardinality(a \cup r) = Cardinality(a) + Cardinality(r)
  BY <1>1, <1>3, UnionOfDisjoint
<1>5. Cardinality((a \cup r) \cup i) = Cardinality(a) + Cardinality(r) + Cardinality(i)
  BY <1>1, <1>3, <1>4, UnionOfDisjoint
<1> QED BY <1>1, <1>5, RowsOfTheManifest DEF a, r, i
----------------------------------------------------------------------------
(* What the two gates say together *)

LEMMA RowFields ==
  ASSUME NEW s
  PROVE  /\ \A slug \in DOMAIN s.accept :
              /\ AcceptRow(s)[slug].id = AcceptIds(s)[slug] /\ AcceptRow(s)[slug].kind = "accept"
              /\ AcceptRow(s)[slug].pinned <=> slug \in s.pins
         /\ \A entries, kind : \A slug \in DOMAIN entries :
              /\ DerivedRow(s, entries, kind)[slug].id = DerivedIds(s)[slug]
              /\ DerivedRow(s, entries, kind)[slug].kind = kind
BY DEF AcceptRow, DerivedRow

\* Two rows of one statement, if neither is an accept vector's, are one.
LEMMA OneRowEach ==
  ASSUME NEW s \in Sources, Regenerates(s),
         NEW row \in ManifestRows(s, Written(s)), NEW other \in ManifestRows(s, Written(s)),
         row.id = other.id, row.kind # "accept", other.kind # "accept"
  PROVE  row = other
<1> DEFINE r == DerivedRow(s, s.reject, "reject")
           i == DerivedRow(s, s.ind, "indeterminate")
<1>1. DOMAIN AcceptRow(s) = DOMAIN s.accept /\ DOMAIN r = DOMAIN s.reject /\ DOMAIN i = DOMAIN s.ind
  BY RowsAreEntries
<1>2. /\ \A slug \in DOMAIN s.accept : AcceptRow(s)[slug].kind = "accept"
      /\ \A slug \in DOMAIN s.reject : r[slug].id = DerivedIds(s)[slug]
      /\ \A slug \in DOMAIN s.ind : i[slug].id = DerivedIds(s)[slug]
  BY RowFields
<1> HIDE DEF r, i
<1>3. ASSUME NEW x \in ManifestRows(s, Written(s)), x.kind # "accept"
      PROVE  \/ \E slug \in DOMAIN s.reject : x = r[slug]
             \/ \E slug \in DOMAIN s.ind : x = i[slug]
  <2>1. x \in Range(AcceptRow(s)) \cup Range(r) \cup Range(i)
    BY RowsOfTheManifest DEF r, i
  <2> QED BY <1>1, <1>2, <1>3, <2>1 DEF Range
<1>4. IsInjective(DerivedIds(s)) /\ DOMAIN DerivedIds(s) = DOMAIN s.reject \cup DOMAIN s.ind
  BY BuiltStatements DEF Regenerates, RejectExitsZero, Distinct
<1>5. \A a, b \in DOMAIN s.reject \cup DOMAIN s.ind : DerivedIds(s)[a] = DerivedIds(s)[b] => a = b
  BY <1>4 DEF IsInjective
<1>6. DOMAIN s.reject \cap DOMAIN s.ind = {}
  BY TablesOf
<1>7. \/ \E slug \in DOMAIN s.reject : row = r[slug]
      \/ \E slug \in DOMAIN s.ind : row = i[slug]
  BY <1>3
<1>8. \/ \E slug \in DOMAIN s.reject : other = r[slug]
      \/ \E slug \in DOMAIN s.ind : other = i[slug]
  BY <1>3
<1> QED BY <1>2, <1>5, <1>6, <1>7, <1>8

\* Between statements that parse, no body changed and one mutation is a distance
\* of one, and no other is.
LEMMA DistanceOne ==
  ASSUME NEW parent, IsValid(parent), parent.body \in Bodies, NEW child,
         child.body \in Bodies, child.muts \subseteq Mutations, Distance(parent, child) = 1
  PROVE  child.body = parent.body /\ Cardinality(child.muts) = 1
<1>1. parent # TornFile /\ child # TornFile
  BY StatementsParse, StatementFields DEF TornFile
<1>2. parent # child
  BY DEF Distance
<1>3. SymDiff(parent.muts, child.muts) = child.muts
  BY DEF IsValid, SymDiff
<1>4. 1 = (IF parent.body = child.body THEN 0 ELSE 2) + Cardinality(child.muts)
  BY <1>1, <1>2, <1>3 DEF Distance
<1>5. Cardinality(child.muts) \in Nat
  BY StatementsParse, FS_Subset, FS_CardinalityType
<1> QED BY <1>4, <1>5

LEMMA DerivedStatement ==
  ASSUME NEW s \in Sources, Parents(s) \subseteq DOMAIN s.accept,
         \A slug \in DOMAIN s.accept : IsValid(AcceptIds(s)[slug]),
         NEW slug \in DOMAIN s.reject \cup DOMAIN s.ind
  PROVE  DerivedIds(s)[slug].body \in Bodies /\ DerivedIds(s)[slug].muts \subseteq Mutations
<1>1. PICK entry : /\ DerivedIds(s)[slug] = Mutated(AcceptIds(s)[entry.from], entry)
                   /\ entry.from \in Parents(s) /\ entry.muts \subseteq Mutations
  <2>1. WellFormed(s)
    BY SourcesAreTables
  <2>2. CASE slug \in DOMAIN s.reject
    <3>1. s.reject[slug].from \in Parents(s) /\ s.reject[slug].muts \subseteq Mutations
      BY <2>1, <2>2 DEF WellFormed, Parents
    <3>2. DerivedIds(s)[slug] = Mutated(AcceptIds(s)[s.reject[slug].from], s.reject[slug])
      BY <2>2, BuiltStatements
    <3> QED BY <3>1, <3>2
  <2>3. CASE slug \in DOMAIN s.ind
    <3>1. s.ind[slug].from \in Parents(s) /\ s.ind[slug].muts \subseteq Mutations
      BY <2>1, <2>3 DEF WellFormed, Parents
    <3>2. DerivedIds(s)[slug] = Mutated(AcceptIds(s)[s.ind[slug].from], s.ind[slug])
      BY <2>3, BuiltStatements, TablesOf
    <3> QED BY <3>1, <3>2
  <2> QED BY <2>2, <2>3
<1>2. entry.from \in DOMAIN s.accept
  BY <1>1
<1>3. AcceptIds(s)[entry.from].body \in Bodies /\ AcceptIds(s)[entry.from].muts = {}
  BY <1>2, AcceptStatement
<1> QED BY <1>1, <1>3, StatementFields DEF Mutated

\* A refusal of the regenerated table that the anchor gate finds nothing in.
LEMMA RefusalOfOneMutation ==
  ASSUME src \in Sources, IsTree(disk), RegenerabilityOk(src, disk), AnchorOk(src, disk, baseline),
         NEW row \in disk.reject.rows
  PROVE  /\ IsValid(row.parent)
         /\ IF row.id \in DOMAIN src.exceptions
            THEN Distance(row.parent, row.id) = src.exceptions[row.id] /\ src.exceptions[row.id] > 1
            ELSE row.id.body = row.parent.body /\ Cardinality(row.id.muts) = 1
<1>1. /\ Regenerates(src) /\ disk.files = Written(src).files /\ disk.reject = Written(src).reject
      /\ disk.manifest = ManifestOf(src, Written(src))
  BY ComparedAll, WhatIsRegenerated DEF RegenerabilityOk
<1>2. /\ row.parent \in IdsOf(OfKind(disk, "accept")) /\ OneMutation(src, disk)
      /\ \A id \in DOMAIN src.exceptions : src.exceptions[id] >= 2
  BY DEF AnchorOk, ParentsShipped, AnchorReadable
<1>3. PICK slug \in DOMAIN src.accept : row.parent = AcceptIds(src)[slug]
  <2>1. PICK listed \in disk.manifest.rows : listed.kind = "accept" /\ listed.id = row.parent
    BY <1>2 DEF IdsOf, OfKind
  <2>2. listed \in Range(AcceptRow(src)) \cup Range(DerivedRow(src, src.reject, "reject"))
                     \cup Range(DerivedRow(src, src.ind, "indeterminate"))
    BY <1>1, <2>1, RowsOfTheManifest, ListedByTheManifest
  <2>3. listed \in Range(AcceptRow(src))
    BY <2>1, <2>2, RowFields, RowsAreEntries, <1>1 DEF Range
  <2>4. PICK slug \in DOMAIN src.accept : listed = AcceptRow(src)[slug]
    BY <2>3, RowsAreEntries, <1>1 DEF Range
  <2> QED BY <2>1, <2>4, RowFields
<1>4. PICK name \in DOMAIN src.reject : row.id = DerivedIds(src)[name]
  <2>1. disk.reject.rows = DerivedRows(src.reject, DerivedFrom(src, src.reject), AcceptIds(src))
    BY <1>1, RowsWritten
  <2>2. \E name \in DOMAIN src.reject : row.id = DerivedFrom(src, src.reject)[name]
    BY <2>1 DEF DerivedRows
  <2> QED BY <2>2, BuiltStatements
<1>5. /\ Parents(src) \subseteq DOMAIN src.accept
      /\ \A x \in DOMAIN src.accept : IsValid(AcceptIds(src)[x])
  BY <1>1 DEF Regenerates, AcceptExitsZero, RejectExitsZero
<1>6. /\ IsValid(row.parent) /\ row.parent.body \in Bodies
      /\ row.id.body \in Bodies /\ row.id.muts \subseteq Mutations
  <2>1. row.parent.body \in Bodies
    BY <1>3, AcceptStatement
  <2>2. row.id.body \in Bodies /\ row.id.muts \subseteq Mutations
    BY <1>4, <1>5, DerivedStatement
  <2> QED BY <1>3, <1>5, <2>1, <2>2
<1>7. disk.files[row.parent] = row.parent /\ disk.files[row.id] = row.id
  <2>1. row.parent \in Range(AcceptIds(src)) /\ row.id \in Range(DerivedIds(src))
    BY <1>3, <1>4, BuiltStatements DEF Range
  <2>2. disk.files = [st \in Range(AcceptIds(src)) \cup Range(DerivedIds(src)) |-> st]
    BY <1>1, WhatIsWritten
  <2> QED BY <2>1, <2>2
<1>8. CASE row.id \in DOMAIN src.exceptions
  <2>1. src.exceptions[row.id] \in Int
    BY <1>8, SourcesAreTables DEF WellFormed
  <2>2. Distance(row.parent, row.id) = src.exceptions[row.id]
    BY <1>2, <1>7, <1>8 DEF OneMutation
  <2> QED BY <1>2, <1>6, <1>8, <2>1, <2>2
<1>9. CASE row.id \notin DOMAIN src.exceptions
  <2>1. Distance(row.parent, row.id) = 1
    BY <1>2, <1>7, <1>9 DEF OneMutation
  <2> QED BY <1>6, <1>9, <2>1, DistanceOne
<1> QED BY <1>8, <1>9

LEMMA OneDerivation ==
  ASSUME src \in Sources, IsTree(disk)
  PROVE  GateOkIsOneDerivation
<1> SUFFICES ASSUME RegenerabilityOk(src, disk), AnchorOk(src, disk, baseline)
             PROVE  /\ DOMAIN disk.files = IdsOf(disk.manifest.rows)
                    /\ \A st \in DOMAIN disk.files : disk.files[st] = st
                    /\ Cardinality(disk.manifest.rows) =
                         Cardinality(DOMAIN src.accept) + Cardinality(DOMAIN src.reject)
                           + Cardinality(DOMAIN src.ind)
                    /\ \A row, other \in disk.manifest.rows :
                         row.id = other.id => row = other \/ "accept" \in {row.kind, other.kind}
                    /\ \A slug \in DOMAIN src.accept :
                         \E row \in OfKind(disk, "accept") :
                           /\ row.id = Statement(src.accept[slug], {})
                           /\ IsValid(Statement(src.accept[slug], {}))
                           /\ row.pinned <=> slug \in src.pins
  BY RefusalOfOneMutation DEF GateOkIsOneDerivation
<1>1. /\ Regenerates(src) /\ disk.files = Written(src).files
      /\ disk.manifest = ManifestOf(src, Written(src))
  BY ComparedAll, WhatIsRegenerated DEF RegenerabilityOk
<1>2. disk.manifest.rows = ManifestRows(src, Written(src))
  BY <1>1, ListedByTheManifest
<1>3. DOMAIN disk.files = IdsOf(disk.manifest.rows)
  BY <1>1, <1>2 DEF Regenerates, ManifestRefused, IdsOf
<1>4. \A st \in DOMAIN disk.files : disk.files[st] = st
  <2>1. disk.files = [st \in Range(AcceptIds(src)) \cup Range(DerivedIds(src)) |-> st]
    BY <1>1, WhatIsWritten
  <2> QED BY <2>1
<1>5. Cardinality(disk.manifest.rows) =
        Cardinality(DOMAIN src.accept) + Cardinality(DOMAIN src.reject) + Cardinality(DOMAIN src.ind)
  BY <1>1, <1>2, AsManyRowsAsEntries
<1>6. \A row, other \in disk.manifest.rows :
        row.id = other.id => row = other \/ "accept" \in {row.kind, other.kind}
  BY <1>1, <1>2, OneRowEach
<1>7. ASSUME NEW slug \in DOMAIN src.accept
      PROVE  \E row \in OfKind(disk, "accept") :
               /\ row.id = Statement(src.accept[slug], {})
               /\ IsValid(Statement(src.accept[slug], {}))
               /\ row.pinned <=> slug \in src.pins
  <2>1. AcceptRow(src)[slug] \in disk.manifest.rows
    BY <1>1, <1>2, RowsOfTheManifest, RowsAreEntries DEF Range
  <2>2. /\ AcceptRow(src)[slug].id = Statement(src.accept[slug], {}) /\ AcceptRow(src)[slug].kind = "accept"
        /\ AcceptRow(src)[slug].pinned <=> slug \in src.pins
    BY RowFields, AcceptStatement
  <2>3. IsValid(Statement(src.accept[slug], {}))
    BY <1>1, AcceptStatement DEF Regenerates, AcceptExitsZero
  <2> QED BY <2>1, <2>2, <2>3 DEF OfKind
<1> QED BY <1>3, <1>4, <1>5, <1>6, <1>7
----------------------------------------------------------------------------
(* Every step leaves trees and runs what they are *)

LEMMA IdleIsARun == IsRun(Idle)
BY DEF Idle, IsRun

LEMMA RunStarts ==
  ASSUME NEW gen, NEW pc, NEW s, NEW r, r = [Idle EXCEPT !.gen = gen, !.pc = pc, !.src = s, !.n = 1]
  PROVE  /\ IsRun(r) /\ r.gen = gen /\ r.pc = pc /\ r.src = s /\ r.n = 1
         /\ r.ids = << >> /\ r.invalid = FALSE /\ r.disturbed = FALSE
BY DEF Idle, IsRun

LEMMA RunGoes ==
  ASSUME NEW r, IsRun(r), NEW pc, NEW n, NEW parents, NEW out, NEW u,
         u \in {[r EXCEPT !.pc = pc], [r EXCEPT !.n = n], [r EXCEPT !.pc = pc, !.n = n],
               [r EXCEPT !.parents = parents, !.pc = pc], [r EXCEPT !.out = out, !.pc = pc],
               [r EXCEPT !.disturbed = TRUE]}
  PROVE  IsRun(u)
BY DEF IsRun

LEMMA RunMakes ==
  ASSUME NEW r, IsRun(r), NEW slug, NEW st, NEW bad, NEW u,
         u = [r EXCEPT !.ids = Put(@, slug, st), !.n = @ + 1, !.invalid = @ \/ bad]
  PROVE  /\ IsRun(u) /\ u.gen = r.gen /\ u.pc = r.pc /\ u.src = r.src /\ u.n = r.n + 1
         /\ u.ids = Put(r.ids, slug, st) /\ u.parents = r.parents /\ u.out = r.out
         /\ u.invalid = (r.invalid \/ bad) /\ u.disturbed = r.disturbed
BY DEF IsRun

LEMMA ShapesInit == PipelineInit => Shapes
<1>1. IsTree(EmptyTree)
  BY DEF EmptyTree, IsTree, IsMapping
<1> QED BY <1>1, IdleIsARun, SourcesAreTables DEF PipelineInit, Shapes

LEMMA ShapesNext == Shapes /\ [PipelineNext]_pipelineVars => Shapes'
<1> SUFFICES ASSUME Shapes, [PipelineNext]_pipelineVars PROVE Shapes'
  OBVIOUS
<1> USE DEF Shapes
<1>1. \A name, st : IsTree([disk EXCEPT !.files = Put(@, name, st)])
  <2>1. TAKE name, st
  <2>2. IsMapping(Put(disk.files, name, st))
    BY PutIsMapping
  <2> QED BY <2>2, EditsOfATree
<1>2. ASSUME NEW ok, End(ok), IsTree(disk') PROVE Shapes'
  BY <1>2, IdleIsARun DEF End
<1>3. CASE StartAccept \/ StartReject \/ StartManifest
  <2>1. PICK gen, pc : Start(gen, pc)
    BY <1>3 DEF StartAccept, StartReject, StartManifest
  <2> QED BY <2>1, RunStarts DEF Start
<1>4. CASE WriteStatement
  <2>1. CASE Refuse
    BY <2>1, <1>2 DEF Refuse
  <2>2. CASE ~Refuse
    <3>1. PICK st \in Due :
            /\ Write([disk EXCEPT !.files = Put(@, st, st)])
            /\ run' = [run EXCEPT !.ids = Put(@, Order[run.n], st), !.n = @ + 1,
                                  !.invalid = @ \/ (run.gen = "accept" /\ ~IsValid(st))]
      BY <1>4, <2>2 DEF WriteStatement
    <3>2. IsRun(run')
      BY <3>1 DEF IsRun
    <3> QED BY <3>1, <3>2, <1>1 DEF Write
  <2> QED BY <2>1, <2>2
<1>5. CASE PassOver
  BY <1>5, RunGoes DEF PassOver, Skip
<1>6. CASE WriteBuildIds
  BY <1>6, RunGoes, EditsOfATree DEF WriteBuildIds, Write, Goto, IsTree
<1>7. CASE WriteAcceptIndex
  <2>1. CASE Refuse
    BY <2>1, <1>2 DEF Refuse
  <2>2. CASE ~Refuse
    BY <1>7, <2>2, <1>2, EditsOfATree DEF WriteAcceptIndex, Finish, IsTree
  <2> QED BY <2>1, <2>2
<1>8. CASE LoadMap
  <2>1. CASE Refuse
    BY <2>1, <1>2 DEF Refuse
  <2>2. CASE ~Refuse
    BY <1>8, <2>2 DEF LoadMap, Read, IsRun
  <2> QED BY <2>1, <2>2
<1>9. CASE GateParents
  <2>1. CASE Refuse
    BY <2>1, <1>2 DEF Refuse
  <2>2. CASE ~Refuse
    BY <1>9, <2>2 DEF GateParents, Read, Goto, IsRun
  <2> QED BY <2>1, <2>2
<1>10. CASE ToIndeterminate
  BY <1>10, RunGoes DEF ToIndeterminate, Read
<1>11. CASE WriteRejectIndex
  <2>1. CASE Refuse
    BY <2>1, <1>2 DEF Refuse
  <2>2. CASE ~Refuse
    <3>1. PICK rows : disk' = [disk EXCEPT !.reject = rows] /\ UNCHANGED src /\ Goto("indIndex")
      BY <1>11, <2>2 DEF WriteRejectIndex, Write
    <3> QED BY <3>1, RunGoes, EditsOfATree DEF Goto, IsTree
  <2> QED BY <2>1, <2>2
<1>12. CASE WriteIndIndex
  <2>1. CASE Refuse
    BY <2>1, <1>2 DEF Refuse
  <2>2. CASE ~Refuse
    BY <1>12, <2>2, <1>2, EditsOfATree DEF WriteIndIndex, Finish, IsTree
  <2> QED BY <2>1, <2>2
<1>13. CASE ReadTables
  <2>1. CASE Refuse
    BY <2>1, <1>2 DEF Refuse
  <2>2. CASE ~Refuse
    BY <1>13, <2>2 DEF ReadTables, Read, IsRun
  <2> QED BY <2>1, <2>2
<1>14. CASE WriteManifest
  BY <1>14, <1>2, EditsOfATree DEF WriteManifest, Finish, IsTree
<1>15. CASE Crash
  <2>1. ASSUME NEW t \in HalfWritten PROVE IsTree(t)
    BY <2>1, <1>1, EditsOfATree DEF HalfWritten, IsTree
  <2> QED BY <1>15, <2>1, IdleIsARun DEF Crash
<1>16. ASSUME Disturb PROVE IsRun(run')
  BY <1>16, RunGoes DEF Disturb
<1>17. CASE EditSource
  BY <1>16, <1>17 DEF EditSource
<1>18. CASE EditTree
  <2>1. \A S : IsTree([disk EXCEPT !.files = Restrict(@, S)])
    <3>1. TAKE S
    <3>2. IsMapping(Restrict(disk.files, S))
      BY DEF Restrict, IsMapping
    <3> QED BY <3>2, EditsOfATree
  <2>2. \A rows : IsTree([disk EXCEPT !.accept.rows = rows]) /\ IsTree([disk EXCEPT !.reject.rows = rows])
    BY RowsOfATree
  <2>3. IsTree([disk EXCEPT !.map = NoMap])
    BY EditsOfATree DEF IsTree
  <2>4. IsTree(disk')
    <3>1. CASE \E file \in HandPlaced : disk' = [disk EXCEPT !.files = Put(@, file.name, file.st)]
      BY <1>1, <3>1
    <3>2. CASE \E name \in DOMAIN disk.files : disk' = [disk EXCEPT !.files = Restrict(@, DOMAIN @ \ {name})]
      BY <2>1, <3>2
    <3>3. CASE \E row \in disk.accept.rows : disk' = [disk EXCEPT !.accept.rows = @ \ {row}]
      BY <2>2, <3>3
    <3>4. CASE \E row \in disk.reject.rows : disk' = [disk EXCEPT !.reject.rows = @ \ {row}]
      BY <2>2, <3>4
    <3> QED BY <1>18, <2>3, <3>1, <3>2, <3>3, <3>4 DEF EditTree
  <2> QED BY <1>16, <1>18, <2>4 DEF EditTree
<1>19. CASE Checkout
  <2>1. src' \in Sources /\ disk' = [Regenerated(src') EXCEPT !.map = disk.map]
    BY <1>19 DEF Checkout
  <2>2. IsTree(Regenerated(src'))
    BY WhatIsRegenerated
  <2>3. \A t, map : IsTree(t) => IsTree([t EXCEPT !.map = map])
    BY EditsOfATree DEF IsTree
  <2> QED BY <1>16, <1>19, <2>1, <2>2, <2>3 DEF Checkout
<1>20. CASE SyncAnchors
  BY <1>20 DEF SyncAnchors
<1>21. CASE UNCHANGED pipelineVars
  BY <1>21 DEF pipelineVars
<1> QED BY <1>3, <1>4, <1>5, <1>6, <1>7, <1>8, <1>9, <1>10, <1>11, <1>12, <1>13, <1>14, <1>15,
           <1>17, <1>18, <1>19, <1>20, <1>21 DEF PipelineNext
----------------------------------------------------------------------------
(* What holds while the recipe is followed *)

Kept(files, sts) == \A st \in sts : st \in DOMAIN files /\ files[st] = st

\* Under these slugs the statements of made were written.
Holding(ids, files, made, slugs) ==
  /\ slugs \subseteq DOMAIN made
  /\ ids = Restrict(made, slugs) /\ IsInjective(ids)
  /\ Kept(files, Range(ids))

\* What the accept generator, and then the reject generator, leaves.
AcceptBuilt(s, t) ==
  /\ AcceptExitsZero(s)
  /\ t.map = IdMap(AcceptIds(s)) /\ t.accept = Table(AcceptRows(s, AcceptIds(s)))
  /\ Kept(t.files, Range(AcceptIds(s)))

DerivedBuilt(s, t) ==
  /\ RejectExitsZero(s)
  /\ t.reject = Written(s).reject /\ t.ind = Written(s).ind
  /\ Kept(t.files, Range(DerivedIds(s)))

Built(k, s, t) ==
  /\ k >= 1 => AcceptBuilt(s, t)
  /\ k >= 2 => DerivedBuilt(s, t)
  /\ k = 3 => RegenerabilityOk(s, t)

\* The slugs of an order that are behind its n-th place.
Before(order, n)  == {order[i] : i \in 1..(n - 1)}
Places(order)     == 1..(Len(order) + 1)

AcceptUnderway(s, t, r) ==
  /\ r.pc = "accept" =>
       /\ r.n \in Places(AcceptOrder)
       /\ Holding(r.ids, t.files, AcceptIds(s), Before(AcceptOrder, r.n) \cap DOMAIN s.accept)
  /\ r.pc = "acceptIndex" =>
       /\ Holding(r.ids, t.files, AcceptIds(s), DOMAIN s.accept)
       /\ t.map = IdMap(AcceptIds(s))
  /\ r.invalid <=> \E slug \in DOMAIN r.ids : ~IsValid(r.ids[slug])

\* The order the reject generator goes through, and the slugs it has made.
DerivedOrder(pc) == IF pc = "reject" THEN RejectOrder ELSE IndOrder

Reached(s, pc, n) ==
  IF pc = "reject" THEN Before(RejectOrder, n) \cap DOMAIN s.reject
  ELSE DOMAIN s.reject \cup (Before(IndOrder, n) \cap DOMAIN s.ind)

RejectUnderway(s, t, r) ==
  /\ ~r.invalid
  /\ r.pc \in {"loadMap", "gateParents"} => r.ids = << >> /\ r.n = 1
  /\ r.pc # "loadMap" => r.parents = AcceptIds(s) /\ DOMAIN s.accept # {}
  /\ r.pc \in {"reject", "ind", "indIndex"} =>
       /\ Parents(s) \subseteq DOMAIN s.accept
       /\ \A slug \in DOMAIN r.ids : ~SecondFault(r.ids[slug])
  /\ r.pc \in {"reject", "ind"} =>
       /\ r.n \in Places(DerivedOrder(r.pc))
       /\ Holding(r.ids, t.files, DerivedIds(s), Reached(s, r.pc, r.n))
  /\ r.pc = "indIndex" =>
       /\ Holding(r.ids, t.files, DerivedIds(s), DOMAIN DerivedIds(s))
       /\ s.clauses \subseteq DOMAIN DerivedIds(s) /\ Resolves(s.reject, AcceptIds(s))
       /\ t.reject = Written(s).reject

ManifestUnderway(s, t, r) ==
  /\ ~r.invalid
  /\ r.pc = "writeManifest" => ~ManifestRefused(s, t) /\ r.out = ManifestOf(s, t)

Underway(s, t, r) ==
  /\ r.src = s
  /\ r.gen = "accept" => AcceptUnderway(s, t, r)
  /\ r.gen = "reject" => RejectUnderway(s, t, r)
  /\ r.gen = "manifest" => ManifestUnderway(s, t, r)

\* Where a generator is.
Stages(gen) ==
  CASE gen = "none" -> {"idle"}
    [] gen = "accept" -> {"accept", "acceptIndex"}
    [] gen = "reject" -> {"loadMap", "gateParents", "reject", "ind", "indIndex"}
    [] gen = "manifest" -> {"readTables", "writeManifest"}

\* Why one that was given what its predecessors left refuses.
Reason(gen, s, t) ==
  \/ ~Regenerates(s)
  \/ gen = "manifest" /\ DOMAIN t.files \ DOMAIN Regenerated(s).files # {}

RecipeInv ==
  /\ recipe \in 0..3
  /\ run.gen \in {"none", "accept", "reject", "manifest"} /\ run.pc \in Stages(run.gen)
  /\ run.gen # "none" =>
       /\ last = NoEnd
       /\ recipe = 0 \/ recipe = Place(run.gen) - 1
       /\ run.disturbed => recipe = 0
       /\ InOrder => Underway(src, disk, run)
  /\ Built(recipe, src, disk)
  /\ last.gen # "none" /\ last.inOrder /\ ~last.ok => Reason(last.gen, src, disk)

----------------------------------------------------------------------------
(* One statement after the other *)

LEMMA BeforePlaces ==
  ASSUME NEW order \in {AcceptOrder, RejectOrder, IndOrder}
  PROVE  /\ 1 \in Places(order) /\ Before(order, 1) = {}
         /\ \A n \in Places(order) :
              /\ n > Len(order) => Before(order, n) = Range(order)
              /\ n \in DOMAIN order =>
                   /\ n + 1 \in Places(order)
                   /\ Before(order, n + 1) = Before(order, n) \cup {order[n]}
                   /\ order[n] \notin Before(order, n)
<1>1. Len(order) \in Nat /\ DOMAIN order = 1..Len(order)
  BY OrdersAreFinite
<1>2. \A i, j \in 1..Len(order) : order[i] = order[j] => i = j
  BY <1>1, SlugsAreDistinct DEF IsInjective
<1>3. 1 \in Places(order) /\ Before(order, 1) = {}
  BY <1>1 DEF Places, Before
<1>4. Places(order) = 1..(Len(order) + 1)
  BY DEF Places
<1>5. ASSUME NEW n \in Places(order), n > Len(order) PROVE Before(order, n) = Range(order)
  <2>1. n - 1 = Len(order)
    BY <1>1, <1>4, <1>5
  <2> QED BY <1>1, <2>1 DEF Before, Range
<1>6. ASSUME NEW n \in Places(order), n \in DOMAIN order
      PROVE  /\ n + 1 \in Places(order)
             /\ Before(order, n + 1) = Before(order, n) \cup {order[n]}
             /\ order[n] \notin Before(order, n)
  <2>1. n \in 1..Len(order) /\ n + 1 \in Places(order)
    BY <1>1, <1>6 DEF Places
  <2>2. 1..((n + 1) - 1) = (1..(n - 1)) \cup {n}
    BY <1>1, <2>1
  <2>3. Before(order, n + 1) = Before(order, n) \cup {order[n]}
    BY <2>2 DEF Before
  <2>4. order[n] \notin Before(order, n)
    BY <1>1, <1>2, <2>1 DEF Before
  <2> QED BY <2>1, <2>3, <2>4
<1> QED BY <1>3, <1>5, <1>6

LEMMA NoneYet ==
  ASSUME NEW files, NEW made
  PROVE  Holding(<< >>, files, made, {})
<1>1. << >> = Restrict(made, {})
  BY DEF Restrict
<1> QED BY <1>1 DEF Holding, IsInjective, Kept, Range

LEMMA KeptByPut ==
  ASSUME NEW files, NEW st, NEW sts, Kept(files, sts)
  PROVE  Kept(Put(files, st, st), sts \cup {st})
BY DEF Put, Kept

LEMMA OneMore ==
  ASSUME NEW ids, NEW files, NEW made, NEW slugs, Holding(ids, files, made, slugs),
         NEW slug \in DOMAIN made, made[slug] \notin Range(ids)
  PROVE  /\ Holding(Put(ids, slug, made[slug]), Put(files, made[slug], made[slug]), made,
                     slugs \cup {slug})
         /\ DOMAIN Put(ids, slug, made[slug]) = DOMAIN ids \cup {slug}
         /\ \A x \in DOMAIN ids : Put(ids, slug, made[slug])[x] = ids[x]
         /\ Put(ids, slug, made[slug])[slug] = made[slug]
<1> DEFINE new == Put(ids, slug, made[slug])
<1>1. ids = Restrict(made, slugs) /\ slugs \subseteq DOMAIN made /\ IsInjective(ids) /\ Kept(files, Range(ids))
  BY DEF Holding
<1>2. DOMAIN ids = slugs /\ \A x \in slugs : ids[x] = made[x]
  BY <1>1 DEF Restrict
<1>3. slug \notin slugs
  BY <1>2 DEF Range
<1>4. /\ new = Restrict(made, slugs \cup {slug}) /\ DOMAIN new = slugs \cup {slug}
      /\ \A x \in slugs : new[x] = ids[x]
      /\ new[slug] = made[slug]
  BY <1>2, <1>3 DEF Put, Restrict
<1> HIDE DEF new
<1>5. IsInjective(new)
  BY <1>1, <1>2, <1>4 DEF IsInjective, Range
<1>6. Range(new) = Range(ids) \cup {made[slug]}
  BY <1>2, <1>4 DEF Range
<1>7. Kept(Put(files, made[slug], made[slug]), Range(new))
  BY <1>1, <1>6, KeptByPut
<1> QED BY <1>1, <1>2, <1>4, <1>5, <1>7 DEF Holding, new

LEMMA Twice ==
  ASSUME NEW ids, NEW files, NEW made, NEW slugs, Holding(ids, files, made, slugs),
         NEW slug \in DOMAIN made \ slugs, made[slug] \in Range(ids)
  PROVE  ~Distinct(made)
<1>1. PICK x \in slugs : made[x] = made[slug]
  BY DEF Holding, Restrict, Range
<1> QED BY <1>1 DEF Distinct, IsInjective, Holding

LEMMA AllMade ==
  ASSUME NEW ids, NEW files, NEW made, IsMapping(made), Holding(ids, files, made, DOMAIN made)
  PROVE  ids = made /\ Distinct(made) /\ Kept(files, Range(made))
<1>1. Restrict(made, DOMAIN made) = made
  BY DEF IsMapping, Restrict
<1> QED BY <1>1 DEF Holding, Distinct
----------------------------------------------------------------------------
(* What any step of a generator does to the invariant *)

LEMMA PlaceOf == Place("accept") = 1 /\ Place("reject") = 2 /\ Place("manifest") = 3
BY DEF Place

LEMMA StageOf ==
  ASSUME RecipeInv
  PROVE  /\ run.gen = "none" <=> run.pc = "idle"
         /\ run.gen = "accept" <=> run.pc \in {"accept", "acceptIndex"}
         /\ run.gen = "reject" <=> run.pc \in {"loadMap", "gateParents", "reject", "ind", "indIndex"}
         /\ run.gen = "manifest" <=> run.pc \in {"readTables", "writeManifest"}
BY DEF RecipeInv, Stages

\* A run that is not in order counts for nothing.
LEMMA OutOfOrder ==
  ASSUME RecipeInv, run.gen # "none", ~InOrder
  PROVE  recipe = 0
BY DEF RecipeInv, InOrder

LEMMA InOrderPlace ==
  ASSUME RecipeInv, run.gen # "none", InOrder
  PROVE  /\ Underway(src, disk, run) /\ recipe = Place(run.gen) - 1
         /\ run.gen = "accept" => recipe = 0
         /\ run.gen = "reject" => recipe = 1
         /\ run.gen = "manifest" => recipe = 2
BY PlaceOf DEF RecipeInv, InOrder

LEMMA Ended ==
  ASSUME RecipeInv, run.gen # "none", NEW ok \in BOOLEAN, End(ok),
         InOrder /\ ok => Built(Place(run.gen), src, disk'),
         InOrder /\ ~ok => Reason(run.gen, src, disk')
  PROVE  RecipeInv'
<1>1. run' = Idle /\ src' = src /\ last' = [gen |-> run.gen, ok |-> ok, inOrder |-> InOrder]
  BY DEF End
<1>2. run'.gen = "none" /\ run'.pc \in Stages(run'.gen)
  BY <1>1 DEF Idle, Stages
<1>3. run.gen \in {"accept", "reject", "manifest"} /\ Place(run.gen) \in 1..3
  BY PlaceOf DEF RecipeInv
<1>4. recipe' \in 0..3 /\ Built(recipe', src', disk')
  <2>1. CASE ok /\ InOrder
    BY <1>1, <1>3, <2>1 DEF End
  <2>2. CASE ~(ok /\ InOrder)
    BY <2>2 DEF End, Built
  <2> QED BY <2>1, <2>2
<1>5. last'.gen # "none" /\ last'.inOrder /\ ~last'.ok => Reason(last'.gen, src', disk')
  BY <1>1
<1> QED BY <1>2, <1>4, <1>5 DEF RecipeInv

LEMMA Stepped ==
  ASSUME RecipeInv, run.gen # "none", UNCHANGED <<src, recipe, last>>,
         run'.gen = run.gen, run'.pc \in Stages(run.gen), run'.disturbed = run.disturbed,
         InOrder => Built(recipe, src, disk') /\ Underway(src, disk', run')
  PROVE  RecipeInv'
<1>1. InOrder' <=> InOrder
  BY DEF InOrder
<1>2. Built(recipe, src, disk')
  <2>1. CASE InOrder
    BY <2>1
  <2>2. CASE ~InOrder
    BY <2>2, OutOfOrder DEF Built
  <2> QED BY <2>1, <2>2
<1>3. ~(last'.gen # "none")
  BY DEF RecipeInv, NoEnd
<1> QED BY <1>1, <1>2, <1>3 DEF RecipeInv

\* Whatever the invariant says of the recipe is about one that nothing else
\* happened in.
LEMMA ResetStep ==
  ASSUME RecipeInv, IsRun(run), recipe' = 0, last' = NoEnd,
         \/ run' = Idle
         \/ run' = run /\ run.gen = "none"
         \/ run' = [run EXCEPT !.disturbed = TRUE]
  PROVE  RecipeInv'
<1>1. run'.gen \in {"none", "accept", "reject", "manifest"} /\ run'.pc \in Stages(run'.gen)
  BY DEF RecipeInv, Idle, IsRun, Stages
<1>2. run'.gen # "none" => ~InOrder'
  BY DEF Idle, IsRun, InOrder
<1>3. ~(last'.gen # "none")
  BY DEF NoEnd
<1> QED BY <1>1, <1>2, <1>3 DEF RecipeInv, Built
----------------------------------------------------------------------------
(* The accept generator *)

LEMMA AcceptDue ==
  ASSUME run.src = src, run.gen = "accept", run.pc = "accept", AtEntry
  PROVE  /\ run.n \in DOMAIN AcceptOrder /\ Order[run.n] = AcceptOrder[run.n]
         /\ AcceptOrder[run.n] \in DOMAIN src.accept
         /\ Due = {AcceptIds(src)[AcceptOrder[run.n]]}
<1>1. Order = AcceptOrder /\ Entries = src.accept
  BY DEF Order, Entries
<1>2. run.n \in DOMAIN AcceptOrder /\ AcceptOrder[run.n] \in DOMAIN src.accept
  BY <1>1 DEF AtEntry
<1>3. Due = {Statement(src.accept[AcceptOrder[run.n]], {})}
  BY <1>1 DEF Due
<1> QED BY <1>1, <1>2, <1>3, BuiltStatements

LEMMA AcceptWrites ==
  ASSUME Shapes, RecipeInv, WriteStatement, run.pc = "accept"
  PROVE  RecipeInv'
<1> DEFINE slug == AcceptOrder[run.n]
           made == AcceptIds(src)
           done == Before(AcceptOrder, run.n) \cap DOMAIN src.accept
<1>1. run.gen = "accept" /\ AtEntry
  BY StageOf DEF WriteStatement
<1>2. InOrder => /\ Underway(src, disk, run) /\ AcceptUnderway(src, disk, run)
                 /\ run.n \in Places(AcceptOrder) /\ Holding(run.ids, disk.files, made, done)
  BY <1>1, InOrderPlace DEF Underway, AcceptUnderway
<1>3. InOrder => /\ run.n \in DOMAIN AcceptOrder /\ Order[run.n] = slug
                 /\ slug \in DOMAIN src.accept /\ slug \in DOMAIN made
                 /\ slug \notin done /\ Due = {made[slug]}
                 /\ run.n + 1 \in Places(AcceptOrder)
                 /\ Before(AcceptOrder, run.n + 1) \cap DOMAIN src.accept = done \cup {slug}
  <2>1. InOrder => /\ run.n \in DOMAIN AcceptOrder /\ Order[run.n] = slug
                   /\ slug \in DOMAIN src.accept /\ Due = {made[slug]}
    BY <1>1, <1>2, AcceptDue DEF Underway
  <2>2. InOrder => /\ run.n + 1 \in Places(AcceptOrder)
                   /\ Before(AcceptOrder, run.n + 1) = Before(AcceptOrder, run.n) \cup {slug}
                   /\ slug \notin Before(AcceptOrder, run.n)
    BY <1>2, <2>1, BeforePlaces
  <2>3. DOMAIN made = DOMAIN src.accept
    BY BuiltStatements
  <2> HIDE DEF slug, made
  <2> QED BY <2>1, <2>2, <2>3
<1>4. CASE Due = {} \/ Due \subseteq Range(run.ids)
  <2>1. End(FALSE) /\ disk' = disk
    BY <1>4 DEF WriteStatement, Refuse
  <2>2. ASSUME InOrder PROVE ~Regenerates(src)
    <3>1. ~Distinct(made)
      BY <1>2, <1>3, <1>4, <2>2, Twice
    <3> QED BY <3>1 DEF Regenerates, AcceptExitsZero
  <2> QED BY <1>1, <2>1, <2>2, Ended DEF Reason
<1>5. CASE ~(Due = {} \/ Due \subseteq Range(run.ids))
  <2>1. PICK st \in Due :
          /\ Write([disk EXCEPT !.files = Put(@, st, st)])
          /\ run' = [run EXCEPT !.ids = Put(@, Order[run.n], st), !.n = @ + 1,
                                !.invalid = @ \/ (run.gen = "accept" /\ ~IsValid(st))]
    BY <1>5 DEF WriteStatement
  <2>2. /\ run'.gen = run.gen /\ run'.pc = run.pc /\ run'.src = run.src /\ run'.n = run.n + 1
        /\ run'.ids = Put(run.ids, Order[run.n], st) /\ run'.disturbed = run.disturbed
        /\ run'.invalid <=> (run.invalid \/ ~IsValid(st))
    BY <1>1, <2>1 DEF Shapes, IsRun
  <2>3. disk'.files = Put(disk.files, st, st) /\ UNCHANGED <<src, recipe, last>>
    BY <2>1 DEF Shapes, IsTree, Write
  <2>4. ASSUME InOrder PROVE Built(recipe, src, disk') /\ Underway(src, disk', run')
    <3>1. st = made[slug] /\ made[slug] \notin Range(run.ids)
      BY <1>3, <1>5, <2>1, <2>4
    <3>2. /\ Holding(run'.ids, disk'.files, made, done \cup {slug})
          /\ DOMAIN run'.ids = DOMAIN run.ids \cup {slug}
          /\ \A x \in DOMAIN run.ids : run'.ids[x] = run.ids[x]
          /\ run'.ids[slug] = made[slug]
      <4> HIDE DEF slug, made, done
      <4>1. /\ Holding(run.ids, disk.files, made, done) /\ slug \in DOMAIN made
            /\ run'.ids = Put(run.ids, slug, made[slug])
            /\ disk'.files = Put(disk.files, made[slug], made[slug])
        BY <1>2, <1>3, <2>2, <2>3, <2>4, <3>1
      <4> QED BY <3>1, <4>1, OneMore
    <3>3. run'.invalid <=> \E x \in DOMAIN run'.ids : ~IsValid(run'.ids[x])
      BY <1>2, <2>2, <2>4, <3>1, <3>2 DEF AcceptUnderway
    <3>4. Built(recipe, src, disk')
      BY <1>1, <2>4, InOrderPlace DEF Built
    <3>5. AcceptUnderway(src, disk', run')
      BY <1>3, <2>2, <2>4, <3>2, <3>3 DEF AcceptUnderway
    <3> QED BY <1>1, <1>2, <2>2, <2>4, <3>4, <3>5 DEF Underway
  <2> QED BY <1>1, <2>2, <2>3, <2>4, Stepped DEF RecipeInv
<1> QED BY <1>4, <1>5

LEMMA AcceptMaps ==
  ASSUME Shapes, RecipeInv, WriteBuildIds
  PROVE  RecipeInv'
<1>1. run.pc = "accept" /\ run.gen = "accept" /\ AtEnd
  BY StageOf DEF WriteBuildIds
<1>2. /\ disk'.map = IdMap(run.ids) /\ disk'.files = disk.files /\ UNCHANGED <<src, recipe, last>>
      /\ run'.gen = run.gen /\ run'.pc = "acceptIndex" /\ run'.src = run.src
      /\ run'.ids = run.ids /\ run'.invalid = run.invalid /\ run'.disturbed = run.disturbed
  BY DEF WriteBuildIds, Write, Goto, Shapes, IsTree, IsRun
<1>3. ASSUME InOrder PROVE Built(recipe, src, disk') /\ Underway(src, disk', run')
  <2>1. AcceptUnderway(src, disk, run) /\ run.src = src /\ recipe = 0
    BY <1>1, <1>3, InOrderPlace DEF Underway
  <2>2. Before(AcceptOrder, run.n) \cap DOMAIN src.accept = DOMAIN src.accept
    <3>1. run.n \in Places(AcceptOrder) /\ run.n > Len(AcceptOrder)
      BY <1>1, <2>1 DEF AcceptUnderway, AtEnd, Order
    <3>2. Before(AcceptOrder, run.n) = AcceptSlugs
      BY <3>1, BeforePlaces DEF AcceptSlugs
    <3> QED BY <3>2, TablesOf DEF Shapes
  <2>3. Holding(run.ids, disk.files, AcceptIds(src), DOMAIN src.accept)
    BY <1>1, <2>1, <2>2 DEF AcceptUnderway
  <2>4. run.ids = AcceptIds(src)
    BY <2>3, AllMade, BuiltStatements
  <2>5. AcceptUnderway(src, disk', run')
    BY <1>2, <2>1, <2>3, <2>4 DEF AcceptUnderway
  <2> QED BY <1>1, <1>2, <2>1, <2>5 DEF Underway, Built
<1> QED BY <1>1, <1>2, <1>3, Stepped DEF Stages

LEMMA AcceptEnds ==
  ASSUME Shapes, RecipeInv, WriteAcceptIndex
  PROVE  RecipeInv'
<1>1. run.pc = "acceptIndex" /\ run.gen = "accept"
  BY StageOf DEF WriteAcceptIndex
<1>2. InOrder => /\ run.src = src /\ run.ids = AcceptIds(src) /\ Distinct(AcceptIds(src))
                 /\ Kept(disk.files, Range(AcceptIds(src))) /\ disk.map = IdMap(AcceptIds(src))
                 /\ run.invalid <=> \E slug \in DOMAIN src.accept : ~IsValid(AcceptIds(src)[slug])
  <2> SUFFICES ASSUME InOrder
               PROVE  /\ run.src = src /\ run.ids = AcceptIds(src) /\ Distinct(AcceptIds(src))
                      /\ Kept(disk.files, Range(AcceptIds(src))) /\ disk.map = IdMap(AcceptIds(src))
                      /\ run.invalid <=> \E slug \in DOMAIN src.accept : ~IsValid(AcceptIds(src)[slug])
    OBVIOUS
  <2>1. AcceptUnderway(src, disk, run) /\ run.src = src
    BY <1>1, InOrderPlace DEF Underway
  <2>2. Holding(run.ids, disk.files, AcceptIds(src), DOMAIN src.accept) /\ disk.map = IdMap(AcceptIds(src))
    BY <1>1, <2>1 DEF AcceptUnderway
  <2>3. /\ run.ids = AcceptIds(src) /\ Distinct(AcceptIds(src))
        /\ Kept(disk.files, Range(AcceptIds(src)))
    BY <2>2, AllMade, BuiltStatements
  <2> QED BY <2>1, <2>2, <2>3, BuiltStatements DEF AcceptUnderway
<1>3. CASE ~AcceptRowsAgree(run.src)
  <2>1. End(FALSE) /\ disk' = disk
    BY <1>3 DEF WriteAcceptIndex, Refuse
  <2>2. InOrder => ~Regenerates(src)
    BY <1>2, <1>3 DEF Regenerates, AcceptExitsZero
  <2> QED BY <1>1, <2>1, <2>2, Ended DEF Reason
<1>4. CASE AcceptRowsAgree(run.src)
  <2>1. /\ disk' = [disk EXCEPT !.accept = Table(AcceptRows(run.src, run.ids))]
        /\ End(~run.invalid)
    BY <1>4 DEF WriteAcceptIndex, Finish
  <2>2. /\ disk'.accept = Table(AcceptRows(run.src, run.ids))
        /\ disk'.files = disk.files /\ disk'.map = disk.map
    BY <2>1 DEF Shapes, IsTree
  <2>3. ASSUME InOrder, ~run.invalid PROVE Built(Place(run.gen), src, disk')
    <3>1. AcceptBuilt(src, disk')
      BY <1>2, <1>4, <2>2, <2>3 DEF AcceptBuilt, AcceptExitsZero
    <3> QED BY <1>1, <3>1, PlaceOf DEF Built
  <2>4. ASSUME InOrder, run.invalid PROVE ~Regenerates(src)
    BY <1>2, <2>4 DEF Regenerates, AcceptExitsZero
  <2> QED BY <1>1, <2>1, <2>3, <2>4, Ended DEF Reason
<1> QED BY <1>3, <1>4
----------------------------------------------------------------------------
(* The reject generator *)

\* The parents are read as the accept generator wrote them.
LEMMA ParentsRead ==
  ASSUME src \in Sources, AcceptBuilt(src, disk), run.parents = AcceptIds(src),
         NEW p \in DOMAIN src.accept
  PROVE  Readable(p) /\ Parent(p) = AcceptIds(src)[p] /\ IsValid(Parent(p))
<1>1. AcceptIds(src)[p].body \in Bodies /\ p \in DOMAIN AcceptIds(src)
  BY AcceptStatement, BuiltStatements
<1>2. AcceptIds(src)[p] # TornFile
  BY <1>1, StatementsParse, StatementFields DEF TornFile
<1>3. AcceptIds(src)[p] \in DOMAIN disk.files /\ disk.files[AcceptIds(src)[p]] = AcceptIds(src)[p]
  BY <1>1 DEF AcceptBuilt, Kept, Range
<1>4. IsValid(AcceptIds(src)[p])
  BY DEF AcceptBuilt, AcceptExitsZero
<1> QED BY <1>1, <1>2, <1>3, <1>4 DEF Readable, Parent

LEMMA RejectInOrder ==
  ASSUME RecipeInv, run.gen = "reject", InOrder
  PROVE  RejectUnderway(src, disk, run) /\ run.src = src /\ AcceptBuilt(src, disk) /\ recipe = 1
BY InOrderPlace DEF Underway, RecipeInv, Built

\* What the next step adds to what was made.
LEMMA ReachedNext ==
  ASSUME NEW s \in Sources, NEW pc \in {"reject", "ind"}, NEW n \in Places(DerivedOrder(pc)),
         n \in DOMAIN DerivedOrder(pc),
         NEW table, table = (IF pc = "reject" THEN s.reject ELSE s.ind)
  PROVE  /\ n + 1 \in Places(DerivedOrder(pc))
         /\ DerivedOrder(pc)[n] \in DOMAIN table =>
              /\ DerivedOrder(pc)[n] \in DOMAIN DerivedIds(s) \ Reached(s, pc, n)
              /\ Reached(s, pc, n + 1) = Reached(s, pc, n) \cup {DerivedOrder(pc)[n]}
         /\ DerivedOrder(pc)[n] \notin DOMAIN table => Reached(s, pc, n + 1) = Reached(s, pc, n)
<1> DEFINE slug == DerivedOrder(pc)[n]
<1>1. DOMAIN DerivedIds(s) = DOMAIN s.reject \cup DOMAIN s.ind /\ DOMAIN s.reject \cap DOMAIN s.ind = {}
  BY BuiltStatements, TablesOf
<1>2. CASE pc = "reject"
  <2>1. /\ n + 1 \in Places(RejectOrder) /\ slug \notin Before(RejectOrder, n)
        /\ Before(RejectOrder, n + 1) = Before(RejectOrder, n) \cup {slug}
    BY <1>2, BeforePlaces DEF DerivedOrder
  <2> HIDE DEF slug
  <2>2. slug \in DOMAIN table =>
          /\ slug \in DOMAIN DerivedIds(s) \ Reached(s, pc, n)
          /\ Reached(s, pc, n + 1) = Reached(s, pc, n) \cup {slug}
    BY <1>1, <1>2, <2>1 DEF Reached
  <2>3. slug \notin DOMAIN table => Reached(s, pc, n + 1) = Reached(s, pc, n)
    BY <1>2, <2>1 DEF Reached
  <2> QED BY <1>2, <2>1, <2>2, <2>3 DEF DerivedOrder, slug
<1>3. CASE pc = "ind"
  <2>1. /\ n + 1 \in Places(IndOrder) /\ slug \notin Before(IndOrder, n)
        /\ Before(IndOrder, n + 1) = Before(IndOrder, n) \cup {slug}
    BY <1>3, BeforePlaces DEF DerivedOrder
  <2> HIDE DEF slug
  <2>2. slug \in DOMAIN table =>
          /\ slug \in DOMAIN DerivedIds(s) \ Reached(s, pc, n)
          /\ Reached(s, pc, n + 1) = Reached(s, pc, n) \cup {slug}
    BY <1>1, <1>3, <2>1 DEF Reached
  <2>3. slug \notin DOMAIN table => Reached(s, pc, n + 1) = Reached(s, pc, n)
    BY <1>3, <2>1 DEF Reached
  <2> QED BY <1>3, <2>1, <2>2, <2>3 DEF DerivedOrder, slug
<1> QED BY <1>2, <1>3

LEMMA ReachedAll ==
  ASSUME NEW s \in Sources, NEW pc \in {"reject", "ind"}, NEW n \in Places(DerivedOrder(pc)),
         n > Len(DerivedOrder(pc))
  PROVE  /\ pc = "reject" => Reached(s, pc, n) = DOMAIN s.reject
         /\ pc = "ind" => Reached(s, pc, n) = DOMAIN DerivedIds(s)
<1>1. DOMAIN s.reject \subseteq RejectSlugs /\ DOMAIN s.ind \subseteq IndSlugs
  BY TablesOf
<1>2. pc = "reject" => Before(RejectOrder, n) = RejectSlugs
  BY BeforePlaces DEF DerivedOrder, RejectSlugs
<1>3. pc = "ind" => Before(IndOrder, n) = IndSlugs
  BY BeforePlaces DEF DerivedOrder, IndSlugs
<1>4. DOMAIN DerivedIds(s) = DOMAIN s.reject \cup DOMAIN s.ind
  BY BuiltStatements
<1> QED BY <1>1, <1>2, <1>3, <1>4 DEF Reached

LEMMA DerivedDue ==
  ASSUME Shapes, RecipeInv, InOrder, run.pc \in {"reject", "ind"}, AtEntry
  PROVE  LET slug == DerivedOrder(run.pc)[run.n] IN
         /\ run.n \in DOMAIN DerivedOrder(run.pc) /\ Order[run.n] = slug
         /\ slug \in DOMAIN (IF run.pc = "reject" THEN src.reject ELSE src.ind)
         /\ Due = {st \in {DerivedIds(src)[slug]} : ~SecondFault(st)}
<1> DEFINE slug  == DerivedOrder(run.pc)[run.n]
           table == IF run.pc = "reject" THEN src.reject ELSE src.ind
<1>1. run.gen = "reject"
  BY StageOf
<1>2. RejectUnderway(src, disk, run) /\ run.src = src /\ AcceptBuilt(src, disk)
  BY <1>1, RejectInOrder
<1>3. Order = DerivedOrder(run.pc) /\ Entries = table
  BY <1>2 DEF Order, Entries, DerivedOrder
<1>4. run.n \in DOMAIN DerivedOrder(run.pc) /\ Order[run.n] = slug /\ slug \in DOMAIN table
  BY <1>3 DEF AtEntry
<1>5. table[slug].from \in DOMAIN src.accept
  <2>1. Parents(src) \subseteq DOMAIN src.accept
    BY <1>2 DEF RejectUnderway
  <2>2. table[slug].from \in Parents(src)
    BY <1>4 DEF Parents
  <2> QED BY <2>1, <2>2
<1>6. DerivedIds(src)[slug] = Mutated(AcceptIds(src)[table[slug].from], table[slug])
  BY <1>4, BuiltStatements, TablesOf DEF Shapes
<1>7. Readable(table[slug].from) /\ Parent(table[slug].from) = AcceptIds(src)[table[slug].from]
  BY <1>2, <1>5, ParentsRead DEF Shapes, RejectUnderway
<1>8. Due = {st \in {Mutated(Parent(table[slug].from), table[slug])} : ~SecondFault(st)}
  <2> HIDE DEF table, slug
  <2> QED BY <1>1, <1>3, <1>4, <1>7 DEF Due
<1> QED BY <1>4, <1>6, <1>7, <1>8

\* The parents' statements stay where they are when another is written.
LEMMA ParentsStay ==
  ASSUME NEW s, NEW t, NEW u, AcceptBuilt(s, t), u.map = t.map, u.accept = t.accept,
         u.files = t.files \/ \E st : u.files = Put(t.files, st, st)
  PROVE  AcceptBuilt(s, u)
<1> DEFINE ids == Range(AcceptIds(s))
<1>1. Kept(t.files, ids)
  BY DEF AcceptBuilt
<1>2. Kept(u.files, ids)
  <2> HIDE DEF ids
  <2>1. CASE u.files = t.files
    BY <1>1, <2>1
  <2>2. ASSUME NEW st, u.files = Put(t.files, st, st) PROVE Kept(u.files, ids)
    <3>1. Kept(u.files, ids \cup {st})
      BY <1>1, <2>2, KeptByPut
    <3> QED BY <3>1 DEF Kept
  <2> QED BY <2>1, <2>2
<1> QED BY <1>2 DEF AcceptBuilt

LEMMA DerivedWrites ==
  ASSUME Shapes, RecipeInv, WriteStatement, run.pc \in {"reject", "ind"}
  PROVE  RecipeInv'
<1> DEFINE slug == DerivedOrder(run.pc)[run.n]
           made == DerivedIds(src)
           done == Reached(src, run.pc, run.n)
<1>1. run.gen = "reject" /\ AtEntry
  BY StageOf DEF WriteStatement
<1>2. InOrder => /\ RejectUnderway(src, disk, run) /\ run.src = src /\ AcceptBuilt(src, disk) /\ recipe = 1
                 /\ Holding(run.ids, disk.files, made, done)
  BY <1>1, RejectInOrder DEF RejectUnderway
<1>3. InOrder => /\ Order[run.n] = slug /\ slug \in DOMAIN made \ done
                 /\ Due = {st \in {made[slug]} : ~SecondFault(st)}
                 /\ run.n + 1 \in Places(DerivedOrder(run.pc))
                 /\ Reached(src, run.pc, run.n + 1) = done \cup {slug}
  <2> SUFFICES ASSUME InOrder
               PROVE  /\ Order[run.n] = slug /\ slug \in DOMAIN made \ done
                      /\ Due = {st \in {made[slug]} : ~SecondFault(st)}
                      /\ run.n + 1 \in Places(DerivedOrder(run.pc))
                      /\ Reached(src, run.pc, run.n + 1) = done \cup {slug}
    OBVIOUS
  <2>1. /\ run.n \in DOMAIN DerivedOrder(run.pc) /\ Order[run.n] = slug
        /\ slug \in DOMAIN (IF run.pc = "reject" THEN src.reject ELSE src.ind)
        /\ Due = {st \in {made[slug]} : ~SecondFault(st)}
    BY <1>1, DerivedDue
  <2>2. run.n \in Places(DerivedOrder(run.pc))
    BY <1>2 DEF RejectUnderway
  <2> QED BY <2>1, <2>2, ReachedNext DEF Shapes
<1>4. CASE Due = {} \/ Due \subseteq Range(run.ids)
  <2>1. End(FALSE) /\ disk' = disk
    BY <1>4 DEF WriteStatement, Refuse
  <2>2. ASSUME InOrder PROVE ~Regenerates(src)
    <3>1. CASE SecondFault(made[slug])
      BY <1>3, <2>2, <3>1 DEF Regenerates, RejectExitsZero
    <3>2. CASE ~SecondFault(made[slug])
      <4>1. made[slug] \in Range(run.ids)
        BY <1>3, <1>4, <2>2, <3>2
      <4>2. ~Distinct(made)
        BY <1>2, <1>3, <2>2, <4>1, Twice
      <4> QED BY <4>2 DEF Regenerates, RejectExitsZero
    <3> QED BY <3>1, <3>2
  <2> QED BY <1>1, <2>1, <2>2, Ended DEF Reason
<1>5. CASE ~(Due = {} \/ Due \subseteq Range(run.ids))
  <2>1. PICK st \in Due :
          /\ Write([disk EXCEPT !.files = Put(@, st, st)])
          /\ run' = [run EXCEPT !.ids = Put(@, Order[run.n], st), !.n = @ + 1,
                                !.invalid = @ \/ (run.gen = "accept" /\ ~IsValid(st))]
    BY <1>5 DEF WriteStatement
  <2>2. /\ run'.gen = run.gen /\ run'.pc = run.pc /\ run'.src = run.src /\ run'.n = run.n + 1
        /\ run'.ids = Put(run.ids, Order[run.n], st) /\ run'.disturbed = run.disturbed
        /\ run'.parents = run.parents /\ (run'.invalid <=> run.invalid)
    BY <1>1, <2>1 DEF Shapes, IsRun
  <2>3. /\ disk'.files = Put(disk.files, st, st) /\ disk'.map = disk.map /\ disk'.accept = disk.accept
        /\ UNCHANGED <<src, recipe, last>>
    BY <2>1 DEF Shapes, IsTree, Write
  <2>4. ASSUME InOrder PROVE Built(recipe, src, disk') /\ Underway(src, disk', run')
    <3>1. st = made[slug] /\ made[slug] \notin Range(run.ids) /\ ~SecondFault(made[slug])
      BY <1>3, <1>5, <2>1, <2>4
    <3>2. /\ Holding(run'.ids, disk'.files, made, done \cup {slug})
          /\ DOMAIN run'.ids = DOMAIN run.ids \cup {slug}
          /\ \A x \in DOMAIN run.ids : run'.ids[x] = run.ids[x]
          /\ run'.ids[slug] = made[slug]
      <4> HIDE DEF slug, made, done
      <4>1. /\ Holding(run.ids, disk.files, made, done) /\ slug \in DOMAIN made
            /\ run'.ids = Put(run.ids, slug, made[slug])
            /\ disk'.files = Put(disk.files, made[slug], made[slug])
        BY <1>2, <1>3, <2>2, <2>3, <2>4, <3>1
      <4> QED BY <3>1, <4>1, OneMore
    <3>3. \A x \in DOMAIN run'.ids : ~SecondFault(run'.ids[x])
      BY <1>2, <2>4, <3>1, <3>2 DEF RejectUnderway
    <3>4. Built(recipe, src, disk')
      <4>1. AcceptBuilt(src, disk')
        BY <1>2, <2>3, <2>4, ParentsStay
      <4> QED BY <1>2, <2>4, <4>1 DEF Built
    <3>5. RejectUnderway(src, disk', run')
      <4> HIDE DEF slug, made, done
      <4>1. Holding(run'.ids, disk'.files, made, Reached(src, run'.pc, run'.n))
        BY <1>3, <2>2, <2>4, <3>2
      <4> QED BY <1>2, <1>3, <2>2, <2>4, <3>3, <4>1 DEF RejectUnderway, made
    <3> QED BY <1>1, <1>2, <2>2, <2>4, <3>4, <3>5 DEF Underway
  <2> QED BY <1>1, <2>2, <2>3, <2>4, Stepped DEF RecipeInv
<1> QED BY <1>4, <1>5

LEMMA NothingBuilt ==
  ASSUME NEW s
  PROVE  AcceptIds(s) = << >> <=> DOMAIN s.accept = {}
<1> DEFINE ids == AcceptIds(s)
<1>1. IsMapping(ids) /\ DOMAIN ids = DOMAIN s.accept
  BY BuiltStatements
<1> HIDE DEF ids
<1>2. DOMAIN << >> = {} /\ << >> = [x \in {} |-> ids[x]]
  OBVIOUS
<1>3. ASSUME ids = << >> PROVE DOMAIN ids = {}
  BY <1>2, <1>3
<1>4. ASSUME DOMAIN ids = {} PROVE ids = << >>
  <2>1. ids = [x \in DOMAIN ids |-> ids[x]]
    BY <1>1 DEF IsMapping
  <2> QED BY <1>2, <1>4, <2>1
<1> QED BY <1>1, <1>3, <1>4 DEF ids

LEMMA MapLoads ==
  ASSUME Shapes, RecipeInv, LoadMap
  PROVE  RecipeInv'
<1>1. run.pc = "loadMap" /\ run.gen = "reject"
  BY StageOf DEF LoadMap
<1>2. InOrder => /\ RejectUnderway(src, disk, run) /\ run.src = src /\ AcceptBuilt(src, disk) /\ recipe = 1
                 /\ disk.map.form = "table" /\ disk.map.ids = AcceptIds(src)
  BY <1>1, RejectInOrder, MapFields DEF AcceptBuilt
<1>3. CASE disk.map.form # "table" \/ disk.map.ids = << >>
  <2>1. End(FALSE) /\ disk' = disk
    BY <1>3 DEF LoadMap, Refuse
  <2>2. ASSUME InOrder PROVE ~Regenerates(src)
    <3>1. AcceptIds(src) = << >>
      BY <1>2, <1>3, <2>2
    <3>2. DOMAIN src.accept = {}
      BY <3>1, NothingBuilt
    <3> QED BY <3>2 DEF Regenerates, RejectExitsZero
  <2> QED BY <1>1, <2>1, <2>2, Ended DEF Reason
<1>4. CASE ~(disk.map.form # "table" \/ disk.map.ids = << >>)
  <2>1. /\ disk' = disk /\ UNCHANGED <<src, recipe, last>>
        /\ run' = [run EXCEPT !.parents = disk.map.ids, !.pc = "gateParents"]
    BY <1>4 DEF LoadMap, Read
  <2>2. /\ run'.gen = run.gen /\ run'.pc = "gateParents" /\ run'.src = run.src /\ run'.n = run.n
        /\ run'.parents = disk.map.ids /\ run'.ids = run.ids
        /\ run'.invalid = run.invalid /\ run'.disturbed = run.disturbed
    BY <2>1 DEF Shapes, IsRun
  <2>3. ASSUME InOrder PROVE Built(recipe, src, disk') /\ Underway(src, disk', run')
    <3>1. DOMAIN src.accept # {}
      <4>1. AcceptIds(src) # << >>
        BY <1>2, <1>4, <2>3
      <4> QED BY <4>1, NothingBuilt
    <3>2. RejectUnderway(src, disk', run')
      BY <1>1, <1>2, <2>2, <2>3, <3>1 DEF RejectUnderway
    <3>3. Built(recipe, src, disk')
      BY <1>2, <2>1, <2>3 DEF Built
    <3> QED BY <1>1, <1>2, <2>2, <2>3, <3>2, <3>3 DEF Underway
  <2> QED BY <1>1, <2>1, <2>2, <2>3, Stepped DEF Stages
<1> QED BY <1>3, <1>4

LEMMA ParentsPass ==
  ASSUME Shapes, RecipeInv, GateParents
  PROVE  RecipeInv'
<1>1. run.pc = "gateParents" /\ run.gen = "reject"
  BY StageOf DEF GateParents
<1>2. InOrder => /\ RejectUnderway(src, disk, run) /\ run.src = src /\ AcceptBuilt(src, disk) /\ recipe = 1
                 /\ run.parents = AcceptIds(src) /\ DOMAIN src.accept # {} /\ run.ids = << >>
  BY <1>1, RejectInOrder DEF RejectUnderway
<1>3. CASE ~(\A p \in Parents(run.src) : Readable(p) /\ IsValid(Parent(p)))
  <2>1. End(FALSE) /\ disk' = disk
    BY <1>3 DEF GateParents, Refuse
  <2>2. ASSUME InOrder PROVE ~Regenerates(src)
    <3>1. ~(Parents(src) \subseteq DOMAIN src.accept)
      BY <1>2, <1>3, <2>2, ParentsRead DEF Shapes
    <3> QED BY <3>1 DEF Regenerates, RejectExitsZero
  <2> QED BY <1>1, <2>1, <2>2, Ended DEF Reason
<1>4. CASE \A p \in Parents(run.src) : Readable(p) /\ IsValid(Parent(p))
  <2>1. /\ disk' = disk /\ UNCHANGED <<src, recipe, last>>
        /\ run' = [run EXCEPT !.pc = "reject"]
    BY <1>4 DEF GateParents, Read, Goto
  <2>2. /\ run'.gen = run.gen /\ run'.pc = "reject" /\ run'.src = run.src /\ run'.n = run.n
        /\ run'.parents = run.parents /\ run'.ids = run.ids
        /\ run'.invalid = run.invalid /\ run'.disturbed = run.disturbed
    BY <2>1 DEF Shapes, IsRun
  <2>3. ASSUME InOrder PROVE Built(recipe, src, disk') /\ Underway(src, disk', run')
    <3>1. Parents(src) \subseteq DOMAIN src.accept
      BY <1>2, <1>4, <2>3, BuiltStatements DEF Readable
    <3>2. /\ run'.n \in Places(DerivedOrder("reject"))
          /\ Holding(run'.ids, disk'.files, DerivedIds(src), Reached(src, "reject", run'.n))
      <4>1. run.n = 1
        BY <1>1, <1>2, <2>3 DEF RejectUnderway
      <4>2. 1 \in Places(RejectOrder) /\ Before(RejectOrder, 1) = {}
        BY BeforePlaces
      <4>3. Reached(src, "reject", 1) = {}
        BY <4>2 DEF Reached
      <4> QED BY <1>2, <2>2, <2>3, <4>1, <4>2, <4>3, NoneYet DEF DerivedOrder
    <3>3. \A x \in DOMAIN run'.ids : ~SecondFault(run'.ids[x])
      <4>1. DOMAIN run'.ids = {}
        BY <1>2, <2>2, <2>3
      <4> QED BY <4>1
    <3>4. RejectUnderway(src, disk', run')
      BY <1>2, <2>2, <2>3, <3>1, <3>2, <3>3 DEF RejectUnderway
    <3>5. Built(recipe, src, disk')
      BY <1>2, <2>1, <2>3 DEF Built
    <3> QED BY <1>1, <1>2, <2>2, <2>3, <3>4, <3>5 DEF Underway
  <2> QED BY <1>1, <2>1, <2>2, <2>3, Stepped DEF Stages
<1> QED BY <1>3, <1>4
\* The next entry is passed over: no table says anything of it.
LEMMA GapPasses ==
  ASSUME Shapes, RecipeInv, PassOver
  PROVE  RecipeInv'
<1>1. /\ run.n \in DOMAIN Order /\ Order[run.n] \notin DOMAIN Entries
      /\ UNCHANGED <<src, disk, recipe, last>>
      /\ run' = [run EXCEPT !.n = @ + 1]
  BY DEF PassOver, AtGap, Skip
<1>2. /\ run'.gen = run.gen /\ run'.pc = run.pc /\ run'.src = run.src /\ run'.n = run.n + 1
      /\ run'.parents = run.parents /\ run'.ids = run.ids
      /\ run'.invalid = run.invalid /\ run'.disturbed = run.disturbed
  BY <1>1 DEF Shapes, IsRun
<1>3. CASE run.pc = "accept"
  <2>1. run.gen = "accept"
    BY <1>3, StageOf
  <2>2. ASSUME InOrder PROVE Built(recipe, src, disk') /\ Underway(src, disk', run')
    <3>1. AcceptUnderway(src, disk, run) /\ run.src = src /\ recipe = 0
      BY <2>1, <2>2, InOrderPlace DEF Underway
    <3>2. run.n \in DOMAIN AcceptOrder /\ AcceptOrder[run.n] \notin DOMAIN src.accept
      BY <1>1, <1>3, <3>1 DEF Order, Entries
    <3>3. /\ run.n + 1 \in Places(AcceptOrder)
          /\ Before(AcceptOrder, run.n + 1) = Before(AcceptOrder, run.n) \cup {AcceptOrder[run.n]}
      BY <1>3, <3>1, <3>2, BeforePlaces DEF AcceptUnderway
    <3>4. Before(AcceptOrder, run.n + 1) \cap DOMAIN src.accept
            = Before(AcceptOrder, run.n) \cap DOMAIN src.accept
      BY <3>2, <3>3
    <3>5. AcceptUnderway(src, disk', run')
      BY <1>1, <1>2, <1>3, <3>1, <3>3, <3>4 DEF AcceptUnderway
    <3> QED BY <1>1, <1>2, <2>1, <3>1, <3>5 DEF Underway, Built
  <2> QED BY <1>1, <1>2, <2>1, <2>2, Stepped DEF RecipeInv
<1>4. CASE run.pc \in {"reject", "ind"}
  <2>1. run.gen = "reject"
    BY <1>4, StageOf
  <2>2. ASSUME InOrder PROVE Built(recipe, src, disk') /\ Underway(src, disk', run')
    <3>1. RejectUnderway(src, disk, run) /\ run.src = src /\ AcceptBuilt(src, disk) /\ recipe = 1
      BY <2>1, <2>2, RejectInOrder
    <3>2. /\ run.n \in DOMAIN DerivedOrder(run.pc)
          /\ DerivedOrder(run.pc)[run.n] \notin DOMAIN (IF run.pc = "reject" THEN src.reject ELSE src.ind)
      BY <1>1, <1>4, <3>1 DEF Order, Entries, DerivedOrder
    <3>3. run.n \in Places(DerivedOrder(run.pc))
      BY <1>4, <3>1 DEF RejectUnderway
    <3>4. /\ run.n + 1 \in Places(DerivedOrder(run.pc))
          /\ Reached(src, run.pc, run.n + 1) = Reached(src, run.pc, run.n)
      BY <1>4, <3>2, <3>3, ReachedNext DEF Shapes
    <3>5. RejectUnderway(src, disk', run')
      BY <1>1, <1>2, <1>4, <3>1, <3>4 DEF RejectUnderway
    <3>6. Built(recipe, src, disk')
      BY <1>1, <3>1 DEF Built
    <3> QED BY <1>2, <2>1, <3>1, <3>5, <3>6 DEF Underway
  <2> QED BY <1>1, <1>2, <2>1, <2>2, Stepped DEF RecipeInv
<1>5. CASE run.pc \notin {"accept", "reject", "ind"}
  BY <1>1, <1>5 DEF Order
<1> QED BY <1>3, <1>4, <1>5

LEMMA RefusalsMade ==
  ASSUME Shapes, RecipeInv, ToIndeterminate
  PROVE  RecipeInv'
<1>1. run.pc = "reject" /\ run.gen = "reject" /\ run.n > Len(RejectOrder)
  BY StageOf DEF ToIndeterminate, AtEnd, Order
<1>2. UNCHANGED <<src, disk, recipe, last>> /\ run' = [run EXCEPT !.pc = "ind", !.n = 1]
  BY DEF ToIndeterminate, Read
<1>3. /\ run'.gen = run.gen /\ run'.pc = "ind" /\ run'.src = run.src /\ run'.n = 1
      /\ run'.parents = run.parents /\ run'.ids = run.ids
      /\ run'.invalid = run.invalid /\ run'.disturbed = run.disturbed
  BY <1>2 DEF Shapes, IsRun
<1>4. ASSUME InOrder PROVE Built(recipe, src, disk') /\ Underway(src, disk', run')
  <2>1. RejectUnderway(src, disk, run) /\ run.src = src /\ AcceptBuilt(src, disk) /\ recipe = 1
    BY <1>1, <1>4, RejectInOrder
  <2>2. Reached(src, "reject", run.n) = DOMAIN src.reject
    BY <1>1, <2>1, ReachedAll DEF Shapes, RejectUnderway, DerivedOrder
  <2>3. 1 \in Places(IndOrder) /\ Reached(src, "ind", 1) = DOMAIN src.reject
    BY BeforePlaces DEF Reached
  <2>4. RejectUnderway(src, disk', run')
    BY <1>1, <1>2, <1>3, <2>1, <2>2, <2>3 DEF RejectUnderway, DerivedOrder
  <2>5. Built(recipe, src, disk')
    BY <1>2, <2>1 DEF Built
  <2> QED BY <1>1, <1>3, <2>1, <2>4, <2>5 DEF Underway
<1> QED BY <1>1, <1>2, <1>3, <1>4, Stepped DEF Stages

\* The rows are those the identifiers of all derived vectors give.
LEMMA RowsOfDerived ==
  ASSUME NEW s \in Sources
  PROVE  /\ Table(DerivedRows(s.reject, DerivedIds(s), AcceptIds(s))) = Written(s).reject
         /\ Table(DerivedRows(s.ind, DerivedIds(s), AcceptIds(s))) = Written(s).ind
<1>1. /\ \A slug \in DOMAIN s.reject : DerivedIds(s)[slug] = DerivedFrom(s, s.reject)[slug]
      /\ \A slug \in DOMAIN s.ind : DerivedIds(s)[slug] = DerivedFrom(s, s.ind)[slug]
  BY BuiltStatements, TablesOf
<1>2. ASSUME NEW entries, NEW ids, NEW other, NEW parents,
             \A slug \in DOMAIN entries : ids[slug] = other[slug]
      PROVE  DerivedRows(entries, ids, parents) = DerivedRows(entries, other, parents)
  <2> DEFINE parent(slug) == parents[CHOOSE p \in Meant(entries[slug].parent, parents) : TRUE]
             row(id, slug) == [id |-> id, conds |-> entries[slug].conds, parent |-> parent(slug)]
  <2>1. /\ DerivedRows(entries, ids, parents) = {row(ids[slug], slug) : slug \in DOMAIN entries}
        /\ DerivedRows(entries, other, parents) = {row(other[slug], slug) : slug \in DOMAIN entries}
    BY DEF DerivedRows
  <2> HIDE DEF row
  <2> QED BY <1>2, <2>1
<1>3. /\ DerivedRows(s.reject, DerivedIds(s), AcceptIds(s))
           = DerivedRows(s.reject, DerivedFrom(s, s.reject), AcceptIds(s))
      /\ DerivedRows(s.ind, DerivedIds(s), AcceptIds(s))
           = DerivedRows(s.ind, DerivedFrom(s, s.ind), AcceptIds(s))
  BY <1>1, <1>2
<1> QED BY <1>3, WhatIsWritten

LEMMA RejectTabled ==
  ASSUME Shapes, RecipeInv, WriteRejectIndex
  PROVE  RecipeInv'
<1>1. run.pc = "ind" /\ run.gen = "reject" /\ run.n > Len(IndOrder)
  BY StageOf DEF WriteRejectIndex, AtEnd, Order
<1>2. InOrder => /\ RejectUnderway(src, disk, run) /\ run.src = src /\ AcceptBuilt(src, disk) /\ recipe = 1
                 /\ Holding(run.ids, disk.files, DerivedIds(src), DOMAIN DerivedIds(src))
                 /\ run.ids = DerivedIds(src) /\ run.parents = AcceptIds(src)
  <2> SUFFICES ASSUME InOrder
               PROVE  /\ RejectUnderway(src, disk, run) /\ run.src = src
                      /\ AcceptBuilt(src, disk) /\ recipe = 1
                      /\ Holding(run.ids, disk.files, DerivedIds(src), DOMAIN DerivedIds(src))
                      /\ run.ids = DerivedIds(src) /\ run.parents = AcceptIds(src)
    OBVIOUS
  <2>1. RejectUnderway(src, disk, run) /\ run.src = src /\ AcceptBuilt(src, disk) /\ recipe = 1
    BY <1>1, RejectInOrder
  <2>2. /\ run.n \in Places(DerivedOrder("ind")) /\ run.parents = AcceptIds(src)
        /\ Holding(run.ids, disk.files, DerivedIds(src), Reached(src, "ind", run.n))
    BY <1>1, <2>1 DEF RejectUnderway
  <2>3. Reached(src, "ind", run.n) = DOMAIN DerivedIds(src)
    BY <1>1, <2>2, ReachedAll DEF Shapes, DerivedOrder
  <2>4. run.ids = DerivedIds(src)
    <3>1. Holding(run.ids, disk.files, DerivedIds(src), DOMAIN DerivedIds(src))
      BY <2>2, <2>3
    <3>2. IsMapping(DerivedIds(src))
      BY BuiltStatements
    <3> QED BY <3>1, <3>2, AllMade
  <2> QED BY <2>1, <2>2, <2>3, <2>4
<1>3. CASE ~(run.src.clauses \subseteq DOMAIN run.ids /\ Resolves(run.src.reject, run.parents))
  <2>1. End(FALSE) /\ disk' = disk
    BY <1>3 DEF WriteRejectIndex, Refuse
  <2>2. InOrder => ~Regenerates(src)
    BY <1>2, <1>3 DEF Regenerates, RejectExitsZero
  <2> QED BY <1>1, <2>1, <2>2, Ended DEF Reason
<1>4. CASE run.src.clauses \subseteq DOMAIN run.ids /\ Resolves(run.src.reject, run.parents)
  <2>1. /\ UNCHANGED <<src, recipe, last>> /\ run' = [run EXCEPT !.pc = "indIndex"]
        /\ disk' = [disk EXCEPT !.reject = Table(DerivedRows(run.src.reject, run.ids, run.parents))]
    BY <1>4 DEF WriteRejectIndex, Write, Goto
  <2>2. /\ run'.gen = run.gen /\ run'.pc = "indIndex" /\ run'.src = run.src
        /\ run'.parents = run.parents /\ run'.ids = run.ids
        /\ run'.invalid = run.invalid /\ run'.disturbed = run.disturbed
    BY <2>1 DEF Shapes, IsRun
  <2>3. /\ disk'.reject = Table(DerivedRows(run.src.reject, run.ids, run.parents))
        /\ disk'.files = disk.files /\ disk'.map = disk.map /\ disk'.accept = disk.accept
    BY <2>1 DEF Shapes, IsTree
  <2>4. ASSUME InOrder PROVE Built(recipe, src, disk') /\ Underway(src, disk', run')
    <3>1. disk'.reject = Written(src).reject
      BY <1>2, <2>3, <2>4, RowsOfDerived DEF Shapes
    <3>2. RejectUnderway(src, disk', run')
      BY <1>1, <1>2, <1>4, <2>2, <2>3, <2>4, <3>1 DEF RejectUnderway
    <3>3. AcceptBuilt(src, disk')
      BY <1>2, <2>3, <2>4, ParentsStay
    <3> QED BY <1>1, <1>2, <2>2, <2>4, <3>2, <3>3 DEF Underway, Built
  <2> QED BY <1>1, <2>1, <2>2, <2>4, Stepped DEF Stages
<1> QED BY <1>3, <1>4

LEMMA RejectEnds ==
  ASSUME Shapes, RecipeInv, WriteIndIndex
  PROVE  RecipeInv'
<1>1. run.pc = "indIndex" /\ run.gen = "reject"
  BY StageOf DEF WriteIndIndex
<1>2. InOrder => /\ RejectUnderway(src, disk, run) /\ run.src = src /\ AcceptBuilt(src, disk)
                 /\ Holding(run.ids, disk.files, DerivedIds(src), DOMAIN DerivedIds(src))
                 /\ run.parents = AcceptIds(src) /\ ~run.invalid /\ disk.reject = Written(src).reject
  BY <1>1, RejectInOrder DEF RejectUnderway
<1>3. InOrder => /\ run.ids = DerivedIds(src) /\ Distinct(DerivedIds(src))
                 /\ Kept(disk.files, Range(DerivedIds(src)))
  BY <1>2, AllMade, BuiltStatements
<1>4. CASE ~Resolves(run.src.ind, run.parents)
  <2>1. End(FALSE) /\ disk' = disk
    BY <1>4 DEF WriteIndIndex, Refuse
  <2>2. InOrder => ~Regenerates(src)
    BY <1>2, <1>4 DEF Regenerates, RejectExitsZero
  <2> QED BY <1>1, <2>1, <2>2, Ended DEF Reason
<1>5. CASE Resolves(run.src.ind, run.parents)
  <2>1. /\ disk' = [disk EXCEPT !.ind = Table(DerivedRows(run.src.ind, run.ids, run.parents))]
        /\ End(~run.invalid)
    BY <1>5 DEF WriteIndIndex, Finish
  <2>2. /\ disk'.ind = Table(DerivedRows(run.src.ind, run.ids, run.parents))
        /\ disk'.files = disk.files /\ disk'.map = disk.map
        /\ disk'.accept = disk.accept /\ disk'.reject = disk.reject
    BY <2>1 DEF Shapes, IsTree
  <2>3. ASSUME InOrder PROVE Built(2, src, disk')
    <3>1. AcceptBuilt(src, disk')
      BY <1>2, <2>2, <2>3, ParentsStay
    <3>2. RejectExitsZero(src)
      BY <1>1, <1>2, <1>3, <1>5, <2>3 DEF RejectExitsZero, RejectUnderway
    <3>3. disk'.ind = Written(src).ind
      BY <1>2, <1>3, <2>2, <2>3, RowsOfDerived DEF Shapes
    <3>4. DerivedBuilt(src, disk')
      BY <1>2, <1>3, <2>2, <2>3, <3>2, <3>3 DEF DerivedBuilt
    <3> QED BY <3>1, <3>4 DEF Built
  <2> QED BY <1>1, <1>2, <2>1, <2>3, Ended, PlaceOf
<1> QED BY <1>4, <1>5----------------------------------------------------------------------------
(* gen_manifest.py *)

\* The two other generators leave what regeneration leaves, and maybe more
\* files.
LEMMA TablesBuilt ==
  ASSUME NEW s \in Sources, NEW t, AcceptBuilt(s, t), DerivedBuilt(s, t)
  PROVE  /\ t.map = Written(s).map /\ t.accept = Written(s).accept
         /\ t.reject = Written(s).reject /\ t.ind = Written(s).ind
         /\ Kept(t.files, DOMAIN Written(s).files)
         /\ ManifestRows(s, t) = ManifestRows(s, Written(s))
<1>1. /\ t.map = Written(s).map /\ t.accept = Written(s).accept
      /\ t.reject = Written(s).reject /\ t.ind = Written(s).ind
  BY WhatIsWritten DEF AcceptBuilt, DerivedBuilt
<1>2. Kept(t.files, DOMAIN Written(s).files)
  <2>1. DOMAIN Written(s).files = Range(AcceptIds(s)) \cup Range(DerivedIds(s))
    BY WhatIsWritten
  <2> QED BY <2>1 DEF AcceptBuilt, DerivedBuilt, Kept
<1>3. ManifestRows(s, t) = ManifestRows(s, Written(s))
  BY <1>1 DEF ManifestRows
<1> QED BY <1>1, <1>2, <1>3

LEMMA ListedAreWritten ==
  ASSUME NEW s \in Sources, AcceptRowsAgree(s)
  PROVE  {row.id : row \in ManifestRows(s, Written(s))} \subseteq DOMAIN Written(s).files
<1> DEFINE files == Range(AcceptIds(s)) \cup Range(DerivedIds(s))
<1>1. DOMAIN Written(s).files = files
  BY WhatIsWritten
<1>2. \A r \in Written(s).accept.rows : r.id \in files
  <2>1. Written(s).accept.rows = AcceptRows(s, AcceptIds(s))
    BY RowsWritten
  <2>2. \A r \in AcceptRows(s, AcceptIds(s)) : \E slug \in DOMAIN s.rows : r.id = AcceptIds(s)[slug]
    BY DEF AcceptRows
  <2>3. DOMAIN s.rows = DOMAIN AcceptIds(s)
    BY BuiltStatements DEF AcceptRowsAgree
  <2> QED BY <2>1, <2>2, <2>3 DEF Range
<1>3. \A r \in Written(s).reject.rows \cup Written(s).ind.rows : r.id \in files
  <2>1. /\ Written(s).reject.rows = DerivedRows(s.reject, DerivedFrom(s, s.reject), AcceptIds(s))
        /\ Written(s).ind.rows = DerivedRows(s.ind, DerivedFrom(s, s.ind), AcceptIds(s))
    BY RowsWritten
  <2>2. \A r \in DerivedRows(s.reject, DerivedFrom(s, s.reject), AcceptIds(s)) :
          \E slug \in DOMAIN s.reject : r.id = DerivedFrom(s, s.reject)[slug]
    BY DEF DerivedRows
  <2>3. \A r \in DerivedRows(s.ind, DerivedFrom(s, s.ind), AcceptIds(s)) :
          \E slug \in DOMAIN s.ind : r.id = DerivedFrom(s, s.ind)[slug]
    BY DEF DerivedRows
  <2>4. /\ \A slug \in DOMAIN s.reject : DerivedFrom(s, s.reject)[slug] \in Range(DerivedIds(s))
        /\ \A slug \in DOMAIN s.ind : DerivedFrom(s, s.ind)[slug] \in Range(DerivedIds(s))
    BY BuiltStatements, TablesOf DEF Range
  <2> QED BY <2>1, <2>2, <2>3, <2>4
<1> HIDE DEF files
<1>4. \A row \in ManifestRows(s, Written(s)) :
        \E r \in Written(s).accept.rows \cup Written(s).reject.rows \cup Written(s).ind.rows :
          row.id = r.id
  BY DEF ManifestRows
<1> QED BY <1>1, <1>2, <1>3, <1>4

\* Between what was built and what regeneration leaves, the manifest generator
\* can only tell a file no table is about.
LEMMA RefusedForAFile ==
  ASSUME NEW s \in Sources, NEW t, AcceptBuilt(s, t), DerivedBuilt(s, t)
  PROVE  /\ ManifestRefused(s, t) => ~Regenerates(s) \/ DOMAIN t.files \ DOMAIN Written(s).files # {}
         /\ ~ManifestRefused(s, t) => Regenerates(s) /\ DOMAIN t.files = DOMAIN Written(s).files
<1> DEFINE w == Written(s)
<1>1. /\ t.map = w.map /\ t.accept = w.accept /\ t.reject = w.reject /\ t.ind = w.ind
      /\ Kept(t.files, DOMAIN w.files) /\ ManifestRows(s, t) = ManifestRows(s, w)
  BY TablesBuilt
<1>2. DOMAIN w.files \subseteq DOMAIN t.files
  BY <1>1 DEF Kept
<1>3. {row.id : row \in ManifestRows(s, w)} \subseteq DOMAIN w.files
  BY ListedAreWritten DEF AcceptBuilt, AcceptExitsZero
<1>4. AcceptExitsZero(s) /\ RejectExitsZero(s)
  BY DEF AcceptBuilt, DerivedBuilt
<1> HIDE DEF w
<1>5. DOMAIN t.files = DOMAIN w.files => (ManifestRefused(s, t) <=> ManifestRefused(s, w))
  BY <1>1 DEF ManifestRefused
<1>6. ~ManifestRefused(s, t) => DOMAIN t.files = DOMAIN w.files
  <2>1. ~ManifestRefused(s, t) => DOMAIN t.files = {row.id : row \in ManifestRows(s, t)}
    BY DEF ManifestRefused
  <2> QED BY <1>1, <1>2, <1>3, <2>1
<1> QED BY <1>2, <1>4, <1>5, <1>6 DEF Regenerates, w

LEMMA ManifestInOrder ==
  ASSUME RecipeInv, run.gen = "manifest", InOrder
  PROVE  /\ ManifestUnderway(src, disk, run) /\ run.src = src /\ recipe = 2
         /\ AcceptBuilt(src, disk) /\ DerivedBuilt(src, disk)
BY InOrderPlace DEF Underway, RecipeInv, Built

LEMMA TablesAreRead ==
  ASSUME Shapes, RecipeInv, ReadTables
  PROVE  RecipeInv'
<1>1. run.pc = "readTables" /\ run.gen = "manifest"
  BY StageOf DEF ReadTables
<1>2. InOrder => /\ ManifestUnderway(src, disk, run) /\ run.src = src /\ recipe = 2
                 /\ AcceptBuilt(src, disk) /\ DerivedBuilt(src, disk)
  BY <1>1, ManifestInOrder
<1>3. CASE ManifestRefused(run.src, disk)
  <2>1. End(FALSE) /\ disk' = disk
    BY <1>3 DEF ReadTables, Refuse
  <2>2. ASSUME InOrder PROVE Reason(run.gen, src, disk')
    <3>1. ~Regenerates(src) \/ DOMAIN disk.files \ DOMAIN Written(src).files # {}
      BY <1>2, <1>3, <2>2, RefusedForAFile DEF Shapes
    <3>2. Regenerated(src).files = Written(src).files
      BY WhatIsRegenerated
    <3> QED BY <1>1, <2>1, <3>1, <3>2 DEF Reason
  <2> QED BY <1>1, <2>1, <2>2, Ended
<1>4. CASE ~ManifestRefused(run.src, disk)
  <2>1. /\ UNCHANGED <<src, disk, recipe, last>>
        /\ run' = [run EXCEPT !.out = ManifestOf(run.src, disk), !.pc = "writeManifest"]
    BY <1>4 DEF ReadTables, Read
  <2>2. /\ run'.gen = run.gen /\ run'.pc = "writeManifest" /\ run'.src = run.src
        /\ run'.out = ManifestOf(run.src, disk)
        /\ run'.invalid = run.invalid /\ run'.disturbed = run.disturbed
    BY <2>1 DEF Shapes, IsRun
  <2>3. ASSUME InOrder PROVE Built(recipe, src, disk') /\ Underway(src, disk', run')
    <3>1. ManifestUnderway(src, disk', run')
      BY <1>2, <1>4, <2>1, <2>2, <2>3 DEF ManifestUnderway
    <3>2. Built(recipe, src, disk')
      BY <1>2, <2>1, <2>3 DEF Built
    <3> QED BY <1>1, <1>2, <2>2, <2>3, <3>1, <3>2 DEF Underway
  <2> QED BY <1>1, <2>1, <2>2, <2>3, Stepped DEF Stages
<1> QED BY <1>3, <1>4

LEMMA ManifestEnds ==
  ASSUME Shapes, RecipeInv, WriteManifest
  PROVE  RecipeInv'
<1>1. run.pc = "writeManifest" /\ run.gen = "manifest"
  BY StageOf DEF WriteManifest
<1>2. End(~run.invalid) /\ disk' = [disk EXCEPT !.manifest = run.out]
  BY DEF WriteManifest, Finish
<1>3. /\ disk'.manifest = run.out /\ disk'.files = disk.files /\ disk'.map = disk.map
      /\ disk'.accept = disk.accept /\ disk'.reject = disk.reject /\ disk'.ind = disk.ind
      /\ IsTree(disk')
  BY <1>2, EditsOfATree DEF Shapes, IsTree
<1>4. ASSUME InOrder PROVE ~run.invalid /\ Built(3, src, disk')
  <2>1. /\ ManifestUnderway(src, disk, run) /\ run.src = src
        /\ AcceptBuilt(src, disk) /\ DerivedBuilt(src, disk)
    BY <1>1, <1>4, ManifestInOrder
  <2>2. ~run.invalid /\ ~ManifestRefused(src, disk) /\ run.out = ManifestOf(src, disk)
    BY <1>1, <2>1 DEF ManifestUnderway
  <2>3. Regenerates(src) /\ DOMAIN disk.files = DOMAIN Written(src).files
    BY <2>1, <2>2, RefusedForAFile DEF Shapes
  <2>4. /\ disk.accept = Written(src).accept /\ disk.reject = Written(src).reject
        /\ disk.ind = Written(src).ind /\ Kept(disk.files, DOMAIN Written(src).files)
        /\ ManifestRows(src, disk) = ManifestRows(src, Written(src))
    BY <2>1, TablesBuilt DEF Shapes
  <2>5. disk.files = Written(src).files
    <3>1. disk.files = [st \in DOMAIN disk.files |-> disk.files[st]]
      BY DEF Shapes, IsTree, IsMapping
    <3>2. \A st \in DOMAIN disk.files : disk.files[st] = st
      BY <2>3, <2>4 DEF Kept
    <3>3. disk.files = [st \in DOMAIN disk.files |-> st]
      BY <3>1, <3>2
    <3>4. Written(src).files = [st \in DOMAIN Written(src).files |-> st]
      BY WhatIsWritten
    <3> QED BY <2>3, <3>3, <3>4
  <2>6. ManifestOf(src, disk) = ManifestOf(src, Written(src))
    BY <2>4, <2>5 DEF ManifestOf
  <2>7. Owned(disk') = Owned(Regenerated(src))
    BY <1>3, <2>2, <2>4, <2>5, <2>6, ComparedAll, WhatIsRegenerated
  <2>8. AcceptBuilt(src, disk') /\ DerivedBuilt(src, disk')
    BY <1>3, <2>1 DEF AcceptBuilt, DerivedBuilt
  <2> QED BY <2>2, <2>3, <2>7, <2>8 DEF Built, RegenerabilityOk
<1> QED BY <1>1, <1>2, <1>4, Ended, PlaceOf----------------------------------------------------------------------------
(* Every step keeps it *)

LEMMA Starts ==
  ASSUME Shapes, RecipeInv, NEW gen \in {"accept", "reject", "manifest"}, NEW pc,
         pc = (IF gen = "accept" THEN "accept" ELSE IF gen = "reject" THEN "loadMap" ELSE "readTables"),
         Start(gen, pc)
  PROVE  RecipeInv'
<1>1. /\ UNCHANGED <<src, disk>> /\ last' = NoEnd
      /\ recipe' = IF recipe < Place(gen) - 1 THEN 0 ELSE Place(gen) - 1
  BY DEF Start
<1>2. /\ run'.gen = gen /\ run'.pc = pc /\ run'.src = src /\ run'.n = 1
      /\ run'.ids = << >> /\ run'.invalid = FALSE /\ run'.disturbed = FALSE
  BY DEF Start, Idle
<1>3. recipe \in 0..3 /\ Built(recipe, src, disk) /\ Place(gen) \in 1..3
  BY PlaceOf DEF RecipeInv
<1>4. recipe' \in 0..2 /\ (recipe' = 0 \/ recipe' = Place(gen) - 1)
  BY <1>1, <1>3
<1>5. Built(recipe', src', disk')
  BY <1>1, <1>3 DEF Built
<1>6. pc \in Stages(gen)
  BY DEF Stages
<1>7. ASSUME gen = "accept" PROVE AcceptUnderway(src, disk, run')
  <2>1. 1 \in Places(AcceptOrder) /\ Before(AcceptOrder, 1) \cap DOMAIN src.accept = {}
    BY BeforePlaces
  <2>2. DOMAIN << >> = {}
    OBVIOUS
  <2> QED BY <1>2, <1>7, <2>1, <2>2, NoneYet DEF AcceptUnderway
<1>8. ASSUME gen = "reject" PROVE RejectUnderway(src, disk, run')
  BY <1>2, <1>8 DEF RejectUnderway
<1>9. ASSUME gen = "manifest" PROVE ManifestUnderway(src, disk, run')
  BY <1>2, <1>9 DEF ManifestUnderway
<1>10. Underway(src, disk, run')
  BY <1>2, <1>7, <1>8, <1>9 DEF Underway
<1>11. ~(last'.gen # "none")
  BY <1>1 DEF NoEnd
<1> QED BY <1>1, <1>2, <1>4, <1>5, <1>6, <1>10, <1>11 DEF RecipeInv

LEMMA RecipeInit == PipelineInit => RecipeInv
BY DEF PipelineInit, RecipeInv, Idle, Stages, Built, NoEnd

LEMMA RecipeNext == Shapes /\ RecipeInv /\ [PipelineNext]_pipelineVars => RecipeInv'
<1> SUFFICES ASSUME Shapes, RecipeInv, [PipelineNext]_pipelineVars PROVE RecipeInv'
  OBVIOUS
<1>1. CASE StartAccept \/ StartReject \/ StartManifest
  BY <1>1, Starts DEF StartAccept, StartReject, StartManifest
<1>2. CASE WriteStatement
  <2>1. run.pc \in {"accept", "reject", "ind"}
    <3>1. run.n \in DOMAIN Order
      BY <1>2 DEF WriteStatement, AtEntry
    <3>2. DOMAIN << >> = {}
      OBVIOUS
    <3> QED BY <3>1, <3>2 DEF Order
  <2> QED BY <1>2, <2>1, AcceptWrites, DerivedWrites
<1>3. CASE PassOver
  BY <1>3, GapPasses
<1>4. CASE WriteBuildIds \/ WriteAcceptIndex
  BY <1>4, AcceptMaps, AcceptEnds
<1>5. CASE LoadMap \/ GateParents \/ ToIndeterminate \/ WriteRejectIndex \/ WriteIndIndex
  BY <1>5, MapLoads, ParentsPass, RefusalsMade, RejectTabled, RejectEnds
<1>6. CASE ReadTables \/ WriteManifest
  BY <1>6, TablesAreRead, ManifestEnds
<1>7. CASE Crash
  BY <1>7, ResetStep DEF Crash, Shapes
<1>8. CASE EditSource \/ EditTree \/ Checkout
  <2>1. Disturb
    BY <1>8 DEF EditSource, EditTree, Checkout
  <2> QED BY <2>1, ResetStep DEF Disturb, Shapes
<1>9. ASSUME UNCHANGED <<src, disk, run, recipe, last>> PROVE RecipeInv'
  BY <1>9 DEF RecipeInv, InOrder
<1>10. CASE SyncAnchors
  BY <1>9, <1>10 DEF SyncAnchors
<1>11. CASE UNCHANGED pipelineVars
  BY <1>9, <1>11 DEF pipelineVars
<1> QED BY <1>1, <1>2, <1>3, <1>4, <1>5, <1>6, <1>7, <1>8, <1>10, <1>11 DEF PipelineNext
----------------------------------------------------------------------------
(* The theorems *)

\* The tables are always ones the authors may write, and the disk and the
\* process always have the parts the generators know of.
THEOREM PipelineShapes == PipelineSpec => []Shapes
<1>1. PipelineInit => Shapes
  BY ShapesInit
<1>2. Shapes /\ [PipelineNext]_pipelineVars => Shapes'
  BY ShapesNext
<1> QED BY <1>1, <1>2, PTL DEF PipelineSpec

\* At all times when both gates pass, the manifest names every statement there is
\* under its own bytes and counts every vector authored, two rows are about one
\* statement only if one of them calls it an accept vector, each accept vector is
\* valid, and each refusal is one mutation of the valid vector it names, or as
\* many as a declaration says.
THEOREM BothGatesOneDerivation == PipelineSpec => []GateOkIsOneDerivation
<1>1. Shapes => GateOkIsOneDerivation
  BY OneDerivation DEF Shapes
<1> QED BY <1>1, PipelineShapes, PTL

\* The three generators in order, with nothing else happening to the tables or
\* the tree, leave what the regenerability gate asks for; and one of them that
\* refuses then was given tables that make no corpus, or, the last, a file that
\* no table is about.
THEOREM TheRecipeReproduces == PipelineSpec => []RecipeReproduces
<1>1. PipelineInit => RecipeInv
  BY RecipeInit
<1>2. RecipeInv => RecipeReproduces
  BY DEF RecipeInv, RecipeReproduces, Built, Reason
<1> QED BY <1>1, <1>2, PipelineShapes, RecipeNext, PTL DEF PipelineSpec

----------------------------------------------------------------------------
(* CorpusPublication: the invariant that its properties follow from *)

TypeOK ==
  /\ main \in Trees
  /\ clone \in [Developers -> [base : Trees, tree : Trees, request : {"none", "open", "passed"}]]
  /\ stamp \in [Copies -> Corpora \cup {NoStamp}]
  /\ stamped \in [Copies -> SUBSET Corpora]
  /\ edits \in Nat

\* Every row of a ledger was read from a stamp.
LedgerRead(tree) == \A id \in DOMAIN tree.ledger : tree.ledger[id] \in stamped[id]

RowsAreRead ==
  /\ \A id \in Copies : stamp[id] # NoStamp => stamp[id] \in stamped[id]
  /\ LedgerRead(main)
  /\ \A d \in Developers : LedgerRead(clone[d].base) /\ LedgerRead(clone[d].tree)

\* What is or was the default branch publishes the corpus it has, and a request
\* that is open was checked against the default branch it started from.
RequestsAreChecked ==
  /\ Publishes(main)
  /\ \A d \in Developers :
       /\ Publishes(clone[d].base)
       /\ clone[d].request # "none" => CheckOk(clone[d].tree, clone[d].base)

Inv == TypeOK /\ RowsAreRead /\ RequestsAreChecked

----------------------------------------------------------------------------
(* Trees and merges *)

\* The number of vectors of a corpus, and of rows of a ledger, is a number.
LEMMA CorpusCounts == \A corpus \in Corpora : Cardinality(corpus) \in Nat
<1>1. TAKE corpus \in Corpora
<1>2. IsFiniteSet(corpus)
  BY FirstIsACorpus, FS_Subset DEF Corpora
<1> QED BY <1>2, FS_CardinalityType

LEMMA LedgerCounts == \A ledger \in Ledgers : Cardinality(DOMAIN ledger) \in Nat
<1>1. TAKE ledger \in Ledgers
<1>2. DOMAIN ledger \subseteq Copies
  BY DEF Ledgers
<1>3. IsFiniteSet(DOMAIN ledger)
  BY <1>2, RecordedAreCopies, FS_Subset
<1> QED BY <1>3, FS_CardinalityType

\* Any change of one file of a tree is a tree.
LEMMA EditedTrees ==
  ASSUME NEW tree \in Trees
  PROVE  /\ \A corpus \in Corpora : [tree EXCEPT !.corpus = corpus] \in Trees
         /\ \A field \in Corpora : [tree EXCEPT !.field = field] \in Trees
         /\ \A ledger \in Ledgers : [tree EXCEPT !.ledger = ledger] \in Trees
         /\ \A says, cells \in Nat : [tree EXCEPT !.says = says, !.cells = cells] \in Trees
BY DEF Trees

\* What git makes of three trees: the fields of the merge.
LEMMA MergesFields ==
  ASSUME NEW base \in Trees, NEW ours \in Trees, NEW theirs \in Trees,
         NEW tree \in Merges(base, ours, theirs)
  PROVE  /\ tree \in Trees
         /\ tree.corpus = MergedCorpus(base.corpus, ours.corpus, theirs.corpus)
         /\ tree.field \in Sides(base.field, ours.field, theirs.field)
         /\ tree.ledger \in Sides(base.ledger, ours.ledger, theirs.ledger)
<1>1. MergedCorpus(base.corpus, ours.corpus, theirs.corpus) \in Corpora
  BY DEF MergedCorpus, Trees, Corpora
<1>2. tree.corpus = MergedCorpus(base.corpus, ours.corpus, theirs.corpus)
  BY DEF Merges
<1>3. /\ tree.field \in Sides(base.field, ours.field, theirs.field)
      /\ tree.ledger \in Sides(base.ledger, ours.ledger, theirs.ledger)
      /\ tree.says \in Sides(base.says, ours.says, theirs.says)
      /\ tree.cells \in Sides(base.cells, ours.cells, theirs.cells)
  BY DEF Merges
<1>4. tree.field \in Corpora /\ tree.ledger \in Ledgers /\ tree.says \in Nat /\ tree.cells \in Nat
  BY <1>3 DEF Sides, Trees
<1>5. tree = [corpus |-> tree.corpus, field |-> tree.field, ledger |-> tree.ledger,
              says |-> tree.says, cells |-> tree.cells]
  BY DEF Merges
<1> QED BY <1>1, <1>2, <1>3, <1>4, <1>5 DEF Trees

\* A clean merge of a branch that publishes its corpus, over trees that did,
\* publishes its corpus: the vectors merge vector by vector and the field as a
\* whole, and still the two agree. (The merge of a request.)
LEMMA CleanMergePublishes ==
  ASSUME NEW base \in Trees, NEW ours \in Trees, NEW theirs \in Trees,
         Publishes(base), Publishes(ours), Publishes(theirs), Clean(base, ours, theirs),
         NEW tree \in Merges(base, ours, theirs)
  PROVE  /\ Publishes(tree)
         /\ tree.corpus # theirs.corpus => theirs.corpus = base.corpus
<1>1. /\ tree.corpus = MergedCorpus(base.corpus, ours.corpus, theirs.corpus)
      /\ tree.field \in Sides(base.field, ours.field, theirs.field)
  BY MergesFields
<1>2. /\ base.field = base.corpus /\ ours.field = ours.corpus /\ theirs.field = theirs.corpus
  BY DEF Publishes
<1>3. "field" \in Files
  BY DEF Files
<1>4. ours.field = base.field \/ theirs.field = base.field \/ ours.field = theirs.field
  BY <1>3 DEF Clean
<1>5. CASE ours.field = base.field
  <2>1. tree.field = theirs.field
    BY <1>1, <1>5 DEF Sides
  <2>2. tree.corpus = theirs.corpus
    BY <1>1, <1>2, <1>5 DEF MergedCorpus
  <2> QED BY <2>1, <2>2, <1>2 DEF Publishes
<1>6. CASE theirs.field = base.field
  <2>1. tree.field = ours.field
    BY <1>1, <1>6 DEF Sides
  <2>2. tree.corpus = ours.corpus
    BY <1>1, <1>2, <1>6 DEF MergedCorpus
  <2> QED BY <2>1, <2>2, <1>2, <1>6 DEF Publishes
<1>7. CASE ours.field = theirs.field
  <2>1. tree.field = theirs.field
    BY <1>1, <1>7 DEF Sides
  <2>2. tree.corpus = theirs.corpus
    BY <1>1, <1>2, <1>7 DEF MergedCorpus
  <2> QED BY <2>1, <2>2, <1>2 DEF Publishes
<1> QED BY <1>4, <1>5, <1>6, <1>7

----------------------------------------------------------------------------
(* The invariant is inductive *)

\* The default branch starts as a tree that every copy on the ledger carries.
LEMMA InitInv == Init => Inv
<1> SUFFICES ASSUME Init PROVE Inv
  OBVIOUS
<1>1. First \in Corpora
  BY FirstIsACorpus DEF Corpora
<1>2. [id \in Recorded |-> First] \in Ledgers
  BY <1>1, RecordedAreCopies DEF Ledgers
<1>3. Cardinality(First) \in Nat
  BY <1>1, CorpusCounts
<1>4. Cardinality(Recorded) \in Nat
  BY RecordedAreCopies, FS_Subset, FS_CardinalityType
<1>5. main \in Trees
  BY <1>1, <1>2, <1>3, <1>4 DEF Init, Trees
<1>6. TypeOK
  BY <1>1, <1>5 DEF Init, TypeOK
<1>7. LedgerRead(main)
  BY RecordedAreCopies DEF Init, LedgerRead
<1>8. RowsAreRead
  <2>1. \A id \in Copies : stamp[id] # NoStamp => stamp[id] \in stamped[id]
    BY DEF Init
  <2>2. \A d \in Developers : clone[d].base = main /\ clone[d].tree = main
    BY DEF Init
  <2> QED BY <1>7, <2>1, <2>2 DEF RowsAreRead
<1>9. RequestsAreChecked
  BY DEF Init, RequestsAreChecked, Publishes
<1> QED BY <1>6, <1>8, <1>9 DEF Inv

\* Work on a branch: the branch is a tree read from stamps and no request is open.
LEMMA WorkKeepsInv ==
  ASSUME Inv, NEW d \in Developers, NEW tree \in Trees, LedgerRead(tree), Work(d, tree),
         edits' \in Nat, UNCHANGED <<main, stamp, stamped>>
  PROVE  Inv'
<1>1. /\ clone'[d] = [base |-> clone[d].base, tree |-> tree, request |-> "none"]
      /\ \A e \in Developers \ {d} : clone'[e] = clone[e]
      /\ clone' \in [Developers -> [base : Trees, tree : Trees,
                                    request : {"none", "open", "passed"}]]
  BY DEF Inv, TypeOK, Work
<1>2. TypeOK'
  BY <1>1 DEF Inv, TypeOK
<1>3. RowsAreRead'
  BY <1>1 DEF Inv, RowsAreRead, LedgerRead
<1>4. RequestsAreChecked'
  BY <1>1 DEF Inv, RequestsAreChecked, CheckOk, Publishes, Behind, ClaimsHold
<1> QED BY <1>2, <1>3, <1>4 DEF Inv

\* A tree lands on the default branch: one that publishes its corpus and was read
\* from stamps.
LEMMA PublishKeepsInv ==
  ASSUME Inv, NEW d \in Developers, NEW tree \in Trees, LedgerRead(tree), Publishes(tree),
         Publish(d, tree)
  PROVE  Inv'
<1>1. /\ clone'[d] = [base |-> tree, tree |-> tree, request |-> "none"]
      /\ \A e \in Developers \ {d} : clone'[e] = clone[e]
      /\ clone' \in [Developers -> [base : Trees, tree : Trees,
                                    request : {"none", "open", "passed"}]]
      /\ main' = tree /\ UNCHANGED <<stamp, stamped, edits>>
  BY DEF Inv, TypeOK, Publish
<1>2. TypeOK'
  BY <1>1 DEF Inv, TypeOK
<1>3. RowsAreRead'
  BY <1>1 DEF Inv, RowsAreRead, LedgerRead
<1>4. RequestsAreChecked'
  BY <1>1 DEF Inv, RequestsAreChecked, CheckOk, Publishes, Behind, ClaimsHold
<1> QED BY <1>2, <1>3, <1>4 DEF Inv

\* What is made of a branch and the default branch was read from stamps.
LEMMA MergeIsRead ==
  ASSUME Inv, NEW d \in Developers, NEW tree \in Merges(clone[d].base, clone[d].tree, main)
  PROVE  tree \in Trees /\ LedgerRead(tree)
<1>1. clone[d].base \in Trees /\ clone[d].tree \in Trees /\ main \in Trees
  BY DEF Inv, TypeOK
<1>2. tree \in Trees /\ tree.ledger \in Sides(clone[d].base.ledger, clone[d].tree.ledger, main.ledger)
  BY <1>1, MergesFields
<1>3. tree.ledger \in {clone[d].tree.ledger, main.ledger}
  BY <1>2 DEF Sides
<1> QED BY <1>2, <1>3 DEF Inv, RowsAreRead, LedgerRead

\* A copy reads what it has been stamped with; a ledger of those is one that was
\* read from stamps. (sync)
LEMMA MeasuredIsRead ==
  ASSUME Inv, NEW d, NEW dirs \in SUBSET Copies, \A id \in dirs : stamp[id] # NoStamp
  PROVE  /\ Measured(d, dirs) \in Ledgers
         /\ \A id \in DOMAIN Measured(d, dirs) : Measured(d, dirs)[id] \in stamped[id]
<1>1. \A id \in dirs : stamp[id] \in Corpora /\ stamp[id] \in stamped[id]
  BY DEF Inv, TypeOK, RowsAreRead
<1>2. Measured(d, dirs) \in [dirs -> Corpora]
  BY <1>1 DEF Measured
<1> QED BY <1>1, <1>2 DEF Measured, Ledgers

\* Every step keeps the invariant.
LEMMA NextKeepsInv == Inv /\ [Next]_vars => Inv'
<1> SUFFICES ASSUME Inv, [Next]_vars PROVE Inv'
  OBVIOUS
<1>1. CASE UNCHANGED vars
  BY <1>1 DEF vars, Inv, TypeOK, RowsAreRead, LedgerRead, RequestsAreChecked, CheckOk, Publishes,
     Behind, ClaimsHold
<1>2. ASSUME NEW d \in Developers, EditCorpus(d) PROVE Inv'
  <2>1. PICK v \in Vectors :
          Work(d, [clone[d].tree EXCEPT !.corpus = IF v \in @ THEN @ \ {v} ELSE @ \cup {v}])
    BY <1>2 DEF EditCorpus
  <2> DEFINE corpus == IF v \in clone[d].tree.corpus THEN clone[d].tree.corpus \ {v}
                       ELSE clone[d].tree.corpus \cup {v}
             tree   == [clone[d].tree EXCEPT !.corpus = corpus]
  <2>2. clone[d].tree \in Trees /\ LedgerRead(clone[d].tree)
    BY DEF Inv, TypeOK, RowsAreRead
  <2>3. corpus \in Corpora
    BY <2>2 DEF Trees, Corpora
  <2>4. tree \in Trees
    BY <2>2, <2>3, EditedTrees
  <2>5. LedgerRead(tree)
    BY <2>2 DEF Trees, LedgerRead
  <2>6. Work(d, tree)
    BY <2>1
  <2>7. edits' \in Nat /\ UNCHANGED <<main, stamp, stamped>>
    BY <1>2 DEF EditCorpus, Inv, TypeOK
  <2> HIDE DEF tree
  <2> QED BY <2>4, <2>5, <2>6, <2>7, WorkKeepsInv
<1>3. ASSUME NEW d \in Developers, GenManifest(d) PROVE Inv'
  <2> DEFINE tree == [clone[d].tree EXCEPT !.field = clone[d].tree.corpus]
  <2>1. clone[d].tree \in Trees /\ LedgerRead(clone[d].tree)
    BY DEF Inv, TypeOK, RowsAreRead
  <2>2. tree \in Trees
    BY <2>1, EditedTrees DEF Trees
  <2>3. LedgerRead(tree)
    BY <2>1 DEF Trees, LedgerRead
  <2>4. Work(d, tree) /\ edits' \in Nat /\ UNCHANGED <<main, stamp, stamped>>
    BY <1>3 DEF GenManifest, Inv, TypeOK
  <2> HIDE DEF tree
  <2> QED BY <2>2, <2>3, <2>4, WorkKeepsInv
<1>4. ASSUME NEW d \in Developers, Sync(d) PROVE Inv'
  <2>1. PICK dirs \in SUBSET Copies :
          /\ \A id \in dirs : stamp[id] # NoStamp
          /\ Work(d, [clone[d].tree EXCEPT !.ledger = Measured(d, dirs)])
    BY <1>4 DEF Sync
  <2> DEFINE ledger == Measured(d, dirs)
             tree   == [clone[d].tree EXCEPT !.ledger = ledger]
  <2>2. clone[d].tree \in Trees
    BY DEF Inv, TypeOK
  <2>3. ledger \in Ledgers /\ \A id \in DOMAIN ledger : ledger[id] \in stamped[id]
    BY <2>1, MeasuredIsRead
  <2>4. Work(d, tree)
    BY <2>1
  <2>5. edits' \in Nat /\ UNCHANGED <<main, stamp, stamped>>
    BY <1>4 DEF Sync, Inv, TypeOK
  <2> HIDE DEF ledger
  <2>6. tree \in Trees /\ tree.ledger = ledger
    BY <2>2, <2>3, EditedTrees DEF Trees
  <2>7. LedgerRead(tree)
    BY <2>3, <2>6 DEF LedgerRead
  <2> HIDE DEF tree
  <2> QED BY <2>4, <2>5, <2>6, <2>7, WorkKeepsInv
<1>5. ASSUME NEW d \in Developers, WriteReport(d) PROVE Inv'
  <2>1. PICK says \in {Cardinality(clone[d].base.corpus), Cardinality(clone[d].tree.corpus)} :
          Work(d, [clone[d].tree EXCEPT !.says = says,
                                        !.cells = Cardinality(DOMAIN clone[d].tree.ledger)])
    BY <1>5 DEF WriteReport
  <2> DEFINE cells == Cardinality(DOMAIN clone[d].tree.ledger)
             tree  == [clone[d].tree EXCEPT !.says = says, !.cells = cells]
  <2>2. /\ clone[d].tree \in Trees /\ clone[d].base \in Trees
        /\ LedgerRead(clone[d].tree)
    BY DEF Inv, TypeOK, RowsAreRead
  <2>3. says \in Nat /\ cells \in Nat
    <3>1. clone[d].tree.corpus \in Corpora /\ clone[d].base.corpus \in Corpora
            /\ clone[d].tree.ledger \in Ledgers
      BY <2>2 DEF Trees
    <3> QED BY <3>1, CorpusCounts, LedgerCounts
  <2>4. Work(d, tree)
    BY <2>1
  <2>5. edits' \in Nat /\ UNCHANGED <<main, stamp, stamped>>
    BY <1>5 DEF WriteReport, Inv, TypeOK
  <2> HIDE DEF cells
  <2>6. tree \in Trees
    BY <2>2, <2>3, EditedTrees
  <2>7. LedgerRead(tree)
    BY <2>2 DEF LedgerRead, Trees
  <2> HIDE DEF tree
  <2> QED BY <2>4, <2>5, <2>6, <2>7, WorkKeepsInv
<1>6. ASSUME NEW d \in Developers, Pull(d) PROVE Inv'
  <2>1. PICK tree \in Merges(clone[d].base, clone[d].tree, main) :
          clone' = [clone EXCEPT ![d] = [base |-> main, tree |-> tree, request |-> "none"]]
    BY <1>6 DEF Pull
  <2>2. tree \in Trees /\ LedgerRead(tree)
    BY <2>1, MergeIsRead
  <2>3. /\ clone'[d] = [base |-> main, tree |-> tree, request |-> "none"]
        /\ \A e \in Developers \ {d} : clone'[e] = clone[e]
        /\ clone' \in [Developers -> [base : Trees, tree : Trees,
                                      request : {"none", "open", "passed"}]]
        /\ UNCHANGED <<main, stamp, stamped, edits>>
    BY <1>6, <2>1, <2>2 DEF Pull, Inv, TypeOK
  <2>4. TypeOK'
    BY <2>3 DEF Inv, TypeOK
  <2>5. RowsAreRead'
    BY <2>2, <2>3 DEF Inv, RowsAreRead, LedgerRead
  <2>6. RequestsAreChecked'
    BY <2>3 DEF Inv, RequestsAreChecked, CheckOk, Publishes, Behind, ClaimsHold
  <2> QED BY <2>4, <2>5, <2>6 DEF Inv
<1>7. ASSUME NEW d \in Developers, PushBranch(d) \/ PassRequest(d) PROVE Inv'
  <2>1. PICK request \in {"open", "passed"} : clone' = [clone EXCEPT ![d].request = request]
    BY <1>7 DEF PushBranch, PassRequest
  <2>2. UNCHANGED <<main, stamp, stamped, edits>>
    BY <1>7 DEF PushBranch, PassRequest
  <2>3. CheckOk(clone[d].tree, clone[d].base)
    BY <1>7 DEF PushBranch, PassRequest, Inv, RequestsAreChecked
  <2>4. /\ clone'[d].base = clone[d].base /\ clone'[d].tree = clone[d].tree
        /\ \A e \in Developers \ {d} : clone'[e] = clone[e]
        /\ clone' \in [Developers -> [base : Trees, tree : Trees,
                                      request : {"none", "open", "passed"}]]
    BY <2>1 DEF Inv, TypeOK
  <2>5. TypeOK'
    BY <2>2, <2>4 DEF Inv, TypeOK
  <2>6. RowsAreRead'
    BY <2>2, <2>4 DEF Inv, RowsAreRead, LedgerRead
  <2>7. RequestsAreChecked'
    BY <2>2, <2>3, <2>4 DEF Inv, RequestsAreChecked, CheckOk, Publishes, Behind, ClaimsHold
  <2> QED BY <2>5, <2>6, <2>7 DEF Inv
<1>8. ASSUME NEW d \in Developers, MergeRequest(d) PROVE Inv'
  <2>1. PICK tree \in Merges(clone[d].base, clone[d].tree, main) : Publish(d, tree)
    BY <1>8 DEF MergeRequest
  <2>2. tree \in Trees /\ LedgerRead(tree)
    BY <2>1, MergeIsRead
  <2>3. /\ clone[d].base \in Trees /\ clone[d].tree \in Trees /\ main \in Trees
        /\ Publishes(clone[d].base) /\ Publishes(clone[d].tree) /\ Publishes(main)
        /\ Clean(clone[d].base, clone[d].tree, main)
    BY <1>8 DEF MergeRequest, Inv, TypeOK, RequestsAreChecked, CheckOk
  <2>4. Publishes(tree)
    BY <2>1, <2>3, CleanMergePublishes
  <2> QED BY <2>1, <2>2, <2>4, PublishKeepsInv
<1>9. ASSUME NEW d \in Developers, PushToMain(d) PROVE Inv'
  <2>1. clone[d].tree \in Trees /\ LedgerRead(clone[d].tree)
    BY DEF Inv, TypeOK, RowsAreRead
  <2>2. Publishes(clone[d].tree) /\ Publish(d, clone[d].tree)
    BY <1>9 DEF PushToMain, CheckOk
  <2> QED BY <2>1, <2>2, PublishKeepsInv
<1>10. ASSUME NEW id \in Copies, Vendor(id) \/ Revert(id) PROVE Inv'
  <2>1. UNCHANGED <<main, clone, edits>>
    BY <1>10 DEF Vendor, Revert
  <2>2. main.corpus \in Corpora
    BY DEF Inv, TypeOK, Trees
  <2>3. /\ stamped' \in [Copies -> SUBSET Corpora]
        /\ \A copy \in Copies : stamped[copy] \subseteq stamped'[copy]
    BY <1>10, <2>2 DEF Vendor, Revert, Inv, TypeOK
  <2>4. PICK corpus \in stamped'[id] : stamp' = [stamp EXCEPT ![id] = corpus]
    BY <1>10 DEF Vendor, Revert, Inv, TypeOK
  <2>5. TypeOK'
    BY <2>1, <2>3, <2>4 DEF Inv, TypeOK
  <2>6. \A copy \in Copies : stamp'[copy] # NoStamp => stamp'[copy] \in stamped'[copy]
    BY <2>3, <2>4 DEF Inv, TypeOK, RowsAreRead
  <2>7. ASSUME NEW tree \in Trees, LedgerRead(tree) PROVE \A copy \in DOMAIN tree.ledger : tree.ledger[copy] \in stamped'[copy]
    <3>1. DOMAIN tree.ledger \subseteq Copies
      BY DEF Trees, Ledgers
    <3> QED BY <2>3, <2>7, <3>1 DEF LedgerRead
  <2>8. RowsAreRead'
    BY <2>1, <2>6, <2>7 DEF Inv, TypeOK, RowsAreRead, LedgerRead
  <2>9. RequestsAreChecked'
    BY <2>1 DEF Inv, RequestsAreChecked, CheckOk, Publishes, Behind, ClaimsHold
  <2> QED BY <2>5, <2>8, <2>9 DEF Inv
<1> QED BY <1>1, <1>2, <1>3, <1>4, <1>5, <1>6, <1>7, <1>8, <1>9, <1>10 DEF Next

----------------------------------------------------------------------------
(* Theorems *)

\* The invariant holds in every state.
THEOREM Invariance == Spec => []Inv
BY InitInv, NextKeepsInv, PTL DEF Spec

\* When the gate is green on the default branch every copy the ledger names was
\* stamped with the corpus published there.
THEOREM GreenIsCarried == Spec => []GreenMeansCarried
<1>1. Inv => GreenMeansCarried
  BY DEF Inv, RowsAreRead, LedgerRead, GreenMeansCarried, CheckOk, Behind, ClaimsHold
<1> QED BY <1>1, Invariance, PTL

\* The gate asks for nothing that cannot be had before it passes.
THEOREM NeverBlocked == Spec => []PublishingIsNeverBlocked
<1>1. Inv => PublishingIsNeverBlocked
  <2> SUFFICES ASSUME Inv PROVE PublishingIsNeverBlocked
    OBVIOUS
  <2>1. main \in Trees /\ Publishes(main)
    BY DEF Inv, TypeOK, RequestsAreChecked
  <2>2. ASSUME CheckOk(main, main), NEW corpus \in Corpora PROVE CheckOk(Extended(corpus), main)
    <3> DEFINE tree == Extended(corpus)
    <3>1. /\ tree.corpus = corpus /\ tree.field = corpus /\ tree.ledger = main.ledger
          /\ tree.says = main.says /\ tree.cells = main.cells
      BY <2>1 DEF Extended, Trees
    <3> HIDE DEF tree
    <3>2. CheckOk(tree, main)
      BY <2>2, <3>1 DEF CheckOk, Publishes, Behind, ClaimsHold
    <3> QED BY <3>2 DEF tree
  <2>3. CheckOk(Followed, main)
    <3> DEFINE tree   == Followed
               ledger == [id \in DOMAIN main.ledger |-> main.corpus]
    <3>1. /\ tree.corpus = main.corpus /\ tree.field = main.field /\ tree.ledger = ledger
          /\ tree.says = Cardinality(main.corpus) /\ tree.cells = Cardinality(DOMAIN main.ledger)
      BY <2>1 DEF Followed, Trees
    <3>2. DOMAIN ledger = DOMAIN main.ledger /\ \A id \in DOMAIN ledger : ledger[id] = main.corpus
      OBVIOUS
    <3> HIDE DEF tree, ledger
    <3>3. CheckOk(tree, main)
      BY <2>1, <3>1, <3>2 DEF CheckOk, Publishes, Behind, ClaimsHold
    <3> QED BY <3>3 DEF tree
  <2> QED BY <2>2, <2>3 DEF PublishingIsNeverBlocked
<1> QED BY <1>1, Invariance, PTL

\* Whatever was merged while a request was waiting, a corpus lands with a ledger
\* that names the corpus before it, or after that corpus had come back.
THEOREM LandsOnWhatIsCarried == Spec => AtMostOneBehind
<1> DEFINE Lands == main'.corpus # main.corpus =>
                      \/ \A id \in DOMAIN main'.ledger : main'.ledger[id] = main.corpus
                      \/ main'.ledger = main.ledger /\ \E d \in Developers : Returned(d)
<1>1. ASSUME Inv, [Next]_vars PROVE [Lands]_vars
  <2>1. ASSUME NEW d \in Developers, PushToMain(d) PROVE Lands
    <3>1. main' = clone[d].tree /\ clone[d].base = main
      BY <2>1 DEF PushToMain, Publish
    <3>2. Behind(clone[d].tree, main) = {}
      BY <2>1, <3>1 DEF PushToMain, CheckOk
    <3> QED BY <3>1, <3>2 DEF Behind
  <2>2. ASSUME NEW d \in Developers, MergeRequest(d), main'.corpus # main.corpus PROVE Lands
    <3> DEFINE base == clone[d].base
               ours == clone[d].tree
    <3>1. main' \in Merges(base, ours, main)
      BY <2>2 DEF MergeRequest, Publish
    <3>2. /\ base \in Trees /\ ours \in Trees /\ main \in Trees
          /\ Publishes(base) /\ Publishes(ours) /\ Publishes(main)
          /\ Clean(base, ours, main) /\ clone[d].request = "passed" /\ CheckOk(ours, base)
      BY <2>2, <1>1 DEF MergeRequest, Inv, TypeOK, RequestsAreChecked, CheckOk
    <3>3. main.corpus = base.corpus
      BY <2>2, <3>1, <3>2, CleanMergePublishes
    <3>4. main'.ledger \in Sides(base.ledger, ours.ledger, main.ledger)
      BY <3>1, <3>2, MergesFields
    <3>5. \A id \in DOMAIN ours.ledger : ours.ledger[id] = main.corpus
      BY <3>2, <3>3 DEF CheckOk, Behind
    <3>6. CASE main'.ledger = ours.ledger
      BY <3>5, <3>6
    <3>7. CASE main'.ledger = main.ledger /\ main.ledger # ours.ledger
      <4>1. base.ledger # main.ledger
        <5>1. Clean(base, ours, main) /\ "ledger" \in Files
          BY <3>2 DEF Files
        <5> QED BY <3>4, <3>7 DEF Sides
      <4>2. Returned(d)
        BY <3>2, <3>3, <4>1 DEF Returned
      <4> QED BY <3>7, <4>2
    <3> QED BY <3>4, <3>6, <3>7 DEF Sides
  <2>3. ASSUME UNCHANGED main PROVE Lands
    BY <2>3
  <2>4. ASSUME NEW d \in Developers,
               EditCorpus(d) \/ GenManifest(d) \/ Sync(d) \/ WriteReport(d) \/ Pull(d)
                 \/ PushBranch(d) \/ PassRequest(d)
        PROVE UNCHANGED main
    BY <2>4 DEF EditCorpus, GenManifest, Sync, WriteReport, Pull, PushBranch, PassRequest
  <2>5. ASSUME NEW id \in Copies, Vendor(id) \/ Revert(id) PROVE UNCHANGED main
    BY <2>5 DEF Vendor, Revert
  <2>6. CASE UNCHANGED vars
    BY <2>6, <2>3 DEF vars
  <2>7. CASE Next
    <3> HIDE DEF Lands
    <3>1. ASSUME NEW d \in Developers, MergeRequest(d) PROVE Lands
      BY <2>2, <3>1 DEF Lands
    <3> QED BY <2>1, <3>1, <2>3, <2>4, <2>5, <2>7 DEF Next
  <2> HIDE DEF Lands
  <2> QED BY <1>1, <2>6, <2>7
<1>2. Spec => [][Lands]_vars
  BY <1>1, Invariance, PTL DEF Spec
<1> QED BY <1>2 DEF AtMostOneBehind

==============================================================================
