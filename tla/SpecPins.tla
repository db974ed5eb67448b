------------------------------ MODULE SpecPins ------------------------------
(***************************************************************************)
(* The vendored specification and what cites its lines: scripts/vendor-     *)
(* spec.py, which copies a revision from upstream, rewrites the citations   *)
(* of both spellings onto the new line numbers and has both ledgers         *)
(* rewritten; scripts/specpins.py, which judges every citation whose text   *)
(* changed before a ledger is written; and the checks of the citation, the  *)
(* anchor and the drift gate, over a working tree and the last commit. That *)
(* what is cited is about the rule it is cited for, which the anchor gate   *)
(* goes on to ask (aim_report), is no matter of where the text is.          *)
(*                                                                          *)
(* A document is a sequence of lines and a line a sequence of words; a      *)
(* blank line has none. The digest of a document or a passage is itself.    *)
(* The citations of one spelling stand in one place, and a citation's key   *)
(* is its number there. The tables generated from the anchors are one, with *)
(* a row for every anchor.                                                  *)
(***************************************************************************)
EXTENDS SequencesExt, Integers, FiniteSets

CONSTANTS
  Word,        \* what is written
  Upstream,    \* the revisions that may be vendored
  First,       \* the one that is, to begin with
  FirstCites,  \* what is cited to begin with
  MaxVendors,  \* how often anything is vendored
  MaxMishaps   \* how often a re-vendor dies or anybody edits a citation

VARIABLES
  work,     \* the working tree
  head,     \* the last commit
  run,      \* the vendor-spec.py under way
  last,     \* the last that ended, until anything else happens
  vendors,
  mishaps

pinsVars == <<work, head, run, last, vendors, mishaps>>

Spellings == {"citation", "anchor"}
SYNCED    == <<"citation", "anchor">>

Span(lo, hi) == [lo |-> lo, hi |-> hi]
Spans(doc)   == {span \in [lo : DOMAIN doc, hi : DOMAIN doc] : span.lo <= span.hi}

Line     == Seq(Word)
Document == Seq(Line)

ASSUME DocumentAssumption   == First \in Document /\ Upstream \subseteq Document
ASSUME FirstCitesAssumption == FirstCites \in [Spellings -> Seq(Spans(First))]

NoLedger        == [spec |-> << >>, pins |-> << >>]
Ledger(doc, ps) == [spec |-> doc, pins |-> ps]

----------------------------------------------------------------------------
(* vendor-spec.py: the new place of a line *)

\* The numbers of the lines that are not blank, in order.
NonBlankUpTo(doc) ==
  LET lines[n \in 0..Len(doc)] ==
        IF n = 0 THEN << >>
        ELSE IF doc[n] = << >> THEN lines[n - 1] ELSE Append(lines[n - 1], n)
  IN  lines
NonBlank(doc) == NonBlankUpTo(doc)[Len(doc)]
Lines(doc)    == LET at == NonBlank(doc) IN [n \in DOMAIN at |-> doc[at[n]]]

\* A stretch of a, a[alo + 1] to a[ahi], and one of b.
Windows(a, b) == [alo : 0..Len(a), ahi : 0..Len(a), blo : 0..Len(b), bhi : 0..Len(b)]
Whole(a, b)   == [alo |-> 0, ahi |-> Len(a), blo |-> 0, bhi |-> Len(b)]
Before(w, m)  == [alo |-> w.alo, ahi |-> m.i, blo |-> w.blo, bhi |-> m.j]
Behind(w, m)  == [alo |-> m.i + m.k, ahi |-> w.ahi, blo |-> m.j + m.k, bhi |-> w.bhi]

\* The runs of lines that the two stretches have in common, and the longest, the
\* first of them in a, then in b.
Common(a, b, w) ==
  {m \in [i : w.alo..(w.ahi - 1), j : w.blo..(w.bhi - 1), k : 1..(w.ahi - w.alo)] :
     /\ m.i + m.k <= w.ahi /\ m.j + m.k <= w.bhi
     /\ \A n \in 1..m.k : a[m.i + n] = b[m.j + n]}

Longest(ms) ==
  CHOOSE m \in ms : \A other \in ms :
    \/ m.k > other.k
    \/ m.k = other.k /\ (m.i < other.i \/ (m.i = other.i /\ m.j <= other.j))

\* SequenceMatcher.get_matching_blocks
BlocksWithin(a, b) ==
  LET within[w \in Windows(a, b)] ==
        LET ms == Common(a, b, w) IN
        IF ms = {} THEN {}
        ELSE LET m == Longest(ms) IN
             {m} \cup within[Before(w, m)] \cup within[Behind(w, m)]
  IN  within
Blocks(a, b) == BlocksWithin(a, b)[Whole(a, b)]

Clamp(n, doc) == IF n < 1 THEN 1 ELSE IF n > Len(doc) THEN Len(doc) ELSE n

\* line_map: a line that was replaced or deleted goes to the start of what
\* stands in its place, and a blank one as far as the line before it went.
Place(blocks, new, n) ==
  LET lines  == NonBlank(new)
      at     == {m \in blocks : m.i < n /\ n <= m.i + m.k}
      passed == {m.j + m.k : m \in {b \in blocks : b.i + b.k < n}}
      j1     == IF passed = {} THEN 0 ELSE CHOOSE j \in passed : \A o \in passed : o <= j
  IN  IF at # {} THEN LET m == CHOOSE b \in at : TRUE IN lines[m.j + n - m.i]
      ELSE IF j1 < Len(lines) THEN lines[j1 + 1] ELSE Len(new)

LineMap(old, new) ==
  LET lines    == NonBlank(old)
      blocks   == Blocks(Lines(old), Lines(new))
      Above(n) == {i \in DOMAIN lines : lines[i] <= n}
  IN  [n \in DOMAIN old |->
        IF Above(n) = {} THEN Clamp(n, new)
        ELSE LET i == Cardinality(Above(n))
             IN  IF lines[i] = n THEN Place(blocks, new, i)
                 ELSE Clamp(Place(blocks, new, i) + n - lines[i], new)]

\* snap: off a blank line, onto the first one with content in the direction.
SnapForward(n, doc) ==
  LET on == {m \in DOMAIN doc : m >= n /\ doc[m] # << >>}
  IN  IF on = {} THEN Len(doc) ELSE CHOOSE m \in on : \A o \in on : m <= o
SnapBack(n, doc) ==
  LET on == {m \in DOMAIN doc : m <= n /\ doc[m] # << >>}
  IN  IF on = {} THEN 1 ELSE CHOOSE m \in on : \A o \in on : m >= o

\* remap_token, of one part
Remapped(span, old, new) ==
  LET map     == LineMap(old, new)
      Goes(n) == IF n \in DOMAIN map THEN map[n] ELSE Clamp(n, new)
      lo      == SnapForward(Goes(span.lo), new)
      hi      == SnapBack(Goes(span.hi), new)
  IN  IF span.lo = span.hi \/ hi < lo THEN Span(lo, lo) ELSE Span(lo, hi)

----------------------------------------------------------------------------
(* specpins.py: the text a citation addresses, and where it is *)

Passage(doc, span) == SubSeq(doc, span.lo, IF span.hi > Len(doc) THEN Len(doc) ELSE span.hi)

\* flatten: line breaks are nothing, and a line is where its words are.
TextUpTo(doc) ==
  LET text[n \in 0..Len(doc)] == IF n = 0 THEN << >> ELSE text[n - 1] \o doc[n] IN text
Words(doc)       == TextUpTo(doc)[Len(doc)]
StartOf(doc, lo) == Len(TextUpTo(doc)[lo - 1])
EndOf(doc, hi)   == Len(TextUpTo(doc)[hi])

Occurrences(doc, words) ==
  IF words = << >> THEN {}
  ELSE {at \in 0..(Len(Words(doc)) - Len(words)) :
          SubSeq(Words(doc), at + 1, at + Len(words)) = words}

\* It is somewhere, and nowhere that the span so much as touches.
LeftBehind(doc, words, span) ==
  /\ Occurrences(doc, words) # {}
  /\ \A at \in Occurrences(doc, words) :
       at >= EndOf(doc, span.hi) \/ StartOf(doc, span.lo) >= at + Len(words)

\* resolution_failures: none
Resolves(span, doc) == span \in Spans(doc) /\ doc[span.lo] # << >> /\ doc[span.hi] # << >>

\* judge, abandoned: the passage as a whole, then each line of it.
MovedOff(base, was, doc, here) ==
  \/ LeftBehind(doc, Words(Passage(base, was)), here)
  \/ \E n \in was.lo..was.hi : LeftBehind(doc, base[n], here)

\* pin_of each citation
Pins(t, sp) ==
  [key \in DOMAIN t.cites[sp] |->
     [at |-> t.cites[sp][key], text |-> Passage(t.spec, t.cites[sp][key])]]

\* The citations that address other text than the ledger says.
Changed(t, sp) ==
  {key \in DOMAIN t.cites[sp] \cap DOMAIN t.ledger[sp].pins :
     Pins(t, sp)[key].text # t.ledger[sp].pins[key].text}

\* MUTANT of BeforeImage: the last commit is taken for the revision the ledger
\* was pinned against.
AnyBeforeImage(t, h, sp) == TRUE

\* committed_spec
BeforeImage(t, h, sp) == h.spec = t.ledger[sp].spec

\* sync, of the working tree t and the last commit h.
SyncRefused(t, h, sp, accepted) ==
  \/ t.cites[sp] = << >>
  \/ \E key \in DOMAIN t.cites[sp] : ~Resolves(t.cites[sp][key], t.spec)
  \/ Changed(t, sp) # {} /\ ~BeforeImage(t, h, sp)
  \/ \E key \in Changed(t, sp) \ accepted :
       LET was == t.ledger[sp].pins[key].at IN
       \/ was.hi > Len(h.spec)
       \/ MovedOff(h.spec, was, t.spec, t.cites[sp][key])
  \/ ~(accepted \subseteq Changed(t, sp))

Synced(t, sp) == [t EXCEPT !.ledger[sp] = Ledger(t.spec, Pins(t, sp))]

\* --check of a ledger's gate, pinned_failures and orphan_failures
LedgerOk(t, sp) ==
  /\ t.ledger[sp] # NoLedger /\ t.cites[sp] # << >>
  /\ DOMAIN t.ledger[sp].pins = DOMAIN t.cites[sp]
  /\ \A key \in DOMAIN t.cites[sp] : Resolves(t.cites[sp][key], t.spec)
  /\ Changed(t, sp) = {}

\* generated_failures: a row carries the anchor of its source, or, if that has no
\* such row, one that some source has.
TablesOk(t) ==
  \A key \in DOMAIN t.table :
    /\ Resolves(t.table[key], t.spec)
    /\ IF key \in DOMAIN t.cites.anchor THEN t.table[key] = t.cites.anchor[key]
       ELSE t.table[key] \in Range(t.cites.anchor)

CheckOk(t, sp) == LedgerOk(t, sp) /\ (sp = "anchor" => TablesOk(t))

\* spec-drift-gate.py: the corpus was generated against the document, and it is
\* the document that was vendored.
DriftOk(t) == t.manifest = t.spec /\ t.pin = t.spec
Green(t)   == DriftOk(t) /\ \A sp \in Spellings : CheckOk(t, sp)

----------------------------------------------------------------------------
(* vendor-spec.py: main *)

Idle  == [pc |-> "idle", doc |-> << >>, old |-> << >>, start |-> NoLedger, failed |-> {}]
NoEnd == [ok |-> FALSE, start |-> NoLedger]

PinsInit ==
  /\ LET cited == [spec |-> First, pin |-> First, manifest |-> First, cites |-> FirstCites,
                   table |-> FirstCites.anchor, ledger |-> [sp \in Spellings |-> NoLedger]]
     IN  work = Synced(Synced(cited, "citation"), "anchor")
  /\ head = work /\ run = Idle /\ last = NoEnd /\ vendors = 0 /\ mishaps = 0

\* What is there is read, and then overwritten.
StartVendor ==
  /\ run.pc = "idle" /\ vendors < MaxVendors /\ vendors' = vendors + 1
  /\ \E doc \in Upstream :
       run' = [pc |-> "spec", doc |-> doc, old |-> work.spec, start |-> work, failed |-> {}]
  /\ last' = NoEnd /\ UNCHANGED <<work, head, mishaps>>

EditTree(newTree, pc) ==
  work' = newTree /\ run' = [run EXCEPT !.pc = pc] /\ UNCHANGED <<head, last, vendors, mishaps>>

End(ok) ==
  run' = Idle /\ last' = [ok |-> ok, start |-> run.start] /\ UNCHANGED <<head, vendors, mishaps>>

WriteSpec == run.pc = "spec" /\ EditTree([work EXCEPT !.spec = run.doc], "pin")

\* Over the same bytes there is nothing to remap, and no ledger is looked at.
WritePin ==
  /\ run.pc = "pin"
  /\ IF run.old # run.doc THEN EditTree([work EXCEPT !.pin = run.doc], "citation")
     ELSE work' = [work EXCEPT !.pin = run.doc] /\ End(TRUE)

\* MUTANT of Remap: only the one spelling is remapped, as it was for a while.
RemapCitationsOnly(sp) ==
  /\ run.pc = sp
  /\ IF sp = "anchor" THEN EditTree(work, "sync citation")
     ELSE EditTree([work EXCEPT !.cites[sp] =
                  [key \in DOMAIN @ |-> Remapped(@[key], run.old, run.doc)]], "anchor")

\* remap_citations, then remap_anchors
Remap(sp) ==
  /\ run.pc = sp
  /\ EditTree([work EXCEPT !.cites[sp] =
             [key \in DOMAIN @ |-> Remapped(@[key], run.old, run.doc)]],
          IF sp = "citation" THEN "anchor" ELSE "sync citation")

\* resync, one ledger after the other: one that is refused stops nothing.
ResyncCitations ==
  /\ run.pc = "sync citation"
  /\ LET no == SyncRefused(work, head, "citation", {}) IN
     /\ work' = IF no THEN work ELSE Synced(work, "citation")
     /\ run' = [run EXCEPT !.pc = "sync anchor", !.failed = IF no THEN {"citation"} ELSE {}]
  /\ UNCHANGED <<head, last, vendors, mishaps>>

ResyncAnchors ==
  /\ run.pc = "sync anchor"
  /\ LET no == SyncRefused(work, head, "anchor", {}) IN
     /\ work' = IF no THEN work ELSE Synced(work, "anchor")
     /\ End(~no /\ run.failed = {})

Mishap == mishaps < MaxMishaps /\ mishaps' = mishaps + 1

VendorDies == run.pc # "idle" /\ Mishap /\ run' = Idle /\ last' = NoEnd /\ UNCHANGED <<work, head, vendors>>

----------------------------------------------------------------------------
(* What people do in between *)

AtRest == run.pc = "idle" /\ run' = run /\ last' = NoEnd

\* A citation is drawn anew, taken out, or one is added; those after it in its
\* place take its number.
Recite ==
  /\ AtRest /\ Mishap
  /\ \E sp \in Spellings :
       \/ \E key \in DOMAIN work.cites[sp], span \in Spans(work.spec) :
            work' = [work EXCEPT !.cites[sp][key] = span]
       \/ \E key \in DOMAIN work.cites[sp] :
            work' = [work EXCEPT !.cites[sp] = RemoveAt(@, key)]
       \/ \E span \in Spans(work.spec) : work' = [work EXCEPT !.cites[sp] = <<span>> \o @]
  /\ UNCHANGED <<head, vendors>>

\* spec-citation-gate.py or spec-anchor-gate.py --sync --accept-reaim
Sync ==
  /\ AtRest
  /\ \E sp \in Spellings : \E accepted \in SUBSET Changed(work, sp) :
       ~SyncRefused(work, head, sp, accepted) /\ work' = Synced(work, sp)
  /\ UNCHANGED <<head, vendors, mishaps>>

\* The generators and then gen_manifest.py, which refuses a pin of other bytes.
Tabulated(t)  == [t EXCEPT !.table = t.cites.anchor]
Manifested(t) == [t EXCEPT !.manifest = t.spec]

Regenerate ==
  /\ AtRest
  /\ work' = IF work.pin = work.spec THEN Manifested(Tabulated(work)) ELSE Tabulated(work)
  /\ UNCHANGED <<head, vendors, mishaps>>

Commit == AtRest /\ head' = work /\ UNCHANGED <<work, vendors, mishaps>>
Reset  == AtRest /\ work' = head /\ UNCHANGED <<head, vendors, mishaps>>

PinsNext ==
  \/ StartVendor \/ WriteSpec \/ WritePin \/ (\E sp \in Spellings : Remap(sp))
  \/ ResyncCitations \/ ResyncAnchors \/ VendorDies
  \/ Recite \/ Sync \/ Regenerate \/ Commit \/ Reset

PinsSpec == PinsInit /\ [][PinsNext]_pinsVars

----------------------------------------------------------------------------
(* Properties *)

\* A ledger that is written by a re-vendor has judged every citation by the text
\* it was pinned to, whatever was vendored, committed or left uncommitted in
\* between: no line of that text is still in the document with the citation
\* nowhere on it. (committed_spec, judge, abandoned)
RevendorKeepsItsText ==
  [][\A sp \in Spellings :
       run.pc # "idle" /\ work'.ledger[sp] # work.ledger[sp] =>
         \A key \in DOMAIN work.ledger[sp].pins \cap DOMAIN work'.ledger[sp].pins :
           \A line \in Range(work.ledger[sp].pins[key].text) :
             ~LeftBehind(work.spec, line, work.cites[sp][key])]_pinsVars

\* The lines of the one that are not blank are lines of the other, each of them
\* once and in the same order.
OnlyInserts(old, new) ==
  LET lines == Lines(old) IN
  /\ \A n \in DOMAIN lines : \E at \in DOMAIN new :
       \A other \in DOMAIN new : new[other] = lines[n] <=> other = at
  /\ \A m, n \in DOMAIN lines : m < n =>
       \E i, j \in DOMAIN new : i < j /\ new[i] = lines[m] /\ new[j] = lines[n]

\* The words the citation was drawn around are in the document still, and are
\* not those that it addresses.
ReadsElsewhere(sp, key) ==
  LET words == Words(Passage(last.start.spec, last.start.cites[sp][key])) IN
  /\ Occurrences(work.spec, words) # {}
  /\ Words(Passage(work.spec, work.cites[sp][key])) # words

\* The table has a row of an anchor that is another by now.
Overtaken ==
  \E key \in DOMAIN work.table \cap DOMAIN work.cites.anchor :
    work.cites.anchor[key] # last.start.cites.anchor[key]

\* A re-vendor of a committed tree on which every gate was green, to a revision
\* that only adds lines, leaves every citation opening and closing on the lines
\* it was drawn around. Unless it was refused both ledgers pass, and to generate
\* the corpus again is all that is wanting: the drift gate is red until then if
\* the document changed at all, and the anchor gate if an anchor that a table
\* carries moved, and not if none did. It is refused only when a ledger was about
\* another revision, or when the addition broke a cited passage up and the
\* document quotes it in one piece elsewhere. (line_map, snap, remap_token,
\* committed_spec, judge, main; generated_failures, spec-drift-gate.py)
InsertionsAreFollowed ==
  last # NoEnd /\ Green(last.start) /\ last.start = head /\ OnlyInserts(last.start.spec, work.spec) =>
    /\ \A sp \in Spellings : \A key \in DOMAIN work.cites[sp] :
         /\ work.spec[work.cites[sp][key].lo] = last.start.spec[last.start.cites[sp][key].lo]
         /\ work.spec[work.cites[sp][key].hi] = last.start.spec[last.start.cites[sp][key].hi]
    /\ IF last.ok
       THEN /\ \A sp \in Spellings : LedgerOk(work, sp)
            /\ Green(Manifested(Tabulated(work)))
            /\ DriftOk(work) <=> work.spec = last.start.spec
            /\ Overtaken => ~TablesOk(work)
            /\ work.cites.anchor = last.start.cites.anchor => TablesOk(work)
       ELSE \E sp \in Spellings :
              \/ last.start.ledger[sp].spec # last.start.spec
              \/ \E key \in DOMAIN work.cites[sp] : ReadsElsewhere(sp, key)

============================================================================
