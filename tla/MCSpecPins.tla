----------------------------- MODULE MCSpecPins -----------------------------
(***************************************************************************)
(* SpecPins with seven revisions of a document of two paragraphs, the words  *)
(* of which are strings, two citations of one spelling and one of the other.*)
(***************************************************************************)
EXTENDS SpecPins

ab == <<"a", "b">>
c  == <<"c">>
de == <<"d", "e">>
n  == <<"n">>
blank == << >>

MCFirst == <<ab, blank, c, de>>

\* A paragraph is added before, between and behind; lines are broken elsewhere;
\* a line is rewritten; the paragraphs change places and one line is repeated; a
\* line is added inside the second paragraph, to the first revision with the old
\* paragraph quoted on a line at the end, and to Added.
Added     == <<n, blank, ab, blank, <<"m">>, blank, c, de>>
Rewrapped == <<<<"a">>, <<"b">>, blank, <<"c", "d">>, <<"e">>>>
Amended   == <<ab, blank, <<"x">>, de>>
Moved     == <<c, de, blank, ab, blank, c>>

Quoted    == <<ab, blank, c, n, de, blank, <<"c", "d", "e">>>>
Opened    == <<n, blank, ab, blank, <<"m">>, blank, c, <<"x">>, de>>

MCUpstream == {MCFirst, Added, Rewrapped, Amended, Moved, Quoted, Opened}

MCWord == {"a", "b", "c", "d", "e", "m", "n", "x"}

MCFirstCites == [citation |-> <<Span(1, 1), Span(3, 4)>>, anchor |-> <<Span(4, 4)>>]
\* An author draws a citation around one line or two.
ShortlyRecited ==
  run.pc = "idle" /\ mishaps' # mishaps =>
    \A sp \in Spellings : \A span \in Range(work'.cites[sp]) \ Range(work.cites[sp]) :
      span.hi <= span.lo + 1

=============================================================================
