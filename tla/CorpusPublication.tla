------------------------- MODULE CorpusPublication -------------------------
(***************************************************************************)
(* How a corpus change reaches the default branch, and the copies of the    *)
(* corpus follow it: scripts/consumer-lag-gate.py, which .githooks/pre-push *)
(* runs over every revision that is pushed and .github/workflows/ci.yml     *)
(* over every pull request and over the default branch; the developers,     *)
(* each with a clone and a branch; the merges; and the rails, which vendor  *)
(* what the default branch has and stamp their copy with its digest.        *)
(*                                                                          *)
(* A tree is what the gate reads of a revision: the vectors, the digest its *)
(* MANIFEST.json carries, vectors/CONSUMERS.json, and the two figures of    *)
(* docs/IMPLEMENTATION-REPORT.md. The digest of a corpus is the corpus. The *)
(* revision number, which the report states beside the number of vectors,   *)
(* is read and compared as that number is. Nobody types a digest into the   *)
(* ledger and nobody bypasses the hook.                                     *)
(***************************************************************************)
EXTENDS FiniteSets, Integers

CONSTANTS
  Vectors,
  Developers,
  Copies,      \* the rails
  NoStamp,
  First,       \* the corpus published to begin with
  Recorded,    \* the copies the ledger names to begin with
  MaxEdits     \* how often a developer adds or removes a vector

ASSUME FirstIsACorpus == First \subseteq Vectors /\ IsFiniteSet(Vectors)
ASSUME RecordedAreCopies == Recorded \subseteq Copies /\ IsFiniteSet(Copies)
ASSUME NoStampIsNoCorpus == \A corpus \in SUBSET Vectors : corpus # NoStamp

VARIABLES
  main,     \* the tree of the default branch
  clone,    \* of each developer: the branch, the default branch as fetched and
            \* merged last, and how far the branch's pull request is
  stamp,    \* what each rail's copy is stamped with
  stamped,  \* what it was ever stamped with
  edits

vars == <<main, clone, stamp, stamped, edits>>

Corpora == SUBSET Vectors
Ledgers == UNION {[ids -> Corpora] : ids \in SUBSET Copies}
Trees   == [corpus : Corpora, field : Corpora, ledger : Ledgers, says : Nat, cells : Nat]

----------------------------------------------------------------------------
(* consumer-lag-gate.py --check, of a revision, with the default branch as  *)
(* the repository it runs in last fetched it                                *)

\* published_corpus: the default branch's manifest is held to its own files,
\* and one that carries another digest ends the check.
Publishes(tree) == tree.field = tree.corpus

\* MUTANT of Behind: a copy is behind when it lacks a vector.
BehindByVectors(tree, published) ==
  {id \in DOMAIN tree.ledger : ~(published.corpus \subseteq tree.ledger[id])}

Behind(tree, published) == {id \in DOMAIN tree.ledger : tree.ledger[id] # published.corpus}

\* claim_failures: one cell of the table for each row of the ledger, and the
\* number of vectors the rails could have vendored.
ClaimsHold(tree, published) ==
  /\ tree.says = Cardinality(published.corpus)
  /\ tree.cells = Cardinality(DOMAIN tree.ledger)

\* MUTANT of CheckOk: without publication_failures.
CheckOkUnpublished(tree, published) ==
  Publishes(published) /\ Behind(tree, published) = {} /\ ClaimsHold(tree, published)

CheckOk(tree, published) ==
  /\ Publishes(tree) /\ Publishes(published)
  /\ Behind(tree, published) = {}
  /\ ClaimsHold(tree, published)

----------------------------------------------------------------------------
(* git: a branch and the default branch, merged file by file over the tree  *)
(* the branch started from                                                  *)

Files == {"field", "ledger", "says", "cells"}

\* The vectors are a file each.
MergedCorpus(base, ours, theirs) == (theirs \ (base \ ours)) \cup (ours \ base)

Clean(base, ours, theirs) ==
  \A file \in Files :
    ours[file] = base[file] \/ theirs[file] = base[file] \/ ours[file] = theirs[file]

\* The two sides of a file that both have changed, or the one there is to take.
Sides(base, ours, theirs) ==
  IF ours = base THEN {theirs} ELSE IF theirs = base THEN {ours} ELSE {ours, theirs}

Merges(base, ours, theirs) ==
  [ corpus : {MergedCorpus(base.corpus, ours.corpus, theirs.corpus)},
    field  : Sides(base.field, ours.field, theirs.field),
    ledger : Sides(base.ledger, ours.ledger, theirs.ledger),
    says   : Sides(base.says, ours.says, theirs.says),
    cells  : Sides(base.cells, ours.cells, theirs.cells) ]

----------------------------------------------------------------------------

Init ==
  /\ main = [ corpus |-> First, field |-> First, ledger |-> [id \in Recorded |-> First],
              says |-> Cardinality(First), cells |-> Cardinality(Recorded) ]
  /\ clone = [d \in Developers |-> [base |-> main, tree |-> main, request |-> "none"]]
  /\ stamp = [id \in Copies |-> IF id \in Recorded THEN First ELSE NoStamp]
  /\ stamped = [id \in Copies |-> IF id \in Recorded THEN {First} ELSE {}]
  /\ edits = 0

\* The branch is another one now, whatever was said of the last.
Work(d, tree) == clone' = [clone EXCEPT ![d].tree = tree, ![d].request = "none"]

EditCorpus(d) ==
  /\ edits < MaxEdits /\ edits' = edits + 1
  /\ \E v \in Vectors :
       Work(d, [clone[d].tree EXCEPT !.corpus = IF v \in @ THEN @ \ {v} ELSE @ \cup {v}])
  /\ UNCHANGED <<main, stamp, stamped>>

\* gen_manifest.py
GenManifest(d) ==
  /\ ~Publishes(clone[d].tree)
  /\ Work(d, [clone[d].tree EXCEPT !.field = clone[d].tree.corpus])
  /\ UNCHANGED <<main, stamp, stamped, edits>>

\* MUTANT of Measured: what the gate computes is written down, and no stamp read.
MeasuredHere(d, dirs) == [id \in dirs |-> clone[d].base.corpus]

\* stamp_digest of each directory
Measured(d, dirs) == [id \in dirs |-> stamp[id]]

\* consumer-lag-gate.py --sync, given a directory for some of the copies: for
\* every one that is recorded, and each has a stamp.
Sync(d) ==
  /\ \E dirs \in SUBSET Copies :
       /\ DOMAIN clone[d].tree.ledger \subseteq dirs
       /\ \A id \in dirs : stamp[id] # NoStamp
       /\ clone[d].tree.ledger # Measured(d, dirs)
       /\ Work(d, [clone[d].tree EXCEPT !.ledger = Measured(d, dirs)])
  /\ UNCHANGED <<main, stamp, stamped, edits>>

\* The report is rewritten to what the gate asks for, or to what the branch has.
WriteReport(d) ==
  /\ \E says \in {Cardinality(clone[d].base.corpus), Cardinality(clone[d].tree.corpus)} :
       Work(d, [clone[d].tree EXCEPT !.says = says, !.cells = Cardinality(DOMAIN clone[d].tree.ledger)])
  /\ UNCHANGED <<main, stamp, stamped, edits>>

\* The default branch is fetched and merged; a conflict is settled for one side
\* or the other.
Pull(d) ==
  /\ clone[d].base # main
  /\ \E tree \in Merges(clone[d].base, clone[d].tree, main) :
       clone' = [clone EXCEPT ![d] = [base |-> main, tree |-> tree, request |-> "none"]]
  /\ UNCHANGED <<main, stamp, stamped, edits>>

\* pre-push, in the clone: the default branch it knows is the one it fetched.
PushBranch(d) ==
  /\ clone[d].request = "none" /\ clone[d].tree # clone[d].base
  /\ CheckOk(clone[d].tree, clone[d].base)
  /\ clone' = [clone EXCEPT ![d].request = "open"]
  /\ UNCHANGED <<main, stamp, stamped, edits>>

\* The pull request's job runs over its merge with the default branch of the
\* moment.
PassRequest(d) ==
  /\ clone[d].request = "open" /\ Clean(clone[d].base, clone[d].tree, main)
  /\ \E tree \in Merges(clone[d].base, clone[d].tree, main) : CheckOk(tree, main)
  /\ clone' = [clone EXCEPT ![d].request = "passed"]
  /\ UNCHANGED <<main, stamp, stamped, edits>>

Publish(d, tree) ==
  /\ main' = tree
  /\ clone' = [clone EXCEPT ![d] = [base |-> tree, tree |-> tree, request |-> "none"]]
  /\ UNCHANGED <<stamp, stamped, edits>>

\* What is merged may be another tree than the one the job ran over.
MergeRequest(d) ==
  /\ clone[d].request = "passed" /\ Clean(clone[d].base, clone[d].tree, main)
  /\ \E tree \in Merges(clone[d].base, clone[d].tree, main) : Publish(d, tree)

\* A push to the default branch itself has to be a fast-forward.
PushToMain(d) ==
  /\ clone[d].base = main /\ clone[d].tree # main
  /\ CheckOk(clone[d].tree, clone[d].base)
  /\ Publish(d, clone[d].tree)

\* A rail vendors what the default branch has, or goes back to what it had.
Vendor(id) ==
  /\ stamp' = [stamp EXCEPT ![id] = main.corpus]
  /\ stamped' = [stamped EXCEPT ![id] = @ \cup {main.corpus}]
  /\ UNCHANGED <<main, clone, edits>>

Revert(id) ==
  /\ \E corpus \in stamped[id] : stamp' = [stamp EXCEPT ![id] = corpus]
  /\ UNCHANGED <<main, clone, stamped, edits>>

Next ==
  \/ \E d \in Developers :
       \/ EditCorpus(d) \/ GenManifest(d) \/ Sync(d) \/ WriteReport(d) \/ Pull(d)
       \/ PushBranch(d) \/ PassRequest(d) \/ MergeRequest(d) \/ PushToMain(d)
  \/ \E id \in Copies : Vendor(id) \/ Revert(id)

Spec == Init /\ [][Next]_vars

----------------------------------------------------------------------------
(* Properties *)

\* When the gate is green on the default branch, every copy the ledger names
\* has been stamped with the corpus published there, one cell of the report is
\* about each of them, and it states the number they replay. (check; sync)
GreenMeansCarried ==
  CheckOk(main, main) =>
    /\ \A id \in DOMAIN main.ledger : main.corpus \in stamped[id]
    /\ main.cells = Cardinality(DOMAIN main.ledger)
    /\ main.says = Cardinality(main.corpus)

\* No corpus lands on one that the copies have not been recorded as carrying:
\* whatever was merged while a request was waiting, the ledger that lands with a
\* corpus names the corpus before it, and no copy is two behind. The one way round
\* is a default branch that has left that corpus and come back to it since the
\* request passed; then the ledger stays the one it has come back with. (check)
Returned(d) ==
  /\ clone[d].request = "passed" /\ clone[d].base.corpus = main.corpus
  /\ clone[d].base.ledger # main.ledger

AtMostOneBehind ==
  [][main'.corpus # main.corpus =>
       \/ \A id \in DOMAIN main'.ledger : main'.ledger[id] = main.corpus
       \/ main'.ledger = main.ledger /\ \E d \in Developers : Returned(d)]_vars

\* The default branch with another corpus and its manifest, and the default
\* branch with a ledger and a report that have followed it.
Extended(corpus) == [main EXCEPT !.corpus = corpus, !.field = corpus]
Followed ==
  [main EXCEPT !.ledger = [id \in DOMAIN main.ledger |-> main.corpus],
               !.says = Cardinality(main.corpus), !.cells = Cardinality(DOMAIN main.ledger)]

\* The gate asks for nothing that cannot be had before it passes: while the
\* default branch is green any change of the corpus may be pushed, and while it
\* is red the refresh that the gate asks for may. (check, published_corpus)
PublishingIsNeverBlocked ==
  IF CheckOk(main, main)
  THEN \A corpus \in Corpora : CheckOk(Extended(corpus), main)
  ELSE CheckOk(Followed, main)

============================================================================
