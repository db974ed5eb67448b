-------------------------- MODULE ForcingCampaign --------------------------
(***************************************************************************)
(* The forcing gate (scripts/forcing-gate.py): campaigns that mutate one   *)
(* site of the rail at a time, replay the corpus over each mutant, and     *)
(* check the outcome against a recorded baseline or, with --sync, rewrite  *)
(* it. Authors edit corpus, rail and annotations while a campaign runs.    *)
(* One campaign runs at a time, by the lock of scripts/_lockfile.py.       *)
(* Left out: --report, which only reads, and the killers of a KILLED row.  *)
(***************************************************************************)
EXTENDS FiniteSets, Naturals, Functions

CONSTANTS
  Gate,             \* the processes that run the gate
  Site,             \* mutation sites, by key
  Corpora, Rails,   \* the contents the corpus and the rail may have
  Truth,            \* Truth[t][s]: what a mutant of tree t at site s comes to
  SitesOf,          \* SitesOf[r]: the sites mutgen enumerates in rail r
  FirstTree,        \* the working tree at first
  FirstBaseline,    \* the baselines there may be at first
  Edits,            \* pairs of trees: the edits authors make
  Annotators,       \* the sites authors annotate, or whose annotation they drop
  Mode,             \* the command lines the gate is started with
  Workers           \* mutants in flight at once

Tree  == [corpus : Corpora, rail : Rails]
Class == {"KILLED", "SILENT", "DEAD", "INCONCLUSIVE"}

Content == [state : {"absent", "torn", "whole"},
            rows : UNION {[S -> Class] : S \in SUBSET Site}, annotated : SUBSET Site]

ASSUME TruthAssumption == Truth \in [Tree -> [Site -> Class \cup {"hangs"}]]
ASSUME SitesAssumption == SitesOf \in [Rails -> SUBSET Site]
ASSUME StartAssumption ==
  FirstTree \in Tree /\ FirstBaseline \subseteq {b \in Content : b.state # "torn"}
ASSUME AuthorsAssumption == Annotators \subseteq Site
ASSUME ModeAssumption == Mode # {}
ASSUME WorkersAssumption == Workers \in Nat \ {0}

VARIABLES
  tree,             \* the working tree: corpus and rail
  baseline,         \* docs/FORCING-BASELINE.json
  whole,            \* its last content that was not torn, as version control has it
  holder,           \* the gate that holds the lock
  gate              \* gate[g]: the campaign of one process

vars == <<tree, baseline, whole, holder, gate>>

----------------------------------------------------------------------------
Empty  == [state |-> "absent", rows |-> << >>, annotated |-> {}]
Torn   == [state |-> "torn", rows |-> << >>, annotated |-> {}]

\* The sites a baseline records as KILLED.
Forced(b) == {s \in DOMAIN b.rows : b.rows[s] = "KILLED"}

AnyMode == CHOOSE m \in Mode : TRUE

NoCampaign ==
  [ pc      |-> "idle",
    mode    |-> AnyMode,
    loaded  |-> Empty,                  \* the baseline as it was loaded
    built   |-> FirstTree.rail,         \* the rail the unmutated binary is of
    sites   |-> {},                     \* the sites enumerated
    before  |-> FirstTree.corpus,       \* the corpus fingerprinted first
    base    |-> {},                     \* corpora the unmutated scores are of
    copied  |-> FirstTree.rail,         \* the rail the worker trees are of
    todo    |-> {},
    flight  |-> << >>,                  \* the rail each running mutant is of
    results |-> << >>,
    read    |-> {} ]                    \* history: corpora any result is of

Init ==
  /\ tree = FirstTree
  /\ baseline \in FirstBaseline
  /\ whole = baseline
  /\ holder = {}
  /\ gate = [g \in Gate |-> NoCampaign]

Lock == INSTANCE SingleInstance WITH
  Process <- Gate, refused <- {g \in Gate : gate[g].pc = "busy"}

At(g, pc) == gate[g].pc = pc

\* The campaign of g goes on with some of its fields changed.
Becomes(g, c) == gate' = [gate EXCEPT ![g] = c]

Goto(g, pc) == Becomes(g, [gate[g] EXCEPT !.pc = pc])

Environment == <<tree, baseline, whole>>

\* Only the gate's own campaign changes.
Quiet == UNCHANGED <<Environment, holder>>

----------------------------------------------------------------------------
(* One campaign *)

Begin(g, m) ==
  At(g, "idle") /\ Becomes(g, [NoCampaign EXCEPT !.pc = "load", !.mode = m])

\* main: a campaign runs under the lock, or exits with status BUSY.
Enter(g, m) ==
  /\ Begin(g, m)
  /\ Lock!Take(g)
  /\ UNCHANGED Environment

EnterRefused(g) ==
  /\ At(g, "idle")
  /\ Goto(g, "busy")
  /\ Lock!Refuse(g)
  /\ UNCHANGED Environment

\* --sync may not rewrite rows it did not measure.
Refusable(m) == m.sync /\ (m.scope # "all" \/ m.only # {})

\* The campaign starts from a baseline it could read.
Loaded(g, b) ==
  IF Refusable(gate[g].mode) THEN Goto(g, "failed")
  ELSE Becomes(g, [gate[g] EXCEPT !.pc = "build", !.loaded = b])

\* load_baseline: a baseline that is absent is empty for --sync alone, and one
\* that does not parse ends the run.
Load(g) ==
  /\ At(g, "load")
  /\ IF \/ baseline.state = "whole"
        \/ baseline.state = "absent" /\ gate[g].mode.sync
     THEN Loaded(g, baseline)
     ELSE Goto(g, "failed")
  /\ Quiet

Build(g) ==
  /\ At(g, "build")
  /\ Becomes(g, [gate[g] EXCEPT !.pc = "enumerate", !.built = tree.rail])
  /\ Quiet

Enumerate(g) ==
  /\ At(g, "enumerate")
  /\ IF SitesOf[tree.rail] = {} THEN Goto(g, "failed")
     ELSE Becomes(g, [gate[g] EXCEPT !.pc = "fingerprint", !.sites = SitesOf[tree.rail]])
  /\ Quiet

Fingerprint(g) ==
  /\ At(g, "fingerprint")
  /\ Becomes(g, [gate[g] EXCEPT !.pc = "replay", !.before = tree.corpus])
  /\ Quiet

\* The unmutated rail's observations.
Replay(g) ==
  /\ At(g, "replay")
  /\ Becomes(g, [gate[g] EXCEPT !.pc = "select",
                                !.base = {tree.corpus}, !.read = {tree.corpus}])
  /\ Quiet

\* select_sites: all the sites, or those recorded as KILLED, that --only names.
Chosen(c) ==
  {s \in c.sites : /\ c.mode.scope = "all" \/ s \in Forced(c.loaded)
                   /\ c.mode.only = {} \/ s \in c.mode.only}

\* measure: the manifest and the self-checks are read, the sites selected, the
\* worker trees copied. The ground-truth gate may find that the corpus has
\* moved; see Die.
Select(g) ==
  /\ At(g, "select")
  /\ LET c == gate[g] IN
     IF Chosen(c) = {} \/ ~(c.mode.only \subseteq c.sites) THEN Goto(g, "failed")
     ELSE Becomes(g, [c EXCEPT !.pc = "run", !.todo = Chosen(c),
                               !.copied = tree.rail,
                               !.base = @ \cup {tree.corpus},
                               !.read = @ \cup {tree.corpus}])
  /\ Quiet

\* run_mutant: a free worker takes the file of a site, as it is by now, and
\* mutates it there.
Mutate(g, s) ==
  /\ At(g, "run") /\ s \in gate[g].todo
  /\ Cardinality(DOMAIN gate[g].flight) < Workers
  /\ Becomes(g, [gate[g] EXCEPT !.todo = @ \ {s},
       !.flight = [x \in DOMAIN @ \cup {s} |-> IF x = s THEN tree.rail ELSE @[x]]])
  /\ Quiet

\* classify: what the mutant answers against the unmutated scores. Taken over
\* one corpus and one rail that is the truth; otherwise it may be anything.
Answers(c, s) ==
  LET base == [corpus |-> tree.corpus, rail |-> c.built] IN
  IF c.base = {tree.corpus} /\ {c.copied, c.flight[s]} = {c.built} THEN {Truth[base][s]} \cap Class
  ELSE Class

Record(g, s, class, corpora) ==
  Becomes(g, [gate[g] EXCEPT
    !.flight  = Restrict(@, DOMAIN @ \ {s}),
    !.results = [x \in DOMAIN @ \cup {s} |-> IF x = s THEN class ELSE @[x]],
    !.read    = @ \cup corpora])

Answer(g, s) ==
  /\ At(g, "run") /\ s \in DOMAIN gate[g].flight
  /\ \E class \in Answers(gate[g], s) : Record(g, s, class, {tree.corpus})
  /\ Quiet

\* MUTANT of TimeOut: the replay is given no timeout.
TimeOutNever(g, s) ==
  /\ At(g, "run") /\ s \in DOMAIN gate[g].flight
  /\ UNCHANGED vars

\* MUTANT of TimeOut: a mutant that does not answer counts as killed.
TimeOutKills(g, s) ==
  /\ At(g, "run") /\ s \in DOMAIN gate[g].flight
  /\ Record(g, s, "KILLED", {})
  /\ Quiet

\* A mutant that hangs, or only replays slower than the timeout allows, is
\* stopped and INCONCLUSIVE; so is one that fails to be made, to build or to run.
TimeOut(g, s) ==
  /\ At(g, "run") /\ s \in DOMAIN gate[g].flight
  /\ Record(g, s, "INCONCLUSIVE", {})
  /\ Quiet

\* MUTANT of FingerprintAgain: the second fingerprint is not compared.
FingerprintIgnored(g) ==
  /\ At(g, "run") /\ gate[g].todo = {} /\ gate[g].flight = << >>
  /\ Goto(g, "judge")
  /\ Quiet

\* refuse_moved_corpus.
FingerprintAgain(g) ==
  /\ At(g, "run") /\ gate[g].todo = {} /\ gate[g].flight = << >>
  /\ Goto(g, IF tree.corpus = gate[g].before THEN "judge" ELSE "failed")
  /\ Quiet

----------------------------------------------------------------------------
(* The verdict *)

Structural(c) == DOMAIN c.loaded.rows # c.sites \/ ~(c.loaded.annotated \subseteq c.sites)

\* MUTANT of Regressed: a rule that was not measured conclusively is let pass.
RegressedConclusive(c) ==
  {s \in Forced(c.loaded) \cap DOMAIN c.results : c.results[s] \in {"SILENT", "DEAD"}}

Regressed(c) ==
  {s \in Forced(c.loaded) \cap DOMAIN c.results : c.results[s] # "KILLED"}

\* ratchet_errors goes by the recorded rows: a site that has none is skipped.
Falsified(c) ==
  {s \in c.loaded.annotated \cap DOMAIN c.loaded.rows \cap DOMAIN c.results :
     c.results[s] = "KILLED"}

Drifted(c) ==
  {s \in DOMAIN c.loaded.rows \cap DOMAIN c.results :
     c.loaded.rows[s] # c.results[s]}

\* A check passes when nothing at all differs.
Check(g) ==
  LET c == gate[g] IN
  /\ At(g, "judge") /\ ~c.mode.sync
  /\ Goto(g, IF Structural(c) \/ Regressed(c) \cup Falsified(c) \cup Drifted(c) # {}
             THEN "failed" ELSE "ok")
  /\ Quiet

\* --sync: refuse_unrecordable, else the file is opened for writing.
Truncate(g) ==
  LET c == gate[g] IN
  /\ At(g, "judge") /\ c.mode.sync
  /\ IF Falsified(c) # {} \/ ~(Regressed(c) \subseteq c.mode.accept)
     THEN Goto(g, "failed") /\ UNCHANGED baseline
     ELSE Goto(g, "write") /\ baseline' = Torn
  /\ UNCHANGED <<tree, whole, holder>>

\* build_baseline: the rows as measured, the annotations as they were loaded.
NewBaseline(c) ==
  [state |-> "whole", rows |-> c.results, annotated |-> c.loaded.annotated]

Write(g) ==
  /\ At(g, "write")
  /\ baseline' = NewBaseline(gate[g])
  /\ whole' = baseline'
  /\ Goto(g, "wrote")
  /\ UNCHANGED <<tree, holder>>

Working == {"load", "build", "enumerate", "fingerprint", "replay", "select", "run"}
Ended   == {"ok", "failed", "wrote", "busy"}

\* A tool fails, or the ground-truth gate finds that the in-process replay and
\* the real one differ.
Die(g) ==
  /\ gate[g].pc \in Working
  /\ Goto(g, "failed")
  /\ Quiet

Leave(g) ==
  /\ gate[g].pc \in Ended
  /\ Becomes(g, NoCampaign)
  /\ Lock!Leave(g)
  /\ UNCHANGED Environment

Crash(g) ==
  /\ gate[g].pc \notin Ended \cup {"idle"}
  /\ Becomes(g, NoCampaign)
  /\ Lock!Leave(g)
  /\ UNCHANGED Environment

----------------------------------------------------------------------------
(* Authors *)

Edit(t) ==
  /\ <<tree, t>> \in Edits
  /\ tree' = t
  /\ UNCHANGED <<baseline, whole, holder, gate>>

\* An annotation is added, or dropped if it is there.
Annotate(s) ==
  /\ baseline.state = "whole"
  /\ baseline' = [baseline EXCEPT !.annotated = IF s \in @ THEN @ \ {s} ELSE @ \cup {s}]
  /\ whole' = baseline'
  /\ UNCHANGED <<tree, holder, gate>>

\* A torn baseline is taken back from version control.
Restore ==
  /\ baseline.state = "torn" /\ \A g \in Gate : ~At(g, "write")
  /\ baseline' = whole
  /\ UNCHANGED <<tree, whole, holder, gate>>

----------------------------------------------------------------------------
Step(g) ==
  \/ Load(g) \/ Build(g) \/ Enumerate(g) \/ Fingerprint(g) \/ Replay(g) \/ Select(g)
  \/ \E s \in Site : Mutate(g, s) \/ Answer(g, s) \/ TimeOut(g, s)
  \/ FingerprintAgain(g) \/ Check(g) \/ Truncate(g) \/ Write(g) \/ Leave(g)

Next ==
  \/ \E g \in Gate :
       \/ \E m \in Mode : Enter(g, m)
       \/ EnterRefused(g) \/ Step(g) \/ Die(g) \/ Crash(g)
  \/ \E t \in Tree : Edit(t)
  \/ \E s \in Annotators : Annotate(s)
  \/ Restore

\* Every tool a campaign runs has a timeout, so that each of its steps is taken.
Spec == Init /\ [][Next]_vars /\ \A g \in Gate : WF_vars(Step(g))

----------------------------------------------------------------------------
(* Properties *)

Campaign ==
  [ pc : Working \cup Ended \cup {"idle", "judge", "write"}, mode : Mode,
    loaded : Content, built : Rails, sites : SUBSET Site, before : Corpora,
    base : SUBSET Corpora, copied : Rails, todo : SUBSET Site,
    flight : UNION {[S -> Rails] : S \in SUBSET Site},
    results : UNION {[S -> Class] : S \in SUBSET Site}, read : SUBSET Corpora ]

\* The state is well typed, and the campaign under way is the lock holder's.
TypeOK ==
  /\ tree \in Tree
  /\ baseline \in Content /\ whole \in Content /\ whole.state # "torn"
  /\ gate \in [Gate -> Campaign]
  /\ holder = {g \in Gate : gate[g].pc \notin {"idle", "busy"}}

\* The ratchet: a rule leaves the forced rows of the record only in a --sync
\* that was told to accept its loss, or whose rail no longer has it, whatever
\* other gates, crashes, timeouts and edits come between.
NoSilentLoss ==
  [][\A s \in Forced(whole) \ Forced(whole') :
       \E g \in Gate : Write(g) /\ (s \in gate[g].mode.accept \/ s \notin gate[g].sites)]_vars

\* The edits under which a campaign can be held to one corpus: the rail stays,
\* and a corpus that changed does not change back.
EditsGoForward ==
  /\ \A e \in Edits : e[1].rail = e[2].rail
  /\ \E older \in SUBSET (Corpora \X Corpora) :
       /\ \A x, y, z \in Corpora :
            <<x, y>> \in older /\ <<y, z>> \in older => <<x, z>> \in older
       /\ \A x, y \in Corpora : ~(<<x, y>> \in older /\ <<y, x>> \in older)
       /\ \A e \in Edits : e[1].corpus = e[2].corpus \/ <<e[1].corpus, e[2].corpus>> \in older

\* A check of every recorded rule that says OK is right: a mutant of each rule
\* it records as forced is killed by the corpus that was fingerprinted. Such a
\* campaign, as one that wrote, was "held to one corpus" (the comment in run),
\* where a corpus that changed does not change back.
OkMeansForced ==
  \A g \in Gate :
    /\ gate[g].pc \in {"ok", "wrote"} => gate[g].read = {gate[g].before}
    /\ At(g, "ok") /\ gate[g].mode.only = {} =>
         \A s \in Forced(gate[g].loaded) :
           Truth[[corpus |-> gate[g].before, rail |-> gate[g].built]][s] = "KILLED"

\* What a sync records as forced is forced.
RecordIsTrue ==
  \A g \in Gate :
    At(g, "wrote") =>
      \A s \in Forced(NewBaseline(gate[g])) :
        Truth[[corpus |-> gate[g].before, rail |-> gate[g].built]][s] = "KILLED"

\* A campaign that has the lock gives it back, whatever its mutants do.
CampaignEnds == \A g \in Gate : (g \in holder) ~> (g \notin holder)

=============================================================================
