---------------------------- MODULE Gates_proofs ----------------------------
(***************************************************************************)
(* What the gates of the repository keep. The ratchet of the forcing gate,   *)
(* for any gates, sites, edits, baselines and command lines: the campaign   *)
(* that rewrites the baseline still knows its rows, because they change     *)
(* only under the lock it holds, and it has measured every site it knows    *)
(* of, because --sync measures them all. The lock file the gates take that  *)
(* lock with. And the spec pins, for any revisions, citations, commits and  *)
(* crashes: no ledger is written over a citation that walked off its text,  *)
(* and a revision that only adds lines moves no citation off its lines.     *)
(***************************************************************************)
EXTENDS ForcingCampaign, LockFile, SpecPins,
        FiniteSetTheorems, SequenceTheorems, NaturalsInduction, WellFoundedInduction, TLAPS

Measuring == (Working \ {"load"}) \cup {"judge", "write"}

\* What a campaign has kept of the record, and how far it has measured.
CampaignInv(c) ==
  /\ c.pc \in Measuring => c.loaded.rows = whole.rows /\ ~Refusable(c.mode)
  /\ c.pc \in Working \ {"run"} =>
       c.todo = {} /\ DOMAIN c.flight = {} /\ DOMAIN c.results = {}
  /\ c.pc = "run" => c.todo \cup DOMAIN c.flight \cup DOMAIN c.results = Chosen(c)
  /\ c.pc \in {"judge", "write"} => DOMAIN c.results = Chosen(c)
  /\ c.pc = "write" => c.mode.sync /\ Regressed(c) \subseteq c.mode.accept

OneHolder == \A g, h \in holder : g = h

BaselineIsWhole == baseline.state # "torn" => baseline = whole

IInv ==
  /\ TypeOK /\ OneHolder /\ BaselineIsWhole
  /\ \A g \in Gate : CampaignInv(gate[g])

----------------------------------------------------------------------------
LEMMA EmptyTyped == Empty \in Content /\ Torn \in Content
<1>1. << >> \in [{} -> Class] /\ {} \in SUBSET Site
  OBVIOUS
<1> QED
  BY <1>1 DEF Empty, Torn, Content

LEMMA NoCampaignTyped == NoCampaign \in Campaign /\ CampaignInv(NoCampaign)
<1>1. << >> \in [{} -> Class] /\ << >> \in [{} -> Rails] /\ {} \in SUBSET Site
  OBVIOUS
<1>2. AnyMode \in Mode
  BY ModeAssumption DEF AnyMode
<1>3. FirstTree.rail \in Rails /\ FirstTree.corpus \in Corpora
  BY StartAssumption DEF Tree
<1>4. NoCampaign \in Campaign
  BY <1>1, <1>2, <1>3, EmptyTyped DEF NoCampaign, Campaign
<1>5. CampaignInv(NoCampaign)
  BY DEF CampaignInv, NoCampaign, Measuring, Working
<1> QED
  BY <1>4, <1>5

LEMMA InitIInv == Init => IInv
<1> SUFFICES ASSUME Init PROVE IInv
  OBVIOUS
<1>1. tree \in Tree /\ baseline \in Content /\ baseline.state # "torn" /\ whole = baseline
  BY StartAssumption DEF Init
<1>2. \A g \in Gate : gate[g] = NoCampaign
  BY DEF Init
<1>3. gate \in [Gate -> Campaign]
  BY NoCampaignTyped DEF Init
<1>4. holder = {g \in Gate : gate[g].pc \notin {"idle", "busy"}}
  BY <1>2 DEF Init, NoCampaign
<1> QED
  BY <1>1, <1>2, <1>3, <1>4, NoCampaignTyped
  DEF Init, IInv, TypeOK, OneHolder, BaselineIsWhole

----------------------------------------------------------------------------
(* Steps *)

Insiders == {g \in Gate : gate[g].pc \notin {"idle", "busy"}}

\* A step by which only the campaign of g goes on.
LEMMA CampaignKeeps ==
  ASSUME IInv, NEW g \in Gate, NEW c \in Campaign, Becomes(g, c), UNCHANGED Environment,
         CampaignInv(c), (holder = Insiders)', OneHolder'
  PROVE  IInv'
<1>1. gate' \in [Gate -> Campaign] /\ gate'[g] = c
  BY DEF IInv, TypeOK, Becomes
<1>2. \A h \in Gate : h # g => gate'[h] = gate[h]
  BY DEF IInv, TypeOK, Becomes
<1>3. \A h \in Gate : CampaignInv(gate'[h]) /\ whole' = whole
  BY <1>1, <1>2 DEF IInv, Environment
<1>4. \A h \in Gate : CampaignInv(gate[h])'
  BY <1>3 DEF CampaignInv
<1> QED
  BY <1>1, <1>4 DEF IInv, TypeOK, BaselineIsWhole, Environment, Insiders

\* One that does not cross the lock.
LEMMA QuietKeeps ==
  ASSUME IInv, NEW g \in Gate, NEW c \in Campaign, Becomes(g, c), Quiet,
         c.pc \in {"idle", "busy"} <=> gate[g].pc \in {"idle", "busy"},
         CampaignInv(c)
  PROVE  IInv'
<1>1. gate'[g] = c /\ \A h \in Gate : h # g => gate'[h] = gate[h]
  BY DEF IInv, TypeOK, Becomes
<1>2. (holder = Insiders)' /\ OneHolder'
  BY <1>1 DEF IInv, TypeOK, Quiet, Insiders, OneHolder
<1> QED
  BY <1>2, CampaignKeeps DEF Quiet

\* The first steps of a campaign, before any site is selected.
LEMMA PrepareKeeps ==
  ASSUME IInv, NEW g \in Gate,
         Load(g) \/ Build(g) \/ Enumerate(g) \/ Fingerprint(g) \/ Replay(g)
  PROVE  IInv'
<1> DEFINE c == gate[g]
<1> USE DEF CampaignInv, Measuring, Working
<1>1. c \in Campaign /\ CampaignInv(c) /\ tree.rail \in Rails /\ tree.corpus \in Corpora
  BY DEF IInv, TypeOK, Tree
<1>2. baseline \in Content /\ (baseline.state # "torn" => baseline.rows = whole.rows)
  BY DEF IInv, TypeOK, BaselineIsWhole
<1>3. ASSUME At(g, "load") \/ At(g, "enumerate"), Goto(g, "failed"), Quiet PROVE IInv'
  <2> DEFINE d == [c EXCEPT !.pc = "failed"]
  <2>1. d \in Campaign /\ CampaignInv(d) /\ d.pc = "failed" /\ Becomes(g, d)
    BY <1>1, <1>3 DEF Campaign, Ended, Goto
  <2>2. c.pc \notin {"idle", "busy"} /\ d.pc \notin {"idle", "busy"}
    BY <2>1, <1>3 DEF At
  <2> HIDE DEF d
  <2> QED
    BY <1>3, <2>1, <2>2, QuietKeeps
<1>4. CASE Load(g) /\ ~Goto(g, "failed")
  <2> DEFINE d == [c EXCEPT !.pc = "build", !.loaded = baseline]
  <2>1. At(g, "load") /\ Becomes(g, d) /\ Quiet /\ baseline.state # "torn" /\ ~Refusable(c.mode)
    BY <1>4 DEF Load, Loaded
  <2>2. d \in Campaign
    BY <1>1, <1>2 DEF Campaign
  <2>3. d.pc = "build" /\ d.mode = c.mode /\ d.loaded = baseline /\ d.todo = c.todo
        /\ d.flight = c.flight /\ d.results = c.results
    BY <1>1 DEF Campaign
  <2>4. CampaignInv(d)
    BY <1>1, <1>2, <2>1, <2>3 DEF At
  <2>5. c.pc \notin {"idle", "busy"}
    BY <2>1 DEF At
  <2> HIDE DEF d
  <2> QED
    BY <2>1, <2>2, <2>3, <2>4, <2>5, QuietKeeps
<1>5. ASSUME NEW d \in Campaign, Becomes(g, d), Quiet, c.pc \in Working \ {"load", "run"},
             d.pc \in Working \ {"load", "run"}, d.mode = c.mode, d.loaded = c.loaded,
             d.todo = c.todo, d.flight = c.flight, d.results = c.results
      PROVE  IInv'
  <2>1. CampaignInv(d)
    BY <1>1, <1>5
  <2>2. c.pc \notin {"idle", "busy"} /\ d.pc \notin {"idle", "busy"}
    BY <1>5
  <2> QED
    BY <1>5, <2>1, <2>2, QuietKeeps
<1>6. CASE Build(g)
  <2> DEFINE d == [c EXCEPT !.pc = "enumerate", !.built = tree.rail]
  <2>1. d \in Campaign /\ Becomes(g, d) /\ Quiet
    BY <1>1, <1>6 DEF Campaign, Build
  <2>2. c.pc = "build" /\ d.pc = "enumerate" /\ d.mode = c.mode /\ d.loaded = c.loaded
        /\ d.todo = c.todo /\ d.flight = c.flight /\ d.results = c.results
    BY <1>1, <1>6 DEF Campaign, Build, At
  <2> HIDE DEF d
  <2> QED
    BY <2>1, <2>2, <1>5
<1>7. CASE Enumerate(g) /\ ~Goto(g, "failed")
  <2> DEFINE d == [c EXCEPT !.pc = "fingerprint", !.sites = SitesOf[tree.rail]]
  <2>1. d \in Campaign /\ Becomes(g, d) /\ Quiet
    BY <1>1, <1>7, SitesAssumption DEF Campaign, Enumerate
  <2>2. c.pc = "enumerate" /\ d.pc = "fingerprint" /\ d.mode = c.mode /\ d.loaded = c.loaded
        /\ d.todo = c.todo /\ d.flight = c.flight /\ d.results = c.results
    BY <1>1, <1>7 DEF Campaign, Enumerate, At
  <2> HIDE DEF d
  <2> QED
    BY <2>1, <2>2, <1>5
<1>8. CASE Fingerprint(g)
  <2> DEFINE d == [c EXCEPT !.pc = "replay", !.before = tree.corpus]
  <2>1. d \in Campaign /\ Becomes(g, d) /\ Quiet
    BY <1>1, <1>8 DEF Campaign, Fingerprint
  <2>2. c.pc = "fingerprint" /\ d.pc = "replay" /\ d.mode = c.mode /\ d.loaded = c.loaded
        /\ d.todo = c.todo /\ d.flight = c.flight /\ d.results = c.results
    BY <1>1, <1>8 DEF Campaign, Fingerprint, At
  <2> HIDE DEF d
  <2> QED
    BY <2>1, <2>2, <1>5
<1>9. CASE Replay(g)
  <2> DEFINE d == [c EXCEPT !.pc = "select", !.base = {tree.corpus}, !.read = {tree.corpus}]
  <2>1. d \in Campaign /\ Becomes(g, d) /\ Quiet
    BY <1>1, <1>9 DEF Campaign, Replay
  <2>2. c.pc = "replay" /\ d.pc = "select" /\ d.mode = c.mode /\ d.loaded = c.loaded
        /\ d.todo = c.todo /\ d.flight = c.flight /\ d.results = c.results
    BY <1>1, <1>9 DEF Campaign, Replay, At
  <2> HIDE DEF d
  <2> QED
    BY <2>1, <2>2, <1>5
<1> QED
  BY <1>3, <1>4, <1>6, <1>7, <1>8, <1>9 DEF Load, Enumerate

\* A campaign that has nothing to measure, or whose tool fails, is over.
LEMMA FailureKeeps ==
  ASSUME IInv, NEW g \in Gate, NEW pc \in Ended \ {"busy"}, Goto(g, pc), Quiet,
         gate[g].pc \notin {"idle", "busy"}
  PROVE  IInv'
<1> DEFINE d == [gate[g] EXCEPT !.pc = pc]
<1>1. gate[g] \in Campaign
  BY DEF IInv, TypeOK
<1>2. d \in Campaign /\ d.pc = pc /\ Becomes(g, d)
  BY <1>1 DEF Campaign, Goto
<1>3. CampaignInv(d) /\ d.pc \notin {"idle", "busy"}
  BY <1>2 DEF CampaignInv, Measuring, Working, Ended
<1> HIDE DEF d
<1> QED
  BY <1>2, <1>3, QuietKeeps

LEMMA SelectKeeps ==
  ASSUME IInv, NEW g \in Gate, Select(g)
  PROVE  IInv'
<1> DEFINE c == gate[g]
           d == [c EXCEPT !.pc = "run", !.todo = Chosen(c), !.copied = tree.rail,
                          !.base = @ \cup {tree.corpus}, !.read = @ \cup {tree.corpus}]
<1>1. c \in Campaign /\ CampaignInv(c) /\ tree.rail \in Rails /\ tree.corpus \in Corpora
  BY DEF IInv, TypeOK, Tree
<1>2. c.pc = "select" /\ Quiet /\ (Goto(g, "failed") \/ Becomes(g, d))
  BY DEF Select, At
<1>3. CASE Goto(g, "failed")
  BY <1>2, <1>3, FailureKeeps DEF Ended
<1>4. CASE Becomes(g, d)
  <2>1. /\ Chosen(c) \in SUBSET Site
        /\ c.base \cup {tree.corpus} \in SUBSET Corpora
        /\ c.read \cup {tree.corpus} \in SUBSET Corpora
        /\ "run" \in Working
    BY <1>1 DEF Chosen, Campaign, Working
  <2>2. d \in Campaign
    BY <1>1, <2>1 DEF Campaign
  <2>3. d.pc = "run" /\ d.mode = c.mode /\ d.loaded = c.loaded /\ d.todo = Chosen(c)
        /\ d.flight = c.flight /\ d.results = c.results /\ d.sites = c.sites
    BY <1>1 DEF Campaign
  <2>4. Chosen(d) = Chosen(c)
    BY <2>3 DEF Chosen
  <2>5. CampaignInv(d)
    BY <1>1, <1>2, <2>3, <2>4 DEF CampaignInv, Measuring, Working
  <2> HIDE DEF d
  <2> QED
    BY <1>2, <1>4, <2>2, <2>3, <2>5, QuietKeeps
<1> QED
  BY <1>2, <1>3, <1>4

\* Measuring: what is to do, in flight or measured stays the selection.
LEMMA MeasureKeeps ==
  ASSUME IInv, NEW g \in Gate, NEW s \in Site, Mutate(g, s) \/ Answer(g, s) \/ TimeOut(g, s)
  PROVE  IInv'
<1> DEFINE c == gate[g]
<1>1. c \in Campaign /\ CampaignInv(c) /\ tree.rail \in Rails /\ tree.corpus \in Corpora
  BY DEF IInv, TypeOK, Tree
<1>2. c.pc = "run" /\ Quiet
  BY DEF Mutate, Answer, TimeOut, At
<1>3. ASSUME NEW d \in Campaign, Becomes(g, d), d.pc = c.pc, d.mode = c.mode,
             d.loaded = c.loaded, d.sites = c.sites,
             d.todo \cup DOMAIN d.flight \cup DOMAIN d.results
               = c.todo \cup DOMAIN c.flight \cup DOMAIN c.results
      PROVE  IInv'
  <2>1. Chosen(d) = Chosen(c)
    BY <1>3 DEF Chosen
  <2>2. CampaignInv(d)
    BY <1>1, <1>2, <1>3, <2>1 DEF CampaignInv, Measuring, Working
  <2> QED
    BY <1>2, <1>3, <2>2, QuietKeeps
<1>4. CASE Mutate(g, s)
  <2> DEFINE F == [x \in DOMAIN c.flight \cup {s} |->
                     IF x = s THEN tree.rail ELSE c.flight[x]]
             d == [c EXCEPT !.todo = @ \ {s}, !.flight = F]
  <2>1. s \in c.todo /\ Becomes(g, d)
    BY <1>4 DEF Mutate
  <2>2. PICK S \in SUBSET Site : c.flight \in [S -> Rails]
    BY <1>1 DEF Campaign
  <2>3. F \in [S \cup {s} -> Rails] /\ S \cup {s} \in SUBSET Site /\ DOMAIN F = S \cup {s}
    BY <1>1, <2>2
  <2> HIDE DEF F
  <2>4. d \in Campaign
    BY <1>1, <2>3 DEF Campaign
  <2>5. d.pc = c.pc /\ d.mode = c.mode /\ d.loaded = c.loaded /\ d.sites = c.sites
        /\ d.todo = c.todo \ {s} /\ d.flight = F /\ d.results = c.results
    BY <1>1 DEF Campaign
  <2>6. DOMAIN c.flight = S
    BY <2>2
  <2> HIDE DEF d
  <2> QED
    BY <2>1, <2>3, <2>4, <2>5, <2>6, <1>3
<1>5. ASSUME NEW class \in Class, NEW corpora \in SUBSET Corpora, s \in DOMAIN c.flight,
             Record(g, s, class, corpora)
      PROVE  IInv'
  <2> DEFINE F == Restrict(c.flight, DOMAIN c.flight \ {s})
             R == [x \in DOMAIN c.results \cup {s} |-> IF x = s THEN class ELSE c.results[x]]
             d == [c EXCEPT !.flight = F, !.results = R, !.read = @ \cup corpora]
  <2>1. Becomes(g, d)
    BY <1>5 DEF Record
  <2>2. PICK S \in SUBSET Site : c.flight \in [S -> Rails]
    BY <1>1 DEF Campaign
  <2>3. PICK D \in SUBSET Site : c.results \in [D -> Class]
    BY <1>1 DEF Campaign
  <2>4. F \in [S \ {s} -> Rails] /\ DOMAIN F = S \ {s} /\ S \ {s} \in SUBSET Site
    BY <2>2 DEF Restrict
  <2>5. R \in [D \cup {s} -> Class] /\ DOMAIN R = D \cup {s} /\ D \cup {s} \in SUBSET Site
    BY <2>3
  <2>6. DOMAIN c.flight = S /\ DOMAIN c.results = D /\ s \in S
    BY <2>2, <2>3, <1>5
  <2> HIDE DEF F, R
  <2>7. d \in Campaign
    <3>1. F \in UNION {[T -> Rails] : T \in SUBSET Site}
      BY <2>4
    <3>2. R \in UNION {[T -> Class] : T \in SUBSET Site}
      BY <2>5
    <3>3. c.read \cup corpora \in SUBSET Corpora
      BY <1>1 DEF Campaign
    <3> QED
      BY <1>1, <3>1, <3>2, <3>3 DEF Campaign
  <2>8. d.pc = c.pc /\ d.mode = c.mode /\ d.loaded = c.loaded /\ d.sites = c.sites
        /\ d.todo = c.todo /\ d.flight = F /\ d.results = R
    BY <1>1 DEF Campaign
  <2> HIDE DEF d
  <2>9. DOMAIN d.flight \cup DOMAIN d.results = DOMAIN c.flight \cup DOMAIN c.results
    BY <2>4, <2>5, <2>6, <2>8
  <2> QED
    BY <2>1, <2>7, <2>8, <2>9, <1>3
<1>6. CASE Answer(g, s)
  <2>1. Answers(c, s) \subseteq Class
    BY DEF Answers
  <2> QED
    BY <1>1, <1>5, <1>6, <2>1 DEF Answer
<1>7. CASE TimeOut(g, s)
  BY <1>5, <1>7 DEF TimeOut, Class
<1> QED
  BY <1>4, <1>6, <1>7

\* When nothing is left to do or in flight, the selection has been measured.
LEMMA FingerprintAgainKeeps ==
  ASSUME IInv, NEW g \in Gate, FingerprintAgain(g)
  PROVE  IInv'
<1> DEFINE c == gate[g]
           d == [c EXCEPT !.pc = "judge"]
<1>1. c \in Campaign /\ CampaignInv(c)
  BY DEF IInv, TypeOK
<1>2. c.pc = "run" /\ c.todo = {} /\ c.flight = << >> /\ Quiet
  BY DEF FingerprintAgain, At
<1>3. CASE Goto(g, "failed")
  BY <1>2, <1>3, FailureKeeps DEF Ended
<1>4. CASE Goto(g, "judge")
  <2>1. d \in Campaign /\ Becomes(g, d)
    BY <1>1, <1>4 DEF Campaign, Goto
  <2>2. d.pc = "judge" /\ d.mode = c.mode /\ d.loaded = c.loaded /\ d.sites = c.sites
        /\ d.results = c.results
    BY <1>1 DEF Campaign
  <2>3. DOMAIN c.flight = {}
    BY <1>2
  <2>4. DOMAIN c.results = Chosen(c)
    BY <1>1, <1>2, <2>3 DEF CampaignInv
  <2>5. Chosen(d) = Chosen(c)
    BY <2>2 DEF Chosen
  <2>6. CampaignInv(d)
    BY <1>1, <1>2, <2>2, <2>4, <2>5 DEF CampaignInv, Measuring, Working
  <2> HIDE DEF d
  <2> QED
    BY <1>2, <2>1, <2>2, <2>6, QuietKeeps
<1> QED
  BY <1>3, <1>4 DEF FingerprintAgain

----------------------------------------------------------------------------
(* The verdict *)

LEMMA CheckKeeps ==
  ASSUME IInv, NEW g \in Gate, Check(g)
  PROVE  IInv'
<1>1. PICK pc \in {"failed", "ok"} : Goto(g, pc)
  BY DEF Check
<1> QED
  BY <1>1, FailureKeeps DEF Check, At, Ended

LEMMA TruncateKeeps ==
  ASSUME IInv, NEW g \in Gate, Truncate(g)
  PROVE  IInv'
<1> DEFINE c == gate[g]
           d == [c EXCEPT !.pc = "write"]
<1>1. c \in Campaign /\ CampaignInv(c)
  BY DEF IInv, TypeOK
<1>2. c.pc = "judge" /\ c.mode.sync /\ UNCHANGED <<tree, whole, holder>>
  BY DEF Truncate, At
<1>3. CASE Goto(g, "failed") /\ UNCHANGED baseline
  BY <1>2, <1>3, FailureKeeps DEF Ended, Quiet, Environment
<1>4. CASE /\ Goto(g, "write") /\ baseline' = Torn
           /\ Regressed(c) \subseteq c.mode.accept
  <2>1. d \in Campaign /\ Becomes(g, d)
    BY <1>1, <1>4 DEF Campaign, Goto
  <2>2. d.pc = "write" /\ d.mode = c.mode /\ d.loaded = c.loaded /\ d.sites = c.sites
        /\ d.results = c.results
    BY <1>1 DEF Campaign
  <2>3. Chosen(d) = Chosen(c) /\ Regressed(d) = Regressed(c)
    BY <2>2 DEF Chosen, Regressed
  <2>4. CampaignInv(d)
    BY <1>1, <1>2, <1>4, <2>2, <2>3 DEF CampaignInv, Measuring, Working
  <2> HIDE DEF d
  <2>5. gate' \in [Gate -> Campaign] /\ gate'[g] = d
    BY <2>1 DEF IInv, TypeOK, Becomes
  <2>6. \A h \in Gate : h # g => gate'[h] = gate[h]
    BY <2>1 DEF IInv, TypeOK, Becomes
  <2>7. \A h \in Gate : CampaignInv(gate'[h])
    BY <2>4, <2>5, <2>6 DEF IInv
  <2>8. \A h \in Gate : CampaignInv(gate[h])'
    BY <1>2, <2>7 DEF CampaignInv
  <2>9. holder' = {h \in Gate : gate'[h].pc \notin {"idle", "busy"}}
    BY <1>2, <2>2, <2>5, <2>6 DEF IInv, TypeOK
  <2> QED
    BY <1>2, <1>4, <2>5, <2>8, <2>9, EmptyTyped
    DEF IInv, TypeOK, OneHolder, BaselineIsWhole, Torn
<1> QED
  BY <1>3, <1>4 DEF Truncate

\* The rewrite changes what others loaded; the lock has kept the others out.
LEMMA WriteKeeps ==
  ASSUME IInv, NEW g \in Gate, Write(g)
  PROVE  IInv'
<1> DEFINE c == gate[g]
           d == [c EXCEPT !.pc = "wrote"]
<1>1. c \in Campaign /\ c.pc = "write" /\ UNCHANGED <<tree, holder>>
  BY DEF IInv, TypeOK, Write, At
<1>2. d \in Campaign /\ d.pc = "wrote" /\ Becomes(g, d)
  BY <1>1 DEF Campaign, Ended, Write, Goto
<1> HIDE DEF d
<1>3. gate' \in [Gate -> Campaign] /\ gate'[g] = d
  BY <1>2 DEF IInv, TypeOK, Becomes
<1>4. \A h \in Gate : h # g => gate'[h] = gate[h] /\ gate[h].pc \in {"idle", "busy"}
  BY <1>1, <1>2 DEF IInv, TypeOK, OneHolder, Becomes
<1>5. \A h \in Gate : CampaignInv(gate[h])'
  <2> SUFFICES ASSUME NEW h \in Gate PROVE CampaignInv(gate[h])'
    OBVIOUS
  <2>1. gate'[h].pc \in {"wrote", "idle", "busy"}
    BY <1>2, <1>3, <1>4
  <2> QED
    BY <2>1 DEF CampaignInv, Measuring, Working
<1>6. holder' = {h \in Gate : gate'[h].pc \notin {"idle", "busy"}}
  BY <1>1, <1>2, <1>3, <1>4 DEF IInv, TypeOK
<1>7. NewBaseline(c) \in Content /\ NewBaseline(c).state = "whole"
  BY <1>1 DEF NewBaseline, Content, Campaign
<1>8. baseline' = NewBaseline(c) /\ whole' = NewBaseline(c)
  BY DEF Write
<1> QED
  BY <1>1, <1>3, <1>5, <1>6, <1>7, <1>8 DEF IInv, TypeOK, OneHolder, BaselineIsWhole

----------------------------------------------------------------------------
(* In and out of the lock *)

LEMMA EnterKeeps ==
  ASSUME IInv, NEW g \in Gate, NEW m \in Mode, Enter(g, m)
  PROVE  IInv'
<1> DEFINE d == [NoCampaign EXCEPT !.pc = "load", !.mode = m]
<1>1. NoCampaign \in Campaign /\ NoCampaign.todo = {} /\ DOMAIN NoCampaign.flight = {}
      /\ DOMAIN NoCampaign.results = {}
  BY NoCampaignTyped DEF NoCampaign
<1>2. d \in Campaign /\ d.pc = "load" /\ d.todo = NoCampaign.todo
      /\ d.flight = NoCampaign.flight /\ d.results = NoCampaign.results
  BY <1>1 DEF Campaign, Working
<1>3. Becomes(g, d) /\ holder = {} /\ holder' = {g} /\ UNCHANGED Environment
  BY DEF Enter, Begin, Lock!Take
<1> HIDE DEF d
<1>4. CampaignInv(d)
  BY <1>1, <1>2 DEF CampaignInv, Measuring, Working
<1>5. gate'[g] = d /\ \A h \in Gate : h # g => gate'[h] = gate[h]
  BY <1>3 DEF IInv, TypeOK, Becomes
<1>6. (holder = Insiders)' /\ OneHolder'
  BY <1>2, <1>3, <1>5 DEF IInv, TypeOK, Insiders, OneHolder
<1> QED
  BY <1>2, <1>3, <1>4, <1>6, CampaignKeeps

LEMMA EnterRefusedKeeps ==
  ASSUME IInv, NEW g \in Gate, EnterRefused(g)
  PROVE  IInv'
<1> DEFINE d == [gate[g] EXCEPT !.pc = "busy"]
<1>1. gate[g] \in Campaign /\ gate[g].pc = "idle"
  BY DEF IInv, TypeOK, EnterRefused, At
<1>2. d \in Campaign /\ d.pc = "busy" /\ Becomes(g, d) /\ Quiet
  BY <1>1 DEF Campaign, Ended, EnterRefused, Goto, Lock!Refuse, Quiet
<1> HIDE DEF d
<1>3. CampaignInv(d)
  BY <1>2 DEF CampaignInv, Measuring, Working
<1> QED
  BY <1>1, <1>2, <1>3, QuietKeeps

LEMMA LeaveKeeps ==
  ASSUME IInv, NEW g \in Gate, Leave(g) \/ Crash(g)
  PROVE  IInv'
<1>1. Becomes(g, NoCampaign) /\ holder' = holder \ {g} /\ UNCHANGED Environment
  BY DEF Leave, Crash, Lock!Leave
<1>2. gate'[g] = NoCampaign /\ \A h \in Gate : h # g => gate'[h] = gate[h]
  BY <1>1 DEF IInv, TypeOK, Becomes
<1>3. (holder = Insiders)' /\ OneHolder'
  <2>1. NoCampaign.pc = "idle"
    BY DEF NoCampaign
  <2> QED
    BY <1>1, <1>2, <2>1 DEF IInv, TypeOK, Insiders, OneHolder
<1> QED
  BY <1>1, <1>3, NoCampaignTyped, CampaignKeeps

----------------------------------------------------------------------------
(* Authors *)

LEMMA AuthorsKeep ==
  ASSUME IInv, \/ \E t \in Tree : Edit(t)
               \/ \E s \in Annotators : Annotate(s)
               \/ Restore
  PROVE  IInv'
<1>1. UNCHANGED <<holder, gate>>
  BY DEF Edit, Annotate, Restore
<1>2. tree' \in Tree
  BY DEF Edit, Annotate, Restore, IInv, TypeOK
<1>3. /\ baseline' \in Content /\ whole' \in Content
      /\ whole'.state # "torn" /\ whole'.rows = whole.rows /\ BaselineIsWhole'
  <2>1. CASE UNCHANGED <<baseline, whole>>
    BY <2>1 DEF IInv, TypeOK, BaselineIsWhole
  <2>2. ASSUME NEW s \in Annotators, Annotate(s)
        PROVE  /\ baseline' \in Content /\ whole' = baseline'
               /\ baseline'.state = "whole" /\ baseline'.rows = whole.rows
    BY <2>2, AuthorsAssumption DEF Annotate, Content, IInv, TypeOK, BaselineIsWhole
  <2>3. CASE Restore
    BY <2>3 DEF Restore, IInv, TypeOK, BaselineIsWhole
  <2> QED
    BY <2>1, <2>2, <2>3 DEF Edit, BaselineIsWhole
<1>4. \A g \in Gate : CampaignInv(gate[g])'
  BY <1>1, <1>3 DEF IInv, CampaignInv
<1> QED
  BY <1>1, <1>2, <1>3, <1>4 DEF IInv, TypeOK, OneHolder

----------------------------------------------------------------------------
LEMMA StutterKeeps == IInv /\ UNCHANGED vars => IInv'
<1> SUFFICES ASSUME IInv, UNCHANGED vars PROVE IInv'
  OBVIOUS
<1>1. \A g \in Gate : CampaignInv(gate[g])'
  BY DEF IInv, CampaignInv, vars
<1> QED
  BY <1>1 DEF IInv, TypeOK, OneHolder, BaselineIsWhole, vars

LEMMA NextKeeps == IInv /\ [Next]_vars => IInv'
<1> SUFFICES ASSUME IInv, [Next]_vars PROVE IInv'
  OBVIOUS
<1>1. CASE UNCHANGED vars
  BY <1>1, StutterKeeps
<1>2. ASSUME NEW g \in Gate, NEW m \in Mode, Enter(g, m) PROVE IInv'
  BY <1>2, EnterKeeps
<1>3. ASSUME NEW g \in Gate, EnterRefused(g) PROVE IInv'
  BY <1>3, EnterRefusedKeeps
<1>4. ASSUME NEW g \in Gate, Step(g) PROVE IInv'
  <2>1. CASE Load(g) \/ Build(g) \/ Enumerate(g) \/ Fingerprint(g) \/ Replay(g)
    BY <2>1, PrepareKeeps
  <2>2. CASE Select(g)
    BY <2>2, SelectKeeps
  <2>3. CASE \E s \in Site : Mutate(g, s) \/ Answer(g, s) \/ TimeOut(g, s)
    BY <2>3, MeasureKeeps
  <2>4. CASE FingerprintAgain(g)
    BY <2>4, FingerprintAgainKeeps
  <2>5. CASE Check(g)
    BY <2>5, CheckKeeps
  <2>6. CASE Truncate(g)
    BY <2>6, TruncateKeeps
  <2>7. CASE Write(g)
    BY <2>7, WriteKeeps
  <2>8. CASE Leave(g)
    BY <2>8, LeaveKeeps
  <2> QED
    BY <1>4, <2>1, <2>2, <2>3, <2>4, <2>5, <2>6, <2>7, <2>8 DEF Step
<1>5. ASSUME NEW g \in Gate, Die(g) PROVE IInv'
  BY <1>5, FailureKeeps DEF Die, Ended, Working
<1>6. ASSUME NEW g \in Gate, Crash(g) PROVE IInv'
  BY <1>6, LeaveKeeps
<1>7. CASE (\E t \in Tree : Edit(t)) \/ (\E s \in Annotators : Annotate(s)) \/ Restore
  BY <1>7, AuthorsKeep
<1> QED
  BY <1>1, <1>2, <1>3, <1>4, <1>5, <1>6, <1>7 DEF Next

LEMMA Invariance == Spec => []IInv
<1> QED
  BY InitIInv, NextKeeps, PTL DEF Spec

\* The state of any gates over any corpora and rails is well typed, and the one
\* campaign under way is the lock holder's.
THEOREM TypeCorrect == Spec => []TypeOK
<1>1. IInv => TypeOK
  BY DEF IInv
<1> QED
  BY <1>1, Invariance, PTL

\* One campaign runs at a time: whoever is past the lock is alone.
THEOREM OneCampaign ==
  Spec => [](\A g, h \in Gate : g # h => gate[g].pc \in {"idle", "busy"}
                                         \/ gate[h].pc \in {"idle", "busy"})
<1>1. IInv => \A g, h \in Gate : g # h => gate[g].pc \in {"idle", "busy"}
                                          \/ gate[h].pc \in {"idle", "busy"}
  BY DEF IInv, TypeOK, OneHolder
<1> QED
  BY <1>1, Invariance, PTL

----------------------------------------------------------------------------
\* The step of NoSilentLoss.
Accounted(s) ==
  \E g \in Gate : Write(g) /\ (s \in gate[g].mode.accept \/ s \notin gate[g].sites)

NoLoss == \A s \in Forced(whole) \ Forced(whole') : Accounted(s)

\* Nothing but a rewrite takes a row from the record.
LEMMA OnlyWriteLoses ==
  ASSUME IInv, Next, ~\E g \in Gate : Write(g)
  PROVE  Forced(whole') = Forced(whole)
<1>1. whole'.rows = whole.rows
  <2>1. ASSUME NEW s \in Annotators, Annotate(s) PROVE whole'.rows = whole.rows
    BY <2>1 DEF Annotate, IInv, TypeOK, BaselineIsWhole, Content
  <2>2. ASSUME NEW g \in Gate, NEW m \in Mode, Enter(g, m) PROVE whole' = whole
    BY <2>2 DEF Enter, Environment
  <2>3. ASSUME NEW g \in Gate, EnterRefused(g) \/ Leave(g) \/ Crash(g) PROVE whole' = whole
    BY <2>3 DEF EnterRefused, Leave, Crash, Environment
  <2>4. ASSUME NEW g \in Gate, Step(g) \/ Die(g), ~Write(g), ~Leave(g) PROVE whole' = whole
    BY <2>4 DEF Step, Die, Load, Build, Enumerate, Fingerprint, Replay, Select, Mutate,
                Answer, TimeOut, FingerprintAgain, Check, Truncate, Quiet, Environment
  <2>5. ASSUME (\E t \in Tree : Edit(t)) \/ Restore PROVE whole' = whole
    BY <2>5 DEF Edit, Restore
  <2> QED
    BY <2>1, <2>2, <2>3, <2>4, <2>5 DEF Next
<1> QED
  BY <1>1 DEF Forced

\* A rewrite has measured every site and knows every row, so that it meets each
\* rule it would lose among the regressed ones.
LEMMA WriteAccounts ==
  ASSUME IInv, NEW g \in Gate, Write(g)
  PROVE  NoLoss
<1> DEFINE c == gate[g]
<1>1. c.pc = "write" /\ c \in Campaign /\ CampaignInv(c)
  BY DEF Write, At, IInv, TypeOK
<1>2. /\ c.loaded.rows = whole.rows /\ DOMAIN c.results = Chosen(c)
      /\ Regressed(c) \subseteq c.mode.accept
      /\ c.mode.scope = "all" /\ c.mode.only = {}
  BY <1>1 DEF CampaignInv, Measuring, Working, Refusable
<1>3. DOMAIN c.results = c.sites
  BY <1>2 DEF Chosen
<1>4. whole'.rows = c.results
  BY DEF Write, NewBaseline
<1>5. ASSUME NEW s \in Forced(whole), s \notin Forced(whole'), s \in c.sites
      PROVE  s \in c.mode.accept
  <2>1. s \in DOMAIN c.results /\ c.results[s] # "KILLED"
    BY <1>3, <1>4, <1>5 DEF Forced
  <2>2. s \in Forced(c.loaded)
    BY <1>2, <1>5 DEF Forced
  <2> QED
    BY <1>2, <2>1, <2>2 DEF Regressed
<1> QED
  BY <1>5 DEF NoLoss, Accounted

\* For any command lines, crashes, timeouts and edits of any corpora and rails,
\* a rule leaves the record only by a --sync told to accept its loss, or one
\* whose rail no longer has it.
THEOREM RatchetHolds == Spec => NoSilentLoss
<1>1. IInv /\ [Next]_vars => [NoLoss]_vars
  <2> SUFFICES ASSUME IInv, Next PROVE NoLoss
    OBVIOUS
  <2>1. CASE \E g \in Gate : Write(g)
    BY <2>1, WriteAccounts
  <2>2. CASE ~\E g \in Gate : Write(g)
    BY <2>2, OnlyWriteLoses DEF NoLoss
  <2> QED
    BY <2>1, <2>2
<1>2. Spec => [][NoLoss]_vars
  BY <1>1, Invariance, PTL DEF Spec
<1> QED
  BY <1>2 DEF NoSilentLoss, NoLoss, Accounted

----------------------------------------------------------------------------
(* One corpus (refuse_moved_corpus) *)

\* Which corpus comes before which, when edits go forward.
IsHistory(older) ==
  /\ older \in SUBSET (Corpora \X Corpora)
  /\ \A x, y, z \in Corpora :
       <<x, y>> \in older /\ <<y, z>> \in older => <<x, z>> \in older
  /\ \A x, y \in Corpora : ~(<<x, y>> \in older /\ <<y, x>> \in older)
  /\ \A e \in Edits : e[1].corpus = e[2].corpus \/ <<e[1].corpus, e[2].corpus>> \in older

History == CHOOSE older : IsHistory(older)

UpTo(x, y) == x = y \/ <<x, y>> \in History

LEMMA HistoryIs ==
  ASSUME EditsGoForward
  PROVE  IsHistory(History) /\ \A e \in Edits : e[1].rail = e[2].rail
BY DEF EditsGoForward, History, IsHistory

\* A site a campaign counts as killed is, for the corpus it fingerprinted.
True(c) ==
  \A s \in DOMAIN c.results : c.results[s] = "KILLED" =>
    Truth[[corpus |-> c.before, rail |-> c.built]][s] = "KILLED"

\* What a campaign has read lies between the corpus it fingerprinted and the one
\* there is now; a result it got while both were the same is true.
CorpusInv(c) ==
  /\ c.pc \in {"replay", "select", "run"} => UpTo(c.before, tree.corpus)
  /\ c.pc \in {"select", "run"} =>
       /\ c.base # {} /\ c.base \subseteq c.read
       /\ \A x \in c.read : UpTo(c.before, x) /\ UpTo(x, tree.corpus)
  /\ c.pc \in {"judge", "write", "ok", "wrote"} => c.read = {c.before}
  /\ c.pc \in {"select"} => DOMAIN c.results = {}
  /\ c.pc \in {"run", "judge", "write", "ok", "wrote"} /\ c.read = {c.before} => True(c)
  /\ c.pc = "ok" /\ c.mode.only = {} =>
       \A s \in Forced(c.loaded) : s \in DOMAIN c.results /\ c.results[s] = "KILLED"
  /\ c.built = FirstTree.rail /\ c.copied = FirstTree.rail
  /\ \A s \in DOMAIN c.flight : c.flight[s] = FirstTree.rail

OneCorpus == tree.rail = FirstTree.rail /\ \A g \in Gate : CorpusInv(gate[g])

\* A step by which only the campaign of g goes on, over a tree that stays.
LEMMA CorpusKeeps ==
  ASSUME IInv, OneCorpus, NEW g \in Gate, NEW c, Becomes(g, c), tree' = tree, CorpusInv(c)
  PROVE  OneCorpus'
<1>1. gate'[g] = c /\ \A h \in Gate : h # g => gate'[h] = gate[h]
  BY DEF IInv, TypeOK, Becomes
<1>2. \A h \in Gate : CorpusInv(gate'[h])
  BY <1>1 DEF OneCorpus
<1>3. \A h \in Gate : CorpusInv(gate[h])'
  BY <1>2 DEF CorpusInv
<1> QED
  BY <1>3 DEF OneCorpus

\* A campaign that ends without a verdict, or has not read a corpus yet.
LEMMA UnreadKeeps ==
  ASSUME IInv, OneCorpus, NEW g \in Gate, NEW c \in Campaign, Becomes(g, c), tree' = tree,
         c.pc \in {"idle", "busy", "failed", "load", "build", "enumerate", "fingerprint"},
         c.built = FirstTree.rail, c.copied = FirstTree.rail,
         \A s \in DOMAIN c.flight : c.flight[s] = FirstTree.rail
  PROVE  OneCorpus'
<1>1. CorpusInv(c)
  BY DEF CorpusInv
<1> QED
  BY <1>1, CorpusKeeps

LEMMA GotoUnread ==
  ASSUME IInv, OneCorpus, NEW g \in Gate, NEW pc, Goto(g, pc), tree' = tree,
         pc \in {"busy", "failed"}
  PROVE  OneCorpus'
<1> DEFINE d == [gate[g] EXCEPT !.pc = pc]
<1>1. gate[g] \in Campaign /\ CorpusInv(gate[g])
  BY DEF IInv, TypeOK, OneCorpus
<1>2. d \in Campaign /\ d.pc = pc /\ d.built = gate[g].built /\ d.copied = gate[g].copied
      /\ d.flight = gate[g].flight /\ Becomes(g, d)
  BY <1>1 DEF Campaign, Ended, Goto
<1> HIDE DEF d
<1> QED
  BY <1>1, <1>2, UnreadKeeps DEF CorpusInv

LEMMA EmptyDomain == DOMAIN << >> = {}
OBVIOUS

LEMMA NoCampaignUnread ==
  ASSUME IInv, OneCorpus, NEW g \in Gate, NEW c \in Campaign, Becomes(g, c), tree' = tree,
         \/ c = NoCampaign
         \/ \E m \in Mode : c = [NoCampaign EXCEPT !.pc = "load", !.mode = m]
  PROVE  OneCorpus'
<1>1. NoCampaign \in Campaign
  BY NoCampaignTyped
<1>2. /\ NoCampaign.pc = "idle" /\ NoCampaign.built = FirstTree.rail
      /\ NoCampaign.copied = FirstTree.rail /\ NoCampaign.flight = << >>
  BY DEF NoCampaign
<1>3. c.pc \in {"idle", "load"} /\ c.built = FirstTree.rail /\ c.copied = FirstTree.rail
      /\ c.flight = << >>
  BY <1>1, <1>2 DEF Campaign
<1>4. DOMAIN c.flight = {}
  BY <1>3, EmptyDomain
<1>5. \A s \in DOMAIN c.flight : c.flight[s] = FirstTree.rail
  BY <1>4
<1> QED
  BY <1>3, <1>5, UnreadKeeps

\* The steps before a corpus is read leave the campaign on the first rail.
LEMMA PrepareOneCorpus ==
  ASSUME IInv, OneCorpus, NEW g \in Gate, Load(g) \/ Build(g) \/ Enumerate(g)
  PROVE  OneCorpus'
<1> DEFINE c == gate[g]
<1>1. c \in Campaign /\ CorpusInv(c) /\ tree.rail \in Rails /\ tree' = tree
      /\ tree.rail = FirstTree.rail
  BY DEF IInv, TypeOK, Tree, OneCorpus, Load, Build, Enumerate, Quiet, Environment
<1>2. CASE Goto(g, "failed")
  BY <1>1, <1>2, GotoUnread
<1>3. ASSUME NEW d \in Campaign, Becomes(g, d),
             d.pc \in {"build", "enumerate", "fingerprint"},
             d.built = FirstTree.rail, d.copied = c.copied, d.flight = c.flight
      PROVE  OneCorpus'
  BY <1>1, <1>3, UnreadKeeps DEF CorpusInv
<1>4. CASE Load(g) /\ ~Goto(g, "failed")
  <2> DEFINE d == [c EXCEPT !.pc = "build", !.loaded = baseline]
  <2>1. Becomes(g, d) /\ d \in Campaign
    BY <1>1, <1>4 DEF Load, Loaded, Campaign, Working, IInv, TypeOK
  <2>2. d.pc = "build" /\ d.built = c.built /\ d.copied = c.copied /\ d.flight = c.flight
    BY <1>1 DEF Campaign
  <2> HIDE DEF d
  <2> QED
    BY <1>1, <1>3, <2>1, <2>2 DEF CorpusInv
<1>5. CASE Build(g)
  <2> DEFINE d == [c EXCEPT !.pc = "enumerate", !.built = tree.rail]
  <2>1. Becomes(g, d) /\ d \in Campaign
    BY <1>1, <1>5 DEF Build, Campaign, Working
  <2>2. d.pc = "enumerate" /\ d.built = tree.rail /\ d.copied = c.copied /\ d.flight = c.flight
    BY <1>1 DEF Campaign
  <2> HIDE DEF d
  <2> QED
    BY <1>1, <1>3, <2>1, <2>2
<1>6. CASE Enumerate(g) /\ ~Goto(g, "failed")
  <2> DEFINE d == [c EXCEPT !.pc = "fingerprint", !.sites = SitesOf[tree.rail]]
  <2>1. Becomes(g, d) /\ d \in Campaign
    BY <1>1, <1>6, SitesAssumption DEF Enumerate, Campaign, Working
  <2>2. d.pc = "fingerprint" /\ d.built = c.built /\ d.copied = c.copied /\ d.flight = c.flight
    BY <1>1 DEF Campaign
  <2> HIDE DEF d
  <2> QED
    BY <1>1, <1>3, <2>1, <2>2 DEF CorpusInv
<1> QED
  BY <1>2, <1>4, <1>5, <1>6 DEF Load, Enumerate

\* The fingerprint, and the first reading after it.
LEMMA FingerprintOneCorpus ==
  ASSUME IInv, OneCorpus, NEW g \in Gate, Fingerprint(g) \/ Replay(g)
  PROVE  OneCorpus'
<1> DEFINE c == gate[g]
<1>1. c \in Campaign /\ CorpusInv(c) /\ CampaignInv(c) /\ tree' = tree
  BY DEF IInv, TypeOK, OneCorpus, Fingerprint, Replay, Quiet, Environment
<1>2. CASE Fingerprint(g)
  <2> DEFINE d == [c EXCEPT !.pc = "replay", !.before = tree.corpus]
  <2>1. Becomes(g, d)
    BY <1>2 DEF Fingerprint
  <2>2. d.pc = "replay" /\ d.before = tree.corpus /\ d.built = c.built
        /\ d.copied = c.copied /\ d.flight = c.flight
    BY <1>1 DEF Campaign
  <2> HIDE DEF d
  <2>3. CorpusInv(d)
    BY <1>1, <2>2 DEF CorpusInv, UpTo
  <2> QED
    BY <1>1, <2>1, <2>3, CorpusKeeps
<1>3. CASE Replay(g)
  <2> DEFINE d == [c EXCEPT !.pc = "select", !.base = {tree.corpus}, !.read = {tree.corpus}]
  <2>1. Becomes(g, d) /\ c.pc = "replay"
    BY <1>3 DEF Replay, At
  <2>2. d.pc = "select" /\ d.before = c.before /\ d.built = c.built /\ d.results = c.results
        /\ d.copied = c.copied /\ d.flight = c.flight
        /\ d.base = {tree.corpus} /\ d.read = {tree.corpus}
    BY <1>1 DEF Campaign
  <2>3. DOMAIN c.results = {}
    BY <1>1, <2>1 DEF CampaignInv, Working
  <2> HIDE DEF d
  <2>4. CorpusInv(d)
    BY <1>1, <2>1, <2>2, <2>3 DEF CorpusInv, UpTo
  <2> QED
    BY <1>1, <2>1, <2>4, CorpusKeeps
<1> QED
  BY <1>2, <1>3

\* The selection reads the corpus again, and copies the rail.
LEMMA SelectOneCorpus ==
  ASSUME IInv, OneCorpus, NEW g \in Gate, Select(g)
  PROVE  OneCorpus'
<1> DEFINE c == gate[g]
           d == [c EXCEPT !.pc = "run", !.todo = Chosen(c), !.copied = tree.rail,
                          !.base = @ \cup {tree.corpus}, !.read = @ \cup {tree.corpus}]
<1>1. c \in Campaign /\ CorpusInv(c) /\ tree' = tree /\ tree.rail = FirstTree.rail
      /\ c.pc = "select"
  BY DEF IInv, TypeOK, OneCorpus, Select, At, Quiet, Environment
<1>2. Goto(g, "failed") \/ Becomes(g, d)
  BY DEF Select
<1>3. d.pc = "run" /\ d.before = c.before /\ d.built = c.built /\ d.results = c.results
      /\ d.copied = tree.rail /\ d.flight = c.flight
      /\ d.base = c.base \cup {tree.corpus} /\ d.read = c.read \cup {tree.corpus}
  BY <1>1 DEF Campaign
<1> HIDE DEF d
<1>4. CorpusInv(d)
  BY <1>1, <1>3 DEF CorpusInv, UpTo, True
<1> QED
  BY <1>1, <1>2, <1>4, CorpusKeeps, GotoUnread

\* A result over the fingerprinted corpus and the one rail is the truth.
LEMMA AnswersAreTrue ==
  ASSUME NEW c, CorpusInv(c), c.pc = "run", NEW s \in DOMAIN c.flight,
         c.read \cup {tree.corpus} = {c.before}
  PROVE  Answers(c, s) \subseteq {Truth[[corpus |-> c.before, rail |-> c.built]][s]}
<1>1. tree.corpus = c.before /\ c.base = {tree.corpus}
  BY DEF CorpusInv
<1>2. {c.copied, c.flight[s]} = {c.built}
  BY DEF CorpusInv
<1> QED
  BY <1>1, <1>2 DEF Answers

\* Mutants under way: what was read stays between the two corpora.
LEMMA MeasureOneCorpus ==
  ASSUME IInv, OneCorpus, NEW g \in Gate, NEW s \in Site,
         Mutate(g, s) \/ Answer(g, s) \/ TimeOut(g, s)
  PROVE  OneCorpus'
<1> DEFINE c == gate[g]
<1>1. c \in Campaign /\ CorpusInv(c) /\ tree' = tree /\ tree.rail = FirstTree.rail
      /\ c.pc = "run"
  BY DEF IInv, TypeOK, OneCorpus, Mutate, Answer, TimeOut, At, Quiet, Environment
<1>2. CASE Mutate(g, s)
  <2> DEFINE F == [x \in DOMAIN c.flight \cup {s} |->
                     IF x = s THEN tree.rail ELSE c.flight[x]]
             d == [c EXCEPT !.todo = @ \ {s}, !.flight = F]
  <2>1. Becomes(g, d)
    BY <1>2 DEF Mutate
  <2>2. \A x \in DOMAIN F : F[x] = FirstTree.rail
    BY <1>1 DEF CorpusInv
  <2> HIDE DEF F
  <2>3. d.pc = "run" /\ d.before = c.before /\ d.built = c.built /\ d.results = c.results
        /\ d.copied = c.copied /\ d.flight = F /\ d.base = c.base /\ d.read = c.read
    BY <1>1 DEF Campaign
  <2> HIDE DEF d
  <2>4. CorpusInv(d)
    BY <1>1, <2>2, <2>3 DEF CorpusInv, True
  <2> QED
    BY <1>1, <2>1, <2>4, CorpusKeeps
<1>3. ASSUME NEW class \in Class, NEW corpora \in SUBSET {tree.corpus},
             s \in DOMAIN c.flight, Record(g, s, class, corpora),
             c.read \cup corpora = {c.before} /\ class = "KILLED" =>
               Truth[[corpus |-> c.before, rail |-> c.built]][s] = "KILLED"
      PROVE  OneCorpus'
  <2> DEFINE F == Restrict(c.flight, DOMAIN c.flight \ {s})
             R == [x \in DOMAIN c.results \cup {s} |-> IF x = s THEN class ELSE c.results[x]]
             d == [c EXCEPT !.flight = F, !.results = R, !.read = @ \cup corpora]
  <2>1. Becomes(g, d)
    BY <1>3 DEF Record
  <2>2. \A x \in DOMAIN F : F[x] = FirstTree.rail
    BY <1>1 DEF CorpusInv, Restrict
  <2>3. /\ DOMAIN R = DOMAIN c.results \cup {s} /\ R[s] = class
        /\ \A x \in DOMAIN c.results : x # s => R[x] = c.results[x]
    OBVIOUS
  <2> HIDE DEF F, R
  <2>4. d.pc = "run" /\ d.before = c.before /\ d.built = c.built /\ d.results = R
        /\ d.copied = c.copied /\ d.flight = F /\ d.base = c.base
        /\ d.read = c.read \cup corpora
    BY <1>1 DEF Campaign
  <2> HIDE DEF d
  <2>5. d.read = {d.before} => True(d)
    <3> SUFFICES ASSUME d.read = {d.before}, NEW x \in DOMAIN R, R[x] = "KILLED"
                 PROVE  Truth[[corpus |-> c.before, rail |-> c.built]][x] = "KILLED"
      BY <2>4 DEF True
    <3>1. c.read = {c.before}
      BY <1>1, <2>4 DEF CorpusInv
    <3>2. CASE x = s
      BY <1>3, <2>3, <2>4, <3>2
    <3>3. CASE x # s
      BY <1>1, <2>3, <3>1, <3>3 DEF CorpusInv, True
    <3> QED
      BY <3>2, <3>3
  <2>6. CorpusInv(d)
    BY <1>1, <2>2, <2>4, <2>5 DEF CorpusInv, UpTo
  <2> QED
    BY <1>1, <2>1, <2>6, CorpusKeeps
<1>4. CASE Answer(g, s)
  <2>1. PICK class \in Answers(c, s) : Record(g, s, class, {tree.corpus})
    BY <1>4 DEF Answer
  <2>2. class \in Class /\ s \in DOMAIN c.flight
    BY <1>4, <2>1 DEF Answer, Answers
  <2>3. c.read \cup {tree.corpus} = {c.before} =>
          class = Truth[[corpus |-> c.before, rail |-> c.built]][s]
    BY <1>1, <2>1, <2>2, AnswersAreTrue
  <2> QED
    BY <1>3, <2>1, <2>2, <2>3
<1>5. CASE TimeOut(g, s)
  BY <1>3, <1>5 DEF TimeOut, Class
<1> QED
  BY <1>2, <1>4, <1>5

\* The second fingerprint: a corpus that is the first again never left it.
LEMMA AgainOneCorpus ==
  ASSUME EditsGoForward, IInv, OneCorpus, NEW g \in Gate, FingerprintAgain(g)
  PROVE  OneCorpus'
<1> DEFINE c == gate[g]
           d == [c EXCEPT !.pc = "judge"]
<1>1. c \in Campaign /\ CorpusInv(c) /\ tree' = tree /\ c.pc = "run"
  BY DEF IInv, TypeOK, OneCorpus, FingerprintAgain, At, Quiet, Environment
<1>2. CASE Goto(g, "failed")
  BY <1>1, <1>2, GotoUnread
<1>3. CASE ~Goto(g, "failed")
  <2>1. Becomes(g, d) /\ tree.corpus = c.before
    BY <1>3 DEF FingerprintAgain, Goto
  <2>2. c.read = {c.before}
    <3>1. c.read # {} /\ \A x \in c.read : UpTo(c.before, x) /\ UpTo(x, c.before)
      BY <1>1, <2>1 DEF CorpusInv
    <3>2. c.read \subseteq Corpora /\ c.before \in Corpora
      BY <1>1 DEF Campaign
    <3>3. \A x \in c.read : x = c.before
      BY <3>1, <3>2, HistoryIs DEF UpTo, IsHistory
    <3> QED
      BY <3>1, <3>3
  <2>3. d.pc = "judge" /\ d.before = c.before /\ d.built = c.built /\ d.results = c.results
        /\ d.copied = c.copied /\ d.flight = c.flight /\ d.read = c.read
    BY <1>1 DEF Campaign
  <2> HIDE DEF d
  <2>4. CorpusInv(d)
    BY <1>1, <2>2, <2>3 DEF CorpusInv, True
  <2> QED
    BY <1>1, <2>1, <2>4, CorpusKeeps
<1> QED
  BY <1>2, <1>3

\* The verdict: what a check accepts covers every recorded rule it measured.
LEMMA JudgeOneCorpus ==
  ASSUME IInv, OneCorpus, NEW g \in Gate, Check(g) \/ Truncate(g) \/ Write(g)
  PROVE  OneCorpus'
<1> DEFINE c == gate[g]
<1>1. c \in Campaign /\ CorpusInv(c) /\ CampaignInv(c) /\ tree' = tree
      /\ c.pc \in {"judge", "write"}
  BY DEF IInv, TypeOK, OneCorpus, Check, Truncate, Write, At, Quiet, Environment
<1>2. CASE Goto(g, "failed")
  BY <1>1, <1>2, GotoUnread
<1>3. ASSUME NEW pc \in {"ok", "write", "wrote"}, Goto(g, pc),
             pc = "ok" /\ c.mode.only = {} =>
               \A s \in Forced(c.loaded) : s \in DOMAIN c.results /\ c.results[s] = "KILLED"
      PROVE  OneCorpus'
  <2> DEFINE d == [c EXCEPT !.pc = pc]
  <2>1. Becomes(g, d)
    BY <1>3 DEF Goto
  <2>2. d.pc = pc /\ d.before = c.before /\ d.built = c.built /\ d.results = c.results
        /\ d.copied = c.copied /\ d.flight = c.flight /\ d.read = c.read
        /\ d.mode = c.mode /\ d.loaded = c.loaded
    BY <1>1 DEF Campaign
  <2> HIDE DEF d
  <2>3. CorpusInv(d)
    BY <1>1, <1>3, <2>2 DEF CorpusInv, True
  <2> QED
    BY <1>1, <2>1, <2>3, CorpusKeeps
<1>4. ASSUME Check(g), ~Goto(g, "failed"), c.mode.only = {}, NEW s \in Forced(c.loaded)
      PROVE  s \in DOMAIN c.results /\ c.results[s] = "KILLED"
  <2>1. c.pc = "judge" /\ ~Structural(c) /\ Regressed(c) = {}
    BY <1>4 DEF Check, At
  <2>2. s \in c.sites
    BY <1>4, <2>1 DEF Structural, Forced
  <2>3. s \in Chosen(c)
    BY <1>4, <2>2 DEF Chosen
  <2>4. s \in DOMAIN c.results
    BY <1>1, <2>1, <2>3 DEF CampaignInv
  <2> QED
    BY <1>4, <2>1, <2>4 DEF Regressed
<1>5. CASE Check(g) /\ ~Goto(g, "failed")
  BY <1>3, <1>4, <1>5 DEF Check
<1>6. CASE (Truncate(g) \/ Write(g)) /\ ~Goto(g, "failed")
  BY <1>3, <1>6 DEF Truncate, Write
<1> QED
  BY <1>2, <1>5, <1>6

\* In and out of the lock.
LEMMA GatesOneCorpus ==
  ASSUME IInv, OneCorpus, NEW g \in Gate,
         \/ \E m \in Mode : Enter(g, m)
         \/ EnterRefused(g) \/ Die(g) \/ Leave(g) \/ Crash(g)
  PROVE  OneCorpus'
<1>1. tree' = tree
  BY DEF Enter, EnterRefused, Die, Leave, Crash, Quiet, Environment
<1>2. ASSUME NEW m \in Mode, Enter(g, m) PROVE OneCorpus'
  <2> DEFINE d == [NoCampaign EXCEPT !.pc = "load", !.mode = m]
  <2>1. d \in Campaign
    BY NoCampaignTyped DEF Campaign, Working
  <2>2. Becomes(g, d)
    BY <1>2 DEF Enter, Begin
  <2> QED
    BY <1>1, <2>1, <2>2, NoCampaignUnread
<1>3. CASE EnterRefused(g) \/ Die(g)
  BY <1>1, <1>3, GotoUnread DEF EnterRefused, Die
<1>4. CASE Leave(g) \/ Crash(g)
  BY <1>1, <1>4, NoCampaignTyped, NoCampaignUnread DEF Leave, Crash
<1> QED
  BY <1>2, <1>3, <1>4

\* An edit moves the corpus on; what was read stays behind it.
LEMMA EditOneCorpus ==
  ASSUME EditsGoForward, IInv, OneCorpus, NEW t \in Tree, Edit(t)
  PROVE  OneCorpus'
<1>1. tree' = t /\ gate' = gate /\ t.rail = tree.rail
      /\ (tree.corpus = t.corpus \/ <<tree.corpus, t.corpus>> \in History)
  BY HistoryIs DEF Edit, IsHistory
<1>2. tree.corpus \in Corpora /\ t.corpus \in Corpora
  BY DEF IInv, TypeOK, Tree
<1>3. ASSUME NEW x \in Corpora, UpTo(x, tree.corpus) PROVE UpTo(x, t.corpus)
  BY <1>1, <1>2, <1>3, HistoryIs DEF UpTo, IsHistory
<1>4. ASSUME NEW g \in Gate PROVE CorpusInv(gate[g])'
  <2>1. gate[g] \in Campaign /\ CorpusInv(gate[g])
    BY DEF IInv, TypeOK, OneCorpus
  <2>2. gate[g].before \in Corpora /\ gate[g].read \subseteq Corpora
    BY <2>1 DEF Campaign
  <2> QED
    BY <1>1, <1>3, <2>1, <2>2 DEF CorpusInv
<1> QED
  BY <1>1, <1>4 DEF OneCorpus

LEMMA NextOneCorpus == EditsGoForward /\ IInv /\ OneCorpus /\ [Next]_vars => OneCorpus'
<1> SUFFICES ASSUME EditsGoForward, IInv, OneCorpus, [Next]_vars PROVE OneCorpus'
  OBVIOUS
<1>1. CASE UNCHANGED <<tree, gate>>
  BY <1>1 DEF OneCorpus, CorpusInv
<1>2. ASSUME NEW g \in Gate, Step(g) PROVE OneCorpus'
  BY <1>2, PrepareOneCorpus, FingerprintOneCorpus, SelectOneCorpus, MeasureOneCorpus,
     AgainOneCorpus, JudgeOneCorpus, GatesOneCorpus DEF Step
<1>3. ASSUME NEW g \in Gate,
             (\E m \in Mode : Enter(g, m)) \/ EnterRefused(g) \/ Die(g) \/ Crash(g)
      PROVE  OneCorpus'
  BY <1>3, GatesOneCorpus
<1>4. CASE (\E s \in Annotators : Annotate(s)) \/ Restore
  BY <1>1, <1>4 DEF Annotate, Restore
<1> QED
  BY <1>1, <1>2, <1>3, <1>4, EditOneCorpus DEF Next, vars

\* Where edits go forward, a campaign that ended well read one corpus.
LEMMA CorpusInvariance == ASSUME EditsGoForward PROVE Spec => []OneCorpus
<1>1. Init => OneCorpus
  BY DEF Init, OneCorpus, CorpusInv, NoCampaign
<1> QED
  BY <1>1, NextOneCorpus, Invariance, PTL DEF Spec

\* An OK over all recorded rules is right, for any rails, corpora and timeouts,
\* where a corpus that changed does not change back (forcing-gate.py, run).
THEOREM OkIsForced == ASSUME EditsGoForward PROVE Spec => []OkMeansForced
<1>1. OneCorpus => OkMeansForced
  BY DEF OneCorpus, CorpusInv, True, OkMeansForced, At
<1> QED
  BY <1>1, CorpusInvariance, PTL

\* And so is the record a --sync writes (build_baseline).
THEOREM RecordsAreTrue == ASSUME EditsGoForward PROVE Spec => []RecordIsTrue
<1>1. OneCorpus => RecordIsTrue
  BY DEF OneCorpus, CorpusInv, True, RecordIsTrue, NewBaseline, Forced, At
<1> QED
  BY <1>1, CorpusInvariance, PTL

----------------------------------------------------------------------------
(* The lock file: what a campaign takes to be a lock is one, whatever      *)
(* processes run the gate, and whenever they die. All of it rests on one   *)
(* fact: the flock is held by exactly the process whose control state is   *)
(* past the lock. The file's state is its own.                             *)

\* Neither conjunct is inductive alone: a name stays because nobody else is
\* past the lock, and that nobody is comes from the flock having one holder.
FileInv == LockTypeOK /\ NoStaleLock /\ InsiderIsNamed

LEMMA InitFileInv == LockInit => FileInv
BY DEF LockInit, FileInv, LockTypeOK, NoStaleLock, InsiderIsNamed,
       Holding, Refused

\* A step that leaves flock and text alone and does not cross the lock.
LEMMA OutsideTheLock ==
  ASSUME FileInv, NEW p \in Process, NEW to \in {"opened"} \cup Refused,
         stage[p] \in {"out", "opened"} \cup Refused,
         stage' = [stage EXCEPT ![p] = to], UNCHANGED <<flock, text>>
  PROVE  FileInv'
BY DEF FileInv, LockTypeOK, NoStaleLock, InsiderIsNamed, Holding,
       Refused

LEMMA FileNextKeeps == FileInv /\ [LockNext]_lockVars => FileInv'
<1> SUFFICES ASSUME FileInv, [LockNext]_lockVars PROVE FileInv'
  OBVIOUS
<1>1. CASE UNCHANGED lockVars
  BY <1>1
     DEF lockVars, FileInv, LockTypeOK, NoStaleLock, InsiderIsNamed,
         Holding, Refused
<1>2. ASSUME NEW p \in Process,
             Open(p) \/ Busy(p) \/ ReadHolder(p)
      PROVE  FileInv'
  BY <1>2, OutsideTheLock DEF Open, Busy, ReadHolder, Proceed, Refused
<1>3. ASSUME NEW p \in Process, Flock(p) PROVE FileInv'
  BY <1>3
     DEF Flock, Proceed, FileInv, LockTypeOK, NoStaleLock,
         InsiderIsNamed, Holding, Refused
<1>4. ASSUME NEW p \in Process, Clear(p) \/ WriteName(p) PROVE FileInv'
  <2>1. flock = {p} /\ \A q \in Process : stage[q] \in Holding => q = p
    BY <1>4
       DEF Clear, WriteName, Proceed, FileInv, LockTypeOK, NoStaleLock,
           Holding
  <2>2. \A q \in Process : stage'[q] \in Holding <=> stage[q] \in Holding
    BY <1>4 DEF Clear, WriteName, Proceed, FileInv, LockTypeOK, Holding
  <2>3. LockTypeOK'
    BY <1>4 DEF Clear, WriteName, Proceed, FileInv, LockTypeOK, Holding
  <2>4. NoStaleLock'
    BY <1>4, <2>2 DEF Clear, WriteName, FileInv, NoStaleLock
  <2>5. InsiderIsNamed'
    BY <1>4, <2>1
       DEF Clear, WriteName, Proceed, FileInv, LockTypeOK,
           InsiderIsNamed, Holding
  <2> QED
    BY <2>3, <2>4, <2>5 DEF FileInv
<1>5. ASSUME NEW p \in Process, Close(p) PROVE FileInv'
  <2>1. LockTypeOK'
    BY <1>5 DEF Close, FileInv, LockTypeOK
  <2>2. NoStaleLock'
    BY <1>5 DEF Close, FileInv, LockTypeOK, NoStaleLock, Holding
  <2>3. InsiderIsNamed'
    BY <1>5 DEF Close, FileInv, LockTypeOK, InsiderIsNamed
  <2> QED
    BY <2>1, <2>2, <2>3 DEF FileInv
<1> QED
  BY <1>1, <1>2, <1>3, <1>4, <1>5 DEF LockNext

LEMMA FileInvariance == LockSpec => []FileInv
BY InitFileInv, FileNextKeeps, PTL DEF LockSpec

\* The kernel's lock has one holder, whatever the processes do.
THEOREM LockTypeCorrect == LockSpec => []LockTypeOK
BY FileInvariance, PTL DEF FileInv

\* The lock never outlives its holder, however that holder ends.
THEOREM LockIsNeverStale == LockSpec => []NoStaleLock
BY FileInvariance, PTL DEF FileInv

\* The file names the process that runs under the lock.
THEOREM InsiderKeepsItsName == LockSpec => []InsiderIsNamed
BY FileInvariance, PTL DEF FileInv

----------------------------------------------------------------------------
LEMMA FileInitMaps == LockInit => Abstract!Init
BY DEF LockInit, Abstract!Init, Holding, Refused

\* Each system call is a step of the abstract lock or invisible in it.
LEMMA FileNextMaps ==
  FileInv /\ [LockNext]_lockVars => [Abstract!Next]_(Abstract!vars)
<1> DEFINE H == {p \in Process : stage[p] \in Holding}
           R == {p \in Process : stage[p] \in Refused}
<1> SUFFICES ASSUME FileInv, [LockNext]_lockVars
             PROVE  Abstract!Next \/ (H' = H /\ R' = R)
  BY DEF Abstract!vars
<1>0. stage \in [Process -> {"out", "opened"} \cup Holding \cup Refused] /\ flock = H
  BY DEF FileInv, LockTypeOK, NoStaleLock
<1>1. CASE UNCHANGED lockVars
  BY <1>1 DEF lockVars
<1>2. ASSUME NEW p \in Process, Open(p) PROVE H' = H /\ R' = R
  BY <1>0, <1>2 DEF Open, Proceed, Holding, Refused
<1>3. ASSUME NEW p \in Process, ReadHolder(p) PROVE H' = H /\ R' = R
  BY <1>0, <1>3 DEF ReadHolder, Proceed, Holding, Refused
<1>4. ASSUME NEW p \in Process, Clear(p) \/ WriteName(p) PROVE H' = H /\ R' = R
  BY <1>0, <1>4 DEF Clear, WriteName, Proceed, Holding, Refused
<1>5. ASSUME NEW p \in Process, Flock(p) PROVE Abstract!Take(p)
  <2>1. H = {} /\ p \notin R /\ H' = {p} /\ R' = R
    BY <1>0, <1>5 DEF Flock, Proceed, Holding, Refused
  <2> QED
    BY <2>1 DEF Abstract!Take
<1>6. ASSUME NEW p \in Process, Busy(p) PROVE Abstract!Refuse(p)
  <2>1. H # {} /\ p \notin H \cup R /\ H' = H /\ R' = R \cup {p}
    BY <1>0, <1>6 DEF Busy, Proceed, Holding, Refused
  <2> QED
    BY <2>1 DEF Abstract!Refuse
<1>7. ASSUME NEW p \in Process, Close(p)
      PROVE  Abstract!Leave(p) \/ (H' = H /\ R' = R)
  <2>1. H' = H \ {p} /\ R' = R \ {p}
    BY <1>0, <1>7 DEF Close, Holding, Refused
  <2> QED
    BY <2>1 DEF Abstract!Leave
<1> QED
  BY <1>1, <1>2, <1>3, <1>4, <1>5, <1>6, <1>7 DEF LockNext, Abstract!Next

\* Any processes on one lock file together implement the abstract lock.
THEOREM LockFileImplements == LockSpec => ImplementsSingleInstance
BY FileInitMaps, FileNextMaps, FileInvariance, PTL
   DEF LockSpec, ImplementsSingleInstance, Abstract!Spec

----------------------------------------------------------------------------
(* SpecPins: the text of a document, and the places its lines have in it *)

Below == {pair \in Nat \X Nat : pair[1] < pair[2]}

LEMMA LeastOfSet ==
  ASSUME NEW set, set \subseteq Nat, set # {}
  PROVE  \E k \in set : \A l \in set : k <= l
<1>1. IsWellFoundedOn(Below, Nat)
  BY NatLessThanWellFounded, Zenon DEF OpToRel, Below
<1>2. PICK k \in set : \A l \in set : ~(<<l, k>> \in Below)
  BY <1>1, WFMin
<1>3. ASSUME NEW l \in set PROVE k <= l
  <2>1. <<l, k>> \in Nat \X Nat
    OBVIOUS
  <2>2. ~(l < k)
    BY <1>2, <2>1 DEF Below
  <2> QED
    BY <2>2
<1> QED
  BY <1>3

\* The text of the first lines, line by line.
TextsTo(doc, k, t) ==
  t = [n \in 0..k |-> IF n = 0 THEN << >> ELSE t[n - 1] \o doc[n]]

LEMMA TextsExist ==
  ASSUME NEW doc, NEW k \in Nat
  PROVE  \E t : TextsTo(doc, k, t)
<1> DEFINE Without == {m \in Nat : \A t : ~TextsTo(doc, m, t)}
<1> SUFFICES ASSUME Without # {} PROVE FALSE
  OBVIOUS
<1>1. PICK m \in Without : \A l \in Without : m <= l
  BY LeastOfSet
<1>2. CASE m = 0
  <2> DEFINE t == [n \in 0..0 |-> << >>]
  <2>1. t = [n \in 0..0 |-> IF n = 0 THEN << >> ELSE t[n - 1] \o doc[n]]
    OBVIOUS
  <2> QED
    BY <1>1, <1>2, <2>1 DEF TextsTo
<1>3. CASE m # 0
  <2>1. m - 1 \in Nat /\ m - 1 \notin Without
    BY <1>1, <1>3
  <2>2. PICK u : TextsTo(doc, m - 1, u)
    BY <2>1
  <2> DEFINE t == [n \in 0..m |-> IF n = m THEN u[m - 1] \o doc[m] ELSE u[n]]
  <2>3. ASSUME NEW n \in 0..m
        PROVE  t[n] = IF n = 0 THEN << >> ELSE t[n - 1] \o doc[n]
    BY <1>3, <2>2 DEF TextsTo
  <2>4. t = [n \in 0..m |-> IF n = 0 THEN << >> ELSE t[n - 1] \o doc[n]]
    <3>1. t = [n \in 0..m |-> t[n]]
      OBVIOUS
    <3> HIDE DEF t
    <3> QED
      BY <2>3, <3>1
  <2>5. TextsTo(doc, m, t)
    BY <2>4 DEF TextsTo
  <2> QED
    BY <1>1, <2>5
<1> QED
  BY <1>2, <1>3

LEMMA TextGrows ==
  ASSUME NEW doc \in Document
  PROVE  /\ TextUpTo(doc) \in [0..Len(doc) -> Line]
         /\ TextUpTo(doc)[0] = << >>
         /\ \A n \in 1..Len(doc) : TextUpTo(doc)[n] = TextUpTo(doc)[n - 1] \o doc[n]
<1> DEFINE t == TextUpTo(doc)
<1>0. Len(doc) \in Nat /\ \A n \in 1..Len(doc) : doc[n] \in Line
  BY DEF Document
<1>1. TextsTo(doc, Len(doc), t)
  <2>1. t = CHOOSE u : TextsTo(doc, Len(doc), u)
    BY Zenon DEF TextUpTo, TextsTo
  <2>2. \E u : TextsTo(doc, Len(doc), u)
    BY <1>0, TextsExist
  <2> HIDE DEF t
  <2> QED
    BY <2>1, <2>2
<1>2. t[0] = << >> /\ \A n \in 1..Len(doc) : t[n] = t[n - 1] \o doc[n]
  BY <1>0, <1>1 DEF TextsTo
<1>3. ASSUME NEW n \in 0..Len(doc) PROVE t[n] \in Line
  <2> HIDE DEF t
  <2> DEFINE Untyped == {k \in 0..Len(doc) : t[k] \notin Line}
  <2>1. CASE Untyped = {}
    BY <2>1
  <2>2. CASE Untyped # {}
    <3>1. Untyped \subseteq Nat
      BY <1>0
    <3>2. PICK m \in Untyped : \A l \in Untyped : m <= l
      BY <2>2, <3>1, LeastOfSet
    <3>3. m \in 0..Len(doc) /\ t[m] \notin Line
      OBVIOUS
    <3>4. t[0] \in Line
      BY <1>2 DEF Line
    <3>5. m # 0 /\ m \in 1..Len(doc) /\ m - 1 \in 0..Len(doc)
      BY <1>0, <3>3, <3>4
    <3>6. t[m - 1] \in Line
      BY <1>0, <3>2, <3>5
    <3>7. doc[m] \in Line /\ t[m] = t[m - 1] \o doc[m]
      BY <1>0, <1>2, <3>5
    <3> QED
      BY <3>3, <3>6, <3>7 DEF Line
  <2> QED
    BY <2>1, <2>2
<1>4. t = [n \in 0..Len(doc) |-> t[n]]
  BY <1>1 DEF TextsTo
<1> HIDE DEF t
<1>5. t \in [0..Len(doc) -> Line]
  BY <1>3, <1>4
<1> QED
  BY <1>2, <1>5 DEF t

\* The text of fewer lines is where the text of more begins.
LEMMA TextIsPrefix ==
  ASSUME NEW doc \in Document, NEW m \in 0..Len(doc), NEW n \in m..Len(doc)
  PROVE  /\ Len(TextUpTo(doc)[m]) <= Len(TextUpTo(doc)[n])
         /\ \A k \in 1..Len(TextUpTo(doc)[m]) : TextUpTo(doc)[n][k] = TextUpTo(doc)[m][k]
<1> DEFINE t == TextUpTo(doc)
           Begins(l) == /\ Len(t[m]) <= Len(t[l])
                        /\ \A k \in 1..Len(t[m]) : t[l][k] = t[m][k]
           Others == {l \in m..Len(doc) : ~Begins(l)}
<1>1. Len(doc) \in Nat /\ t \in [0..Len(doc) -> Line]
  <2>1. Len(doc) \in Nat
    BY DEF Document
  <2> QED
    BY <2>1, TextGrows
<1> SUFFICES ASSUME Others # {} PROVE FALSE
  OBVIOUS
<1>2. Others \subseteq Nat
  BY <1>1
<1>3. PICK l \in Others : \A o \in Others : l <= o
  BY <1>2, LeastOfSet
<1>4. l # m
  BY <1>1, <1>3
<1>5. l - 1 \in m..Len(doc) /\ l \in 1..Len(doc) /\ Begins(l - 1)
  BY <1>1, <1>3, <1>4
<1>6. t[l] = t[l - 1] \o doc[l]
  BY <1>5, TextGrows
<1>7. t[m] \in Line /\ t[l - 1] \in Line /\ doc[l] \in Line
  <2>1. l - 1 \in 0..Len(doc)
    BY <1>1, <1>5
  <2> HIDE DEF t, Begins, Others
  <2>2. t[m] \in Line /\ t[l - 1] \in Line
    BY <1>1, <2>1
  <2>3. doc[l] \in Line
    BY <1>5 DEF Document
  <2> QED
    BY <2>2, <2>3
<1> HIDE DEF t
<1>8. Begins(l)
  <2> DEFINE u == t[l - 1]  v == doc[l]
  <2>1. u \in Seq(Word) /\ v \in Seq(Word) /\ t[m] \in Seq(Word)
    BY <1>7 DEF Line
  <2>2. Len(t[m]) <= Len(u) /\ \A k \in 1..Len(t[m]) : u[k] = t[m][k]
    BY <1>5
  <2>3. t[l] = u \o v
    BY <1>6
  <2> HIDE DEF u, v
  <2>4. Len(u \o v) = Len(u) + Len(v) /\ \A k \in 1..Len(u) : (u \o v)[k] = u[k]
    BY <2>1
  <2>5. Len(t[m]) \in Nat /\ Len(u) \in Nat /\ Len(v) \in Nat
    BY <2>1
  <2>6. Len(t[m]) <= Len(u \o v)
    BY <2>2, <2>4, <2>5
  <2>7. \A k \in 1..Len(t[m]) : (u \o v)[k] = t[m][k]
    BY <2>2, <2>4, <2>5
  <2> QED
    BY <2>3, <2>6, <2>7
<1> QED
  BY <1>3, <1>8

\* A line with words is where it stands, and on every span it stands in.
LEMMA LineIsOnItsSpan ==
  ASSUME NEW doc \in Document, NEW span \in Spans(doc), NEW n \in span.lo..span.hi
  PROVE  ~LeftBehind(doc, doc[n], span)
<1> DEFINE t == TextUpTo(doc)
           before == t[n - 1]
           line == doc[n]
           all == t[Len(doc)]
           at == Len(before)
<1>1. Len(doc) \in Nat /\ DOMAIN doc = 1..Len(doc) /\ \A m \in 1..Len(doc) : doc[m] \in Line
  BY DEF Document
<1>2. span.lo \in 1..Len(doc) /\ span.hi \in 1..Len(doc)
  BY <1>1 DEF Spans
<1>3. /\ n \in 1..Len(doc) /\ n - 1 \in 0..Len(doc) /\ span.lo - 1 \in 0..Len(doc)
      /\ n - 1 \in (span.lo - 1)..Len(doc) /\ span.hi \in n..Len(doc) /\ Len(doc) \in n..Len(doc)
  BY <1>1, <1>2
<1>4. t \in [0..Len(doc) -> Line]
  BY TextGrows
<1>5. before \in Seq(Word) /\ line \in Seq(Word) /\ all \in Seq(Word) /\ t[n] \in Seq(Word)
  <2>1. Len(doc) \in 0..Len(doc) /\ n \in 0..Len(doc)
    BY <1>1, <1>3
  <2>2. before \in Line /\ line \in Line /\ all \in Line /\ t[n] \in Line
    BY <1>1, <1>3, <1>4, <2>1
  <2> QED
    BY <2>2 DEF Line
<1>6. t[n] = before \o line
  BY <1>3, TextGrows
<1>7. Len(t[span.lo - 1]) <= at
  BY <1>3, TextIsPrefix
<1>8. n \in 0..Len(doc)
  BY <1>1, <1>3
<1>9. Len(t[n]) <= Len(t[span.hi])
  BY <1>3, <1>8, TextIsPrefix
<1>10. Len(t[n]) <= Len(all) /\ \A k \in 1..Len(t[n]) : all[k] = t[n][k]
  BY <1>3, <1>8, TextIsPrefix
<1>11. Len(t[span.lo - 1]) \in Nat /\ Len(t[span.hi]) \in Nat
  <2>1. t[span.lo - 1] \in Seq(Word) /\ t[span.hi] \in Seq(Word)
    BY <1>1, <1>2, <1>3, <1>4 DEF Line
  <2> QED
    BY <2>1
<1>12. /\ Words(doc) = all /\ StartOf(doc, span.lo) = Len(t[span.lo - 1])
       /\ EndOf(doc, span.hi) = Len(t[span.hi])
  BY DEF Words, StartOf, EndOf
<1>13. CASE line = << >>
  BY <1>13 DEF LeftBehind, Occurrences
<1>14. CASE line # << >>
  <2> HIDE DEF t, before, line, all
  <2>1. /\ at \in Nat /\ Len(line) \in Nat /\ Len(line) > 0
        /\ Len(t[n]) = at + Len(line) /\ Len(all) \in Nat
    BY <1>5, <1>6, <1>14
  <2>2. at \in 0..(Len(all) - Len(line)) /\ at + Len(line) <= Len(all)
    BY <1>10, <2>1
  <2>3. ASSUME NEW k \in 1..Len(line) PROVE all[at + k] = line[k]
    <3>1. at + k \in 1..Len(t[n])
      BY <2>1
    <3>2. (before \o line)[at + k] = line[k]
      BY <1>5, <2>1
    <3> QED
      BY <1>6, <1>10, <3>1, <3>2
  <2>4. SubSeq(all, at + 1, at + Len(line)) = line
    <3>1. SubSeq(all, at + 1, at + Len(line)) = [k \in 1..Len(line) |-> all[at + k]]
      BY <1>5, <2>1, <2>2
    <3>2. line = [k \in 1..Len(line) |-> line[k]]
      BY <1>5
    <3> QED
      BY <2>3, <3>1, <3>2
  <2>5. at \in Occurrences(doc, line)
    BY <1>12, <1>14, <2>2, <2>4 DEF Occurrences
  <2>6. ~(at >= EndOf(doc, span.hi)) /\ ~(StartOf(doc, span.lo) >= at + Len(line))
    BY <1>7, <1>9, <1>11, <1>12, <2>1
  <2>7. ~LeftBehind(doc, line, span)
    BY <2>5, <2>6 DEF LeftBehind
  <2> QED
    BY <2>7 DEF line
<1> QED
  BY <1>13, <1>14

----------------------------------------------------------------------------
(* SpecPins: what the ledgers of a tree are about *)

PinsOf(ledger) ==
  \A key \in DOMAIN ledger.pins :
    /\ ledger.pins[key].at \in Spans(ledger.spec)
    /\ ledger.pins[key].text = Passage(ledger.spec, ledger.pins[key].at)

IsList(s) == \E S : s \in Seq(S)

IsWork(t) ==
  /\ t = [spec |-> t.spec, pin |-> t.pin, manifest |-> t.manifest, cites |-> t.cites,
          table |-> t.table, ledger |-> t.ledger]
  /\ t.spec \in Document /\ IsList(t.table)
  /\ t.cites = [sp \in Spellings |-> t.cites[sp]]
  /\ \A sp \in Spellings : IsList(t.cites[sp])
  /\ t.ledger = [sp \in Spellings |-> t.ledger[sp]]
  /\ \A sp \in Spellings : t.ledger[sp].spec \in Document /\ PinsOf(t.ledger[sp])

IsVendor(r) ==
  /\ r = [pc |-> r.pc, doc |-> r.doc, old |-> r.old, start |-> r.start, failed |-> r.failed]
  /\ r.doc \in Document

LedgersAreTrue == IsWork(work) /\ IsWork(head) /\ IsVendor(run)

LEMMA EditsOfWork ==
  ASSUME NEW t, IsWork(t), NEW doc \in Document, NEW pin
  PROVE  /\ IsWork([t EXCEPT !.spec = doc])
         /\ IsWork([t EXCEPT !.pin = pin])
BY DEF IsWork

LEMMA RegeneratedIsWork ==
  ASSUME NEW t, IsWork(t)
  PROVE  IsWork(Tabulated(t)) /\ IsWork(Manifested(Tabulated(t)))
<1>1. IsList(t.cites["anchor"])
  BY DEF IsWork, Spellings
<1>2. Tabulated(t) = [spec |-> t.spec, pin |-> t.pin, manifest |-> t.manifest, cites |-> t.cites,
                      table |-> t.cites["anchor"], ledger |-> t.ledger]
  BY DEF IsWork, Tabulated
<1>3. IsWork(Tabulated(t))
  BY <1>1, <1>2 DEF IsWork
<1>4. IsWork(Manifested(Tabulated(t)))
  BY <1>3 DEF IsWork, Manifested
<1> QED
  BY <1>3, <1>4

LEMMA CitesAreNoLedger ==
  ASSUME NEW t, IsWork(t), NEW sp \in Spellings, NEW cites, IsList(cites)
  PROVE  IsWork([t EXCEPT !.cites[sp] = cites])
<1> DEFINE all == [t.cites EXCEPT ![sp] = cites]
<1>1. [t EXCEPT !.cites[sp] = cites] = [t EXCEPT !.cites = all]
  BY DEF IsWork
<1>2. all = [other \in Spellings |-> all[other]] /\ \A other \in Spellings : IsList(all[other])
  BY DEF IsWork
<1> HIDE DEF all
<1>3. IsWork([t EXCEPT !.cites = all])
  BY <1>2 DEF IsWork
<1> QED
  BY <1>1, <1>3

\* What is done to the citations of one spelling.
LEMMA ListsStayLists ==
  ASSUME NEW cites, IsList(cites), NEW span, NEW key \in DOMAIN cites
  PROVE  /\ IsList([cites EXCEPT ![key] = span])
         /\ IsList(RemoveAt(cites, key))
<1>1. PICK S : cites \in Seq(S)
  BY DEF IsList
<1>2. cites \in Seq(S \cup {span})
  BY <1>1
<1>3. [cites EXCEPT ![key] = span] \in Seq(S \cup {span})
  BY <1>2
<1>4. RemoveAt(cites, key) \in Seq(S)
  BY <1>1 DEF RemoveAt
<1> QED
  BY <1>3, <1>4 DEF IsList

LEMMA ListsGrow ==
  ASSUME NEW cites, IsList(cites), NEW span
  PROVE  IsList(<<span>> \o cites)
<1>1. PICK S : cites \in Seq(S)
  BY DEF IsList
<1>2. cites \in Seq(S \cup {span}) /\ <<span>> \in Seq(S \cup {span})
  BY <1>1
<1>3. <<span>> \o cites \in Seq(S \cup {span})
  BY <1>2
<1> QED
  BY <1>3 DEF IsList

\* The citations of one spelling in other places.
Moved(t, sp, old, doc) == [key \in DOMAIN t.cites[sp] |-> Remapped(t.cites[sp][key], old, doc)]

LEMMA MovedIsList ==
  ASSUME NEW t, IsWork(t), NEW sp \in Spellings, NEW old, NEW doc
  PROVE  IsList(Moved(t, sp, old, doc))
<1> DEFINE c == t.cites[sp]
           m == Moved(t, sp, old, doc)
           R == {m[key] : key \in DOMAIN c}
<1>1. PICK S : c \in Seq(S)
  BY DEF IsWork, IsList
<1>2. Len(c) \in Nat /\ DOMAIN c = 1..Len(c)
  BY <1>1
<1>3. m = [key \in DOMAIN c |-> m[key]]
  BY DEF Moved
<1> HIDE DEF c, m
<1>4. m \in [1..Len(c) -> R]
  BY <1>2, <1>3
<1>5. m \in Seq(R)
  BY <1>2, <1>4
<1> QED
  BY <1>5 DEF IsList, m

LEMMA SyncedIsWork ==
  ASSUME NEW t, IsWork(t), NEW sp \in Spellings,
         \A key \in DOMAIN t.cites[sp] : t.cites[sp][key] \in Spans(t.spec)
  PROVE  /\ IsWork(Synced(t, sp))
         /\ Synced(t, sp).spec = t.spec /\ Synced(t, sp).cites = t.cites
         /\ Synced(t, sp).ledger[sp] = Ledger(t.spec, Pins(t, sp))
         /\ \A other \in Spellings \ {sp} : Synced(t, sp).ledger[other] = t.ledger[other]
<1> DEFINE ledger == Ledger(t.spec, Pins(t, sp))
<1>1. ledger.spec = t.spec /\ ledger.pins = Pins(t, sp)
  BY DEF Ledger
<1>2. PinsOf(ledger)
  <2> HIDE DEF ledger
  <2> SUFFICES ASSUME NEW key \in DOMAIN Pins(t, sp)
               PROVE  /\ Pins(t, sp)[key].at \in Spans(t.spec)
                      /\ Pins(t, sp)[key].text = Passage(t.spec, Pins(t, sp)[key].at)
    BY <1>1 DEF PinsOf
  <2>1. key \in DOMAIN t.cites[sp]
    BY DEF Pins
  <2>2. Pins(t, sp)[key].at = t.cites[sp][key]
    BY <2>1 DEF Pins
  <2>3. Pins(t, sp)[key].text = Passage(t.spec, t.cites[sp][key])
    BY <2>1 DEF Pins
  <2> QED
    BY <2>1, <2>2, <2>3
<1>3. Synced(t, sp) = [t EXCEPT !.ledger[sp] = ledger]
  BY DEF Synced
<1> HIDE DEF ledger
<1>4. /\ Synced(t, sp).spec = t.spec /\ Synced(t, sp).pin = t.pin /\ Synced(t, sp).cites = t.cites
      /\ Synced(t, sp).ledger = [t.ledger EXCEPT ![sp] = ledger]
      /\ Synced(t, sp) = [spec |-> t.spec, pin |-> t.pin, manifest |-> t.manifest,
                          cites |-> t.cites, table |-> t.table,
                          ledger |-> [t.ledger EXCEPT ![sp] = ledger]]
  BY <1>3 DEF IsWork
<1>5. /\ [t.ledger EXCEPT ![sp] = ledger][sp] = ledger
      /\ \A other \in Spellings \ {sp} : [t.ledger EXCEPT ![sp] = ledger][other] = t.ledger[other]
      /\ [t.ledger EXCEPT ![sp] = ledger] =
           [other \in Spellings |-> [t.ledger EXCEPT ![sp] = ledger][other]]
  BY DEF IsWork
<1>6. IsWork(Synced(t, sp))
  BY <1>1, <1>2, <1>4, <1>5 DEF IsWork
<1> QED
  BY <1>4, <1>5, <1>6 DEF ledger

LEMMA AllowedResolves ==
  ASSUME NEW t, NEW h, NEW sp, NEW accepted, ~SyncRefused(t, h, sp, accepted)
  PROVE  \A key \in DOMAIN t.cites[sp] : t.cites[sp][key] \in Spans(t.spec)
BY DEF SyncRefused, Resolves

LEMMA InitLedgers == PinsInit => LedgersAreTrue
<1> SUFFICES ASSUME PinsInit PROVE LedgersAreTrue
  OBVIOUS
<1> DEFINE cited == [spec |-> First, pin |-> First, manifest |-> First, cites |-> FirstCites,
                     table |-> FirstCites.anchor, ledger |-> [sp \in Spellings |-> NoLedger]]
<1>1. << >> \in Document
  BY DEF Document
<1>2. IsWork(cited)
  <2>1. \A sp \in Spellings : IsList(FirstCites[sp])
    BY FirstCitesAssumption DEF IsList
  <2>2. FirstCites = [sp \in Spellings |-> FirstCites[sp]]
    BY FirstCitesAssumption
  <2>3. IsList(FirstCites.anchor)
    BY <2>1 DEF Spellings
  <2> QED
    BY <1>1, <2>1, <2>2, <2>3, DocumentAssumption DEF IsWork, PinsOf, NoLedger
<1>3. ASSUME NEW sp \in Spellings
      PROVE  \A key \in DOMAIN FirstCites[sp] : FirstCites[sp][key] \in Spans(First)
  <2>1. FirstCites[sp] \in Seq(Spans(First))
    BY FirstCitesAssumption
  <2> QED
    BY <2>1
<1>4. cited.spec = First /\ cited.cites = FirstCites
  OBVIOUS
<1>5. "citation" \in Spellings /\ "anchor" \in Spellings
  BY DEF Spellings
<1>6. work = Synced(Synced(cited, "citation"), "anchor")
  BY DEF PinsInit
<1> HIDE DEF cited
<1>7. /\ IsWork(Synced(cited, "citation")) /\ Synced(cited, "citation").spec = First
      /\ Synced(cited, "citation").cites = FirstCites
  BY <1>2, <1>3, <1>4, <1>5, SyncedIsWork
<1>8. IsWork(work)
  BY <1>3, <1>5, <1>6, <1>7, SyncedIsWork
<1>9. IsVendor(Idle)
  BY <1>1 DEF IsVendor, Idle
<1> QED
  BY <1>8, <1>9 DEF LedgersAreTrue, PinsInit

LEMMA NextLedgers == LedgersAreTrue /\ [PinsNext]_pinsVars => LedgersAreTrue'
<1> SUFFICES ASSUME LedgersAreTrue, [PinsNext]_pinsVars PROVE LedgersAreTrue'
  OBVIOUS
<1>1. IsWork(work) /\ IsWork(head) /\ IsVendor(run)
  BY DEF LedgersAreTrue
<1>2. IsVendor(Idle)
  <2>1. << >> \in Document
    BY DEF Document
  <2> QED
    BY <2>1 DEF IsVendor, Idle
<1>3. "citation" \in Spellings /\ "anchor" \in Spellings
  BY DEF Spellings
<1>4. \A pc : IsVendor([run EXCEPT !.pc = pc])
  BY <1>1 DEF IsVendor
<1>5. CASE UNCHANGED pinsVars
  BY <1>1, <1>5 DEF pinsVars, LedgersAreTrue
<1>6. CASE StartVendor
  <2>1. ASSUME NEW doc \in Upstream
        PROVE  IsVendor([pc |-> "spec", doc |-> doc, old |-> work.spec, start |-> work, failed |-> {}])
    BY DocumentAssumption DEF IsVendor
  <2> QED
    BY <1>1, <1>6, <2>1 DEF StartVendor, LedgersAreTrue
<1>7. ASSUME NEW t, IsWork(t), NEW pc, EditTree(t, pc) PROVE LedgersAreTrue'
  BY <1>1, <1>4, <1>7 DEF EditTree, LedgersAreTrue
<1>8. CASE WriteSpec
  BY <1>1, <1>7, <1>8, EditsOfWork DEF WriteSpec, IsVendor
<1>9. CASE WritePin
  <2>1. IsWork([work EXCEPT !.pin = run.doc])
    BY <1>1, EditsOfWork DEF IsVendor
  <2> QED
    BY <1>1, <1>2, <1>7, <1>9, <2>1 DEF WritePin, End, LedgersAreTrue
<1>10. ASSUME NEW sp \in Spellings, Remap(sp) PROVE LedgersAreTrue'
  <2> DEFINE newTree == [work EXCEPT !.cites[sp] = Moved(work, sp, run.old, run.doc)]
             pc == IF sp = "citation" THEN "anchor" ELSE "sync citation"
  <2>1. EditTree(newTree, pc)
    BY <1>1, <1>10 DEF Remap, Moved, IsWork
  <2>2. IsWork(newTree)
    BY <1>1, MovedIsList, CitesAreNoLedger
  <2> HIDE DEF newTree, pc
  <2> QED
    BY <1>7, <2>1, <2>2
<1>11. ASSUME NEW sp \in Spellings, NEW accepted, ~SyncRefused(work, head, sp, accepted)
       PROVE  IsWork(Synced(work, sp))
  BY <1>1, <1>11, AllowedResolves, SyncedIsWork
<1>12. CASE ResyncCitations
  <2>1. IsWork(work')
    BY <1>1, <1>3, <1>11, <1>12 DEF ResyncCitations
  <2>2. IsVendor(run')
    BY <1>1, <1>12 DEF ResyncCitations, IsVendor
  <2> QED
    BY <1>1, <1>12, <2>1, <2>2 DEF ResyncCitations, LedgersAreTrue
<1>13. CASE ResyncAnchors
  <2>1. IsWork(work')
    BY <1>1, <1>3, <1>11, <1>13 DEF ResyncAnchors
  <2> QED
    BY <1>1, <1>2, <1>13, <2>1 DEF ResyncAnchors, End, LedgersAreTrue
<1>14. CASE VendorDies
  BY <1>1, <1>2, <1>14 DEF VendorDies, LedgersAreTrue
<1>15. CASE Recite
  <2>1. IsWork(work')
    <3>1. ASSUME NEW sp \in Spellings, NEW cites, IsList(cites), work' = [work EXCEPT !.cites[sp] = cites]
          PROVE  IsWork(work')
      BY <1>1, <3>1, CitesAreNoLedger
    <3>2. PICK sp \in Spellings :
            \/ \E key \in DOMAIN work.cites[sp] : \E span : work' = [work EXCEPT !.cites[sp][key] = span]
            \/ \E key \in DOMAIN work.cites[sp] : work' = [work EXCEPT !.cites[sp] = RemoveAt(@, key)]
            \/ \E span : work' = [work EXCEPT !.cites[sp] = <<span>> \o @]
      BY <1>15 DEF Recite
    <3>3. IsList(work.cites[sp])
      BY <1>1 DEF IsWork
    <3>4. ASSUME NEW key \in DOMAIN work.cites[sp], NEW span, work' = [work EXCEPT !.cites[sp][key] = span]
          PROVE  IsWork(work')
      <4>1. work' = [work EXCEPT !.cites[sp] = [work.cites[sp] EXCEPT ![key] = span]]
        BY <3>4
      <4>2. IsList([work.cites[sp] EXCEPT ![key] = span])
        BY <3>3, ListsStayLists
      <4> QED
        BY <3>1, <4>1, <4>2
    <3>5. ASSUME NEW key \in DOMAIN work.cites[sp],
                 work' = [work EXCEPT !.cites[sp] = RemoveAt(@, key)]
          PROVE  IsWork(work')
      <4>1. work' = [work EXCEPT !.cites[sp] = RemoveAt(work.cites[sp], key)]
        BY <1>1, <3>5 DEF IsWork
      <4>2. IsList(RemoveAt(work.cites[sp], key))
        BY <3>3, ListsStayLists
      <4> QED
        BY <3>1, <4>1, <4>2
    <3>6. ASSUME NEW span, work' = [work EXCEPT !.cites[sp] = <<span>> \o @]
          PROVE  IsWork(work')
      <4>1. work' = [work EXCEPT !.cites[sp] = <<span>> \o work.cites[sp]]
        BY <1>1, <3>6 DEF IsWork
      <4>2. IsList(<<span>> \o work.cites[sp])
        BY <3>3, ListsGrow
      <4> QED
        BY <3>1, <4>1, <4>2
    <3> QED
      BY <3>2, <3>4, <3>5, <3>6
  <2> QED
    BY <1>1, <1>15, <2>1 DEF Recite, AtRest, LedgersAreTrue
<1>16. CASE Sync
  <2>1. IsWork(work')
    BY <1>11, <1>16 DEF Sync
  <2> QED
    BY <1>1, <1>16, <2>1 DEF Sync, AtRest, LedgersAreTrue
<1>17. CASE Commit
  BY <1>1, <1>17 DEF Commit, AtRest, LedgersAreTrue
<1>18. CASE Reset
  BY <1>1, <1>18 DEF Reset, AtRest, LedgersAreTrue
<1>19. CASE Regenerate
  <2>1. IsWork(work')
    BY <1>1, <1>19, RegeneratedIsWork DEF Regenerate
  <2> QED
    BY <1>1, <1>19, <2>1 DEF Regenerate, AtRest, LedgersAreTrue
<1> QED
  BY <1>5, <1>6, <1>8, <1>9, <1>10, <1>12, <1>13, <1>14, <1>15, <1>16, <1>17, <1>18, <1>19 DEF PinsNext

LEMMA PartOfSeq ==
  ASSUME NEW S, NEW s \in Seq(S), NEW lo \in 1..Len(s), NEW hi \in lo..Len(s)
  PROVE  SubSeq(s, lo, hi) = [i \in 1..(hi - lo + 1) |-> s[i + lo - 1]]
OBVIOUS

\* A line of the text a citation was pinned to, when its ledger may be written:
\* the document does not have it only where the citation is not.
LEMMA WrittenWasLookedFor ==
  ASSUME NEW t, IsWork(t), NEW h, NEW sp \in Spellings, ~SyncRefused(t, h, sp, {}),
         NEW key \in DOMAIN t.ledger[sp].pins, key \in DOMAIN t.cites[sp],
         NEW line \in Range(t.ledger[sp].pins[key].text)
  PROVE  ~LeftBehind(t.spec, line, t.cites[sp][key])
<1> DEFINE here   == t.cites[sp][key]
           was    == t.ledger[sp].pins[key].at
           pinned == t.ledger[sp].pins[key].text
           before == t.ledger[sp].spec
<1>1. here \in Spans(t.spec)
  BY AllowedResolves
<1>2. was \in Spans(before) /\ pinned = Passage(before, was) /\ before \in Document /\ t.spec \in Document
  BY DEF IsWork, PinsOf
<1>3. ASSUME NEW doc \in Document, NEW span \in Spans(doc), NEW l \in Range(Passage(doc, span))
      PROVE  \E n \in span.lo..span.hi : l = doc[n]
  <2>1. Len(doc) \in Nat /\ span.lo \in 1..Len(doc) /\ span.hi \in 1..Len(doc) /\ span.lo <= span.hi
    BY DEF Document, Spans
  <2>2. Passage(doc, span) = SubSeq(doc, span.lo, span.hi)
    BY <2>1 DEF Passage
  <2>3. SubSeq(doc, span.lo, span.hi) =
          [i \in 1..(span.hi - span.lo + 1) |-> doc[i + span.lo - 1]]
    BY <2>1, PartOfSeq DEF Document
  <2>4. PICK i \in 1..(span.hi - span.lo + 1) : l = doc[i + span.lo - 1]
    BY <2>2, <2>3 DEF Range
  <2>5. i + span.lo - 1 \in span.lo..span.hi
    BY <2>1
  <2> QED
    BY <2>4, <2>5
<1>4. CASE key \notin Changed(t, sp)
  <2>1. Pins(t, sp)[key].text = Passage(t.spec, here)
    BY DEF Pins
  <2>2. pinned = Passage(t.spec, here)
    BY <1>4, <2>1 DEF Changed
  <2>3. PICK n \in here.lo..here.hi : line = t.spec[n]
    BY <1>1, <1>2, <1>3, <2>2
  <2> QED
    BY <1>1, <1>2, <2>3, LineIsOnItsSpan
<1>5. CASE key \in Changed(t, sp)
  <2>1. h.spec = before
    BY <1>5 DEF SyncRefused, BeforeImage
  <2>2. ~MovedOff(h.spec, was, t.spec, here)
    BY <1>5 DEF SyncRefused
  <2>3. PICK n \in was.lo..was.hi : line = before[n]
    BY <1>2, <1>3
  <2> QED
    BY <2>1, <2>2, <2>3 DEF MovedOff
<1> QED
  BY <1>4, <1>5

\* A ledger a re-vendor writes has judged every citation by the text it was
\* pinned to, for any revisions, citations, commits and crashes (committed_spec,
\* judge, abandoned): what a ledger records is a passage of the revision it
\* names, and the last commit is only asked when it has that revision.
THEOREM PinnedTextIsNotWalkedAwayFrom == PinsSpec => RevendorKeepsItsText
<1> DEFINE Keeps == \A sp \in Spellings :
             run.pc # "idle" /\ work'.ledger[sp] # work.ledger[sp] =>
               \A key \in DOMAIN work.ledger[sp].pins \cap DOMAIN work'.ledger[sp].pins :
                 \A line \in Range(work.ledger[sp].pins[key].text) :
                   ~LeftBehind(work.spec, line, work.cites[sp][key])
<1>1. LedgersAreTrue /\ [PinsNext]_pinsVars => [Keeps]_pinsVars
  <2> SUFFICES ASSUME LedgersAreTrue, PinsNext, NEW sp \in Spellings,
                      run.pc # "idle", work'.ledger[sp] # work.ledger[sp],
                      NEW key \in DOMAIN work.ledger[sp].pins \cap DOMAIN work'.ledger[sp].pins,
                      NEW line \in Range(work.ledger[sp].pins[key].text)
               PROVE  ~LeftBehind(work.spec, line, work.cites[sp][key])
    BY DEF pinsVars
  <2>1. IsWork(work)
    BY DEF LedgersAreTrue
  <2>2. PICK by \in Spellings : ~SyncRefused(work, head, by, {}) /\ work' = Synced(work, by)
    <3>1. "citation" \in Spellings /\ "anchor" \in Spellings
      BY DEF Spellings
    <3>2. work'.ledger # work.ledger
      OBVIOUS
    <3>3. \/ ResyncCitations \/ ResyncAnchors \/ StartVendor \/ WriteSpec \/ WritePin
          \/ VendorDies \/ \E s \in Spellings : Remap(s)
      BY DEF PinsNext, Recite, Sync, Regenerate, Commit, Reset, AtRest
    <3>4. ~StartVendor /\ ~VendorDies
      BY <3>2 DEF StartVendor, VendorDies
    <3>5. ~WriteSpec
      BY <2>1, <3>2 DEF WriteSpec, EditTree, IsWork
    <3>6. ~WritePin
      BY <2>1, <3>2 DEF WritePin, EditTree, IsWork
    <3>7. ASSUME NEW s \in Spellings, Remap(s) PROVE FALSE
      <4>1. PICK cites : work' = [work EXCEPT !.cites[s] = cites]
        BY <2>1, <3>7 DEF Remap, EditTree, IsWork
      <4> QED
        BY <2>1, <3>2, <4>1 DEF IsWork
    <3>8. ASSUME ResyncCitations
          PROVE  ~SyncRefused(work, head, "citation", {}) /\ work' = Synced(work, "citation")
      BY <3>2, <3>8 DEF ResyncCitations
    <3>9. ASSUME ResyncAnchors
          PROVE  ~SyncRefused(work, head, "anchor", {}) /\ work' = Synced(work, "anchor")
      BY <3>2, <3>9 DEF ResyncAnchors
    <3> QED
      BY <3>1, <3>3, <3>4, <3>5, <3>6, <3>7, <3>8, <3>9
  <2>3. \A k \in DOMAIN work.cites[by] : work.cites[by][k] \in Spans(work.spec)
    BY <2>2, AllowedResolves
  <2>4. /\ work'.ledger[by] = Ledger(work.spec, Pins(work, by))
        /\ \A other \in Spellings \ {by} : work'.ledger[other] = work.ledger[other]
    BY <2>1, <2>2, <2>3, SyncedIsWork
  <2>5. sp = by
    BY <2>4
  <2>6. DOMAIN work'.ledger[sp].pins = DOMAIN work.cites[sp]
    BY <2>4, <2>5 DEF Ledger, Pins
  <2> QED
    BY <2>1, <2>2, <2>5, <2>6, WrittenWasLookedFor
<1> QED
  BY <1>1, InitLedgers, NextLedgers, PTL DEF PinsSpec, RevendorKeepsItsText

----------------------------------------------------------------------------
(* SpecPins: the lines of a document that are not blank *)

WithLine(doc, n, s) == IF doc[n] = << >> THEN s ELSE Append(s, n)

NumbersTo(doc, k, u) ==
  u = [n \in 0..k |-> IF n = 0 THEN << >> ELSE WithLine(doc, n, u[n - 1])]

LEMMA NumbersExist ==
  ASSUME NEW doc, NEW k \in Nat
  PROVE  \E u : NumbersTo(doc, k, u)
<1> DEFINE Without == {m \in Nat : \A u : ~NumbersTo(doc, m, u)}
<1> SUFFICES ASSUME Without # {} PROVE FALSE
  OBVIOUS
<1>1. PICK m \in Without : \A l \in Without : m <= l
  BY LeastOfSet
<1>2. CASE m = 0
  <2> DEFINE u == [n \in 0..0 |-> << >>]
  <2>1. u = [n \in 0..0 |-> IF n = 0 THEN << >> ELSE WithLine(doc, n, u[n - 1])]
    OBVIOUS
  <2> QED
    BY <1>1, <1>2, <2>1 DEF NumbersTo
<1>3. CASE m # 0
  <2>1. m - 1 \in Nat /\ m - 1 \notin Without
    BY <1>1, <1>3
  <2>2. PICK v : NumbersTo(doc, m - 1, v)
    BY <2>1
  <2> DEFINE u == [n \in 0..m |-> IF n = m THEN WithLine(doc, m, v[m - 1]) ELSE v[n]]
  <2>3. ASSUME NEW n \in 0..m
        PROVE  u[n] = IF n = 0 THEN << >> ELSE WithLine(doc, n, u[n - 1])
    BY <1>3, <2>2 DEF NumbersTo
  <2>4. u = [n \in 0..m |-> IF n = 0 THEN << >> ELSE WithLine(doc, n, u[n - 1])]
    <3>1. u = [n \in 0..m |-> u[n]]
      OBVIOUS
    <3> HIDE DEF u
    <3> QED
      BY <2>3, <3>1
  <2>5. NumbersTo(doc, m, u)
    BY <2>4 DEF NumbersTo
  <2> QED
    BY <1>1, <2>5
<1> QED
  BY <1>2, <1>3

\* The numbers, up to line n, of the lines that are not blank: in order, each of
\* them, and no other.
Numbers(doc, n, s) ==
  /\ s \in Seq(1..Len(doc))
  /\ \A i \in 1..Len(s) : s[i] <= n /\ doc[s[i]] # << >>
  /\ \A i, j \in 1..Len(s) : i < j => s[i] < s[j]
  /\ \A l \in 1..n : doc[l] # << >> => \E i \in 1..Len(s) : s[i] = l

LEMMA NumbersGrow ==
  ASSUME NEW doc \in Document, NEW n \in 1..Len(doc), NEW s, Numbers(doc, n - 1, s)
  PROVE  Numbers(doc, n, WithLine(doc, n, s))
<1>1. Len(doc) \in Nat /\ n - 1 \in Nat /\ s \in Seq(1..Len(doc)) /\ Len(s) \in Nat
  BY DEF Document, Numbers
<1>2. CASE doc[n] = << >>
  <2>1. \A l \in 1..n : doc[l] # << >> => l \in 1..(n - 1)
    BY <1>1, <1>2
  <2>2. \A i \in 1..Len(s) : s[i] \in 1..Len(doc) /\ s[i] <= n
    BY <1>1 DEF Numbers
  <2>3. Numbers(doc, n, s)
    BY <2>1, <2>2 DEF Numbers
  <2> QED
    BY <1>2, <2>3 DEF WithLine
<1>3. CASE doc[n] # << >>
  <2> DEFINE u == Append(s, n)
  <2>1. /\ u \in Seq(1..Len(doc)) /\ Len(u) = Len(s) + 1 /\ u[Len(s) + 1] = n
        /\ \A i \in 1..Len(s) : u[i] = s[i]
    BY <1>1
  <2>2. \A i \in 1..Len(u) : i \in 1..Len(s) \/ i = Len(s) + 1
    BY <1>1, <2>1
  <2>3. \A i \in 1..Len(s) : s[i] \in 1..Len(doc) /\ s[i] <= n - 1 /\ s[i] < n
    BY <1>1 DEF Numbers
  <2> HIDE DEF u
  <2>4. \A i \in 1..Len(u) : u[i] <= n /\ doc[u[i]] # << >>
    <3> SUFFICES ASSUME NEW i \in 1..Len(u) PROVE u[i] <= n /\ doc[u[i]] # << >>
      OBVIOUS
    <3>1. CASE i \in 1..Len(s)
      <4>1. u[i] = s[i] /\ s[i] <= n /\ doc[s[i]] # << >>
        BY <1>1, <2>1, <2>3, <3>1 DEF Numbers
      <4> QED
        BY <4>1
    <3>2. CASE i = Len(s) + 1
      BY <1>1, <1>3, <2>1, <3>2
    <3> QED
      BY <2>2, <3>1, <3>2
  <2>5. \A i, j \in 1..Len(u) : i < j => u[i] < u[j]
    <3> SUFFICES ASSUME NEW i \in 1..Len(u), NEW j \in 1..Len(u), i < j PROVE u[i] < u[j]
      OBVIOUS
    <3>1. i \in 1..Len(s)
      BY <1>1, <2>1
    <3>2. CASE j = Len(s) + 1
      BY <2>1, <2>3, <3>1, <3>2
    <3>3. CASE j \in 1..Len(s)
      BY <2>1, <3>1, <3>3 DEF Numbers
    <3> QED
      BY <2>2, <3>2, <3>3
  <2>6. \A l \in 1..n : doc[l] # << >> => \E i \in 1..Len(u) : u[i] = l
    <3> SUFFICES ASSUME NEW l \in 1..n, doc[l] # << >> PROVE \E i \in 1..Len(u) : u[i] = l
      OBVIOUS
    <3>1. CASE l = n
      <4>1. Len(s) + 1 \in 1..Len(u)
        BY <1>1, <2>1
      <4> QED
        BY <2>1, <3>1, <4>1
    <3>2. CASE l # n
      <4>1. l \in 1..(n - 1)
        BY <1>1, <3>2
      <4>2. PICK i \in 1..Len(s) : s[i] = l
        BY <4>1 DEF Numbers
      <4>3. i \in 1..Len(u)
        BY <1>1, <2>1
      <4> QED
        BY <2>1, <4>2, <4>3
    <3> QED
      BY <3>1, <3>2
  <2>7. Numbers(doc, n, u)
    BY <2>1, <2>4, <2>5, <2>6 DEF Numbers
  <2> QED
    BY <1>3, <2>7 DEF u, WithLine
<1> QED
  BY <1>2, <1>3

LEMMA NonBlankNumbers ==
  ASSUME NEW doc \in Document
  PROVE  Numbers(doc, Len(doc), NonBlank(doc))
<1> DEFINE u == NonBlankUpTo(doc)
<1>1. Len(doc) \in Nat
  BY DEF Document
<1>2. NumbersTo(doc, Len(doc), u)
  <2>1. u = CHOOSE v : NumbersTo(doc, Len(doc), v)
    BY Zenon DEF NonBlankUpTo, NumbersTo, WithLine
  <2>2. \E v : NumbersTo(doc, Len(doc), v)
    BY <1>1, NumbersExist
  <2> HIDE DEF u
  <2> QED
    BY <2>1, <2>2
<1>3. /\ u[0] = << >>
      /\ \A n \in 1..Len(doc) : u[n] = WithLine(doc, n, u[n - 1])
  BY <1>1, <1>2 DEF NumbersTo
<1> HIDE DEF u
<1> DEFINE Others == {n \in 0..Len(doc) : ~Numbers(doc, n, u[n])}
<1>4. CASE Others = {}
  <2>1. Len(doc) \in 0..Len(doc)
    BY <1>1
  <2>2. Numbers(doc, Len(doc), u[Len(doc)])
    BY <1>4, <2>1
  <2> QED
    BY <2>2 DEF NonBlank, u
<1>5. CASE Others # {}
  <2>1. Others \subseteq Nat
    BY <1>1
  <2>2. PICK n \in Others : \A l \in Others : n <= l
    BY <1>5, <2>1, LeastOfSet
  <2>3. n \in 0..Len(doc) /\ ~Numbers(doc, n, u[n])
    OBVIOUS
  <2>4. Numbers(doc, 0, << >>)
    <3>1. << >> \in Seq(1..Len(doc)) /\ Len(<< >>) = 0
      OBVIOUS
    <3> QED
      BY <3>1 DEF Numbers
  <2>5. n \in 1..Len(doc) /\ n - 1 \in 0..Len(doc)
    BY <1>1, <1>3, <2>3, <2>4
  <2>6. Numbers(doc, n - 1, u[n - 1])
    BY <1>1, <2>2, <2>5
  <2> QED
    BY <1>3, <2>3, <2>5, <2>6, NumbersGrow
<1> QED
  BY <1>4, <1>5

----------------------------------------------------------------------------
(* SpecPins: the matching blocks of two sequences of lines *)

LEMMA LargestOfSet ==
  ASSUME NEW bound \in Nat, NEW set, set \subseteq 0..bound, set # {}
  PROVE  \E k \in set : \A l \in set : l <= k
<1> DEFINE short == {bound - k : k \in set}
<1>0. \A k \in set : k \in 0..bound /\ bound - k \in Nat
  OBVIOUS
<1>1. short \subseteq Nat /\ short # {}
  BY <1>0
<1>2. PICK s \in short : \A o \in short : s <= o
  BY <1>1, LeastOfSet
<1>3. PICK k \in set : s = bound - k
  BY <1>2
<1>4. ASSUME NEW l \in set PROVE l <= k
  <2>1. bound - l \in short /\ l \in 0..bound /\ k \in 0..bound
    OBVIOUS
  <2>2. bound - k <= bound - l
    BY <1>2, <1>3, <2>1
  <2> QED
    BY <2>1, <2>2
<1> QED
  BY <1>3, <1>4

LEMMA LongestIsOne ==
  ASSUME NEW bound \in Nat, NEW ms, ms # {},
         \A m \in ms : m.k \in 0..bound /\ m.i \in Nat /\ m.j \in Nat
  PROVE  Longest(ms) \in ms
<1>1. PICK m1 \in ms : \A o \in ms : o.k <= m1.k
  <2> DEFINE ks == {m.k : m \in ms}
  <2>1. ks \subseteq 0..bound /\ ks # {}
    OBVIOUS
  <2>2. PICK k \in ks : \A l \in ks : l <= k
    BY <2>1, LargestOfSet
  <2> QED
    BY <2>2
<1> DEFINE longest == {m \in ms : m.k = m1.k}
<1>2. PICK m2 \in longest : \A o \in longest : m2.i <= o.i
  <2> DEFINE is == {m.i : m \in longest}
  <2>1. is \subseteq Nat /\ is # {}
    OBVIOUS
  <2>2. PICK i \in is : \A l \in is : i <= l
    BY <2>1, LeastOfSet
  <2> QED
    BY <2>2
<1> DEFINE first == {m \in longest : m.i = m2.i}
<1>3. PICK m3 \in first : \A o \in first : m3.j <= o.j
  <2> DEFINE js == {m.j : m \in first}
  <2>1. js \subseteq Nat /\ js # {}
    OBVIOUS
  <2>2. PICK j \in js : \A l \in js : j <= l
    BY <2>1, LeastOfSet
  <2> QED
    BY <2>2
<1> DEFINE Best(m) == \A o \in ms : \/ m.k > o.k
                                    \/ m.k = o.k /\ (m.i < o.i \/ (m.i = o.i /\ m.j <= o.j))
<1>4. ASSUME NEW o \in ms
      PROVE  \/ m3.k > o.k
             \/ m3.k = o.k /\ (m3.i < o.i \/ (m3.i = o.i /\ m3.j <= o.j))
  <2>1. m3.k = m1.k /\ m3.i = m2.i /\ m3 \in ms
    OBVIOUS
  <2>2. o.k <= m1.k /\ o.k \in Nat /\ m1.k \in Nat
    BY <1>1
  <2>3. CASE o.k = m1.k
    <3>1. m2.i <= o.i /\ o.i \in Nat /\ m2.i \in Nat
      BY <1>2, <2>3
    <3>2. o.i = m2.i => m3.j <= o.j
      BY <1>3, <2>3
    <3> QED
      BY <2>1, <2>3, <3>1, <3>2
  <2>4. CASE o.k # m1.k
    BY <2>1, <2>2, <2>4
  <2> QED
    BY <2>3, <2>4
<1>5. m3 \in ms /\ Best(m3)
  BY <1>4
<1>6. Longest(ms) = CHOOSE m \in ms : Best(m)
  BY DEF Longest
<1> HIDE DEF Best
<1> QED
  BY <1>5, <1>6

LEMMA CommonRuns ==
  ASSUME NEW a, NEW b, Len(a) \in Nat, Len(b) \in Nat, NEW w \in Windows(a, b),
         NEW m \in Common(a, b, w)
  PROVE  /\ m.i \in Nat /\ m.j \in Nat /\ m.k \in Nat /\ m.k >= 1
         /\ w.alo <= m.i /\ m.i + m.k <= w.ahi /\ w.blo <= m.j /\ m.j + m.k <= w.bhi
         /\ \A n \in 1..m.k : a[m.i + n] = b[m.j + n]
         /\ Before(w, m) \in Windows(a, b) /\ Behind(w, m) \in Windows(a, b)
<1>1. w.alo \in 0..Len(a) /\ w.ahi \in 0..Len(a) /\ w.blo \in 0..Len(b) /\ w.bhi \in 0..Len(b)
  BY DEF Windows
<1>2. m.i \in w.alo..(w.ahi - 1) /\ m.j \in w.blo..(w.bhi - 1) /\ m.k \in 1..(w.ahi - w.alo)
  BY DEF Common
<1>3. m.i + m.k <= w.ahi /\ m.j + m.k <= w.bhi
  BY DEF Common
<1>6. \A n \in 1..m.k : a[m.i + n] = b[m.j + n]
  BY DEF Common
<1>4. Before(w, m) \in Windows(a, b)
  BY <1>1, <1>2 DEF Before, Windows
<1>5. Behind(w, m) \in Windows(a, b)
  <2>1. m.i + m.k \in 0..Len(a) /\ m.j + m.k \in 0..Len(b)
    <3>1. w.alo \in Int /\ w.ahi \in Int /\ w.blo \in Int /\ w.bhi \in Int
      BY <1>1
    <3>2. m.i \in Nat /\ m.j \in Nat /\ m.k \in Nat
      BY <1>1, <1>2, <3>1
    <3>3. w.ahi <= Len(a) /\ w.bhi <= Len(b)
      BY <1>1
    <3>4. m.i + m.k \in 0..Len(a)
      BY <1>3, <3>1, <3>2, <3>3
    <3>5. m.j + m.k \in 0..Len(b)
      BY <1>3, <3>1, <3>2, <3>3
    <3> QED
      BY <3>4, <3>5
  <2> QED
    BY <1>1, <2>1 DEF Behind, Windows
<1>7. m.i \in Nat /\ w.alo <= m.i
  BY <1>1, <1>2
<1>8. m.j \in Nat /\ w.blo <= m.j
  BY <1>1, <1>2
<1>9. m.k \in Nat /\ m.k >= 1
  BY <1>1, <1>2
<1> QED
  BY <1>3, <1>4, <1>5, <1>6, <1>7, <1>8, <1>9

LEMMA LongestIsCommon ==
  ASSUME NEW a, NEW b, Len(a) \in Nat, Len(b) \in Nat, NEW w \in Windows(a, b),
         Common(a, b, w) # {}
  PROVE  Longest(Common(a, b, w)) \in Common(a, b, w)
<1>1. ASSUME NEW m \in Common(a, b, w)
      PROVE  m.k \in 0..Len(a) /\ m.i \in Nat /\ m.j \in Nat
  <2>1. w.ahi \in 0..Len(a)
    BY DEF Windows
  <2> QED
    BY <2>1, CommonRuns
<1> QED
  BY <1>1, LongestIsOne

\* The blocks of a window, given those of the windows before and behind its
\* longest run.
BlocksOf(a, b, w, f) ==
  LET ms == Common(a, b, w) IN
  IF ms = {} THEN {}
  ELSE LET m == Longest(ms) IN {m} \cup f[Before(w, m)] \cup f[Behind(w, m)]

LEMMA SmallerWindowsOnly ==
  ASSUME NEW a, NEW b, Len(a) \in Nat, Len(b) \in Nat, NEW w \in Windows(a, b),
         NEW f, NEW g,
         \A v \in Windows(a, b) : v.ahi - v.alo < w.ahi - w.alo => f[v] = g[v]
  PROVE  BlocksOf(a, b, w, f) = BlocksOf(a, b, w, g)
<1>1. CASE Common(a, b, w) = {}
  BY <1>1 DEF BlocksOf
<1>2. CASE Common(a, b, w) # {}
  <2> DEFINE m == Longest(Common(a, b, w))
  <2>1. m \in Common(a, b, w)
    BY <1>2, LongestIsCommon
  <2> HIDE DEF m
  <2>2. /\ Before(w, m) \in Windows(a, b) /\ Behind(w, m) \in Windows(a, b)
        /\ w.alo \in Nat /\ w.ahi \in Nat /\ m.i \in Nat /\ m.k \in Nat /\ m.k >= 1
        /\ w.alo <= m.i /\ m.i + m.k <= w.ahi
    BY <2>1, CommonRuns DEF Windows
  <2>3. Before(w, m).ahi - Before(w, m).alo < w.ahi - w.alo
    BY <2>2 DEF Before
  <2>4. Behind(w, m).ahi - Behind(w, m).alo < w.ahi - w.alo
    BY <2>2 DEF Behind
  <2>5. f[Before(w, m)] = g[Before(w, m)] /\ f[Behind(w, m)] = g[Behind(w, m)]
    BY <2>2, <2>3, <2>4
  <2> QED
    BY <1>2, <2>5 DEF BlocksOf, m
<1> QED
  BY <1>1, <1>2

LEMMA BlocksExist ==
  ASSUME NEW a, NEW b, Len(a) \in Nat, Len(b) \in Nat, NEW size \in Nat
  PROVE  \E f : \A w \in Windows(a, b) : w.ahi - w.alo <= size => f[w] = BlocksOf(a, b, w, f)
<1> DEFINE Upto(n, f) == \A w \in Windows(a, b) : w.ahi - w.alo <= n => f[w] = BlocksOf(a, b, w, f)
           Without == {n \in Nat : \A f : ~Upto(n, f)}
<1>0. \A w \in Windows(a, b) : w.ahi \in Nat /\ w.alo \in Nat /\ w.ahi - w.alo \in Int
  BY DEF Windows
<1> SUFFICES ASSUME Without # {} PROVE FALSE
  OBVIOUS
<1>1. PICK n \in Without : \A l \in Without : n <= l
  BY LeastOfSet
<1>2. CASE n = 0
  <2> DEFINE f == [w \in Windows(a, b) |-> {}]
  <2>1. ASSUME NEW w \in Windows(a, b), w.ahi - w.alo <= 0
        PROVE  f[w] = BlocksOf(a, b, w, f)
    <3>1. Common(a, b, w) = {}
      <4> SUFFICES ASSUME NEW m \in Common(a, b, w) PROVE FALSE
        OBVIOUS
      <4> HIDE DEF Upto, Without, f
      <4>1. w.alo \in Nat /\ w.ahi \in Nat /\ w.ahi <= w.alo
        BY <1>0, <2>1
      <4>2. m.i \in Nat /\ m.k \in Nat /\ m.k >= 1 /\ w.alo <= m.i /\ m.i + m.k <= w.ahi
        BY CommonRuns
      <4> QED
        BY <4>1, <4>2
    <3> QED
      BY <3>1 DEF BlocksOf
  <2> HIDE DEF f
  <2> QED
    BY <1>1, <1>2, <2>1
<1>3. CASE n # 0
  <2>1. n - 1 \in Nat /\ n - 1 \notin Without
    BY <1>1, <1>3
  <2>2. PICK g : Upto(n - 1, g)
    BY <2>1
  <2> DEFINE f == [w \in Windows(a, b) |-> IF w.ahi - w.alo <= n - 1 THEN g[w] ELSE BlocksOf(a, b, w, g)]
  <2>3. ASSUME NEW w \in Windows(a, b), w.ahi - w.alo <= n
        PROVE  f[w] = BlocksOf(a, b, w, f)
    <3>1. \A v \in Windows(a, b) : v.ahi - v.alo < w.ahi - w.alo => f[v] = g[v]
      <4> SUFFICES ASSUME NEW v \in Windows(a, b), v.ahi - v.alo < w.ahi - w.alo
                   PROVE  f[v] = g[v]
        OBVIOUS
      <4>1. v.ahi - v.alo <= n - 1
        <5> HIDE DEF Upto, Without, f
        <5>1. v.ahi - v.alo \in Int /\ w.ahi - w.alo \in Int
          BY <1>0
        <5>2. n \in Nat
          BY <2>1 DEF Without
        <5> QED
          BY <2>3, <5>1, <5>2
      <4> QED
        BY <4>1
    <3>2. BlocksOf(a, b, w, f) = BlocksOf(a, b, w, g)
      <4> HIDE DEF f, Upto, Without
      <4> QED
        BY <3>1, SmallerWindowsOnly
    <3>3. f[w] = BlocksOf(a, b, w, g)
      BY <2>2
    <3> QED
      BY <3>2, <3>3
  <2> HIDE DEF f
  <2> QED
    BY <1>1, <2>3
<1> QED
  BY <1>2, <1>3

LEMMA BlocksRecur ==
  ASSUME NEW a, NEW b, Len(a) \in Nat, Len(b) \in Nat
  PROVE  \A w \in Windows(a, b) : BlocksWithin(a, b)[w] = BlocksOf(a, b, w, BlocksWithin(a, b))
<1> DEFINE Is(f) == f = [w \in Windows(a, b) |-> BlocksOf(a, b, w, f)]
           f == BlocksWithin(a, b)
<1>1. f = CHOOSE g : Is(g)
  BY Zenon DEF BlocksWithin, BlocksOf
<1>2. PICK g : \A w \in Windows(a, b) : w.ahi - w.alo <= Len(a) => g[w] = BlocksOf(a, b, w, g)
  BY BlocksExist
<1>3. \A w \in Windows(a, b) : w.ahi - w.alo <= Len(a)
  BY DEF Windows
<1> DEFINE h == [w \in Windows(a, b) |-> g[w]]
<1>4. ASSUME NEW w \in Windows(a, b) PROVE h[w] = BlocksOf(a, b, w, h)
  <2>1. \A v \in Windows(a, b) : h[v] = g[v]
    OBVIOUS
  <2> HIDE DEF h
  <2>2. BlocksOf(a, b, w, h) = BlocksOf(a, b, w, g)
    BY <2>1, SmallerWindowsOnly
  <2> QED
    BY <1>2, <1>3, <2>1, <2>2
<1>5. Is(h)
  <2>1. h = [w \in Windows(a, b) |-> h[w]]
    OBVIOUS
  <2> HIDE DEF h
  <2> QED
    BY <1>4, <2>1
<1>6. Is(f)
  <2> HIDE DEF f, h, Is
  <2> QED
    BY <1>1, <1>5
<1> HIDE DEF f
<1>7. \A w \in Windows(a, b) : f[w] = BlocksOf(a, b, w, f)
  BY <1>6
<1> QED
  BY <1>7 DEF f

IsBlock(a, b, m) ==
  /\ m.i \in Nat /\ m.j \in Nat /\ m.k \in Nat
  /\ m.i + m.k <= Len(a) /\ m.j + m.k <= Len(b)
  /\ \A n \in 1..m.k : a[m.i + n] = b[m.j + n]

\* Every block is a run the two sequences have in common.
LEMMA BlocksAreCommon ==
  ASSUME NEW a, NEW b, Len(a) \in Nat, Len(b) \in Nat, NEW w \in Windows(a, b)
  PROVE  \A m \in BlocksWithin(a, b)[w] : IsBlock(a, b, m)
<1> DEFINE f == BlocksWithin(a, b)
           Bad == {v \in Windows(a, b) : ~\A m \in f[v] : IsBlock(a, b, m)}
           size == {v.ahi - v.alo + Len(a) : v \in Bad}
<1>1. \A v \in Windows(a, b) : /\ v.ahi \in Nat /\ v.alo \in Nat /\ v.ahi - v.alo \in Int
                               /\ v.ahi - v.alo + Len(a) \in Nat
  BY DEF Windows
<1>2. CASE Bad = {}
  BY <1>2
<1>3. CASE Bad # {}
  <2>1. size \subseteq Nat /\ size # {}
    BY <1>1, <1>3
  <2>2. PICK least \in size : \A l \in size : least <= l
    BY <2>1, LeastOfSet
  <2>3. PICK v \in Bad : least = v.ahi - v.alo + Len(a)
    BY <2>2
  <2>4. ASSUME NEW u \in Windows(a, b), u.ahi - u.alo < v.ahi - v.alo
        PROVE  \A m \in f[u] : IsBlock(a, b, m)
    <3> HIDE DEF f
    <3>1. u \in Bad => u.ahi - u.alo + Len(a) \in size
      OBVIOUS
    <3>2. u \in Bad => v.ahi - v.alo + Len(a) <= u.ahi - u.alo + Len(a)
      BY <2>2, <2>3, <3>1
    <3>3. v.ahi - v.alo \in Int /\ u.ahi - u.alo \in Int
      BY <1>1
    <3>4. u \notin Bad
      BY <2>4, <3>2, <3>3
    <3> QED
      BY <3>4
  <2>5. f[v] = BlocksOf(a, b, v, f) /\ v \in Windows(a, b)
    BY BlocksRecur
  <2>6. Common(a, b, v) # {}
    BY <2>5 DEF BlocksOf
  <2> DEFINE m == Longest(Common(a, b, v))
  <2>7. m \in Common(a, b, v)
    BY <2>5, <2>6, LongestIsCommon
  <2>8. f[v] = {m} \cup f[Before(v, m)] \cup f[Behind(v, m)]
    BY <2>5, <2>6 DEF BlocksOf
  <2>9. ~\A o \in f[v] : IsBlock(a, b, o)
    OBVIOUS
  <2> HIDE DEF m, f, Bad, size
  <2>10. /\ m.i \in Nat /\ m.j \in Nat /\ m.k \in Nat /\ m.k >= 1
         /\ v.alo <= m.i /\ m.i + m.k <= v.ahi /\ m.j + m.k <= v.bhi
    BY <2>5, <2>7, CommonRuns
  <2>11. Before(v, m) \in Windows(a, b) /\ Behind(v, m) \in Windows(a, b)
    BY <2>5, <2>7, CommonRuns
  <2>12. v.alo \in 0..Len(a) /\ v.ahi \in 0..Len(a) /\ v.bhi \in 0..Len(b)
    BY <2>5 DEF Windows
  <2>13. Before(v, m).ahi - Before(v, m).alo < v.ahi - v.alo
    BY <2>10, <2>12 DEF Before
  <2>14. Behind(v, m).ahi - Behind(v, m).alo < v.ahi - v.alo
    BY <2>10, <2>12 DEF Behind
  <2>15. IsBlock(a, b, m)
    <3>1. m.i + m.k <= Len(a)
      BY <2>10, <2>12
    <3>2. m.j + m.k <= Len(b)
      BY <2>10, <2>12
    <3>3. \A n \in 1..m.k : a[m.i + n] = b[m.j + n]
      BY <2>5, <2>7, CommonRuns
    <3> QED
      BY <2>10, <3>1, <3>2, <3>3 DEF IsBlock
  <2> QED
    BY <2>4, <2>8, <2>9, <2>11, <2>13, <2>14, <2>15
<1> QED
  BY <1>2, <1>3

\* place says where b has each line of a: in order, and nowhere else.
Kept(a, b, place) ==
  /\ \A i \in 1..Len(a) : place[i] \in 1..Len(b)
  /\ \A i \in 1..Len(a) : \A at \in 1..Len(b) : b[at] = a[i] <=> at = place[i]
  /\ \A i, j \in 1..Len(a) : i < j => place[i] < place[j]

PlacedWithin(place, w) ==
  \A i \in (w.alo + 1)..w.ahi : place[i] \in (w.blo + 1)..w.bhi

\* When each line of a stretch is in the other, in order and once, there is a
\* block about each.
LEMMA KeptIsMatched ==
  ASSUME NEW a, NEW b, Len(a) \in Nat, Len(b) \in Nat, NEW place, Kept(a, b, place),
         NEW w \in Windows(a, b), PlacedWithin(place, w)
  PROVE  \A i \in (w.alo + 1)..w.ahi :
           \E m \in BlocksWithin(a, b)[w] : m.i < i /\ i <= m.i + m.k
<1> DEFINE f == BlocksWithin(a, b)
           Covered(v) == \A i \in (v.alo + 1)..v.ahi : \E m \in f[v] : m.i < i /\ i <= m.i + m.k
           Bad == {v \in Windows(a, b) : PlacedWithin(place, v) /\ ~Covered(v)}
           size == {v.ahi - v.alo + Len(a) : v \in Bad}
<1>1. \A v \in Windows(a, b) : /\ v.ahi \in Nat /\ v.alo \in Nat /\ v.ahi - v.alo \in Int
                               /\ v.ahi - v.alo + Len(a) \in Nat
  BY DEF Windows
<1>2. CASE Bad = {}
  BY <1>2
<1>3. CASE Bad # {}
  <2>1. size \subseteq Nat /\ size # {}
    <3> HIDE DEF Bad
    <3>1. Bad \subseteq Windows(a, b)
      BY DEF Bad
    <3> QED
      BY <1>1, <1>3, <3>1
  <2>2. PICK least \in size : \A l \in size : least <= l
    <3> HIDE DEF size
    <3> QED
      BY <2>1, LeastOfSet
  <2>3. PICK v \in Bad : least = v.ahi - v.alo + Len(a)
    <3> HIDE DEF Bad
    <3> QED
      BY <2>2
  <2>4. ASSUME NEW u \in Windows(a, b), u.ahi - u.alo < v.ahi - v.alo, PlacedWithin(place, u)
        PROVE  Covered(u)
    <3> HIDE DEF f, Covered
    <3>1. u \in Bad => u.ahi - u.alo + Len(a) \in size
      OBVIOUS
    <3>2. u \in Bad => v.ahi - v.alo + Len(a) <= u.ahi - u.alo + Len(a)
      BY <2>2, <2>3, <3>1
    <3>3. v.ahi - v.alo \in Int /\ u.ahi - u.alo \in Int
      BY <1>1
    <3>4. u \notin Bad
      BY <2>4, <3>2, <3>3
    <3> QED
      BY <2>4, <3>4
  <2>5. f[v] = BlocksOf(a, b, v, f) /\ v \in Windows(a, b)
    BY BlocksRecur
  <2>6. PICK i \in (v.alo + 1)..v.ahi : ~\E m \in f[v] : m.i < i /\ i <= m.i + m.k
    OBVIOUS
  <2>7. PlacedWithin(place, v)
    OBVIOUS
  <2> HIDE DEF f, Covered, Bad, size
  <2>8. /\ v.alo \in 0..Len(a) /\ v.ahi \in 0..Len(a) /\ v.blo \in 0..Len(b) /\ v.bhi \in 0..Len(b)
    BY <2>5 DEF Windows
  <2>9. i \in 1..Len(a) /\ place[i] \in 1..Len(b) /\ place[i] \in (v.blo + 1)..v.bhi
    BY <2>7, <2>8 DEF PlacedWithin, Kept
  <2>10. Common(a, b, v) # {}
    <3> DEFINE one == [i |-> i - 1, j |-> place[i] - 1, k |-> 1]
    <3>1. i - 1 \in v.alo..(v.ahi - 1) /\ place[i] - 1 \in v.blo..(v.bhi - 1) /\ 1 \in 1..(v.ahi - v.alo)
      <4>1. v.alo \in Int /\ v.ahi \in Int /\ i \in Int /\ v.alo + 1 <= i /\ i <= v.ahi
        BY <2>8
      <4>2. v.blo \in Int /\ v.bhi \in Int /\ place[i] \in (v.blo + 1)..v.bhi
        BY <2>8, <2>9
      <4>3. i - 1 \in v.alo..(v.ahi - 1) /\ 1 \in 1..(v.ahi - v.alo)
        BY <4>1
      <4>4. place[i] - 1 \in v.blo..(v.bhi - 1)
        BY <4>2
      <4> QED
        BY <4>3, <4>4
    <3>2. one \in [i : v.alo..(v.ahi - 1), j : v.blo..(v.bhi - 1), k : 1..(v.ahi - v.alo)]
      BY <3>1
    <3>3. one.i + one.k <= v.ahi /\ one.j + one.k <= v.bhi
      BY <2>8, <2>9
    <3>4. a[i] = b[place[i]]
      BY <2>9 DEF Kept
    <3>5. \A n \in 1..one.k : n = 1
      OBVIOUS
    <3>6. one.i + 1 = i /\ one.j + 1 = place[i]
      BY <2>8, <2>9
    <3>7. \A n \in 1..one.k : a[one.i + n] = b[one.j + n]
      BY <3>4, <3>5, <3>6
    <3> HIDE DEF one
    <3>8. one \in Common(a, b, v)
      BY <3>2, <3>3, <3>7 DEF Common
    <3> QED
      BY <3>8
  <2> DEFINE m == Longest(Common(a, b, v))
  <2>11. m \in Common(a, b, v)
    BY <2>5, <2>10, LongestIsCommon
  <2>12. f[v] = {m} \cup f[Before(v, m)] \cup f[Behind(v, m)]
    BY <2>5, <2>10 DEF BlocksOf
  <2> HIDE DEF m
  <2>13. /\ m.i \in Nat /\ m.j \in Nat /\ m.k \in Nat /\ m.k >= 1
         /\ v.alo <= m.i /\ m.i + m.k <= v.ahi /\ v.blo <= m.j /\ m.j + m.k <= v.bhi
    BY <2>5, <2>11, CommonRuns
  <2>20. Before(v, m) \in Windows(a, b) /\ Behind(v, m) \in Windows(a, b)
    BY <2>5, <2>11, CommonRuns
  <2>14. \A n \in 1..m.k : a[m.i + n] = b[m.j + n]
    BY <2>5, <2>11, CommonRuns
  <2>15. \A n \in 1..m.k : place[m.i + n] = m.j + n
    <3> SUFFICES ASSUME NEW n \in 1..m.k PROVE place[m.i + n] = m.j + n
      OBVIOUS
    <3>1. m.i + n \in 1..Len(a) /\ m.j + n \in 1..Len(b)
      <4>1. n \in Nat /\ n >= 1 /\ n <= m.k /\ m.k \in Nat
        BY <2>13
      <4>2. m.i \in Nat /\ m.i + m.k <= Len(a)
        BY <2>8, <2>13
      <4>3. m.j \in Nat /\ m.j + m.k <= Len(b)
        BY <2>8, <2>13
      <4>4. m.i + n \in 1..Len(a)
        BY <4>1, <4>2
      <4>5. m.j + n \in 1..Len(b)
        BY <4>1, <4>3
      <4> QED
        BY <4>4, <4>5
    <3> QED
      BY <2>14, <3>1 DEF Kept
  <2>16. 1 \in 1..m.k /\ m.k \in 1..m.k
    BY <2>13
  <2>21. v.alo \in Nat /\ v.ahi \in Nat /\ v.ahi <= Len(a)
    BY <2>8
  <2>22. v.blo \in Nat /\ v.bhi \in Nat
    BY <2>8
  <2>25. m.i \in Nat /\ m.k \in Nat /\ m.k >= 1 /\ m.i + m.k <= v.ahi /\ v.alo <= m.i
    BY <2>13
  <2>23. m.i \in Nat /\ m.i + 1 <= v.ahi
    BY <2>21, <2>25
  <2>24. m.i + m.k \in Nat /\ m.i + m.k >= 1 /\ v.alo <= m.i + m.k
    BY <2>21, <2>25
  <2>17. CASE m.i < i /\ i <= m.i + m.k
    BY <2>6, <2>12, <2>17
  <2>18. CASE i <= m.i
    <3> DEFINE u == Before(v, m)
    <3>1. u.alo = v.alo /\ u.ahi = m.i /\ u.blo = v.blo /\ u.bhi = m.j
      BY DEF Before
    <3> HIDE DEF u
    <3>2. PlacedWithin(place, u)
      <4> SUFFICES ASSUME NEW l \in (u.alo + 1)..u.ahi PROVE place[l] \in (u.blo + 1)..u.bhi
        BY DEF PlacedWithin
      <4>1. l \in (v.alo + 1)..v.ahi /\ l \in 1..Len(a) /\ m.i + 1 \in 1..Len(a) /\ l < m.i + 1
        <5>1. l \in (v.alo + 1)..m.i
          BY <3>1
        <5>2. l \in Nat /\ l >= 1 /\ l >= v.alo + 1 /\ l <= m.i
          BY <2>21, <2>23, <5>1
        <5>3. l \in (v.alo + 1)..v.ahi /\ l < m.i + 1
          BY <2>21, <2>23, <5>2
        <5>4. l \in 1..Len(a) /\ m.i + 1 \in 1..Len(a)
          BY <2>21, <2>23, <5>2
        <5> QED
          BY <5>3, <5>4
      <4>2. place[l] \in (v.blo + 1)..v.bhi
        BY <2>7, <4>1 DEF PlacedWithin
      <4>3. place[l] < place[m.i + 1]
        BY <4>1 DEF Kept
      <4>4. place[m.i + 1] = m.j + 1
        BY <2>15, <2>16
      <4>5. place[l] \in Int /\ place[l] >= v.blo + 1
        BY <2>22, <4>2
      <4>6. place[l] <= m.j /\ m.j \in Nat
        BY <2>13, <4>3, <4>4, <4>5
      <4> QED
        BY <2>22, <3>1, <4>5, <4>6
    <3>3. u.ahi - u.alo < v.ahi - v.alo
      BY <2>21, <2>25, <3>1
    <3>4. Covered(u)
      BY <2>4, <2>20, <3>2, <3>3 DEF u
    <3>5. i \in (u.alo + 1)..u.ahi
      BY <2>8, <2>13, <2>18, <3>1
    <3>6. \E o \in f[u] : o.i < i /\ i <= o.i + o.k
      BY <3>4, <3>5 DEF Covered
    <3> QED
      BY <2>6, <2>12, <3>6 DEF u
  <2>19. CASE i > m.i + m.k
    <3> DEFINE u == Behind(v, m)
    <3>1. u.alo = m.i + m.k /\ u.ahi = v.ahi /\ u.blo = m.j + m.k /\ u.bhi = v.bhi
      BY DEF Behind
    <3> HIDE DEF u
    <3>2. PlacedWithin(place, u)
      <4> SUFFICES ASSUME NEW l \in (u.alo + 1)..u.ahi PROVE place[l] \in (u.blo + 1)..u.bhi
        BY DEF PlacedWithin
      <4>1. /\ l \in (v.alo + 1)..v.ahi /\ l \in 1..Len(a)
            /\ m.i + m.k \in 1..Len(a) /\ m.i + m.k < l
        <5>1. l \in (m.i + m.k + 1)..v.ahi
          BY <3>1
        <5>2. l \in Nat /\ l <= v.ahi /\ l >= m.i + m.k + 1
          BY <2>21, <2>24, <5>1
        <5>3. l \in (v.alo + 1)..v.ahi /\ m.i + m.k < l
          BY <2>21, <2>24, <5>2
        <5>4. l \in 1..Len(a) /\ m.i + m.k \in 1..Len(a)
          BY <2>21, <2>24, <5>2
        <5> QED
          BY <5>3, <5>4
      <4>2. place[l] \in (v.blo + 1)..v.bhi
        BY <2>7, <4>1 DEF PlacedWithin
      <4>3. place[m.i + m.k] < place[l]
        BY <4>1 DEF Kept
      <4>4. place[m.i + m.k] = m.j + m.k
        BY <2>15, <2>16
      <4>5. place[l] \in Int /\ place[l] <= v.bhi
        BY <2>22, <4>2
      <4>6. m.j + m.k < place[l] /\ m.j + m.k \in Int
        BY <2>13, <4>3, <4>4
      <4> QED
        BY <2>22, <3>1, <4>5, <4>6
    <3>3. u.ahi - u.alo < v.ahi - v.alo
      BY <2>21, <2>25, <3>1
    <3>4. Covered(u)
      BY <2>4, <2>20, <3>2, <3>3 DEF u
    <3>5. i \in (u.alo + 1)..u.ahi
      BY <2>8, <2>13, <2>19, <3>1
    <3>6. \E o \in f[u] : o.i < i /\ i <= o.i + o.k
      BY <3>4, <3>5 DEF Covered
    <3> QED
      BY <2>6, <2>12, <3>6 DEF u
  <2> QED
    BY <2>8, <2>13, <2>17, <2>18, <2>19
<1> QED
  BY <1>2, <1>3

----------------------------------------------------------------------------
(* SpecPins: where a line goes when lines are only added *)

LEMMA LinesOfDocument ==
  ASSUME NEW doc \in Document
  PROVE  /\ Len(doc) \in Nat /\ DOMAIN doc = 1..Len(doc)
         /\ Len(Lines(doc)) \in Nat /\ DOMAIN Lines(doc) = 1..Len(Lines(doc))
         /\ DOMAIN NonBlank(doc) = 1..Len(Lines(doc))
         /\ \A i \in 1..Len(Lines(doc)) :
              /\ NonBlank(doc)[i] \in 1..Len(doc)
              /\ Lines(doc)[i] = doc[NonBlank(doc)[i]]
              /\ Lines(doc)[i] # << >>
         /\ \A i, j \in 1..Len(Lines(doc)) : i < j => NonBlank(doc)[i] < NonBlank(doc)[j]
         /\ \A n \in 1..Len(doc) : doc[n] # << >> =>
              \E i \in 1..Len(Lines(doc)) : NonBlank(doc)[i] = n
<1> DEFINE s == NonBlank(doc)
<1>1. Numbers(doc, Len(doc), s) /\ Len(doc) \in Nat /\ DOMAIN doc = 1..Len(doc)
  BY NonBlankNumbers DEF Document
<1>2. s \in Seq(1..Len(doc)) /\ Len(s) \in Nat /\ DOMAIN s = 1..Len(s)
  BY <1>1 DEF Numbers
<1>3. \A i \in 1..Len(s) : s[i] \in 1..Len(doc) /\ doc[s[i]] # << >>
  BY <1>1, <1>2 DEF Numbers
<1>4. Lines(doc) = [n \in 1..Len(s) |-> doc[s[n]]]
  BY <1>2 DEF Lines
<1>5. \A i, j \in 1..Len(s) : i < j => s[i] < s[j]
  BY <1>1 DEF Numbers
<1>6. \A n \in 1..Len(doc) : doc[n] # << >> => \E i \in 1..Len(s) : s[i] = n
  BY <1>1 DEF Numbers
<1> HIDE DEF s
<1>7. Len(Lines(doc)) = Len(s) /\ DOMAIN Lines(doc) = 1..Len(s)
  BY <1>2, <1>4
<1>8. \A i \in 1..Len(s) : Lines(doc)[i] = doc[s[i]]
  BY <1>4
<1> QED
  BY <1>1, <1>2, <1>3, <1>5, <1>6, <1>7, <1>8 DEF s

LEMMA InsertedInOrder ==
  ASSUME NEW old \in Document, NEW new \in Document, OnlyInserts(old, new)
  PROVE  /\ \A i \in 1..Len(Lines(old)) : \E at \in 1..Len(new) :
              \A o \in 1..Len(new) : new[o] = Lines(old)[i] <=> o = at
         /\ \A i, j \in 1..Len(Lines(old)) : i < j =>
              \E x, y \in 1..Len(new) : x < y /\ new[x] = Lines(old)[i] /\ new[y] = Lines(old)[j]
<1> DEFINE lines == Lines(old)
<1>1. DOMAIN lines = 1..Len(lines) /\ DOMAIN new = 1..Len(new)
  BY LinesOfDocument
<1>2. \A i \in DOMAIN lines : \E at \in DOMAIN new : \A o \in DOMAIN new : new[o] = lines[i] <=> o = at
  BY DEF OnlyInserts
<1>3. \A i, j \in DOMAIN lines : i < j =>
        \E x, y \in DOMAIN new : x < y /\ new[x] = lines[i] /\ new[y] = lines[j]
  BY Zenon DEF OnlyInserts
<1> HIDE DEF lines
<1>4. \A i \in 1..Len(lines) : \E at \in 1..Len(new) :
        \A o \in 1..Len(new) : new[o] = lines[i] <=> o = at
  <2> SUFFICES ASSUME NEW i \in 1..Len(lines)
               PROVE  \E at \in 1..Len(new) : \A o \in 1..Len(new) : new[o] = lines[i] <=> o = at
    OBVIOUS
  <2>1. i \in DOMAIN lines
    BY <1>1
  <2>2. PICK at \in DOMAIN new : \A o \in DOMAIN new : new[o] = lines[i] <=> o = at
    BY <1>2, <2>1
  <2>3. at \in 1..Len(new) /\ \A o \in 1..Len(new) : new[o] = lines[i] <=> o = at
    BY <1>1, <2>2
  <2> QED
    BY <2>3
<1>5. \A i, j \in 1..Len(lines) : i < j =>
        \E x, y \in 1..Len(new) : x < y /\ new[x] = lines[i] /\ new[y] = lines[j]
  <2> SUFFICES ASSUME NEW i \in 1..Len(lines), NEW j \in 1..Len(lines), i < j
               PROVE  \E x, y \in 1..Len(new) : x < y /\ new[x] = lines[i] /\ new[y] = lines[j]
    OBVIOUS
  <2>1. i \in DOMAIN lines /\ j \in DOMAIN lines
    BY <1>1
  <2>2. PICK x \in DOMAIN new, y \in DOMAIN new : x < y /\ new[x] = lines[i] /\ new[y] = lines[j]
    BY <1>3, <2>1
  <2> QED
    BY <1>1, <2>2
<1> QED
  BY <1>4, <1>5 DEF lines

LEMMA InsertKeeps ==
  ASSUME NEW old \in Document, NEW new \in Document, OnlyInserts(old, new)
  PROVE  \E place : Kept(Lines(old), Lines(new), place)
<1> DEFINE a == Lines(old)
           b == Lines(new)
           s == NonBlank(new)
           place == [i \in 1..Len(a) |-> CHOOSE p \in 1..Len(b) : b[p] = a[i]]
<1>1. /\ Len(a) \in Nat /\ DOMAIN a = 1..Len(a) /\ \A i \in 1..Len(a) : a[i] # << >>
      /\ Len(new) \in Nat /\ DOMAIN new = 1..Len(new) /\ Len(b) \in Nat
  BY LinesOfDocument
<1>2. \A p \in 1..Len(b) : s[p] \in 1..Len(new) /\ b[p] = new[s[p]]
  BY LinesOfDocument
<1>3. \A p, q \in 1..Len(b) : p < q => s[p] < s[q]
  BY LinesOfDocument
<1>4. \A n \in 1..Len(new) : new[n] # << >> => \E p \in 1..Len(b) : s[p] = n
  BY LinesOfDocument
<1>5. \A i \in 1..Len(a) : \E at \in 1..Len(new) : \A o \in 1..Len(new) : new[o] = a[i] <=> o = at
  BY InsertedInOrder
<1>6. \A i, j \in 1..Len(a) : i < j =>
        \E x, y \in 1..Len(new) : x < y /\ new[x] = a[i] /\ new[y] = a[j]
  BY InsertedInOrder
<1> HIDE DEF a, b, s
<1>7. ASSUME NEW i \in 1..Len(a)
      PROVE  /\ place[i] \in 1..Len(b) /\ b[place[i]] = a[i]
             /\ \A p \in 1..Len(b) : b[p] = a[i] => p = place[i]
  <2>1. PICK at \in 1..Len(new) : \A o \in 1..Len(new) : new[o] = a[i] <=> o = at
    BY <1>5
  <2>2. new[at] = a[i] /\ new[at] # << >>
    BY <1>1, <2>1
  <2>3. PICK p \in 1..Len(b) : s[p] = at
    BY <1>4, <2>2
  <2>4. b[p] = a[i]
    BY <1>2, <2>2, <2>3
  <2>5. place[i] \in 1..Len(b) /\ b[place[i]] = a[i]
    BY <2>4
  <2>6. ASSUME NEW q \in 1..Len(b), b[q] = a[i] PROVE s[q] = at
    BY <1>2, <2>1, <2>6
  <2>7. ASSUME NEW q \in 1..Len(b), b[q] = a[i] PROVE q = p
    <3>1. s[q] = s[p] /\ s[q] \in 1..Len(new)
      BY <1>2, <2>3, <2>6, <2>7
    <3>2. ~(q < p) /\ ~(p < q)
      BY <1>3, <3>1
    <3> QED
      BY <1>1, <3>2
  <2> HIDE DEF place
  <2>8. place[i] = p
    BY <2>5, <2>7
  <2> QED
    BY <2>5, <2>7, <2>8
<1> HIDE DEF place
<1>8. ASSUME NEW i \in 1..Len(a), NEW j \in 1..Len(a), i < j
      PROVE  place[i] < place[j]
  <2>1. PICK x \in 1..Len(new), y \in 1..Len(new) : x < y /\ new[x] = a[i] /\ new[y] = a[j]
    BY <1>6, <1>8
  <2>2. s[place[i]] \in 1..Len(new) /\ new[s[place[i]]] = a[i]
    BY <1>2, <1>7
  <2>3. s[place[j]] \in 1..Len(new) /\ new[s[place[j]]] = a[j]
    BY <1>2, <1>7
  <2>4. s[place[i]] = x /\ s[place[j]] = y
    BY <1>5, <2>1, <2>2, <2>3
  <2>5. place[i] \in 1..Len(b) /\ place[j] \in 1..Len(b)
    BY <1>7
  <2>6. ~(place[j] < place[i]) /\ place[i] # place[j]
    BY <1>3, <2>1, <2>4, <2>5
  <2> QED
    BY <1>1, <2>5, <2>6
<1>9. Kept(a, b, place)
  BY <1>7, <1>8 DEF Kept
<1> QED
  BY <1>9 DEF a, b

LEMMA PlaceIsKept ==
  ASSUME NEW a, NEW new \in Document, NEW b, b = Lines(new), Len(a) \in Nat,
         NEW place, Kept(a, b, place), NEW i \in 1..Len(a)
  PROVE  Place(Blocks(a, b), new, i) = NonBlank(new)[place[i]]
<1> DEFINE w == Whole(a, b)
           blocks == Blocks(a, b)
           at == {m \in blocks : m.i < i /\ i <= m.i + m.k}
<1>1. Len(b) \in Nat
  BY LinesOfDocument
<1>2. w.alo = 0 /\ w.ahi = Len(a) /\ w.blo = 0 /\ w.bhi = Len(b) /\ w \in Windows(a, b)
  BY <1>1 DEF Whole, Windows
<1>3. PlacedWithin(place, w)
  BY <1>1, <1>2 DEF PlacedWithin, Kept
<1>4. blocks = BlocksWithin(a, b)[w]
  BY DEF Blocks
<1> HIDE DEF w, blocks
<1>5. \E m \in blocks : m.i < i /\ i <= m.i + m.k
  BY <1>1, <1>2, <1>3, <1>4, KeptIsMatched
<1> DEFINE m == CHOOSE o \in at : TRUE
<1>6. m \in blocks /\ m.i < i /\ i <= m.i + m.k /\ at # {}
  <2>1. at # {}
    BY <1>5
  <2>2. m \in at
    BY <2>1
  <2> HIDE DEF m
  <2> QED
    BY <2>1, <2>2
<1>7. Place(blocks, new, i) = NonBlank(new)[m.j + i - m.i]
  BY <1>6 DEF Place
<1> HIDE DEF m
<1>8. IsBlock(a, b, m)
  BY <1>1, <1>2, <1>4, <1>6, BlocksAreCommon
<1> DEFINE n == i - m.i
<1>9. n \in 1..m.k /\ m.i + n = i /\ m.j + n = m.j + i - m.i /\ m.j + n \in 1..Len(b)
  <2>1. m.i \in Nat /\ m.j \in Nat /\ m.k \in Nat /\ m.j + m.k <= Len(b)
    BY <1>8 DEF IsBlock
  <2>2. n \in Int /\ n >= 1 /\ n <= m.k
    BY <1>6, <2>1
  <2>3. m.i + n = i /\ m.j + n = m.j + i - m.i
    BY <2>1
  <2> HIDE DEF n
  <2>4. n \in 1..m.k
    BY <2>1, <2>2
  <2>5. m.j + n \in 1..Len(b)
    BY <1>1, <2>1, <2>2
  <2> QED
    BY <2>3, <2>4, <2>5
<1>10. a[m.i + n] = b[m.j + n]
  BY <1>8, <1>9 DEF IsBlock
<1>11. m.j + i - m.i = place[i]
  BY <1>9, <1>10 DEF Kept
<1> QED
  BY <1>7, <1>11 DEF blocks

LEMMA LineMapFollows ==
  ASSUME NEW old \in Document, NEW new \in Document, OnlyInserts(old, new),
         NEW n \in 1..Len(old), old[n] # << >>
  PROVE  /\ DOMAIN LineMap(old, new) = 1..Len(old)
         /\ LineMap(old, new)[n] \in 1..Len(new)
         /\ \A at \in 1..Len(new) : new[at] = old[n] <=> at = LineMap(old, new)[n]
<1> DEFINE a == Lines(old)
           b == Lines(new)
           r == NonBlank(old)
           s == NonBlank(new)
           above == {k \in DOMAIN r : r[k] <= n}
<1>1. PICK place : Kept(a, b, place)
  BY InsertKeeps
<1>2. /\ DOMAIN old = 1..Len(old) /\ Len(old) \in Nat /\ Len(a) \in Nat /\ DOMAIN r = 1..Len(a)
      /\ \A i \in 1..Len(a) : r[i] \in 1..Len(old) /\ a[i] = old[r[i]]
      /\ \A i, j \in 1..Len(a) : i < j => r[i] < r[j]
  BY LinesOfDocument
<1>3. PICK i \in 1..Len(a) : r[i] = n
  BY LinesOfDocument
<1>4. /\ Len(b) \in Nat /\ Len(new) \in Nat
      /\ \A p \in 1..Len(b) : s[p] \in 1..Len(new) /\ b[p] = new[s[p]]
  BY LinesOfDocument
<1>5. above = 1..i
  <2>1. ASSUME NEW k \in above PROVE k \in 1..i
    <3>1. k \in 1..Len(a) /\ r[k] <= n /\ r[k] \in Nat /\ r[i] = n
      BY <1>2, <1>3
    <3>2. ~(i < k)
      BY <1>2, <1>3, <3>1
    <3> QED
      BY <3>1, <3>2
  <2>2. ASSUME NEW k \in 1..i PROVE k \in above
    <3>1. k \in 1..Len(a) /\ (k < i \/ k = i)
      BY <1>2
    <3>2. r[k] <= n
      BY <1>2, <1>3, <3>1
    <3> QED
      BY <1>2, <3>1, <3>2
  <2> HIDE DEF above
  <2> QED
    BY <2>1, <2>2
<1> HIDE DEF above
<1>6. Cardinality(above) = i /\ above # {}
  <2>1. i \in Nat /\ i >= 1
    BY <1>2
  <2>2. Cardinality(1..i) = i
    BY <2>1, FS_Interval
  <2>3. i \in 1..i
    BY <2>1
  <2> QED
    BY <1>5, <2>2, <2>3
<1>7. LineMap(old, new)[n] = Place(Blocks(a, b), new, i)
  BY <1>2, <1>3, <1>6 DEF LineMap, above
<1>8. DOMAIN LineMap(old, new) = 1..Len(old)
  BY <1>2 DEF LineMap
<1>9. LineMap(old, new)[n] = s[place[i]]
  BY <1>1, <1>2, <1>7, PlaceIsKept
<1>10. place[i] \in 1..Len(b) /\ b[place[i]] = a[i]
  BY <1>1, <1>4 DEF Kept
<1>11. s[place[i]] \in 1..Len(new) /\ new[s[place[i]]] = old[n]
  BY <1>2, <1>3, <1>4, <1>10
<1>12. PICK at \in 1..Len(new) : \A o \in 1..Len(new) : new[o] = a[i] <=> o = at
  BY InsertedInOrder
<1>13. a[i] = old[n]
  BY <1>2, <1>3
<1> QED
  BY <1>8, <1>9, <1>11, <1>12, <1>13

LEMMA LineMapOrders ==
  ASSUME NEW old \in Document, NEW new \in Document, OnlyInserts(old, new),
         NEW n \in 1..Len(old), NEW m \in 1..Len(old), m < n, old[m] # << >>, old[n] # << >>
  PROVE  LineMap(old, new)[m] < LineMap(old, new)[n]
<1> DEFINE a == Lines(old)
           r == NonBlank(old)
<1>1. /\ DOMAIN a = 1..Len(a) /\ DOMAIN new = 1..Len(new) /\ Len(a) \in Nat
      /\ \A i \in 1..Len(a) : a[i] = old[r[i]]
      /\ \A i, j \in 1..Len(a) : i < j => r[i] < r[j]
  BY LinesOfDocument
<1>2. PICK i \in 1..Len(a) : r[i] = m
  BY LinesOfDocument
<1>3. PICK j \in 1..Len(a) : r[j] = n
  BY LinesOfDocument
<1>4. i < j
  BY <1>1, <1>2, <1>3
<1>5. PICK x \in 1..Len(new), y \in 1..Len(new) : x < y /\ new[x] = a[i] /\ new[y] = a[j]
  BY <1>4, InsertedInOrder
<1>6. new[x] = old[m] /\ new[y] = old[n]
  BY <1>1, <1>2, <1>3, <1>5
<1>7. x = LineMap(old, new)[m] /\ y = LineMap(old, new)[n]
  BY <1>6, LineMapFollows
<1> QED
  BY <1>5, <1>7

LEMMA SnapStays ==
  ASSUME NEW doc \in Document, NEW n \in 1..Len(doc), doc[n] # << >>
  PROVE  SnapForward(n, doc) = n /\ SnapBack(n, doc) = n
<1>1. Len(doc) \in Nat /\ DOMAIN doc = 1..Len(doc)
  BY DEF Document
<1>2. SnapForward(n, doc) = n
  <2> DEFINE on == {m \in DOMAIN doc : m >= n /\ doc[m] # << >>}
  <2>1. n \in on /\ \A m \in on : n <= m /\ m \in Nat
    BY <1>1
  <2>2. SnapForward(n, doc) = CHOOSE m \in on : \A o \in on : m <= o
    BY <2>1 DEF SnapForward
  <2> HIDE DEF on
  <2> DEFINE first == CHOOSE m \in on : \A o \in on : m <= o
  <2>3. first \in on /\ \A o \in on : first <= o
    BY <2>1
  <2> HIDE DEF first
  <2>4. first = n
    <3>1. first <= n /\ n <= first /\ first \in Nat /\ n \in Nat
      BY <1>1, <2>1, <2>3
    <3> QED
      BY <3>1
  <2> QED
    BY <2>2, <2>4 DEF first
<1>3. SnapBack(n, doc) = n
  <2> DEFINE on == {m \in DOMAIN doc : m <= n /\ doc[m] # << >>}
  <2>1. n \in on /\ \A m \in on : m <= n /\ m \in Nat
    BY <1>1
  <2>2. SnapBack(n, doc) = CHOOSE m \in on : \A o \in on : m >= o
    BY <2>1 DEF SnapBack
  <2> HIDE DEF on
  <2> DEFINE last1 == CHOOSE m \in on : \A o \in on : m >= o
  <2>3. last1 \in on /\ \A o \in on : last1 >= o
    <3>1. \E m \in on : \A o \in on : m >= o
      BY <2>1
    <3> QED
      BY <3>1
  <2> HIDE DEF last1
  <2>4. last1 = n
    <3>1. last1 >= n /\ last1 <= n /\ last1 \in Nat /\ n \in Nat
      BY <1>1, <2>1, <2>3
    <3> QED
      BY <3>1
  <2> QED
    BY <2>2, <2>4 DEF last1
<1> QED
  BY <1>2, <1>3

\* A citation of a passage that opens and closes on words follows them.
LEMMA RemappedFollows ==
  ASSUME NEW old \in Document, NEW new \in Document, OnlyInserts(old, new),
         NEW span, Resolves(span, old)
  PROVE  /\ Remapped(span, old, new) = Span(LineMap(old, new)[span.lo], LineMap(old, new)[span.hi])
         /\ Resolves(Remapped(span, old, new), new)
         /\ new[Remapped(span, old, new).lo] = old[span.lo]
         /\ new[Remapped(span, old, new).hi] = old[span.hi]
<1> DEFINE lo == LineMap(old, new)[span.lo]
           hi == LineMap(old, new)[span.hi]
<1>1. /\ span.lo \in 1..Len(old) /\ span.hi \in 1..Len(old) /\ span.lo <= span.hi
      /\ old[span.lo] # << >> /\ old[span.hi] # << >> /\ Len(old) \in Nat
      /\ Len(new) \in Nat /\ DOMAIN new = 1..Len(new)
  BY LinesOfDocument DEF Resolves, Spans
<1>2. DOMAIN LineMap(old, new) = 1..Len(old)
  BY <1>1, LineMapFollows
<1>3. lo \in 1..Len(new) /\ new[lo] = old[span.lo]
  BY <1>1, LineMapFollows
<1>4. hi \in 1..Len(new) /\ new[hi] = old[span.hi]
  BY <1>1, LineMapFollows
<1>5. lo <= hi
  <2>1. CASE span.lo = span.hi
    BY <1>1, <1>3, <2>1
  <2>2. CASE span.lo < span.hi
    BY <1>1, <1>3, <1>4, <2>2, LineMapOrders
  <2> QED
    BY <1>1, <2>1, <2>2
<1>6. SnapForward(lo, new) = lo /\ SnapBack(hi, new) = hi
  BY <1>1, <1>3, <1>4, SnapStays
<1>7. Remapped(span, old, new) = IF span.lo = span.hi \/ hi < lo THEN Span(lo, lo) ELSE Span(lo, hi)
  BY <1>1, <1>2, <1>6 DEF Remapped
<1>8. ~(hi < lo) /\ (span.lo = span.hi => lo = hi)
  BY <1>1, <1>3, <1>4, <1>5
<1> HIDE DEF lo, hi
<1>9. Remapped(span, old, new) = Span(lo, hi)
  BY <1>7, <1>8
<1>10. Span(lo, hi).lo = lo /\ Span(lo, hi).hi = hi /\ Span(lo, hi) \in Spans(new)
  BY <1>1, <1>3, <1>4, <1>5 DEF Span, Spans
<1>11. Resolves(Span(lo, hi), new)
  BY <1>1, <1>3, <1>4, <1>10 DEF Resolves
<1> QED
  BY <1>3, <1>4, <1>9, <1>10, <1>11 DEF lo, hi

\* Where a prefix of the text ends in some words, the document has those words.
LEMMA WordsAreThere ==
  ASSUME NEW doc \in Document, NEW hi \in 0..Len(doc), NEW before \in Seq(Word), NEW words \in Seq(Word),
         words # << >>, TextUpTo(doc)[hi] = before \o words
  PROVE  Len(before) \in Occurrences(doc, words)
<1> DEFINE t == TextUpTo(doc)
           all == t[Len(doc)]
           at == Len(before)
<1>1. Len(doc) \in Nat /\ Len(doc) \in hi..Len(doc) /\ Len(doc) \in 0..Len(doc)
  BY DEF Document
<1>2. t[hi] \in Seq(Word) /\ all \in Seq(Word)
  <2>1. t \in [0..Len(doc) -> Line]
    BY TextGrows
  <2> QED
    BY <1>1, <2>1 DEF Line
<1>3. Len(t[hi]) <= Len(all) /\ \A k \in 1..Len(t[hi]) : all[k] = t[hi][k]
  BY <1>1, TextIsPrefix
<1>4. t[hi] = before \o words /\ Words(doc) = all
  BY DEF Words
<1> HIDE DEF t, all
<1>5. /\ at \in Nat /\ Len(words) \in Nat /\ Len(words) > 0
      /\ Len(t[hi]) = at + Len(words) /\ Len(all) \in Nat
  BY <1>2, <1>4
<1>6. at \in 0..(Len(all) - Len(words)) /\ at + Len(words) <= Len(all)
  BY <1>3, <1>5
<1>7. ASSUME NEW k \in 1..Len(words) PROVE all[at + k] = words[k]
  <2>1. at + k \in 1..Len(t[hi])
    BY <1>5
  <2>2. (before \o words)[at + k] = words[k]
    BY <1>5
  <2> QED
    BY <1>3, <1>4, <2>1, <2>2
<1>8. SubSeq(all, at + 1, at + Len(words)) = words
  <2>1. SubSeq(all, at + 1, at + Len(words)) = [k \in 1..Len(words) |-> all[at + k]]
    BY <1>2, <1>5, <1>6
  <2>2. words = [k \in 1..Len(words) |-> words[k]]
    OBVIOUS
  <2> QED
    BY <1>7, <2>1, <2>2
<1> QED
  BY <1>4, <1>6, <1>8 DEF Occurrences

LEMMA PassageOfDocument ==
  ASSUME NEW doc \in Document, NEW span \in Spans(doc)
  PROVE  /\ span.lo \in 1..Len(doc) /\ span.hi \in 1..Len(doc) /\ span.lo <= span.hi /\ Len(doc) \in Nat
         /\ Passage(doc, span) \in Document
         /\ Len(Passage(doc, span)) = span.hi - span.lo + 1
         /\ \A i \in 1..(span.hi - span.lo + 1) : Passage(doc, span)[i] = doc[i + span.lo - 1]
<1>1. /\ Len(doc) \in Nat /\ span.lo \in 1..Len(doc) /\ span.hi \in 1..Len(doc) /\ span.lo <= span.hi
      /\ \A n \in 1..Len(doc) : doc[n] \in Line
  BY DEF Document, Spans
<1> DEFINE p == Passage(doc, span)
           size == span.hi - span.lo + 1
<1>2. p = SubSeq(doc, span.lo, span.hi)
  BY <1>1 DEF Passage
<1>3. p = [i \in 1..size |-> doc[i + span.lo - 1]]
  <2>1. doc \in Seq(Line) /\ span.hi \in span.lo..Len(doc)
    BY <1>1 DEF Document
  <2>2. SubSeq(doc, span.lo, span.hi) = [i \in 1..(span.hi - span.lo + 1) |-> doc[i + span.lo - 1]]
    BY <1>1, <2>1, PartOfSeq
  <2> QED
    BY <1>2, <2>2
<1>4. size \in Nat /\ \A i \in 1..size : i + span.lo - 1 \in 1..Len(doc)
  BY <1>1
<1> HIDE DEF p, size
<1>5. p \in Seq(Line)
  BY <1>1, <1>3, <1>4
<1>6. Len(p) = size /\ \A i \in 1..size : p[i] = doc[i + span.lo - 1]
  BY <1>3, <1>4
<1> QED
  BY <1>1, <1>5, <1>6 DEF p, size, Document

LEMMA WordsJoin ==
  \A x, y, z \in Seq(Word) : (x \o y) \o z = x \o (y \o z)
BY ConcatAssociative

\* The text up to the end of a passage is the text before it and its own.
LEMMA PassageIsText ==
  ASSUME NEW doc \in Document, NEW span \in Spans(doc)
  PROVE  TextUpTo(doc)[span.hi] = TextUpTo(doc)[span.lo - 1] \o Words(Passage(doc, span))
<1> DEFINE p == Passage(doc, span)
           lo == span.lo - 1
           t == TextUpTo(doc)
           u == TextUpTo(p)
           size == span.hi - span.lo + 1
           Joins(l) == t[lo + l] = t[lo] \o u[l]
           Others == {l \in 0..size : ~Joins(l)}
<1>1. /\ span.lo \in 1..Len(doc) /\ span.hi \in 1..Len(doc) /\ span.lo <= span.hi /\ Len(doc) \in Nat
      /\ p \in Document /\ Len(p) = size /\ \A i \in 1..size : p[i] = doc[i + span.lo - 1]
  BY PassageOfDocument
<1>2. lo \in 0..Len(doc) /\ lo \in Nat /\ size \in Nat /\ lo + size = span.hi
  <2>1. span.lo \in 1..Len(doc) /\ span.hi \in 1..Len(doc) /\ span.lo <= span.hi /\ Len(doc) \in Nat
    BY <1>1
  <2> HIDE DEF p, t, u, Joins, Others
  <2> QED
    BY <2>1
<1>3. /\ t \in [0..Len(doc) -> Line]
      /\ \A n \in 1..Len(doc) : t[n] = t[n - 1] \o doc[n]
  BY TextGrows
<1>4. /\ u \in [0..size -> Line] /\ u[0] = << >>
      /\ \A n \in 1..size : u[n] = u[n - 1] \o p[n]
  BY <1>1, TextGrows
<1>5. \A l \in 1..size : p[l] = doc[lo + l]
  <2> SUFFICES ASSUME NEW l \in 1..size PROVE p[l] = doc[lo + l]
    OBVIOUS
  <2>1. l + span.lo - 1 = lo + l
    BY <1>1, <1>2
  <2> QED
    BY <1>1, <2>1
<1>6. \A l \in 0..size : lo + l \in 0..Len(doc)
  <2>1. span.hi \in 1..Len(doc) /\ Len(doc) \in Nat
    BY <1>1
  <2> HIDE DEF p, lo, t, u, size, Joins, Others
  <2> QED
    BY <1>2, <2>1
<1>7. Words(p) = u[size]
  BY <1>1 DEF Words
<1>8. \A n \in 1..Len(doc) : doc[n] \in Seq(Word)
  BY DEF Document, Line
<1> HIDE DEF p, lo, t, u, size, Joins
<1>9. Others = {}
  <2> SUFFICES ASSUME Others # {} PROVE FALSE
    OBVIOUS
  <2>1. Others \subseteq Nat
    BY <1>2
  <2>2. PICK l \in Others : \A o \in Others : l <= o
    BY <2>1, LeastOfSet
  <2>3. l \in 0..size /\ ~Joins(l)
    BY DEF Joins
  <2>4. t[lo] \in Seq(Word)
    BY <1>2, <1>3 DEF Line
  <2>5. l # 0
    <3>1. t[lo] \o << >> = t[lo]
      BY <2>4
    <3>2. lo + 0 = lo
      BY <1>2
    <3> QED
      BY <1>4, <2>3, <3>1, <3>2 DEF Joins
  <2>6. l \in 1..size /\ l - 1 \in 0..size /\ lo + l \in 1..Len(doc) /\ lo + (l - 1) = lo + l - 1
    BY <1>2, <1>6, <2>3, <2>5
  <2>7. Joins(l - 1)
    <3>1. ~(l <= l - 1)
      BY <1>2, <2>6
    <3> QED
      BY <2>2, <2>6, <3>1
  <2>8. t[lo + l] = t[lo + (l - 1)] \o doc[lo + l]
    BY <1>3, <2>6
  <2>9. u[l] = u[l - 1] \o doc[lo + l]
    BY <1>4, <1>5, <2>6
  <2>10. u[l - 1] \in Seq(Word) /\ doc[lo + l] \in Seq(Word)
    BY <1>4, <1>8, <2>6 DEF Line
  <2>11. (t[lo] \o u[l - 1]) \o doc[lo + l] = t[lo] \o (u[l - 1] \o doc[lo + l])
    <3> DEFINE x == t[lo]
               y == u[l - 1]
               z == doc[lo + l]
    <3>1. x \in Seq(Word) /\ y \in Seq(Word) /\ z \in Seq(Word)
      BY <2>4, <2>10
    <3> HIDE DEF x, y, z
    <3>2. (x \o y) \o z = x \o (y \o z)
      BY <3>1, WordsJoin
    <3> QED
      BY <3>2 DEF x, y, z
  <2>12. t[lo + l] = (t[lo] \o u[l - 1]) \o doc[lo + l]
    BY <2>7, <2>8 DEF Joins
  <2>13. t[lo + l] = t[lo] \o u[l]
    BY <2>9, <2>11, <2>12
  <2> QED
    BY <2>3, <2>13 DEF Joins
<1>10. size \in 0..size
  BY <1>2
<1>11. Joins(size)
  BY <1>9, <1>10
<1> QED
  BY <1>2, <1>7, <1>11 DEF t, lo, p, Joins

\* The words a citation addresses are where it is.
LEMMA PassageIsOnItsSpan ==
  ASSUME NEW doc \in Document, NEW span \in Spans(doc)
  PROVE  ~LeftBehind(doc, Words(Passage(doc, span)), span)
<1> DEFINE words == Words(Passage(doc, span))
           before == TextUpTo(doc)[span.lo - 1]
<1>1. /\ span.lo \in 1..Len(doc) /\ span.hi \in 1..Len(doc) /\ Len(doc) \in Nat
      /\ Passage(doc, span) \in Document
  BY PassageOfDocument
<1>2. before \in Seq(Word)
  <2>1. span.lo - 1 \in 0..Len(doc)
    BY <1>1
  <2> QED
    BY <2>1, TextGrows DEF Line
<1>3. words \in Seq(Word)
  <2>1. Len(Passage(doc, span)) \in 0..Len(Passage(doc, span))
    BY <1>1 DEF Document
  <2> QED
    BY <1>1, <2>1, TextGrows DEF Line, Words
<1>4. TextUpTo(doc)[span.hi] = before \o words
  BY PassageIsText
<1>5. StartOf(doc, span.lo) = Len(before) /\ EndOf(doc, span.hi) = Len(before \o words)
  BY <1>4 DEF StartOf, EndOf
<1> HIDE DEF before, words
<1>6. CASE words = << >>
  BY <1>6 DEF LeftBehind, Occurrences, words
<1>7. CASE words # << >>
  <2>1. span.hi \in 0..Len(doc)
    BY <1>1
  <2>2. Len(before) \in Occurrences(doc, words)
    BY <1>2, <1>3, <1>4, <1>7, <2>1, WordsAreThere
  <2>3. Len(before) \in Nat /\ Len(words) \in Nat /\ Len(words) > 0 /\ Len(before \o words) = Len(before) + Len(words)
    BY <1>2, <1>3, <1>7
  <2>4. ~(Len(before) >= EndOf(doc, span.hi)) /\ ~(StartOf(doc, span.lo) >= Len(before) + Len(words))
    BY <1>5, <2>3
  <2>5. ~LeftBehind(doc, words, span)
    BY <2>2, <2>4 DEF LeftBehind
  <2> QED
    BY <2>5 DEF words
<1> QED
  BY <1>6, <1>7

----------------------------------------------------------------------------
(* SpecPins: how far a re-vendor is. Each of its steps is on the tree it     *)
(* began on with the steps before it applied, and one that was refused a    *)
(* ledger left that ledger as it was: so what a re-vendor ends with is a    *)
(* matter of the two revisions, the citations and the two ledgers alone.    *)

\* The tree that a re-vendor left behind, when it began on another.
Carried(t, start, doc) ==
  /\ t.spec = doc /\ t.pin = doc
  /\ \A sp \in Spellings : t.cites[sp] = Moved(start, sp, start.spec, doc)

Written(t, sp) ==
  /\ t.ledger[sp] = Ledger(t.spec, Pins(t, sp)) /\ t.cites[sp] # << >>
  /\ \A key \in DOMAIN t.cites[sp] : Resolves(t.cites[sp][key], t.spec)

\* A re-vendor generates nothing of the corpus.
Ungenerated(t, start) == t.manifest = start.manifest /\ t.table = start.table

Untouched(t, start, sp) == t.ledger[sp] = start.ledger[sp]

Stopped(t, h, start, sp) == Untouched(t, start, sp) /\ SyncRefused(t, h, sp, {})

Stage(pc) ==
  LET start == run.start IN
  CASE pc = "spec" -> work = start
    [] pc = "pin" -> work.spec = run.doc /\ work.cites = start.cites /\ work.ledger = start.ledger
    [] pc = "citation" ->
         /\ work.spec = run.doc /\ work.pin = run.doc
         /\ work.cites = start.cites /\ work.ledger = start.ledger
    [] pc = "anchor" ->
         /\ work.spec = run.doc /\ work.pin = run.doc /\ work.ledger = start.ledger
         /\ work.cites["citation"] = Moved(start, "citation", start.spec, run.doc)
         /\ work.cites["anchor"] = start.cites["anchor"]
    [] pc = "sync citation" -> Carried(work, start, run.doc) /\ work.ledger = start.ledger
    [] OTHER ->
         /\ pc = "sync anchor" /\ Carried(work, start, run.doc) /\ Untouched(work, start, "anchor")
         /\ IF run.failed = {} THEN Written(work, "citation") ELSE Stopped(work, head, start, "citation")

RunEnded ==
  LET start == last.start IN
  /\ run.pc = "idle" /\ IsWork(start)
  /\ \/ /\ last.ok /\ work.spec = start.spec /\ work.pin = work.spec
        /\ work.cites = start.cites /\ work.ledger = start.ledger
     \/ /\ Carried(work, start, work.spec)
        /\ IF last.ok THEN \A sp \in Spellings : Written(work, sp)
           ELSE \E sp \in Spellings : Stopped(work, head, start, sp)

RunIsFollowed ==
  /\ LedgersAreTrue
  /\ run.pc # "idle" =>
       last = NoEnd /\ IsWork(run.start) /\ run.old = run.start.spec /\ Stage(run.pc)
  /\ last # NoEnd => RunEnded

LEMMA InitRunIsFollowed == PinsInit => RunIsFollowed
BY InitLedgers DEF PinsInit, RunIsFollowed, Idle

\* A refusal is about the revision, the citations, one ledger and the last commit.
LEMMA SameRefusal ==
  ASSUME NEW t, NEW u, NEW h, NEW sp, t.spec = u.spec, t.cites[sp] = u.cites[sp],
         t.ledger[sp] = u.ledger[sp], SyncRefused(t, h, sp, {})
  PROVE  SyncRefused(u, h, sp, {})
<1>1. Pins(t, sp) = Pins(u, sp)
  BY DEF Pins
<1>2. Changed(t, sp) = Changed(u, sp)
  BY <1>1 DEF Changed
<1>3. BeforeImage(t, h, sp) = BeforeImage(u, h, sp)
  BY DEF BeforeImage
<1> QED
  BY <1>2, <1>3, Zenon DEF SyncRefused

LEMMA AllowedIsWritten ==
  ASSUME NEW t, IsWork(t), NEW h, NEW sp \in Spellings, ~SyncRefused(t, h, sp, {})
  PROVE  Written(Synced(t, sp), sp)
<1> DEFINE u == Synced(t, sp)
<1>1. \A key \in DOMAIN t.cites[sp] : t.cites[sp][key] \in Spans(t.spec)
  BY AllowedResolves
<1>2. u.spec = t.spec /\ u.cites = t.cites /\ u.ledger[sp] = Ledger(t.spec, Pins(t, sp))
  BY <1>1, SyncedIsWork
<1> HIDE DEF u
<1>3. Pins(u, sp) = Pins(t, sp)
  BY <1>2 DEF Pins
<1>4. t.cites[sp] # << >> /\ \A key \in DOMAIN t.cites[sp] : Resolves(t.cites[sp][key], t.spec)
  BY DEF SyncRefused
<1>5. Written(u, sp)
  BY <1>2, <1>3, <1>4 DEF Written
<1> QED
  BY <1>5 DEF u

LEMMA NextRunIsFollowed == RunIsFollowed /\ [PinsNext]_pinsVars => RunIsFollowed'
<1> SUFFICES ASSUME RunIsFollowed, [PinsNext]_pinsVars PROVE RunIsFollowed'
  OBVIOUS
<1>1. LedgersAreTrue'
  BY NextLedgers DEF RunIsFollowed
<1>2. IsWork(work) /\ IsWork(head) /\ IsVendor(run)
  BY DEF RunIsFollowed, LedgersAreTrue
<1>3. run.pc # "idle" => last = NoEnd /\ IsWork(run.start) /\ run.old = run.start.spec /\ Stage(run.pc)
  BY DEF RunIsFollowed
<1>4. "citation" \in Spellings /\ "anchor" \in Spellings /\ \A sp \in Spellings : sp = "citation" \/ sp = "anchor"
  BY DEF Spellings
<1>5. CASE UNCHANGED pinsVars
  <2>1. (Stage(run.pc))' = Stage(run.pc)
    BY <1>5 DEF pinsVars, Stage, Stopped
  <2>2. RunEnded' = RunEnded
    BY <1>5 DEF pinsVars, RunEnded, Stopped
  <2> QED
    BY <1>1, <1>5, <2>1, <2>2 DEF pinsVars, RunIsFollowed
<1>6. ASSUME run'.pc = "idle", last' = NoEnd PROVE RunIsFollowed'
  BY <1>1, <1>6 DEF RunIsFollowed
<1>7. ASSUME run' = Idle, last'.ok \in BOOLEAN, RunEnded' PROVE RunIsFollowed'
  BY <1>1, <1>7 DEF RunIsFollowed, Idle
<1>8. CASE StartVendor
  <2>1. /\ run'.pc = "spec" /\ run'.start = work /\ run'.old = work.spec /\ work' = work /\ last' = NoEnd
    BY <1>8 DEF StartVendor
  <2>2. (Stage(run.pc))'
    BY <2>1 DEF Stage
  <2> QED
    BY <1>1, <1>2, <2>1, <2>2 DEF RunIsFollowed
<1>9. ASSUME NEW t, NEW pc, EditTree(t, pc), run.pc # "idle", (Stage(pc))' PROVE RunIsFollowed'
  <2>1. /\ run'.pc = pc /\ run'.start = run.start /\ run'.old = run.old /\ last' = last
    BY <1>2, <1>9 DEF EditTree, IsVendor
  <2> QED
    BY <1>1, <1>3, <1>9, <2>1 DEF RunIsFollowed
<1>10. ASSUME NEW t, NEW pc, EditTree(t, pc)
       PROVE  work' = t /\ run'.start = run.start /\ run'.doc = run.doc /\ head' = head
  BY <1>2, <1>10 DEF EditTree, IsVendor
<1>11. CASE WriteSpec
  <2> DEFINE t == [work EXCEPT !.spec = run.doc]
  <2>1. EditTree(t, "pin") /\ run.pc = "spec"
    BY <1>11 DEF WriteSpec
  <2>2. t.spec = run.doc /\ t.cites = work.cites /\ t.ledger = work.ledger
    BY <1>2 DEF IsWork
  <2>3. work = run.start
    BY <1>3, <2>1 DEF Stage
  <2> HIDE DEF t
  <2>4. (Stage("pin"))'
    BY <1>10, <2>1, <2>2, <2>3 DEF Stage
  <2> QED
    BY <1>9, <2>1, <2>4
<1>12. CASE WritePin
  <2> DEFINE t == [work EXCEPT !.pin = run.doc]
  <2>1. run.pc = "pin" /\ t.spec = work.spec /\ t.pin = run.doc /\ t.cites = work.cites /\ t.ledger = work.ledger
    BY <1>2, <1>12 DEF IsWork, WritePin
  <2>2. work.spec = run.doc /\ work.cites = run.start.cites /\ work.ledger = run.start.ledger
    BY <1>3, <2>1 DEF Stage
  <2>3. CASE run.old # run.doc
    <3>1. EditTree(t, "citation")
      BY <1>12, <2>3 DEF WritePin
    <3> HIDE DEF t
    <3>2. (Stage("citation"))'
      BY <1>10, <2>1, <2>2, <3>1 DEF Stage
    <3> QED
      BY <1>9, <2>1, <3>1, <3>2
  <2>4. CASE run.old = run.doc
    <3>1. work' = t /\ run' = Idle /\ last' = [ok |-> TRUE, start |-> run.start]
      BY <1>12, <2>4 DEF WritePin, End
    <3> HIDE DEF t
    <3>2. RunEnded'
      BY <1>3, <2>1, <2>2, <2>4, <3>1 DEF RunEnded, Idle
    <3> QED
      BY <1>7, <3>1, <3>2
  <2> QED
    BY <2>3, <2>4
<1>13. ASSUME Remap("citation") PROVE RunIsFollowed'
  <2> DEFINE new == Moved(work, "citation", run.old, run.doc)
             t == [work EXCEPT !.cites["citation"] = new]
  <2>1. EditTree(t, "anchor") /\ run.pc = "citation"
    BY <1>2, <1>4, <1>13 DEF Remap, Moved, IsWork
  <2>2. /\ work.spec = run.doc /\ work.pin = run.doc
        /\ work.cites = run.start.cites /\ work.ledger = run.start.ledger /\ run.old = run.start.spec
    BY <1>3, <2>1 DEF Stage
  <2>3. new = Moved(run.start, "citation", run.start.spec, run.doc)
    BY <2>2 DEF Moved
  <2> HIDE DEF new
  <2>4. /\ t.spec = work.spec /\ t.pin = work.pin /\ t.ledger = work.ledger
        /\ t.cites["citation"] = new /\ t.cites["anchor"] = work.cites["anchor"]
    BY <1>2, <1>4 DEF IsWork
  <2> HIDE DEF t
  <2>5. (Stage("anchor"))'
    BY <1>10, <2>1, <2>2, <2>3, <2>4 DEF Stage
  <2> QED
    BY <1>9, <2>1, <2>5
<1>14. ASSUME Remap("anchor") PROVE RunIsFollowed'
  <2> DEFINE new == Moved(work, "anchor", run.old, run.doc)
             t == [work EXCEPT !.cites["anchor"] = new]
  <2>1. EditTree(t, "sync citation") /\ run.pc = "anchor"
    BY <1>2, <1>4, <1>14 DEF Remap, Moved, IsWork
  <2>2. /\ work.spec = run.doc /\ work.pin = run.doc
        /\ work.cites["citation"] = Moved(run.start, "citation", run.start.spec, run.doc)
        /\ work.cites["anchor"] = run.start.cites["anchor"]
        /\ work.ledger = run.start.ledger /\ run.old = run.start.spec
    BY <1>3, <2>1 DEF Stage
  <2>3. new = Moved(run.start, "anchor", run.start.spec, run.doc)
    BY <2>2 DEF Moved
  <2> HIDE DEF new
  <2>4. /\ t.spec = work.spec /\ t.pin = work.pin /\ t.ledger = work.ledger
        /\ t.cites["anchor"] = new /\ t.cites["citation"] = work.cites["citation"]
    BY <1>2, <1>4 DEF IsWork
  <2> HIDE DEF t
  <2>5. Carried(t, run.start, run.doc)
    BY <1>4, <2>2, <2>3, <2>4 DEF Carried
  <2>6. (Stage("sync citation"))'
    <3>1. work' = t /\ run'.start = run.start /\ run'.doc = run.doc
      BY <1>10, <2>1
    <3>2. Carried(work', run'.start, run'.doc)
      BY <2>5, <3>1
    <3>3. work'.ledger = run'.start.ledger
      BY <2>2, <2>4, <3>1
    <3> QED
      BY <3>2, <3>3 DEF Stage, Carried
  <2> QED
    BY <1>9, <2>1, <2>6
<1>15. ASSUME NEW sp \in Spellings, ~SyncRefused(work, head, sp, {}), NEW start, NEW doc, Carried(work, start, doc)
       PROVE  /\ Carried(Synced(work, sp), start, doc) /\ Synced(work, sp).spec = work.spec
              /\ Synced(work, sp).cites = work.cites
              /\ Written(Synced(work, sp), sp)
              /\ \A other \in Spellings \ {sp} : Synced(work, sp).ledger[other] = work.ledger[other]
  <2>1. \A key \in DOMAIN work.cites[sp] : work.cites[sp][key] \in Spans(work.spec)
    BY <1>15, AllowedResolves
  <2>2. /\ Synced(work, sp).spec = work.spec /\ Synced(work, sp).cites = work.cites
        /\ \A other \in Spellings \ {sp} : Synced(work, sp).ledger[other] = work.ledger[other]
    BY <1>2, <2>1, SyncedIsWork
  <2>3. Synced(work, sp).pin = work.pin
    BY <1>2 DEF Synced, IsWork
  <2> QED
    BY <1>2, <1>15, <2>2, <2>3, AllowedIsWritten DEF Carried
<1>16. CASE ResyncCitations
  <2> DEFINE no == SyncRefused(work, head, "citation", {})
  <2>1. /\ run.pc = "sync citation" /\ head' = head /\ last' = last
        /\ run'.pc = "sync anchor" /\ run'.start = run.start /\ run'.old = run.old /\ run'.doc = run.doc
        /\ run'.failed = IF no THEN {"citation"} ELSE {}
        /\ work' = IF no THEN work ELSE Synced(work, "citation")
    BY <1>2, <1>16 DEF ResyncCitations, IsVendor
  <2>2. Carried(work, run.start, run.doc) /\ work.ledger = run.start.ledger
    BY <1>3, <2>1 DEF Stage
  <2>3. CASE no
    <3>1. work' = work /\ run'.failed # {}
      BY <2>1, <2>3
    <3>2. (Stage("sync anchor"))'
      BY <2>1, <2>2, <2>3, <3>1 DEF Stage, Carried, Untouched, Stopped
    <3> QED
      BY <1>1, <1>3, <2>1, <3>2 DEF RunIsFollowed
  <2>4. CASE ~no
    <3>1. work' = Synced(work, "citation") /\ run'.failed = {}
      BY <2>1, <2>4
    <3>2. Carried(work', run.start, run.doc) /\ Written(work', "citation") /\ Untouched(work', run.start, "anchor")
      BY <1>4, <1>15, <2>2, <2>4, <3>1 DEF Untouched
    <3>3. (Stage("sync anchor"))'
      BY <2>1, <3>1, <3>2 DEF Stage, Carried, Untouched, Written
    <3> QED
      BY <1>1, <1>3, <2>1, <3>3 DEF RunIsFollowed
  <2> QED
    BY <2>3, <2>4
<1>17. CASE ResyncAnchors
  <2> DEFINE no == SyncRefused(work, head, "anchor", {})
  <2>1. /\ run.pc = "sync anchor" /\ head' = head /\ run' = Idle
        /\ last' = [ok |-> ~no /\ run.failed = {}, start |-> run.start]
        /\ work' = IF no THEN work ELSE Synced(work, "anchor")
    BY <1>17 DEF ResyncAnchors, End
  <2>2. /\ Carried(work, run.start, run.doc) /\ Untouched(work, run.start, "anchor")
        /\ IF run.failed = {} THEN Written(work, "citation") ELSE Stopped(work, head, run.start, "citation")
    BY <1>3, <2>1 DEF Stage
  <2>3. CASE no
    <3>1. work' = work /\ ~last'.ok
      BY <2>1, <2>3
    <3>2. Stopped(work', head', last'.start, "anchor")
      BY <2>1, <2>2, <2>3, <3>1 DEF Stopped
    <3>3. Carried(work', last'.start, work'.spec)
      BY <2>1, <2>2, <3>1 DEF Carried
    <3>4. RunEnded'
      BY <1>3, <1>4, <2>1, <3>1, <3>2, <3>3 DEF RunEnded, Idle, Stopped, Untouched, Carried
    <3> QED
      BY <1>7, <2>1, <3>4
  <2>4. CASE ~no
    <3>1. work' = Synced(work, "anchor")
      BY <2>1, <2>4
    <3>2. /\ Carried(work', run.start, run.doc) /\ Written(work', "anchor") /\ work'.spec = work.spec
          /\ work'.cites = work.cites /\ work'.ledger["citation"] = work.ledger["citation"]
      BY <1>4, <1>15, <2>2, <2>4, <3>1
    <3>3. Carried(work', last'.start, work'.spec)
      BY <2>1, <2>2, <3>2 DEF Carried
    <3>4. CASE run.failed = {}
      <4>1. Written(work, "citation") /\ last'.ok
        BY <2>1, <2>2, <2>4, <3>4
      <4>2. Pins(work', "citation") = Pins(work, "citation")
        BY <3>2 DEF Pins
      <4>3. Written(work', "citation")
        BY <3>2, <4>1, <4>2 DEF Written
      <4>4. \A sp \in Spellings : Written(work', sp)
        BY <1>4, <3>2, <4>3
      <4>5. (\A sp \in Spellings : Written(work, sp))'
        BY <4>4
      <4>6. (Carried(work, last.start, work.spec))' /\ IsWork(last'.start) /\ run'.pc = "idle"
        BY <1>3, <2>1, <3>3 DEF Idle
      <4>7. RunEnded'
        BY <4>1, <4>5, <4>6 DEF RunEnded
      <4> QED
        BY <1>7, <2>1, <4>7
    <3>5. CASE run.failed # {}
      <4>1. Stopped(work, head, run.start, "citation") /\ ~last'.ok
        BY <2>1, <2>2, <3>5
      <4>2. Stopped(work', head', last'.start, "citation")
        BY <2>1, <3>2, <4>1, SameRefusal DEF Stopped, Untouched
      <4>3. RunEnded'
        BY <1>3, <1>4, <2>1, <3>3, <4>1, <4>2 DEF RunEnded, Idle, Stopped, Untouched, Carried
      <4> QED
        BY <1>7, <2>1, <4>3
    <3> QED
      BY <3>4, <3>5
  <2> QED
    BY <2>3, <2>4
<1>18. CASE VendorDies
  BY <1>6, <1>18 DEF VendorDies, Idle
<1>19. CASE Recite \/ Sync \/ Regenerate \/ Commit \/ Reset
  BY <1>6, <1>19 DEF Recite, Sync, Regenerate, Commit, Reset, AtRest
<1>20. ASSUME NEW sp \in Spellings, Remap(sp) PROVE RunIsFollowed'
  BY <1>4, <1>13, <1>14, <1>20
<1> QED
  BY <1>5, <1>8, <1>11, <1>12, <1>16, <1>17, <1>18, <1>19, <1>20 DEF PinsNext

NothingGenerated ==
  /\ run.pc # "idle" => last = NoEnd /\ Ungenerated(work, run.start)
  /\ last # NoEnd => run.pc = "idle" /\ Ungenerated(work, last.start)

LEMMA InitNothingGenerated == PinsInit => NothingGenerated
BY DEF PinsInit, NothingGenerated, Idle

LEMMA NextNothingGenerated ==
  LedgersAreTrue /\ NothingGenerated /\ [PinsNext]_pinsVars => NothingGenerated'
<1> SUFFICES ASSUME LedgersAreTrue, NothingGenerated, [PinsNext]_pinsVars PROVE NothingGenerated'
  OBVIOUS
<1>1. IsWork(work) /\ IsVendor(run)
  BY DEF LedgersAreTrue
<1>2. CASE UNCHANGED pinsVars
  BY <1>2 DEF pinsVars, NothingGenerated, Ungenerated
<1>3. CASE StartVendor
  BY <1>3 DEF StartVendor, NothingGenerated, Ungenerated
<1>4. ASSUME NEW t, NEW pc, EditTree(t, pc), run.pc # "idle", Ungenerated(t, work) PROVE NothingGenerated'
  <2>1. work' = t /\ run'.start = run.start /\ last' = last
    BY <1>1, <1>4 DEF EditTree, IsVendor
  <2> QED
    BY <1>4, <2>1 DEF NothingGenerated, Ungenerated
<1>5. ASSUME NEW ok, End(ok), run.pc # "idle", Ungenerated(work', work) PROVE NothingGenerated'
  BY <1>5 DEF End, NothingGenerated, Ungenerated, Idle
<1>6. /\ \A doc : Ungenerated([work EXCEPT !.spec = doc], work)
      /\ \A doc : Ungenerated([work EXCEPT !.pin = doc], work)
      /\ \A sp, cites : Ungenerated([work EXCEPT !.cites[sp] = cites], work)
      /\ \A sp : Ungenerated(Synced(work, sp), work)
      /\ Ungenerated(work, work)
  BY <1>1 DEF IsWork, Ungenerated, Synced
<1>7. CASE WriteSpec
  BY <1>4, <1>6, <1>7 DEF WriteSpec
<1>8. CASE WritePin
  BY <1>4, <1>5, <1>6, <1>8 DEF WritePin
<1>9. ASSUME NEW sp \in Spellings, Remap(sp) PROVE NothingGenerated'
  <2> DEFINE newTree == [work EXCEPT !.cites[sp] = Moved(work, sp, run.old, run.doc)]
             pc == IF sp = "citation" THEN "anchor" ELSE "sync citation"
  <2>1. EditTree(newTree, pc) /\ run.pc # "idle"
    BY <1>1, <1>9 DEF Remap, Moved, IsWork, Spellings
  <2>2. Ungenerated(newTree, work)
    BY <1>6
  <2> HIDE DEF newTree, pc
  <2> QED
    BY <1>4, <2>1, <2>2
<1>10. CASE ResyncCitations
  <2>1. run'.start = run.start /\ last' = last /\ run.pc # "idle" /\ Ungenerated(work', work)
    BY <1>1, <1>6, <1>10 DEF ResyncCitations, IsVendor
  <2> QED
    BY <2>1 DEF NothingGenerated, Ungenerated
<1>11. CASE ResyncAnchors
  BY <1>5, <1>6, <1>11 DEF ResyncAnchors
<1>12. CASE VendorDies \/ Recite \/ Sync \/ Regenerate \/ Commit \/ Reset
  BY <1>12 DEF VendorDies, Recite, Sync, Regenerate, Commit, Reset, AtRest, Idle, NothingGenerated
<1> QED
  BY <1>2, <1>3, <1>7, <1>8, <1>9, <1>10, <1>11, <1>12 DEF PinsNext

----------------------------------------------------------------------------
(* SpecPins: a re-vendor that only adds lines. Every line that is not blank  *)
(* has one place in the new revision, in the same order, so the matching    *)
(* blocks cover them all (KeptIsMatched), the line map is that place, and   *)
(* every line of a cited passage is inside the remapped citation. What can  *)
(* be off it is the passage as a whole, when the addition broke it up.      *)

LEMMA LinesAreUnlike ==
  ASSUME NEW old \in Document, NEW new \in Document, OnlyInserts(old, new),
         NEW m \in 1..Len(old), NEW n \in 1..Len(old), old[m] = old[n], old[m] # << >>
  PROVE  m = n
<1>1. LineMap(old, new)[m] \in 1..Len(new) /\ new[LineMap(old, new)[m]] = old[m]
  BY LineMapFollows
<1>2. LineMap(old, new)[n] \in 1..Len(new) /\ new[LineMap(old, new)[n]] = old[n]
  BY LineMapFollows
<1>3. LineMap(old, new)[m] = LineMap(old, new)[n]
  BY <1>1, <1>2, LineMapFollows
<1>4. Len(old) \in Nat /\ Len(new) \in Nat
  BY LinesOfDocument
<1>5. ~(m < n)
  BY <1>1, <1>2, <1>3, <1>4, LineMapOrders
<1>6. ~(n < m)
  BY <1>1, <1>2, <1>3, <1>4, LineMapOrders
<1> QED
  BY <1>4, <1>5, <1>6

LEMMA PassagesAreUnlike ==
  ASSUME NEW old \in Document, NEW new \in Document, OnlyInserts(old, new),
         NEW span \in Spans(old), NEW was \in Spans(old), old[span.lo] # << >>,
         Passage(old, span) = Passage(old, was)
  PROVE  was.lo = span.lo /\ was.hi = span.hi
<1>1. /\ span.lo \in 1..Len(old) /\ span.hi \in 1..Len(old) /\ span.lo <= span.hi /\ Len(old) \in Nat
      /\ Len(Passage(old, span)) = span.hi - span.lo + 1
      /\ \A i \in 1..(span.hi - span.lo + 1) : Passage(old, span)[i] = old[i + span.lo - 1]
  BY PassageOfDocument
<1>2. /\ was.lo \in 1..Len(old) /\ was.hi \in 1..Len(old) /\ was.lo <= was.hi
      /\ Len(Passage(old, was)) = was.hi - was.lo + 1
      /\ \A i \in 1..(was.hi - was.lo + 1) : Passage(old, was)[i] = old[i + was.lo - 1]
  BY PassageOfDocument
<1>3. was.hi - was.lo = span.hi - span.lo
  <2>1. was.hi - was.lo + 1 = span.hi - span.lo + 1
    BY <1>1, <1>2, Zenon
  <2>2. was.hi \in Int /\ was.lo \in Int /\ span.hi \in Int /\ span.lo \in Int
    BY <1>1, <1>2
  <2> QED
    BY <2>1, <2>2
<1>4. 1 \in 1..(span.hi - span.lo + 1) /\ 1 + span.lo - 1 = span.lo /\ 1 + was.lo - 1 = was.lo
  BY <1>1, <1>2
<1>5. old[was.lo] = old[span.lo]
  BY <1>1, <1>2, <1>3, <1>4
<1>6. was.lo = span.lo
  BY <1>1, <1>2, <1>5, LinesAreUnlike
<1> QED
  BY <1>1, <1>2, <1>3, <1>6

\* A citation that is carried over is not off any line it was drawn around.
LEMMA NoLineIsLeftBehind ==
  ASSUME NEW old \in Document, NEW new \in Document, OnlyInserts(old, new),
         NEW span, Resolves(span, old), NEW n \in span.lo..span.hi
  PROVE  ~LeftBehind(new, old[n], Remapped(span, old, new))
<1> DEFINE here == Remapped(span, old, new)
           at   == LineMap(old, new)[n]
<1>1. span.lo \in 1..Len(old) /\ span.hi \in 1..Len(old) /\ span.lo <= span.hi /\ Len(old) \in Nat
  BY LinesOfDocument DEF Resolves, Spans
<1>2. old[span.lo] # << >> /\ old[span.hi] # << >> /\ n \in 1..Len(old)
  BY <1>1 DEF Resolves
<1>3. CASE old[n] = << >>
  BY <1>3 DEF LeftBehind, Occurrences
<1>4. CASE old[n] # << >>
  <2>1. at \in 1..Len(new) /\ new[at] = old[n] /\ Len(new) \in Nat
    BY <1>2, <1>4, LineMapFollows, LinesOfDocument
  <2>2. here \in Spans(new) /\ here.lo = LineMap(old, new)[span.lo] /\ here.hi = LineMap(old, new)[span.hi]
    BY RemappedFollows DEF Resolves, Span
  <2>3. here.lo \in 1..Len(new) /\ here.hi \in 1..Len(new)
    BY <1>1, <1>2, <2>2, LineMapFollows
  <2> HIDE DEF here
  <2>4. here.lo <= at
    <3>1. CASE n = span.lo
      BY <2>1, <2>2, <3>1
    <3>2. CASE n # span.lo
      <4>1. span.lo < n
        BY <1>1, <3>2
      <4> QED
        BY <1>1, <1>2, <1>4, <2>1, <2>2, <2>3, <4>1, LineMapOrders
    <3> QED
      BY <3>1, <3>2
  <2>5. at <= here.hi
    <3>1. CASE n = span.hi
      BY <2>1, <2>2, <3>1
    <3>2. CASE n # span.hi
      <4>1. n < span.hi
        BY <1>1, <3>2
      <4> QED
        BY <1>1, <1>2, <1>4, <2>1, <2>2, <2>3, <4>1, LineMapOrders
    <3> QED
      BY <3>1, <3>2
  <2>6. at \in here.lo..here.hi
    BY <2>1, <2>3, <2>4, <2>5
  <2>7. ~LeftBehind(new, new[at], here)
    BY <2>2, <2>6, LineIsOnItsSpan
  <2> QED
    BY <2>1, <2>7 DEF here
<1> QED
  BY <1>3, <1>4

\* Why a re-vendor of a green tree that only adds lines is refused, the ledger
\* being about the last commit.
LEMMA RefusedForAQuotation ==
  ASSUME NEW t, IsWork(t), NEW start, IsWork(start), NEW sp \in Spellings,
         OnlyInserts(start.spec, t.spec), Carried(t, start, t.spec), LedgerOk(start, sp),
         Stopped(t, start, start, sp), start.ledger[sp].spec = start.spec
  PROVE  \E key \in DOMAIN t.cites[sp] :
           /\ Occurrences(t.spec, Words(Passage(start.spec, start.cites[sp][key]))) # {}
           /\ Words(Passage(t.spec, t.cites[sp][key])) # Words(Passage(start.spec, start.cites[sp][key]))
<1>1. start.spec \in Document /\ t.spec \in Document /\ PinsOf(start.ledger[sp])
  BY DEF IsWork
<1>2. /\ t.cites[sp] = Moved(start, sp, start.spec, t.spec)
      /\ DOMAIN t.cites[sp] = DOMAIN start.cites[sp]
      /\ \A key \in DOMAIN start.cites[sp] :
           t.cites[sp][key] = Remapped(start.cites[sp][key], start.spec, t.spec)
  BY DEF Carried, Moved
<1>3. /\ DOMAIN start.ledger[sp].pins = DOMAIN start.cites[sp] /\ start.cites[sp] # << >>
      /\ \A key \in DOMAIN start.cites[sp] : Resolves(start.cites[sp][key], start.spec)
      /\ Changed(start, sp) = {}
  BY DEF LedgerOk
<1>4. t.ledger[sp] = start.ledger[sp] /\ SyncRefused(t, start, sp, {})
  BY DEF Stopped, Untouched
<1>5. \A key \in DOMAIN start.cites[sp] : Resolves(t.cites[sp][key], t.spec)
  BY <1>1, <1>2, <1>3, RemappedFollows
<1>6. IsList(start.cites[sp]) /\ IsList(t.cites[sp])
  BY DEF IsWork
<1>7. t.cites[sp] # << >>
  <2>1. PICK S : start.cites[sp] \in Seq(S)
    BY <1>6 DEF IsList
  <2>2. DOMAIN start.cites[sp] # {}
    BY <1>3, <2>1
  <2> QED
    BY <1>2, <2>2
<1>8. BeforeImage(t, start, sp)
  BY <1>4 DEF BeforeImage
<1>9. PICK key \in Changed(t, sp) :
        LET was == t.ledger[sp].pins[key].at IN
        was.hi > Len(start.spec) \/ MovedOff(start.spec, was, t.spec, t.cites[sp][key])
  BY <1>2, <1>4, <1>5, <1>7, <1>8 DEF SyncRefused
<1> DEFINE was  == start.ledger[sp].pins[key].at
           from == start.cites[sp][key]
           here == t.cites[sp][key]
<1>10. key \in DOMAIN start.cites[sp] /\ key \in DOMAIN start.ledger[sp].pins
  BY <1>2, <1>3, <1>9 DEF Changed
<1>11. /\ was \in Spans(start.spec)
       /\ start.ledger[sp].pins[key].text = Passage(start.spec, was)
  BY <1>1, <1>10 DEF PinsOf
<1>12. was.lo \in 1..Len(start.spec) /\ was.hi \in 1..Len(start.spec) /\ Len(start.spec) \in Nat
  BY <1>1, <1>11, PassageOfDocument
<1>13. MovedOff(start.spec, was, t.spec, here)
  BY <1>4, <1>9, <1>12
<1>14. Passage(start.spec, from) = Passage(start.spec, was)
  <2>1. Pins(start, sp)[key].text = Passage(start.spec, from)
    BY <1>10 DEF Pins
  <2>2. Pins(start, sp)[key].text = start.ledger[sp].pins[key].text
    BY <1>3, <1>10 DEF Changed
  <2> QED
    BY <1>11, <2>1, <2>2
<1>15. from \in Spans(start.spec) /\ start.spec[from.lo] # << >> /\ Resolves(from, start.spec)
  BY <1>3, <1>10 DEF Resolves
<1>16. was.lo = from.lo /\ was.hi = from.hi
  BY <1>1, <1>11, <1>14, <1>15, PassagesAreUnlike
<1>17. here = Remapped(from, start.spec, t.spec) /\ here \in Spans(t.spec)
  BY <1>2, <1>5, <1>10 DEF Resolves
<1> HIDE DEF was, from, here
<1>18. ASSUME NEW n \in was.lo..was.hi PROVE ~LeftBehind(t.spec, start.spec[n], here)
  BY <1>1, <1>15, <1>16, <1>17, NoLineIsLeftBehind
<1>19. LeftBehind(t.spec, Words(Passage(start.spec, from)), here)
  BY <1>13, <1>14, <1>18 DEF MovedOff
<1>20. Occurrences(t.spec, Words(Passage(start.spec, from))) # {}
  BY <1>19 DEF LeftBehind
<1>21. Words(Passage(t.spec, here)) # Words(Passage(start.spec, from))
  BY <1>1, <1>17, <1>19, PassageIsOnItsSpan
<1> QED
  BY <1>2, <1>10, <1>20, <1>21 DEF from, here

LEMMA WrittenIsOk ==
  ASSUME NEW t, IsWork(t), NEW sp \in Spellings, Written(t, sp)
  PROVE  LedgerOk(t, sp)
<1>1. /\ t.ledger[sp].pins = Pins(t, sp) /\ t.cites[sp] # << >>
      /\ \A key \in DOMAIN t.cites[sp] : Resolves(t.cites[sp][key], t.spec)
  BY DEF Written, Ledger
<1>2. PICK S : t.cites[sp] \in Seq(S)
  BY DEF IsWork, IsList
<1>3. DOMAIN t.cites[sp] # {}
  BY <1>1, <1>2
<1>4. DOMAIN Pins(t, sp) = DOMAIN t.cites[sp]
  BY DEF Pins
<1>5. t.ledger[sp] # NoLedger
  BY <1>1, <1>3, <1>4 DEF NoLedger
<1>6. Changed(t, sp) = {}
  BY <1>1 DEF Changed
<1> QED
  BY <1>1, <1>4, <1>5, <1>6 DEF LedgerOk

LEMMA SameCheck ==
  ASSUME NEW t, NEW u, NEW sp, t.spec = u.spec, t.cites[sp] = u.cites[sp],
         t.ledger[sp] = u.ledger[sp], LedgerOk(t, sp)
  PROVE  LedgerOk(u, sp)
<1>1. Pins(t, sp) = Pins(u, sp)
  BY DEF Pins
<1>2. Changed(t, sp) = Changed(u, sp)
  BY <1>1 DEF Changed
<1> QED
  BY <1>2 DEF LedgerOk

\* What is wanting after a re-vendor is only what the generators write.
LEMMA RegeneratedIsGreen ==
  ASSUME NEW t, IsWork(t), t.pin = t.spec, \A sp \in Spellings : LedgerOk(t, sp)
  PROVE  Green(Manifested(Tabulated(t)))
<1> DEFINE u == Manifested(Tabulated(t))
<1>1. /\ u.spec = t.spec /\ u.pin = t.pin /\ u.manifest = t.spec /\ u.cites = t.cites
      /\ u.table = t.cites["anchor"] /\ u.ledger = t.ledger
  BY DEF IsWork, Manifested, Tabulated
<1> HIDE DEF u
<1>2. \A sp \in Spellings : LedgerOk(u, sp)
  BY <1>1, SameCheck
<1>3. \A key \in DOMAIN u.cites["anchor"] : Resolves(u.cites["anchor"][key], u.spec)
  BY <1>2 DEF LedgerOk, Spellings
<1>4. TablesOk(u)
  BY <1>1, <1>3 DEF TablesOk
<1>5. Green(u)
  BY <1>1, <1>2, <1>4 DEF Green, CheckOk, DriftOk
<1> QED
  BY <1>5 DEF u

\* The tables are of the anchors they were generated from.
LEMMA TablesAsTheyWere ==
  ASSUME NEW t, IsWork(t), NEW start, IsWork(start), TablesOk(start), t.table = start.table,
         LedgerOk(t, "anchor"), t.cites["anchor"] = start.cites["anchor"]
  PROVE  TablesOk(t)
<1>1. \A key \in DOMAIN t.cites["anchor"] : Resolves(t.cites["anchor"][key], t.spec)
  BY DEF LedgerOk
<1>2. ASSUME NEW key \in DOMAIN t.table, key \in DOMAIN t.cites["anchor"]
      PROVE  t.table[key] = t.cites["anchor"][key] /\ Resolves(t.table[key], t.spec)
  BY <1>1, <1>2 DEF TablesOk
<1>3. ASSUME NEW key \in DOMAIN t.table, key \notin DOMAIN t.cites["anchor"]
      PROVE  t.table[key] \in Range(t.cites["anchor"]) /\ Resolves(t.table[key], t.spec)
  <2>1. t.table[key] \in Range(t.cites["anchor"])
    BY <1>3 DEF TablesOk
  <2> QED
    BY <1>1, <2>1 DEF Range
<1> QED
  BY <1>2, <1>3 DEF TablesOk

LEMMA OvertakenTables ==
  ASSUME NEW t, NEW start, TablesOk(start), t.table = start.table,
         DOMAIN t.cites["anchor"] = DOMAIN start.cites["anchor"],
         NEW key \in DOMAIN t.table \cap DOMAIN t.cites["anchor"],
         t.cites["anchor"][key] # start.cites["anchor"][key]
  PROVE  ~TablesOk(t)
<1>1. start.table[key] = start.cites["anchor"][key]
  BY DEF TablesOk
<1>2. t.table[key] # t.cites["anchor"][key]
  BY <1>1
<1> QED
  BY <1>2 DEF TablesOk

LEMMA FollowedThen == RunIsFollowed /\ NothingGenerated => InsertionsAreFollowed
<1> DEFINE start == last.start
<1> SUFFICES ASSUME RunIsFollowed, NothingGenerated, last # NoEnd, Green(start), start = head,
                    OnlyInserts(start.spec, work.spec)
             PROVE  /\ \A sp \in Spellings : \A key \in DOMAIN work.cites[sp] :
                         /\ work.spec[work.cites[sp][key].lo] = start.spec[start.cites[sp][key].lo]
                         /\ work.spec[work.cites[sp][key].hi] = start.spec[start.cites[sp][key].hi]
                    /\ IF last.ok
                       THEN /\ \A sp \in Spellings : LedgerOk(work, sp)
                            /\ Green(Manifested(Tabulated(work)))
                            /\ DriftOk(work) <=> work.spec = start.spec
                            /\ Overtaken => ~TablesOk(work)
                            /\ work.cites["anchor"] = start.cites["anchor"] => TablesOk(work)
                       ELSE \E sp \in Spellings :
                              \/ start.ledger[sp].spec # start.spec
                              \/ \E key \in DOMAIN work.cites[sp] : ReadsElsewhere(sp, key)
  BY DEF InsertionsAreFollowed
<1>1. /\ IsWork(start) /\ IsWork(work) /\ start.spec \in Document /\ work.spec \in Document
      /\ \/ /\ last.ok /\ work.spec = start.spec /\ work.pin = work.spec
            /\ work.cites = start.cites /\ work.ledger = start.ledger
         \/ /\ Carried(work, start, work.spec)
            /\ IF last.ok THEN \A sp \in Spellings : Written(work, sp)
               ELSE \E sp \in Spellings : Stopped(work, head, start, sp)
  BY DEF RunIsFollowed, RunEnded, LedgersAreTrue, IsWork
<1>2. /\ \A sp \in Spellings : LedgerOk(start, sp)
      /\ TablesOk(start) /\ start.manifest = start.spec
  BY DEF Green, CheckOk, DriftOk, Spellings
<1>9. work.manifest = start.manifest /\ work.table = start.table
  BY DEF NothingGenerated, Ungenerated
<1>10. "anchor" \in Spellings
  BY DEF Spellings
<1>11. Overtaken => \E key \in DOMAIN work.table \cap DOMAIN work.cites["anchor"] :
                      work.cites["anchor"][key] # start.cites["anchor"][key]
  BY DEF Overtaken
<1> HIDE DEF start
<1>12. ASSUME \A sp \in Spellings : LedgerOk(work, sp), work.pin = work.spec,
              DOMAIN work.cites["anchor"] = DOMAIN start.cites["anchor"]
       PROVE  /\ Green(Manifested(Tabulated(work)))
              /\ DriftOk(work) <=> work.spec = start.spec
              /\ Overtaken => ~TablesOk(work)
              /\ work.cites["anchor"] = start.cites["anchor"] => TablesOk(work)
  <2>1. Green(Manifested(Tabulated(work)))
    BY <1>1, <1>12, RegeneratedIsGreen
  <2>2. DriftOk(work) <=> work.spec = start.spec
    BY <1>2, <1>9, <1>12 DEF DriftOk
  <2>3. Overtaken => ~TablesOk(work)
    BY <1>2, <1>9, <1>11, <1>12, OvertakenTables
  <2>4. work.cites["anchor"] = start.cites["anchor"] => TablesOk(work)
    BY <1>1, <1>2, <1>9, <1>10, <1>12, TablesAsTheyWere
  <2> QED
    BY <2>1, <2>2, <2>3, <2>4
<1>3. CASE /\ last.ok /\ work.spec = start.spec /\ work.pin = work.spec
           /\ work.cites = start.cites /\ work.ledger = start.ledger
  <2>1. \A sp \in Spellings : LedgerOk(work, sp)
    BY <1>2, <1>3, SameCheck
  <2> QED
    BY <1>3, <1>12, <2>1
<1>4. CASE /\ Carried(work, start, work.spec)
           /\ IF last.ok THEN \A sp \in Spellings : Written(work, sp)
              ELSE \E sp \in Spellings : Stopped(work, head, start, sp)
  <2>1. ASSUME NEW sp \in Spellings, NEW key \in DOMAIN work.cites[sp]
        PROVE  /\ work.spec[work.cites[sp][key].lo] = start.spec[start.cites[sp][key].lo]
               /\ work.spec[work.cites[sp][key].hi] = start.spec[start.cites[sp][key].hi]
    <3>1. key \in DOMAIN start.cites[sp] /\ work.cites[sp][key] = Remapped(start.cites[sp][key], start.spec, work.spec)
      <4>1. work.cites[sp] = Moved(start, sp, start.spec, work.spec)
        BY <1>4 DEF Carried
      <4> QED
        BY <4>1 DEF Moved
    <3>2. Resolves(start.cites[sp][key], start.spec)
      BY <1>2, <3>1 DEF LedgerOk
    <3> QED
      BY <1>1, <3>1, <3>2, RemappedFollows
  <2>2. CASE last.ok
    <3>1. \A sp \in Spellings : LedgerOk(work, sp)
      BY <1>1, <1>4, <2>2, WrittenIsOk
    <3>2. work.pin = work.spec /\ work.cites["anchor"] = Moved(start, "anchor", start.spec, work.spec)
      BY <1>4, <1>10 DEF Carried
    <3>3. DOMAIN work.cites["anchor"] = DOMAIN start.cites["anchor"]
      BY <3>2 DEF Moved
    <3> QED
      BY <1>12, <2>1, <2>2, <3>1, <3>2, <3>3
  <2>3. CASE ~last.ok
    <3>1. PICK sp \in Spellings : Stopped(work, start, start, sp)
      BY <1>4, <2>3
    <3>2. CASE start.ledger[sp].spec # start.spec
      BY <2>1, <2>3, <3>2
    <3>3. CASE start.ledger[sp].spec = start.spec
      <4>1. PICK key \in DOMAIN work.cites[sp] :
              /\ Occurrences(work.spec, Words(Passage(start.spec, start.cites[sp][key]))) # {}
              /\ Words(Passage(work.spec, work.cites[sp][key])) # Words(Passage(start.spec, start.cites[sp][key]))
        BY <1>1, <1>2, <1>4, <3>1, <3>3, RefusedForAQuotation
      <4>2. ReadsElsewhere(sp, key)
        BY <4>1 DEF ReadsElsewhere, start
      <4> QED
        BY <2>1, <2>3, <4>2
    <3> QED
      BY <3>2, <3>3
  <2> QED
    BY <2>2, <2>3
<1> QED
  BY <1>1, <1>3, <1>4

\* A revision that only adds lines leaves every citation of a green, committed
\* tree opening and closing on its lines, for any revisions and citations
\* (line_map, snap, remap_token). Unless the re-vendor was refused both ledgers
\* pass, and the drift gate and the tables are red exactly for what the generators
\* have not yet written; when it is refused, a ledger was about another revision,
\* or the document has a cited passage that the addition broke up in one piece
\* elsewhere (judge).
THEOREM InsertionsKeepCitations == PinsSpec => []InsertionsAreFollowed
<1>1. PinsInit => RunIsFollowed /\ NothingGenerated
  BY InitRunIsFollowed, InitNothingGenerated
<1>2. RunIsFollowed /\ NothingGenerated /\ [PinsNext]_pinsVars => (RunIsFollowed /\ NothingGenerated)'
  BY NextRunIsFollowed, NextNothingGenerated DEF RunIsFollowed
<1> QED
  BY <1>1, <1>2, FollowedThen, PTL DEF PinsSpec

=============================================================================
