--------------------------- MODULE Regrade_proofs ---------------------------
(***************************************************************************)
(* Theorems about artifact binding: what a record that verifies says, of    *)
(* any trials, verifiers, crashes and changes of the files at any moment.   *)
(***************************************************************************)
EXTENDS Regrade, TLAPS

----------------------------------------------------------------------------
(* The invariant *)

AgentFiles == {AgentFile[i] : i \in DOMAIN AgentFile}

IsEntry(e) ==
  e = [role |-> e.role, path |-> e.path, length |-> Size[e.sha256], sha256 |-> e.sha256]

\* Which file may have which role.
IsArtifact(e) ==
  /\ IsEntry(e)
  /\ \/ e.role \in DOMAIN Fixed /\ e.path = Fixed[e.role]
     \/ e.role = "reward" /\ e.path \in {Text, Json}
     \/ e.role = "atif_trajectory" /\ e.path \in AgentFiles
     \/ e.role = "collected_artifact" /\ e.path \in CollectedFile

IsInput(e) == IsEntry(e) /\ e.role = "verifier_files" /\ e.path = Script

RewardIn(p, c) == NumberIn(IF p = Text THEN TextReward ELSE JsonReward, c)

\* A record as build makes it, of whatever was read of files that may change,
IsBuilt(record) ==
  /\ {"operation", "artifacts", "inputs", "sourceRecord", "sourceArchive", "uncovered",
      "status", "atif", "reward", "rewardPath", "signer"} = DOMAIN record
  /\ record.signer = Key
  /\ record.sourceArchive = ArchiveDigest(record.artifacts)
  /\ \A e \in record.artifacts : IsArtifact(e)
  /\ \A e \in record.inputs : IsInput(e)
  /\ record.rewardPath \in {Null, Text, Json}

\* with the digest of the one document it covers,
NamesOneDocument(record) ==
  \A e \in record.artifacts : e.role = "atif_trajectory" => record.atif.sha256 = e.sha256

\* and of files that stayed as they were: its reward and its dependencies are
\* those of the contents it covers,
IsGenuine(record) ==
  /\ IsBuilt(record)
  /\ record.rewardPath # Null =>
       \E e \in record.artifacts :
         /\ e.role = "reward" /\ e.path = record.rewardPath
         /\ record.reward = RewardIn(e.path, e.sha256)
  /\ record.status # "incomplete" <=>
       \A e \in record.artifacts :
         e.role = "atif_trajectory" => Trajectory[e.sha256].refs = {}

\* and so is the document its atif member is about.
NamesItsDocument(record) ==
  \A e \in record.artifacts :
    e.role = "atif_trajectory" =>
      /\ e.sha256 \in DOMAIN Trajectory
      /\ record.atif.sha256 = e.sha256
      /\ record.atif.id = Trajectory[e.sha256].id

AnswersOf(files)      == {files[p] : p \in {Answer} \cap DOMAIN files}
RecordAnswers(record) == {e.sha256 : e \in {d \in ArchiveDigest(record.artifacts) : d.path = Answer}}

\* The reward of a regrade's record is the one its verifier gives its answer.
GradesItsAnswer(record) ==
  record.operation = "regrade" =>
    \E e \in record.inputs :
      LET given == Writes(e.sha256, RecordAnswers(record)) IN
      Text \in DOMAIN given => record.reward = TextReward[given[Text]]

\* What was read of files so far, whatever became of them,
IsRead(facts) ==
  /\ facts = [graded |-> facts.graded, entries |-> facts.entries, atif |-> facts.atif,
              inputs |-> facts.inputs]
  /\ facts.graded.path \in {Null, Text, Json}
  /\ \A e \in facts.entries : IsArtifact(e)
  /\ \A d, e \in facts.entries :
       d.role = "atif_trajectory" /\ e.role = "atif_trajectory" => d.sha256 = e.sha256
  /\ \A e \in facts.inputs : IsInput(e)

\* and of files that are as they were read.
Reading == DOMAIN Collecting \cup {"name"}

Reads(pc, facts, files, verifier) ==
  /\ facts.graded = ReadReward(files)
  /\ pc \in {"atif", "capture", "cover"} => facts.entries = RunArtifacts(files, facts.graded.path)
  /\ pc \in {"capture", "cover"} => facts.atif = AtifFacts(files, facts.entries)
  /\ pc \in {"cover", "name"} =>
       \A p \in DOMAIN verifier : p \in DOMAIN files /\ files[p] = verifier[p]
  /\ pc = "name" => facts = CollectFacts(files, verifier)

IsDir(dir) == dir = Dir(dir.files, dir.raw, dir.sig)
IsJob(task) ==
  task = [pc |-> task.pc, script |-> task.script, todo |-> task.todo, facts |-> task.facts,
          built |-> task.built, still |-> task.still, even |-> task.even]

TypeOK ==
  /\ IsDir(source) /\ IsDir(target)
  /\ IsJob(job) /\ IsJob(binder)
  /\ ~At("idle") => job.script \in Verifier
  /\ job.pc \notin Reading => job.facts = NoFacts

\* The signature of a directory, where it is the key's, is over a record as built,
\* and genuine unless its files changed meanwhile; about its document unless that
\* was left out on purpose.
Trusted(dir, named) ==
  LET record == dir.sig.over.record IN
  dir.sig.key = Key =>
    /\ IsBuilt(record) /\ (named => NamesOneDocument(record))
    /\ record \notin mixed => IsGenuine(record) /\ (named => NamesItsDocument(record))

\* That is so of both directories, and the target's record grades its answer.
SignedIsGenuine ==
  /\ Trusted(source, member.case # "CaseAtif") /\ Trusted(target, TRUE)
  /\ target.sig.key = Key /\ target.sig.over.record \notin mixed
       => GradesItsAnswer(target.sig.over.record)

HasGraded(script, files) ==
  LET given == Graded(script, files) IN
  Text \in DOMAIN given => Text \in DOMAIN files /\ files[Text] = given[Text]

\* What a verifier has graded is what is read, where nobody has touched it since.
CollectedAsGraded(script, facts) ==
  \E files : HasGraded(script, files) /\ facts = CollectFacts(files, BuildVerifier(script))

\* So is what is read, and what is about to be stored.
Grading  == {"run", "ran", "reward"} \cup Reading
Recorded == {"open", "write", "reopen", "sign", "done"}

BinderIsGenuine ==
  /\ binder.pc \in DOMAIN Collecting =>
       /\ IsRead(binder.facts)
       /\ binder.still =>
            Reads(binder.pc, binder.facts, source.files, BuildVerifier(binder.script))
  /\ binder.pc \in DOMAIN Storing =>
       /\ IsBuilt(binder.built) /\ NamesOneDocument(binder.built)
       /\ binder.built \notin mixed => IsGenuine(binder.built) /\ NamesItsDocument(binder.built)

JobIsGenuine ==
  /\ job.pc \in Grading => job.script # "none"
  /\ job.pc \in {"ran", "reward"} \cup Reading /\ job.still => HasGraded(job.script, target.files)
  /\ job.pc \in Reading =>
       /\ IsRead(job.facts)
       /\ job.still => Reads(job.pc, job.facts, target.files, BuildVerifier(job.script))
  /\ job.pc \in {"name"} \cup Recorded /\ job.still => job.even
  /\ At("name") /\ job.even => CollectedAsGraded(job.script, job.facts)
  /\ job.pc \in Recorded =>
       /\ IsBuilt(job.built) /\ NamesOneDocument(job.built)
       /\ job.even => /\ IsGenuine(job.built) /\ NamesItsDocument(job.built)
                      /\ GradesItsAnswer(job.built)
       /\ job.built \notin mixed => job.even

\* The record a regrade is about to write, or has written, covers the target,
\* where nobody has touched that since it was graded.
Covers(record, files) ==
  \A e \in Covered(record) : e.path \in DOMAIN files /\ files[e.path] = e.sha256

Streams == {"verifier/test-stdout.txt", "verifier/test-stderr.txt"}

CoversTarget ==
  /\ Covers(job.built, target.files)
  /\ RequiredRole \ {e.role : e \in Covered(job.built)} \subseteq {"atif_trajectory", "reward"}
  /\ job.script \in {"strict", "changed"} => job.built.rewardPath = Text

TargetIsCovered ==
  /\ job.pc \in {"reward"} \cup Reading /\ job.still => Streams \subseteq DOMAIN target.files
  /\ job.pc \in Reading /\ job.still => "result.json" \in DOMAIN target.files
  /\ job.pc \in Recorded => job.built.operation = "regrade" /\ (job.still => CoversTarget)
  /\ job.pc \in {"reopen", "sign", "done"} => target.raw = Written(job.built)
  /\ At("done") => target.sig = SignBytes(Key, target.raw)

Inv == TypeOK /\ SignedIsGenuine /\ BinderIsGenuine /\ JobIsGenuine /\ TargetIsCovered

----------------------------------------------------------------------------
(* What build makes of a directory *)

\* An agent's trajectory is one file, and is one.
LEMMA FoundAtif ==
  ASSUME NEW trial, NEW p \in FindAtif(trial)
  PROVE  /\ p \in AgentFiles /\ p \in DOMAIN trial /\ trial[p] \in DOMAIN Trajectory
         /\ \A q \in FindAtif(trial) : q = p
<1> DEFINE found == {i \in DOMAIN AgentFile : /\ AgentFile[i] \in DOMAIN trial
                                              /\ trial[AgentFile[i]] \in DOMAIN Trajectory}
           first == {j \in found : \A k \in found : j <= k}
<1>1. FindAtif(trial) = {AgentFile[i] : i \in first}
  BY DEF FindAtif
<1>2. \A i \in found : i \in Nat
  BY PathAssumption
<1>3. \A i, j \in first : i = j
  BY <1>2
<1>4. PICK i \in first : p = AgentFile[i]
  BY <1>1
<1>5. \A q \in FindAtif(trial) : q = p
  BY <1>1, <1>3, <1>4
<1> QED BY <1>4, <1>5 DEF AgentFiles

\* The reward is that of the file it was read from, the text where there is one.
LEMMA RewardRead ==
  ASSUME NEW trial
  PROVE  LET graded == ReadReward(trial) IN
         /\ graded.path \in {Null, Text, Json}
         /\ graded.path # Null =>
              graded.path \in DOMAIN trial /\ graded.reward = RewardIn(graded.path, trial[graded.path])
         /\ Text \in DOMAIN trial => graded.path = Text
BY DEF ReadReward, RewardIn, Text, Json, Null

\* Every file a record covers is one of the directory, as it was.
LEMMA EntriesOfRun ==
  ASSUME NEW trial, NEW p, p \in {Null, Text, Json}, NEW e \in RunArtifacts(trial, p)
  PROVE  /\ IsArtifact(e) /\ e.path \in DOMAIN trial /\ e.sha256 = trial[e.path]
         /\ e.role = "atif_trajectory" => e.path \in FindAtif(trial)
<1>1. CASE \E role \in DOMAIN Fixed : Fixed[role] \in DOMAIN trial /\ e = Entry(role, trial, Fixed[role])
  <2>1. PICK role \in DOMAIN Fixed : Fixed[role] \in DOMAIN trial /\ e = Entry(role, trial, Fixed[role])
    BY <1>1
  <2>2. role # "atif_trajectory"
    BY DEF Fixed
  <2> QED BY <2>1, <2>2 DEF Entry, IsArtifact, IsEntry
<1>2. CASE p \in DOMAIN trial \ {Null} /\ e = Entry("reward", trial, p)
  BY <1>2 DEF Entry, IsArtifact, IsEntry
<1>3. CASE \E q \in FindAtif(trial) \cap DOMAIN trial : e = Entry("atif_trajectory", trial, q)
  BY <1>3, FoundAtif DEF Entry, IsArtifact, IsEntry
<1>4. CASE \E q \in CollectedFile \cap DOMAIN trial : e = Entry("collected_artifact", trial, q)
  BY <1>4 DEF Entry, IsArtifact, IsEntry
<1> QED BY <1>1, <1>2, <1>3, <1>4, FoundAtif DEF RunArtifacts

LEMMA CapturesScript == \A script : DOMAIN BuildVerifier(script) \subseteq {Script}
BY DEF BuildVerifier, File

LEMMA InputsOfRun ==
  ASSUME NEW files, NEW verifier, DOMAIN verifier \subseteq {Script},
         NEW e \in GradingInputs(files, verifier)
  PROVE  IsInput(e) /\ e.path \in DOMAIN verifier /\ e.sha256 = files[e.path]
BY DEF GradingInputs, Entry, IsInput, IsEntry

\* What build makes of what was read.
LEMMA BuildTells ==
  ASSUME NEW facts, NEW operation, NEW from, NEW record,
         record = Build(facts, operation, from, Key)
  PROVE  /\ DOMAIN record = {"operation", "artifacts", "inputs", "sourceRecord", "sourceArchive",
                             "uncovered", "status", "atif", "reward", "rewardPath", "signer"}
         /\ record.operation = operation /\ record.sourceRecord = from /\ record.signer = Key
         /\ record.artifacts = facts.entries /\ record.inputs = facts.inputs
         /\ record.sourceArchive = ArchiveDigest(facts.entries)
         /\ record.reward = facts.graded.reward /\ record.rewardPath = facts.graded.path
         /\ record.status = IF facts.atif.refs = {} THEN "covered" ELSE "incomplete"
         /\ record.atif.id = facts.atif.id
         /\ \A e \in facts.entries : e.role = "atif_trajectory" =>
              \E d \in facts.entries :
                d.role = "atif_trajectory" /\ record.atif.sha256 = d.sha256
<1> DEFINE atif == {e \in facts.entries : e.role = "atif_trajectory"}
           some == (CHOOSE e \in atif : TRUE).sha256
           archive == ArchiveDigest(facts.entries)
<1>1. record = [ operation     |-> operation,
                 artifacts     |-> facts.entries,
                 inputs        |-> facts.inputs,
                 sourceRecord  |-> from,
                 sourceArchive |-> archive,
                 uncovered     |-> facts.atif.refs,
                 status        |-> IF facts.atif.refs = {} THEN "covered" ELSE "incomplete",
                 atif          |-> [ present |-> atif # {},
                                     id      |-> facts.atif.id,
                                     sha256  |-> IF atif = {} THEN Null ELSE some ],
                 reward        |-> facts.graded.reward,
                 rewardPath    |-> facts.graded.path,
                 signer        |-> Key ]
  BY DEF Build
<1> HIDE DEF atif, some, archive
<1>2. /\ DOMAIN record = {"operation", "artifacts", "inputs", "sourceRecord", "sourceArchive",
                          "uncovered", "status", "atif", "reward", "rewardPath", "signer"}
      /\ record.operation = operation /\ record.sourceRecord = from /\ record.signer = Key
      /\ record.artifacts = facts.entries /\ record.inputs = facts.inputs
      /\ record.sourceArchive = archive
      /\ record.reward = facts.graded.reward /\ record.rewardPath = facts.graded.path
      /\ record.status = IF facts.atif.refs = {} THEN "covered" ELSE "incomplete"
      /\ record.atif.id = facts.atif.id
      /\ record.atif.sha256 = IF atif = {} THEN Null ELSE some
  BY <1>1
<1>3. atif # {} => \E d \in atif : record.atif.sha256 = d.sha256
  <2>1. HAVE atif # {}
  <2>2. (CHOOSE e \in atif : TRUE) \in atif
    BY <2>1
  <2> QED BY <1>2, <2>1, <2>2 DEF some
<1> QED BY <1>2, <1>3 DEF atif, archive

\* Whatever it was, it is a record,
LEMMA BuildIsBuilt ==
  ASSUME NEW facts, IsRead(facts), NEW operation, NEW from, NEW record,
         record = Build(facts, operation, from, Key)
  PROVE  IsBuilt(record) /\ NamesOneDocument(record)
<1>1. IsBuilt(record)
  BY BuildTells DEF IsRead, IsBuilt
<1>2. /\ record.artifacts = facts.entries
      /\ \A e \in facts.entries : e.role = "atif_trajectory" =>
           \E d \in facts.entries :
             d.role = "atif_trajectory" /\ record.atif.sha256 = d.sha256
  BY BuildTells
<1>3. NamesOneDocument(record)
  BY <1>2 DEF NamesOneDocument, IsRead
<1> QED BY <1>1, <1>3

\* What is read of files that stay as they are.
LEMMA CollectTells ==
  ASSUME NEW files, NEW verifier, DOMAIN verifier \subseteq {Script},
         NEW facts, facts = CollectFacts(files, verifier)
  PROVE  /\ IsRead(facts)
         /\ facts.graded = ReadReward(files)
         /\ facts.entries = RunArtifacts(files, facts.graded.path)
         /\ facts.atif = AtifFacts(files, facts.entries)
         /\ facts.inputs = GradingInputs(Capture(files, verifier), verifier)
         /\ \A e \in facts.entries :
              /\ IsArtifact(e) /\ e.path \in DOMAIN files /\ e.sha256 = files[e.path]
              /\ e.role = "atif_trajectory" => e.path \in FindAtif(files)
<1>1. /\ facts = [graded |-> facts.graded, entries |-> facts.entries, atif |-> facts.atif,
                  inputs |-> facts.inputs]
      /\ facts.graded = ReadReward(files)
      /\ facts.entries = RunArtifacts(files, facts.graded.path)
      /\ facts.atif = AtifFacts(files, facts.entries)
      /\ facts.inputs = GradingInputs(Capture(files, verifier), verifier)
  <2> DEFINE graded  == ReadReward(files)
             entries == RunArtifacts(files, graded.path)
             atif    == AtifFacts(files, entries)
             inputs  == GradingInputs(Capture(files, verifier), verifier)
  <2>1. facts = [graded |-> graded, entries |-> entries, atif |-> atif, inputs |-> inputs]
    BY DEF CollectFacts
  <2> HIDE DEF graded, entries, atif, inputs
  <2>2. facts.graded = graded /\ facts.entries = entries /\ facts.atif = atif /\ facts.inputs = inputs
    BY <2>1
  <2> QED BY <2>1, <2>2 DEF graded, entries, atif, inputs
<1>2. facts.graded.path \in {Null, Text, Json}
  BY <1>1, RewardRead
<1>3. \A e \in facts.entries :
        /\ IsArtifact(e) /\ e.path \in DOMAIN files /\ e.sha256 = files[e.path]
        /\ e.role = "atif_trajectory" => e.path \in FindAtif(files)
  BY <1>1, <1>2, EntriesOfRun
<1>4. \A e \in facts.inputs : IsInput(e)
  BY <1>1, InputsOfRun
<1>5. \A d, e \in facts.entries :
        d.role = "atif_trajectory" /\ e.role = "atif_trajectory" => d.sha256 = e.sha256
  BY <1>3, FoundAtif
<1> QED BY <1>1, <1>2, <1>3, <1>4, <1>5 DEF IsRead

\* and of files that stayed as they were it is a genuine one, about the
\* trajectory that was found.
LEMMA BuildIsGenuine ==
  ASSUME NEW files, NEW verifier, DOMAIN verifier \subseteq {Script},
         NEW facts, facts = CollectFacts(files, verifier),
         NEW operation, NEW from, NEW record,
         record = Build(facts, operation, from, Key)
  PROVE  IsGenuine(record) /\ NamesItsDocument(record)
<1> DEFINE atif == {e \in facts.entries : e.role = "atif_trajectory"}
           one  == CHOOSE e \in atif : TRUE
<1>1. /\ IsRead(facts)
      /\ facts.graded = ReadReward(files)
      /\ facts.entries = RunArtifacts(files, facts.graded.path)
      /\ facts.atif = AtifFacts(files, facts.entries)
      /\ \A e \in facts.entries :
           /\ IsArtifact(e) /\ e.path \in DOMAIN files /\ e.sha256 = files[e.path]
           /\ e.role = "atif_trajectory" => e.path \in FindAtif(files)
  BY CollectTells
<1>2. IsBuilt(record) /\ NamesOneDocument(record)
  BY <1>1, BuildIsBuilt
<1>3. /\ record.artifacts = facts.entries
      /\ record.reward = facts.graded.reward /\ record.rewardPath = facts.graded.path
      /\ record.status = IF facts.atif.refs = {} THEN "covered" ELSE "incomplete"
      /\ record.atif.id = facts.atif.id
  BY BuildTells
<1>4. /\ facts.atif.id = IF atif = {} THEN Null ELSE Trajectory[files[one.path]].id
      /\ facts.atif.refs = UNION {Trajectory[files[e.path]].refs : e \in atif}
  BY <1>1 DEF AtifFacts
<1> HIDE DEF one
<1>5. record.rewardPath # Null =>
        \E e \in record.artifacts :
          /\ e.role = "reward" /\ e.path = record.rewardPath
          /\ record.reward = RewardIn(e.path, e.sha256)
  <2>1. HAVE record.rewardPath # Null
  <2> DEFINE p == facts.graded.path
  <2>2. p \in DOMAIN files /\ facts.graded.reward = RewardIn(p, files[p])
    BY <1>1, <1>3, <2>1, RewardRead
  <2>3. Entry("reward", files, p) \in facts.entries
    BY <1>1, <1>3, <2>1, <2>2 DEF RunArtifacts
  <2> QED BY <1>3, <2>2, <2>3 DEF Entry
<1>6. record.status # "incomplete" <=>
        \A e \in record.artifacts :
          e.role = "atif_trajectory" => Trajectory[e.sha256].refs = {}
  <2>1. \A e \in atif : files[e.path] = e.sha256
    BY <1>1
  <2>2. facts.atif.refs = {} <=> \A e \in atif : Trajectory[e.sha256].refs = {}
    BY <1>4, <2>1
  <2> QED BY <1>3, <2>2
<1>7. \A e \in atif : /\ e.sha256 \in DOMAIN Trajectory
                      /\ facts.atif.id = Trajectory[e.sha256].id
  <2>1. TAKE e \in atif
  <2>2. one \in atif
    BY DEF one
  <2>3. \A d \in atif : d.path \in FindAtif(files) /\ d.sha256 = files[d.path]
    BY <1>1
  <2>4. one.path = e.path
    BY <2>2, <2>3, FoundAtif
  <2>5. files[one.path] = e.sha256
    BY <2>3, <2>4
  <2> QED BY <1>4, <2>3, <2>5, FoundAtif
<1>8. NamesItsDocument(record)
  BY <1>2, <1>3, <1>7 DEF NamesItsDocument, NamesOneDocument
<1> QED BY <1>2, <1>5, <1>6, <1>8 DEF IsGenuine

----------------------------------------------------------------------------
(* What is read of a directory that may change meanwhile *)

\* Capturing the verifier changes nothing that was read before.
LEMMA CaptureKeeps ==
  ASSUME NEW files, NEW verifier, DOMAIN verifier \subseteq {Script},
         NEW after, after = Capture(files, verifier)
  PROVE  /\ \A p : p # Script =>
              (p \in DOMAIN after <=> p \in DOMAIN files) /\ (p \in DOMAIN files => after[p] = files[p])
         /\ \A p \in DOMAIN verifier : p \in DOMAIN after /\ after[p] = verifier[p]
         /\ ReadReward(after) = ReadReward(files)
         /\ \A p \in {Null, Text, Json} : RunArtifacts(after, p) = RunArtifacts(files, p)
         /\ \A entries : (\A e \in entries : IsArtifact(e) /\ e.path \in DOMAIN files) =>
              AtifFacts(after, entries) = AtifFacts(files, entries)
<1>1. \A p : p # Script =>
        (p \in DOMAIN after <=> p \in DOMAIN files) /\ (p \in DOMAIN files => after[p] = files[p])
  BY DEF Capture, Over
<1>2. \A p \in DOMAIN verifier : p \in DOMAIN after /\ after[p] = verifier[p]
  BY DEF Capture, Over
<1>3. /\ Text # Script /\ Json # Script
      /\ \A role \in DOMAIN Fixed : Fixed[role] # Script
      /\ \A i \in DOMAIN AgentFile : AgentFile[i] # Script
      /\ Script \notin CollectedFile /\ Null # Script
  BY CaptureAssumption DEF Text, Json, Script, Fixed, Null
<1>4. ReadReward(after) = ReadReward(files)
  BY <1>1, <1>3 DEF ReadReward
<1>5. FindAtif(after) = FindAtif(files)
  <2> DEFINE found(trial) == {i \in DOMAIN AgentFile : /\ AgentFile[i] \in DOMAIN trial
                                                       /\ trial[AgentFile[i]] \in DOMAIN Trajectory}
  <2>1. found(after) = found(files)
    BY <1>1, <1>3
  <2> QED BY <2>1 DEF FindAtif
<1>6. ASSUME NEW q \in {Null, Text, Json} PROVE RunArtifacts(after, q) = RunArtifacts(files, q)
  <2>1. \A role, p : p # Script /\ p \in DOMAIN files => Entry(role, after, p) = Entry(role, files, p)
    BY <1>1 DEF Entry
  <2>2. {Entry(role, after, Fixed[role]) : role \in {r \in DOMAIN Fixed : Fixed[r] \in DOMAIN after}}
          = {Entry(role, files, Fixed[role]) : role \in {r \in DOMAIN Fixed : Fixed[r] \in DOMAIN files}}
    BY <1>1, <1>3, <2>1
  <2>3. {Entry("reward", after, p) : p \in ({q} \ {Null}) \cap DOMAIN after}
          = {Entry("reward", files, p) : p \in ({q} \ {Null}) \cap DOMAIN files}
    BY <1>1, <1>3, <2>1
  <2>4. {Entry("atif_trajectory", after, p) : p \in FindAtif(after)}
          = {Entry("atif_trajectory", files, p) : p \in FindAtif(files)}
    <3>1. \A p \in FindAtif(files) : p # Script /\ p \in DOMAIN files
      BY <1>3, FoundAtif DEF AgentFiles
    <3> QED BY <1>5, <2>1, <3>1
  <2>5. {Entry("collected_artifact", after, p) : p \in CollectedFile \cap DOMAIN after}
          = {Entry("collected_artifact", files, p) : p \in CollectedFile \cap DOMAIN files}
    BY <1>1, <1>3, <2>1
  <2> QED BY <2>2, <2>3, <2>4, <2>5 DEF RunArtifacts
<1>7. ASSUME NEW entries, \A e \in entries : IsArtifact(e) /\ e.path \in DOMAIN files
      PROVE  AtifFacts(after, entries) = AtifFacts(files, entries)
  <2> DEFINE atif == {e \in entries : e.role = "atif_trajectory"}
             one  == CHOOSE e \in atif : TRUE
  <2>1. \A e \in entries : e.path # Script
    BY <1>3, <1>7 DEF IsArtifact, AgentFiles
  <2>2. \A e \in entries : after[e.path] = files[e.path]
    BY <1>1, <1>7, <2>1
  <2>3. atif # {} => one \in entries
    OBVIOUS
  <2>4. UNION {Trajectory[after[e.path]].refs : e \in atif}
          = UNION {Trajectory[files[e.path]].refs : e \in atif}
    BY <2>2
  <2>5. (IF atif = {} THEN Null ELSE Trajectory[after[one.path]].id)
          = (IF atif = {} THEN Null ELSE Trajectory[files[one.path]].id)
    <3> HIDE DEF atif, one
    <3> QED BY <2>2, <2>3
  <2> QED BY <2>4, <2>5 DEF AtifFacts
<1> QED BY <1>1, <1>2, <1>4, <1>6, <1>7

\* What is read next of files that have changed is still what files may say;
LEMMA CollectedIsRead ==
  ASSUME NEW pc \in DOMAIN Collecting, NEW facts, IsRead(facts), NEW files,
         NEW verifier, DOMAIN verifier \subseteq {Script},
         NEW new, new = Collected(pc, files, facts, verifier)
  PROVE  IsRead(new)
<1>1. CASE pc = "digest"
  <2>1. new = [facts EXCEPT !.entries = RunArtifacts(files, facts.graded.path)]
    BY <1>1 DEF Collected
  <2>2. /\ new = [graded |-> new.graded, entries |-> new.entries, atif |-> new.atif,
                  inputs |-> new.inputs]
        /\ new.graded = facts.graded /\ new.inputs = facts.inputs
        /\ new.entries = RunArtifacts(files, facts.graded.path)
    BY <2>1 DEF IsRead
  <2>3. \A e \in new.entries :
          /\ IsArtifact(e) /\ e.sha256 = files[e.path]
          /\ e.role = "atif_trajectory" => e.path \in FindAtif(files)
    BY <2>2, EntriesOfRun DEF IsRead
  <2>4. \A d, e \in new.entries :
          d.role = "atif_trajectory" /\ e.role = "atif_trajectory" => d.sha256 = e.sha256
    BY <2>3, FoundAtif
  <2> QED BY <2>2, <2>3, <2>4 DEF IsRead
<1>2. CASE pc = "atif"
  <2>1. new = [facts EXCEPT !.atif = AtifFacts(files, facts.entries)]
    BY <1>2 DEF Collected
  <2>2. /\ new = [graded |-> new.graded, entries |-> new.entries, atif |-> new.atif,
                  inputs |-> new.inputs]
        /\ new.graded = facts.graded /\ new.inputs = facts.inputs /\ new.entries = facts.entries
    BY <2>1 DEF IsRead
  <2> QED BY <2>2 DEF IsRead
<1>3. CASE pc = "capture"
  BY <1>3 DEF Collected
<1>4. CASE pc = "cover"
  <2>1. new = [facts EXCEPT !.inputs = GradingInputs(files, verifier)]
    BY <1>4 DEF Collected
  <2>2. /\ new = [graded |-> new.graded, entries |-> new.entries, atif |-> new.atif,
                  inputs |-> new.inputs]
        /\ new.graded = facts.graded /\ new.entries = facts.entries
        /\ new.inputs = GradingInputs(files, verifier)
    BY <2>1 DEF IsRead
  <2>3. \A e \in new.inputs : IsInput(e)
    BY <2>2, InputsOfRun
  <2> QED BY <2>2, <2>3 DEF IsRead
<1> QED BY <1>1, <1>2, <1>3, <1>4 DEF Collecting

\* and of files that have not it is what they say.
LEMMA CollectedReads ==
  ASSUME NEW pc \in DOMAIN Collecting, NEW facts, IsRead(facts), NEW files,
         NEW verifier, DOMAIN verifier \subseteq {Script}, Reads(pc, facts, files, verifier),
         NEW new, new = Collected(pc, files, facts, verifier),
         NEW after, after = Captured(pc, files, verifier)
  PROVE  Reads(Collecting[pc], new, after, verifier)
<1>1. /\ facts.graded = ReadReward(files)
      /\ pc \in {"atif", "capture", "cover"} => facts.entries = RunArtifacts(files, facts.graded.path)
      /\ pc \in {"capture", "cover"} => facts.atif = AtifFacts(files, facts.entries)
      /\ pc = "cover" => \A p \in DOMAIN verifier : p \in DOMAIN files /\ files[p] = verifier[p]
  BY DEF Reads
<1>2. facts = [graded |-> facts.graded, entries |-> facts.entries, atif |-> facts.atif,
               inputs |-> facts.inputs]
  BY DEF IsRead
<1>3. CASE pc = "digest"
  <2>1. after = files /\ Collecting[pc] = "atif"
    BY <1>3 DEF Captured, Collecting
  <2>2. new = [facts EXCEPT !.entries = RunArtifacts(files, facts.graded.path)]
    BY <1>3 DEF Collected
  <2>3. new.graded = facts.graded /\ new.entries = RunArtifacts(files, facts.graded.path)
    BY <1>2, <2>2
  <2> QED BY <1>1, <2>1, <2>3 DEF Reads
<1>4. CASE pc = "atif"
  <2>1. after = files /\ Collecting[pc] = "capture"
    BY <1>4 DEF Captured, Collecting
  <2>2. new = [facts EXCEPT !.atif = AtifFacts(files, facts.entries)]
    BY <1>4 DEF Collected
  <2>3. /\ new.graded = facts.graded /\ new.entries = facts.entries
        /\ new.atif = AtifFacts(files, facts.entries)
    BY <1>2, <2>2
  <2> QED BY <1>1, <1>4, <2>1, <2>3 DEF Reads
<1>5. CASE pc = "capture"
  <2>1. new = facts /\ after = Capture(files, verifier) /\ Collecting[pc] = "cover"
    BY <1>5 DEF Captured, Collected, Collecting
  <2>2. facts.graded.path \in {Null, Text, Json}
    BY DEF IsRead
  <2>3. /\ ReadReward(after) = ReadReward(files)
        /\ RunArtifacts(after, facts.graded.path) = RunArtifacts(files, facts.graded.path)
        /\ \A p \in DOMAIN verifier : p \in DOMAIN after /\ after[p] = verifier[p]
    BY <2>1, <2>2, CaptureKeeps
  <2>4. \A e \in facts.entries : IsArtifact(e) /\ e.path \in DOMAIN files
    BY <1>1, <1>5, <2>2, EntriesOfRun
  <2>5. AtifFacts(after, facts.entries) = AtifFacts(files, facts.entries)
    BY <2>1, <2>4, CaptureKeeps
  <2> QED BY <1>1, <1>5, <2>1, <2>3, <2>5 DEF Reads
<1>6. CASE pc = "cover"
  <2>1. after = files /\ Collecting[pc] = "name"
    BY <1>6 DEF Captured, Collecting
  <2>2. new = [facts EXCEPT !.inputs = GradingInputs(files, verifier)]
    BY <1>6 DEF Collected
  <2>3. /\ new = [graded |-> facts.graded, entries |-> facts.entries, atif |-> facts.atif,
                  inputs |-> GradingInputs(files, verifier)]
        /\ new.graded = facts.graded
    BY <1>2, <2>2
  <2>4. GradingInputs(files, verifier) = GradingInputs(Capture(files, verifier), verifier)
    <3>1. \A p \in DOMAIN verifier : Capture(files, verifier)[p] = files[p]
      BY <1>1, <1>6, CaptureKeeps
    <3> QED BY <3>1 DEF GradingInputs, Entry
  <2>5. new = CollectFacts(files, verifier)
    <3> DEFINE graded  == ReadReward(files)
               entries == RunArtifacts(files, graded.path)
               atif    == AtifFacts(files, entries)
               inputs  == GradingInputs(Capture(files, verifier), verifier)
    <3>1. CollectFacts(files, verifier)
            = [graded |-> graded, entries |-> entries, atif |-> atif, inputs |-> inputs]
      BY DEF CollectFacts
    <3>2. /\ facts.graded = graded /\ facts.entries = entries /\ facts.atif = atif
          /\ GradingInputs(files, verifier) = inputs
      BY <1>1, <1>6, <2>4
    <3> HIDE DEF graded, entries, atif, inputs
    <3> QED BY <2>3, <3>1, <3>2
  <2> QED BY <1>1, <1>6, <2>1, <2>3, <2>5 DEF Reads
<1> QED BY <1>3, <1>4, <1>5, <1>6 DEF Collecting

----------------------------------------------------------------------------
(* What the verdicts say *)

\* A record that verifies is signed as it stands, and every file it covers is
\* there, as it says.
LEMMA VerifiedTells ==
  ASSUME NEW files, NEW raw, NEW sig, Verify(files, raw, sig, Key).verdict = "verified"
  PROVE  /\ raw.form = "canonical" /\ sig = SignBytes(Key, raw)
         /\ Covers(raw.record, files)
         /\ RequiredRole \subseteq {e.role : e \in Covered(raw.record)}
         /\ raw.record.status # "incomplete"
<1> DEFINE record == raw.record
           notes == EncodingNotes(raw) \cup SignerNotes(raw, sig, Key)
                      \cup ArtifactNotes(files, record) \cup ProfileNotes(record)
                      \cup DependencyNotes(record) \cup OutcomeNotes(files, record)
                      \cup AtifNotes(files, record)
<1>1. /\ raw.form # "absent" /\ raw.form # "torn"
      /\ Verdict(notes) = "verified"
  BY DEF Verify, Outcome
<1>2. notes = {}
  <2> HIDE DEF notes
  <2> QED BY <1>1 DEF Verdict
<1>3. raw.form = "canonical"
  BY <1>2 DEF EncodingNotes
<1>4. sig = SignBytes(Key, raw)
  BY <1>2 DEF SignerNotes, VerifyBytes
<1>5. \A e \in Covered(record) : e.path \in DOMAIN files /\ files[e.path] = e.sha256
  <2>1. ArtifactNotes(files, record) = {}
    BY <1>2
  <2> QED BY <2>1 DEF ArtifactNotes
<1>6. RequiredRole \subseteq {e.role : e \in Covered(record)}
  <2>1. ProfileNotes(record) = {}
    BY <1>2
  <2> QED BY <2>1 DEF ProfileNotes
<1>7. record.status # "incomplete"
  <2>1. DependencyNotes(record) = {}
    BY <1>2
  <2> QED BY <2>1 DEF DependencyNotes
<1> QED BY <1>3, <1>4, <1>5, <1>6, <1>7 DEF Covers

\* What the notes of the two verifiers have in common: all of them.
LEMMA SameArtifactNotes ==
  ASSUME NEW files, NEW record
  PROVE  ArtifactNotes(files, record) = GoArtifacts(files, record).notes
<1> DEFINE entries == record.artifacts \cup record.inputs
<1>1. GoArtifacts(files, record).notes = UNION {GoEntryNotes(files, e) : e \in entries}
  BY DEF GoArtifacts
<1>2. Covered(record) = entries
  BY DEF Covered
<1> HIDE DEF entries
<1>3. ASSUME NEW n \in ArtifactNotes(files, record)
      PROVE  \E e \in entries : n \in GoEntryNotes(files, e)
  <2>1. PICK e \in entries :
           \/ e.path \notin DOMAIN files /\ n = Note("artifact-absent", e.path, "")
           \/ /\ e.path \in DOMAIN files /\ Size[files[e.path]] # e.length
              /\ n = Note("artifact-length-mismatch", e.path, "")
           \/ /\ e.path \in DOMAIN files /\ files[e.path] # e.sha256
              /\ n = Note("artifact-digest-mismatch", e.path, files[e.path])
    BY <1>2, <1>3 DEF ArtifactNotes
  <2>2. n \in GoEntryNotes(files, e)
    BY <2>1 DEF GoEntryNotes
  <2> QED BY <2>2
<1>4. ASSUME NEW e \in entries, NEW n \in GoEntryNotes(files, e)
      PROVE  n \in ArtifactNotes(files, record)
  BY <1>2, <1>4 DEF ArtifactNotes, GoEntryNotes
<1> QED BY <1>1, <1>3, <1>4

LEMMA SameOutcomeNotes ==
  ASSUME NEW files, NEW record
  PROVE  OutcomeNotes(files, record) = GoOutcomeNotes(files, record)
BY RewardAssumption DEF OutcomeNotes, GoOutcomeNotes, NumberIn

LEMMA SameAtifNotes ==
  ASSUME NEW files, NEW record
  PROVE  AtifNotes(files, record) = GoAtifNotes(files, record)
<1> DEFINE documents == {e \in record.artifacts : e.role = "atif_trajectory"}
           covered   == {e \in record.artifacts : e.role = "atif_trajectory" /\ record.atif.present}
<1>1. CASE record.atif.present
  <2>1. covered = documents
    BY <1>1
  <2>2. {e \in documents : /\ e.path \in DOMAIN files
                           /\ files[e.path] \in DOMAIN Trajectory
                           /\ Trajectory[files[e.path]].id # record.atif.id}
          = {e \in {d \in covered : d.path \in DOMAIN files /\ files[d.path] \in DOMAIN Trajectory} :
               Trajectory[files[e.path]].id # record.atif.id}
    BY <2>1
  <2> QED BY <1>1, <2>1, <2>2 DEF AtifNotes, GoAtifNotes
<1>2. CASE ~record.atif.present
  <2>1. covered = {}
    BY <1>2
  <2> HIDE DEF covered
  <2>2. GoAtifNotes(files, record) = {}
    BY <2>1 DEF GoAtifNotes, covered
  <2> QED BY <1>2, <2>2 DEF AtifNotes
<1> QED BY <1>1, <1>2

LEMMA SameDependencyNotes ==
  ASSUME NEW record
  PROVE  DependencyNotes(record) = GoDependencyNotes(record)
BY DEF DependencyNotes, GoDependencyNotes

LEMMA SameProfileNotes ==
  ASSUME NEW files, NEW record
  PROVE  ProfileNotes(record) = GoProfileNotes(GoArtifacts(files, record).roles)
<1>1. GoArtifacts(files, record).roles = {e.role : e \in Covered(record)}
  BY DEF GoArtifacts, Covered
<1> QED BY <1>1 DEF ProfileNotes, GoProfileNotes

LEMMA NoteCode == \A code, about, found : Note(code, about, found).code = code
BY DEF Note

\* The codes of each check.
LEMMA SignatureCodes ==
  ASSUME NEW raw, NEW sig
  PROVE  \A m \in EncodingNotes(raw) \cup SignerNotes(raw, sig, Key) : m.code \notin Inconclusive
<1>1. \A m \in EncodingNotes(raw) : m.code = "manifest-encoding-not-canonical"
  <2>1. ASSUME NEW m \in EncodingNotes(raw)
        PROVE  m = Note("manifest-encoding-not-canonical", "", "")
    BY <2>1 DEF EncodingNotes
  <2>2. ASSUME NEW m \in EncodingNotes(raw)
        PROVE  m.code = "manifest-encoding-not-canonical"
    <3>1. m = Note("manifest-encoding-not-canonical", "", "")
      BY <2>1
    <3> QED BY <3>1, NoteCode
  <2> QED BY <2>2
<1>2. \/ SignerNotes(raw, sig, Key) = {}
      \/ \E about, found : SignerNotes(raw, sig, Key) = {Note("signer-key-mismatch", about, found)}
      \/ \E about, found : SignerNotes(raw, sig, Key) = {Note("signature-invalid", about, found)}
  BY DEF SignerNotes
<1>3. \A m \in SignerNotes(raw, sig, Key) : m.code \in {"signer-key-mismatch", "signature-invalid"}
  BY <1>2, NoteCode
<1> QED BY <1>1, <1>3 DEF Inconclusive

LEMMA ContentCodes ==
  ASSUME NEW files, NEW record
  PROVE  \A m \in OutcomeNotes(files, record) \cup AtifNotes(files, record) :
           m.code \notin Inconclusive
<1>1. \A m \in OutcomeNotes(files, record) : m.code = "graded-outcome-mismatch"
  BY NoteCode DEF OutcomeNotes
<1>2. ASSUME NEW m \in AtifNotes(files, record)
      PROVE  \/ \E about, found : m = Note("atif-document-digest-mismatch", about, found)
             \/ \E about, found : m = Note("atif-trajectory-id-mismatch", about, found)
  BY <1>2 DEF AtifNotes
<1>3. \A m \in AtifNotes(files, record) :
        m.code \in {"atif-document-digest-mismatch", "atif-trajectory-id-mismatch"}
  BY <1>2, NoteCode
<1> QED BY <1>1, <1>3 DEF Inconclusive

LEMMA ArtifactCodes ==
  ASSUME NEW files, NEW record, NEW m \in ArtifactNotes(files, record)
  PROVE  \/ m.code \in {"artifact-length-mismatch", "artifact-digest-mismatch"}
         \/ \E e \in Covered(record) : e.path \notin DOMAIN files
<1>1. \/ \E e \in Covered(record) : e.path \notin DOMAIN files
      \/ \E about, found : m = Note("artifact-length-mismatch", about, found)
      \/ \E about, found : m = Note("artifact-digest-mismatch", about, found)
  BY DEF ArtifactNotes
<1> QED BY <1>1, NoteCode

\* All that is noted of a record.
AllNotes(files, raw, sig) ==
  EncodingNotes(raw) \cup SignerNotes(raw, sig, Key)
    \cup ArtifactNotes(files, raw.record) \cup ProfileNotes(raw.record)
    \cup DependencyNotes(raw.record) \cup OutcomeNotes(files, raw.record)
    \cup AtifNotes(files, raw.record)

\* A code in Inconclusive is noted where its flag is raised.
LEMMA EmptyNotes ==
  ASSUME NEW files, NEW raw, NEW sig,
         Codes(AllNotes(files, raw, sig)) \subseteq Inconclusive, AllNotes(files, raw, sig) # {}
  PROVE  \/ GoArtifacts(files, raw.record).absent
         \/ ProfileNotes(raw.record) # {} \/ DependencyNotes(raw.record) # {}
<1>1. PICK n \in AllNotes(files, raw, sig) : n.code \in Inconclusive
  BY DEF Codes
<1>2. CASE n \in ArtifactNotes(files, raw.record)
  <2>1. PICK e \in Covered(raw.record) : e.path \notin DOMAIN files
    BY <1>1, <1>2, ArtifactCodes DEF Inconclusive
  <2> QED BY <2>1 DEF GoArtifacts, Covered
<1>3. CASE n \notin ArtifactNotes(files, raw.record)
  BY <1>1, <1>3, SignatureCodes, ContentCodes DEF AllNotes
<1> QED BY <1>2, <1>3

LEMMA AbsentIsNoted ==
  ASSUME NEW files, NEW record, GoArtifacts(files, record).absent
  PROVE  ArtifactNotes(files, record) # {}
<1>1. PICK e \in Covered(record) : e.path \notin DOMAIN files
  BY DEF GoArtifacts, Covered
<1>2. Note("artifact-absent", e.path, "") \in ArtifactNotes(files, record)
  BY <1>1 DEF ArtifactNotes
<1> QED BY <1>2

\* Given both files of a record, the two verifiers say the same of any files.
LEMMA VerifiersSayTheSame ==
  ASSUME NEW files, NEW raw, NEW sig, raw.form # "absent", sig.form # "absent"
  PROVE  Verify(files, raw, sig, Key) = GoVerify(files, raw, sig, Key)
<1>1. CASE raw.form = "torn"
  BY <1>1 DEF Verify, GoVerify
<1>2. CASE raw.form # "torn"
  <2> DEFINE record     == raw.record
             all        == AllNotes(files, raw, sig)
             absent     == GoArtifacts(files, record).absent
             missing    == ProfileNotes(record)
             incomplete == DependencyNotes(record)
             verdict    == IF ~(Codes(all) \subseteq Inconclusive) THEN "failed"
                           ELSE IF absent \/ missing # {} \/ incomplete # {}
                           THEN "not-established" ELSE "verified"
  <2>1. Verify(files, raw, sig, Key) = Outcome(Verdict(all), all)
    BY <1>2 DEF Verify, AllNotes
  <2>2. EncodingNotes(raw) = GoEncodingNotes(raw)
    BY DEF EncodingNotes, GoEncodingNotes
  <2>3. SignerNotes(raw, sig, Key) = GoSignerNotes(raw, sig, Key)
    BY DEF SignerNotes, GoSignerNotes
  <2>4. GoVerify(files, raw, sig, Key) = Outcome(verdict, all)
    BY <1>2, <2>2, <2>3, SameArtifactNotes, SameProfileNotes, SameDependencyNotes,
       SameOutcomeNotes, SameAtifNotes DEF GoVerify, AllNotes
  <2>5. CASE ~(Codes(all) \subseteq Inconclusive)
    <3> HIDE DEF all, absent, missing, incomplete
    <3> QED BY <2>1, <2>4, <2>5 DEF Verdict
  <2>6. CASE Codes(all) \subseteq Inconclusive /\ all # {}
    <3>1. absent \/ missing # {} \/ incomplete # {}
      BY <2>6, EmptyNotes
    <3> HIDE DEF all, absent, missing, incomplete
    <3> QED BY <2>1, <2>4, <2>6, <3>1 DEF Verdict
  <2>7. CASE all = {}
    <3>1. ~absent /\ missing = {} /\ incomplete = {}
      BY <2>7, AbsentIsNoted DEF AllNotes
    <3> HIDE DEF all, absent, missing, incomplete
    <3> QED BY <2>1, <2>4, <2>7, <3>1 DEF Verdict, Codes
  <2> QED BY <2>5, <2>6, <2>7
<1> QED BY <1>1, <1>2

\* The two verifiers give one verdict for one set of reasons. (verify of
\* verify.py and of artifactbinding.go)
THEOREM VerifiersAlwaysAgree == Spec => []VerifiersAgree
<1>1. VerifiersAgree
  BY VerifiersSayTheSame DEF VerifiersAgree, Answers, GoAnswers
<1> QED BY <1>1, PTL

----------------------------------------------------------------------------
(* What the key has signed *)

LEMMA SignedInto ==
  ASSUME NEW files, NEW script, NEW operation, NEW sourceRecord,
         NEW dir, dir = SignInto(files, BuildVerifier(script), operation, sourceRecord)
  PROVE  /\ IsDir(dir) /\ dir.raw.form = "canonical" /\ dir.sig = SignBytes(Key, dir.raw)
         /\ IsGenuine(dir.raw.record) /\ NamesItsDocument(dir.raw.record)
<1> DEFINE facts  == CollectFacts(files, BuildVerifier(script))
           record == Build(facts, operation, sourceRecord, Key)
<1>1. IsGenuine(record) /\ NamesItsDocument(record)
  BY BuildIsGenuine, CapturesScript
<1>2. dir = Dir(Capture(files, BuildVerifier(script)), Written(record),
                SignBytes(Key, Written(record)))
  BY DEF SignInto
<1> HIDE DEF record
<1> QED BY <1>1, <1>2 DEF Dir, IsDir, Written, Raw

\* A signature by the key is one over the record that is signed.
LEMMA SignedTrusted ==
  ASSUME NEW dir, NEW raw, NEW named, dir.sig = SignBytes(Key, raw),
         IsGenuine(raw.record), named => NamesItsDocument(raw.record)
  PROVE  Trusted(dir, named)
BY DEF Trusted, SignBytes, Sig, IsGenuine, NamesItsDocument, NamesOneDocument

LEMMA CasesAreTrusted ==
  ASSUME NEW case \in Case
  PROVE  IsDir(CaseDir[case]) /\ Trusted(CaseDir[case], case # "CaseAtif")
<1> DEFINE intact == Intact
           record == intact.raw.record
<1>1. /\ IsDir(intact) /\ intact.raw.form = "canonical" /\ intact.sig = SignBytes(Key, intact.raw)
      /\ IsGenuine(record) /\ NamesItsDocument(record)
  BY SignedInto DEF Intact
<1> HIDE DEF intact
<1>2. Trusted(intact, TRUE)
  BY <1>1, SignedTrusted
<1>3. \A files : LET dir == [intact EXCEPT !.files = files] IN IsDir(dir) /\ Trusted(dir, TRUE)
  BY <1>1, <1>2 DEF IsDir, Dir, Trusted
<1>4. \A files, script, operation, from :
        LET dir == SignInto(files, BuildVerifier(script), operation, from) IN
        IsDir(dir) /\ Trusted(dir, TRUE)
  BY SignedInto, SignedTrusted
<1>5. \A form, other, named :
        IsGenuine(other) /\ (named => NamesItsDocument(other)) =>
          LET dir == Resign(intact, form, other, Key) IN IsDir(dir) /\ Trusted(dir, named)
  <2>1. TAKE form, other, named
  <2>2. HAVE IsGenuine(other) /\ (named => NamesItsDocument(other))
  <2>3. PICK dir : dir = Resign(intact, form, other, Key)
    OBVIOUS
  <2>4. IsDir(dir) /\ dir.sig = SignBytes(Key, Raw(form, other))
    BY <2>3 DEF Resign, IsDir, Dir
  <2>5. Raw(form, other).record = other
    BY DEF Raw
  <2>6. Trusted(dir, named)
    BY <2>2, <2>4, <2>5, SignedTrusted
  <2> QED BY <2>3, <2>4, <2>6
<1>6. \A other : LET dir == Resign(intact, "canonical", other, "other key") IN
                 IsDir(dir) /\ Trusted(dir, TRUE)
  BY DEF Resign, IsDir, Dir, Trusted, SignBytes, Sig, Key
<1>7. IsGenuine([record EXCEPT !.atif.sha256 = Null])
  BY <1>1 DEF IsGenuine, IsBuilt
<1>8. case \in {"CaseIntact", "CaseTampered", "CaseMissing", "CaseRegrade", "CaseWrongSigner",
                "CaseNonCanonical", "CaseIncomplete", "CaseAtif"}
  BY DEF Case, Cases
<1>9. CASE case = "CaseIntact"
  BY <1>1, <1>2, <1>9 DEF CaseDir, intact
<1>10. CASE case = "CaseTampered"
  <2>1. CaseDir[case] = [intact EXCEPT !.files = Over(File(Answer, "tampered"), intact.files)]
    BY <1>10 DEF CaseDir, intact
  <2> QED BY <1>3, <1>10, <2>1
<1>11. CASE case = "CaseMissing"
  <2>1. CaseDir[case] = [intact EXCEPT !.files = Without(intact.files, Text)]
    BY <1>11 DEF CaseDir, intact
  <2> QED BY <1>3, <1>11, <2>1
<1>12. CASE case = "CaseRegrade"
  <2>1. CaseDir[case] = SignInto(RegradedTrial, BuildVerifier("changed"), "regrade", record)
    BY <1>12 DEF CaseDir, intact
  <2> QED BY <1>4, <1>12, <2>1
<1>13. CASE case = "CaseWrongSigner"
  <2>1. CaseDir[case] = Resign(intact, "canonical", [record EXCEPT !.signer = "other key"], "other key")
    BY <1>13 DEF CaseDir, intact
  <2> QED BY <1>6, <1>13, <2>1
<1>14. CASE case = "CaseNonCanonical"
  <2>1. CaseDir[case] = Resign(intact, "indented", record, Key)
    BY <1>14 DEF CaseDir, intact
  <2> QED BY <1>1, <1>5, <1>14, <2>1
<1>15. CASE case = "CaseIncomplete"
  <2>1. CaseDir[case] = SignInto(Trial("delegating"), BuildVerifier("strict"), "execute", Nothing)
    BY <1>15 DEF CaseDir, intact
  <2> QED BY <1>4, <1>15, <2>1
<1>16. CASE case = "CaseAtif"
  <2>1. CaseDir[case] = Resign(intact, "canonical", [record EXCEPT !.atif.sha256 = Null], Key)
    BY <1>16 DEF CaseDir, intact
  <2>2. Trusted(CaseDir[case], FALSE) /\ IsDir(CaseDir[case])
    BY <1>5, <1>7, <2>1
  <2> QED BY <1>16, <2>2
<1> QED BY <1>8, <1>9, <1>10, <1>11, <1>12, <1>13, <1>14, <1>15, <1>16

----------------------------------------------------------------------------
(* What verifiers write *)

Scripts == {"strict", "changed", "silent", "none", "structured", "meddler"}

\* A text that a verifier writes is a number, and one that writes the answer
\* pays no heed to it.
LEMMA WritesNumbers ==
  ASSUME NEW script \in Scripts, NEW answer
  PROVE  LET given == Writes(script, answer) IN
         /\ Text \in DOMAIN given => given[Text] \in {"one", "zero"}
         /\ DOMAIN given \subseteq {Text, Json, Answer}
         /\ Answer \in DOMAIN given => \A other : Writes(script, other) = given
<1>1. CASE script = "strict"
  BY <1>1 DEF Writes, File, Text, Answer, Json
<1>2. CASE script = "changed"
  BY <1>2 DEF Writes, File, Text, Answer, Json
<1>3. CASE script = "silent"
  BY <1>3 DEF Writes
<1>4. CASE script = "none"
  BY <1>4 DEF Writes
<1>5. CASE script = "structured"
  BY <1>5 DEF Writes, File, Text, Answer, Json
<1>6. CASE script = "meddler"
  BY <1>6 DEF Writes, File, Over, Text, Answer, Json
<1> QED BY <1>1, <1>2, <1>3, <1>4, <1>5, <1>6 DEF Scripts

\* What a verifier leaves is graded as it has graded it.
LEMMA GradedAsLeft ==
  ASSUME NEW script \in Scripts, NEW files
  PROVE  HasGraded(script, Over(Graded(script, files), files))
<1> DEFINE given == Graded(script, files)
           left  == Over(given, files)
<1>1. given = Writes(script, AnswersOf(files)) /\ Graded(script, left) = Writes(script, AnswersOf(left))
  BY DEF Graded, AnswersOf
<1>2. Graded(script, left) = given
  <2>1. CASE Answer \in DOMAIN given
    BY <1>1, <2>1, WritesNumbers
  <2>2. CASE Answer \notin DOMAIN given
    <3>1. AnswersOf(left) = AnswersOf(files)
      BY <2>2 DEF AnswersOf, Over
    <3> QED BY <1>1, <3>1
  <2> QED BY <2>1, <2>2
<1>3. Text \in DOMAIN given => Text \in DOMAIN left /\ left[Text] = given[Text]
  BY DEF Over
<1> HIDE DEF given, left
<1>4. HasGraded(script, left)
  BY <1>2, <1>3 DEF HasGraded
<1> QED BY <1>4 DEF given, left

\* The grading does not go by other files than the answer and the text.
LEMMA GradedStays ==
  ASSUME NEW script, NEW files, HasGraded(script, files), NEW new,
         AnswersOf(new) = AnswersOf(files),
         Text \in DOMAIN files => Text \in DOMAIN new /\ new[Text] = files[Text]
  PROVE  HasGraded(script, new)
<1>1. Graded(script, new) = Graded(script, files)
  BY DEF Graded, AnswersOf
<1> QED BY <1>1 DEF HasGraded

\* A name for the source in the record changes nothing else of it.
\* A regrade's record as built of what it has graded grades its answer.
LEMMA RegradeGrades ==
  ASSUME NEW script \in Scripts, script # "none", NEW files, HasGraded(script, files),
         NEW facts, facts = CollectFacts(files, BuildVerifier(script)),
         NEW from, NEW record, record = Build(facts, "regrade", from, Key)
  PROVE  GradesItsAnswer(record)
<1> DEFINE given    == Graded(script, files)
           verifier == BuildVerifier(script)
<1>1. /\ record.artifacts = RunArtifacts(files, facts.graded.path)
      /\ record.inputs = GradingInputs(Capture(files, verifier), verifier)
      /\ record.reward = facts.graded.reward
      /\ facts.graded = ReadReward(files)
      /\ \A e \in record.artifacts : e.path \in DOMAIN files /\ e.sha256 = files[e.path]
  BY BuildTells, CollectTells, CapturesScript
<1>2. \E e \in record.inputs : e.sha256 = script
  <2>1. Entry("verifier_files", Capture(files, verifier), Script) \in record.inputs
    BY <1>1 DEF GradingInputs, BuildVerifier, File
  <2>2. Capture(files, verifier)[Script] = script
    BY DEF Capture, Over, BuildVerifier, File
  <2> QED BY <2>1, <2>2 DEF Entry
<1>3. RecordAnswers(record) = AnswersOf(files)
  <2>1. ASSUME Answer \in DOMAIN files
        PROVE  Entry("collected_artifact", files, Answer) \in ArchiveDigest(record.artifacts)
    BY <1>1, <2>1, VerifierAssumption DEF RunArtifacts, ArchiveDigest, ArchiveRole, Entry
  <2>2. Answer \in DOMAIN files => files[Answer] \in RecordAnswers(record)
    BY <2>1 DEF RecordAnswers, Entry
  <2> QED BY <1>1, <2>2 DEF RecordAnswers, AnswersOf, ArchiveDigest
<1>4. Writes(script, RecordAnswers(record)) = given
  BY <1>3 DEF Graded, AnswersOf
<1>5. ASSUME Text \in DOMAIN given PROVE record.reward = TextReward[given[Text]]
  <2>1. Text \in DOMAIN files /\ files[Text] = given[Text]
    BY <1>5 DEF HasGraded
  <2>2. facts.graded.reward = RewardIn(Text, files[Text])
    BY <1>1, <2>1, RewardRead DEF Text, Null
  <2>3. given[Text] \in {"one", "zero"}
    BY <1>5, WritesNumbers DEF Graded
  <2> HIDE DEF given
  <2> QED BY <1>1, <2>1, <2>2, <2>3, VerifierAssumption DEF RewardIn, NumberIn
<1> HIDE DEF given
<1> QED BY <1>2, <1>4, <1>5 DEF GradesItsAnswer

\* It covers the directory as that is, with a file of each role that does not
\* hang on the agent or the verifier, and goes by the text that a verifier writes.
LEMMA BuildCovers ==
  ASSUME NEW script \in Scripts, script # "none", NEW files, HasGraded(script, files),
         Streams \cup {"result.json"} \subseteq DOMAIN files,
         NEW facts, Reads("name", facts, files, BuildVerifier(script)),
         NEW from, NEW record, record = Build(facts, "regrade", from, Key)
  PROVE  /\ record.operation = "regrade"
         /\ Covers(record, files)
         /\ RequiredRole \ {e.role : e \in Covered(record)} \subseteq {"atif_trajectory", "reward"}
         /\ script \in {"strict", "changed"} => record.rewardPath = Text
<1> DEFINE verifier == BuildVerifier(script)
           after    == Capture(files, verifier)
           roles    == {e.role : e \in Covered(record)}
<1>1. DOMAIN verifier = {Script} /\ Script \in DOMAIN files /\ files[Script] = verifier[Script]
  BY DEF BuildVerifier, File, Reads
<1>2. /\ record.artifacts = RunArtifacts(files, facts.graded.path)
      /\ record.inputs = GradingInputs(after, verifier)
      /\ record.operation = "regrade" /\ record.rewardPath = facts.graded.path
      /\ facts.graded = ReadReward(files)
      /\ \A e \in record.artifacts : e.path \in DOMAIN files /\ e.sha256 = files[e.path]
  BY BuildTells, CollectTells, CapturesScript DEF Reads
<1>3. \A e \in record.inputs : e.path = Script /\ e.sha256 = files[Script]
  <2>1. after[Script] = files[Script]
    BY <1>1 DEF Capture, Over
  <2> QED BY <1>1, <1>2, <2>1, InputsOfRun DEF IsInput
<1>4. Covers(record, files)
  BY <1>1, <1>2, <1>3 DEF Covers, Covered
<1>5. "verifier_files" \in roles
  <2>1. Entry("verifier_files", after, Script) \in record.inputs
    BY <1>1, <1>2 DEF GradingInputs
  <2> QED BY <2>1 DEF Covered, Entry
<1>6. ASSUME NEW role \in DOMAIN Fixed, Fixed[role] \in DOMAIN files
      PROVE  role \in roles
  <2>1. Entry(role, files, Fixed[role]) \in record.artifacts
    BY <1>2, <1>6 DEF RunArtifacts
  <2> QED BY <2>1 DEF Covered, Entry
<1>7. {"trial_result", "grading_stdout", "grading_stderr"} \subseteq roles
  <2>1. \A role \in {"trial_result", "grading_stdout", "grading_stderr"} :
          role \in DOMAIN Fixed /\ Fixed[role] \in DOMAIN files
    BY DEF Fixed, Streams
  <2> QED BY <1>6, <2>1
<1>8. ASSUME script \in {"strict", "changed"} PROVE record.rewardPath = Text
  <2>1. Text \in DOMAIN Graded(script, files)
    BY <1>8 DEF Graded, Writes, File
  <2>2. Text \in DOMAIN files
    BY <2>1 DEF HasGraded
  <2> QED BY <1>2, <2>2, RewardRead
<1> HIDE DEF roles
<1>9. RequiredRole \ roles \subseteq {"atif_trajectory", "reward"}
  BY <1>5, <1>7 DEF RequiredRole
<1> QED BY <1>2, <1>4, <1>8, <1>9 DEF roles

----------------------------------------------------------------------------
(* The invariant holds of every step *)

LEMMA InitIsSound == Init => Inv
<1>1. SUFFICES ASSUME Init PROVE Inv
  OBVIOUS
<1>2. PICK case \in Start : member = Member(case)
  BY <1>1 DEF Init
<1>3. member.case = case /\ source = CaseDir[case]
  BY <1>1, <1>2 DEF Init, Member
<1>4. IsDir(source) /\ Trusted(source, member.case # "CaseAtif")
  BY <1>3, StartAssumption, CasesAreTrusted
<1>5. IsDir(target) /\ target.sig.key # Key
  BY <1>1 DEF Init, Dir, IsDir, NoSignature, Sig, Null, Key
<1>6. /\ IsJob(job) /\ IsJob(binder) /\ job.pc = "idle" /\ binder.pc = "idle"
      /\ job.facts = NoFacts
  BY <1>1 DEF Init, Idle, IsJob
<1>7. TypeOK /\ SignedIsGenuine
  BY <1>4, <1>5, <1>6 DEF TypeOK, SignedIsGenuine, Trusted, At
<1>8. BinderIsGenuine /\ JobIsGenuine /\ TargetIsCovered
  BY <1>6 DEF BinderIsGenuine, JobIsGenuine, TargetIsCovered, At, Grading, Reading, Recorded,
     Collecting, Storing
<1> QED BY <1>7, <1>8 DEF Inv

LEMMA StoreTells ==
  ASSUME NEW dir, IsDir(dir), NEW pc \in DOMAIN Storing, NEW record,
         NEW new, new = Store(pc, dir, record)
  PROVE  /\ IsDir(new) /\ new.files = dir.files
         /\ pc = "open"   => new.raw = TornManifest /\ new.sig = dir.sig
         /\ pc = "write"  => new.raw = Written(record) /\ new.sig = dir.sig
         /\ pc = "reopen" => new.raw = dir.raw /\ new.sig = TornSignature
         /\ pc = "sign"   => new.raw = dir.raw /\ new.sig = SignBytes(Key, Written(record))
<1>1. pc \in {"open", "write", "reopen", "sign"}
  BY DEF Storing
<1>2. CASE pc = "open"
  BY <1>2 DEF Store, IsDir, Dir
<1>3. CASE pc = "write"
  BY <1>3 DEF Store, IsDir, Dir
<1>4. CASE pc = "reopen"
  BY <1>4 DEF Store, IsDir, Dir
<1>5. CASE pc = "sign"
  BY <1>5 DEF Store, IsDir, Dir
<1> QED BY <1>1, <1>2, <1>3, <1>4, <1>5

\* A command goes on with what it has.
LEMMA JobGoesOn ==
  ASSUME NEW task, IsJob(task), NEW pc, NEW new, new = [task EXCEPT !.pc = pc]
  PROVE  /\ IsJob(new) /\ new.pc = pc /\ new.script = task.script /\ new.facts = task.facts
         /\ new.built = task.built /\ new.still = task.still /\ new.even = task.even
BY DEF IsJob

LEMMA BinderGoesOn ==
  ASSUME TypeOK, CollectSource
  PROVE  /\ binder.pc \in DOMAIN Collecting
         /\ UNCHANGED <<member, target, job, mixed>>
         /\ source'.raw = source.raw /\ source'.sig = source.sig
         /\ source'.files = Captured(binder.pc, source.files, BuildVerifier(binder.script))
         /\ IsDir(source')
         /\ \/ binder' = Idle
            \/ /\ IsJob(binder')
               /\ binder'.pc = Collecting[binder.pc] /\ binder'.script = binder.script
               /\ binder'.still = binder.still
               /\ binder'.facts = Collected(binder.pc, source.files, binder.facts,
                                            BuildVerifier(binder.script))
<1> DEFINE facts == Collected(binder.pc, source.files, binder.facts, BuildVerifier(binder.script))
           files == Captured(binder.pc, source.files, BuildVerifier(binder.script))
<1>1. /\ binder.pc \in DOMAIN Collecting
      /\ UNCHANGED <<member, target, job, mixed>>
      /\ source' = [source EXCEPT !.files = files]
      /\ binder' = Idle \/ binder' = [binder EXCEPT !.pc = Collecting[binder.pc], !.facts = facts]
  BY DEF CollectSource, Collecting
<1> HIDE DEF facts, files
<1>2. /\ source'.raw = source.raw /\ source'.sig = source.sig /\ source'.files = files
      /\ IsDir(source')
  BY <1>1 DEF TypeOK, IsDir, Dir
<1>3. ASSUME binder' = [binder EXCEPT !.pc = Collecting[binder.pc], !.facts = facts]
      PROVE  /\ IsJob(binder')
             /\ binder'.pc = Collecting[binder.pc] /\ binder'.script = binder.script
             /\ binder'.still = binder.still /\ binder'.facts = facts
  BY <1>3 DEF TypeOK, IsJob
<1> QED BY <1>1, <1>2, <1>3 DEF facts, files

LEMMA RegradeGoesOn ==
  ASSUME TypeOK, Collect
  PROVE  /\ job.pc \in DOMAIN Collecting
         /\ UNCHANGED <<member, source, binder, mixed>>
         /\ target'.raw = target.raw /\ target'.sig = target.sig
         /\ target'.files = Captured(job.pc, target.files, BuildVerifier(job.script))
         /\ IsDir(target')
         /\ \/ job' = Idle
            \/ /\ IsJob(job')
               /\ job'.pc = Collecting[job.pc] /\ job'.script = job.script
               /\ job'.still = job.still /\ job'.even = job.still
               /\ job'.facts = Collected(job.pc, target.files, job.facts,
                                         BuildVerifier(job.script))
<1> DEFINE facts == Collected(job.pc, target.files, job.facts, BuildVerifier(job.script))
           files == Captured(job.pc, target.files, BuildVerifier(job.script))
<1>1. /\ job.pc \in DOMAIN Collecting
      /\ UNCHANGED <<member, source, binder, mixed>>
      /\ target' = [target EXCEPT !.files = files]
      /\ \/ job' = Idle
         \/ job' = [job EXCEPT !.pc = Collecting[job.pc], !.even = job.still, !.facts = facts]
  BY DEF Collect, Elsewhere, End
<1> HIDE DEF facts, files
<1>2. /\ target'.raw = target.raw /\ target'.sig = target.sig /\ target'.files = files
      /\ IsDir(target')
  BY <1>1 DEF TypeOK, IsDir, Dir
<1>3. ASSUME job' = [job EXCEPT !.pc = Collecting[job.pc], !.even = job.still, !.facts = facts]
      PROVE  /\ IsJob(job')
             /\ job'.pc = Collecting[job.pc] /\ job'.script = job.script
             /\ job'.still = job.still /\ job'.even = job.still /\ job'.facts = facts
  BY <1>3 DEF TypeOK, IsJob
<1> QED BY <1>1, <1>2, <1>3 DEF facts, files

LEMMA FactsAreRead ==
  ASSUME TypeOK, ReadFacts
  PROVE  /\ At("reward") /\ UNCHANGED <<member, source, target, binder, mixed>>
         /\ \/ job' = Idle
            \/ /\ "result.json" \in DOMAIN target.files
               /\ IsJob(job') /\ job'.pc = "digest" /\ job'.script = job.script
               /\ job'.still = job.still
               /\ job'.facts = [NoFacts EXCEPT !.graded = ReadReward(target.files)]
<1> DEFINE facts == [job.facts EXCEPT !.graded = ReadReward(target.files)]
<1>1. /\ At("reward") /\ UNCHANGED <<member, source, target, binder, mixed>>
      /\ \/ job' = Idle
         \/ "result.json" \in DOMAIN target.files /\ job' = [job EXCEPT !.pc = "digest", !.facts = facts]
  BY DEF ReadFacts, Elsewhere, End
<1>2. job.facts = NoFacts
  BY <1>1 DEF TypeOK, At, Reading, Collecting
<1> HIDE DEF facts
<1>3. ASSUME job' = [job EXCEPT !.pc = "digest", !.facts = facts]
      PROVE  /\ IsJob(job') /\ job'.pc = "digest" /\ job'.script = job.script
             /\ job'.still = job.still /\ job'.facts = facts
  BY <1>3 DEF TypeOK, IsJob
<1> QED BY <1>1, <1>2, <1>3 DEF facts

LEMMA SourceIsNamed ==
  ASSUME TypeOK, NameSource
  PROVE  /\ At("name") /\ UNCHANGED <<member, source, target, binder>>
         /\ \/ job' = Idle /\ mixed' = mixed
            \/ LET record == Build(job.facts, "regrade", source.raw.record, Key) IN
               /\ IsJob(job') /\ job'.pc = "open" /\ job'.script = job.script
               /\ job'.still = job.still /\ job'.even = job.even
               /\ job'.facts = NoFacts /\ job'.built = record
               /\ mixed \subseteq mixed'
               /\ ~job.even => record \in mixed'
<1> DEFINE record == Build(job.facts, "regrade", source.raw.record, Key)
<1>1. /\ At("name") /\ UNCHANGED <<member, source, target, binder>>
      /\ \/ job' = Idle /\ mixed' = mixed
         \/ /\ job' = [job EXCEPT !.pc = "open", !.facts = NoFacts, !.built = record]
            /\ mixed' = IF job.even THEN mixed ELSE mixed \cup {record}
  BY DEF NameSource, End
<1> HIDE DEF record
<1>2. ASSUME job' = [job EXCEPT !.pc = "open", !.facts = NoFacts, !.built = record]
      PROVE  /\ IsJob(job') /\ job'.pc = "open" /\ job'.script = job.script
             /\ job'.still = job.still /\ job'.even = job.even
             /\ job'.facts = NoFacts /\ job'.built = record
  BY <1>2 DEF TypeOK, IsJob
<1>3. ASSUME mixed' = IF job.even THEN mixed ELSE mixed \cup {record}
      PROVE  mixed \subseteq mixed' /\ (~job.even => record \in mixed')
  BY <1>3
<1> QED BY <1>1, <1>2, <1>3 DEF record

LEMMA BindingIsBuilt ==
  ASSUME TypeOK, BuildBinding
  PROVE  /\ binder.pc = "cover" /\ UNCHANGED <<member, source, target, job>>
         /\ \/ binder' = Idle /\ mixed' = mixed
            \/ LET facts  == Collected("cover", source.files, binder.facts,
                                       BuildVerifier(binder.script))
                   record == Build(facts, "execute", Nothing, Key)
               IN  /\ IsJob(binder') /\ binder'.pc = "open" /\ binder'.built = record
                   /\ mixed \subseteq mixed'
                   /\ ~binder.still => record \in mixed'
<1> DEFINE record == Build(Collected("cover", source.files, binder.facts,
                                     BuildVerifier(binder.script)), "execute", Nothing, Key)
<1>1. /\ binder.pc = "cover" /\ UNCHANGED <<member, source, target, job>>
      /\ \/ binder' = Idle /\ mixed' = mixed
         \/ /\ binder' = [Idle EXCEPT !.pc = "open", !.built = record]
            /\ mixed' = IF binder.still THEN mixed ELSE mixed \cup {record}
  BY DEF BuildBinding
<1> HIDE DEF record
<1>2. ASSUME binder' = [Idle EXCEPT !.pc = "open", !.built = record]
      PROVE  IsJob(binder') /\ binder'.pc = "open" /\ binder'.built = record
  BY <1>2 DEF Idle, IsJob
<1>3. ASSUME mixed' = IF binder.still THEN mixed ELSE mixed \cup {record}
      PROVE  mixed \subseteq mixed' /\ (~binder.still => record \in mixed')
  BY <1>3
<1> QED BY <1>1, <1>2, <1>3 DEF record

LEMMA Bound ==
  ASSUME NEW script, Bind(script)
  PROVE  /\ UNCHANGED <<member, source, target, job, mixed>>
         /\ IsJob(binder') /\ binder'.pc = "digest" /\ binder'.script = script
         /\ binder'.facts = [NoFacts EXCEPT !.graded = ReadReward(source.files)]
<1> DEFINE facts == [NoFacts EXCEPT !.graded = ReadReward(source.files)]
<1>1. /\ UNCHANGED <<member, source, target, job, mixed>>
      /\ binder' = [Idle EXCEPT !.pc = "digest", !.script = script, !.facts = facts]
  BY DEF Bind, Idle
<1> HIDE DEF facts
<1>2. /\ IsJob(binder') /\ binder'.pc = "digest" /\ binder'.script = script
      /\ binder'.facts = facts
  BY <1>1 DEF Idle, IsJob
<1> QED BY <1>1, <1>2 DEF facts

LEMMA SourceIsEdited ==
  ASSUME TypeOK, EditSource
  PROVE  /\ UNCHANGED <<member, target, job, mixed>>
         /\ IsDir(source') /\ source'.raw = source.raw /\ source'.sig = source.sig
         /\ IsJob(binder') /\ binder'.pc = binder.pc /\ binder'.script = binder.script
         /\ binder'.facts = binder.facts /\ binder'.built = binder.built
         /\ binder'.still => binder.still /\ binder.pc \notin DOMAIN Collecting
<1>1. /\ UNCHANGED <<member, target, job, mixed>>
      /\ IsDir(source') /\ source'.raw = source.raw /\ source'.sig = source.sig
  BY DEF EditSource, TypeOK, IsDir, Dir
<1>2. binder' = [binder EXCEPT !.still = binder.still /\ binder.pc \notin DOMAIN Collecting]
  BY DEF EditSource
<1>3. PICK now : now = (binder.still /\ binder.pc \notin DOMAIN Collecting)
  OBVIOUS
<1>4. binder' = [binder EXCEPT !.still = now]
  BY <1>2, <1>3
<1>5. /\ IsJob(binder') /\ binder'.pc = binder.pc /\ binder'.script = binder.script
      /\ binder'.facts = binder.facts /\ binder'.built = binder.built
      /\ binder'.still = now
  BY <1>4 DEF TypeOK, IsJob
<1> QED BY <1>1, <1>3, <1>5

LEMMA TargetIsEdited ==
  ASSUME TypeOK, EditTarget
  PROVE  /\ UNCHANGED <<member, source, binder, mixed>>
         /\ IsDir(target') /\ target'.raw = target.raw /\ target'.sig = target.sig
         /\ IsJob(job') /\ job'.pc = job.pc /\ job'.script = job.script
         /\ job'.facts = job.facts /\ job'.built = job.built /\ job'.even = job.even
         /\ job'.still => job.still /\ job.pc \notin Watched
<1>1. /\ UNCHANGED <<member, source, binder, mixed>>
      /\ IsDir(target') /\ target'.raw = target.raw /\ target'.sig = target.sig
  BY DEF EditTarget, TypeOK, IsDir, Dir
<1>2. job' = [job EXCEPT !.still = job.still /\ job.pc \notin Watched]
  BY DEF EditTarget
<1>3. PICK now : now = (job.still /\ job.pc \notin Watched)
  OBVIOUS
<1>4. job' = [job EXCEPT !.still = now]
  BY <1>2, <1>3
<1>5. /\ IsJob(job') /\ job'.pc = job.pc /\ job'.script = job.script
      /\ job'.facts = job.facts /\ job'.built = job.built /\ job'.even = job.even
      /\ job'.still = now
  BY <1>4 DEF TypeOK, IsJob
<1> QED BY <1>1, <1>3, <1>5

LEMMA IdleIsJob == IsJob(Idle) /\ Idle.pc = "idle" /\ Idle.facts = NoFacts
BY DEF IsJob, Idle

\* The steps that leave the files read, and the records built, alone.
LEMMA OtherSteps ==
  ASSUME TypeOK
  PROVE  /\ \A script \in Verifier : Begin(script) =>
              /\ UNCHANGED <<member, source, target, binder, mixed>>
              /\ IsJob(job') /\ job'.pc = "verify" /\ job'.script = script
              /\ job'.facts = NoFacts
         /\ VerifySource \/ ReadRecord \/ Staged \/ TimeOut \/ Return \/ Crash =>
              UNCHANGED <<member, source, target, binder, mixed>>
         /\ VerifySource \/ ReadRecord =>
              \/ job' = Idle
              \/ /\ IsJob(job') /\ job'.pc \in {"read", "stage"}
                 /\ job.pc \in {"verify", "read"} /\ job'.script = job.script
                 /\ job'.facts = job.facts
         /\ Staged =>
              \/ job' = Idle
              \/ /\ job' = [job EXCEPT !.pc = "run"] /\ At("stage") /\ job.script # "none"
         /\ TimeOut \/ Return \/ Crash => job' = Idle
         /\ Stage =>
              /\ UNCHANGED <<member, source, binder, mixed>>
              /\ IsDir(target') /\ target'.raw = target.raw /\ target'.sig = target.sig
              /\ IsJob(job') /\ At("stage") /\ job'.pc = "stage" /\ job'.script = job.script
              /\ job'.facts = job.facts
         /\ VerifierWrites \/ VerifierEnds =>
              /\ UNCHANGED <<member, source, binder, mixed>>
              /\ IsDir(target') /\ target'.raw = target.raw /\ target'.sig = target.sig
         /\ VerifierWrites => At("run") /\ job' = [job EXCEPT !.pc = "ran"]
         /\ VerifierEnds => At("ran") /\ job' = [job EXCEPT !.pc = "reward"]
         /\ StoreRecord =>
              /\ UNCHANGED <<member, source, binder, mixed>>
              /\ job.pc \in DOMAIN Storing /\ target' = Store(job.pc, target, job.built)
              /\ job' = [job EXCEPT !.pc = Storing[job.pc]]
         /\ StoreBinding =>
              /\ UNCHANGED <<member, target, job, mixed>>
              /\ binder.pc \in DOMAIN Storing /\ source' = Store(binder.pc, source, binder.built)
              /\ binder' = Idle \/ binder' = [binder EXCEPT !.pc = Storing[binder.pc]]
         /\ BinderCrash =>
              UNCHANGED <<member, source, target, job, mixed>> /\ binder' = Idle
<1>1. ASSUME NEW script \in Verifier, Begin(script)
      PROVE  /\ UNCHANGED <<member, source, target, binder, mixed>>
             /\ IsJob(job') /\ job'.pc = "verify" /\ job'.script = script
             /\ job'.facts = NoFacts
  BY <1>1 DEF Begin, Idle, IsJob
<1>2. VerifySource \/ ReadRecord \/ Staged \/ TimeOut \/ Return \/ Crash =>
        UNCHANGED <<member, source, target, binder, mixed>>
  BY DEF VerifySource, ReadRecord, Staged, TimeOut, Return, Crash, Elsewhere
<1>3. ASSUME VerifySource
      PROVE  \/ job' = Idle
             \/ /\ IsJob(job') /\ job'.pc = "read"
                /\ job.pc = "verify" /\ job'.script = job.script /\ job'.facts = job.facts
  BY <1>3, JobGoesOn DEF VerifySource, Goto, End, At, TypeOK
<1>4. ASSUME ReadRecord
      PROVE  \/ job' = Idle
             \/ /\ IsJob(job') /\ job'.pc = "stage"
                /\ job.pc = "read" /\ job'.script = job.script /\ job'.facts = job.facts
  <2>1. job.pc = "read" /\ (job' = Idle \/ \E todo : job' = [job EXCEPT !.pc = "stage", !.todo = todo])
    BY <1>4 DEF ReadRecord, End, At
  <2>2. ASSUME NEW todo, job' = [job EXCEPT !.pc = "stage", !.todo = todo]
        PROVE  /\ IsJob(job') /\ job'.pc = "stage" /\ job'.script = job.script
               /\ job'.facts = job.facts
    BY <2>2 DEF IsJob, TypeOK
  <2> QED BY <2>1, <2>2
<1>5. Staged =>
        \/ job' = Idle
        \/ job' = [job EXCEPT !.pc = "run"] /\ At("stage") /\ job.script # "none"
  BY DEF Staged, Goto, End, BuildVerifier
<1>6. TimeOut \/ Return \/ Crash => job' = Idle
  BY DEF TimeOut, Return, Crash, End
<1>7. ASSUME Stage
      PROVE  /\ UNCHANGED <<member, source, binder, mixed>>
             /\ IsDir(target') /\ target'.raw = target.raw /\ target'.sig = target.sig
             /\ IsJob(job') /\ At("stage") /\ job'.pc = "stage" /\ job'.script = job.script
             /\ job'.facts = job.facts
  BY <1>7 DEF Stage, Elsewhere, TypeOK, IsDir, Dir, IsJob, At
<1>8. ASSUME VerifierWrites \/ VerifierEnds
      PROVE  /\ UNCHANGED <<member, source, binder, mixed>>
             /\ IsDir(target') /\ target'.raw = target.raw /\ target'.sig = target.sig
  BY <1>8 DEF VerifierWrites, VerifierEnds, Elsewhere, TypeOK, IsDir, Dir
<1>9. /\ VerifierWrites => At("run") /\ job' = [job EXCEPT !.pc = "ran"]
      /\ VerifierEnds => At("ran") /\ job' = [job EXCEPT !.pc = "reward"]
  BY DEF VerifierWrites, VerifierEnds, Goto
<1>10. StoreRecord =>
         /\ UNCHANGED <<member, source, binder, mixed>>
         /\ job.pc \in DOMAIN Storing /\ target' = Store(job.pc, target, job.built)
         /\ job' = [job EXCEPT !.pc = Storing[job.pc]]
  BY DEF StoreRecord, Goto, Elsewhere
<1>11. StoreBinding =>
         /\ UNCHANGED <<member, target, job, mixed>>
         /\ binder.pc \in DOMAIN Storing /\ source' = Store(binder.pc, source, binder.built)
         /\ binder' = Idle \/ binder' = [binder EXCEPT !.pc = Storing[binder.pc]]
  BY DEF StoreBinding
<1>12. BinderCrash => UNCHANGED <<member, source, target, job, mixed>> /\ binder' = Idle
  BY DEF BinderCrash
<1> QED BY <1>1, <1>2, <1>3, <1>4, <1>5, <1>6, <1>7, <1>8, <1>9, <1>10, <1>11, <1>12

LEMMA TypeStep == TypeOK /\ [Next]_vars => TypeOK'
<1> SUFFICES ASSUME TypeOK, [Next]_vars PROVE TypeOK'
  OBVIOUS
<1> DEFINE SourceOK == IsDir(source) /\ IsJob(binder)
           TargetOK == IsDir(target)
           JobOK    == /\ IsJob(job) /\ (~At("idle") => job.script \in Verifier)
                       /\ job.pc \notin Reading => job.facts = NoFacts
<1>1. SourceOK /\ TargetOK /\ JobOK
  BY DEF TypeOK
<1>2. SUFFICES SourceOK' /\ TargetOK' /\ JobOK'
  BY DEF TypeOK
<1>3. /\ {"verify", "read", "stage", "run", "ran", "reward"} \cap Reading = {}
      /\ \A pc \in DOMAIN Collecting : pc # "idle" /\ Collecting[pc] \in Reading
      /\ \A pc \in DOMAIN Storing : pc # "idle" /\ pc \notin Reading /\ Storing[pc] \notin Reading
  BY DEF Reading, Collecting, Storing
<1>4. job' = job => JobOK'
  BY <1>1 DEF At
<1>5. job' = Idle => JobOK'
  BY IdleIsJob DEF At
<1>6. UNCHANGED <<source, binder>> => SourceOK'
  BY <1>1
<1>7. target' = target => TargetOK'
  BY <1>1
<1>8. ASSUME NEW pc, job.pc \notin Reading, job.pc # "idle", pc \notin Reading,
             job' = [job EXCEPT !.pc = pc]
      PROVE  JobOK'
  BY <1>1, <1>8, JobGoesOn DEF At
<1>9. ASSUME NEW script \in Verifier, Begin(script) PROVE SourceOK' /\ TargetOK' /\ JobOK'
  BY <1>3, <1>6, <1>7, <1>9, OtherSteps DEF At
<1>10. ASSUME NEW script \in Verifier, Bind(script) PROVE SourceOK' /\ TargetOK' /\ JobOK'
  BY <1>1, <1>4, <1>7, <1>10, Bound
<1>11. CASE VerifySource \/ ReadRecord
  <2>1. JobOK'
    BY <1>1, <1>3, <1>5, <1>11, OtherSteps DEF At
  <2> QED BY <1>6, <1>7, <1>11, <2>1, OtherSteps
<1>12. CASE Staged
  <2>1. JobOK'
    BY <1>3, <1>5, <1>8, <1>12, OtherSteps DEF At
  <2> QED BY <1>6, <1>7, <1>12, <2>1, OtherSteps
<1>13. CASE TimeOut \/ Return \/ Crash
  BY <1>5, <1>6, <1>7, <1>13, OtherSteps
<1>14. CASE Stage
  BY <1>1, <1>3, <1>6, <1>14, OtherSteps DEF At
<1>15. CASE VerifierWrites \/ VerifierEnds
  <2>1. JobOK'
    BY <1>3, <1>8, <1>15, OtherSteps DEF At
  <2> QED BY <1>6, <1>15, <2>1, OtherSteps
<1>16. CASE ReadFacts
  BY <1>1, <1>3, <1>5, <1>6, <1>7, <1>16, FactsAreRead DEF At, Collecting, Reading
<1>17. CASE Collect
  BY <1>1, <1>3, <1>5, <1>6, <1>17, RegradeGoesOn DEF At
<1>18. CASE NameSource
  BY <1>1, <1>5, <1>6, <1>7, <1>18, SourceIsNamed DEF At
<1>19. CASE StoreRecord
  <2>1. JobOK'
    BY <1>3, <1>8, <1>19, OtherSteps
  <2> QED BY <1>1, <1>6, <1>19, <2>1, OtherSteps, StoreTells
<1>20. CASE CollectSource
  BY <1>4, <1>7, <1>20, BinderGoesOn, IdleIsJob
<1>21. CASE BuildBinding
  BY <1>1, <1>4, <1>7, <1>21, BindingIsBuilt, IdleIsJob
<1>22. CASE StoreBinding
  <2>1. IsDir(source')
    BY <1>1, <1>22, OtherSteps, StoreTells
  <2>2. IsJob(binder')
    BY <1>1, <1>22, OtherSteps, JobGoesOn, IdleIsJob
  <2> QED BY <1>4, <1>7, <1>22, <2>1, <2>2, OtherSteps
<1>23. CASE BinderCrash
  BY <1>1, <1>4, <1>7, <1>23, OtherSteps, IdleIsJob
<1>24. CASE EditSource
  BY <1>4, <1>7, <1>24, SourceIsEdited
<1>25. CASE EditTarget
  BY <1>1, <1>6, <1>25, TargetIsEdited DEF At
<1>26. CASE UNCHANGED vars
  BY <1>4, <1>6, <1>7, <1>26 DEF vars
<1> HIDE DEF SourceOK, TargetOK, JobOK
<1> QED BY <1>9, <1>10, <1>11, <1>12, <1>13, <1>14, <1>15, <1>16, <1>17, <1>18, <1>19, <1>20,
           <1>21, <1>22, <1>23, <1>24, <1>25, <1>26 DEF Next, Step

\* Only the steps that store a record touch a signature, or a manifest; and a
\* record of files that changed stays known as one.
LEMMA RecordsStay ==
  ASSUME TypeOK, [Next]_vars, ~StoreRecord, ~StoreBinding
  PROVE  /\ member' = member /\ mixed \subseteq mixed'
         /\ source'.sig = source.sig /\ source'.raw = source.raw
         /\ target'.sig = target.sig /\ target'.raw = target.raw
<1>1. CASE \E script \in Verifier : Begin(script) \/ Bind(script)
  BY <1>1, OtherSteps, Bound
<1>2. CASE VerifySource \/ ReadRecord \/ Staged \/ TimeOut \/ Return \/ Crash \/ Stage
             \/ VerifierWrites \/ VerifierEnds \/ BinderCrash
  BY <1>2, OtherSteps
<1>3. CASE ReadFacts \/ Collect \/ NameSource
  BY <1>3, FactsAreRead, RegradeGoesOn, SourceIsNamed
<1>4. CASE CollectSource \/ BuildBinding
  BY <1>4, BinderGoesOn, BindingIsBuilt
<1>5. CASE EditSource \/ EditTarget
  BY <1>5, SourceIsEdited, TargetIsEdited
<1>6. CASE UNCHANGED vars
  BY <1>6 DEF vars
<1> QED BY <1>1, <1>2, <1>3, <1>4, <1>5, <1>6 DEF Next, Step

LEMMA SignedStep == Inv /\ [Next]_vars => SignedIsGenuine'
<1> SUFFICES ASSUME Inv, [Next]_vars PROVE SignedIsGenuine'
  OBVIOUS
<1> USE DEF SignedIsGenuine, Trusted
<1>1. SignedIsGenuine /\ TypeOK
  BY DEF Inv
<1>2. CASE StoreRecord
  <2>1. /\ job.pc \in DOMAIN Storing /\ target' = Store(job.pc, target, job.built)
        /\ UNCHANGED <<member, source, mixed>>
    BY <1>1, <1>2, OtherSteps
  <2>2. \/ target'.sig = target.sig \/ target'.sig = TornSignature
        \/ target'.sig = SignBytes(Key, Written(job.built))
    BY <1>1, <2>1, StoreTells DEF TypeOK, Storing
  <2>3. CASE target'.sig = target.sig
    BY <1>1, <2>1, <2>3
  <2>4. CASE target'.sig = TornSignature
    <3>1. target'.sig.key # Key
      BY <2>4 DEF TornSignature, Sig, Null, Key
    <3> QED BY <1>1, <2>1, <3>1
  <2>5. CASE target'.sig = SignBytes(Key, Written(job.built))
    <3>1. /\ IsBuilt(job.built) /\ NamesOneDocument(job.built)
          /\ job.built \notin mixed => /\ IsGenuine(job.built) /\ NamesItsDocument(job.built)
                                       /\ GradesItsAnswer(job.built)
      BY <2>1 DEF Inv, JobIsGenuine, Storing, Recorded
    <3>2. target'.sig.over.record = job.built
      BY <2>5 DEF SignBytes, Sig, Written, Raw
    <3> QED BY <1>1, <2>1, <3>1, <3>2
  <2> QED BY <2>2, <2>3, <2>4, <2>5
<1>3. CASE StoreBinding
  <2>1. /\ binder.pc \in DOMAIN Storing /\ source' = Store(binder.pc, source, binder.built)
        /\ UNCHANGED <<member, target, mixed>>
    BY <1>1, <1>3, OtherSteps
  <2>2. \/ source'.sig = source.sig \/ source'.sig = TornSignature
        \/ source'.sig = SignBytes(Key, Written(binder.built))
    BY <1>1, <2>1, StoreTells DEF TypeOK, Storing
  <2>3. CASE source'.sig = source.sig
    BY <1>1, <2>1, <2>3
  <2>4. CASE source'.sig = TornSignature
    <3>1. source'.sig.key # Key
      BY <2>4 DEF TornSignature, Sig, Null, Key
    <3> QED BY <1>1, <2>1, <3>1
  <2>5. CASE source'.sig = SignBytes(Key, Written(binder.built))
    <3>1. /\ IsBuilt(binder.built) /\ NamesOneDocument(binder.built)
          /\ binder.built \notin mixed => IsGenuine(binder.built) /\ NamesItsDocument(binder.built)
      BY <2>1 DEF Inv, BinderIsGenuine
    <3>2. source'.sig.over.record = binder.built
      BY <2>5 DEF SignBytes, Sig, Written, Raw
    <3> QED BY <1>1, <2>1, <3>1, <3>2
  <2> QED BY <2>2, <2>3, <2>4, <2>5
<1>4. CASE ~StoreRecord /\ ~StoreBinding
  <2>1. /\ member' = member /\ source'.sig = source.sig /\ target'.sig = target.sig
        /\ mixed \subseteq mixed'
    BY <1>1, <1>4, RecordsStay
  <2> QED BY <1>1, <2>1
<1> QED BY <1>2, <1>3, <1>4

LEMMA NothingIsRead ==
  ASSUME NEW files, NEW facts, facts = [NoFacts EXCEPT !.graded = ReadReward(files)],
         NEW verifier
  PROVE  IsRead(facts) /\ Reads("digest", facts, files, verifier)
<1>1. /\ facts = [graded |-> facts.graded, entries |-> facts.entries, atif |-> facts.atif,
                  inputs |-> facts.inputs]
      /\ facts.graded = ReadReward(files) /\ facts.entries = {} /\ facts.inputs = {}
  BY DEF NoFacts
<1> QED BY <1>1, RewardRead DEF IsRead, Reads

LEMMA BinderStep == Inv /\ [Next]_vars => BinderIsGenuine'
<1> SUFFICES ASSUME Inv, [Next]_vars PROVE BinderIsGenuine'
  OBVIOUS
<1>1. TypeOK /\ BinderIsGenuine
  BY DEF Inv
<1>2. CASE UNCHANGED <<binder, source>> /\ mixed \subseteq mixed'
  BY <1>1, <1>2 DEF BinderIsGenuine
<1>3. CASE binder' = Idle
  BY <1>3, IdleIsJob DEF BinderIsGenuine, Collecting, Storing
<1>4. ASSUME NEW script \in Verifier, Bind(script) PROVE BinderIsGenuine'
  <2>1. /\ UNCHANGED source /\ binder'.pc = "digest"
        /\ binder'.facts = [NoFacts EXCEPT !.graded = ReadReward(source.files)]
    BY <1>4, Bound
  <2>2. /\ IsRead(binder'.facts)
        /\ Reads("digest", binder'.facts, source.files, BuildVerifier(binder'.script))
    BY <2>1, NothingIsRead
  <2> QED BY <2>1, <2>2 DEF BinderIsGenuine, Storing
<1>5. CASE CollectSource
  <2>1. SUFFICES ASSUME binder' # Idle PROVE BinderIsGenuine'
    BY <1>3
  <2> DEFINE verifier == BuildVerifier(binder.script)
  <2>2. /\ binder.pc \in DOMAIN Collecting /\ binder'.script = binder.script
        /\ source'.files = Captured(binder.pc, source.files, verifier)
        /\ binder'.pc = Collecting[binder.pc] /\ binder'.still = binder.still
        /\ binder'.facts = Collected(binder.pc, source.files, binder.facts, verifier)
    BY <1>1, <1>5, <2>1, BinderGoesOn
  <2>3. IsRead(binder'.facts)
    BY <1>1, <2>2, CollectedIsRead, CapturesScript DEF BinderIsGenuine
  <2>4. binder'.still =>
          Reads(binder'.pc, binder'.facts, source'.files, BuildVerifier(binder'.script))
    BY <1>1, <2>2, CollectedReads, CapturesScript DEF BinderIsGenuine
  <2>5. binder'.pc \notin DOMAIN Storing
    BY <2>2 DEF Collecting, Storing
  <2> QED BY <2>3, <2>4, <2>5 DEF BinderIsGenuine
<1>6. CASE BuildBinding
  <2>1. SUFFICES ASSUME binder' # Idle PROVE BinderIsGenuine'
    BY <1>3
  <2> DEFINE verifier == BuildVerifier(binder.script)
             facts    == Collected("cover", source.files, binder.facts, verifier)
             record   == Build(facts, "execute", Nothing, Key)
  <2>2. /\ binder.pc = "cover" /\ binder'.pc = "open" /\ binder'.built = record
        /\ mixed \subseteq mixed' /\ (~binder.still => record \in mixed')
    BY <1>1, <1>6, <2>1, BindingIsBuilt
  <2>3. /\ "cover" \in DOMAIN Collecting /\ IsRead(binder.facts)
        /\ binder.still => Reads("cover", binder.facts, source.files, verifier)
    BY <1>1, <2>2 DEF BinderIsGenuine, Collecting
  <2>4. IsRead(facts)
    BY <2>3, CollectedIsRead, CapturesScript
  <2>5. IsBuilt(record) /\ NamesOneDocument(record)
    <3> HIDE DEF facts
    <3> QED BY <2>4, BuildIsBuilt
  <2>6. ASSUME binder.still PROVE IsGenuine(record) /\ NamesItsDocument(record)
    <3>1. Reads("name", facts, source.files, verifier)
      BY <2>3, <2>6, CollectedReads, CapturesScript DEF Collecting, Captured
    <3>2. facts = CollectFacts(source.files, verifier)
      BY <3>1 DEF Reads
    <3>3. DOMAIN verifier \subseteq {Script}
      BY CapturesScript
    <3> HIDE DEF facts, verifier
    <3> QED BY <3>2, <3>3, BuildIsGenuine
  <2>7. "open" \in DOMAIN Storing /\ "open" \notin DOMAIN Collecting
    BY DEF Storing, Collecting
  <2> HIDE DEF record
  <2> QED BY <2>2, <2>5, <2>6, <2>7 DEF BinderIsGenuine
<1>7. CASE StoreBinding
  <2>1. CASE binder' = [binder EXCEPT !.pc = Storing[binder.pc]]
    <3>1. /\ binder'.built = binder.built /\ binder'.pc = Storing[binder.pc]
          /\ binder.pc \in DOMAIN Storing /\ mixed' = mixed
      BY <1>1, <1>7, <2>1, OtherSteps, JobGoesOn DEF TypeOK
    <3>2. binder'.pc \notin DOMAIN Collecting
      BY <3>1 DEF Storing, Collecting
    <3> QED BY <1>1, <3>1, <3>2 DEF BinderIsGenuine
  <2> QED BY <1>1, <1>3, <1>7, <2>1, OtherSteps
<1>8. CASE BinderCrash
  BY <1>1, <1>3, <1>8, OtherSteps
<1>9. CASE EditSource
  <2>1. /\ mixed' = mixed /\ binder'.pc = binder.pc
        /\ binder'.facts = binder.facts /\ binder'.built = binder.built
        /\ binder'.still => binder.pc \notin DOMAIN Collecting
    BY <1>1, <1>9, SourceIsEdited
  <2> QED BY <1>1, <2>1 DEF BinderIsGenuine
<1>10. CASE \E script \in Verifier : Begin(script)
  BY <1>1, <1>2, <1>10, OtherSteps
<1>11. CASE Step \/ Crash
  BY <1>1, <1>2, <1>11, OtherSteps, FactsAreRead, RegradeGoesOn, SourceIsNamed DEF Step
<1>12. CASE EditTarget
  BY <1>1, <1>2, <1>12, TargetIsEdited
<1>13. CASE UNCHANGED vars
  BY <1>2, <1>13 DEF vars
<1> QED BY <1>4, <1>5, <1>6, <1>7, <1>8, <1>9, <1>10, <1>11, <1>12, <1>13 DEF Next

LEMMA JobStep == Inv /\ [Next]_vars => JobIsGenuine'
<1> SUFFICES ASSUME Inv, [Next]_vars PROVE JobIsGenuine'
  OBVIOUS
<1>1. TypeOK /\ JobIsGenuine
  BY DEF Inv
<1>2. CASE UNCHANGED <<job, target>> /\ mixed \subseteq mixed'
  BY <1>1, <1>2 DEF JobIsGenuine, At
<1>3. CASE job'.pc \notin Grading \cup Recorded
  BY <1>3 DEF JobIsGenuine, At, Grading, Recorded, Reading, Collecting
<1>4. CASE job' = Idle
  BY <1>3, <1>4, IdleIsJob DEF Grading, Recorded, Reading, Collecting
<1>5. job.pc # "idle" => job.script \in Scripts
  BY <1>1, VerifierAssumption DEF TypeOK, At, Scripts
<1>6. ASSUME NEW script \in Verifier, Begin(script) PROVE JobIsGenuine'
  BY <1>1, <1>3, <1>6, OtherSteps DEF Grading, Recorded, Reading, Collecting
<1>7. ASSUME NEW script \in Verifier, Bind(script) PROVE JobIsGenuine'
  BY <1>2, <1>7, Bound
<1>8. CASE VerifySource \/ ReadRecord \/ Stage
  <2>1. job' = Idle \/ job'.pc \in {"read", "stage"}
    BY <1>1, <1>8, OtherSteps
  <2> QED BY <1>3, <1>4, <2>1 DEF Grading, Recorded, Reading, Collecting
<1>9. CASE Staged
  <2>1. CASE job' = [job EXCEPT !.pc = "run"] /\ job.script # "none"
    <3>1. job'.pc = "run" /\ job'.script = job.script
      BY <1>1, <2>1, JobGoesOn DEF TypeOK
    <3> QED BY <2>1, <3>1 DEF JobIsGenuine, At, Recorded, Reading, Collecting
  <2> QED BY <1>1, <1>4, <1>9, <2>1, OtherSteps
<1>10. CASE VerifierWrites
  <2>1. job.pc = "run" /\ job'.pc = "ran" /\ job'.script = job.script
    BY <1>1, <1>10, OtherSteps, JobGoesOn DEF At, TypeOK
  <2>2. target'.files = Over(Graded(job.script, target.files), target.files)
    BY <1>1, <1>10 DEF VerifierWrites, TypeOK, IsDir, Dir
  <2>3. HasGraded(job'.script, target'.files)
    BY <1>5, <2>1, <2>2, GradedAsLeft
  <2>4. job'.script # "none"
    BY <1>1, <2>1 DEF JobIsGenuine, Grading
  <2> QED BY <2>1, <2>3, <2>4 DEF JobIsGenuine, At, Recorded, Reading, Collecting
<1>11. CASE VerifierEnds
  <2> DEFINE stdout == File("verifier/test-stdout.txt",
                            IF job.script = "strict" THEN "checking" ELSE "stricter")
             stderr == File("verifier/test-stderr.txt", "empty")
  <2>1. /\ job.pc = "ran" /\ job'.pc = "reward" /\ job'.script = job.script
        /\ job'.still = job.still
    BY <1>1, <1>11, OtherSteps, JobGoesOn DEF At, TypeOK
  <2>2. target'.files = Over(stdout, Over(stderr, target.files))
    BY <1>1, <1>11 DEF VerifierEnds, TypeOK, IsDir, Dir
  <2>3. /\ AnswersOf(target'.files) = AnswersOf(target.files)
        /\ Text \in DOMAIN target.files =>
             Text \in DOMAIN target'.files /\ target'.files[Text] = target.files[Text]
    BY <2>2 DEF AnswersOf, Over, File, Answer, Text
  <2>4. (job.still => HasGraded(job.script, target.files)) /\ job.script # "none"
    BY <1>1, <2>1 DEF JobIsGenuine, Grading
  <2>5. job'.still => HasGraded(job'.script, target'.files)
    BY <2>1, <2>3, <2>4, GradedStays
  <2> QED BY <2>1, <2>4, <2>5 DEF JobIsGenuine, At, Recorded, Reading, Collecting
<1>12. CASE TimeOut \/ Return \/ Crash
  BY <1>1, <1>4, <1>12, OtherSteps
<1>13. CASE ReadFacts
  <2>1. SUFFICES ASSUME job' # Idle PROVE JobIsGenuine'
    BY <1>4
  <2>2. /\ job.pc = "reward" /\ target' = target
        /\ job'.pc = "digest" /\ job'.script = job.script /\ job'.still = job.still
        /\ job'.facts = [NoFacts EXCEPT !.graded = ReadReward(target.files)]
    BY <1>1, <1>13, <2>1, FactsAreRead DEF At
  <2>3. /\ IsRead(job'.facts)
        /\ Reads("digest", job'.facts, target.files, BuildVerifier(job'.script))
    BY <2>2, NothingIsRead
  <2>4. job.script # "none" /\ (job.still => HasGraded(job.script, target.files))
    BY <1>1, <2>2 DEF JobIsGenuine, Grading
  <2> QED BY <2>2, <2>3, <2>4 DEF JobIsGenuine, At, Recorded
<1>14. CASE Collect
  <2>1. SUFFICES ASSUME job' # Idle PROVE JobIsGenuine'
    BY <1>4
  <2> DEFINE verifier == BuildVerifier(job.script)
  <2>2. /\ job.pc \in DOMAIN Collecting /\ job'.script = job.script
        /\ target'.files = Captured(job.pc, target.files, verifier)
        /\ job'.pc = Collecting[job.pc] /\ job'.still = job.still /\ job'.even = job.still
        /\ job'.facts = Collected(job.pc, target.files, job.facts, verifier)
    BY <1>1, <1>14, <2>1, RegradeGoesOn
  <2>3. /\ job.script # "none" /\ IsRead(job.facts)
        /\ job.still => /\ HasGraded(job.script, target.files)
                        /\ Reads(job.pc, job.facts, target.files, verifier)
    BY <1>1, <2>2 DEF JobIsGenuine, Grading, Reading
  <2>4. IsRead(job'.facts)
    BY <2>2, <2>3, CollectedIsRead, CapturesScript
  <2>5. job.still => Reads(job'.pc, job'.facts, target'.files, verifier)
    BY <2>2, <2>3, CollectedReads, CapturesScript
  <2>6. job.still => HasGraded(job.script, target'.files)
    <3>1. CASE target'.files = target.files
      BY <2>3, <3>1
    <3>2. CASE target'.files = Capture(target.files, verifier)
      <4>1. \A p : p # Script =>
              /\ p \in DOMAIN target'.files <=> p \in DOMAIN target.files
              /\ p \in DOMAIN target.files => target'.files[p] = target.files[p]
        BY <3>2, CaptureKeeps, CapturesScript
      <4>2. Answer # Script /\ Text # Script
        BY DEF Answer, Text, Script
      <4>3. AnswersOf(target'.files) = AnswersOf(target.files)
        BY <4>1, <4>2 DEF AnswersOf
      <4> QED BY <2>3, <4>1, <4>2, <4>3, GradedStays
    <3> QED BY <2>2, <3>1, <3>2 DEF Captured
  <2>7. ASSUME At("name")', job.still PROVE CollectedAsGraded(job'.script, job'.facts)
    BY <2>2, <2>5, <2>6, <2>7 DEF Reads, CollectedAsGraded, At
  <2>8. job'.pc \in Reading /\ job'.pc \notin Recorded
    BY <2>2 DEF Reading, Recorded, Collecting
  <2> HIDE DEF verifier
  <2> QED BY <2>2, <2>3, <2>4, <2>5, <2>6, <2>7, <2>8 DEF JobIsGenuine, At, verifier
<1>15. CASE NameSource
  <2>1. SUFFICES ASSUME job' # Idle PROVE JobIsGenuine'
    BY <1>4
  <2> DEFINE record == Build(job.facts, "regrade", source.raw.record, Key)
  <2>2. /\ job.pc = "name" /\ job'.pc = "open" /\ job'.script = job.script
        /\ job'.still = job.still /\ job'.even = job.even /\ job'.built = record
        /\ ~job.even => record \in mixed'
    BY <1>1, <1>15, <2>1, SourceIsNamed DEF At
  <2>3. /\ job.script # "none" /\ IsRead(job.facts) /\ (job.still => job.even)
        /\ job.even => CollectedAsGraded(job.script, job.facts)
    BY <1>1, <2>2 DEF JobIsGenuine, Grading, Reading, At
  <2>4. IsBuilt(record) /\ NamesOneDocument(record)
    BY <2>3, BuildIsBuilt
  <2>5. ASSUME job.even
        PROVE  IsGenuine(record) /\ NamesItsDocument(record) /\ GradesItsAnswer(record)
    <3>1. PICK files : /\ HasGraded(job.script, files)
                       /\ job.facts = CollectFacts(files, BuildVerifier(job.script))
      BY <2>3, <2>5 DEF CollectedAsGraded
    <3>2. IsGenuine(record) /\ NamesItsDocument(record)
      BY <3>1, BuildIsGenuine, CapturesScript
    <3>3. GradesItsAnswer(record)
      BY <1>5, <2>2, <2>3, <3>1, RegradeGrades
    <3> QED BY <3>2, <3>3
  <2> HIDE DEF record
  <2> QED BY <2>2, <2>3, <2>4, <2>5 DEF JobIsGenuine, At, Grading, Reading, Collecting
<1>16. CASE StoreRecord
  <2>1. /\ job.pc \in DOMAIN Storing /\ job'.pc = Storing[job.pc]
        /\ job'.built = job.built /\ job'.still = job.still /\ job'.even = job.even
        /\ mixed' = mixed
    BY <1>1, <1>16, OtherSteps, JobGoesOn DEF TypeOK
  <2>2. job.pc \in Recorded /\ job'.pc \in Recorded /\ job'.pc \notin Grading /\ job'.pc # "name"
        /\ job'.pc \notin {"ran", "reward"} \cup Reading
    BY <2>1 DEF Storing, Recorded, Grading, Reading, Collecting
  <2> QED BY <1>1, <2>1, <2>2 DEF JobIsGenuine, At
<1>17. CASE StoreBinding \/ BinderCrash
  BY <1>1, <1>2, <1>17, OtherSteps
<1>18. CASE CollectSource \/ BuildBinding
  BY <1>1, <1>2, <1>18, BinderGoesOn, BindingIsBuilt
<1>19. CASE EditSource
  BY <1>1, <1>2, <1>19, SourceIsEdited
<1>20. CASE EditTarget
  <2>1. /\ job'.pc = job.pc /\ job'.script = job.script /\ job'.facts = job.facts
        /\ job'.built = job.built /\ job'.even = job.even /\ mixed' = mixed
        /\ job'.still => job.still /\ job.pc \notin Watched
    BY <1>1, <1>20, TargetIsEdited
  <2>2. {"ran", "reward"} \cup Reading \cup Recorded \subseteq Watched
    BY DEF Watched, Reading, Recorded, Collecting, Storing
  <2> QED BY <1>1, <2>1, <2>2 DEF JobIsGenuine, At
<1>21. CASE UNCHANGED vars
  BY <1>2, <1>21 DEF vars
<1> QED BY <1>6, <1>7, <1>8, <1>9, <1>10, <1>11, <1>12, <1>13, <1>14, <1>15, <1>16,
           <1>17, <1>18, <1>19, <1>20, <1>21 DEF Next, Step

LEMMA CoveredStep == Inv /\ [Next]_vars => TargetIsCovered'
<1> SUFFICES ASSUME Inv, [Next]_vars PROVE TargetIsCovered'
  OBVIOUS
<1>1. TypeOK /\ JobIsGenuine /\ TargetIsCovered
  BY DEF Inv
<1>2. CASE UNCHANGED <<job, target>>
  BY <1>1, <1>2 DEF TargetIsCovered, CoversTarget, At
<1>3. CASE job'.pc \notin {"reward"} \cup Reading \cup Recorded
  BY <1>3 DEF TargetIsCovered, At, Recorded
<1>4. CASE job' = Idle
  BY <1>3, <1>4, IdleIsJob DEF Recorded, Reading, Collecting
<1>5. job.pc # "idle" => job.script \in Scripts
  BY <1>1, VerifierAssumption DEF TypeOK, At, Scripts
<1>6. ASSUME NEW script \in Verifier, Begin(script) PROVE TargetIsCovered'
  BY <1>1, <1>3, <1>6, OtherSteps DEF Recorded, Reading, Collecting
<1>7. ASSUME NEW script \in Verifier, Bind(script) PROVE TargetIsCovered'
  BY <1>2, <1>7, Bound
<1>8. CASE VerifySource \/ ReadRecord \/ Stage \/ Staged \/ VerifierWrites
  <2>1. job' = Idle \/ job'.pc \in {"read", "stage", "run", "ran"}
    BY <1>1, <1>8, OtherSteps, JobGoesOn DEF TypeOK
  <2> QED BY <1>3, <1>4, <2>1 DEF Recorded, Reading, Collecting
<1>9. CASE VerifierEnds
  <2> DEFINE stdout == File("verifier/test-stdout.txt",
                            IF job.script = "strict" THEN "checking" ELSE "stricter")
             stderr == File("verifier/test-stderr.txt", "empty")
  <2>1. job'.pc = "reward"
    BY <1>1, <1>9, OtherSteps, JobGoesOn DEF TypeOK
  <2>2. target'.files = Over(stdout, Over(stderr, target.files))
    BY <1>1, <1>9 DEF VerifierEnds, TypeOK, IsDir, Dir
  <2>3. Streams \subseteq DOMAIN target'.files
    BY <2>2 DEF Streams, Over, File
  <2> QED BY <2>1, <2>3 DEF TargetIsCovered, At, Recorded, Reading, Collecting
<1>10. CASE TimeOut \/ Return \/ Crash
  BY <1>1, <1>4, <1>10, OtherSteps
<1>11. CASE ReadFacts
  <2>1. SUFFICES ASSUME job' # Idle PROVE TargetIsCovered'
    BY <1>4
  <2>2. /\ job.pc = "reward" /\ target' = target /\ job'.pc = "digest"
        /\ job'.still = job.still /\ "result.json" \in DOMAIN target.files
    BY <1>1, <1>11, <2>1, FactsAreRead DEF At
  <2> QED BY <1>1, <2>2 DEF TargetIsCovered, At, Recorded
<1>12. CASE Collect
  <2>1. SUFFICES ASSUME job' # Idle PROVE TargetIsCovered'
    BY <1>4
  <2>2. /\ job.pc \in DOMAIN Collecting /\ job'.still = job.still
        /\ target'.files = Captured(job.pc, target.files, BuildVerifier(job.script))
        /\ job'.pc = Collecting[job.pc]
    BY <1>1, <1>12, <2>1, RegradeGoesOn
  <2>3. job.still => Streams \cup {"result.json"} \subseteq DOMAIN target.files
    BY <1>1, <2>2 DEF TargetIsCovered, Reading
  <2>4. DOMAIN target.files \subseteq DOMAIN target'.files
    BY <2>2 DEF Captured, Capture, Over
  <2>5. job'.pc \in Reading /\ job'.pc \notin Recorded
    BY <2>2 DEF Reading, Recorded, Collecting
  <2> QED BY <2>2, <2>3, <2>4, <2>5 DEF TargetIsCovered, At, Recorded
<1>13. CASE NameSource
  <2>1. SUFFICES ASSUME job' # Idle PROVE TargetIsCovered'
    BY <1>4
  <2> DEFINE record == Build(job.facts, "regrade", source.raw.record, Key)
  <2>2. /\ job.pc = "name" /\ job'.pc = "open" /\ job'.script = job.script
        /\ job'.still = job.still /\ job'.built = record /\ target' = target
    BY <1>1, <1>13, <2>1, SourceIsNamed DEF At
  <2>3. record.operation = "regrade"
    BY BuildTells
  <2>4. ASSUME job.still
        PROVE  /\ Covers(record, target.files)
               /\ RequiredRole \ {e.role : e \in Covered(record)}
                    \subseteq {"atif_trajectory", "reward"}
               /\ job.script \in {"strict", "changed"} => record.rewardPath = Text
    <3>1. /\ job.script # "none" /\ HasGraded(job.script, target.files)
          /\ Reads("name", job.facts, target.files, BuildVerifier(job.script))
      BY <1>1, <2>2, <2>4 DEF JobIsGenuine, Grading, Reading
    <3>2. Streams \cup {"result.json"} \subseteq DOMAIN target.files
      BY <1>1, <2>2, <2>4 DEF TargetIsCovered, Reading
    <3> QED BY <1>5, <2>2, <3>1, <3>2, BuildCovers
  <2> HIDE DEF record
  <2> QED BY <2>2, <2>3, <2>4 DEF TargetIsCovered, CoversTarget, At, Recorded, Reading, Collecting
<1>14. CASE StoreRecord
  <2>1. /\ job.pc \in DOMAIN Storing /\ job'.pc = Storing[job.pc]
        /\ job'.script = job.script /\ job'.built = job.built /\ job'.still = job.still
        /\ target' = Store(job.pc, target, job.built)
    BY <1>1, <1>14, OtherSteps, JobGoesOn DEF TypeOK
  <2>2. /\ target'.files = target.files
        /\ job.pc = "write"  => target'.raw = Written(job.built)
        /\ job.pc = "reopen" => target'.raw = target.raw
        /\ job.pc = "sign"   => /\ target'.raw = target.raw
                                /\ target'.sig = SignBytes(Key, Written(job.built))
    BY <1>1, <2>1, StoreTells DEF TypeOK
  <2>3. /\ job'.pc \in Recorded /\ job.pc \in Recorded
        /\ job'.pc \notin {"reward"} \cup Reading
        /\ job'.pc = "reopen" => job.pc = "write"
        /\ job'.pc = "sign" => job.pc = "reopen"
        /\ job'.pc = "done" => job.pc = "sign"
    BY <2>1 DEF Storing, Recorded, Reading, Collecting
  <2>4. /\ job.built.operation = "regrade" /\ (job.still => CoversTarget)
        /\ job.pc \in {"reopen", "sign"} => target.raw = Written(job.built)
    BY <1>1, <2>3 DEF TargetIsCovered
  <2>5. /\ job'.pc \in {"reopen", "sign", "done"} => target'.raw = Written(job'.built)
        /\ job'.pc = "done" => target'.sig = SignBytes(Key, target'.raw)
    BY <2>1, <2>2, <2>3, <2>4
  <2>6. job'.still => CoversTarget'
    BY <2>1, <2>2, <2>4 DEF CoversTarget
  <2> QED BY <2>1, <2>3, <2>4, <2>5, <2>6 DEF TargetIsCovered, At
<1>15. CASE StoreBinding \/ BinderCrash
  BY <1>1, <1>2, <1>15, OtherSteps
<1>16. CASE CollectSource \/ BuildBinding
  BY <1>1, <1>2, <1>16, BinderGoesOn, BindingIsBuilt
<1>17. CASE EditSource
  BY <1>1, <1>2, <1>17, SourceIsEdited
<1>18. CASE EditTarget
  <2>1. /\ job'.pc = job.pc /\ job'.script = job.script /\ job'.built = job.built
        /\ target'.raw = target.raw /\ target'.sig = target.sig
        /\ job'.still => job.pc \notin Watched
    BY <1>1, <1>18, TargetIsEdited
  <2>2. {"reward"} \cup Reading \cup Recorded \subseteq Watched
    BY DEF Watched, Reading, Recorded, Collecting, Storing
  <2> QED BY <1>1, <2>1, <2>2 DEF TargetIsCovered, At
<1>19. CASE UNCHANGED vars
  BY <1>2, <1>19 DEF vars
<1>20. ASSUME NEW script \in Verifier, Begin(script) \/ Bind(script) PROVE TargetIsCovered'
  BY <1>6, <1>7, <1>20
<1> QED BY <1>8, <1>9, <1>10, <1>11, <1>12, <1>13, <1>14, <1>15, <1>16,
           <1>17, <1>18, <1>19, <1>20 DEF Next, Step

\* The invariant is one.
THEOREM Invariance == Spec => []Inv
<1>1. Init => Inv
  BY InitIsSound
<1>2. Inv /\ [Next]_vars => Inv'
  BY TypeStep, SignedStep, BinderStep, JobStep, CoveredStep DEF Inv
<1> QED BY <1>1, <1>2, PTL DEF Spec

----------------------------------------------------------------------------
(* What a record that verifies says *)

\* What verifies under the key was built, of files that stayed as they were or
\* of files that are known to have changed.
LEMMA VerifiedIsBuilt ==
  ASSUME NEW dir, NEW named, Trusted(dir, named), Verified(dir)
  PROVE  /\ IsBuilt(dir.raw.record)
         /\ dir.raw.record \notin mixed => IsGenuine(dir.raw.record)
         /\ Covers(dir.raw.record, dir.files)
         /\ dir.sig.key = Key /\ dir.sig.over = dir.raw
         /\ dir.raw.record.status # "incomplete"
         /\ RequiredRole \subseteq {e.role : e \in Covered(dir.raw.record)}
<1>1. /\ dir.sig = SignBytes(Key, dir.raw) /\ Covers(dir.raw.record, dir.files)
      /\ dir.raw.record.status # "incomplete"
      /\ RequiredRole \subseteq {e.role : e \in Covered(dir.raw.record)}
  BY VerifiedTells DEF Verified, Answers
<1>2. dir.sig.key = Key /\ dir.sig.over = dir.raw
  BY <1>1 DEF SignBytes, Sig
<1> QED BY <1>1, <1>2 DEF Trusted

\* Where a directory is as its record says, so is its archive.
LEMMA ArchiveIsRecorded ==
  ASSUME NEW dir, Covers(dir.raw.record, dir.files)
  PROVE  LET entries == ArchiveDigest(dir.raw.record.artifacts) IN
         /\ DOMAIN ArchiveOf(dir) = {e.path : e \in entries}
         /\ \A e \in entries : ArchiveOf(dir)[e.path] = e.sha256
<1> DEFINE entries == ArchiveDigest(dir.raw.record.artifacts)
           paths   == {e.path : e \in entries}
<1>1. \A e \in entries : e.path \in DOMAIN dir.files /\ dir.files[e.path] = e.sha256
  BY DEF ArchiveDigest, Covers, Covered
<1>2. ArchiveOf(dir) = [p \in paths \cap DOMAIN dir.files |-> dir.files[p]]
  BY DEF ArchiveOf
<1>3. paths \cap DOMAIN dir.files = paths
  BY <1>1
<1> QED BY <1>1, <1>2, <1>3

\* Two records that verify and make a chain are of one archive: check_lineage
\* compares what the records say of it (aee_bind/verify.py), and what verifies
\* was built of the files that are there.
THEOREM LineageHoldsOneArchive == Spec => []LineageIsOneArchive
<1> SUFFICES Inv => LineageIsOneArchive
  BY Invariance, PTL
<1> SUFFICES ASSUME Inv, Verified(source), Verified(target),
                    CheckLineage(<<source.raw.record, target.raw.record>>) = {}
             PROVE  ArchiveOf(source) = ArchiveOf(target)
  BY DEF LineageIsOneArchive
<1> DEFINE first  == source.raw.record
           second == target.raw.record
           chain  == <<first, second>>
<1>1. /\ IsBuilt(first) /\ Covers(first, source.files)
      /\ IsBuilt(second) /\ Covers(second, target.files)
  BY VerifiedIsBuilt DEF Inv, SignedIsGenuine
<1>2. second.sourceArchive = first.sourceArchive
  <2>1. Len(chain) = 2 /\ chain[1] = first /\ chain[2] = second /\ chain # << >>
    OBVIOUS
  <2> HIDE DEF first, second, chain
  <2>2. 2 \in 2..Len(chain)
    BY <2>1
  <2>3. {d \in {chain[i].sourceArchive : i \in 2..Len(chain)} : d # chain[1].sourceArchive} = {}
    BY <2>1 DEF CheckLineage, first, second, chain
  <2> QED BY <2>1, <2>2, <2>3
<1>3. ArchiveDigest(first.artifacts) = ArchiveDigest(second.artifacts)
  BY <1>1, <1>2 DEF IsBuilt
<1>4. /\ DOMAIN ArchiveOf(source) = DOMAIN ArchiveOf(target)
      /\ \A p \in DOMAIN ArchiveOf(source) : ArchiveOf(source)[p] = ArchiveOf(target)[p]
  <2> DEFINE entries == ArchiveDigest(first.artifacts)
  <2>1. /\ DOMAIN ArchiveOf(source) = {e.path : e \in entries}
        /\ \A e \in entries : ArchiveOf(source)[e.path] = e.sha256
    BY <1>1, ArchiveIsRecorded
  <2>2. /\ DOMAIN ArchiveOf(target) = {e.path : e \in entries}
        /\ \A e \in entries : ArchiveOf(target)[e.path] = e.sha256
    <3>1. /\ DOMAIN ArchiveOf(target) = {e.path : e \in ArchiveDigest(second.artifacts)}
          /\ \A e \in ArchiveDigest(second.artifacts) : ArchiveOf(target)[e.path] = e.sha256
      BY <1>1, ArchiveIsRecorded
    <3> HIDE DEF first, second
    <3> QED BY <1>3, <3>1
  <2> HIDE DEF entries
  <2> QED BY <2>1, <2>2
<1>5. /\ ArchiveOf(source) = [p \in DOMAIN ArchiveOf(source) |-> ArchiveOf(source)[p]]
      /\ ArchiveOf(target) = [p \in DOMAIN ArchiveOf(target) |-> ArchiveOf(target)[p]]
  BY DEF ArchiveOf
<1> QED BY <1>4, <1>5

\* A regrade's record that verifies, of files that nobody changed between the
\* verifier's end and the last read of them, carries the reward that the verifier
\* it covers gives the archive it covers, whatever crashed, hung, was run again or
\* was changed before or after (aee_bind/regrade.py, regrade).
THEOREM VerifiedGradesAreReal == Spec => []VerifiedGradeIsReal
<1> SUFFICES Inv => VerifiedGradeIsReal
  BY Invariance, PTL
<1> DEFINE record == target.raw.record
<1> SUFFICES ASSUME Inv, Verified(target), record.operation = "regrade", record \notin mixed,
                    Script \in DOMAIN target.files,
                    Text \in DOMAIN Graded(target.files[Script], ArchiveOf(target))
             PROVE  record.reward
                      = TextReward[Graded(target.files[Script], ArchiveOf(target))[Text]]
  BY DEF VerifiedGradeIsReal
<1>1. /\ IsBuilt(record) /\ Covers(record, target.files)
      /\ target.sig.key = Key /\ target.sig.over = target.raw
  BY VerifiedIsBuilt DEF Inv, SignedIsGenuine
<1>2. PICK e \in record.inputs :
        LET given == Writes(e.sha256, RecordAnswers(record)) IN
        Text \in DOMAIN given => record.reward = TextReward[given[Text]]
  BY <1>1 DEF Inv, SignedIsGenuine, GradesItsAnswer
<1>3. e.sha256 = target.files[Script]
  BY <1>1, <1>2 DEF IsBuilt, IsInput, Covers, Covered
<1>4. AnswersOf(ArchiveOf(target)) = RecordAnswers(record)
  <2>1. /\ DOMAIN ArchiveOf(target) = {d.path : d \in ArchiveDigest(record.artifacts)}
        /\ \A d \in ArchiveDigest(record.artifacts) : ArchiveOf(target)[d.path] = d.sha256
    BY <1>1, ArchiveIsRecorded
  <2> QED BY <2>1 DEF AnswersOf, RecordAnswers
<1>5. Graded(target.files[Script], ArchiveOf(target)) = Writes(e.sha256, RecordAnswers(record))
  BY <1>3, <1>4 DEF Graded, AnswersOf
<1> QED BY <1>2, <1>5

\* A record notes nothing of its files but what is not there, where none differs
\* from what it says;
LEMMA UnchangedFiles ==
  ASSUME NEW files, NEW record, IsBuilt(record),
         \A e \in Covered(record) : e.path \in DOMAIN files => files[e.path] = e.sha256
  PROVE  \A n \in ArtifactNotes(files, record) : n.code = "artifact-absent"
<1> DEFINE present == {e \in Covered(record) : e.path \in DOMAIN files}
<1>1. \A e \in Covered(record) : e.length = Size[e.sha256]
  BY DEF IsBuilt, IsArtifact, IsInput, IsEntry, Covered
<1>2. /\ {e \in present : Size[files[e.path]] # e.length} = {}
      /\ {e \in present : files[e.path] # e.sha256} = {}
  BY <1>1
<1>3. ArtifactNotes(files, record)
        = {Note("artifact-absent", e.path, "") : e \in Covered(record) \ present}
            \cup {Note("artifact-length-mismatch", e.path, "") :
                    e \in {f \in present : Size[files[f.path]] # f.length}}
            \cup {Note("artifact-digest-mismatch", e.path, files[e.path]) :
                    e \in {f \in present : files[f.path] # f.sha256}}
  BY DEF ArtifactNotes
<1> HIDE DEF present
<1>4. ASSUME NEW n \in ArtifactNotes(files, record) PROVE n.code = "artifact-absent"
  <2>1. PICK e \in Covered(record) \ present : n = Note("artifact-absent", e.path, "")
    BY <1>2, <1>3
  <2> QED BY <2>1, NoteCode
<1> QED BY <1>4

\* nothing of the digest of its document;
LEMMA UnchangedDocument ==
  ASSUME NEW files, NEW record, NamesOneDocument(record)
  PROVE  /\ \A n \in OutcomeNotes(files, record) : n.code = "graded-outcome-mismatch"
         /\ \A n \in AtifNotes(files, record) : n.code = "atif-trajectory-id-mismatch"
<1>1. \A n \in OutcomeNotes(files, record) : n.code = "graded-outcome-mismatch"
  BY NoteCode DEF OutcomeNotes
<1>2. {d \in {e \in record.artifacts : e.role = "atif_trajectory"} :
         d.sha256 # record.atif.sha256} = {}
  BY DEF NamesOneDocument
<1>3. ASSUME NEW n \in AtifNotes(files, record)
      PROVE  \E about, found : n = Note("atif-trajectory-id-mismatch", about, found)
  BY <1>2, <1>3 DEF AtifNotes
<1> QED BY <1>1, <1>3, NoteCode

\* and, where it is a genuine one, nothing of their contents at all.
LEMMA UnchangedNotes ==
  ASSUME NEW files, NEW record, IsGenuine(record), NamesItsDocument(record),
         \A e \in Covered(record) : e.path \in DOMAIN files => files[e.path] = e.sha256,
         \A e \in Covered(record) : e.path = Json => e.sha256 \notin DOMAIN TextReward
  PROVE  OutcomeNotes(files, record) = {} /\ AtifNotes(files, record) = {}
<1>1. OutcomeNotes(files, record) = {}
  <2> DEFINE p == record.rewardPath
  <2>1. SUFFICES ASSUME p # Null, p \in DOMAIN files, files[p] \in DOMAIN TextReward
                 PROVE  TextReward[files[p]] = record.reward
    BY DEF OutcomeNotes
  <2>2. PICK e \in record.artifacts : e.path = p /\ record.reward = RewardIn(e.path, e.sha256)
    BY <2>1 DEF IsGenuine
  <2>3. files[p] = e.sha256 /\ p # Json
    BY <2>1, <2>2 DEF Covered
  <2>4. p = Text
    BY <2>1, <2>3 DEF IsGenuine, IsBuilt
  <2> QED BY <2>1, <2>2, <2>3, <2>4 DEF RewardIn, NumberIn
<1>2. AtifNotes(files, record) = {}
  <2> DEFINE documents == {e \in record.artifacts : e.role = "atif_trajectory"}
             misnamed  == {e \in documents : /\ e.path \in DOMAIN files
                                             /\ files[e.path] \in DOMAIN Trajectory
                                             /\ Trajectory[files[e.path]].id # record.atif.id}
  <2>1. misnamed = {}
    BY DEF NamesItsDocument, Covered
  <2>2. {d \in documents : d.sha256 # record.atif.sha256} = {}
    BY DEF NamesItsDocument
  <2>3. AtifNotes(files, record)
          = IF ~record.atif.present THEN {}
            ELSE {Note("atif-document-digest-mismatch", e.path, "") :
                    e \in {d \in documents : d.sha256 # record.atif.sha256}}
                   \cup {Note("atif-trajectory-id-mismatch", e.path, Trajectory[files[e.path]].id) :
                           e \in misnamed}
    BY DEF AtifNotes
  <2> HIDE DEF documents, misnamed
  <2> QED BY <2>1, <2>2, <2>3
<1> QED BY <1>1, <1>2

\* The profile and the dependencies only make a verdict inconclusive.
LEMMA ProfileCodes ==
  ASSUME NEW record, NEW n \in ProfileNotes(record) \cup DependencyNotes(record)
  PROVE  n.code \in Inconclusive
<1>1. CASE n \in ProfileNotes(record)
  <2>1. PICK role : n = Note("required-role-absent", role, "")
    BY <1>1 DEF ProfileNotes
  <2> QED BY <2>1, NoteCode DEF Inconclusive
<1>2. CASE n \in DependencyNotes(record)
  <2> DEFINE refs == IF record.uncovered = {} THEN {""} ELSE record.uncovered
  <2>1. \/ DependencyNotes(record) = {}
        \/ DependencyNotes(record) = {Note("dependencies-incomplete", ref, "") : ref \in refs}
    BY DEF DependencyNotes
  <2> HIDE DEF refs
  <2>2. PICK ref : n = Note("dependencies-incomplete", ref, "")
    BY <1>2, <2>1
  <2> QED BY <2>2, NoteCode DEF Inconclusive
<1> QED BY <1>1, <1>2

\* What verify makes of a record signed as it stands is what it notes of the
\* files, of what they say, and of the profile.
LEMMA SignedOutcome ==
  ASSUME NEW files, NEW raw, NEW sig, raw.form = "canonical", sig = SignBytes(Key, raw),
         raw.record.signer = Key, NEW notes,
         notes = ArtifactNotes(files, raw.record) \cup ProfileNotes(raw.record)
                   \cup DependencyNotes(raw.record) \cup OutcomeNotes(files, raw.record)
                   \cup AtifNotes(files, raw.record)
  PROVE  /\ Verify(files, raw, sig, Key).verdict = Verdict(notes)
         /\ Verify(files, raw, sig, Key).notes = notes
<1> DEFINE record == raw.record
           all == EncodingNotes(raw) \cup SignerNotes(raw, sig, Key)
                    \cup ArtifactNotes(files, record) \cup ProfileNotes(record)
                    \cup DependencyNotes(record) \cup OutcomeNotes(files, record)
                    \cup AtifNotes(files, record)
<1>1. EncodingNotes(raw) = {}
  BY DEF EncodingNotes
<1>2. SignerNotes(raw, sig, Key) = {}
  BY DEF SignerNotes, VerifyBytes
<1>3. all = notes
  BY <1>1, <1>2
<1>4. sig.form # "absent"
  BY DEF SignBytes, Sig
<1>5. Verify(files, raw, sig, Key) = Outcome(Verdict(all), all)
  BY <1>4 DEF Verify
<1> HIDE DEF all
<1> QED BY <1>3, <1>5 DEF Outcome

\* A verdict of "failed" needs a byte that differs (aee_bind/verify.py,
\* check_artifacts and check_outcome): a file that is gone makes it inconclusive.
\* A record of files that changed while collect_facts read them (manifest.py) may
\* be one of two contents, and fails by what these say and by nothing else.
THEOREM AbsenceNeverFails == Spec => []AbsenceIsNotFailure
<1> SUFFICES Inv => AbsenceIsNotFailure
  BY Invariance, PTL
<1>1. ASSUME NEW dir, NEW named, Trusted(dir, named), named,
             dir.raw.form = "canonical", VerifyBytes(Key, dir.raw, dir.sig),
             \A e \in Covered(dir.raw.record) : e.path = Json => e.sha256 \notin DOMAIN TextReward,
             \A e \in Covered(dir.raw.record) :
               e.path \in DOMAIN dir.files => dir.files[e.path] = e.sha256
      PROVE  \/ Answers(dir).verdict \in {"verified", "not-established"}
             \/ /\ dir.raw.record \in mixed
                /\ Codes(Answers(dir).notes) \ Inconclusive
                     \subseteq {"graded-outcome-mismatch", "atif-trajectory-id-mismatch"}
  <2> DEFINE record == dir.raw.record
             files  == dir.files
             said   == OutcomeNotes(files, record) \cup AtifNotes(files, record)
             notes  == ArtifactNotes(files, record) \cup ProfileNotes(record)
                         \cup DependencyNotes(record) \cup OutcomeNotes(files, record)
                         \cup AtifNotes(files, record)
  <2>1. dir.sig = SignBytes(Key, dir.raw)
    BY <1>1 DEF VerifyBytes
  <2>2. /\ IsBuilt(record) /\ NamesOneDocument(record)
        /\ record \notin mixed => IsGenuine(record) /\ NamesItsDocument(record)
    BY <1>1, <2>1 DEF Trusted, SignBytes, Sig
  <2>3. Answers(dir).verdict = Verdict(notes) /\ Answers(dir).notes = notes
    BY <1>1, <2>1, <2>2, SignedOutcome DEF Answers, IsBuilt
  <2>4. \A n \in ArtifactNotes(files, record) : n.code = "artifact-absent"
    BY <1>1, <2>2, UnchangedFiles
  <2>5. \A n \in ProfileNotes(record) \cup DependencyNotes(record) : n.code \in Inconclusive
    BY ProfileCodes
  <2>6. \A n \in notes : n.code \in Inconclusive \/ n \in said
    BY <2>4, <2>5 DEF Inconclusive
  <2>7. CASE record \notin mixed
    <3>1. said = {}
      BY <1>1, <2>2, <2>7, UnchangedNotes
    <3>2. Codes(notes) \ Inconclusive = {}
      BY <2>6, <3>1 DEF Codes
    <3> HIDE DEF notes
    <3> QED BY <2>3, <3>2 DEF Verdict
  <2>8. CASE record \in mixed
    <3>1. \A n \in said :
            n.code \in {"graded-outcome-mismatch", "atif-trajectory-id-mismatch"}
      BY <2>2, UnchangedDocument
    <3>2. Codes(notes) \ Inconclusive
            \subseteq {"graded-outcome-mismatch", "atif-trajectory-id-mismatch"}
      BY <2>6, <3>1 DEF Codes
    <3> HIDE DEF notes
    <3> QED BY <2>3, <2>8, <3>2
  <2> QED BY <2>7, <2>8
<1>2. SUFFICES ASSUME Inv, NEW dir \in {source, target}, member.case # "CaseAtif"
               PROVE  \E named : Trusted(dir, named) /\ named
  BY <1>1 DEF AbsenceIsNotFailure
<1> QED BY <1>2 DEF Inv, SignedIsGenuine

\* One file of an archive has one role.
LEMMA RoleOfPath ==
  ASSUME NEW d, NEW e, IsArtifact(d), IsArtifact(e), d.path = e.path,
         d.role \in ArchiveRole, e.role \in ArchiveRole
  PROVE  d.role = e.role
<1>1. \A f \in {d, e} :
        \/ f.role = "trial_result" /\ f.path = "result.json"
        \/ f.role = "trial_lock" /\ f.path = "lock.json"
        \/ f.role = "atif_trajectory" /\ f.path \in AgentFiles
        \/ f.role = "collected_artifact" /\ f.path \in CollectedFile
  BY DEF IsArtifact, ArchiveRole, Fixed
<1>2. /\ AgentFiles \cap CollectedFile = {}
      /\ (AgentFiles \cup CollectedFile) \cap {"result.json", "lock.json"} = {}
  <2>1. "result.json" \in {Fixed[role] : role \in DOMAIN Fixed}
        /\ "lock.json" \in {Fixed[role] : role \in DOMAIN Fixed}
    BY DEF Fixed
  <2> QED BY <2>1, PathAssumption DEF AgentFiles
<1> QED BY <1>1, <1>2

\* Directories with one archive have records with one.
LEMMA OneArchiveIsOneRecord ==
  ASSUME NEW before, NEW after,
         IsBuilt(before.raw.record), Covers(before.raw.record, before.files),
         IsBuilt(after.raw.record), Covers(after.raw.record, after.files),
         ArchiveOf(before) = ArchiveOf(after)
  PROVE  ArchiveDigest(before.raw.record.artifacts) = ArchiveDigest(after.raw.record.artifacts)
<1> DEFINE first  == ArchiveDigest(before.raw.record.artifacts)
           second == ArchiveDigest(after.raw.record.artifacts)
           archive == ArchiveOf(before)
<1>1. /\ DOMAIN archive = {e.path : e \in first}
      /\ \A e \in first : archive[e.path] = e.sha256
  BY ArchiveIsRecorded
<1>2. /\ DOMAIN archive = {e.path : e \in second}
      /\ \A e \in second : archive[e.path] = e.sha256
  BY ArchiveIsRecorded
<1>3. \A e \in first \cup second : IsArtifact(e) /\ IsEntry(e) /\ e.role \in ArchiveRole
  BY DEF ArchiveDigest, IsBuilt, IsArtifact
<1> HIDE DEF first, second, archive
<1>4. \A d \in first, e \in second : d.path = e.path => d = e
  <2>1. TAKE d \in first, e \in second
  <2>2. HAVE d.path = e.path
  <2>3. d.sha256 = e.sha256
    BY <1>1, <1>2, <2>2
  <2>4. d.role = e.role
    BY <1>3, <2>2, RoleOfPath
  <2> QED BY <1>3, <2>2, <2>3, <2>4 DEF IsEntry
<1>5. \A d \in first : \E e \in second : d.path = e.path
  BY <1>1, <1>2
<1>6. \A e \in second : \E d \in first : d.path = e.path
  BY <1>1, <1>2
<1>7. first = second
  <2>1. \A d \in first : d \in second
    BY <1>4, <1>5
  <2>2. \A e \in second : e \in first
    BY <1>4, <1>6
  <2> QED BY <2>1, <2>2, Zenon
<1> QED BY <1>7 DEF first, second

\* A regrade of a source that is as it was, by a verifier that answers and
\* leaves the archive alone, ends in a record that verifies, to both verifiers,
\* and that continues the source's lineage (aee_bind/regrade.py, regrade).
THEOREM UndisturbedRegradesHaveLineage == Spec => []UndisturbedRegradeHasLineage
<1> SUFFICES Inv => UndisturbedRegradeHasLineage
  BY Invariance, PTL
<1> SUFFICES ASSUME Inv, At("done"), job.still, job.script \in {"strict", "changed"},
                    Verified(source), source.raw.record.operation = "execute",
                    source.raw.record \notin mixed,
                    job.built.sourceRecord = source.raw.record,
                    ArchiveOf(target) = ArchiveOf(source)
             PROVE  /\ Verified(target) /\ GoAnswers(target).verdict = "verified"
                    /\ CheckLineage(<<source.raw.record, target.raw.record>>) = {}
  BY DEF UndisturbedRegradeHasLineage
<1> DEFINE first  == source.raw.record
           second == target.raw.record
<1>1. /\ IsBuilt(first) /\ IsGenuine(first) /\ Covers(first, source.files)
      /\ first.status # "incomplete"
      /\ RequiredRole \subseteq {e.role : e \in Covered(first)}
  BY VerifiedIsBuilt DEF Inv, SignedIsGenuine
<1>2. /\ target.raw = Written(job.built) /\ target.sig = SignBytes(Key, target.raw)
      /\ Covers(job.built, target.files) /\ job.built.operation = "regrade"
      /\ RequiredRole \ {e.role : e \in Covered(job.built)} \subseteq {"atif_trajectory", "reward"}
      /\ job.built.rewardPath = Text
      /\ IsBuilt(job.built) /\ IsGenuine(job.built) /\ NamesItsDocument(job.built)
  BY DEF Inv, TargetIsCovered, CoversTarget, JobIsGenuine, At, Recorded
<1>3. target.raw.form = "canonical" /\ second = job.built
  BY <1>2 DEF Written, Raw
<1>4. ArchiveDigest(first.artifacts) = ArchiveDigest(second.artifacts)
  BY <1>1, <1>2, <1>3, OneArchiveIsOneRecord
<1> HIDE DEF first, second
<1>5. \A e : e.role = "atif_trajectory" => (e \in first.artifacts <=> e \in second.artifacts)
  BY <1>4 DEF ArchiveDigest, ArchiveRole
<1>6. second.status # "incomplete"
  BY <1>1, <1>2, <1>3, <1>5 DEF IsGenuine
<1>7. DependencyNotes(second) = {}
  BY <1>6 DEF DependencyNotes
<1>8. ProfileNotes(second) = {}
  <2>1. \E e \in second.artifacts : e.role = "atif_trajectory"
    <3>1. PICK e \in Covered(first) : e.role = "atif_trajectory"
      BY <1>1 DEF RequiredRole
    <3>2. e \in first.artifacts
      BY <1>1, <3>1 DEF Covered, IsBuilt, IsInput
    <3> QED BY <1>5, <3>1, <3>2
  <2>2. \E e \in second.artifacts : e.role = "reward"
    BY <1>2, <1>3 DEF IsGenuine, Text, Null
  <2>3. RequiredRole \subseteq {e.role : e \in Covered(second)}
    BY <1>2, <1>3, <2>1, <2>2 DEF Covered
  <2> QED BY <2>3 DEF ProfileNotes
<1>9. ArtifactNotes(target.files, second) = {}
  <2>1. \A e \in Covered(second) : e.length = Size[e.sha256]
    BY <1>2, <1>3 DEF IsBuilt, IsArtifact, IsInput, IsEntry, Covered
  <2>2. \A e \in Covered(second) :
          /\ e.path \in DOMAIN target.files /\ target.files[e.path] = e.sha256
          /\ Size[target.files[e.path]] = e.length
    BY <1>2, <1>3, <2>1 DEF Covers
  <2> DEFINE present == {e \in Covered(second) : e.path \in DOMAIN target.files}
  <2>3. /\ Covered(second) \ present = {}
        /\ {e \in present : Size[target.files[e.path]] # e.length} = {}
        /\ {e \in present : target.files[e.path] # e.sha256} = {}
    BY <2>2
  <2> QED BY <2>3 DEF ArtifactNotes
<1>10. OutcomeNotes(target.files, second) = {}
  <2>1. PICK e \in second.artifacts : e.path = Text /\ second.reward = RewardIn(Text, e.sha256)
    BY <1>2, <1>3 DEF IsGenuine, Text, Null
  <2>2. target.files[Text] = e.sha256
    BY <1>2, <1>3, <2>1 DEF Covers, Covered
  <2> QED BY <1>2, <1>3, <2>1, <2>2 DEF OutcomeNotes, RewardIn, NumberIn
<1>11. AtifNotes(target.files, second) = {}
  <2> DEFINE documents == {e \in second.artifacts : e.role = "atif_trajectory"}
  <2>1. \A e \in documents : /\ e.sha256 = second.atif.sha256
                             /\ target.files[e.path] = e.sha256
                             /\ Trajectory[e.sha256].id = second.atif.id
    BY <1>2, <1>3 DEF NamesItsDocument, Covers, Covered
  <2> QED BY <2>1 DEF AtifNotes
<1>12. Answers(target).verdict = "verified"
  <2> DEFINE notes == ArtifactNotes(target.files, second) \cup ProfileNotes(second)
                        \cup DependencyNotes(second) \cup OutcomeNotes(target.files, second)
                        \cup AtifNotes(target.files, second)
  <2>1. Answers(target).verdict = Verdict(notes)
    BY <1>2, <1>3, SignedOutcome DEF Answers, IsBuilt, second
  <2>2. notes = {}
    BY <1>7, <1>8, <1>9, <1>10, <1>11
  <2> HIDE DEF notes
  <2> QED BY <2>1, <2>2 DEF Verdict, Codes
<1>13. GoAnswers(target).verdict = "verified"
  <2>1. target.sig.form # "absent"
    BY <1>2 DEF SignBytes, Sig
  <2> QED BY <1>3, <1>12, <2>1, VerifiersSayTheSame DEF Answers, GoAnswers
<1>14. CheckLineage(<<first, second>>) = {}
  <2> DEFINE chain == <<first, second>>
  <2>1. /\ Len(chain) = 2 /\ DOMAIN chain = {1, 2} /\ chain # << >>
        /\ chain[1] = first /\ chain[2] = second
    OBVIOUS
  <2>2. /\ second.sourceArchive = first.sourceArchive /\ second.sourceRecord = first
        /\ first.operation = "execute" /\ second.operation = "regrade"
    BY <1>1, <1>2, <1>3, <1>4 DEF IsBuilt, first
  <2> HIDE DEF chain
  <2>3. \A i \in 2..Len(chain) : i = 2
    BY <2>1
  <2>4. {chain[i].sourceArchive : i \in 2..Len(chain)} \ {chain[1].sourceArchive} = {}
    BY <2>1, <2>2, <2>3
  <2>5. {j \in 2..Len(chain) : chain[j].sourceRecord # chain[j - 1]} = {}
    BY <2>1, <2>2, <2>3
  <2>6. {j \in DOMAIN chain :
           chain[j].operation # IF j = 1 THEN "execute" ELSE "regrade"} = {}
    BY <2>1, <2>2
  <2>7. CheckLineage(chain) = {}
    BY <2>1, <2>4, <2>5, <2>6 DEF CheckLineage
  <2> QED BY <2>7 DEF chain
<1> QED BY <1>12, <1>13, <1>14 DEF Verified, first, second

=============================================================================
