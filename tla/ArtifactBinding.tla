-------------------------- MODULE ArtifactBinding --------------------------
(***************************************************************************)
(* Artifact-binding records: what aee-bind builds from a trial directory,  *)
(* and what it says of a record and a directory. A directory is a function *)
(* from the paths of its files to their contents. A content is a name, and *)
(* its digest is itself; so is the digest of a list of entries, and of a   *)
(* record. Entries are sets: manifest.py sorts them before it writes or    *)
(* hashes them. Timestamps, identifiers and wording are left out.          *)
(***************************************************************************)
EXTENDS Naturals, Sequences, TLC

CONSTANTS
  CollectedFile,    \* paths under artifacts/, its manifest.json aside
  AgentFile,        \* paths of the JSON files an agent may write, in order
  Size,             \* Size[c]: the length of content c
  Trajectory,       \* Trajectory[c]: for a content that is an ATIF document,
                    \* its id and the documents outside of it that it names
  TextReward,       \* TextReward[c]: the number a text is, where it is one
  JsonReward        \* JsonReward[c]: the number a JSON document has as reward

Null == "null"
Nothing == << >>    \* no record

\* A directory of one file, and files written over those of a directory.
File(p, c) == [q \in {p} |-> c]

Over(files, trial) ==
  [p \in DOMAIN files \cup DOMAIN trial |-> IF p \in DOMAIN files THEN files[p] ELSE trial[p]]

\* A number is a number.
ASSUME RewardAssumption == \A c \in DOMAIN TextReward : TextReward[c] # Null

----------------------------------------------------------------------------
(* Facts of a trial directory *)

Fixed ==
  [ trial_result        |-> "result.json",
    trial_lock          |-> "lock.json",
    collection_manifest |-> "artifacts/manifest.json",
    grading_stdout      |-> "verifier/test-stdout.txt",
    grading_stderr      |-> "verifier/test-stderr.txt" ]

\* What is read of a trial lies in directories of its own, agent/, artifacts/
\* and verifier/, and at the top.
ASSUME PathAssumption ==
  LET agent == {AgentFile[i] : i \in DOMAIN AgentFile}
      fixed == {Fixed[role] : role \in DOMAIN Fixed}
  IN  /\ AgentFile \in Seq(STRING)
      /\ agent \cap CollectedFile = {}
      /\ (agent \cup CollectedFile)
           \cap (fixed \cup {"verifier/reward.txt", "verifier/reward.json"}) = {}

RequiredRole ==
  {"atif_trajectory", "trial_result", "verifier_files", "reward",
   "grading_stdout", "grading_stderr"}

\* MUTANT of ArchiveRole: what the task collected is not of the archive.
ArchiveRoleUncollected == {"atif_trajectory", "trial_lock", "trial_result"}

ArchiveRole == {"atif_trajectory", "collected_artifact", "trial_lock", "trial_result"}

\* file_entry
Entry(role, trial, p) ==
  [role |-> role, path |-> p, length |-> Size[trial[p]], sha256 |-> trial[p]]

Text == "verifier/reward.txt"
Json == "verifier/reward.json"

NumberIn(reward, c) == IF c \in DOMAIN reward THEN reward[c] ELSE Null

\* read_reward: the text goes before the JSON document, and a text that is no
\* number is still the file the missing reward was read from.
ReadReward(trial) ==
  IF Text \in DOMAIN trial THEN [reward |-> NumberIn(TextReward, trial[Text]), path |-> Text]
  ELSE IF Json \in DOMAIN trial
  THEN [reward |-> NumberIn(JsonReward, trial[Json]), path |-> Json]
  ELSE [reward |-> Null, path |-> Null]

\* find_atif: the first JSON file of the agent's that is an ATIF document.
FindAtif(trial) ==
  LET found == {i \in DOMAIN AgentFile : /\ AgentFile[i] \in DOMAIN trial
                                         /\ trial[AgentFile[i]] \in DOMAIN Trajectory}
  IN  {AgentFile[i] : i \in {j \in found : \A k \in found : j <= k}}

\* _collect_run_artifacts
RunArtifacts(trial, rewardPath) ==
  {Entry(role, trial, Fixed[role]) : role \in {r \in DOMAIN Fixed : Fixed[r] \in DOMAIN trial}}
    \cup {Entry("reward", trial, p) : p \in ({rewardPath} \ {Null}) \cap DOMAIN trial}
    \cup {Entry("atif_trajectory", trial, p) : p \in FindAtif(trial)}
    \cup {Entry("collected_artifact", trial, p) : p \in CollectedFile \cap DOMAIN trial}

\* atif_facts, which reads the trajectory that was found once more.
AtifFacts(trial, entries) ==
  LET atif == {e \in entries : e.role = "atif_trajectory"} IN
  [ id   |-> IF atif = {} THEN Null ELSE Trajectory[trial[(CHOOSE e \in atif : TRUE).path]].id,
    refs |-> UNION {Trajectory[trial[e.path]].refs : e \in atif} ]

\* _collect_grading_inputs: the verifier's files are copied into the trial and
\* covered where they are then. A verifier is a function from captured paths.
Capture(trial, verifier) == Over(verifier, trial)

GradingInputs(trial, verifier) == {Entry("verifier_files", trial, p) : p \in DOMAIN verifier}

ArchiveDigest(entries) == {e \in entries : e.role \in ArchiveRole}

\* collect_facts: what is read of a trial, a file after the other, is its reward,
\* the entries of what the run left, what the trajectory says, and, once the
\* verifier is captured, the entries of its files.
NoFacts == [graded |-> Nothing, entries |-> {}, atif |-> Nothing, inputs |-> {}]

\* The facts of a trial that stays as it is.
CollectFacts(trial, verifier) ==
  LET graded  == ReadReward(trial)
      entries == RunArtifacts(trial, graded.path)
  IN  [ graded  |-> graded,
        entries |-> entries,
        atif    |-> AtifFacts(trial, entries),
        inputs  |-> GradingInputs(Capture(trial, verifier), verifier) ]

\* build
Build(facts, operation, sourceRecord, key) ==
  LET atif == {e \in facts.entries : e.role = "atif_trajectory"} IN
  [ operation     |-> operation,
    artifacts     |-> facts.entries,
    inputs        |-> facts.inputs,
    sourceRecord  |-> sourceRecord,
    sourceArchive |-> ArchiveDigest(facts.entries),
    uncovered     |-> facts.atif.refs,
    status        |-> IF facts.atif.refs = {} THEN "covered" ELSE "incomplete",
    atif          |-> [ present |-> atif # {},
                        id      |-> facts.atif.id,
                        sha256  |-> IF atif = {} THEN Null ELSE (CHOOSE e \in atif : TRUE).sha256 ],
    reward        |-> facts.graded.reward,
    rewardPath    |-> facts.graded.path,
    signer        |-> key ]

----------------------------------------------------------------------------
(* The two files of a record *)

\* A manifest file: absent, torn by a write that was not finished, or a record
\* in its canonical form or in another.
Raw(form, record) == [form |-> form, record |-> record]
NoManifest   == Raw("absent", Nothing)
TornManifest == Raw("torn", Nothing)

\* write, and sign_bytes: the bytes as stored are what is signed.
Written(record) == Raw("canonical", record)

Sig(form, key, over) == [form |-> form, key |-> key, over |-> over]
NoSignature      == Sig("absent", Null, NoManifest)
TornSignature    == Sig("torn", Null, NoManifest)
SignBytes(key, raw) == Sig("whole", key, raw)

VerifyBytes(key, raw, sig) == sig = SignBytes(key, raw)

----------------------------------------------------------------------------
(* Verification: what is noted is a code, what it is about and what was found *)

Note(code, about, found) == [code |-> code, about |-> about, found |-> found]
Codes(notes) == {n.code : n \in notes}

\* check_encoding
EncodingNotes(raw) ==
  IF raw.form = "canonical" THEN {} ELSE {Note("manifest-encoding-not-canonical", "", "")}

\* check_signer, and the signature when the signer is the one pinned.
SignerNotes(raw, sig, key) ==
  IF raw.record.signer # key THEN {Note("signer-key-mismatch", raw.record.signer, key)}
  ELSE IF ~VerifyBytes(key, raw, sig) THEN {Note("signature-invalid", "", "")}
  ELSE {}

Covered(record) == record.artifacts \cup record.inputs

\* check_artifacts. No record here names a path outside the directory.
ArtifactNotes(trial, record) ==
  LET present == {e \in Covered(record) : e.path \in DOMAIN trial} IN
  {Note("artifact-absent", e.path, "") : e \in Covered(record) \ present}
    \cup {Note("artifact-length-mismatch", e.path, "") :
            e \in {f \in present : Size[trial[f.path]] # f.length}}
    \cup {Note("artifact-digest-mismatch", e.path, trial[e.path]) :
            e \in {f \in present : trial[f.path] # f.sha256}}

\* check_profile
ProfileNotes(record) ==
  {Note("required-role-absent", role, "") :
     role \in RequiredRole \ {e.role : e \in Covered(record)}}

\* check_dependencies
DependencyNotes(record) ==
  IF record.status # "incomplete" THEN {}
  ELSE {Note("dependencies-incomplete", ref, "") :
          ref \in IF record.uncovered = {} THEN {""} ELSE record.uncovered}

\* MUTANT of OutcomeNotes: a reward file that is gone contradicts the record.
OutcomeNotesOfAbsent(trial, record) ==
  LET p == record.rewardPath IN
  IF p = Null \/ (p \in DOMAIN trial /\ NumberIn(TextReward, trial[p]) \in {Null, record.reward})
  THEN {} ELSE {Note("graded-outcome-mismatch", p, "")}

\* check_outcome: only a text that is a number is compared.
OutcomeNotes(trial, record) ==
  LET p == record.rewardPath IN
  IF \/ p = Null \/ p \notin DOMAIN trial
     \/ trial[p] \notin DOMAIN TextReward
     \/ TextReward[trial[p]] = record.reward
  THEN {} ELSE {Note("graded-outcome-mismatch", p, TextReward[trial[p]])}

\* check_atif
AtifNotes(trial, record) ==
  LET documents == {e \in record.artifacts : e.role = "atif_trajectory"}
      misnamed  == {e \in documents : /\ e.path \in DOMAIN trial
                                      /\ trial[e.path] \in DOMAIN Trajectory
                                      /\ Trajectory[trial[e.path]].id # record.atif.id}
  IN  IF ~record.atif.present THEN {}
      ELSE {Note("atif-document-digest-mismatch", e.path, "") :
              e \in {d \in documents : d.sha256 # record.atif.sha256}}
             \cup {Note("atif-trajectory-id-mismatch", e.path, Trajectory[trial[e.path]].id) :
                     e \in misnamed}

Inconclusive == {"artifact-absent", "required-role-absent", "dependencies-incomplete"}

Verdict(notes) ==
  IF Codes(notes) \ Inconclusive # {} THEN "failed"
  ELSE IF notes # {} THEN "not-established" ELSE "verified"

Outcome(verdict, notes) == [verdict |-> verdict, notes |-> notes]

\* verify. It reads both files of the record before it answers: one that is
\* not there raises, and no verdict is reached.
Verify(trial, raw, sig, key) ==
  IF raw.form = "absent" THEN Outcome("raised", {})
  ELSE IF raw.form = "torn"
  THEN Outcome("failed", {Note("manifest-unparseable", "", "")})
  ELSE IF raw.record.signer = key /\ sig.form = "absent" THEN Outcome("raised", {})
  ELSE LET record == raw.record
           notes  == EncodingNotes(raw) \cup SignerNotes(raw, sig, key)
                       \cup ArtifactNotes(trial, record) \cup ProfileNotes(record)
                       \cup DependencyNotes(record) \cup OutcomeNotes(trial, record)
                       \cup AtifNotes(trial, record)
       IN  Outcome(Verdict(notes), notes)

----------------------------------------------------------------------------
(* Lineage *)

\* MUTANT of CheckLineage: the archives are not compared.
CheckLineageByName(chain) ==
  {<<"source", i>> : i \in {j \in 2..Len(chain) : chain[j].sourceRecord # chain[j - 1]}}

\* check_lineage, over records, which are their own digests. Nothing is
\* verified: it goes by what the records say.
CheckLineage(chain) ==
  LET later == 2..Len(chain) IN
  IF chain = << >> THEN {<<"empty", 0>>}
  ELSE {<<"archive", 0>> : d \in {e \in {chain[i].sourceArchive : i \in later} :
                                    e # chain[1].sourceArchive}}
         \cup {<<"source", i>> : i \in {j \in later : chain[j].sourceRecord # chain[j - 1]}}
         \cup {<<"operation", i>> : i \in {j \in DOMAIN chain :
                 chain[j].operation # IF j = 1 THEN "execute" ELSE "regrade"}}

=============================================================================
