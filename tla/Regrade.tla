------------------------------ MODULE Regrade ------------------------------
(***************************************************************************)
(* aee-bind at work on two directories. A source holds a trial and its     *)
(* record; "regrade" verifies it, copies its archive into a target, runs a *)
(* verifier there and writes a second record; "build" may bind the source  *)
(* anew meanwhile. Either may die between any two of its steps and be run  *)
(* again, verifiers may hang, and the files may be changed by anybody at   *)
(* any moment. The source starts as a case of the corpus.                  *)
(***************************************************************************)
EXTENDS BindingCases

CONSTANTS
  Start,        \* the cases the source starts as
  Verifier,     \* the scripts a trial may be graded by
  Edited,       \* Edited[p]: the contents the file p may be changed into
  MaxJobs,      \* bound on the commands that are run
  MaxEdits      \* bound on the changes

ASSUME BoundAssumption == MaxJobs \in Nat /\ MaxEdits \in Nat
ASSUME StartAssumption == Start \subseteq Case

\* The verifiers are those of BindingCases, and grade what they can find: the
\* answer is collected, and the texts they write are numbers.
ASSUME VerifierAssumption ==
  /\ Verifier \subseteq {"strict", "changed", "silent", "none", "structured", "meddler"}
  /\ Answer \in CollectedFile
  /\ {"one", "zero"} \subseteq DOMAIN TextReward

\* Captured inputs lie in a directory of their own.
ASSUME CaptureAssumption ==
  Script \notin CollectedFile \cup {AgentFile[i] : i \in DOMAIN AgentFile}

VARIABLES
  member,       \* the member of the corpus the source started as
  source,       \* the source: files, manifest and signature
  target,       \* the target
  job,          \* the regrade under way
  binder,       \* the build of the source under way
  mixed,        \* the records of files that changed while they were read
  jobs,         \* how many commands were run
  edits         \* how many changes were made

vars == <<member, source, target, job, binder, mixed, jobs, edits>>

\* still: nobody has changed the directory since it was graded, or, by a build,
\* read first; even: nor had anybody when it was read last.
Idle == [pc |-> "idle", script |-> Null, todo |-> << >>, facts |-> NoFacts, built |-> Nothing,
         still |-> TRUE, even |-> TRUE]

Init ==
  /\ member \in {Member(case) : case \in Start}
  /\ source = member.trial
  /\ target = Dir(<< >>, NoManifest, NoSignature)
  /\ job = Idle /\ binder = Idle /\ mixed = {}
  /\ jobs = 0 /\ edits = 0

----------------------------------------------------------------------------
(* Writing a record: each file is emptied when it is opened *)

Store(pc, dir, record) ==
  CASE pc = "open"   -> [dir EXCEPT !.raw = TornManifest]
    [] pc = "write"  -> [dir EXCEPT !.raw = Written(record)]
    [] pc = "reopen" -> [dir EXCEPT !.sig = TornSignature]
    [] pc = "sign"   -> [dir EXCEPT !.sig = SignBytes(Key, Written(record))]

Storing == [open |-> "write", write |-> "reopen", reopen |-> "sign", sign |-> "done"]

----------------------------------------------------------------------------
(* collect_facts, of a directory that may change from one read to the next *)

Collecting == [digest |-> "atif", atif |-> "capture", capture |-> "cover", cover |-> "name"]

\* A trajectory that is none by now, and a capture that is gone, raise.
Gone(pc, files, facts, verifier) ==
  \/ pc = "atif" /\ \E e \in facts.entries :
       /\ e.role = "atif_trajectory"
       /\ ~(e.path \in DOMAIN files /\ files[e.path] \in DOMAIN Trajectory)
  \/ pc = "cover" /\ ~(DOMAIN verifier \subseteq DOMAIN files)

Collected(pc, files, facts, verifier) ==
  CASE pc = "digest"  -> [facts EXCEPT !.entries = RunArtifacts(files, facts.graded.path)]
    [] pc = "atif"    -> [facts EXCEPT !.atif = AtifFacts(files, facts.entries)]
    [] pc = "capture" -> facts
    [] pc = "cover"   -> [facts EXCEPT !.inputs = GradingInputs(files, verifier)]

Captured(pc, files, verifier) == IF pc = "capture" THEN Capture(files, verifier) ELSE files

----------------------------------------------------------------------------
(* regrade *)

At(pc) == job.pc = pc
Goto(pc) == job' = [job EXCEPT !.pc = pc]
End == job' = Idle
Elsewhere == UNCHANGED <<member, source, binder, mixed, jobs, edits>>

Begin(script) ==
  /\ At("idle") /\ jobs < MaxJobs
  /\ job' = [Idle EXCEPT !.pc = "verify", !.script = script]
  /\ jobs' = jobs + 1
  /\ UNCHANGED <<member, source, target, binder, mixed, edits>>

VerifySource ==
  /\ At("verify")
  /\ IF Verify(source.files, source.raw, source.sig, Key).verdict = "verified"
     THEN Goto("read") ELSE End
  /\ UNCHANGED target /\ Elsewhere

\* The archive's files, in the order of its entries.
ArchiveOrder == <<AgentDocument, Answer, "lock.json", "result.json">>

\* read_record: the manifest is read again.
ReadRecord ==
  /\ At("read")
  /\ IF source.raw.form = "torn" THEN End
     ELSE LET listed == {e.path : e \in ArchiveDigest(source.raw.record.artifacts)} IN
          job' = [job EXCEPT !.pc = "stage",
                             !.todo = SelectSeq(ArchiveOrder, LAMBDA p : p \in listed)]
  /\ UNCHANGED target /\ Elsewhere

\* stage_archive: one file after the other; one that is gone is passed over.
Stage ==
  LET p == Head(job.todo) IN
  /\ At("stage") /\ job.todo # << >>
  /\ target' = [target EXCEPT !.files =
       IF p \in DOMAIN source.files THEN Over(File(p, source.files[p]), @) ELSE @]
  /\ job' = [job EXCEPT !.todo = Tail(@)]
  /\ Elsewhere

\* run_verifier: a directory that has no script is refused.
Staged ==
  /\ At("stage") /\ job.todo = << >>
  /\ IF Script \in DOMAIN BuildVerifier(job.script) THEN Goto("run") ELSE End
  /\ UNCHANGED target /\ Elsewhere

VerifierWrites ==
  /\ At("run")
  /\ target' = [target EXCEPT !.files = Over(Graded(job.script, @), @)]
  /\ Goto("ran")
  /\ Elsewhere

\* MUTANT of VerifierEnds: the streams of an earlier grading are left.
VerifierEndsQuietly ==
  /\ At("ran")
  /\ UNCHANGED target
  /\ Goto("reward")
  /\ Elsewhere

\* Whatever the script returned, its two streams are saved.
VerifierEnds ==
  /\ At("ran")
  /\ target' = [target EXCEPT !.files =
       Over(File("verifier/test-stdout.txt",
                 IF job.script = "strict" THEN "checking" ELSE "stricter"),
            Over(File("verifier/test-stderr.txt", "empty"), @))]
  /\ Goto("reward")
  /\ Elsewhere

\* A verifier that hangs is stopped, and the command with it.
TimeOut ==
  /\ job.pc \in {"run", "ran"}
  /\ End
  /\ UNCHANGED target /\ Elsewhere

\* The reward is read, of a directory that is a trial's,
ReadFacts ==
  /\ At("reward")
  /\ IF "result.json" \notin DOMAIN target.files THEN End
     ELSE job' = [job EXCEPT !.pc = "digest", !.facts.graded = ReadReward(target.files)]
  /\ UNCHANGED target /\ Elsewhere

\* and then the files, the verifier's captured among them.
Collect ==
  LET verifier == BuildVerifier(job.script) IN
  /\ job.pc \in DOMAIN Collecting
  /\ IF Gone(job.pc, target.files, job.facts, verifier) THEN End
     ELSE job' = [job EXCEPT !.pc = Collecting[@], !.even = job.still,
            !.facts = Collected(job.pc, target.files, @, verifier)]
  /\ target' = [target EXCEPT !.files = Captured(job.pc, @, verifier)]
  /\ Elsewhere

\* manifest_digest and build: the source's record is read once more.
NameSource ==
  /\ At("name")
  /\ IF source.raw.form = "torn" THEN End /\ UNCHANGED mixed
     ELSE LET record == Build(job.facts, "regrade", source.raw.record, Key) IN
          /\ job' = [job EXCEPT !.pc = "open", !.facts = NoFacts, !.built = record]
          /\ mixed' = IF job.even THEN mixed ELSE mixed \cup {record}
  /\ UNCHANGED <<member, source, target, binder, jobs, edits>>

StoreRecord ==
  /\ job.pc \in DOMAIN Storing
  /\ target' = Store(job.pc, target, job.built)
  /\ Goto(Storing[job.pc])
  /\ Elsewhere

Return ==
  /\ At("done")
  /\ End
  /\ UNCHANGED target /\ Elsewhere

Crash ==
  /\ ~At("idle")
  /\ End
  /\ UNCHANGED target /\ Elsewhere

----------------------------------------------------------------------------
(* build, of the source *)

Bind(script) ==
  /\ binder.pc = "idle" /\ jobs < MaxJobs
  /\ "result.json" \in DOMAIN source.files
  /\ binder' = [Idle EXCEPT !.pc = "digest", !.script = script,
                            !.facts.graded = ReadReward(source.files)]
  /\ jobs' = jobs + 1
  /\ UNCHANGED <<member, source, target, job, mixed, edits>>

CollectSource ==
  LET verifier == BuildVerifier(binder.script) IN
  /\ binder.pc \in {"digest", "atif", "capture"}
  /\ binder' = IF Gone(binder.pc, source.files, binder.facts, verifier) THEN Idle
               ELSE [binder EXCEPT !.pc = Collecting[@],
                       !.facts = Collected(binder.pc, source.files, @, verifier)]
  /\ source' = [source EXCEPT !.files = Captured(binder.pc, @, verifier)]
  /\ UNCHANGED <<member, target, job, mixed, jobs, edits>>

BuildBinding ==
  LET verifier == BuildVerifier(binder.script)
      record   == Build(Collected("cover", source.files, binder.facts, verifier),
                        "execute", Nothing, Key)
  IN  /\ binder.pc = "cover"
      /\ IF Gone("cover", source.files, binder.facts, verifier)
         THEN binder' = Idle /\ UNCHANGED mixed
         ELSE /\ binder' = [Idle EXCEPT !.pc = "open", !.built = record]
              /\ mixed' = IF binder.still THEN mixed ELSE mixed \cup {record}
      /\ UNCHANGED <<member, source, target, job, jobs, edits>>

StoreBinding ==
  /\ binder.pc \in DOMAIN Storing
  /\ source' = Store(binder.pc, source, binder.built)
  /\ binder' = IF binder.pc = "sign" THEN Idle ELSE [binder EXCEPT !.pc = Storing[@]]
  /\ UNCHANGED <<member, target, job, mixed, jobs, edits>>

BinderCrash ==
  /\ binder.pc # "idle"
  /\ binder' = Idle
  /\ UNCHANGED <<member, source, target, job, mixed, jobs, edits>>

----------------------------------------------------------------------------
(* Whoever can write to the directories *)

Watched == {"ran", "reward", "done"} \cup DOMAIN Collecting
             \cup {Collecting[pc] : pc \in DOMAIN Collecting} \cup DOMAIN Storing

Change(files, p) ==
  {Over(File(p, c), files) : c \in Edited[p]} \cup {Without(files, q) : q \in {p} \cap DOMAIN files}

EditSource ==
  /\ edits < MaxEdits
  /\ \E p \in DOMAIN Edited : \E files \in Change(source.files, p) :
       source' = [source EXCEPT !.files = files]
  /\ binder' = [binder EXCEPT !.still = @ /\ binder.pc \notin DOMAIN Collecting]
  /\ edits' = edits + 1
  /\ UNCHANGED <<member, target, job, mixed, jobs>>

EditTarget ==
  /\ edits < MaxEdits
  /\ \E p \in DOMAIN Edited : \E files \in Change(target.files, p) :
       target' = [target EXCEPT !.files = files]
  /\ job' = [job EXCEPT !.still = @ /\ job.pc \notin Watched]
  /\ edits' = edits + 1
  /\ UNCHANGED <<member, source, binder, mixed, jobs>>

----------------------------------------------------------------------------
Step ==
  \/ VerifySource \/ ReadRecord \/ Stage \/ Staged \/ VerifierWrites \/ VerifierEnds
  \/ TimeOut \/ ReadFacts \/ Collect \/ NameSource \/ StoreRecord \/ Return

Next ==
  \/ \E script \in Verifier : Begin(script) \/ Bind(script)
  \/ Step \/ CollectSource \/ BuildBinding \/ StoreBinding
  \/ Crash \/ BinderCrash
  \/ EditSource \/ EditTarget

Spec == Init /\ [][Next]_vars

----------------------------------------------------------------------------
(* Properties *)

Verdicts == {"verified", "failed", "not-established", "raised"}

Answers(dir)   == Verify(dir.files, dir.raw, dir.sig, Key)
GoAnswers(dir) == GoVerify(dir.files, dir.raw, dir.sig, Key)
Verified(dir)  == Answers(dir).verdict = "verified"

ArchiveOf(dir) ==
  LET paths == {e.path : e \in ArchiveDigest(dir.raw.record.artifacts)} IN
  [p \in paths \cap DOMAIN dir.files |-> dir.files[p]]

\* A regrade's record that verifies carries the reward that the verifier it
\* names gives the archive it names, whatever crashed, hung, was run again in
\* the same target, or was changed in either directory before the verifier wrote
\* or after the record was built. It is about verifiers that write their reward
\* as a text.
VerifiedGradeIsReal ==
  /\ Verified(target) /\ target.raw.record.operation = "regrade"
  /\ target.raw.record \notin mixed
  => \A script \in {target.files[p] : p \in {Script} \cap DOMAIN target.files} :
       LET given == Graded(script, ArchiveOf(target)) IN
       Text \in DOMAIN given => target.raw.record.reward = TextReward[given[Text]]

\* Two records that verify and make a chain were made of one archive, whoever
\* changed it in between.
LineageIsOneArchive ==
  /\ Verified(target) /\ Verified(source)
  /\ CheckLineage(<<source.raw.record, target.raw.record>>) = {}
  => ArchiveOf(source) = ArchiveOf(target)

\* A regrade into a directory with nothing else of an archive, whose source is
\* as it was, whose target nobody touches and whose verifier leaves the archive
\* alone, makes a record that verifies when the verifier has answered, and a
\* chain with the source's.
UndisturbedRegradeHasLineage ==
  /\ At("done") /\ job.still /\ job.script \in {"strict", "changed"}
  /\ Verified(source) /\ source.raw.record.operation = "execute"
  /\ source.raw.record \notin mixed
  /\ job.built.sourceRecord = source.raw.record
  /\ ArchiveOf(target) = ArchiveOf(source)
  => /\ Verified(target) /\ GoAnswers(target).verdict = "verified"
     /\ CheckLineage(<<source.raw.record, target.raw.record>>) = {}

\* A file that is gone is not one that contradicts the record: a verdict of
\* "failed" needs a byte that differs, or a record that was built while its files
\* changed, and then is for one of the two contents that were read twice. (Or a
\* reward.json that is a bare number: read_reward finds no reward in it, and
\* check_outcome reads it as a text.)
AbsenceIsNotFailure ==
  \A dir \in {source, target} :
    /\ dir.raw.form = "canonical" /\ VerifyBytes(Key, dir.raw, dir.sig)
    /\ member.case # "CaseAtif"
    /\ \A e \in Covered(dir.raw.record) : e.path = Json => e.sha256 \notin DOMAIN TextReward
    /\ \A e \in Covered(dir.raw.record) :
         e.path \in DOMAIN dir.files => dir.files[e.path] = e.sha256
    => \/ Answers(dir).verdict \in {"verified", "not-established"}
       \/ /\ dir.raw.record \in mixed
          /\ Codes(Answers(dir).notes) \ Inconclusive
               \subseteq {"graded-outcome-mismatch", "atif-trajectory-id-mismatch"}

\* The two verifiers give one verdict for one set of reasons, of whatever a
\* crash or a change leaves, provided that both files of the record are there.
VerifiersAgree ==
  \A dir \in {source, target} :
    dir.raw.form # "absent" /\ dir.sig.form # "absent" => Answers(dir) = GoAnswers(dir)

\* The corpus is what it says: its checkers find nothing in a case as made, and
\* check_vectors.py finds any change of the files a record covers.
CorpusIsWhatItSays ==
  LET made  == member.trial
      found == [member EXCEPT !.trial = source]
      same  == \A e \in Covered(made.raw.record) :
                 {source.files[p] : p \in {e.path} \cap DOMAIN source.files}
                   = {made.files[p] : p \in {e.path} \cap DOMAIN made.files}
  IN  source.raw = made.raw /\ source.sig = made.sig =>
        /\ (CheckMember(found, Key) = {}) = same
        /\ same => GoJudge(found, Key) = {}

\* artifact-binding/v1, 8: verification_inputs "describe the verifier that
\* actually ran", and the profile's reward is the one the grading produced.
RewardIsOfTheVerifier ==
  At("done") /\ Verified(target) =>
    LET given == Graded(job.script, ArchiveOf(target)) IN
    target.raw.record.rewardPath \in DOMAIN given \cup {Null}

=============================================================================
