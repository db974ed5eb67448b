# Formal verification of agent-evidence-vectors

TLA+ models of the program in `src/`, checked with TLC on small instances, with
theorems checked by TLAPS for every value of the constants.

The repository defines the *agent execution evidence* (AEE) predicate: a
statement that an agent was attacked with a corpus of attacks in a run, and what
came of each attack. It ships a Go verifier of such statements, a second one in
Python, a corpus of test vectors with the generators that make it, and the
tooling that keeps verifiers, corpus and specification in step. A statement is
assembled by an untrusted *producer*; some of what it says is observed and signed
by a *substrate* (the environment the agent runs in); a *consumer* decides from
the statement and its own keys whether to rely on it.

## 1. Inventory

### Verification core — `aee/`  (modelled)

- **State.** `Verify` and `VerifyForEmit` (`verify.go`) share `Evaluate`, which
  builds a context: the decoded predicate, then a `sealed` bit set by the last
  check. Later functions (`DeriveTiers`, `CheckRecordSignatures`) accept only a
  sealed context.
- **Operations.** Parse; GATE 0 (`statement.go`: every member present, well
  formed, coverage partitions the corpus manifest); GATE 1 (`validity.go`,
  `commitments.go`: the observation records, the rows they cover, and what the
  records commit the rows to); the recompute of the result (`recompute.go`);
  the per-row tier (`tier.go`); admission under a consumer's policy
  (`verify.go`).
- **Hard.** Every check depends on checks made before it (nil dereferences,
  "unreachable" branches). The commitment rules relate a row to records, records
  to each other, and records to the run that signed them; they hold *together*
  against a producer that omits, reorders, relabels or borrows records.
- **Correct when.** A carried interception forces `fail`; no declared attack goes
  unreported; a `pass` rests on substrate records of this run; a producer's own
  check predicts the consumer's admission; an admitted pass means that nothing was
  intercepted in the run, that it kept its vantage and its posture, and that it
  lost no more observations than its own seal allows, whoever made the statement.

### Substrate, producer and consumer  (external, modelled)

The parties of the format. `aeetest/build.go` builds what an honest producer and
substrate make; `verify.go`'s policy is the consumer. A substrate arms, observes,
and seals a run; runs interleave; a vantage goes down, a posture drifts,
observations are dropped.

### Liveness probe — `scripts/liveness-probe.py`  (modelled)

Of each assessed class of a statement, the best of five states that a row, the
records it resolves and the seals that are carried show: unprobed, not
demonstrated, unverified, unsealed, demonstrated. It reads statements the gates
may never have seen. Correct when what it calls demonstrated was intercepted.

### Reference rail and harness — `packaging/run_vectors.py`  (modelled)

- **State.** The rows of a manifest, the scores so far, the failures of the suite
  as a whole, the report, the exit status; for an external rail, two calls per
  vector, each with a timeout.
- **Operations.** The reference verifier (every rule of the core, written again),
  its self-test, `run_suite`: enumerate the vectors of the manifest, ask the rail twice (with the pinned
  key and without), score against the expectation, judge the indeterminate
  family as a whole, hold the manifest to the files on disk, report, exit.
- **Hard.** Two implementations of one set of rules; verifiers that hang, crash,
  print nothing or garbage; a tree that lost a kind, a file or a row.
- **Correct when.** The rails agree on what they read alike; exit status 0 is
  given for a whole corpus of answers and for nothing less.

### Vector generators and corpora — `vectors/*/gen_*.py`, `vectors/gen_manifest.py`  (modelled)

- **State.** Authored tables in the generators; one flat directory of statements,
  named by digest, that two generators write; an index and a baseline per
  generator; `MANIFEST.json`.
- **Operations.** The accept generator builds honest statements and checks them
  with a self-verifier of its own; the reject generator takes parents from the
  disk, mutates one member, rebinds, re-signs and re-roots as far as the mutation
  calls for, and checks that nothing else broke; the manifest joins the indexes.
- **Hard.** Files are written one by one in place, by three programs that read
  each other's output; a generator refuses or dies halfway.
- **Correct when.** Each vector fails for its own reason and no other; the tree
  the gates pass is one derivation from the tables.

### Repository gates — `scripts/*-gate.py`  (partly modelled)

The regenerability gate (generate elsewhere and compare), the accept-anchor gate
(each refused condition is anchored in an accepted vector, with a ratchet), the
observed-code closure (the rail emits what the corpus declares), the consumer-lag
gate (copies of the corpus in other repositories follow it). The rest compare
prose, words and names in files. The consumer-lag gate runs in a pre-push hook
and on pull requests, against a default branch that moves; correct when no copy
is ever two corpora behind and nobody is locked out.

### Spec pins and vendoring — `scripts/vendor-spec.py`, `scripts/specpins.py`  (partly modelled)

The vendored specification, its recorded digest, citations in two spellings, and
a ledger per spelling of the text each citation addresses. Re-vendoring writes
the new text, remaps line numbers and has each ledger rewritten by the gate that
judges it. Correct when a citation keeps its text or somebody is asked.

### Forcing campaign gate — `scripts/forcing-gate.py`, `scripts/_lockfile.py`  (modelled)

- **State.** A recorded baseline (one row per mutation site: KILLED, SILENT, DEAD
  or INCONCLUSIVE; annotations beside the rows), the corpus on disk, a lock file,
  worker trees.
- **Operations.** Take the lock or refuse; load the baseline; fingerprint the
  corpus; measure the unmutated rail; measure each mutant with a timeout;
  fingerprint again; compare with the baseline (the ratchet) or, with `--sync`,
  write a new one.
- **Hard.** Concurrent gates, a working tree that changes under a campaign of
  minutes, edits of the baseline between its load and its rewrite, crashes.
- **Correct when.** One campaign at a time; a passing check means the recorded
  sites are forced on the corpus that was fingerprinted; no KILLED row is lost
  silently; a campaign ends.

### Witness attestor — `witnessattestor/aee.go`  (modelled)

- **State.** `predicateRaw`, `subjectName`, `subjectDigest`, `refusalErr`.
- **Operations.** `Attest` (locate the evidence among the products, read it, run
  the gates, set the fields or record a refusal), `MarshalJSON`, `Subjects`.
- **Hard.** The product is digested and the file read again; the framework still
  serializes and signs an attestor that has refused.
- **Correct when.** What is signed is what a consumer admits.

### Artifact binding — `tools/artifact-binding/`, `corpora/artifactbinding.go`  (modelled)

- **State.** A trial directory: its files, a record of their digests, a signature.
- **Operations.** `build`, `verify` (verified, failed or not established),
  `regrade` (verify a source, stage its archive, run a verifier, write record and
  signature), `lineage`; a second verifier in Go and two checkers of a corpus.
- **Hard.** A regrade dies between its writes and runs again; source and target
  change under it; two implementations of the verdict.
- **Correct when.** A verified regrade carries the reward its verifier gives; the
  verdicts agree; absence is not contradiction.

### Not modelled

Mutant generator and runner (`cmd/mutgen`, `cmd/mutrun`), anchor stream
(`vectors-anchor-stream/run_verifier.py`), corpus judges (`corpora/*.go` but for
artifact binding), the byte layer (canonical JSON, SHA-256, Merkle tree, PAE),
and the batch mode of `cmd/aee-verify`: see section 6.

### How they interact

```
 substrate --records--> producer --statement--> Verify (aee) --report--> consumer
                            |                      ^   ^                   |
                            +--> VerifyForEmit ----+   |            liveness probe
                                    |                  |
                          witnessattestor (signs)      | aee-verify (Go rail)
                                                       |
 tables --gen_valid--> statements/ --gen_invalid--> statements/ --gen_manifest--> MANIFEST
                            |                                        |
             regenerability and accept-anchor gates      run_vectors (reference rail,
                                                         external rails) --> exit status
 forcing-gate --lock--> one campaign --mutgen/mutrun--> mutated rail over vectors/
              \--load/rewrite--> baseline
 developers --push, merge (consumer-lag gate)--> default branch --vendor--> rails' copies
 upstream --vendor-spec--> specification --citation and anchor gates--> ledgers
 trial --aee-bind build--> record --regrade--> target record --lineage
```

## 2. Plan

| order | modules | what | state |
|---|---|---|---|
| 1 | `AeeStatement`, `AeeGate0`, `AeeGate1`, `AeeResult` | the rules, as operators | done |
| 2 | `AeeVerify`, `MCAeeStatements`, `MCAeeVerify` | one caller, every edit of honest statements | done |
| 3 | `AeeRecords`, `AeeRun`, `AeeProducer`, `AeeContract`, `MCAeeRun` | runs, producer, consumer; the contract they implement | done |
| 4 | `AeeResult_proofs`, `AeeVerify_proofs`, `AeeRun_proofs` | the theorems of section 5 | done |
| 5 | `SingleInstance`, `LockFile`, `ForcingCampaign` and their proofs | the lock, the campaign on top of it, the ratchet | done |
| 6 | `ReferenceRail`, `AeeRails`, `RailSelfTest` | the second rail, and the two over the same statements | done |
| 7 | `VectorBuilder`, `AcceptVectors`, `RejectVectors`, `CarriedVectors`, `GeneratorChecks` | the corpus, vector by vector, and the checks it is written under | done |
| 8 | `VectorReplay`, `VectorSuite`, `MCVectorSuite` | the harness over the corpus and over faulty trees and rails | done |
| 9 | `ArtifactBinding`, `BindingJudge`, `BindingCases`, `Regrade` | records, both verifiers, regrades that die | done |
| 10 | `WitnessAttestor` | the attestor in the witness lifecycle | done |
| 11 | `CorpusPipeline`, `CorpusPublication`, `SpecPins` | generation, publication, re-vendoring | done |
| 12 | `AeeLiveness` | the probe over the statements of the runs | done |
| 13 | the publication's part of `Corpus_proofs`, the theorems of `WitnessAttestor`, more of those of 4 and 5 | section 5 | done |
| 14 | `Regrade_proofs` | the theorems of artifact binding | done |
| 15 | more of `AeeRun_proofs` | no honest run is refused | done |
| 16 | `RailsAgree` of `AeeVerify_proofs`, `VectorSuite_proofs` | the theorems of 6 and 8 | done |
| 17 | the pipeline's part of `Corpus_proofs` | the theorems of making the corpus | done |
| 18 | the spec pins' part of `Gates_proofs` | no citation walks off its text | done |

What the corpus contains is a computation and stays with TLC.

## 3. How the code is modelled

### Abstractions shared by the modules

- A **statement** is a record of decoded members (`AeeStatement`). A digest is
  its preimage or one of `missing`, `mistyped`, `none` (no sha256 entry),
  `noncanonical`; equality of digests is equality of preimages. A batch root is
  the sequence of its leaves, and a leaf is payload plus payload type. This takes
  SHA-256, the Merkle tree and canonical JSON as injective.
- **Codes are sets.** The Go code returns ordered lists whose head is the primary
  code; the order and the primary code are not modelled, but for the one pair a
  vector's reading turns on (`PrimaryCode` of `VectorReplay`).
- A payload member is a set with at most one value where the code tells absent
  from present, and a record with a `form` where it tells absent from malformed.
- Record **signatures** are the set of keys that verify.
- **Policies** are the consumer's keys and its two optional anchors.

Where a set operator follows, `(UNION S)` and `(SUBSET S)` are written with
parentheses: TLC and the proof system read `UNION S \cup T` differently.

### Modules

| module | models | code |
|---|---|---|
| `AeeStatement` | shape of statements, shared readings of them, `RunBinding` | `types.go`, `runbinding.go`, `pae.go` |
| `AeeGate0` | `Gate0`: decode codes, environment, vocabulary, corpus, coverage | `statement.go` |
| `AeeGate1` | `Gate1`: record set, payloads, kinds, rows, commitments | `validity.go`, `commitments.go` |
| `AeeResult` | `Recompute`, `RowTier`, `RecordSignaturesOK`, `Verify` | `recompute.go`, `tier.go`, `verify.go` |
| `AeeVerify` | the staged caller: `Start`, `Parse`, `CheckGate0`, `CheckGate1`, `CheckResult`, `Return`, `Finish` | `verify.go` |
| `AeeRecords` | the payloads a substrate signs | `aeetest/build.go` |
| `AeeRun` | runs: `Arm`, `Intercept`, `Examine`, `Disturb`, `Seal`; the producer's `Submit` and the consumer's decision | external but for `Verify` |
| `AeeProducer` | the honest producer's statement of a run | `aeetest/build.go` |
| `AeeContract` | what an admitted pass promises: runs disturbed, over, trusted | abstract |
| `AeeLiveness` | the verdict of each channel of a statement | `liveness-probe.py` |
| `ReferenceRail` | the Python verifier, check by check | `run_vectors.py` |
| `AeeRails` | both rails asked about one statement; where their sources differ | `run_vectors.py`, `aee/` |
| `RailSelfTest` | the statements the Python rail tests itself on | `run_vectors.py` |
| `VectorBuilder` | the builders, mutations and reseals the vectors are made with | `gen_valid_vectors.py`, `gen_invalid_vectors.py` |
| `AcceptVectors`, `RejectVectors`, `CarriedVectors` | all 272 vectors of the committed corpus, each as the statement it is built to be | the same |
| `GeneratorChecks` | what a generator asks of a statement before it writes it | the same |
| `VectorReplay` | manifest, answers of both rails, second-fault self-check, observed-code closure | `gen_manifest.py`, `cmd/aee-verify`, `run_vectors.py`, `observed-code-closure-gate.py` |
| `VectorSuite` | `run_suite` from the manifest to the exit status | `run_vectors.py` |
| `ArtifactBinding` | what `build`, `verify` and `lineage` make of a directory | `tools/artifact-binding/` |
| `BindingJudge`, `BindingCases` | the Go verifier, the checkers, the eight cases of the corpus | `corpora/artifactbinding.go`, its generator |
| `Regrade` | `build` and `regrade` step by step on a source and a target | `regrade.py`, `manifest.py` |
| `WitnessAttestor` | configuration, products, `Attest`, `Subjects`, serialization | `witnessattestor/aee.go` |
| `CorpusPipeline` | three generators as processes over one directory, two gates | `gen_*.py`, `regenerability-gate.py`, `accept-anchor-gate.py` |
| `CorpusPublication` | branches, hook, merges, ledger, rails | `consumer-lag-gate.py`, `.githooks/pre-push`, CI |
| `SpecPins` | re-vendoring, remapping, ledgers and their judgement | `vendor-spec.py`, `specpins.py`, the gates |
| `SingleInstance` | what a lock promises: `Take`, `Refuse`, `Leave` | abstract |
| `LockFile` | one action per system call; `Close` is the finally clause, or the kernel closing the file of a dead process | `_lockfile.py` |
| `ForcingCampaign` | one action per stage of `run`; `gate[g]` holds the local variables of a campaign | `forcing-gate.py` |
| `MC*` | instances for TLC: honest statements and their edits, pools of records, faulty suites, trees, tables, revisions | instances |

**The core and the runs.** `AeeVerify` runs `Evaluate` one stage at a time so
that a stage can be seen to lean on an earlier one (`DefensiveBranchesUnreached`).
`AeeRun` uses `Verify` as a function: what `Evaluate` builds is local to a call. In `AeeRun` the producer may hand in *any* statement of
the constant `Statement` whose substrate-signed records the substrate has signed:
it omits, duplicates, relabels, and borrows records from another run. A run is
identified with its run binding. A substrate may lose observations, and seals a
run with the number it lost and, if it states one, a bound on it (`DropBound`),
which the gates hold the number to (`validity.go:448-453`); what bound is right is
the substrate's to say. `AeeLiveness` reads the same statements.

**The two rails.** `ReferenceRail` is translated from the Python on its own, with
the Python's idea of absence (a key that is there, `None` that compares equal to
`None`), not derived from the Go modules. `ReadAlike` (`AeeRails`) states where
the sources differ in what they read; there the rails may part (section 4), and
everywhere else they may not. Its conditions are differences of decoding, of which
records and rows a rule looks at, and one missing comparison; no rule is decided
differently on what both of them see. TLC finds that the verdicts part when any
one of them is dropped, except `AbsenceIsSeen`, which takes more edits than a run
makes and which the proof of `RailsAgree` asked for.

**The corpus and the harness.** A vector is written as its generator writes it: a
parent, a mutation, a reseal. `VectorSuite` is about any suite: rows, counts,
statements, files and directories; `VectorReplay` supplies the committed one from
the vectors of the four modules and from `GenManifest`. The rail is the reference
rail in process, or a program that is called twice and may give any answer of
`AnswersOf` or none in time. Ids and file names are names; the gate columns and
the wording of reasons are left out.

**Artifact binding.** A directory is a function from paths to contents and a
digest of a content is the content. `Regrade` has one action per write of
`regrade` and `build`, a script that grades what is in the target when it runs,
and death and re-run of a command in the target it left. Files of either
directory are edited at any moment. A record is made of separate reads
(`collect_facts`): the reward, then every covered file for its digest, then the
trajectory for its name, then the captured verifier; the command raises when what
it found is gone by the next read (`Gone`). `mixed` is history: the records built
while a file of theirs changed under those reads. The verifier's own directory
is taken to stay as it is during a regrade. Canonical JSON, keys and times are abstracted. `File` and `Over` are the
operators `:>` and `@@` of the module TLC, which the prover does not know.

**The attestor.** go-witness is external: it records products, calls `Attest`,
serializes and signs what the attestor serializes, even after a refusal.

**Making and publishing the corpus.** In `CorpusPipeline` a generator writes its
files one by one, refuses or dies between or within two writes, while people edit
tables and files or check out another revision. In `CorpusPublication` a tree is
what the consumer-lag gate reads of a revision; developers work on branches, push
through the hook, have requests merged by a three-way merge, pull; rails vendor
the default branch and may go back. Nobody bypasses the hook or types digests
into the ledger, and the revision number the report states is compared as the
number of vectors is. `SpecPins` keeps documents as lines of words, takes the
diff of `difflib` with its tie rule (a recursive function over the stretches of
the two documents, so that it can be reasoned about), and lets a re-vendor crash
anywhere and people commit, reset, edit citations, sync and generate the corpus
again in between. The anchors in generated tables, and the digest of the
specification in the corpus manifest, are what the generators last wrote: both are
old after a re-vendor, and the anchor gate and the drift gate say so.

**The forcing gate.** `ForcingCampaign` takes the lock through the actions of
`SingleInstance`, which `LockFile` is proved to implement. A campaign reads a
working tree that authors edit at any moment (`Edit`), loads a baseline whose
annotations they edit (`Annotate`), and may fail (`Die`) or be killed (`Crash`)
at any stage, also between the truncation and the rewrite of the baseline
(`Truncate`, `Write`), which leaves it torn until an author restores it.

- What a mutant comes to is a constant, `Truth[tree][site]`. `Answer` gives it
  only when all that goes into it was read from one corpus and one rail: the
  unmutated scores (`base`), the unmutated binary (`built`), the worker trees
  (`copied`) and the mutant's own file (`flight`). Otherwise the class is any.
- A replay, and a fingerprint, read the corpus in one step each. A change in the
  middle of one is a change before or after it, or one that the second
  fingerprint refuses, unless it is taken back.
- Corpus and rail are whole values; two of each tell "moved" from "not moved".
- `whole` is history: the last baseline that was not torn.
- Which vectors kill a mutant is left out, so that a drift of the killers alone,
  which fails a check and changes no class, is not seen.

### Fairness and deadlock

- `ForcingCampaign`: `WF_vars(Step(g))` of each gate. A campaign that has the
  lock goes on: every subprocess it starts has a timeout
  (`subprocess.run(..., timeout=)`), after which `TimeOut` or `Die` is its next
  step. No fairness of `Enter`, of crashes or of authors.
- `VectorSuite`: `WF_vars(Step)`, for the same reason: a call of a rail ends with
  an answer or with its timeout, which is an answer of the model (`NoAnswer`).
- Nothing else states fairness: the other modules' properties are safety, and the
  code promises no progress of a caller, a producer, a person or a regrade. The
  lock never waits.

Deadlock is not checked where the system stops: `runs` (runs are sealed for good
and no statement may fit what was signed), `verify_edits` (the attestor signs
once), `vectors` (a run of the harness ends), `regrade` (a bounded number of
commands) and `corpus` (bounded mishaps and edits), and `regrade_stale`,
`probe_seals`, `suite_retired` and `corpus_rows`, which share their modules. It is
checked in `gates` and `spec_pins`.

## 4. Runs

State counts and times are of two workers on a small machine. `verify_edits`,
`gates` and `corpus` each hold two systems that have no state in common and no
property that speaks of both: a behaviour moves one of them and leaves the other as
it is, which is every behaviour of the one and every behaviour of the other.

| run | instance | question | bounds and why they are enough |
|---|---|---|---|
| `verify_edits` | four honest statements (clean, caught, examined, artifact), each member, row, record and payload of each edited in every way the code distinguishes, raw, completed and rebound; every two edits of rows, coverage and records of the caught one; 3 policies, both rails. The single edits as evidence of a step, among other files, under every configuration of the attestor, one change on disk | Does each rule hold, do rules hold together, do the rails agree, is what is signed what a consumer admits? | each rule of the gates is broken by at least one edit; pairs are where one rule stands in for another; two attacks in two classes are the least in which a class can be omitted; one change between two reads is the least that separates them (520,477 states, 80 s) |
| `runs` | one run with two attacks in which anything goes wrong, with up to two losses and a seal that states no bound or a bound of one, or two runs about one attack; records of a pool of both runs and of a key of the producer's own, up to four in a statement; caught rows beside seals of either run | Whatever goes wrong in a run, can a statement hide it? Can records of one run vouch for another? Does the probe see what was not there? | a loss without a bound, one at the bound and one above it are the cases of `validity.go:448-453` a substrate can be in; two runs are the least to borrow from; a statement needs at most four records to be admitted; the constraint `OneAnyOrTwoPlain` keeps losses, drift and examinations to runs that are alone (34,651 states, 2 min) |
| `gates` | two gates, all command lines, two workers, three sites one of which hangs, a recorded row no rail has; the corpus changes once. Three processes at the lock file | Are OK and a rewritten record true, does the ratchet hold, does a campaign end? Is the file a lock, whoever dies when? | two gates are the least that contend; two corpora the least to confuse; a mutant in flight on each side of a change needs two workers; a holder, one that is refused and one that waits to be (405,178 states, 3 min) |
| `vectors` | the committed corpus, 272 vectors, under both rails; a suite of four under rails that answer anything on one vector or on the family, and with each of fourteen faults of manifest or disk | Does every vector fail for its own reason? Is exit status 0 earned? | one erratic vector of each kind shows what a score rests on; a fault at a time shows that each is seen. Over the whole corpus every call answers in time (`InTime`), since one hang is the small suite's question (49,280 states, 4 min) |
| `regrade` | eight cases, four verifiers, two commands, one edit at any moment | What is a verified regrade worth? | two commands are a regrade and what disturbs it, or a re-run in its target; one edit is the least that comes between two reads of a file; the collected answer, the reward and the trajectory are changed or removed (906,818 states, 3 min) |
| `corpus` | two accept vectors, a refusal, an indeterminate vector, 27 tables sound or wrong in one way, two mishaps. Two developers, one rail, two vectors, three edits | Is what the gates pass one derivation? What does a green branch say, and is anybody locked out? | a crash and an edit, or two crashes, is the shortest that leaves two generators' outputs of different tables; two requests that wait for each other's merge are the case at issue, and three edits the least with which the default branch leaves a corpus and comes back to it. The developers are interchangeable: no definition names one (`OneOfTwo`; 1,688,713 states, 3 min) |
| `spec_pins` | seven revisions of two paragraphs, two re-vendors, one crash or edited citation, two citations of one spelling and one of the other | Does a citation keep its text, and what do the gates say meanwhile? | two re-vendors are the least in which a ledger misses one; two of the revisions are there for the two ways in which a re-vendor that only adds lines is refused; an author draws a citation around one line or two (`ShortlyRecited`), which is a line and a passage over a line break (1,102,645 states, 80 s) |
| `rails_rowless`, `regrade_stale`, `probe_seals`, `suite_retired`, `corpus_rows` | the instances above, or parts of them | the divergences below | |

Properties of the core and the rails:

- `DefensiveBranchesUnreached` — the gates' order makes every branch the code
  calls defensive unreachable.
- `CarriedInterceptionForcesFail` — a carried interception forces `fail`.
- `EveryAttackIsAccounted` — a declared attack has exactly one row and no class
  that declares it is excluded; or it has no row, an excluded class declares it by
  name, and the result is at best `degraded`. Whatever the result is, a row too
  many or too few is refused.
- `PassIsWitnessed` — a `pass` has for each attack a clean substrate row covered
  by an arming record and a seal of this run.
- `QACheckPredictsAdmission` — `CheckRecordSignatures` and admission agree.
- `RailsReachOneVerdict` — on what they read alike, two implementations reach one
  verdict, share a code when they refuse, and derive the same tiers when not.

Properties of runs, producers and consumers:

- `PassMeansQuietRun` — a run that is relied on is over, nothing was intercepted in
  it, it kept vantage and posture, and its losses are within the bound it was
  sealed with.
- `CleanRowCarriesTheRun`, `CleanRowWasArmedFor` — what an admitted statement with
  a clean row says about the run.
- `DemonstratedMeansCaught` — a channel the probe calls demonstrated in an
  admitted statement intercepted, in that run, a value planted on it, and some
  run's seal names the attack; `DemonstratedIsSealed`, that it is this run's, is
  refuted below.
- `HonestRunIsAccepted` — the rules refuse no honest run: the converse, without
  which a verifier that refuses everything would satisfy all the others.
- `ImplementsContract` — `AeeRun` refines `AeeContract`.

Properties of the corpus and the harness:

- `GeneratorsWroteTheCorpus` — each generator's own checks find nothing in what
  it wrote. (What involves no run, the tables of the corpus among each other and
  the self-test of the Python rail, is the assumption `CorpusIsClosed`, which TLC
  evaluates before the run.)
- `EveryVectorConforms` — every vector has the expected verdict, code, result and
  tier under both rails, and the Python rail emits what the corpus declares.
- `OneReadingExplainsFamily` — a run that exits 0 has read every member of the
  indeterminate family one way.
- `ExitZeroIsEarned`, `SilenceNeverPasses` — exit status 0 is of passing rows,
  and of a tree whose vectors are the files that lie in no directory named for a
  kind, one for one (that all files are is `FilesAndRowsNameEachOther`, refuted
  below); and a row passes on what the rail itself said.
- `EveryRunEnds` — whatever the rail does with its calls.

Properties of the other components:

- `VerifiedGradeIsReal`, `LineageIsOneArchive`, `UndisturbedRegradeHasLineage` —
  a verified regrade carries what its verifier says of the archive it names,
  unless its files changed while they were read; a chain is about one archive,
  whenever they changed; and a regrade that nothing disturbed verifies and chains.
- `AbsenceIsNotFailure` — "failed" takes a byte that differs, or a record built
  while its files changed, and then only its reward or its trajectory's name.
- `VerifiersAgree`, `CorpusIsWhatItSays` — the verdict, in two languages, and of
  the committed cases.
- `SignedIsAdmitted` — the seam that signs and the seam that verifies agree.
- `GateOkIsOneDerivation`, `RecipeReproduces` — two green gates mean one
  derivation, but for two rows about one statement when one is an accept vector's
  (`OneStatementOneRow`, refuted below); the published recipe gets there. That a
  sync drops no anchored condition is the guard of the one action that writes the
  baseline, and is not stated again.
- `GreenMeansCarried`, `AtMostOneBehind`, `PublishingIsNeverBlocked` — the copies
  follow, behind by one change of the corpus unless the default branch came back
  to an earlier one, and the gate never asks for what cannot be had.
- `InsertionsAreFollowed` — added lines never move a citation off its lines. Unless
  the re-vendor is refused, for one of two reasons that are named, both ledgers
  pass afterwards, and generating the corpus again makes every gate green. Until
  then the drift gate is red if the document changed at all, and the anchor gate
  if an anchor that a table carries moved, and not if none did.
- `RevendorKeepsItsText` — a ledger is written only over text that was looked for.
- `NoStaleLock`, `ImplementsSingleInstance` — open, flock, truncate, write and
  close, with a death anywhere, are a lock that excludes, refuses and never
  queues, and that never outlives its holder.
- `OkMeansForced`, `RecordIsTrue` — the measurement behind a verdict was taken on
  the fingerprinted corpus, and a mutant that did not answer is not called killed.
- `NoSilentLoss` — the ratchet: a rule leaves the record only by a sync told to
  accept its loss, or one whose rail no longer has it.
- `CampaignEnds` — whatever its mutants do, a campaign gives the lock back.

### What the runs found

1. `rails_rowless`: `_check_result_recompute` (`run_vectors.py:2374`) compares
   the result only when there are rows, so that a statement without rows all of
   whose classes are out of scope is valid to the Python rail under any result.
   `README.md:272-274`: the carried result must equal the pure recompute.
2. `regrade_stale`: `regrade.py:116` runs the verifier in the target as it finds
   it; one that writes no reward leaves an earlier regrade's, which is signed as
   its own. `spec/artifact-binding/v1.md:297`: "the reward the grading produced".
3. `probe_seals`: `sealed_attacks` (`liveness-probe.py:195`) reads every carried
   seal whose signature holds, whatever run it is about. A channel is demonstrated
   in an admitted statement whose own seal does not name the attack when a seal of
   another run, unreferenced, names it. The docstring (28-31): "and the run-end
   seal names it".
4. `suite_retired`: `_closure_directories` (`run_vectors.py:4002`) passes over a
   directory named for a kind, so that a vector file in `vectors/reject/` is
   replayed by nothing and the run exits 0. The docstring of `manifest_closure`
   (4086-4098): manifest and files "name each other exactly, in both directions".
5. `corpus_rows`: both gates pass a refusal, or an indeterminate vector, that is
   the bytes of an accept vector. The generator's check of the bytes it has minted
   (`gen_invalid_vectors.py:5865`) knows only the derived vectors, the manifest
   compares the identifiers of rows and files as sets, and one file is shipped
   under two kinds; a refusal needs a declared exception for it, an indeterminate
   vector none. "Two identifiers may not address one statement" (5868-5869);
   "every vector file must have exactly one INDEX row" (`gen_manifest.py:535-536`).

### What the models show besides

No run is spent on these; each was met while a module was written or checked.

The rails part, outside `ReadAlike`, in eleven ways, none reached by the corpus:
(1) the rowless result above; (2) mistyped environment members, or a records
member that is a string, on an artifact-only statement: valid to Python,
`statement-malformed` to Go; (3) likewise a mistyped attribution of an artifact
row; (4) a row with no basis or an unknown one has the tier unattested in Python
and declared in Go; (5) an interception whose payload is not canonical and which
no row references is valid to Python and orphaned to Go; (6) a posture without a
digest, with records without one, is valid to Python and refused by Go; (7) a
catch policy or substrate without sha256 leaves Python without a binding and
enters Go's as the empty string; (8) an unreferenced second arming record of
another posture makes Python add `sealed-record-absent`; (9) of a references
member with one bad entry Python's `_resolved_views` still reads the others, though
its docstring (`run_vectors.py:2104`) says "A malformed refs member resolves
nothing here", so that an artifact row with such a member may be refused by Python
alone; (10) a manifest that cannot be decoded is a fault to Go and read as absent
by Python's `_check_corpus` (1437); (11) without any records, substrate rows that
all fail closed are refused by both, under codes that need not meet: Go says
`records-absent` of the statement, Python of the rows that do not fail closed.
The last three came out of the proof of `RailsAgree`.

- *Core.* An empty `observationRecords` array makes a substrate row report
  `ref-out-of-range` though no record exists (README.md:291-293 says otherwise). The
  comment at `aee.go:258-263` does not hold of artifact-only statements.
- *Probe.* The interception that matched and the attack the seal names may come
  of two interceptions.
- *Harness.* `manifest_index` (`run_vectors.py:2933`) keeps one row per id, so
  that two rows that declare one file fill in for one nobody declared, against
  the docstring at 4086-4098, and the earlier row's kind is in no list, so that it
  may be one no contract scores. The proof of `ExitZeroIsEarned` came upon this and
  upon `suite_retired`. `suiteRefusals` counts differently from the
  failures it sums (3629). The mark of rows of unlisted files (4131) is never
  reached. An unreadable member of the indeterminate family ends in a `KeyError`
  (3618). A row with codes of two stages may be PASS beside a FAIL gate column.
- *Generators.* bad-104 and bad-105 (`gen_invalid_vectors.py:1178`, `1193`)
  reference the seal and not the record the vector appended. `gen_manifest.py` passes over a
  stale reject index.
- *Pipeline.* `compare` of the regenerability gate looks at the working tree, so
  that an untracked generated file passes beside a message about what is
  committed. `accept-anchor-gate.py --sync` exits 0 over other errors; a
  condition dropped on both sides, synced, and cited again passes; a refusal that
  does not parse counts as at distance one. The repair driver compares
  `git status` before and after, which does not see a modified file modified again.
- *Publication.* The repair listed for the consumer-lag gate runs `--sync`
  without `--copy` and always refuses. A resolved conflict may drop a row of the
  ledger with its cell; a copy that goes back stays green, as TODO.md:477 says.
  A request that passed against a corpus the default branch then leaves and comes
  back to is merged onto a branch that looks the same and whose copies are behind
  by more than the request's own change.
- *Spec pins.* A one-line citation of a line that was rewrapped keeps half of its
  text and the sync says every surviving line is covered (`specpins.py:340`). A
  re-vendor that is run again after a crash between the specification and the
  remapping reports it unchanged and exits 0 (`vendor-spec.py:284-287`), with
  nothing remapped; the gates are red. A commit before the second ledger was
  synced leaves that ledger without its before-image for good. A revision that
  only adds lines can be refused: when a line is added inside a cited passage and
  the document quotes the passage in one piece elsewhere, the citation has walked
  off the text as `judge` sees it (`specpins.py:439-481`), though it covers every
  line of it; and when a ledger is about an older revision that had the same
  passages (a re-vendor run again remaps nothing and syncs nothing), since its
  before-image is not the last commit.
- *Attestor.* `Subjects` (`aee.go:176`) returns an empty map when the statement's
  subject has no name. The file is read again after it was digested (221-231), so
  that the product's digest may name other bytes than were checked.
- *Artifact binding.* Without a signature file Python raises and Go answers
  signature-invalid. Neither verifier derives the verifier's or the source
  archive's digest again, and `lineage` verifies no record. The reward is read
  (`manifest.py:252`) before the files are read for their digests (283), and the
  trajectory is parsed after (`atif_facts`): a file that changes in between gives a
  record that is signed, whose every covered byte is as recorded, and which is
  "failed" with `graded-outcome-mismatch` or `atif-trajectory-id-mismatch`; or, if
  the reward was a JSON document, one that verifies with a reward its covered bytes
  contradict. `AbsenceIsNotFailure` says the one, `VerifiedGradeIsReal` leaves
  such records (`mixed`) out. A `reward.json` that
  is a bare number: `read_reward` (`manifest.py:133-149`) finds no reward in it
  and `check_outcome` (`verify.py:176-197`) reads it as a text, so that a record
  is "failed" with nothing edited; `AbsenceIsNotFailure` leaves it out.
- *Forcing gate.* A corpus changed and changed back between the two fingerprints
  passes `refuse_moved_corpus`, against the comment at 1177-1179. A run with
  `--only` prints that every recorded rule is still forced (1217). A site that is
  annotated and has no row yet is skipped by `ratchet_errors` (907) and recorded
  KILLED, against line 1055. A sync writes back the annotations it loaded over
  edits made since, and keeps those of sites that are gone. A process refused
  between the holder's lock and truncate is told the name of an earlier holder.

## 5. Theorems

All are proved for every value of the constants that meets the modules'
assumptions, and TLC evaluates each of these in the runs:

- `StatementAssumption`: statements are decoded (`Decoded`: a member is there,
  absent or mistyped, what is not there is empty, rows and references are lists, a
  computed digest is a digest, a payload is one of three forms with integer
  counters — what `encoding/json` and `parsePredicate` deliver);
  `ContentAssumption` says the same of the contents the attestor reads.
- `AttackAssumption`: the attacks are finitely many, and none of their names is
  the mark of a mistyped member; `SkeletonAssumption`: the statement an honest
  producer fills in is of the run, assesses the attacks of the run, excludes
  nothing, has a label for either outcome, and lacks nothing but rows (GATE 0
  reports nothing of it but `coverage-incomplete`).
- `PolicyAssumption`: the consumer trusts only this substrate's key.
- `DropsAssumption`: the bound on drops is a natural number, and a bound a seal may
  state is an integer (or none: a seal's bound is a set, empty when it states none).
- `PostureAssumption`: a run binding names the posture the substrate starts in.
- `SuiteAssumption`: a manifest has finitely many rows, each of one family at
  most, and a disk finitely many files, each in a directory.
- Artifact binding's: what an agent may write, what the task collects, what is
  captured and the files with a name of their own lie in different places of a
  trial (`PathAssumption`, `CaptureAssumption`); a number is not the absence of
  one (`RewardAssumption`); the verifiers are those of `BindingCases` and write
  numbers, and the answer is collected (`VerifierAssumption`); the source starts
  as a case of the corpus (`StartAssumption`). `CorpusAssumption`, the checks of
  the corpus as a whole, is evaluated and used by no proof.
- The pipeline's: the authored tables map slugs of the three generators to bodies
  of accept statements and to sets of mutations, and a declared exception is a
  number (`SourcesAreTables`); a slug is authored once (`SlugsAreDistinct`: the
  accept vectors are a dict, and `write_reject_vectors` and `main` assert it of the
  others); no statement is what is left of a torn file, and the mutations are
  finitely many (`StatementsParse`). Nothing else is assumed of the tables: parents
  that do not exist, two statements of the same bytes, rows of no vector, invalid
  bodies and second faults are all among them.
- The campaign's: the initial tree and baselines are well formed, `SitesOf` gives
  sites, there is a command line; the publication's: vectors and copies are
  finitely many, and no corpus is the absent stamp. The spec pins': revisions are
  sequences of sequences of words (`DocumentAssumption`), and what is cited to
  begin with are spans of the first (`FirstCitesAssumption`). `EditsGoForward`, that an edit of the working tree leaves the
  rail alone and never goes back to an earlier corpus, is a hypothesis of the two
  theorems that need it and of them only: two fingerprints cannot tell a corpus
  that was changed and changed back (section 4).

- **`AeeVerify_proofs`.** `TypeCorrect`, `DefensiveBranchesAreUnreached`, `CarriedInterceptionsForceFail`,
  `AttacksAreAccounted`, `PassesAreWitnessed`, `QACheckIsAdmission`,
  `RailsAgree`. The
  inductive invariant `IInv` adds to `TypeOK` which gates were silent on the
  call's statement at each stage (`StagesSilent`) and that a report is what the
  function reports (`Reported`): without the first, nothing is known of the
  statement when a later stage runs. The properties then follow from lemmas
  about the operators in `AeeResult_proofs`: `RecomputeIsLeast` (the result is
  the least allowed one), `FailRecomputed`, `PassRecomputed`, what silence of
  each gate says (`Gate0Silent`, `Gate1Silent`, `Gate1SilentSubstrate`), and
  `CarriedInterceptionFails`. Accounting is a matter of counting: the code has
  one test that the classes' sizes add up and one that no row is repeated.
  `CoverageIsChecked` turns them into a partition, in which an attack has one class
  (`AttackHasOneClass`). It is assessed, and then has exactly one row, or it is in
  an excluded class that declares it by name (`AssessedOrExcluded`), and the result
  is at best `degraded` (`ExcludedIsDegraded`); `AttackAccounted` puts these
  together, for a statement of any result. A `pass` has
  no other class, each of its rows is clean and of substrate vantage, and
  `SilentRowIsCovered` finds the arming record and the seal GATE 1 asked for
  (`PassRestsOnSubstrate`). `TiersAreSignatures` is the agreement of the check a
  producer runs with what a consumer admits.
  `RailsAgree` compares two whole verifiers, for any statement. Each check of the
  one rail is set beside the check of the other that has the same rule
  (`EnvironmentShared`, `CoverageShared`, `RowShared`, `SealShared`, ...): where
  one reports something the other reports one of the same codes. The rails do
  not run their checks in one order, and a check may only mean the same where
  earlier faults are absent; so GATE 0 is compared first, and then, on the
  statements `Undisputed` (GATE 0 passes and GATE 1 shares no code with the
  reference rail), each part of GATE 1 is shown silent on both. What is left is
  that silence on one side is silence on the other, one recompute and one tier
  column (`SameRecompute`, `SameTier`, `OneVerdict`). Python's rail counts rows
  and distinct attacks where Go looks for a repeated one (`DuplicateRows`), and
  the code for a row none of whose records covers it is that of the first one it
  refers to (`FirstPosition`).
- **`WitnessAttestor`.** `SignedEvidenceIsAdmitted`, whatever is written to the
  file the attestor reads, and when: what it signs was decoded and checked in one
  read (`CheckedOnly`), and a check passed under the attestor's policy is
  admission under any consumer's with the same keys (`CheckedIsAdmitted`).
- **`AeeRun_proofs`.** `TypeCorrect`, `SealsTell`, `PassesAreQuiet`,
  `CleanRowsCarryTheRun`, `CleanRowsWereArmedFor`, `DemonstratedIsNoPretence`,
  `RunsImplementContract`, `HonestRunsAreAccepted`. The inductive invariant has `SubstrateInv` (everything
  signed under a run's binding is a claim true of the run: an arming record
  declares what was armed, an observation is in the seen set, a seal is the seal
  of a run that is over) and, for each decision and each run relied on, what
  admission established; of losses, that they are within the bound the seal states,
  which is what `validity.go:448-453` compares: a run that lost something may be
  relied on, and the contract's `lost` and `allowed` say so. A sealed run no longer changes (`SealedRunStays`) and
  what a run has seen it has seen (`SeenGrows`), which keeps it. Each action has
  a *Keeps* lemma. `CleanRowTellsTheRun` is the heart: a clean vantage row of an
  admitted statement is covered by a genuine seal of the statement's run. For the
  probe, `BestIsThere` takes a channel's verdict down to one row and record
  (`DemonstratedHasRecords`), GATE 1 binds the record to the statement's run, and
  its signature makes it one the substrate took there (`DemonstratedIsCaught`).
  `RunsImplementContract` maps each step to a step of the contract or a stutter;
  a step that relies on a run is `Trust`, enabled by the same lemmas.
  `HonestRunsAreAccepted` is the converse, for any number of attacks,
  interceptions and examinations. It needs a second invariant, `RecordsInv`: what
  is signed under a run's binding is its arming record, its seal and what it has
  seen, and *nothing else* (`SubstrateInv` says that each is true, which does not
  tell how many there are), and an attack can only be named when something was
  intercepted. Of a run that lost nothing the producer so has all the records, each
  once (`RecordsOfRun`); every one passes the checks of payloads and kinds
  (`HonestRecordReads`, `HonestPayloadCovers`), every row finds the kinds it needs
  (`HonestRowIsCovered`), the seal's observed set and named attacks are those of
  the statement (`HonestCommitments`), and what remains of GATE 0 was silent on the
  producer's skeleton (`SkeletonFrame`).
- **`Gates_proofs`**, about the forcing gate. `TypeCorrect`, `OneCampaign`, `RatchetHolds`, for
  any gates, sites, trees, edits, baselines and command lines. `CampaignInv` says
  that a campaign past its load still knows the rows of the record (they change
  only in `Write`, and `OneHolder` keeps every other campaign out of it) and that
  what is to do, in flight and measured makes up the selection. A sync has
  selected every site, so that each rule it would lose is among the regressed
  ones it was told to accept (`WriteAccounts`); no other step takes a row away
  (`OnlyWriteLoses`). `OkIsForced` and
  `RecordsAreTrue` rest on `CorpusInv`: while edits go forward, what a campaign
  measured was measured on a corpus between its two fingerprints, and equal
  fingerprints leave one corpus between them.
- **`Gates_proofs`**, about the lock file the gates use (`LockFile`, for any
  processes). `LockTypeCorrect`, `LockIsNeverStale`, `InsiderKeepsItsName` (nobody
  overwrites the name of the process that runs under the lock) and
  `LockFileImplements`. The three invariants are inductive together and not alone.
- **`Gates_proofs`**, about the spec pins. `PinnedTextIsNotWalkedAwayFrom` and
  `InsertionsKeepCitations`, for any words, revisions, citations, commits, crashes
  and edits. The first rests on `LedgersAreTrue`: whatever happens in between, the
  pins of a ledger are passages of the revision it names (`SyncedIsWork`), so that
  the last commit, once `committed_spec` has found that revision in it, has the
  text the lines were pinned to; a line of a citation that did not change is on
  it (`LineIsOnItsSpan`, which is about where a line's words begin in the text of
  the whole document: `TextGrows`, `TextIsPrefix`). The second has two halves. That
  a re-vendor is its steps applied to the tree it began on, and that a refused
  ledger stays as it was, is `RunIsFollowed`. That it generates nothing, so that the
  digest in the manifest and the tables are those of the tree it began on, is
  `NothingGenerated`; what the gates say of such a tree is `TablesAsTheyWere` (no
  anchor moved), `OvertakenTables` (one that a table carries did) and, once the
  corpus has been generated again, `RegeneratedIsGreen`. The other half is the algorithm: the
  lines that are not blank have a place each in the new revision, in order
  (`InsertKeeps`); the longest common run of a stretch keeps the places on either
  side of it apart, so that the matching blocks of the stretches before and
  behind it cover the rest (`KeptIsMatched`, by the size of the stretch; every
  block is a common run, `BlocksAreCommon`); the line map is then the place
  (`LineMapFollows`), in order (`LineMapOrders`), no end is snapped (`SnapStays`),
  and no cited line is left behind (`NoLineIsLeftBehind`). What can be refused is
  the passage as a whole, and only if it reads otherwise now and is elsewhere
  (`RefusedForAQuotation`, with `PassageIsText`). The recursive functions exist by
  an argument from the least number for which they would not (`TextsExist`,
  `NumbersExist`, `BlocksExist`). TLC found the claim, which did not know of the
  refusals, to be too strong before it was proved.
- **`Corpus_proofs`**, about the making of the corpus. `BothGatesOneDerivation`,
  `TheRecipeReproduces`, for any tables, slugs, mutations, mishaps
  and hand-made files. The first is not about steps: whatever is on the disk, the
  comparison of the regenerability gate makes it what the tables give
  (`ComparedAll`, `WhatIsRegenerated`), and the rest is about the tables. The
  manifest's rows are the entries of the three of them (`RowsOfTheManifest`), one
  for one (`RowsAreEntries`, `AsManyRowsAsEntries`, by injectivity of the
  identifiers and the kinds being disjoint): one row for each statement, two about
  one statement aside when one of them is an accept vector's, which `corpus_rows`
  shows the gates to pass; a refusal's parent is an accept entry
  and a distance of one leaves the body alone (`DistanceOne`). The second is about
  steps: `RecipeInv` says, of a run in order only (`InOrder`), that the statements
  so far are those of the slugs behind the generator's place in its order, each on
  the disk under its own bytes (`Holding`, `Reached`), and of every number of
  generators done what they left (`Built`). A step that ends a run goes through
  `Ended`, one that goes on through `Stepped`, and one that disturbs the recipe
  through `ResetStep`; each action has its lemma. The accept generator must not
  refuse a set of statements that are all different (`Twice`), the reject generator
  reads its parents where the first has put them (`ParentsRead`, `ParentsStay`), and
  for the manifest generator the disk differs from what regeneration leaves in
  additional files at most (`RefusedForAFile`), which is the one case in which it
  refuses tables that are sound.
- **`Corpus_proofs`**, about its publication. `GreenIsCarried`, `NeverBlocked`,
  `LandsOnWhatIsCarried`, for any developers, rails, vectors and number of edits.
  The invariant says of every ledger in sight, the default branch's and those of
  each clone, that its rows were once read from a stamp (`RowsAreRead`), of every
  tree that was the default branch that its manifest is of its own files, and of
  every open request that its branch was checked against the tree it started from
  (`RequestsAreChecked`). The merge then goes by the cases of `Sides`: who
  changed the ledger, the branch, the default branch, or neither.
- **`VectorSuite_proofs`.** `TypeCorrect`, `SilencePassesNothing`,
  `ExitZeroEarned`, `FamiliesReadOneWay`, for any suites, rails, answers and
  expectations. `run_suite` adds up numbers, so the invariant has to say what no
  failure so far means at each point (`NothingAddedUp`: every row passed; past the
  closure, `ClosureFailures` is empty; past the families, so is
  `CoherenceFailures`), what a run that ended well has been through (`EndedWell`),
  and what a report was written from (`Reported`). A sum of sizes is 0 when the
  sets are empty only if they are finite (`FewClosureFailures`,
  `FewCoherenceFailures`). `FilesAreRows` is the argument behind the manifest
  closure: the base names of the files map into the identifiers, no two files of
  one directory have one name, and the counts agree, so that nothing is left over
  on either side: of the files the closure looks at, which those of a directory named
  for a kind are not (`suite_retired`). `PassedWhat` and `ObservedIsStated` take a pass back to the two
  reports it was given for.
- **`Regrade_proofs`.** `VerifiersAlwaysAgree`, `LineageHoldsOneArchive`,
  `VerifiedGradesAreReal`, `AbsenceNeverFails`, `UndisturbedRegradesHaveLineage`,
  for any files an agent may write or the task collect, any contents, edits and
  commands. A manifest may be torn, edited or of another run, so that nothing
  can be said of what is stored; the invariant speaks of what is *signed*. Under
  the key there is only what `build` has made of some reads of some files
  (`SignedIsGenuine`, `IsBuilt`), the one document aside that the corpus has signed
  to be wrong, and a record that verifies is the record signed (`VerifiedTells`).
  The files may change between any two of those reads. A variable of the model that
  the code does not have, `mixed`, keeps the records collected while they did; the
  others are of one set of files (`IsGenuine`) and carry the trajectory's own name
  (`NamesItsDocument`). For a collection under way, what it has read is of some
  files (`IsRead`), and of the files as they are while none has changed (`Reads`):
  `CollectedIsRead` and `CollectedReads` take both over each read. What can be said
  of a record in `mixed` is little, and is what the code delivers: the archive it
  names is the digest of the entries it covers, so that a chain is still about one
  archive; and when no covered file differs, "failed" can only be for the reward or
  the trajectory's name, which were read apart from the digests. That a signed regrade's reward is of its
  answer (`GradesItsAnswer`) needs facts of a regrade on the way: a verifier was
  captured, and what it wrote is still there and is what it would write of what is
  there now (`HasGraded`), also for a verifier that writes the answer anew, because
  such a one pays no heed to it (`WritesNumbers`); and what was then collected is
  what was graded (`CollectedAsGraded`). `TargetIsCovered` adds what the end of a regrade rests on:
  both streams were saved, and what the record covers is as it says. Two archives
  with the same files have the same entries since one path has one role
  (`RoleOfPath`), which is what `PathAssumption` is for.

Only model-checked: `CampaignEnds` and `EveryRunEnds`, liveness; and
`CorpusIsWhatItSays`, `GeneratorsWroteTheCorpus` and `EveryVectorConforms`,
computations on the cases and vectors there are. Out of the prover's reach in any
case: liveness under fairness and `ENABLED`; the library's induction theorems,
which take an operator (a least counterexample, from the well-foundedness of the
naturals, stands in for them where a recursive function is reasoned about); and
modules with RECURSIVE operators.

## 6. Not modelled, and why

- Bytes: JSON decoding, canonical JSON, SHA-256, PAE and DSSE envelopes are
  injective functions here, which is what their tests and vectors are about.
- The primary code of a report (the order of codes), and the gate columns of the
  harness's report.
- Timestamps beyond their being well formed; the code compares none.
- Of the forcing gate: `--report`, which only reads; the coverage evidence kept
  beside a row; the killers of a row. An edit of the rail under a campaign makes
  its measurement one of two rails; no claim of the code is about that, and
  `EditsGoForward` keeps it out of what `OkMeansForced` and `RecordIsTrue` say.
- Of the attestor: `UnmarshalJSON`, which re-hydrates a stored predicate nobody
  in the repository signs again, and the schema it serves.
- Of the spec pins: which sentence an anchor is aimed at (`aim_report`, which reads the
  specification's sentences for rules and terms), selectors, and how a revision is found in a checkout.
- `cmd/mutgen` and `cmd/mutrun`: rewriting of Go syntax and one replay; to the
  campaign a class per mutant. `cmd/aee-verify`'s batch mode and
  `cmd/ijson-gate-shim`: input and output around `Verify`.
- The anchor stream: an external verifier is run once per vector and its verdicts
  are counted against a recording; the process keeps nothing.
- `corpora/*.go` and the other vector families (`vectors-acs-core`,
  `vectors-scitt-cose`, `vectors-anchor-stream`): a table of field checks per
  format defined elsewhere, with no state across vectors.
- The gates that read prose, count words or compare names, and the repair driver.
