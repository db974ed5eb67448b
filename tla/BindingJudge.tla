---------------------------- MODULE BindingJudge ----------------------------
(***************************************************************************)
(* The second verifier of artifact-binding records, in Go, and the two     *)
(* checkers of the artifact-binding corpus: one replays the cases with the *)
(* Go verifier, the other with the Python one. A member of the corpus is a *)
(* case on disk and the entry the corpus's manifest has for it.            *)
(***************************************************************************)
EXTENDS ArtifactBinding, FiniteSets

----------------------------------------------------------------------------
(* artifactbinding.go: "verify.py restated" *)

\* checkEncoding
GoEncodingNotes(raw) ==
  IF raw.form = "canonical" THEN {} ELSE {Note("manifest-encoding-not-canonical", "", "")}

\* checkSigner, and checkSignature, to which a file that is not there is as
\* good as one that does not verify.
GoSignerNotes(raw, sig, key) ==
  IF raw.record.signer # key THEN {Note("signer-key-mismatch", raw.record.signer, key)}
  ELSE IF sig.form = "absent" \/ ~VerifyBytes(key, raw, sig)
  THEN {Note("signature-invalid", "", "")}
  ELSE {}

\* MUTANT of GoEntryNotes: a file that cannot be read is one of other bytes.
GoEntryNotesUnread(trial, e) ==
  IF e.path \notin DOMAIN trial THEN {Note("artifact-digest-mismatch", e.path, Null)}
  ELSE {Note("artifact-length-mismatch", e.path, "") : l \in {Size[trial[e.path]]} \ {e.length}}
         \cup {Note("artifact-digest-mismatch", e.path, c) : c \in {trial[e.path]} \ {e.sha256}}

\* The body of checkArtifacts' loop.
GoEntryNotes(trial, e) ==
  IF e.path \notin DOMAIN trial THEN {Note("artifact-absent", e.path, "")}
  ELSE {Note("artifact-length-mismatch", e.path, "") : l \in {Size[trial[e.path]]} \ {e.length}}
         \cup {Note("artifact-digest-mismatch", e.path, c) : c \in {trial[e.path]} \ {e.sha256}}

\* checkArtifacts
GoArtifacts(trial, record) ==
  LET entries == record.artifacts \cup record.inputs IN
  [ notes  |-> UNION {GoEntryNotes(trial, e) : e \in entries},
    roles  |-> {e.role : e \in entries},
    absent |-> \E e \in entries : e.path \notin DOMAIN trial ]

\* checkProfile
GoProfileNotes(roles) == {Note("required-role-absent", role, "") : role \in RequiredRole \ roles}

\* checkDependencies
GoDependencyNotes(record) ==
  IF record.status # "incomplete" THEN {}
  ELSE IF record.uncovered = {} THEN {Note("dependencies-incomplete", "", "")}
  ELSE {Note("dependencies-incomplete", ref, "") : ref \in record.uncovered}

\* checkOutcome
GoOutcomeNotes(trial, record) ==
  LET p == record.rewardPath IN
  IF p = Null \/ p \notin DOMAIN trial THEN {}
  ELSE {Note("graded-outcome-mismatch", p, actual) :
          actual \in {NumberIn(TextReward, trial[p])} \ {Null, record.reward}}

\* checkATIF
GoAtifNotes(trial, record) ==
  LET covered == {e \in record.artifacts : e.role = "atif_trajectory" /\ record.atif.present}
      read    == {e \in covered : e.path \in DOMAIN trial /\ trial[e.path] \in DOMAIN Trajectory}
      misread == {e \in read : Trajectory[trial[e.path]].id # record.atif.id}
  IN  {Note("atif-document-digest-mismatch", e.path, "") :
         e \in {d \in covered : d.sha256 # record.atif.sha256}}
        \cup {Note("atif-trajectory-id-mismatch", e.path, Trajectory[trial[e.path]].id) :
                e \in misread}

\* verify
GoVerify(trial, raw, sig, key) ==
  IF raw.form \in {"absent", "torn"}
  THEN Outcome("failed", {Note("manifest-unparseable", "", "")})
  ELSE LET record     == raw.record
           files      == GoArtifacts(trial, record)
           missing    == GoProfileNotes(files.roles)
           incomplete == GoDependencyNotes(record)
           notes      == GoEncodingNotes(raw) \cup GoSignerNotes(raw, sig, key)
                           \cup files.notes \cup missing \cup incomplete
                           \cup GoOutcomeNotes(trial, record) \cup GoAtifNotes(trial, record)
       IN  Outcome(IF ~(Codes(notes) \subseteq Inconclusive) THEN "failed"
                   ELSE IF files.absent \/ missing # {} \/ incomplete # {}
                   THEN "not-established" ELSE "verified",
                   notes)

----------------------------------------------------------------------------
(* The checks of a member *)

\* vector_id: over the bytes of the record and the name of the case.
VectorId(raw, case) == <<raw, case>>

\* What both checkers find of a verifier's answer: nothing beyond the verdict
\* when that is not the one expected.
Findings(m, outcome) ==
  IF outcome.verdict # m.expected.verdict THEN {"verdict"}
  ELSE {"not emitted" : c \in m.expected.codes \ Codes(outcome.notes)}
         \cup {"not declared" : c \in Codes(outcome.notes) \ m.expected.codes}

Unidentified(m) ==
  {"identifier" : i \in {VectorId(m.trial.raw, m.case)} \ {m.id}}

\* checkLineage and check_lineage_member, of the member that is a regrade: it
\* derives from the record beside it, over one archive, to another reward.
LineageFindings(m) ==
  LET record == m.trial.raw.record
      parent == m.source
  IN  IF m.expected.verdict # "verified" \/ parent = Nothing THEN {}
      ELSE IF record = Nothing THEN {"not an object"}
      ELSE {"source record" : d \in {record.sourceRecord} \ {parent}}
             \cup {"source archive" : d \in {record.sourceArchive} \ {parent.sourceArchive}}
             \cup {"same reward" : r \in {record.reward} \cap {parent.reward}}

\* judgeMember
GoJudge(m, key) ==
  IF m.trial.raw.form = "absent" THEN {"missing"}
  ELSE Unidentified(m) \cup LineageFindings(m)
         \cup Findings(m, GoVerify(m.trial.files, m.trial.raw, m.trial.sig, key))

\* MUTANT of CheckMember: the messages are not compared.
CheckMemberByCode(m, key) ==
  IF m.trial.raw.form = "absent" THEN {"missing"}
  ELSE Unidentified(m) \cup LineageFindings(m)
         \cup Findings(m, Verify(m.trial.files, m.trial.raw, m.trial.sig, key))

\* check_member_identity, check_member and check_lineage_member. What was noted,
\* of which files, must be what was noted when the corpus was made.
CheckMember(m, key) ==
  LET outcome == Verify(m.trial.files, m.trial.raw, m.trial.sig, key) IN
  IF m.trial.raw.form = "absent" THEN {"missing"}
  ELSE Unidentified(m) \cup LineageFindings(m) \cup Findings(m, outcome)
         \cup (IF outcome.verdict # m.expected.verdict THEN {}
               ELSE {"messages" : n \in {outcome.notes} \ {m.expected.messages}})

----------------------------------------------------------------------------
(* The checks of the corpus as a whole *)

\* checkPublishedKey and check_published_key
PublishedKeyFindings(members, key) ==
  LET plain == {m \in members : m.expected.verdict = "verified" /\ m.source = Nothing} IN
  IF plain = {} THEN {"no plain verified member"}
  ELSE {"published key" : s \in {m.trial.raw.record.signer : m \in plain} \ {key}}

CountOf(members, verdict) == Cardinality({m \in members : m.expected.verdict = verdict})

EntriesOf(members) == {<<m.id, m.case, m.expected>> : m \in members}

\* checkCorpus, and the end of check_vectors.py's main. The counts and the
\* digest are those of the corpus's manifest.
CorpusFindings(members, counts, digest) ==
  {"no member expects it" :
     v \in {"verified", "not-established"} \ {m.expected.verdict : m \in members}}
    \cup {"counts" : v \in {w \in DOMAIN counts : counts[w] # CountOf(members, w)}}
    \cup {"corpus digest" : d \in {digest} \ {EntriesOf(members)}}

=============================================================================
