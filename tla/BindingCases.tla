---------------------------- MODULE BindingCases ----------------------------
(***************************************************************************)
(* The synthetic trial, the two demonstration verifiers, and the eight     *)
(* cases of the artifact-binding corpus as its generator makes them.       *)
(***************************************************************************)
EXTENDS BindingJudge

Script == "binding/grading-inputs/test.sh"
Answer == "artifacts/logs/artifacts/answer.txt"
AgentDocument == "agent/trajectory.json"
FixtureAgentFile == <<AgentDocument>>
FixtureCollected == {Answer}

\* build_trial
Trial(document) ==
  ("result.json"              :> "result")     @@
  ("lock.json"                :> "lock")       @@
  (AgentDocument              :> document)     @@
  (Answer                     :> "answer")     @@
  ("artifacts/manifest.json"  :> "collection") @@
  (Text                       :> "one")        @@
  ("verifier/test-stdout.txt" :> "checking")   @@
  ("verifier/test-stderr.txt" :> "empty")

\* What trajectory, result and the texts make of the contents a trial can have.
FixtureTrajectory ==
  [ trajectory |-> [id |-> "synthetic", refs |-> {}],
    delegating |-> [id |-> "synthetic", refs |-> {"agent/subagent.json"}],
    renamed    |-> [id |-> "renamed", refs |-> {}] ]

FixtureText == [one |-> "1", zero |-> "0"]
FixtureJson == [json |-> "1"]

\* What a file may be changed into.
FixtureEdited ==
  (Answer :> {"tampered"}) @@ (Text :> {"tampered", "zero"}) @@ (AgentDocument :> {"renamed"})

Content ==
  {"result", "lock", "trajectory", "delegating", "renamed", "answer", "tampered", "collection",
   "agreed", "one", "zero", "json", "checking", "stricter", "empty", "strict", "changed",
   "silent", "structured", "meddler"}

\* Two rewards have one length; no two other contents of one file do.
FixtureSize ==
  [c \in Content |->
     CASE c \in {"one", "zero"}              -> 2
       [] c \in {"answer", "trajectory"}     -> 20
       [] c = "renamed"                      -> 18
       [] c = "agreed"                       -> 23
       [] c \in {"tampered", "delegating"}   -> 29
       [] c \in {"checking", "strict"}       -> 30
       [] c \in {"stricter", "changed"}      -> 45
       [] c = "empty"                        -> 0
       [] c \in {"silent", "structured", "meddler", "json"} -> 60
       [] c \in {"result", "lock", "collection"} -> 50]

\* VERIFIER_STRICT and VERIFIER_CHANGED: the reward each writes for an answer.
\* Of the others, one writes no reward, one writes it as a JSON document, and
\* one writes the answer anew.
Writes(script, answer) ==
  [ strict     |-> File(Text, IF answer \cap {"answer", "tampered", "agreed"} # {}
                             THEN "one" ELSE "zero"),
    changed    |-> File(Text, IF answer = {"agreed"} THEN "one" ELSE "zero"),
    silent     |-> << >>,
    none       |-> << >>,
    structured |-> File(Json, "json"),
    meddler    |-> Over(File(Text, "one"), File(Answer, "agreed")) ][script]

Graded(script, files) == Writes(script, {files[p] : p \in {Answer} \cap DOMAIN files})

\* build_verifier: a directory with a script alone, or none at all.
BuildVerifier(script) == IF script = "none" THEN << >> ELSE File(Script, script)

Key == "test key"

Dir(files, raw, sig) == [files |-> files, raw |-> raw, sig |-> sig]

\* _base and _sign_into, over a trial that is captured first.
SignInto(files, verifier, operation, sourceRecord) ==
  LET record == Build(CollectFacts(files, verifier), operation, sourceRecord, Key)
      raw    == Written(record)
  IN  Dir(Capture(files, verifier), raw, SignBytes(Key, raw))

\* _resign: the record is changed, or only its form, and signed again.
Resign(dir, form, record, key) ==
  Dir(dir.files, Raw(form, record), SignBytes(key, Raw(form, record)))

Intact == SignInto(Trial("trajectory"), BuildVerifier("strict"), "execute", Nothing)

Without(files, p) == [q \in DOMAIN files \ {p} |-> files[q]]

RegradedTrial ==
  Over(File(Text, "zero"), Over(File("verifier/test-stdout.txt", "stricter"), Trial("trajectory")))

\* The case_* functions.
CaseDir ==
  [ CaseIntact    |-> Intact,
    CaseTampered  |-> [Intact EXCEPT !.files = Over(File(Answer, "tampered"), @)],
    CaseMissing   |-> [Intact EXCEPT !.files = Without(@, Text)],
    CaseRegrade   |-> SignInto(RegradedTrial, BuildVerifier("changed"), "regrade",
                               Intact.raw.record),
    CaseWrongSigner  |-> Resign(Intact, "canonical",
                                [Intact.raw.record EXCEPT !.signer = "other key"], "other key"),
    CaseNonCanonical |-> Resign(Intact, "indented", Intact.raw.record, Key),
    CaseIncomplete   |-> SignInto(Trial("delegating"), BuildVerifier("strict"), "execute",
                                  Nothing),
    CaseAtif         |-> Resign(Intact, "canonical",
                                [Intact.raw.record EXCEPT !.atif.sha256 = Null], Key) ]

\* CASES: the verdict and the codes each case is made for.
Expected(verdict, codes) == [verdict |-> verdict, codes |-> codes]

Cases ==
  [ CaseIntact       |-> Expected("verified", {}),
    CaseTampered     |-> Expected("failed", {"artifact-digest-mismatch",
                                             "artifact-length-mismatch"}),
    CaseMissing      |-> Expected("not-established", {"artifact-absent"}),
    CaseRegrade      |-> Expected("verified", {}),
    CaseWrongSigner  |-> Expected("failed", {"signer-key-mismatch"}),
    CaseNonCanonical |-> Expected("failed", {"manifest-encoding-not-canonical"}),
    CaseIncomplete   |-> Expected("not-established", {"dependencies-incomplete"}),
    CaseAtif         |-> Expected("failed", {"atif-document-digest-mismatch"}) ]

Case == DOMAIN Cases

\* observed_messages_digest: of what the verifier notes when the case is made.
ObservedMessages(dir) == Verify(dir.files, dir.raw, dir.sig, Key).notes

\* build: the directory of a case and the entry the corpus's manifest has for it.
Member(case) ==
  LET dir == CaseDir[case] IN
  [ id       |-> VectorId(dir.raw, case),
    case     |-> case,
    trial    |-> dir,
    source   |-> IF case = "CaseRegrade" THEN Intact.raw.record ELSE Nothing,
    expected |-> [ verdict  |-> Cases[case].verdict,
                   codes    |-> Cases[case].codes,
                   messages |-> ObservedMessages(dir) ] ]

----------------------------------------------------------------------------
(* The corpus as made passes the checks that are of no single member *)

Members == {Member(case) : case \in Case}
Counts  == [v \in {"verified", "failed", "not-established"} |-> CountOf(Members, v)]

ASSUME CorpusAssumption ==
  /\ PublishedKeyFindings(Members, Key) = {}
  /\ CorpusFindings(Members, Counts, EntriesOf(Members)) = {}

=============================================================================
