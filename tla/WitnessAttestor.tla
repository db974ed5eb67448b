--------------------------- MODULE WitnessAttestor ---------------------------
(***************************************************************************)
(* The go-witness attestor (witnessattestor/aee.go) in a run of the witness *)
(* lifecycle: a product attestor records the digests of the files a step   *)
(* made, this attestor finds the evidence among them, checks it, and what  *)
(* it then holds is signed. Files may change between any two of its reads. *)
(* go-witness is external; it signs what the attestor serializes even when *)
(* the attestor has refused. A file's digest is its content.               *)
(***************************************************************************)
EXTENDS AeeResult_proofs

CONSTANTS
  Path,             \* paths of files, as sequences of names
  Before(_, _),     \* the order sort.Strings puts them in
  Content,          \* what a file may hold
  Directory,        \* the working directories a step may leave
  Configuration,    \* the two options of the attestor
  MaxChanges        \* bound on the changes of files

ASSUME BoundAssumption == MaxChanges \in Nat

\* What decoding leaves of a content, as far as this attestor rewrites it: the
\* two type checks and the first subject.
Readable(content) ==
  LET s == content.statement IN
  /\ s = [m \in DOMAIN s |-> s[m]]
  /\ {"typeOK", "predicateTypeOK", "subject"} \subseteq DOMAIN s
  /\ s.typeOK \in BOOLEAN /\ s.predicateTypeOK \in BOOLEAN
  /\ s.subject = [count |-> s.subject.count, sha256 |-> s.subject.sha256]

ASSUME ContentAssumption ==
  /\ \A c \in Content : Readable(c)
  /\ \A d \in Directory : \A p \in DOMAIN d : Readable(d[p])

VARIABLES
  pc,               \* where the run is
  disk,             \* the files of the working directory
  products,         \* the digests the product attestor recorded
  options,          \* the attestor's configuration
  located,          \* {} or the path of the evidence
  body,             \* {} or what was read of it
  held,             \* {} or the content whose predicate and subject it holds
  signed,           \* what was signed: configuration, evidence and statement
  changes           \* how many changes were made

attestVars == <<pc, disk, products, options, located, body, held, signed, changes>>

----------------------------------------------------------------------------
(* Contents: a statement, and whether its first subject has a name *)

DefaultEvidenceFileName == "aee-evidence.json"

Base(p) == p[Len(p)]

\* strings.HasSuffix on a path-component boundary, or equality.
EndsIn(p, want) ==
  Len(want) <= Len(p) /\ SubSeq(p, Len(p) - Len(want) + 1, Len(p)) = want

\* matchConfiguredEvidence: one match is the evidence, more are refused.
Matches(want) == {p \in DOMAIN products : EndsIn(p, want)}

MatchConfiguredEvidence(want) ==
  {p \in Matches(want) : Matches(want) = {p}}

\* locateEvidence: {} when it refuses.
LocateEvidence ==
  LET named == {p \in DOMAIN products : Base(p) = DefaultEvidenceFileName} IN
  IF options.evidencePath # {}
  THEN UNION {MatchConfiguredEvidence(want) : want \in options.evidencePath}
  ELSE {p \in named : \A q \in named : p = q \/ Before(p, q)}

\* producerQACheck: the key file may be unreadable or hold no key.
ProducerQACheck(s) ==
  \A key \in options.substrateKey : key # "no key" /\ RecordSignaturesOK(s, {key})

\* The checks of the content attest was given, in their order: each refuses.
Refused(content) ==
  LET s == content.statement IN
  \/ ~s.parses \/ ~s.predicateTypeOK
  \/ EvaluateCodes(s) # {}
  \/ ~ProducerQACheck(s)
  \/ s.subject.count # 1 \/ EmptyDigest(s.subject.sha256)

\* MarshalJSON and Subjects: the predicate as it was read, about the subject by
\* its name and its sha256 digest; without a name it is about none.
Serialized(content) ==
  [content.statement EXCEPT
     !.typeOK = TRUE, !.predicateTypeOK = TRUE,
     !.subject = IF content.named THEN [count |-> 1, sha256 |-> @.sha256]
                 ELSE [count |-> 0, sha256 |-> "none"]]

----------------------------------------------------------------------------
(* A run *)

\* New, before the step has run.
AttestInit ==
  /\ pc = "step" /\ options \in Configuration
  /\ disk \in Directory /\ products = << >>
  /\ located = {} /\ body = {} /\ held = {}
  /\ signed = {} /\ changes = 0

\* The product attestor, which is external, records every file.
RecordProducts ==
  /\ pc = "step"
  /\ products' = disk /\ pc' = "locate"
  /\ UNCHANGED <<disk, options, located, body, held, signed, changes>>

\* attest returns an error: nothing was assigned.
Refuse == pc' = "sign" /\ UNCHANGED <<located, body, held>>

Quiet == UNCHANGED <<disk, products, options, signed, changes>>

Locate ==
  /\ pc = "locate"
  /\ IF LocateEvidence = {} THEN Refuse
     ELSE located' = LocateEvidence /\ pc' = "hash" /\ UNCHANGED <<body, held>>
  /\ Quiet

\* CalculateDigestSetFromFile reads the file once,
HashEvidence ==
  /\ pc = "hash"
  /\ IF \E p \in located : p \in DOMAIN disk /\ disk[p] = products[p]
     THEN pc' = "read" /\ UNCHANGED <<located, body, held>> ELSE Refuse
  /\ Quiet

\* and os.ReadFile again.
ReadEvidence ==
  /\ pc = "read"
  /\ IF located \subseteq DOMAIN disk
     THEN body' = {disk[p] : p \in located} /\ pc' = "gate" /\ UNCHANGED <<located, held>>
     ELSE Refuse
  /\ Quiet

\* MUTANT of CheckEvidence: the predicate is kept before the checks.
CheckKeepsFirst ==
  /\ pc = "gate"
  /\ held' = body /\ pc' = "sign"
  /\ UNCHANGED <<located, body>>
  /\ Quiet

\* The rest of attest: a content that passes every check is kept.
CheckEvidence ==
  /\ pc = "gate"
  /\ IF \E content \in body : Refused(content) THEN Refuse
     ELSE held' = body /\ pc' = "sign" /\ UNCHANGED <<located, body>>
  /\ Quiet

\* go-witness asks for the serialized predicate whether or not Attest refused;
\* MarshalJSON has none to give when it did.
Sign ==
  /\ pc = "sign"
  /\ signed' = signed \cup {[options |-> options, evidence |-> c, statement |-> Serialized(c)] : c \in held}
  /\ pc' = "over"
  /\ UNCHANGED <<disk, products, options, located, body, held, changes>>

\* Anybody who can write to the working directory.
Change ==
  /\ changes < MaxChanges
  /\ \E p \in Path :
       \/ \E c \in Content : disk' = [q \in DOMAIN disk \cup {p} |-> IF q = p THEN c ELSE disk[q]]
       \/ disk' = [q \in DOMAIN disk \ {p} |-> disk[q]]
  /\ changes' = changes + 1
  /\ UNCHANGED <<pc, products, options, located, body, held, signed>>

AttestNext ==
  \/ RecordProducts \/ Locate \/ HashEvidence \/ ReadEvidence \/ CheckEvidence \/ Sign
  \/ Change

AttestSpec == AttestInit /\ [][AttestNext]_attestVars

----------------------------------------------------------------------------
(* Properties *)

\* Whatever changed on disk between its reads, what is signed is a statement a
\* consumer finds valid, with the result of the evidence, under any policy; and
\* with a substrate key configured, one that consumer admits that trusts the
\* key. So the seam that signs and the seam that verifies agree, across the new
\* subject the statement is given. It is about evidence that names its subject.
SignedIsAdmitted ==
  \A e \in signed : e.evidence.named =>
    /\ EvaluateCodes(e.statement) = {}
    /\ Recompute(e.statement) = e.evidence.statement.result
    /\ \A key \in e.options.substrateKey :
         Verify(e.statement, [keys |-> {key}, expectedCorpus |-> "none",
                              expectedSubstrate |-> "none"]).admitted

----------------------------------------------------------------------------
(* Theorem: what is signed, a consumer admits *)

\* Evidence the checks let pass is about its subject as this attestor states it:
\* the statement it makes says of every member what the evidence says.
LEMMA StatementIsEvidence ==
  ASSUME NEW c, Readable(c), c.named, ~Refused(c)
  PROVE  Serialized(c) = c.statement
<1> DEFINE s == c.statement
           subject == [count |-> 1, sha256 |-> s.subject.sha256]
<1>1. EvaluateCodes(s) = {} /\ s.subject.count = 1 /\ s.predicateTypeOK
  BY DEF Refused
<1>2. When(~s.typeOK, "statement-type-unsupported") = {}
  BY <1>1, EvaluateSilent DEF Gate0
<1>3. s.typeOK = TRUE /\ s.predicateTypeOK = TRUE
  BY <1>1, <1>2 DEF When, Readable
<1>4. s.subject = subject
  BY <1>1 DEF Readable
<1>5. Serialized(c) = [s EXCEPT !.typeOK = TRUE, !.predicateTypeOK = TRUE,
                               !.subject = subject]
  BY DEF Serialized
<1>6. s = [m \in DOMAIN s |-> s[m]]
  BY DEF Readable
<1> HIDE DEF s, subject
<1>7. /\ [s EXCEPT !.typeOK = TRUE] = s /\ [s EXCEPT !.predicateTypeOK = TRUE] = s
      /\ [s EXCEPT !.subject = subject] = s
  BY <1>3, <1>4, <1>6
<1>8. Serialized(c) = s
  BY <1>5, <1>7
<1> QED
  BY <1>8 DEF s

\* The statement made of evidence the checks let pass is valid with its result,
\* and who trusts a configured key admits it.
LEMMA CheckedIsAdmitted ==
  ASSUME NEW c, Readable(c), c.named, ~Refused(c)
  PROVE  /\ EvaluateCodes(Serialized(c)) = {}
         /\ Recompute(Serialized(c)) = c.statement.result
         /\ \A key \in options.substrateKey :
              Verify(Serialized(c), [keys |-> {key}, expectedCorpus |-> "none",
                                    expectedSubstrate |-> "none"]).admitted
<1> DEFINE s == c.statement
<1>1. Serialized(c) = s /\ EvaluateCodes(s) = {}
  BY StatementIsEvidence DEF Refused
<1>2. ASSUME NEW key \in options.substrateKey
      PROVE  Verify(s, [keys |-> {key}, expectedCorpus |-> "none",
                        expectedSubstrate |-> "none"]).admitted
  <2> DEFINE policy == [keys |-> {key}, expectedCorpus |-> "none",
                        expectedSubstrate |-> "none"]
  <2>1. policy.keys = {key} /\ AnchorPolicyCodes(s, policy) = {}
    BY DEF AnchorPolicyCodes, When
  <2>2. RecordSignaturesOK(s, {key})
    BY DEF Refused, ProducerQACheck
  <2> HIDE DEF policy
  <2>3. TierPolicySatisfied(s, DeriveTiers(s, policy))
    BY <1>1, <2>1, <2>2, TiersAreSignatures
  <2>4. Verify(s, policy) = ConsumerReport(s, policy)
    BY <1>1 DEF Verify
  <2> QED
    BY <2>1, <2>3, <2>4 DEF ConsumerReport, policy
<1> QED
  BY <1>1, <1>2, EvaluateSilent

\* Whatever changes on disk: what is held passed every check, under the options
\* the run was started with, and what is signed was held.
CheckedOnly ==
  /\ \A p \in DOMAIN disk : Readable(disk[p])
  /\ \A c \in body : Readable(c)
  /\ \A c \in held : Readable(c) /\ ~Refused(c)
  /\ \A e \in signed :
       /\ e.options = options /\ e.statement = Serialized(e.evidence)
       /\ Readable(e.evidence) /\ ~Refused(e.evidence)

LEMMA NextCheckedOnly == CheckedOnly /\ [AttestNext]_attestVars => CheckedOnly'
<1> SUFFICES ASSUME CheckedOnly, [AttestNext]_attestVars PROVE CheckedOnly'
  OBVIOUS
<1>1. options' = options
  BY DEF AttestNext, attestVars, RecordProducts, Locate, HashEvidence, ReadEvidence, CheckEvidence, Sign,
         Change, Quiet
<1>2. \A c : Refused(c)' <=> Refused(c)
  BY <1>1 DEF Refused, ProducerQACheck
<1>3. ASSUME UNCHANGED <<disk, body, held, signed>> PROVE CheckedOnly'
  BY <1>1, <1>2, <1>3 DEF CheckedOnly
<1>4. ASSUME ReadEvidence PROVE CheckedOnly'
  <2>1. \A c \in body' : Readable(c)
    BY <1>4 DEF ReadEvidence, Refuse, CheckedOnly
  <2> QED
    BY <1>1, <1>2, <1>4, <2>1 DEF ReadEvidence, Refuse, Quiet, CheckedOnly
<1>5. ASSUME CheckEvidence PROVE CheckedOnly'
  <2>1. \A c \in held' : Readable(c) /\ ~Refused(c)
    BY <1>5 DEF CheckEvidence, Refuse, CheckedOnly
  <2> QED
    BY <1>1, <1>2, <1>5, <2>1 DEF CheckEvidence, Refuse, Quiet, CheckedOnly
<1>6. ASSUME Sign PROVE CheckedOnly'
  <2>1. \A e \in signed' :
          /\ e.options = options /\ e.statement = Serialized(e.evidence)
          /\ Readable(e.evidence) /\ ~Refused(e.evidence)
    BY <1>6 DEF Sign, CheckedOnly
  <2> QED
    BY <1>1, <1>2, <1>6, <2>1 DEF Sign, CheckedOnly
<1>7. ASSUME Change PROVE CheckedOnly'
  <2>1. \A p \in DOMAIN disk' : Readable(disk'[p])
    BY <1>7, ContentAssumption DEF Change, CheckedOnly
  <2> QED
    BY <1>1, <1>2, <1>7, <2>1 DEF Change, CheckedOnly
<1> QED
  BY <1>3, <1>4, <1>5, <1>6, <1>7
     DEF AttestNext, attestVars, RecordProducts, Locate, HashEvidence, Refuse, Quiet

\* For any files, changes and options: the seam that signs and the seam that
\* verifies agree on everything this attestor hands over (aee.go, attest).
THEOREM SignedEvidenceIsAdmitted == AttestSpec => []SignedIsAdmitted
<1>1. AttestInit => CheckedOnly
  BY ContentAssumption DEF AttestInit, CheckedOnly
<1>2. CheckedOnly => SignedIsAdmitted
  BY CheckedIsAdmitted DEF CheckedOnly, SignedIsAdmitted
<1> QED
  BY <1>1, <1>2, NextCheckedOnly, PTL DEF AttestSpec

=============================================================================
