---------------------------- MODULE AeeStatement ----------------------------
(***************************************************************************)
(* The decoded in-toto statement that the verification core reads, as      *)
(* ParseStatement of aee/types.go leaves it in memory.                     *)
(*                                                                         *)
(* Data is kept only as far as a gate can tell two values apart:           *)
(*  - a member of the wrong JSON type is "mistyped", an absent one         *)
(*    "absent";                                                            *)
(*  - a digest is a string: "missing" or "mistyped" when the member that   *)
(*    holds it is, "none" when that member carries no sha256 entry,        *)
(*    "noncanonical" when the entry is not lowercase 64-hex, any other     *)
(*    string when it is;                                                   *)
(*  - a hash is its preimage (SHA-256 is taken to be injective), so a leaf *)
(*    is the signed content of a record, a batch root the sequence of its  *)
(*    leaves, an observed set a set of leaves and a run binding the record *)
(*    of its inputs;                                                       *)
(*  - a signature entry is the key under which it verifies;                *)
(*  - an index into observationRecords counts from 1.                      *)
(***************************************************************************)
EXTENDS Integers, Sequences, FiniteSets

\* Elements of a sequence.
Elems(seq) == {seq[i] : i \in DOMAIN seq}

\* The codes a check contributes: code when the fault is there.
When(fault, code) == IF fault THEN {code} ELSE {}

----------------------------------------------------------------------------
(* Digests (types.go, the Sha256 methods) *)

\* A member that is not there, or whose value has the wrong JSON type, decodes
\* to a nil pointer.
IsNil(d) == d \in {"missing", "mistyped"}

\* The Sha256 methods return "" for a nil member and for an absent digest.
EmptyDigest(d) == IsNil(d) \/ d = "none"

\* pae.go IsLowerHex64.
IsLowerHex64(d) == ~EmptyDigest(d) /\ d # "noncanonical"

----------------------------------------------------------------------------
(* Observation records *)

\* A payload in which every member is absent.
BlankPayload ==
  [ form            |-> "object",     \* "object", "notObject" or "notIJson"
    canonical       |-> TRUE,         \* canonical bytes, BMP member names
    runBinding      |-> {},           \* {} when absent, else one binding
    kind            |-> "absent",
    method          |-> "absent",
    posture         |-> "absent",
    \* arming
    bindingVersion  |-> "absent",     \* "absent", "implemented" or "other"
    armedAt         |-> "absent",     \* "absent", "malformed", "inTime", "late"
    runSeq          |-> "absent",     \* "absent", "malformed", "first", "later"
    prevRunBinding  |-> "absent",     \* "absent", "malformed" or "hex"
    chainScope      |-> "absent",     \* "absent", "malformed" or "wellFormed"
    assessed        |-> [form |-> "absent", ids |-> {}],
    \* sealed
    stillArmed      |-> "absent",     \* "absent", "true" or "false"
    dropCount       |-> {},           \* {} when absent or not an integer
    dropBound       |-> {},
    observedSet     |-> {},           \* {} when absent or not 64-hex
    observedAttacks |-> [form |-> "absent", ids |-> {}],
    \* interception
    commitment      |-> [form |-> "absent", values |-> {}],
    \* what the producer adds and no gate reads: it still tells leaves apart
    producer        |-> "nothing" ]

\* The content one leaf hashes and a record signature covers: the DSSE PAE of
\* the payload type and the payload. The signatures are outside it.
Leaf(rec) == [payload |-> rec.payload, jsonType |-> rec.jsonType]

\* recordKinds: the kind of each record whose bytes parse to an object.
KindOf(rec) ==
  IF rec.decodes /\ rec.payload.form = "object"
  THEN rec.payload.kind ELSE "absent"

----------------------------------------------------------------------------
(* The manifest, the vocabulary and the rows *)

\* The attack identifiers one class, or the whole manifest, declares.
ClassAttacks(m, c)    == IF c \in DOMAIN m.classes THEN Elems(m.classes[c]) ELSE {}
DeclaredAttackIDs(s) ==
  IF s.env.form = "object" /\ ~IsNil(s.env.corpus.digest)
  THEN UNION {ClassAttacks(s.env.corpus.manifest, c)
                : c \in DOMAIN s.env.corpus.manifest.classes}
  ELSE {}

\* The identifiers of the classes the coverage member calls assessed.
AssessedAttackIDs(s) ==
  UNION {ClassAttacks(s.env.corpus.manifest, c)
           : c \in Elems(s.coverage.assessed)}

IsCaughtLabel(s, label) == label \in s.env.vocabulary.caught
IsCleanLabel(s, label)  == /\ label \in s.env.vocabulary.labels
                           /\ label \notin s.env.vocabulary.caught

IsSubstrate(row) == row.basis = "substrate"
HasSubstrateRows(s) == \E i \in DOMAIN s.rows : IsSubstrate(s.rows[i])

\* The indexes a row carries, none when the member is absent or malformed.
ReadableRefs(row) ==
  IF row.refs.form = "indexes" THEN Elems(row.refs.idx) ELSE {}

\* The records a row resolves: the indexes that are in range.
Resolved(s, row) == ReadableRefs(row) \cap DOMAIN s.records

\* len(p.Records) == 0: the member is absent, mistyped or an empty array.
NoRecords(s) == s.records = << >>

\* What decoding leaves of a record's payload: an object, another JSON value or
\* no I-JSON, with the members the gates read taken as they are read.
DecodedPayload(p) ==
  /\ p.form \in {"object", "notObject", "notIJson"}
  /\ p.dropCount \cup p.dropBound \subseteq Int
  /\ p.commitment.form \in {"absent", "mistyped", "malformed", "wellFormed"}

\* What decoding leaves, whatever the bytes were: a member is there, or absent,
\* or of the wrong type; what is not there is empty; a digest that is computed is
\* a digest; and the rows, their references and the assessed classes are lists.
Decoded(s) ==
  /\ s.env.form \in {"object", "absent", "mistyped"}
  /\ s.coverage.form \in {"object", "absent", "mistyped"}
  /\ s.coverage.assessed \in Seq(Elems(s.coverage.assessed))
  /\ s.env.posture.digest # "absent"
  /\ ~EmptyDigest(s.env.vocabulary.hash)
  /\ LET m == s.env.corpus.manifest IN
       /\ m.form \in {"object", "absent", "undecodable"}
       /\ ~EmptyDigest(m.hash)
       /\ ~m.classesPresent => DOMAIN m.classes = {}
       /\ m.expected.form \in {"map", "absent", "mistyped"}
       /\ DOMAIN m.expected.values = {} => m.expected.wellFormed
  /\ s.rows \in Seq(Elems(s.rows))
  /\ \A i \in DOMAIN s.rows :
       LET refs == s.rows[i].refs IN
       /\ refs.form \in {"indexes", "absent", "malformed"}
       /\ refs.idx \in Seq(Elems(refs.idx))
  /\ s.recordsForm \in {"array", "absent", "mistyped"}
  /\ s.recordsForm # "array" => s.records = << >>
  /\ \A i \in DOMAIN s.records : DecodedPayload(s.records[i].payload)

----------------------------------------------------------------------------
(* Run binding (runbinding.go) *)

\* deriveStatementBinding: the digest over the seven inputs and the version.
\* The posture input is the carried object, not that object's own digest.
RunBinding(s) ==
  [ catchPolicy           |-> s.env.catchPolicy,
    corpus                |-> s.env.corpus.digest,
    networkPosture        |-> s.env.posture,
    observationVocabulary |-> s.env.vocabulary.digest,
    runEntropy            |-> s.env.runEntropy,
    subject               |-> s.subject.sha256,
    substrate             |-> s.env.substrate ]

\* Whether a record commits to the given binding.
BindsTo(rec, binding) == rec.payload.runBinding = {binding}

=============================================================================
