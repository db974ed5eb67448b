----------------------------- MODULE AeeRecords -----------------------------
(***************************************************************************)
(* The observation records a substrate signs. The substrate is outside the *)
(* repository: its payloads carry the members that aeetest/build.go sets   *)
(* (sealedRecord, and the arming and interception records of Build) with   *)
(* the values that aee/validity.go tells apart. The builder's own seal has *)
(* lost nothing, states no bound on what it lost and names no attack; an   *)
(* examination it never builds.                                            *)
(***************************************************************************)
EXTENDS AeeStatement

Ids(set) == [form |-> "sortedArray", ids |-> set]

ArmingPayload(run, posture, attacks) ==
  [BlankPayload EXCEPT !.kind = "arming", !.method = "intercepted",
     !.runBinding = {run}, !.posture = posture, !.armedAt = "inTime",
     !.assessed = Ids(attacks)]

InterceptionPayload(run, value) ==
  [BlankPayload EXCEPT !.kind = "interception", !.method = "intercepted",
     !.runBinding = {run},
     !.commitment = [form |-> "wellFormed", values |-> {value}]]

ExaminationPayload(run) ==
  [BlankPayload EXCEPT !.kind = "examination", !.method = "reconstructed",
     !.runBinding = {run}]

\* A seal over the leaves of the observations of a run: whether the vantage
\* was still armed, what it failed to record, the bound it states on that ({}
\* when it states none), and the attacks it can name.
SealedPayload(run, posture, armed, drops, bound, leaves, named) ==
  [BlankPayload EXCEPT !.kind = "sealed", !.method = "intercepted",
     !.runBinding = {run}, !.posture = posture,
     !.stillArmed = IF armed THEN "true" ELSE "false",
     !.dropCount = {drops}, !.dropBound = bound, !.observedSet = {leaves},
     !.observedAttacks = Ids(named)]

\* What one signature over a payload covers: the leaf of the record.
PayloadLeaf(payload) == [payload |-> payload, jsonType |-> TRUE]

\* signRecord
Signed(payload, keys) ==
  [decodes |-> TRUE, jsonType |-> TRUE, payload |-> payload, signedBy |-> keys]

=============================================================================
