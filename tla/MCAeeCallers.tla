---------------------------- MODULE MCAeeCallers ----------------------------
(***************************************************************************)
(* Whoever asks what the gates find in a statement: Verify, VerifyForEmit   *)
(* and the second rail (MCAeeVerify), and the attestor of go-witness. They  *)
(* have no state in common and every property speaks of one of them, so in  *)
(* a behaviour one of them moves and the other stays as it was.             *)
(***************************************************************************)
EXTENDS MCAeeVerify, WitnessAttestor

\* The attestor of a behaviour that is about calls is one that has ended.
CallersInit ==
  /\ Init
  /\ \/ AttestInit
     \/ /\ pc = "none" /\ options = [evidencePath |-> {}, substrateKey |-> {}]
        /\ disk = << >> /\ products = << >> /\ located = {} /\ body = {} /\ held = {}
        /\ signed = {} /\ changes = 0

\* Next, with the guard of Start before the choice of its input.
Calls ==
  /\ pc = "none"
  /\ \/ Finish \/ Step
     \/ /\ stage = "idle"
        /\ \E function \in Functions, s \in Statement, policy \in Policy : Start(function, s, policy)
  /\ UNCHANGED attestVars

Attests == pc # "none" /\ AttestNext /\ UNCHANGED vars

CallersSpec == CallersInit /\ [][Calls \/ Attests]_<<vars, attestVars>>

----------------------------------------------------------------------------
(* WitnessAttestor on what one edit makes of honest statements. A file of   *)
(* another name, and a second one of the default name, may lie beside it.   *)

Top    == <<DefaultEvidenceFileName>>
Nested == <<"out", DefaultEvidenceFileName>>
Other  == <<"other.json">>

MCPath == {Top, Nested, Other}
MCBefore(p, q) == <<p, q>> \in {<<Top, Other>>, <<Top, Nested>>, <<Other, Nested>>}

As(named, s) == [statement |-> s, named |-> named]

Honest    == As(TRUE, HonestCaught)
Unfounded == As(TRUE, [HonestCaught EXCEPT !.result = "pass"])
Unsigned  == As(TRUE, [HonestClean EXCEPT !.records[1].signedBy = {OtherKey}])

MCContent == {Honest, Unfounded, Unsigned}

\* Every edited statement at the one path; a few contents at all of them.
Edited == HonestBase \cup OneEdit({HonestClean, HonestArtifact})

OneFile(p, c) == [q \in {p} |-> c]
Alone ==
  {OneFile(Top, As(TRUE, s)) : s \in Edited} \cup {OneFile(Top, As(FALSE, s)) : s \in HonestBase}
Among == UNION {[paths -> MCContent] : paths \in SUBSET MCPath}

MCDirectory == Alone \cup Among

MCConfiguration ==
  [evidencePath : {{}, {<<DefaultEvidenceFileName>>}, {Other}},
   substrateKey : {{}, {ObservationKey}, {OtherKey}, {"no key"}}]

=============================================================================
