---------------------------- MODULE MCAeeVerify ----------------------------
(* AeeVerify, and the second rail beside it, on honest statements and what *)
(* one or two edits make of them.                                          *)
EXTENDS AeeRails, MCAeeStatements

KeyPolicy(keys) == [keys |-> keys, expectedCorpus |-> "none", expectedSubstrate |-> "none"]

MCPolicy ==
  { KeyPolicy({ObservationKey}), KeyPolicy({ObservationKey, OtherKey}),
    [KeyPolicy({}) EXCEPT !.expectedCorpus = "corpus", !.expectedSubstrate = "otherImage"] }

\* Every single edit of an honest statement, as it stands, as a producer would
\* finish it, and with its records issued again for the run it now describes.
OneEditStatement ==
  LET edited == Completed(HonestBase \cup OneEdit(HonestBase))
  IN  edited \cup {Rebound(s) : s \in edited}

\* Every two edits of the rows, the coverage and the records of the statement
\* with a caught row, the one most edits have something to say about.
TwoEditStatement == {Complete(s) : s \in TwoStructural({HonestCaught})}

EditedStatement == OneEditStatement \cup TwoEditStatement

OnePolicy == {KeyPolicy({ObservationKey})}

=============================================================================
