------------------------------ MODULE MCGates ------------------------------
(***************************************************************************)
(* Campaigns, and the lock they run under. They have no state in common (a  *)
(* campaign knows the lock by what LockFile is shown to promise) and every  *)
(* property speaks of one of them, so in a behaviour one of them moves and  *)
(* the other stays as it was.                                               *)
(***************************************************************************)
EXTENDS ForcingCampaign, LockFile

VARIABLE moving

GatesInit == moving \in {"campaign", "lock"} /\ Init /\ LockInit

Campaigns == moving = "campaign" /\ Next /\ UNCHANGED <<moving, lockVars>>
Locks     == moving = "lock" /\ LockNext /\ UNCHANGED <<moving, vars>>

GatesSpec ==
  /\ GatesInit /\ [][Campaigns \/ Locks]_<<moving, vars, lockVars>>
  /\ \A g \in Gate : WF_vars(Step(g))

----------------------------------------------------------------------------
(* ForcingCampaign over three sites. The later corpus loses the rule at s1  *)
(* and gains the one at s2; the later rail no longer has s1 in that form.   *)
(* The mutant at s3 never terminates. Of a fourth, the record still has a   *)
(* row and no rail has it any more.                                         *)

MCSite == {"s1", "s2", "s3"}

MCTruth ==
  [t \in Tree |->
    [s1 |-> IF t.corpus = "old" THEN "KILLED" ELSE "SILENT",
     s2 |-> IF t.corpus = "old" THEN "DEAD" ELSE "KILLED",
     s3 |-> "hangs"]]

MCSitesOf == [r \in Rails |-> IF r = "old" THEN MCSite ELSE MCSite \ {"s1"}]

GoneSite  == MCSite \cup {"s4"}
GoneTruth == [t \in Tree |-> [s \in GoneSite |-> IF s = "s4" THEN "KILLED" ELSE MCTruth[t][s]]]

Old == [corpus |-> "old", rail |-> "old"]

\* What a sync over the old tree records, and a repository without a baseline.
Measured(sites, annotated) ==
  [state |-> "whole",
   rows  |-> [s \in sites |-> IF s = "s1" THEN "KILLED"
                              ELSE IF s = "s2" THEN "DEAD" ELSE "INCONCLUSIVE"],
   annotated |-> annotated]

\* The record of a corpus that forces both rules, as another branch may have.
Forcing(b) == [b EXCEPT !.rows.s1 = "KILLED", !.rows.s2 = "KILLED"]

Gone(b)       == [b EXCEPT !.rows = [s \in GoneSite |-> IF s = "s4" THEN "KILLED" ELSE b.rows[s]]]
GoneBaselines == {Gone(Measured(MCSite, {})), Forcing(Measured(MCSite, {})), Empty}

\* An edit that is not taken back.
CorpusForward == {<<Old, [Old EXCEPT !.corpus = "new"]>>}

ASSUME EditsGoForward

Checking(scope, only) == [sync |-> FALSE, scope |-> scope, only |-> only, accept |-> {}]
Syncing(accept)       == [sync |-> TRUE, scope |-> "all", only |-> {}, accept |-> accept]

MCMode  == {Checking("forced", {}), Checking("all", {}), Syncing({}), Syncing({"s1"}),
            [Syncing({}) EXCEPT !.scope = "forced"]}

=============================================================================
