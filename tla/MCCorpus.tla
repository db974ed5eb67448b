------------------------------ MODULE MCCorpus ------------------------------
(***************************************************************************)
(* How the corpus is made, and how it is published. They have no state in   *)
(* common and every property speaks of one of them, so in a behaviour one   *)
(* of them moves and the other stays as it was.                             *)
(***************************************************************************)
EXTENDS CorpusPipeline, CorpusPublication, TLC

VARIABLE moving

CorpusInit == moving \in {"pipeline", "publication"} /\ PipelineInit /\ Init

Pipelines    == moving = "pipeline" /\ PipelineNext /\ UNCHANGED <<moving, vars>>
Publications == moving = "publication" /\ Next /\ UNCHANGED <<moving, pipelineVars>>

CorpusSpec == CorpusInit /\ [][Pipelines \/ Publications]_<<moving, pipelineVars, vars>>

\* One developer is like the other.
OneOfTwo == Permutations(Developers)

----------------------------------------------------------------------------
(* CorpusPipeline with two accept vectors, a refusal and an indeterminate   *)
(* vector, and tables that are sound or wrong in one way.                   *)

MCAcceptOrder == <<"p", "q">>
MCRejectOrder == <<"r">>
MCIndOrder    == <<"i">>
MCBodies      == {"b1", "b2", "bad"}
MCValid       == {"b1", "b2"}
MCResult      == [b1 |-> "pass", b2 |-> "fail", bad |-> "pass"]
MCMutations   == {"m1", "m2", "unsound"}
MCUnsound     == {"unsound"}
MCShort       == [p |-> {"ok"}, q |-> {"ok", "q0"}]

Described(result, conds) == [result |-> result, conds |-> conds]
Derived(from, parent, muts, conds) == [from |-> from, parent |-> parent, muts |-> muts, conds |-> conds]

Sound ==
  [ accept  |-> [p |-> "b1", q |-> "b2"],
    rows    |-> [p |-> Described("pass", {"c1"}), q |-> Described("fail", {"c2"})],
    anchors |-> {"p"}, pins |-> {"p"},
    reject  |-> [r |-> Derived("p", "p", {"m1"}, {"c1"})],
    ind     |-> [i |-> Derived("q", "q0", {"m2"}, {"c2"})],
    clauses |-> {"r"}, exceptions |-> << >> ]

\* Each of these makes a corpus, though the anchor gate does not let all pass.
OtherCorpora ==
  { [Sound EXCEPT !.accept = [p |-> "b2", q |-> "b1"],
                  !.rows = [p |-> Described("fail", {"c1"}), q |-> Described("pass", {"c2"})]],
    [Sound EXCEPT !.pins = {"q"}],
    [Sound EXCEPT !.reject.r.muts = {}],
    [Sound EXCEPT !.reject.r.muts = {"m1", "m2"}],
    [Sound EXCEPT !.reject.r.muts = {"m1", "m2"},
                  !.exceptions = Statement("b1", {"m1", "m2"}) :> 2],
    [Sound EXCEPT !.reject.r.from = "q"],
    [Sound EXCEPT !.reject.r = Derived("q", "p", {"m1"}, {"c1"}),
                  !.exceptions = Statement("b2", {"m1"}) :> 3],
    [Sound EXCEPT !.reject.r = Derived("q", "p", {}, {"c1"}), !.exceptions = Statement("b2", {}) :> 2],
    [Sound EXCEPT !.exceptions = Statement("b1", {"m1"}) :> 1],
    [Sound EXCEPT !.ind.i.muts = {}],
    [Sound EXCEPT !.rows.p.conds = {}],
    [Sound EXCEPT !.reject.r.conds = {"c2"}],
    [Sound EXCEPT !.reject.r.conds = {"c1", "c2"}, !.rows.p.conds = {}],
    [Sound EXCEPT !.ind = << >>] }

\* And none of these does.
WrongTables ==
  { [Sound EXCEPT !.accept.p = "bad"],
    [Sound EXCEPT !.accept.p = "b2", !.rows.p.result = "fail"],
    [Sound EXCEPT !.accept = [p |-> "b1"]],
    [Sound EXCEPT !.accept = [p |-> "b1"], !.rows = [p |-> Described("pass", {"c1"})]],
    [Sound EXCEPT !.rows.q.result = "pass"],
    [Sound EXCEPT !.anchors = {"other"}],
    [Sound EXCEPT !.pins = {"other"}],
    [Sound EXCEPT !.reject.r.muts = {"unsound"}],
    [Sound EXCEPT !.reject.r.parent = "ok"],
    [Sound EXCEPT !.reject = << >>],
    [Sound EXCEPT !.clauses = {"other"}],
    [Sound EXCEPT !.ind.i = Derived("p", "p", {"m1"}, {"c1"})] }

MCSources == {Sound} \cup OtherCorpora \cup WrongTables

\* A stray statement, and two files that are not what their names say.
MCHandPlaced ==
  { [name |-> Statement("bad", {"m2"}), st |-> Statement("bad", {"m2"})],
    [name |-> Statement("b1", {}), st |-> Statement("b1", {"m2"})],
    [name |-> Statement("b1", {"m1"}), st |-> Statement("b1", {"m1", "m2"})] }

=============================================================================
