----------------------------- MODULE MCCommandRun -----------------------------
(* A small instance of CommandRun: one child that writes at most one byte and *)
(* ends by itself in any way, or never.                                       *)
EXTENDS CommandRun

MCTrees == {[child |-> ops \o <<end>>, kid |-> <<"0">>] : ops \in {<<>>, <<"a">>}, end \in Ends}
=============================================================================
