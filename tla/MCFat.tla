------------------------------- MODULE MCFat -------------------------------
(* TLC instances of Fat. *)
EXTENDS Fat

MCClusters == 2..6
MCContents == {<<>>, <<"u">>, <<"v", "w">>}
MCTwoSlots == [n \in Names |-> 2]
MCThreeSlots == [n \in Names |-> 3]
=============================================================================
