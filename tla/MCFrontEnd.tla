----------------------------- MODULE MCFrontEnd -----------------------------
(* Constants for checking FrontEnd: loops with several branches.           *)
EXTENDS FrontEnd

Br(t) == [op |-> "br", target |-> t]
Jal(t) == [op |-> "jal", target |-> t]
Other == [op |-> "other", target |-> 1]

(* A nested loop; two branches in a row and a jump back.                   *)
TwoPrograms == {<<Other, Br(2), Other, Br(1)>>, <<Br(3), Br(1), Other, Jal(2)>>}
=============================================================================
