---------------------------- MODULE MCMemSystem ----------------------------
(* MemSystem for TLC.                                                      *)
EXTENDS MemSystem

(* One image: the line with tag n holds the binary digits of n, one to a   *)
(* word, so that no two lines agree.                                       *)
MCImages == {[l \in LineAddr |-> [c \in D!Cell |-> (l[1] \div (2 ^ c[1])) % 2]]}

=============================================================================
