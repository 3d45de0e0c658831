------------------------------- MODULE Verify ------------------------------
(* verify and verifyDouble of util.h: two arrays are compared, two         *)
(* elements a turn. C's index i is one less than the place in a sequence.  *)
EXTENDS Integers, Sequences

CONSTANT Vectors   \* the pairs [test, verify] of sequences of one length

VARIABLE ver       \* the arguments and locals of the call, or IdleVer

IdleVer == << >>

(* Elements are naturals; NaN is a double that equals nothing.             *)
NaN == -1

ASSUME VectorsAssumption ==
  \A x \in Vectors : /\ x.test \in Seq(Nat \cup {NaN}) /\ x.verify \in Seq(Nat \cup {NaN})
                     /\ Len(x.test) = Len(x.verify)

Same(t, v) == t = v /\ t # NaN

VerifyInit ==
  \E x \in Vectors, fn \in {"verify", "verifyDouble"} :
    /\ fn = "verify" => \A j \in DOMAIN x.test : NaN \notin {x.test[j], x.verify[j]}
    /\ ver = [fn |-> fn, test |-> x.test, verify |-> x.verify, i |-> 0, returned |-> FALSE, ret |-> 0]

n == Len(ver.test)

Return(value) == ver' = [ver EXCEPT !.returned = TRUE, !.ret = value]

(* Two elements by two branches.                                           *)
verify ==
  /\ ver.fn = "verify" /\ ~ver.returned /\ ver.i < (n \div 2) * 2
  /\ LET i == ver.i
     IN CASE ver.test[i + 1] # ver.verify[i + 1] -> Return(i + 1)
          [] ver.test[i + 1] = ver.verify[i + 1] /\ ver.test[i + 2] # ver.verify[i + 2] -> Return(i + 2)
          [] OTHER -> ver' = [ver EXCEPT !.i = @ + 2]

(* MUTANT: the second comparison is added to the place.                    *)
verifyDouble_second ==
  /\ ver.fn = "verifyDouble" /\ ~ver.returned /\ ver.i < (n \div 2) * 2
  /\ LET eq1 == Same(ver.test[ver.i + 1], ver.verify[ver.i + 1])
         eq2 == Same(ver.test[ver.i + 2], ver.verify[ver.i + 2])
     IN IF ~(eq1 /\ eq2) THEN Return(ver.i + 1 + (IF eq2 THEN 1 ELSE 0))
        ELSE ver' = [ver EXCEPT !.i = @ + 2]

(* Two elements by one branch; the first comparison is added to the place. *)
verifyDouble ==
  /\ ver.fn = "verifyDouble" /\ ~ver.returned /\ ver.i < (n \div 2) * 2
  /\ LET eq1 == Same(ver.test[ver.i + 1], ver.verify[ver.i + 1])
         eq2 == Same(ver.test[ver.i + 2], ver.verify[ver.i + 2])
     IN IF ~(eq1 /\ eq2) THEN Return(ver.i + 1 + (IF eq1 THEN 1 ELSE 0))
        ELSE ver' = [ver EXCEPT !.i = @ + 2]

(* The last element of an odd number, and the end.                         *)
LastElement ==
  /\ ~ver.returned /\ ver.i = (n \div 2) * 2
  /\ Return(IF n % 2 # 0 /\ ~Same(ver.test[n], ver.verify[n]) THEN n ELSE 0)

VerifyNext == verify \/ verifyDouble \/ LastElement

(* A comparison on its own.                                                *)
VerifySpec == VerifyInit /\ [][VerifyNext]_ver

(* Both unrolled loops, with one branch or two, return the place of the    *)
(* first pair of elements that differ, counted from one, or 0.             *)
FirstMismatch ==
  ver # IdleVer /\ ver.returned =>
    LET differ == {j \in 1..n : ~Same(ver.test[j], ver.verify[j])}
    IN IF ver.ret = 0 THEN differ = {} ELSE ver.ret \in differ /\ \A j \in differ : ver.ret <= j

=============================================================================
