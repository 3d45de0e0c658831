------------------------------- MODULE Comp1 -------------------------------
(* comp1.c: branch kernels checked against a second computation, on every  *)
(* value of an unsigned char but the last, and a recursive function.       *)
EXTENDS Crc

VARIABLE c1   \* the locals of main and of the test that runs, or Idle

Idle == << >>

(* Eight ifs on the bits of test, one after the other: cond[k] is the      *)
(* condition of the k-th, mask[k] what it sets.                            *)
EightBranches(cond, mask) ==
  LET out[k \in 0..8] == IF k = 0 THEN 0 ELSE IF cond[k] THEN out[k - 1] | mask[k] ELSE out[k - 1]
  IN out[8]

uncorrelated_branches_kernel(test) ==
  EightBranches([k \in 1..8 |-> Bit(test, k - 1) = 1], [k \in 1..8 |-> 2^(k - 1)])

correlated_branches_kernel(test) ==
  EightBranches([k \in 1..8 |-> test & (2^k - 1) = 2^k - 1], [k \in 1..8 |-> 2^k - 1])

(* ~test & (test + 1) as ints, cut to a char, less one as a char.          *)
golden(test) == U8(U8((511 - test) & (test + 1)) - 1)

uncorrelated_test(test) == uncorrelated_branches_kernel(test) = test

correlated_test(test) == correlated_branches_kernel(test) = golden(test)

mixed_test(test) == uncorrelated_test(test) /\ correlated_test(test)

fib[n \in Nat] == IF n <= 1 THEN n ELSE fib[n - 1] + fib[n - 2]

Comp1Init == c1 = [pc |-> "uncorrelated", test |-> 0, error |-> 0, status |-> "DEFFDEFF"]

(* One turn of a test's loop: a mismatch returns 1, the last value 0; main *)
(* goes on to the next test either way.                                    *)
LoopTurn(pc, next, check) ==
  /\ c1.pc = pc
  /\ c1' = IF c1.test < 255 /\ check THEN [c1 EXCEPT !.test = @ + 1]
           ELSE [c1 EXCEPT !.pc = next, !.test = 0, !.error = IF c1.test < 255 THEN 1 ELSE @]

test_uncorrelated_branches == LoopTurn("uncorrelated", "correlated", uncorrelated_test(c1.test))

test_correlated_branches == LoopTurn("correlated", "mixed", correlated_test(c1.test))

test_mixed == LoopTurn("mixed", "call", mixed_test(c1.test))

(* test_function_call, which has no error to report, and main's verdict.   *)
Comp1Ends ==
  /\ c1.pc = "call" /\ fib[12] \in Nat
  /\ c1' = [c1 EXCEPT !.pc = "done", !.status = IF c1.error # 0 THEN "00BADBAD" ELSE "600D600D"]

Comp1Next == test_uncorrelated_branches \/ test_correlated_branches \/ test_mixed \/ Comp1Ends

(* The correlated kernel keeps the ones below the lowest zero, on the last *)
(* value too, which no loop of the program reaches.                        *)
KernelKeepsLowOnes ==
  c1 # Idle =>
    \A test \in {c1.test, 255} :
      \E k \in 0..8 : /\ correlated_branches_kernel(test) = 2^k - 1
                      /\ test % 2^k = 2^k - 1
                      /\ k < 8 => Bit(test, k) = 0

(* comp1 reports success: every check of its loops holds.                  *)
Comp1Succeeds == c1 # Idle /\ c1.pc = "done" => c1.status = "600D600D"

=============================================================================
