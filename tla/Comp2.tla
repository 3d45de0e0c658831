------------------------------- MODULE Comp2 -------------------------------
(* comp2.c: least common multiples of the rows of a table of numbers from  *)
(* a linear congruence. A long long is kept in two parts, <<hi, lo>> for   *)
(* hi * 2^16 + lo; every value of the program is positive or zero.         *)
EXTENDS Integers

VARIABLE c2   \* the locals of main and iter, or Idle2

Idle2 == << >>

N == 12

nums[i \in 0..(N * N - 1)] == IF i = 0 THEN 60 ELSE (7 * nums[i - 1] + 29) % 41

Long(n) == <<n \div 65536, n % 65536>>

Plus(a, b) == <<a[1] + b[1] + ((a[2] + b[2]) \div 65536), (a[2] + b[2]) % 65536>>

Times(a, n) == <<a[1] * n + ((a[2] * n) \div 65536), (a[2] * n) % 65536>>

(* a % b, for a positive int b below 2^15.                                 *)
Rem(a, b) == (((a[1] % b) * 65536) + a[2]) % b

(* Euclid's loop on small numbers, the larger one first.                   *)
Euclid[a \in Nat, b \in Nat] == IF b = 0 THEN a ELSE Euclid[b, a % b]

(* gcd of a long a and a small b: the first turn of the loop, done here,   *)
(* leaves small numbers. gcd(0, 0) is 1.                                   *)
gcd(a, b) ==
  IF a = Long(0) /\ b = 0 THEN 1
  ELSE IF a = Long(0) THEN b
  ELSE IF b = 0 THEN a[1] * 65536 + a[2]
  ELSE Euclid[b, Rem(a, b)]

lcm(a, b) == Times(a, b \div gcd(a, b))

(* 77385916320.                                                            *)
EXPECTED == <<1180815, 24480>>

Comp2Init == c2 = [pc |-> "row", row |-> 0, i |-> 1, curr |-> Long(nums[0]), sum |-> Long(0),
                   status |-> "DEFFDEFF"]

(* iter: one more number of the row. The current multiple is passed as an  *)
(* int.                                                                    *)
Comp2Iter ==
  /\ c2.pc = "row" /\ c2.i < N
  /\ c2' = [c2 EXCEPT !.curr = lcm(c2.curr, nums[c2.row * N + c2.i]), !.i = @ + 1]

(* iter returns, and the row's multiple is added with its weight.          *)
Comp2Row ==
  /\ c2.pc = "row" /\ c2.i = N
  /\ c2' = [c2 EXCEPT !.sum = Plus(@, Times(c2.curr, c2.row + 1)), !.row = @ + 1, !.i = 1,
                      !.pc = IF c2.row + 1 = N THEN "compare" ELSE @,
                      !.curr = IF c2.row + 1 = N THEN @ ELSE Long(nums[(c2.row + 1) * N])]

Comp2Ends ==
  /\ c2.pc = "compare"
  /\ c2' = [c2 EXCEPT !.pc = "done", !.status = IF c2.sum = EXPECTED THEN "600d600d" ELSE "0badc0de"]

Comp2Next == Comp2Iter \/ Comp2Row \/ Comp2Ends

(* What iter has so far is a common multiple of the numbers it has seen,   *)
(* and, passed to lcm, does not lose a bit: it is below 2^31.              *)
CommonMultipleFitsInt ==
  c2 # Idle2 /\ c2.pc = "row" =>
    /\ \A j \in 0..(c2.i - 1) :
         LET n == nums[c2.row * N + j] IN IF n = 0 THEN c2.curr = Long(0) ELSE Rem(c2.curr, n) = 0
    /\ c2.i < N => c2.curr[1] < 32768

(* comp2 reports success: the sum is the one expected.                     *)
Comp2Succeeds == c2 # Idle2 /\ c2.pc = "done" => c2.status = "600d600d"

=============================================================================
