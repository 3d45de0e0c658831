----------------------------- MODULE MCCoreMark ----------------------------
EXTENDS CoreMark

Run(seed, seed3, total, iterations) ==
  [seed1 |-> seed, seed2 |-> IF seed3 = 0 THEN 0 ELSE seed, seed3 |-> seed3,
   total |-> total, iterations |-> iterations]

(* The performance and the validation run of 2000 bytes, as the command    *)
(* line gives them; short lists; and a state block whose last byte the     *)
(* corruption can reach.                                                   *)
MCArgs == {Run(0, 0, 2000, 2), Run(1, 0, 2000, 1), Run(2, 9, 513, 2), Run(2, 5, 360, 1), Run(3, 20, 600, 3)}

Build(port, total, iterations) == [port |-> port, total |-> total, iterations |-> iterations]

(* The performance run of the processor's port, the profile run, and the   *)
(* validation seeds on a size main does not know.                          *)
MCBuilds == {Build("riscv", 2000, 1), Build("riscv", 1200, 2), Build("simple", 900, 1)}

=============================================================================
