----------------------------- MODULE MCPipeline -----------------------------
(* Constants for checking Pipeline: two registers besides x0.              *)
EXTENDS Pipeline, TLC

CONSTANTS x1, x2

Registers == {0, x1, x2}

(* Only x0 differs from the other registers.                               *)
RegSymmetry == Permutations({x1, x2})

=============================================================================
