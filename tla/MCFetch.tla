------------------------------ MODULE MCFetch ------------------------------
(* Constants for checking Fetch: every program of LastPC words.            *)
EXTENDS Fetch

AllPrograms  == [PC -> Instr]

=============================================================================
