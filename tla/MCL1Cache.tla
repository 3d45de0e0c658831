----------------------------- MODULE MCL1Cache -----------------------------
(* L1Cache for TLC.                                                        *)
EXTENDS L1Cache, TLC

(* Tags are only compared for equality.                                    *)
TagSymmetry == Permutations(Tag)

=============================================================================
