------------------------ MODULE TournamentPredictor ------------------------
(***************************************************************************)
(* hdl/cpu/Branch_Predictor: the direction predictor.  A local pattern     *)
(* history table (lbht.sv) indexed by the address, a global one (gbht.sv)  *)
(* indexed by the address XOR the history of outcomes (bht.sv), and a      *)
(* selector between the two (tournament_predictor.sv).                     *)
(***************************************************************************)
EXTENDS Naturals

CONSTANTS
  Width,           \* idx_length, the bits of an index and of the history
  pht_idx(_)       \* the index bits of an address, bit 0 first

VARIABLES
  local_pht,       \* the 2-bit counters, 0 (SNT) to 3 (ST)
  global_pht,
  bht,             \* outcomes of the last branches, the newest at bit 0
  selector,        \* 0 (ST_local) to 3 (ST_global)
  lbht_decode, lbht_ex, gbht_decode, gbht_ex,
  pc_fetch, is_br  \* input ports: fetch address, the fetched word is a branch

predRegs == <<local_pht, global_pht, bht, selector, lbht_decode, lbht_ex, gbht_decode, gbht_ex>>

Bits  == 0 .. (Width - 1)
Index == [Bits -> BOOLEAN]

xor(a, b) == [i \in Bits |-> a[i] # b[i]]

(* The types of the tables and registers of the predictor.                 *)
PredTypeOK ==
  /\ local_pht \in [Index -> 0 .. 3] /\ global_pht \in [Index -> 0 .. 3]
  /\ bht \in Index /\ selector \in 0 .. 3
  /\ {lbht_decode, lbht_ex, gbht_decode, gbht_ex} \subseteq BOOLEAN

(* The four shift registers have no reset.                                 *)
PredInit ==
  /\ local_pht = [i \in Index |-> 1] /\ global_pht = [i \in Index |-> 1]
  /\ bht = [i \in Bits |-> FALSE]
  /\ selector = 1
  /\ lbht_decode \in BOOLEAN /\ lbht_ex \in BOOLEAN
  /\ gbht_decode \in BOOLEAN /\ gbht_ex \in BOOLEAN

-----------------------------------------------------------------------------
local_pred  == is_br /\ local_pht[pht_idx(pc_fetch)] >= 2
global_pred == is_br /\ global_pht[xor(pht_idx(pc_fetch), bht)] >= 2

pred_result == IF selector >= 2 THEN global_pred ELSE local_pred

-----------------------------------------------------------------------------
(* MUTANT: the counter wraps.                                              *)
Count_Wraps(c, up) == IF up THEN (c + 1) % 4 ELSE (c + 3) % 4

(* A saturating 2-bit counter.                                             *)
Count(c, up) ==
  CASE up /\ c # 3 -> c + 1
    [] ~up /\ c # 0 -> c - 1
    [] OTHER -> c

(* The selector moves towards the one that was right, if only one was.     *)
Select(br_en) ==
  CASE lbht_ex = gbht_ex -> selector
    [] gbht_ex = br_en -> Count(selector, TRUE)
    [] OTHER -> Count(selector, FALSE)

Train(br_en, pc_ex) ==
  /\ local_pht' = [local_pht EXCEPT ![pht_idx(pc_ex)] = Count(@, br_en)]
  /\ global_pht' = [global_pht EXCEPT ![xor(pht_idx(pc_ex), bht)] = Count(@, br_en)]
  /\ bht' = [i \in Bits |-> IF i = 0 THEN br_en ELSE bht[i - 1]]
  /\ selector' = Select(br_en)

(* MUTANT: one register short.                                             *)
Shift_OneStage ==
  /\ lbht_decode' = local_pred  /\ lbht_ex' = local_pred
  /\ gbht_decode' = global_pred /\ gbht_ex' = global_pred

Shift ==
  /\ lbht_decode' = local_pred  /\ lbht_ex' = lbht_decode
  /\ gbht_decode' = global_pred /\ gbht_ex' = gbht_decode

(* The clock edge, with all_stall high.                                    *)
Clock(tournament_update, br_en, pc_ex) ==
  /\ IF tournament_update THEN Train(br_en, pc_ex)
     ELSE UNCHANGED <<local_pht, global_pht, bht, selector>>
  /\ Shift

=============================================================================
