------------------------------ MODULE FrontEnd ------------------------------
(***************************************************************************)
(* The fetch path of datapath.sv with its direction predictor: Fetch and   *)
(* TournamentPredictor clocked together.  A step is a step of Fetch, whose *)
(* predictor is free, so what holds of Fetch holds here.                   *)
(***************************************************************************)
EXTENDS Naturals, Sequences

CONSTANTS LastPC, BtbEntries, Programs, Width

VARIABLES
  prog, pc_if_in, if_id, id_ex, ex_mem, mem_wb,
  br_addr_arr, pc_addr_arr, br_pred_arr, isa_pc,
  local_pht, global_pht, bht, selector, lbht_decode, lbht_ex, gbht_decode, gbht_ex,
  asked,         \* history, one for each slot of IF_ID, ID_EX: where it was
                 \* fetched and what the two tables said then
  outcomes       \* history: the last two outcomes at each local index

F == INSTANCE Fetch

ASSUME WidthAssumption == Width \in Nat \ {0}
ASSUME FetchAssumption ==
  /\ LastPC \in Nat \ {0, 1} /\ BtbEntries \in Nat \ {0}
  /\ Programs \subseteq [F!PC -> F!Instr]

(* Bits Width .. 1 of the byte address, the lowest of which is always 0.   *)
IndexBits(pc) == [b \in 0 .. (Width - 1) |-> ((4 * (pc - 1)) \div 2^(b + 1)) % 2 = 1]

P == INSTANCE TournamentPredictor WITH
       pht_idx <- IndexBits, pc_fetch <- pc_if_in, is_br <- F!i_data.op = "br"

(* What a slot has that holds no instruction.                              *)
NotAsked == [pc |-> F!RESET_PC, local |-> FALSE, global |-> FALSE]

vars == <<F!vars, P!predRegs, asked, outcomes>>

Init ==
  /\ F!Init /\ P!PredInit
  /\ asked = <<NotAsked, NotAsked>>
  /\ outcomes = [i \in P!Index |-> <<>>]

Advance ==
  \E br_en \in BOOLEAN, target \in F!PC :
    LET update == F!op_ex = "br"
        i      == IndexBits(id_ex.pc)
    IN  /\ F!Clock(br_en, target, P!pred_result)
        /\ P!Clock(update, br_en, id_ex.pc)
        /\ asked' = IF F!rst_flush(br_en) THEN <<NotAsked, NotAsked>>
                    ELSE <<[pc |-> pc_if_in, local |-> P!local_pred, global |-> P!global_pred], asked[1]>>
        /\ outcomes' = IF ~update THEN outcomes
                       ELSE [outcomes EXCEPT ![i] = IF @ = <<>> THEN <<br_en>> ELSE <<br_en, @[1]>>]

Spec == Init /\ [][Advance]_vars

-----------------------------------------------------------------------------
(* Properties.                                                             *)

(* The selector is trained on the predictions made for the very branch     *)
(* that is in EX, when it was fetched: the shift registers stay in step    *)
(* with the pipeline's slots, which a flush clears and the registers not.  *)
(* So if fetch went to the target of that branch, one of the registers     *)
(* says taken.                                                             *)
SelectorJudgesOwnPrediction ==
  F!op_ex = "br" =>
    /\ asked[2] = [pc |-> id_ex.pc, local |-> lbht_ex, global |-> gbht_ex]
    /\ id_ex.btb => lbht_ex \/ gbht_ex

(* A flushed branch trains nothing, and a local counter never wraps: after *)
(* two equal outcomes in a row the local table predicts a third.           *)
LocalTableLearns ==
  /\ P!PredTypeOK
  /\ \A i \in P!Index :
       Len(outcomes[i]) = 2 /\ outcomes[i][1] = outcomes[i][2]
         => (local_pht[i] >= 2) = outcomes[i][1]

=============================================================================
