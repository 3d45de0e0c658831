-------------------------------- MODULE Btb --------------------------------
(***************************************************************************)
(* hdl/cpu/Branch_Predictor/btb.sv: remembers for the last branch executed *)
(* at each index its address, its target and whether it was taken.         *)
(***************************************************************************)
CONSTANTS
  BtbIndex, btb_idx(_),    \* the index bits of an address
  Zero                     \* the reset value of the address arrays

VARIABLES
  br_addr_arr, pc_addr_arr, br_pred_arr,
  pc_addr_if               \* input port

btbRegs == <<br_addr_arr, pc_addr_arr, br_pred_arr>>

BtbInit ==
  /\ br_addr_arr = [i \in BtbIndex |-> Zero]
  /\ pc_addr_arr = [i \in BtbIndex |-> Zero]
  /\ br_pred_arr = [i \in BtbIndex |-> FALSE]

(* MUTANT: the address of the entry is not compared.                       *)
btb_hit_NoCompare == br_pred_arr[btb_idx(pc_addr_if)]

btb_hit == LET i == btb_idx(pc_addr_if)
           IN  pc_addr_if = pc_addr_arr[i] /\ br_pred_arr[i]

pred_pc == IF btb_hit THEN br_addr_arr[btb_idx(pc_addr_if)] ELSE Zero

Clock(update_btb, br_en, pc_addr_ex, br_addr) ==
  IF update_btb
  THEN LET i == btb_idx(pc_addr_ex)
       IN  /\ br_addr_arr' = [br_addr_arr EXCEPT ![i] = br_addr]
           /\ pc_addr_arr' = [pc_addr_arr EXCEPT ![i] = pc_addr_ex]
           /\ br_pred_arr' = [br_pred_arr EXCEPT ![i] = br_en]
  ELSE UNCHANGED btbRegs

=============================================================================
