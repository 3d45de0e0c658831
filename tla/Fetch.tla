------------------------------- MODULE Fetch -------------------------------
(***************************************************************************)
(* The control hazards of hdl/cpu/datapath.sv: the PC register, the        *)
(* addresses and instruction words that travel down the pipeline, the      *)
(* branch target buffer, the flush on a jump or a wrong prediction, and    *)
(* the commit signal.                                                      *)
(*                                                                         *)
(* A program maps each address to an instruction word, abstracted to what  *)
(* it does to the PC: [op, target].  Whether a branch is taken, where a    *)
(* jalr goes and what the direction predictor says are free.  A cycle in   *)
(* which all_stall is low changes no register and is a stuttering step.    *)
(***************************************************************************)
EXTENDS Naturals

CONSTANTS
  LastPC,            \* the program's addresses are 1 .. LastPC, in words
  BtbEntries,
  Programs           \* the programs to run

ASSUME AddressRange == LastPC \in Nat \ {0, 1} /\ BtbEntries \in Nat \ {0}

VARIABLES
  prog,
  pc_if_in,          \* PC_register
  if_id,             \* IF_ID_pc, decoder and IF_ID_btb: [pc, i, btb]
  id_ex,             \* ID_EX_pc, ID_EX_ctrl and ID_EX_btb: [pc, i, btb]
  ex_mem,            \* EX_MEM_pc, EX_MEM_ctrl: [pc, op]
  mem_wb,            \* MEM_WB_pc, MEM_WB_ctrl: [pc, op]
  br_addr_arr, pc_addr_arr, br_pred_arr,
  isa_pc             \* history: address of the next instruction to execute

PC       == 1 .. LastPC
RESET_PC == 1                           \* 32'h80000000, also after a flush
plus4(pc) == IF pc = LastPC THEN 1 ELSE pc + 1      \* wraps like the adder

BtbIndex    == 0 .. (BtbEntries - 1)
IndexOf(pc) == ((4 * (pc - 1)) \div 2) % BtbEntries     \* bits 5 .. 1 of the address

Instr == [op : {"br", "jal"}, target : PC] \cup [op : {"other", "jalr"}, target : {RESET_PC}]
Nop   == [op |-> "none", target |-> RESET_PC]

Slot    == [pc : PC, i : Instr \cup {Nop}, btb : BOOLEAN]
Cleared == [pc |-> RESET_PC, i |-> Nop, btb |-> FALSE]
Done    == [pc : PC, op : {"none", "other", "br", "jal", "jalr"}]

Jumps == {"jal", "jalr"}

ASSUME ProgramWords == Programs \subseteq [PC -> Instr]

B == INSTANCE Btb WITH btb_idx <- IndexOf, Zero <- 0, pc_addr_if <- pc_if_in

pipe == <<pc_if_in, if_id, id_ex, ex_mem, mem_wb>>
vars == <<prog, pipe, B!btbRegs, isa_pc>>

-----------------------------------------------------------------------------
(* Combinational signals.  target is the register value a jalr uses.       *)

i_data == prog[pc_if_in]
op_ex  == id_ex.i.op

alu_out(target) == IF op_ex = "jalr" THEN target ELSE id_ex.i.target

(* MUTANT: the comparison is not gated by the opcode.                      *)
rst_flush_NoOpcode(br_en) == br_en # id_ex.btb \/ op_ex \in Jumps

rst_flush(br_en) ==
  \/ op_ex = "br" /\ br_en # id_ex.btb
  \/ op_ex \in Jumps

(* MUTANT: a branch wrongly predicted taken resumes after the fetched one. *)
pcmux_out_NoExe(br_en, target) ==
  IF (op_ex = "br" /\ br_en /\ ~id_ex.btb) \/ op_ex \in Jumps
  THEN alu_out(target) ELSE plus4(pc_if_in)

pcmux_out(br_en, target) ==
  IF (op_ex = "br" /\ br_en /\ ~id_ex.btb) \/ op_ex \in Jumps THEN alu_out(target)
  ELSE IF op_ex = "br" /\ ~br_en /\ id_ex.btb THEN plus4(id_ex.pc)
  ELSE plus4(pc_if_in)

(* MUTANT: a prediction is followed without a target.                      *)
predicted_NoHit(pred_result) == pred_result

predicted(pred_result) == B!btb_hit /\ pred_result

pc_reg_input(br_en, target, pred_result) ==
  IF predicted(pred_result) /\ ~rst_flush(br_en) THEN B!pred_pc ELSE pcmux_out(br_en, target)

(* MUTANT: cleared slots commit too.                                       *)
commit_Cleared == ex_mem.pc # mem_wb.pc

(* The commit signal of a cycle in which the pipeline advances.            *)
commit == mem_wb.op # "none" /\ ex_mem.pc # mem_wb.pc

-----------------------------------------------------------------------------
(* The clock edge, with all_stall high.                                    *)

Registers(br_en, target, pred_result) ==
  /\ pc_if_in' = pc_reg_input(br_en, target, pred_result)
  /\ IF rst_flush(br_en)
     THEN if_id' = Cleared /\ id_ex' = Cleared
     ELSE /\ if_id' = [pc |-> pc_if_in, i |-> i_data, btb |-> predicted(pred_result)]
          /\ id_ex' = if_id
  /\ ex_mem' = [pc |-> id_ex.pc, op |-> op_ex]
  /\ mem_wb' = ex_mem

(* What the instruction in EX does to the PC by the instruction set.       *)
IsaStep(br_en, target) ==
  isa_pc' = IF op_ex = "none" THEN isa_pc
            ELSE IF op_ex = "jal" \/ (op_ex = "br" /\ br_en) THEN prog[id_ex.pc].target
            ELSE IF op_ex = "jalr" THEN target
            ELSE plus4(id_ex.pc)

Clock(br_en, target, pred_result) ==
  /\ Registers(br_en, target, pred_result)
  /\ B!Clock(op_ex = "br", br_en, id_ex.pc, alu_out(target))
  /\ IsaStep(br_en, target)
  /\ UNCHANGED prog

Init ==
  /\ prog \in Programs
  /\ pc_if_in = RESET_PC /\ if_id = Cleared /\ id_ex = Cleared
  /\ ex_mem = [pc |-> RESET_PC, op |-> "none"] /\ mem_wb = ex_mem
  /\ B!BtbInit
  /\ isa_pc = RESET_PC

Advance ==
  \E br_en \in BOOLEAN, target \in PC, pred_result \in BOOLEAN : Clock(br_en, target, pred_result)

SafeSpec == Init /\ [][Advance]_vars

(* The caches answer again and again: MemSystem's PipelineAdvances.        *)
Spec == SafeSpec /\ WF_vars(Advance)

-----------------------------------------------------------------------------
(* Properties.                                                             *)

(* Addresses stay in the program, and the PC register never takes the zero *)
(* that the BTB drives without a hit.                                      *)
TypeOK ==
  /\ pc_if_in \in PC /\ isa_pc \in PC
  /\ if_id \in Slot /\ id_ex \in Slot
  /\ ex_mem \in Done /\ mem_wb \in Done
  /\ pc_addr_arr \in [BtbIndex -> PC \cup {0}]
  /\ br_addr_arr \in [BtbIndex -> PC \cup {0}]
  /\ br_pred_arr \in [BtbIndex -> BOOLEAN]

(* The instructions that execute are those of the program in its order:    *)
(* whatever was predicted, the instruction in EX is the successor of the   *)
(* one executed before it, and is the word at its address.                 *)
FollowsIsa ==
  op_ex # "none" => id_ex.pc = isa_pc /\ id_ex.i = prog[isa_pc]

(* What a wrong prediction or a jump has cleared, and what it has not,     *)
(* leads to the next instruction: the oldest address in flight before EX   *)
(* is the one the instruction set asks for.                                *)
NextIsInFlight ==
  op_ex = "none" =>
    isa_pc = IF if_id.i.op # "none" THEN if_id.pc ELSE pc_if_in

(* Instructions commit exactly once, and cleared slots never do.  Exempt:  *)
(* an instruction whose successor in the pipeline has its own address,     *)
(* which is a jump to itself, or the reset address before a cleared slot.  *)
CommitsInstructions ==
  LET own == IF ex_mem.op = "none" THEN mem_wb.pc = RESET_PC
             ELSE prog[mem_wb.pc].op # "other" /\ ex_mem.pc = mem_wb.pc
  IN  (mem_wb.op # "none" /\ ~own => commit) /\ (commit => mem_wb.op # "none")

(* The pipeline never runs dry: instructions reach EX forever.             *)
AlwaysExecutes == []<>(op_ex # "none")

=============================================================================
