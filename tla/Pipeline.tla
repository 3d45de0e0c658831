------------------------------ MODULE Pipeline ------------------------------
(***************************************************************************)
(* The data hazards of hdl/cpu/datapath.sv: the instructions in EX, MEM    *)
(* and WB, the register file, the forwarding multiplexers and the stalls.  *)
(* All pipeline registers load together, in the cycles in which all_stall  *)
(* is high.                                                                *)
(*                                                                         *)
(* Values are one bit.  The result of an instruction is a free choice, and *)
(* each of its signals that is not its result carries the other bit, so a  *)
(* multiplexer that picks the wrong signal is always noticed.  Which       *)
(* instruction comes next, which branches were mispredicted and when the   *)
(* caches answer are free too.                                             *)
(***************************************************************************)
EXTENDS Integers

CONSTANTS
  KindSet,       \* the kinds of instruction the program uses
  Reg            \* register numbers

VARIABLES
  fetched,       \* IF_ID holds an instruction and not the cleared word
  id_ex,         \* ID_EX_ctrl
  rs1_val,       \* ID_EX_rs1, and ID_EX_alumux1 where rs1_out is selected
  rs2_val,       \* ID_EX_rs2, and ID_EX_alumux2 where rs2_out is selected
  ex_mem,        \* EX_MEM_ctrl and the instruction's result
  mem_wb,        \* MEM_WB_ctrl and the instruction's result
  data_wb,       \* MEM_WB_mem_rdata
  regs,          \* the register file
  data_resp,     \* input port: the data cache answers
  isa            \* history: the registers after every instruction older than EX

INSTANCE Forwarding

ASSUME KindsAreDecoded == KindSet \subseteq Kinds
ASSUME RegHasZero == 0 \in Reg

vars == <<fetched, id_ex, rs1_val, rs2_val, ex_mem, mem_wb, data_wb, regs, data_resp, isa>>

Words  == Instrs(KindSet, Reg)      \* the instructions of the program
Bit    == {0, 1}
Result == [kind : KindSet \cup {"none"}, rd : Reg, val : Bit]

Empty == [kind |-> "none", rd |-> 0, val |-> 0]

-----------------------------------------------------------------------------
(* Multiplexers.                                                           *)

Signal(x, name) == IF name = regfilemux_sel(x) THEN x.val ELSE 1 - x.val

data_addr == Signal(ex_mem, "alu_out")
data_r    == IF data_resp THEN ex_mem.val ELSE 1 - ex_mem.val

mem_rdatamux_out ==
  IF mem_rdatamux_sel(ex_mem) = "lw" THEN data_r
  ELSE Signal(ex_mem, mem_rdatamux_sel(ex_mem))

regfilemux_out == IF regfilemux_sel(mem_wb) = "lw" THEN data_wb ELSE mem_wb.val

Forward(sel, stay) ==
  CASE sel = "data_addr" -> data_addr
    [] sel = "mem_rdatamux_out" -> mem_rdatamux_out
    [] sel = "regfilemux_out" -> regfilemux_out
    [] sel = "stay" -> stay

forward1_out == Forward(f1, rs1_val)
forward2_out == Forward(f2, rs2_val)
forward3_out == Forward(f3, rs2_val)
forward4_out == Forward(f4, rs1_val)
forward5_out == Forward(f5, rs2_val)

(* The transparent register file.                                          *)
reg_out(rs) ==
  IF rs = 0 THEN 0 ELSE IF mem_wb.rd = rs THEN regfilemux_out ELSE regs[rs]

-----------------------------------------------------------------------------
(* Stalls.                                                                 *)

stall_datamem == (mem_read(ex_mem) \/ mem_write(ex_mem)) => data_resp

(* all_stall but for stall_pc, the answer of the instruction cache.        *)
Ready == stall_datamem /\ stall_ex_mem /\ stall_mem_wb

-----------------------------------------------------------------------------
(* The clock edge.                                                         *)

WriteBack ==
  regs' = IF Regwrite_en(mem_wb) /\ mem_wb.rd # 0
          THEN [regs EXCEPT ![mem_wb.rd] = regfilemux_out] ELSE regs

(* MUTANT: the load data register keeps the data of the load before.       *)
Memory_NoCapture ==
  /\ mem_wb' = ex_mem
  /\ data_wb' = IF data_resp /\ mem_wb.kind # "load" THEN data_r ELSE data_wb

Memory ==
  /\ mem_wb' = ex_mem
  /\ data_wb' = IF data_resp THEN data_r ELSE data_wb

Execute ==
  \E v \in IF Regwrite_en(id_ex) THEN Bit ELSE {0} :
    /\ ex_mem' = [kind |-> id_ex.kind, rd |-> id_ex.rd, val |-> v]
    /\ isa' = IF id_ex.rd = 0 THEN isa ELSE [isa EXCEPT ![id_ex.rd] = v]

(* Decode, or the word that a flush left in IF_ID.                         *)
Decode ==
  /\ id_ex.kind \notin {"jal", "jalr"}
  /\ id_ex' \in IF fetched THEN Words ELSE {Bubble}
  /\ rs1_val' = reg_out(id_ex'.rs1)
  /\ rs2_val' = reg_out(id_ex'.rs2)
  /\ fetched' = TRUE

(* MUTANT: the word in decode survives.                                    *)
Flush_KeepsDecoded ==
  /\ id_ex.kind \in {"br", "jal", "jalr"}
  /\ id_ex' \in IF fetched THEN Words ELSE {Bubble}
  /\ rs1_val' = reg_out(id_ex'.rs1)
  /\ rs2_val' = reg_out(id_ex'.rs2)
  /\ fetched' = FALSE

(* rst_flush: a mispredicted branch, or a jump, in EX.                     *)
Flush ==
  /\ id_ex.kind \in {"br", "jal", "jalr"}
  /\ id_ex' = Bubble /\ rs1_val' = 0 /\ rs2_val' = 0
  /\ fetched' = FALSE

(* The data cache answers only a request.                                  *)
Port == data_resp' \in IF mem_read(ex_mem') \/ mem_write(ex_mem') THEN BOOLEAN ELSE {FALSE}

Advance ==
  /\ Ready
  /\ WriteBack /\ Memory /\ Execute
  /\ Decode \/ Flush
  /\ Port

(* The data cache keeps its answer up until the pipeline advances.         *)
Answer ==
  /\ mem_read(ex_mem) \/ mem_write(ex_mem)
  /\ ~data_resp /\ data_resp' = TRUE
  /\ UNCHANGED <<fetched, id_ex, rs1_val, rs2_val, ex_mem, mem_wb, data_wb, regs, isa>>

Init ==
  /\ fetched = FALSE
  /\ id_ex = Bubble /\ rs1_val = 0 /\ rs2_val = 0
  /\ ex_mem = Empty /\ mem_wb = Empty /\ data_wb = 0
  /\ regs = [r \in Reg |-> 0] /\ isa = regs
  /\ data_resp = FALSE

Next == Advance \/ Answer

SafeSpec == Init /\ [][Next]_vars

(* The instruction cache answers again and again, and the data cache       *)
(* answers what it is asked: MemSystem's PipelineAdvances.                 *)
Spec == SafeSpec /\ WF_vars(Advance) /\ WF_vars(Answer)

-----------------------------------------------------------------------------
(* Properties.                                                             *)

(* The pipeline registers hold decoded instructions, and x0 is never       *)
(* written.                                                                *)
TypeOK ==
  /\ fetched \in BOOLEAN
  /\ id_ex \in Words \cup {Bubble}
  /\ rs1_val \in Bit /\ rs2_val \in Bit /\ data_wb \in Bit
  /\ ex_mem \in Result /\ mem_wb \in Result
  /\ regs \in [Reg -> Bit] /\ isa \in [Reg -> Bit]
  /\ regs[0] = 0
  /\ data_resp \in BOOLEAN

SetLess == {"slt", "slti"}

(* In the cycle in which an instruction leaves EX its first ALU operand is *)
(* the architectural value of rs1, whatever is still in flight.  Exempt: a *)
(* set-less-than in MEM, whose ALU output is forwarded for its result.     *)
AluRs1Current ==
  /\ Ready
  /\ id_ex.kind \in {"jalr", "load", "store", "imm", "reg"}
  /\ ~(InMem(id_ex.rs1) /\ ex_mem.kind \in SetLess)
  => forward1_out = isa[id_ex.rs1]

(* The same for the second ALU operand of a register operation.  Exempt:   *)
(* set-less-than and lui in MEM, and a load in WB.                         *)
AluRs2Current ==
  /\ Ready
  /\ id_ex.kind = "reg"
  /\ ~(InMem(id_ex.rs2) /\ ex_mem.kind \in SetLess \cup {"lui"})
  /\ ~(InWb(id_ex.rs2) /\ mem_wb.kind = "load" /\ ~InMem(id_ex.rs2))
  => forward2_out = isa[id_ex.rs2]

(* The data of a store is the architectural value of rs2 when the store    *)
(* leaves EX.  Exempt: set-less-than, lui and load in MEM, and a store     *)
(* whose base is its own data register.                                    *)
StoreDataCurrent ==
  /\ Ready
  /\ id_ex.kind = "store"
  /\ ~(InMem(id_ex.rs2) /\ ex_mem.kind \in SetLess \cup {"lui", "load"})
  /\ ~(id_ex.rs1 = id_ex.rs2 /\ (InMem(id_ex.rs2) \/ InWb(id_ex.rs2)))
  => forward3_out = isa[id_ex.rs2]

(* A branch compares the architectural values of both its registers.       *)
(* Exempt: set-less-than and lui in MEM.                                   *)
BranchOperandsCurrent ==
  LET bypassed(rs) == InMem(rs) /\ ex_mem.kind \in SetLess \cup {"lui"}
  IN  Ready /\ id_ex.kind = "br" =>
        /\ ~bypassed(id_ex.rs1) => forward4_out = isa[id_ex.rs1]
        /\ ~bypassed(id_ex.rs2) => forward5_out = isa[id_ex.rs2]

(* A set-less-than compares the architectural values of its registers.     *)
(* Exempt: registers that an instruction in MEM or WB writes, since the    *)
(* comparator's operands are forwarded for branches only.                  *)
SltOperandsCurrent ==
  LET inFlight(rs) == InMem(rs) \/ InWb(rs)
  IN  Ready =>
        /\ id_ex.kind \in SetLess /\ ~inFlight(id_ex.rs1) => forward4_out = isa[id_ex.rs1]
        /\ id_ex.kind = "slt" /\ ~inFlight(id_ex.rs2) => forward5_out = isa[id_ex.rs2]

(* Every operand that is used has its architectural value in the cycle in  *)
(* which its instruction leaves EX, whatever is in flight and whichever    *)
(* cache has kept the pipeline waiting: the five properties above, with    *)
(* the registers in their types and x0 never written.  What they exempt is *)
(* the subject of OperandsAlwaysCurrent.                                   *)
OperandsCurrent ==
  /\ TypeOK
  /\ AluRs1Current /\ AluRs2Current
  /\ StoreDataCurrent /\ BranchOperandsCurrent /\ SltOperandsCurrent

(* The register file has the architectural value of every register that no *)
(* instruction in flight writes: results reach it in order, and the data   *)
(* of a load survives in data_wb until its write-back, however long the    *)
(* pipeline waits.                                                         *)
RegfileCurrent ==
  \A r \in Reg : ex_mem.rd # r /\ mem_wb.rd # r => regs[r] = isa[r]

(* The stalls for memory and for operands always end.                      *)
StallsEnd == []<>Ready

(* Violated: with forwarding complete, the ALU's operands, the data of a   *)
(* store and what a set-less-than compares are current whatever is in      *)
(* flight.                                                                 *)
OperandsAlwaysCurrent ==
  Ready =>
    /\ id_ex.kind \in {"jalr", "load", "store", "imm", "reg"} => forward1_out = isa[id_ex.rs1]
    /\ id_ex.kind = "reg" => forward2_out = isa[id_ex.rs2]
    /\ id_ex.kind = "store" => forward3_out = isa[id_ex.rs2]
    /\ id_ex.kind = "slt" => forward4_out = isa[id_ex.rs1] /\ forward5_out = isa[id_ex.rs2]

=============================================================================
