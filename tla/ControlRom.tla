----------------------------- MODULE ControlRom -----------------------------
(***************************************************************************)
(* hdl/cpu/control_rom.sv: the control word of an instruction.             *)
(*                                                                         *)
(* An instruction is a record [kind, rd, rs1, rs2].  Kinds are opcodes,    *)
(* with op_imm and op_reg split into the arithmetic functions, whose       *)
(* result is the ALU's, and the set-less-than functions, whose result is   *)
(* the comparator's.  The widths of loads and stores, the ALU function and *)
(* the immediates do not matter to hazards and are left out.               *)
(***************************************************************************)
Kinds == {"lui", "auipc", "jal", "jalr", "br", "load", "store",
          "imm", "slti", "reg", "slt"}

(* The fields that reach the control word; the others stay at zero.        *)
UsesRs1    == {"jalr", "br", "load", "store", "imm", "slti", "reg", "slt"}
UsesRs2    == {"br", "store", "reg", "slt"}
Regwrite   == Kinds \ {"br", "store"}

Instrs(K, Reg) ==
  {i \in [kind : K, rd : Reg, rs1 : Reg, rs2 : Reg] :
     /\ i.kind \notin Regwrite => i.rd = 0
     /\ i.kind \notin UsesRs1 => i.rs1 = 0
     /\ i.kind \notin UsesRs2 => i.rs2 = 0}

(* A pipeline register after reset or flush: the all-zero control word.    *)
Bubble == [kind |-> "none", rd |-> 0, rs1 |-> 0, rs2 |-> 0]

Regwrite_en(i) == i.kind \in Regwrite
mem_read(i)    == i.kind = "load"
mem_write(i)   == i.kind = "store"

(* The multiplexer selections.  "slt" keeps the default ALU operands.      *)
alumux1_sel(i) == IF i.kind \in {"auipc", "jal", "br"} THEN "pc_out" ELSE "rs1_out"
alumux2_sel(i) == IF i.kind = "reg" THEN "rs2_out" ELSE "imm"
cmpmux_sel(i)  == IF i.kind = "slti" THEN "i_imm" ELSE "rs2_out"

regfilemux_sel(i) ==
  CASE i.kind = "lui" -> "u_imm"
    [] i.kind \in {"jal", "jalr"} -> "pc_plus4"
    [] i.kind = "load" -> "lw"
    [] i.kind \in {"slti", "slt"} -> "br_en"
    [] OTHER -> "alu_out"

(* Only op_lui and op_load set this one.                                   *)
mem_rdatamux_sel(i) ==
  CASE i.kind = "lui" -> "u_imm"
    [] i.kind = "load" -> "lw"
    [] OTHER -> "alu_out"

=============================================================================
