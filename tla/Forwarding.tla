----------------------------- MODULE Forwarding -----------------------------
(***************************************************************************)
(* hdl/cpu/components/forwarding_unit.sv: for each operand that the        *)
(* instruction in EX uses, where its value comes from.  "stay" is the      *)
(* value that was read from the register file in decode.                   *)
(***************************************************************************)
EXTENDS ControlRom

VARIABLES           \* input ports
  id_ex, ex_mem, mem_wb,    \* the instructions in EX, MEM and WB
  data_resp

(* rd_ex_mem and rd_mem_wb match a source register.                        *)
InMem(rs) == ex_mem.rd # 0 /\ ex_mem.rd = rs
InWb(rs)  == mem_wb.rd # 0 /\ mem_wb.rd = rs

(* MUTANT: the older result, in WB, is preferred.                          *)
f1_OlderFirst ==
  IF alumux1_sel(id_ex) # "rs1_out" THEN "stay"
  ELSE IF InWb(id_ex.rs1) /\ Regwrite_en(mem_wb) THEN "regfilemux_out"
  ELSE IF InMem(id_ex.rs1) /\ Regwrite_en(ex_mem)
       THEN IF ex_mem.kind \in {"lui", "load"} THEN "mem_rdatamux_out" ELSE "data_addr"
  ELSE "stay"

(* FORWARD1: first ALU operand.                                            *)
f1 ==
  IF alumux1_sel(id_ex) # "rs1_out" THEN "stay"
  ELSE IF InMem(id_ex.rs1) /\ Regwrite_en(ex_mem) /\ ~mem_read(ex_mem)
       THEN IF ex_mem.kind = "lui" THEN "mem_rdatamux_out" ELSE "data_addr"
  ELSE IF InMem(id_ex.rs1) /\ Regwrite_en(ex_mem)
       THEN IF data_resp THEN "mem_rdatamux_out" ELSE "stay"
  ELSE IF InWb(id_ex.rs1) /\ Regwrite_en(mem_wb) THEN "regfilemux_out"
  ELSE "stay"

(* Second ALU operand.                                                     *)
f2 ==
  IF alumux2_sel(id_ex) # "rs2_out" THEN "stay"
  ELSE IF InMem(id_ex.rs2) /\ Regwrite_en(ex_mem) /\ ~mem_read(ex_mem) THEN "data_addr"
  ELSE IF InMem(id_ex.rs2) /\ Regwrite_en(ex_mem)
       THEN IF data_resp THEN "mem_rdatamux_out" ELSE "stay"
  ELSE IF InWb(id_ex.rs2) /\ Regwrite_en(mem_wb) /\ ~mem_read(mem_wb) THEN "regfilemux_out"
  ELSE "stay"

(* Low while an operand waits for a load in MEM.                           *)
stall_ex_mem ==
  LET waits(rs) == InMem(rs) /\ Regwrite_en(ex_mem) /\ mem_read(ex_mem) /\ ~data_resp
  IN  /\ alumux1_sel(id_ex) = "rs1_out" => ~waits(id_ex.rs1)
      /\ alumux2_sel(id_ex) = "rs2_out" => ~waits(id_ex.rs2)

(* FORWARD3: the data of a store whose base is another register.           *)
StoreOf(i) == mem_write(id_ex) /\ i.rd # id_ex.rs1 /\ Regwrite_en(i)

f3 ==
  IF InMem(id_ex.rs2) /\ StoreOf(ex_mem) /\ mem_read(ex_mem)
  THEN IF data_resp THEN "regfilemux_out" ELSE "stay"
  ELSE IF InMem(id_ex.rs2) /\ StoreOf(ex_mem) THEN "data_addr"
  ELSE IF InWb(id_ex.rs2) /\ StoreOf(mem_wb) THEN "regfilemux_out"
  ELSE "stay"

(* MUTANT: also stalls for a load that has already been answered.          *)
stall_mem_wb_Answered == ~(InMem(id_ex.rs2) /\ StoreOf(ex_mem) /\ mem_read(ex_mem))

stall_mem_wb == ~(InMem(id_ex.rs2) /\ StoreOf(ex_mem) /\ mem_read(ex_mem) /\ ~data_resp)

(* FORWARD4 and FORWARD5: the comparator's operands, for branches only.    *)
fcmp(rs) ==
  IF id_ex.kind # "br" THEN "stay"
  ELSE IF InMem(rs) /\ ~mem_read(ex_mem) THEN "data_addr"
  ELSE IF InMem(rs) THEN IF data_resp THEN "mem_rdatamux_out" ELSE "stay"
  ELSE IF InWb(rs) THEN "regfilemux_out"
  ELSE "stay"

f4 == fcmp(id_ex.rs1)
f5 == fcmp(id_ex.rs2)

=============================================================================
