--------------------------- MODULE PipelineProofs ---------------------------
(***************************************************************************)
(* Proofs about Pipeline, for every set of registers and every set of      *)
(* instruction kinds.                                                      *)
(***************************************************************************)
EXTENDS Pipeline, TLAPS

-----------------------------------------------------------------------------
(* The inductive invariant.                                                *)

(* Only an instruction that writes a register names one, so a match of rd  *)
(* with a source register needs no look at Regwrite.                       *)
WritersOnly ==
  \A x \in {id_ex, ex_mem, mem_wb} : ~Regwrite_en(x) => x.rd = 0

(* x0 is zero in the register file and in the instruction set's registers. *)
ZeroIsZero == regs[0] = 0 /\ isa[0] = 0

(* The newest value of a register is the result of the youngest older      *)
(* instruction that writes it: the one in MEM, the one in WB, or the one   *)
(* that wrote the register file last.                                      *)
ResultsCurrent ==
  /\ ex_mem.rd # 0 => isa[ex_mem.rd] = ex_mem.val
  /\ mem_wb.rd # 0 /\ mem_wb.rd # ex_mem.rd => isa[mem_wb.rd] = mem_wb.val

(* The data of a load in WB was captured when it left MEM.                 *)
LoadCaptured == mem_wb.kind = "load" => data_wb = mem_wb.val

(* What decode read is current unless an instruction in MEM or WB writes   *)
(* the register: the transparent register file has covered the one that    *)
(* was in WB then.                                                         *)
ReadCurrent(rs, val) == ~InMem(rs) /\ ~InWb(rs) => val = isa[rs]

DecodedCurrent == ReadCurrent(id_ex.rs1, rs1_val) /\ ReadCurrent(id_ex.rs2, rs2_val)

(* Behind a jump in MEM is the slot that it cleared.                       *)
JumpCleared == ex_mem.kind \in {"jal", "jalr"} => id_ex = Bubble

IndInv ==
  /\ TypeOK
  /\ WritersOnly
  /\ ZeroIsZero
  /\ RegfileCurrent
  /\ ResultsCurrent
  /\ LoadCaptured
  /\ DecodedCurrent
  /\ JumpCleared

-----------------------------------------------------------------------------
(* Types.                                                                  *)

(* An instruction of the program has its fields, and names a destination   *)
(* only if it writes one.                                                  *)
LEMMA WordFields ==
  ASSUME NEW x \in Words \cup {Bubble}
  PROVE  /\ x.kind \in KindSet \cup {"none"}
         /\ x.rd \in Reg /\ x.rs1 \in Reg /\ x.rs2 \in Reg
         /\ ~Regwrite_en(x) => x.rd = 0
BY RegHasZero DEF Words, Instrs, Bubble, Regwrite_en

(* The reset state is well typed.                                          *)
LEMMA TypeInit == Init => TypeOK
<1> SUFFICES ASSUME Init PROVE TypeOK
  OBVIOUS
<1>1. ex_mem \in Result /\ mem_wb \in Result
  BY RegHasZero DEF Init, Empty, Result, Bit
<1>2. regs \in [Reg -> Bit] /\ isa \in [Reg -> Bit] /\ regs[0] = 0
  BY RegHasZero DEF Init, Bit
<1>3. fetched \in BOOLEAN /\ data_resp \in BOOLEAN
  BY DEF Init
<1> QED
  BY <1>1, <1>2, <1>3 DEF Init, TypeOK, Bit

(* Every multiplexer of the write-back and memory stages carries a bit.    *)
LEMMA SignalBits ==
  ASSUME TypeOK
  PROVE  /\ regfilemux_out \in Bit /\ data_r \in Bit
         /\ \A rs \in Reg : reg_out(rs) \in Bit
<1>1. ex_mem.val \in Bit /\ mem_wb.val \in Bit /\ data_wb \in Bit /\ regs \in [Reg -> Bit]
  BY DEF TypeOK, Result
<1>2. regfilemux_out \in Bit /\ data_r \in Bit
  BY <1>1 DEF regfilemux_out, data_r, Bit
<1> QED
  BY <1>1, <1>2 DEF reg_out, Bit

(* Every cycle keeps the types.                                            *)
LEMMA TypeStep == TypeOK /\ [Next]_vars => TypeOK'
<1> SUFFICES ASSUME TypeOK, [Next]_vars PROVE TypeOK'
  OBVIOUS
<1>1. CASE Advance
  <2>1. regs' \in [Reg -> Bit] /\ regs'[0] = 0
    BY <1>1, SignalBits, RegHasZero DEF Advance, WriteBack, TypeOK, Bit
  <2>2. mem_wb' \in Result /\ data_wb' \in Bit
    BY <1>1, SignalBits DEF Advance, Memory, TypeOK
  <2>3. ex_mem' \in Result /\ isa' \in [Reg -> Bit]
    <3>1. id_ex.kind \in KindSet \cup {"none"} /\ id_ex.rd \in Reg
      BY WordFields DEF TypeOK
    <3> QED
      BY <1>1, <3>1 DEF Advance, Execute, TypeOK, Result, Bit
  <2>4. /\ id_ex' \in Words \cup {Bubble} /\ fetched' \in BOOLEAN
        /\ rs1_val' \in Bit /\ rs2_val' \in Bit
    <3>1. CASE Decode
      <4>1. id_ex' \in Words \cup {Bubble} /\ fetched' \in BOOLEAN
        BY <3>1 DEF Decode
      <4>2. id_ex'.rs1 \in Reg /\ id_ex'.rs2 \in Reg
        BY <4>1, WordFields
      <4> QED
        BY <3>1, <4>1, <4>2, SignalBits DEF Decode
    <3>2. CASE Flush
      BY <3>2 DEF Flush, Bit
    <3> QED
      BY <1>1, <3>1, <3>2 DEF Advance
  <2>5. data_resp' \in BOOLEAN
    BY <1>1 DEF Advance, Port
  <2> QED
    BY <2>1, <2>2, <2>3, <2>4, <2>5 DEF TypeOK
<1>2. CASE Answer
  BY <1>2 DEF Answer, TypeOK
<1>3. CASE UNCHANGED vars
  BY <1>3 DEF vars, TypeOK
<1> QED
  BY <1>1, <1>2, <1>3 DEF Next

(* The pipeline registers keep their types, and x0 is never written.       *)
THEOREM TypeCorrect == Spec => []TypeOK
BY TypeInit, TypeStep, PTL DEF Spec, SafeSpec


-----------------------------------------------------------------------------
(* What a step does to the stages.                                         *)

(* What is written back is the result of the instruction in WB.            *)
LEMMA WritesResult ==
  ASSUME LoadCaptured
  PROVE  regfilemux_out = mem_wb.val
<1>1. regfilemux_sel(mem_wb) = "lw" => mem_wb.kind = "load"
  BY DEF regfilemux_sel
<1> QED
  BY <1>1 DEF regfilemux_out, LoadCaptured

(* Decode reads the newest value of every register but those that the      *)
(* instructions in EX and MEM are about to write.                          *)
LEMMA DecodeReads ==
  ASSUME IndInv, NEW rs \in Reg, ex_mem.rd # rs \/ rs = 0
  PROVE  reg_out(rs) = isa[rs]
<1>1. CASE rs = 0
  BY <1>1 DEF IndInv, ZeroIsZero, reg_out
<1>2. CASE rs # 0 /\ mem_wb.rd = rs
  BY <1>2, WritesResult DEF IndInv, ResultsCurrent, reg_out
<1>3. CASE rs # 0 /\ mem_wb.rd # rs
  BY <1>3 DEF IndInv, RegfileCurrent, reg_out
<1> QED
  BY <1>1, <1>2, <1>3

(* The inductive invariant holds after reset.                              *)
LEMMA InvInit == Init => IndInv
<1> SUFFICES ASSUME Init PROVE IndInv
  OBVIOUS
<1>1. TypeOK
  BY TypeInit
<1>2. WritersOnly
  BY DEF Init, WritersOnly, Bubble, Empty
<1>3. ZeroIsZero /\ RegfileCurrent
  BY RegHasZero DEF Init, ZeroIsZero, RegfileCurrent
<1>4. ResultsCurrent /\ LoadCaptured /\ JumpCleared
  BY DEF Init, ResultsCurrent, LoadCaptured, JumpCleared, Empty
<1>5. DecodedCurrent
  BY RegHasZero DEF Init, DecodedCurrent, ReadCurrent, Bubble
<1> QED
  BY <1>1, <1>2, <1>3, <1>4, <1>5 DEF IndInv

(* All stages move on: each conjunct of the invariant.                     *)
LEMMA InvAdvance == IndInv /\ Advance => IndInv'
<1> SUFFICES ASSUME IndInv, Advance PROVE IndInv'
  OBVIOUS
<1>1. TypeOK /\ TypeOK'
  BY TypeStep DEF IndInv, Next
<1>2. /\ id_ex.kind \in KindSet \cup {"none"} /\ id_ex.rd \in Reg
      /\ ~Regwrite_en(id_ex) => id_ex.rd = 0
      /\ ex_mem.rd \in Reg /\ mem_wb.rd \in Reg
      /\ regs \in [Reg -> Bit] /\ isa \in [Reg -> Bit]
  BY <1>1, WordFields DEF TypeOK, Result
<1>3. /\ mem_wb' = ex_mem
      /\ ex_mem'.kind = id_ex.kind /\ ex_mem'.rd = id_ex.rd
      /\ isa' = IF id_ex.rd = 0 THEN isa ELSE [isa EXCEPT ![id_ex.rd] = ex_mem'.val]
  BY DEF Advance, Memory, Execute
<1>4. id_ex' \in Words \cup {Bubble}
  BY <1>1 DEF TypeOK
<1>5. WritersOnly'
  <2>1. ~Regwrite_en(id_ex)' => id_ex'.rd = 0
    BY <1>4, WordFields DEF Regwrite_en
  <2> QED
    BY <1>2, <1>3, <2>1 DEF IndInv, WritersOnly, Regwrite_en
<1>6. ZeroIsZero'
  BY <1>1, <1>2, <1>3, RegHasZero DEF IndInv, ZeroIsZero, TypeOK
<1>7. RegfileCurrent'
  <2> SUFFICES ASSUME NEW r \in Reg, ex_mem'.rd # r, mem_wb'.rd # r
               PROVE  regs'[r] = isa'[r]
    BY DEF RegfileCurrent
  <2>1. isa'[r] = isa[r]
    BY <1>2, <1>3
  <2>2. ex_mem.rd # r
    BY <1>3
  <2>3. CASE r = 0
    BY <1>6, <2>3 DEF ZeroIsZero
  <2>4. CASE r # 0 /\ mem_wb.rd = r
    <3>1. Regwrite_en(mem_wb)
      BY <2>4 DEF IndInv, WritersOnly
    <3>2. regs'[r] = mem_wb.val
      BY <1>2, <2>4, <3>1, WritesResult DEF Advance, WriteBack, IndInv
    <3> QED
      BY <2>1, <2>2, <2>4, <3>2 DEF IndInv, ResultsCurrent
  <2>5. CASE r # 0 /\ mem_wb.rd # r
    <3>1. regs'[r] = regs[r]
      BY <1>2, <2>5 DEF Advance, WriteBack
    <3> QED
      BY <2>1, <2>2, <2>5, <3>1 DEF IndInv, RegfileCurrent
  <2> QED
    BY <2>3, <2>4, <2>5
<1>8. ResultsCurrent'
  BY <1>2, <1>3 DEF IndInv, ResultsCurrent
<1>9. LoadCaptured'
  <2> SUFFICES ASSUME ex_mem.kind = "load" PROVE data_wb' = ex_mem.val
    BY <1>3 DEF LoadCaptured
  <2>1. data_resp
    BY DEF Advance, Ready, stall_datamem, mem_read
  <2> QED
    BY <2>1 DEF Advance, Memory, data_r
<1>10. DecodedCurrent'
  <2>1. CASE Decode
    <3>1. ASSUME NEW rs \in Reg, ~InMem(rs)', ~InWb(rs)'
          PROVE  reg_out(rs) = isa'[rs]
      <4>1. rs = 0 \/ (id_ex.rd # rs /\ ex_mem.rd # rs)
        BY <1>3, <3>1 DEF InMem, InWb
      <4>2. isa'[rs] = isa[rs]
        BY <1>2, <1>3, <4>1
      <4> QED
        BY <4>1, <4>2, DecodeReads
    <3>2. id_ex'.rs1 \in Reg /\ id_ex'.rs2 \in Reg
      BY <1>4, WordFields
    <3>3. rs1_val' = reg_out(id_ex'.rs1) /\ rs2_val' = reg_out(id_ex'.rs2)
      BY <2>1 DEF Decode
    <3> QED
      BY <3>1, <3>2, <3>3 DEF DecodedCurrent, ReadCurrent, InMem, InWb
  <2>2. CASE Flush
    BY <1>6, <2>2 DEF Flush, Bubble, DecodedCurrent, ReadCurrent, ZeroIsZero
  <2> QED
    BY <2>1, <2>2 DEF Advance
<1>11. JumpCleared'
  BY <1>3 DEF Advance, Decode, Flush, JumpCleared
<1> QED
  BY <1>1, <1>5, <1>6, <1>7, <1>8, <1>9, <1>10, <1>11 DEF IndInv

(* An answer of the data cache changes the port and nothing else.          *)
LEMMA InvAnswer == IndInv /\ (Answer \/ UNCHANGED vars) => IndInv'
<1> SUFFICES ASSUME IndInv, Answer \/ UNCHANGED vars PROVE IndInv'
  OBVIOUS
<1>1. TypeOK'
  BY TypeStep DEF IndInv, Next
<1>2. UNCHANGED <<id_ex, rs1_val, rs2_val, ex_mem, mem_wb, data_wb, regs, isa>>
  BY DEF Answer, vars
<1> QED
  BY <1>1, <1>2 DEF IndInv, WritersOnly, Regwrite_en, ZeroIsZero, RegfileCurrent, ResultsCurrent,
                    LoadCaptured, DecodedCurrent, ReadCurrent, InMem, InWb, JumpCleared

(* The invariant that relates the values on their way to the registers of  *)
(* the instruction set.                                                    *)
THEOREM Invariance == Spec => []IndInv
<1>1. IndInv /\ [Next]_vars => IndInv'
  BY InvAdvance, InvAnswer DEF Next
<1> QED
  BY InvInit, <1>1, PTL DEF Spec, SafeSpec

(* The register file has the architectural value of every register that no *)
(* instruction in flight writes.                                           *)
THEOREM RegisterFile == Spec => []RegfileCurrent
<1>1. IndInv => RegfileCurrent
  BY DEF IndInv
<1> QED
  BY Invariance, <1>1, PTL

-----------------------------------------------------------------------------
(* The forwarding multiplexers.                                            *)

(* An instruction in MEM that writes a register has its result on the ALU  *)
(* output, unless it is one of those named; lui and an answered load have  *)
(* it on mem_rdatamux_out.                                                 *)
LEMMA ResultInMem ==
  ASSUME IndInv, ex_mem.rd # 0
  PROVE  /\ ex_mem.kind \notin {"lui", "load", "jal", "jalr", "slt", "slti"} => data_addr = ex_mem.val
         /\ ex_mem.kind = "lui" => mem_rdatamux_out = ex_mem.val
         /\ ex_mem.kind = "load" /\ data_resp => mem_rdatamux_out = ex_mem.val
<1>1. ex_mem.kind \notin {"lui", "load", "jal", "jalr", "slt", "slti"} => regfilemux_sel(ex_mem) = "alu_out"
  BY DEF regfilemux_sel
<1>2. ex_mem.kind = "lui" => regfilemux_sel(ex_mem) = "u_imm" /\ mem_rdatamux_sel(ex_mem) = "u_imm"
  BY DEF regfilemux_sel, mem_rdatamux_sel
<1>3. ex_mem.kind = "load" => mem_rdatamux_sel(ex_mem) = "lw"
  BY DEF mem_rdatamux_sel
<1> QED
  BY <1>1, <1>2, <1>3 DEF data_addr, mem_rdatamux_out, data_r, Signal

(* Which instruction holds the newest value of a source register.          *)
LEMMA Newest ==
  ASSUME IndInv, NEW rs \in Reg
  PROVE  /\ InMem(rs) => isa[rs] = ex_mem.val /\ Regwrite_en(ex_mem)
         /\ ~InMem(rs) /\ InWb(rs) => isa[rs] = regfilemux_out /\ Regwrite_en(mem_wb)
<1>1. InMem(rs) => isa[rs] = ex_mem.val
  BY DEF IndInv, ResultsCurrent, InMem
<1>2. ~InMem(rs) /\ InWb(rs) => isa[rs] = regfilemux_out
  BY WritesResult DEF IndInv, ResultsCurrent, InMem, InWb
<1>3. /\ InMem(rs) => Regwrite_en(ex_mem)
      /\ InWb(rs) => Regwrite_en(mem_wb)
  BY DEF IndInv, WritersOnly, InMem, InWb
<1> QED
  BY <1>1, <1>2, <1>3

(* A load in MEM has been answered when the pipeline advances.             *)
LEMMA LoadAnswered == Ready /\ ex_mem.kind = "load" => data_resp
BY DEF Ready, stall_datamem, mem_read

(* With a jump in MEM the slot in EX is empty.                             *)
LEMMA NoJumpBehind ==
  ASSUME IndInv, id_ex.kind # "none"
  PROVE  ex_mem.kind \notin {"jal", "jalr"}
BY DEF IndInv, JumpCleared, Bubble

(* The source registers of the instruction in EX, and what decode read.    *)
LEMMA Sources ==
  ASSUME IndInv
  PROVE  /\ id_ex.rs1 \in Reg /\ id_ex.rs2 \in Reg
         /\ ReadCurrent(id_ex.rs1, rs1_val) /\ ReadCurrent(id_ex.rs2, rs2_val)
BY WordFields DEF IndInv, TypeOK, DecodedCurrent

(* The first operand of the ALU, from register file, bypass or forwarding. *)
LEMMA AluRs1 == IndInv => AluRs1Current
<1> SUFFICES ASSUME IndInv, Ready, id_ex.kind \in {"jalr", "load", "store", "imm", "reg"},
                    ~(InMem(id_ex.rs1) /\ ex_mem.kind \in SetLess)
             PROVE  forward1_out = isa[id_ex.rs1]
  BY DEF AluRs1Current
<1>1. alumux1_sel(id_ex) = "rs1_out"
  BY DEF alumux1_sel
<1>2. CASE InMem(id_ex.rs1)
  <2>1. isa[id_ex.rs1] = ex_mem.val /\ Regwrite_en(ex_mem) /\ ex_mem.rd # 0
    BY <1>2, Newest, Sources DEF InMem
  <2>2. ex_mem.kind \notin {"jal", "jalr", "slt", "slti"}
    BY <1>2, NoJumpBehind DEF SetLess
  <2>3. CASE ex_mem.kind = "lui"
    <3>1. f1 = "mem_rdatamux_out"
      BY <1>1, <1>2, <2>1, <2>3 DEF f1, mem_read
    <3> QED
      BY <2>1, <2>3, <3>1, ResultInMem DEF forward1_out, Forward
  <2>4. CASE ex_mem.kind = "load"
    <3>1. f1 = "mem_rdatamux_out" /\ data_resp
      BY <1>1, <1>2, <2>1, <2>4, LoadAnswered DEF f1, mem_read
    <3> QED
      BY <2>1, <2>4, <3>1, ResultInMem DEF forward1_out, Forward
  <2>5. CASE ex_mem.kind \notin {"lui", "load"}
    <3>1. f1 = "data_addr"
      BY <1>1, <1>2, <2>1, <2>5 DEF f1, mem_read
    <3> QED
      BY <2>1, <2>2, <2>5, <3>1, ResultInMem DEF forward1_out, Forward
  <2> QED
    BY <2>3, <2>4, <2>5
<1>3. CASE ~InMem(id_ex.rs1) /\ InWb(id_ex.rs1)
  <2>1. f1 = "regfilemux_out" /\ isa[id_ex.rs1] = regfilemux_out
    BY <1>1, <1>3, Newest, Sources DEF f1
  <2> QED
    BY <2>1 DEF forward1_out, Forward
<1>4. CASE ~InMem(id_ex.rs1) /\ ~InWb(id_ex.rs1)
  <2>1. f1 = "stay"
    BY <1>1, <1>4 DEF f1
  <2> QED
    BY <1>4, <2>1, Sources DEF forward1_out, Forward, ReadCurrent
<1> QED
  BY <1>2, <1>3, <1>4

(* The second operand of the ALU.                                          *)
LEMMA AluRs2 == IndInv => AluRs2Current
<1> SUFFICES ASSUME IndInv, Ready, id_ex.kind = "reg",
                    ~(InMem(id_ex.rs2) /\ ex_mem.kind \in SetLess \cup {"lui"}),
                    ~(InWb(id_ex.rs2) /\ mem_wb.kind = "load" /\ ~InMem(id_ex.rs2))
             PROVE  forward2_out = isa[id_ex.rs2]
  BY DEF AluRs2Current
<1>1. alumux2_sel(id_ex) = "rs2_out"
  BY DEF alumux2_sel
<1>2. CASE InMem(id_ex.rs2)
  <2>1. isa[id_ex.rs2] = ex_mem.val /\ Regwrite_en(ex_mem) /\ ex_mem.rd # 0
    BY <1>2, Newest, Sources DEF InMem
  <2>2. ex_mem.kind \notin {"lui", "jal", "jalr", "slt", "slti"}
    BY <1>2, NoJumpBehind DEF SetLess
  <2>3. CASE ex_mem.kind = "load"
    <3>1. f2 = "mem_rdatamux_out" /\ data_resp
      BY <1>1, <1>2, <2>1, <2>3, LoadAnswered DEF f2, mem_read
    <3> QED
      BY <2>1, <2>3, <3>1, ResultInMem DEF forward2_out, Forward
  <2>4. CASE ex_mem.kind # "load"
    <3>1. f2 = "data_addr"
      BY <1>1, <1>2, <2>1, <2>4 DEF f2, mem_read
    <3> QED
      BY <2>1, <2>2, <2>4, <3>1, ResultInMem DEF forward2_out, Forward
  <2> QED
    BY <2>3, <2>4
<1>3. CASE ~InMem(id_ex.rs2) /\ InWb(id_ex.rs2)
  <2>1. f2 = "regfilemux_out" /\ isa[id_ex.rs2] = regfilemux_out
    BY <1>1, <1>3, Newest, Sources DEF f2, mem_read
  <2> QED
    BY <2>1 DEF forward2_out, Forward
<1>4. CASE ~InMem(id_ex.rs2) /\ ~InWb(id_ex.rs2)
  <2>1. f2 = "stay"
    BY <1>1, <1>4 DEF f2
  <2> QED
    BY <1>4, <2>1, Sources DEF forward2_out, Forward, ReadCurrent
<1> QED
  BY <1>2, <1>3, <1>4

(* The value that a store hands to memory.                                 *)
LEMMA StoreData == IndInv => StoreDataCurrent
<1> SUFFICES ASSUME IndInv, Ready, id_ex.kind = "store",
                    ~(InMem(id_ex.rs2) /\ ex_mem.kind \in SetLess \cup {"lui", "load"}),
                    ~(id_ex.rs1 = id_ex.rs2 /\ (InMem(id_ex.rs2) \/ InWb(id_ex.rs2)))
             PROVE  forward3_out = isa[id_ex.rs2]
  BY DEF StoreDataCurrent
<1>1. CASE InMem(id_ex.rs2)
  <2>1. isa[id_ex.rs2] = ex_mem.val /\ Regwrite_en(ex_mem) /\ ex_mem.rd # 0
    BY <1>1, Newest, Sources DEF InMem
  <2>2. ex_mem.kind \notin {"lui", "load", "jal", "jalr", "slt", "slti"}
    BY <1>1, NoJumpBehind DEF SetLess
  <2>3. StoreOf(ex_mem) /\ ~mem_read(ex_mem)
    BY <1>1, <2>1, <2>2 DEF StoreOf, InMem, mem_read, mem_write
  <2>4. f3 = "data_addr"
    BY <1>1, <2>3 DEF f3
  <2> QED
    BY <2>1, <2>2, <2>4, ResultInMem DEF forward3_out, Forward
<1>2. CASE ~InMem(id_ex.rs2) /\ InWb(id_ex.rs2)
  <2>1. isa[id_ex.rs2] = regfilemux_out /\ StoreOf(mem_wb)
    BY <1>2, Newest, Sources DEF StoreOf, InWb, mem_write
  <2>2. f3 = "regfilemux_out"
    BY <1>2, <2>1 DEF f3
  <2> QED
    BY <2>1, <2>2 DEF forward3_out, Forward
<1>3. CASE ~InMem(id_ex.rs2) /\ ~InWb(id_ex.rs2)
  <2>1. f3 = "stay"
    BY <1>3 DEF f3
  <2> QED
    BY <1>3, <2>1, Sources DEF forward3_out, Forward, ReadCurrent
<1> QED
  BY <1>1, <1>2, <1>3

(* The selector of a comparator operand, which both sides share.           *)
LEMMA Compared ==
  ASSUME IndInv, Ready, id_ex.kind = "br", NEW rs \in Reg, NEW val, ReadCurrent(rs, val),
         ~(InMem(rs) /\ ex_mem.kind \in SetLess \cup {"lui"})
  PROVE  Forward(fcmp(rs), val) = isa[rs]
<1>1. CASE InMem(rs)
  <2>1. isa[rs] = ex_mem.val /\ ex_mem.rd # 0
    BY <1>1, Newest DEF InMem
  <2>2. ex_mem.kind \notin {"lui", "jal", "jalr", "slt", "slti"}
    BY <1>1, NoJumpBehind DEF SetLess
  <2>3. CASE ex_mem.kind = "load"
    <3>1. fcmp(rs) = "mem_rdatamux_out" /\ data_resp
      BY <1>1, <2>3, LoadAnswered DEF fcmp, mem_read
    <3> QED
      BY <2>1, <2>3, <3>1, ResultInMem DEF Forward
  <2>4. CASE ex_mem.kind # "load"
    <3>1. fcmp(rs) = "data_addr"
      BY <1>1, <2>4 DEF fcmp, mem_read
    <3> QED
      BY <2>1, <2>2, <2>4, <3>1, ResultInMem DEF Forward
  <2> QED
    BY <2>3, <2>4
<1>2. CASE ~InMem(rs) /\ InWb(rs)
  <2>1. fcmp(rs) = "regfilemux_out" /\ isa[rs] = regfilemux_out
    BY <1>2, Newest DEF fcmp
  <2> QED
    BY <2>1 DEF Forward
<1>3. CASE ~InMem(rs) /\ ~InWb(rs)
  <2>1. fcmp(rs) = "stay"
    BY <1>3 DEF fcmp
  <2> QED
    BY <1>3, <2>1 DEF Forward, ReadCurrent
<1> QED
  BY <1>1, <1>2, <1>3

(* The operands that a branch compares are those of the ALU.               *)
LEMMA BranchOperands == IndInv => BranchOperandsCurrent
BY Compared, Sources DEF BranchOperandsCurrent, forward4_out, forward5_out, f4, f5

(* So are those of slt and its variants.                                   *)
LEMMA SltOperands == IndInv => SltOperandsCurrent
<1> SUFFICES ASSUME IndInv, Ready PROVE SltOperandsCurrent
  BY DEF SltOperandsCurrent
<1>1. id_ex.kind \in SetLess => f4 = "stay" /\ f5 = "stay"
  BY DEF f4, f5, fcmp, SetLess
<1> QED
  BY <1>1, Sources DEF SltOperandsCurrent, forward4_out, forward5_out, Forward, ReadCurrent, SetLess

(* Whatever instructions are in flight and whichever cache keeps the       *)
(* pipeline waiting, every operand outside the named gaps is the           *)
(* architectural value of its register when it is used.                    *)
THEOREM Operands == Spec => []OperandsCurrent
<1>1. IndInv => OperandsCurrent
  BY AluRs1, AluRs2, StoreData, BranchOperands, SltOperands DEF OperandsCurrent, IndInv
<1> QED
  BY Invariance, <1>1, PTL

=============================================================================
