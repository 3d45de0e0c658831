---------------------------- MODULE FetchProofs ----------------------------
(***************************************************************************)
(* The control flow of Fetch, for every program, every number of addresses *)
(* and of BTB entries, and every behaviour of the direction predictor.     *)
(***************************************************************************)
EXTENDS Fetch, TLAPS

Valid(s) == s.i.op # "none"

(* Where fetch went after the word in a slot.                              *)
FetchedNext(s) == IF s.btb THEN s.i.target ELSE plus4(s.pc)

(* A slot holds the word at its address, or is cleared.                    *)
SlotOK(s) ==
  /\ Valid(s) => s.i = prog[s.pc]
  /\ ~Valid(s) => s.pc = RESET_PC
  /\ s.btb => s.i.op = "br"

(* An entry that can hit holds the target of the branch at its address.    *)
EntryOK(k) ==
  br_pred_arr[k] =>
    /\ pc_addr_arr[k] \in PC
    /\ prog[pc_addr_arr[k]].op = "br"
    /\ br_addr_arr[k] = prog[pc_addr_arr[k]].target

(* The addresses in flight form a chain that starts at isa_pc.             *)
Chain ==
  /\ Valid(id_ex) => /\ Valid(if_id)
                     /\ id_ex.pc = isa_pc
                     /\ if_id.pc = FetchedNext(id_ex)
  /\ ~Valid(id_ex) => isa_pc = IF Valid(if_id) THEN if_id.pc ELSE pc_if_in
  /\ Valid(if_id) => pc_if_in = FetchedNext(if_id)

(* What commit compares: the last two slots that left EX.                  *)
Left ==
  /\ ex_mem.op = "none" => ex_mem.pc = RESET_PC
  /\ ex_mem.op # "none" => prog[ex_mem.pc].op = ex_mem.op
  /\ mem_wb.op # "none" => prog[mem_wb.pc].op = mem_wb.op
  /\ ex_mem.op = "other" => isa_pc = plus4(ex_mem.pc)
  /\ mem_wb.op = "other" /\ ex_mem.op # "none" => ex_mem.pc = plus4(mem_wb.pc)

IndInv ==
  /\ TypeOK
  /\ prog \in [PC -> Instr]
  /\ SlotOK(if_id) /\ SlotOK(id_ex)
  /\ \A k \in BtbIndex : EntryOK(k)
  /\ Chain
  /\ Left

-----------------------------------------------------------------------------
(* Facts about the operators.                                              *)

(* The successor of an address is an address, and a different one.         *)
LEMMA Plus4 == \A pc \in PC : plus4(pc) \in PC /\ plus4(pc) # pc
BY AddressRange DEF PC, plus4

(* Every address has an entry in the branch target buffer.                 *)
LEMMA IndexInRange == \A pc \in PC : IndexOf(pc) \in BtbIndex
<1> SUFFICES ASSUME NEW pc \in PC PROVE IndexOf(pc) \in BtbIndex
  OBVIOUS
<1> DEFINE n == (4 * (pc - 1)) \div 2
<1>1. n \in Nat
  BY AddressRange DEF PC
<1> HIDE DEF n
<1>2. n % BtbEntries \in 0 .. (BtbEntries - 1)
  BY <1>1, AddressRange
<1> QED BY <1>2 DEF IndexOf, BtbIndex, n

(* The reset address is an address of the program.                         *)
LEMMA ResetIsAddress == RESET_PC \in PC
BY AddressRange DEF RESET_PC, PC

-----------------------------------------------------------------------------
(* The invariant holds initially and every step keeps it.                  *)

(* After reset the chain of addresses in flight starts at the reset PC.    *)
LEMMA InitIndInv == Init => IndInv
<1> SUFFICES ASSUME Init PROVE IndInv
  OBVIOUS
<1> USE ResetIsAddress DEF Init
<1>1. Cleared \in Slot
  BY DEF Cleared, Slot, Nop
<1>2. TypeOK
  BY <1>1 DEF TypeOK, Done, B!BtbInit
<1>3. prog \in [PC -> Instr]
  BY ProgramWords
<1>4. ~Valid(Cleared) /\ Cleared.pc = RESET_PC /\ ~Cleared.btb
  BY DEF Valid, Cleared, Nop
<1>5. SlotOK(if_id) /\ SlotOK(id_ex)
  BY <1>4 DEF SlotOK
<1>6. \A k \in BtbIndex : EntryOK(k)
  BY DEF EntryOK, B!BtbInit
<1>7. Chain
  BY <1>4 DEF Chain
<1>8. Left
  BY DEF Left
<1> QED BY <1>2, <1>3, <1>5, <1>6, <1>7, <1>8 DEF IndInv

(* The target of the word in EX is an address, and so is what the BTB      *)
(* answers on a hit: the target of the branch that is being fetched.       *)
LEMMA HitIsTarget ==
  ASSUME IndInv, B!btb_hit
  PROVE  /\ B!pred_pc = i_data.target
         /\ i_data.op = "br"
<1> DEFINE k == IndexOf(pc_if_in)
<1>1. k \in BtbIndex
  BY IndexInRange DEF IndInv, TypeOK
<1>2. pc_if_in = pc_addr_arr[k] /\ br_pred_arr[k]
  BY DEF B!btb_hit
<1>3. B!pred_pc = br_addr_arr[k]
  BY DEF B!pred_pc
<1>4. EntryOK(k)
  BY <1>1 DEF IndInv
<1> QED BY <1>2, <1>3, <1>4 DEF EntryOK, i_data

(* The words of a program.                                                 *)
LEMMA ProgramWord ==
  ASSUME IndInv, NEW pc \in PC
  PROVE  /\ prog[pc] \in Instr
         /\ prog[pc].target \in PC
         /\ prog[pc].op \in {"other", "br", "jal", "jalr"}
BY ResetIsAddress DEF IndInv, Instr

(* The invariant is inductive: an edge of the pipeline, flush or not,      *)
(* keeps it.                                                               *)
LEMMA StepIndInv == IndInv /\ [Advance]_vars => IndInv'
<1> SUFFICES ASSUME IndInv, [Advance]_vars PROVE IndInv'
  OBVIOUS
<1>1. CASE UNCHANGED vars
  BY <1>1 DEF vars, pipe, B!btbRegs, IndInv, TypeOK, SlotOK, EntryOK, Chain, Left, Valid, FetchedNext
<1>2. CASE Advance
  <2>1. PICK br_en \in BOOLEAN, target \in PC, pred_result \in BOOLEAN :
          Clock(br_en, target, pred_result)
    BY <1>2 DEF Advance
  <2> DEFINE flush == rst_flush(br_en)
             taken == predicted(pred_result)
             npc == pcmux_out(br_en, target)
             result == alu_out(target)
             fetched == [pc |-> pc_if_in, i |-> i_data, btb |-> taken]
  <2>2. /\ Registers(br_en, target, pred_result)
        /\ prog' = prog
        /\ isa_pc' = IF op_ex = "none" THEN isa_pc
                     ELSE IF op_ex = "jal" \/ (op_ex = "br" /\ br_en) THEN prog[id_ex.pc].target
                     ELSE IF op_ex = "jalr" THEN target
                     ELSE plus4(id_ex.pc)
    BY <2>1 DEF Clock, IsaStep
  <2>3. /\ op_ex = "br" =>
              /\ br_addr_arr' = [br_addr_arr EXCEPT ![IndexOf(id_ex.pc)] = result]
              /\ pc_addr_arr' = [pc_addr_arr EXCEPT ![IndexOf(id_ex.pc)] = id_ex.pc]
              /\ br_pred_arr' = [br_pred_arr EXCEPT ![IndexOf(id_ex.pc)] = br_en]
        /\ op_ex # "br" => UNCHANGED <<br_addr_arr, pc_addr_arr, br_pred_arr>>
    BY <2>1 DEF Clock, B!Clock, B!btbRegs
  <2> USE ResetIsAddress, Plus4
  <2>4. /\ prog \in [PC -> Instr] /\ pc_if_in \in PC /\ isa_pc \in PC
        /\ if_id \in Slot /\ id_ex \in Slot /\ ex_mem \in Done /\ mem_wb \in Done
        /\ SlotOK(if_id) /\ SlotOK(id_ex)
    BY DEF IndInv, TypeOK
  <2>5. /\ if_id.pc \in PC /\ id_ex.pc \in PC
        /\ if_id.i \in Instr \cup {Nop} /\ id_ex.i \in Instr \cup {Nop}
        /\ if_id.btb \in BOOLEAN /\ id_ex.btb \in BOOLEAN
    BY <2>4 DEF Slot
  <2>6. /\ id_ex.i.target \in PC
        /\ op_ex \in {"none", "other", "br", "jal", "jalr"}
    BY <2>5 DEF Instr, Nop, op_ex
  <2>7. result \in PC
    BY <2>6 DEF alu_out
  <2>8. op_ex # "none" => id_ex.i = prog[id_ex.pc] /\ id_ex.pc = isa_pc
    BY DEF IndInv, SlotOK, Chain, Valid, op_ex
  <2>9. taken \in BOOLEAN /\ (taken => B!pred_pc = i_data.target /\ i_data.op = "br")
    BY HitIsTarget DEF predicted, B!btb_hit
  <2>10. i_data \in Instr /\ i_data.target \in PC /\ i_data.op \in {"other", "br", "jal", "jalr"}
    BY <2>4, ProgramWord DEF i_data
  <2>11. fetched \in Slot /\ Cleared \in Slot
    BY <2>4, <2>9, <2>10 DEF Slot, Cleared, Nop
  <2>12. /\ flush => if_id' = Cleared /\ id_ex' = Cleared
         /\ ~flush => if_id' = fetched /\ id_ex' = if_id
         /\ pc_if_in' = IF taken /\ ~flush THEN i_data.target ELSE npc
         /\ ex_mem' = [pc |-> id_ex.pc, op |-> op_ex]
         /\ mem_wb' = ex_mem
    BY <2>2, <2>9 DEF Registers, pc_reg_input
  <2>13. /\ flush => isa_pc' = npc
         /\ ~flush => npc = plus4(pc_if_in)
         /\ ~flush /\ op_ex # "none" => isa_pc' = FetchedNext(id_ex)
         /\ op_ex = "none" => isa_pc' = isa_pc /\ ~flush
         /\ op_ex = "other" => isa_pc' = plus4(id_ex.pc)
    <3>1. id_ex.btb => op_ex = "br"
      BY <2>4 DEF SlotOK, op_ex
    <3> QED BY <3>1, <2>2, <2>5, <2>6, <2>8
            DEF rst_flush, pcmux_out, alu_out, Jumps, FetchedNext, op_ex
  <2>14. npc \in PC
    BY <2>4, <2>5, <2>7 DEF pcmux_out, Jumps
  <2> HIDE DEF flush, npc, result, taken
  <2>15. pc_if_in' \in PC /\ isa_pc' \in PC
    <3>1. FetchedNext(id_ex) \in PC
      BY <2>5, <2>6 DEF FetchedNext
    <3> QED BY <3>1, <2>4, <2>10, <2>12, <2>13, <2>14
  <2>16. /\ if_id' \in Slot /\ id_ex' \in Slot
         /\ ex_mem' \in Done /\ mem_wb' \in Done
    BY <2>4, <2>5, <2>6, <2>11, <2>12 DEF Done
  <2>17. /\ pc_addr_arr' \in [BtbIndex -> PC \cup {0}]
         /\ br_addr_arr' \in [BtbIndex -> PC \cup {0}]
         /\ br_pred_arr' \in [BtbIndex -> BOOLEAN]
         /\ \A k \in BtbIndex : EntryOK(k)'
    <3> DEFINE k0 == IndexOf(id_ex.pc)
    <3>1. /\ pc_addr_arr \in [BtbIndex -> PC \cup {0}]
          /\ br_addr_arr \in [BtbIndex -> PC \cup {0}]
          /\ br_pred_arr \in [BtbIndex -> BOOLEAN]
          /\ \A k \in BtbIndex : EntryOK(k)
      BY DEF IndInv, TypeOK
    <3>2. CASE op_ex = "br"
      <4>1. /\ br_addr_arr' = [br_addr_arr EXCEPT ![k0] = result]
            /\ pc_addr_arr' = [pc_addr_arr EXCEPT ![k0] = id_ex.pc]
            /\ br_pred_arr' = [br_pred_arr EXCEPT ![k0] = br_en]
        BY <2>3, <3>2
      <4>2. k0 \in BtbIndex
        BY <2>5, IndexInRange
      <4>3. prog[id_ex.pc].op = "br" /\ result = prog[id_ex.pc].target
        BY <3>2, <2>8 DEF op_ex, alu_out, result
      <4> HIDE DEF k0
      <4>4. ASSUME NEW k \in BtbIndex PROVE EntryOK(k)'
        <5>1. prog' = prog /\ EntryOK(k)
          BY <2>2, <3>1
        <5>2. CASE k = k0
          BY <2>5, <3>1, <4>1, <4>2, <4>3, <5>1, <5>2 DEF EntryOK
        <5>3. CASE k # k0
          BY <3>1, <4>1, <5>1, <5>3 DEF EntryOK
        <5> QED BY <5>2, <5>3
      <4> QED BY <2>5, <2>7, <3>1, <4>1, <4>2, <4>4
    <3>3. CASE op_ex # "br"
      <4>1. UNCHANGED <<br_addr_arr, pc_addr_arr, br_pred_arr>>
        BY <2>3, <3>3
      <4>2. prog' = prog
        BY <2>2
      <4> QED BY <3>1, <4>1, <4>2 DEF EntryOK
    <3> QED BY <3>2, <3>3
  <2>18. SlotOK(if_id)' /\ SlotOK(id_ex)'
    <3>1. CASE flush
      BY <2>12, <3>1 DEF SlotOK, Valid, Cleared, Nop
    <3>2. CASE ~flush
      BY <2>2, <2>4, <2>9, <2>10, <2>12, <3>2 DEF SlotOK, Valid, i_data
    <3> QED BY <3>1, <3>2
  <2>19. Chain'
    <3>1. CASE flush
      BY <2>12, <2>13, <3>1 DEF Chain, Valid, Cleared, Nop
    <3>2. CASE ~flush
      <4>1. if_id' = fetched /\ id_ex' = if_id
        BY <2>12, <3>2
      <4>2. Valid(if_id)'
        BY <2>10, <4>1 DEF Valid
      <4>3. pc_if_in' = FetchedNext(if_id)'
        BY <2>12, <2>13, <3>2, <4>1 DEF FetchedNext, plus4
      <4>4. Valid(if_id) => if_id.pc = isa_pc' /\ pc_if_in = FetchedNext(if_id)
        BY <2>13, <3>2 DEF IndInv, Chain, Valid, op_ex
      <4>5. ~Valid(if_id) => isa_pc' = pc_if_in
        BY <2>13, <3>2 DEF IndInv, Chain, Valid, op_ex
      <4> QED BY <4>1, <4>2, <4>3, <4>4, <4>5 DEF Chain, Valid, FetchedNext, plus4
    <3> QED BY <3>1, <3>2
  <2>20. Left'
    <3>1. op_ex = "none" => id_ex.pc = RESET_PC
      BY <2>4 DEF SlotOK, Valid, op_ex
    <3>2. ex_mem'.op = op_ex /\ ex_mem'.pc = id_ex.pc
      BY <2>12
    <3>3. Left
      BY DEF IndInv
    <3> QED BY <2>2, <2>8, <2>12, <2>13, <3>1, <3>2, <3>3 DEF Left, op_ex, plus4
  <2> QED BY <2>2, <2>4, <2>15, <2>16, <2>17, <2>18, <2>19, <2>20 DEF IndInv, TypeOK
<1> QED BY <1>1, <1>2

(* IndInv holds in every reachable state of Fetch.                         *)
THEOREM Invariance == SafeSpec => []IndInv
BY InitIndInv, StepIndInv, PTL DEF SafeSpec

(* Every register of the fetch path keeps its type.                        *)
THEOREM TypeCorrect == SafeSpec => []TypeOK
<1>1. IndInv => TypeOK
  BY DEF IndInv
<1> QED BY <1>1, Invariance, PTL

(* Whatever is predicted, the instructions that execute are the program's, *)
(* in the program's order.                                                 *)
THEOREM ControlFlow == SafeSpec => []FollowsIsa
<1>1. IndInv => FollowsIsa
  BY DEF IndInv, FollowsIsa, Chain, SlotOK, Valid, op_ex
<1> QED BY <1>1, Invariance, PTL

(* When EX is empty the next instruction is on its way.                    *)
THEOREM NextInstruction == SafeSpec => []NextIsInFlight
<1>1. IndInv => NextIsInFlight
  BY DEF IndInv, NextIsInFlight, Chain, Valid, op_ex
<1> QED BY <1>1, Invariance, PTL

(* The commit signal misses an instruction only where its address repeats. *)
THEOREM Commits == SafeSpec => []CommitsInstructions
<1>1. IndInv => CommitsInstructions
  <2> SUFFICES ASSUME IndInv PROVE CommitsInstructions
    OBVIOUS
  <2>1. mem_wb.pc \in PC /\ mem_wb.op \in {"none", "other", "br", "jal", "jalr"}
    BY DEF IndInv, TypeOK, Done
  <2>2. ASSUME mem_wb.op # "none", ex_mem.pc = mem_wb.pc, ex_mem.op # "none"
        PROVE  prog[mem_wb.pc].op # "other"
    BY <2>1, <2>2, Plus4 DEF IndInv, Left
  <2>3. ex_mem.op = "none" => ex_mem.pc = RESET_PC
    BY DEF IndInv, Left
  <2> QED BY <2>2, <2>3 DEF CommitsInstructions, commit
<1> QED BY <1>1, Invariance, PTL

=============================================================================
