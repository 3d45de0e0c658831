--------------------------- MODULE FrontEndProofs ---------------------------
(***************************************************************************)
(* Proofs about FrontEnd, for every program, every size of the branch      *)
(* target buffer and every width of the predictor's index.                 *)
(***************************************************************************)
EXTENDS FrontEnd, TLAPS

-----------------------------------------------------------------------------
(* The inductive invariant.                                                *)

(* The shift registers have no reset and no flush, so they agree with what *)
(* was asked only for the slots that hold a fetched branch; a slot with a  *)
(* prediction that was followed is one.                                    *)
OwnPrediction ==
  /\ if_id.i.op = "br" => asked[1] = [pc |-> if_id.pc, local |-> lbht_decode, global |-> gbht_decode]
  /\ F!op_ex = "br" => asked[2] = [pc |-> id_ex.pc, local |-> lbht_ex, global |-> gbht_ex]
  /\ if_id.btb => lbht_decode \/ gbht_decode
  /\ id_ex.btb => lbht_ex \/ gbht_ex

Outcomes == {<<>>} \cup [1 .. 1 -> BOOLEAN] \cup [1 .. 2 -> BOOLEAN]

(* One outcome is enough to be one step from the right prediction.         *)
Leaning(i) ==
  /\ outcomes[i] # <<>> =>
       IF outcomes[i][1] THEN local_pht[i] >= 1 ELSE local_pht[i] <= 2
  /\ outcomes[i] \in [1 .. 2 -> BOOLEAN] /\ outcomes[i][1] = outcomes[i][2] =>
       IF outcomes[i][1] THEN local_pht[i] >= 2 ELSE local_pht[i] <= 1

Learning ==
  /\ P!PredTypeOK
  /\ outcomes \in [P!Index -> Outcomes]
  /\ \A i \in P!Index : Leaning(i)

FrontInv == OwnPrediction /\ Learning

-----------------------------------------------------------------------------
(* The predictor.                                                          *)

(* A saturating counter stays in its two bits, and moves by one step       *)
(* towards the outcome unless it is at that end.                           *)
LEMMA Counter ==
  ASSUME NEW c \in 0 .. 3, NEW up \in BOOLEAN
  PROVE  /\ P!Count(c, up) \in 0 .. 3
         /\ up => P!Count(c, up) >= 1 /\ (c >= 1 => P!Count(c, up) >= 2)
         /\ ~up => P!Count(c, up) <= 2 /\ (c <= 2 => P!Count(c, up) <= 1)
BY DEF P!Count

(* The index bits of a pc and their xor with the history select an entry   *)
(* of the tables.                                                          *)
LEMMA Indexes ==
  /\ \A pc : IndexBits(pc) \in P!Index
  /\ \A a, b \in P!Index : P!xor(a, b) \in P!Index
<1>1. \A pc : IndexBits(pc) \in P!Index
  BY DEF IndexBits, P!Index, P!Bits
<1>2. \A a, b \in P!Index : P!xor(a, b) \in P!Index
  BY DEF P!xor, P!Index, P!Bits
<1> QED BY <1>1, <1>2

(* What the predictor says is a truth value, whatever is in the tables.    *)
LEMMA Predictions ==
  /\ P!local_pred \in BOOLEAN /\ P!global_pred \in BOOLEAN
  /\ P!pred_result \in BOOLEAN
BY DEF P!local_pred, P!global_pred, P!pred_result

-----------------------------------------------------------------------------
(* Every step keeps the invariant.                                         *)

(* A flush clears both slots; otherwise the word that is fetched enters    *)
(* the first and what was there goes on. A slot is followed only if one of *)
(* the tables says so.                                                     *)
LEMMA SlotsMove ==
  ASSUME NEW br_en, NEW target, F!Clock(br_en, target, P!pred_result)
  PROVE  /\ F!rst_flush(br_en) => if_id' = F!Cleared /\ id_ex' = F!Cleared
         /\ ~F!rst_flush(br_en) =>
              /\ if_id' = [pc |-> pc_if_in, i |-> F!i_data, btb |-> F!predicted(P!pred_result)]
              /\ id_ex' = if_id
         /\ F!predicted(P!pred_result) => P!local_pred \/ P!global_pred
BY DEF F!Clock, F!Registers, F!predicted, P!pred_result

(* The predictions that a branch was fetched with move down the pipeline   *)
(* with it.                                                                *)
LEMMA OwnPredictionStep ==
  ASSUME OwnPrediction, Advance
  PROVE  OwnPrediction'
<1>1. PICK br_en \in BOOLEAN, target \in F!PC :
        /\ F!Clock(br_en, target, P!pred_result)
        /\ P!Clock(F!op_ex = "br", br_en, id_ex.pc)
        /\ asked' = IF F!rst_flush(br_en) THEN <<NotAsked, NotAsked>>
                    ELSE <<[pc |-> pc_if_in, local |-> P!local_pred, global |-> P!global_pred], asked[1]>>
  BY DEF Advance
<1>2. /\ lbht_decode' = P!local_pred /\ gbht_decode' = P!global_pred
      /\ lbht_ex' = lbht_decode /\ gbht_ex' = gbht_decode
  BY <1>1 DEF P!Clock, P!Shift
<1>3. CASE F!rst_flush(br_en)
  BY <1>1, <1>3, SlotsMove DEF OwnPrediction, F!op_ex, F!Cleared, F!Nop
<1>4. CASE ~F!rst_flush(br_en)
  <2>1. /\ if_id'.pc = pc_if_in /\ if_id'.btb = F!predicted(P!pred_result)
        /\ id_ex' = if_id
        /\ F!predicted(P!pred_result) => P!local_pred \/ P!global_pred
    BY <1>1, <1>4, SlotsMove
  <2>2. /\ asked'[1] = [pc |-> pc_if_in, local |-> P!local_pred, global |-> P!global_pred]
        /\ asked'[2] = asked[1]
    BY <1>1, <1>4
  <2> QED BY <1>2, <2>1, <2>2 DEF OwnPrediction, F!op_ex
<1> QED BY <1>3, <1>4

(* Training one entry of the local table leaves the others as their own    *)
(* branches left them.                                                     *)
LEMMA LearningStep ==
  ASSUME Learning, Advance
  PROVE  Learning'
<1> DEFINE update == F!op_ex = "br"
<1>1. PICK j \in P!Index : j = IndexBits(id_ex.pc)
  BY Indexes
<1>2. PICK br_en \in BOOLEAN, target \in F!PC :
        /\ P!Clock(update, br_en, id_ex.pc)
        /\ outcomes' = IF ~update THEN outcomes
                       ELSE [outcomes EXCEPT ![j] = IF @ = <<>> THEN <<br_en>> ELSE <<br_en, @[1]>>]
  BY <1>1 DEF Advance
<1>3. {lbht_decode', lbht_ex', gbht_decode', gbht_ex'} \subseteq BOOLEAN
  BY <1>2, Predictions DEF P!Clock, P!Shift, Learning, P!PredTypeOK
<1>4. CASE ~update
  BY <1>2, <1>3, <1>4 DEF P!Clock, Learning, P!PredTypeOK, Leaning
<1>5. CASE update
  <2>1. /\ local_pht' = [local_pht EXCEPT ![j] = P!Count(@, br_en)]
        /\ global_pht' = [global_pht EXCEPT ![P!xor(j, bht)] = P!Count(@, br_en)]
        /\ bht' = [i \in P!Bits |-> IF i = 0 THEN br_en ELSE bht[i - 1]]
        /\ selector' = P!Select(br_en)
    BY <1>1, <1>2, <1>5 DEF P!Clock, P!Train
  <2>2. local_pht' \in [P!Index -> 0 .. 3] /\ local_pht'[j] = P!Count(local_pht[j], br_en)
    BY <1>1, <2>1, Counter DEF Learning, P!PredTypeOK
  <2>3. global_pht' \in [P!Index -> 0 .. 3]
    BY <1>1, <2>1, Counter, Indexes DEF Learning, P!PredTypeOK
  <2>4. bht' \in P!Index
    <3>1. \A i \in P!Bits : i # 0 => i - 1 \in P!Bits
      BY WidthAssumption DEF P!Bits
    <3>2. bht \in [P!Bits -> BOOLEAN]
      BY DEF Learning, P!PredTypeOK, P!Index
    <3> QED BY <2>1, <3>1, <3>2 DEF P!Index
  <2>5. selector' \in 0 .. 3
    BY <2>1, Counter DEF P!Select, Learning, P!PredTypeOK
  <2>6. P!PredTypeOK'
    BY <1>3, <2>2, <2>3, <2>4, <2>5 DEF P!PredTypeOK
  <2>7. /\ outcomes[j] = <<>> => outcomes'[j] = <<br_en>>
        /\ outcomes[j] # <<>> => outcomes'[j] = <<br_en, outcomes[j][1]>> /\ outcomes[j][1] \in BOOLEAN
        /\ outcomes' \in [P!Index -> Outcomes]
    BY <1>1, <1>2, <1>5 DEF Learning, Outcomes
  <2>8. Leaning(j)'
    BY <1>1, <2>2, <2>7, Counter DEF Learning, P!PredTypeOK, Leaning
  <2>9. \A i \in P!Index \ {j} : outcomes'[i] = outcomes[i] /\ local_pht'[i] = local_pht[i]
    BY <1>2, <1>5, <2>1 DEF Learning, P!PredTypeOK
  <2> QED BY <2>6, <2>7, <2>8, <2>9 DEF Learning, Leaning
<1> QED BY <1>4, <1>5

-----------------------------------------------------------------------------
(* Every step of the front end is a step of Fetch, whose predictor may say *)
(* anything: what is proved of Fetch holds of the front end.               *)
THEOREM ImplementsFetch == Spec => F!SafeSpec
<1>1. Init => F!Init
  BY DEF Init
<1>2. [Advance]_vars => [F!Advance]_F!vars
  <2>1. Advance => F!Advance
    BY Predictions DEF Advance, F!Advance
  <2> QED BY <2>1 DEF vars
<1> QED BY <1>1, <1>2, PTL DEF Spec, F!SafeSpec

-----------------------------------------------------------------------------
(* The invariant.                                                          *)
THEOREM Invariance == Spec => []FrontInv
<1>1. Init => FrontInv
  <2> SUFFICES ASSUME Init
               PROVE  FrontInv
    OBVIOUS
  <2>1. OwnPrediction
    BY DEF Init, F!Init, F!Cleared, F!Nop, F!op_ex, OwnPrediction
  <2>2. P!PredTypeOK
    BY DEF Init, P!PredInit, P!PredTypeOK, P!Index
  <2>3. outcomes \in [P!Index -> Outcomes] /\ \A i \in P!Index : outcomes[i] = <<>>
    BY DEF Init, Outcomes
  <2>4. \A i \in P!Index : Leaning(i)
    BY <2>3 DEF Leaning
  <2> QED BY <2>1, <2>2, <2>3, <2>4 DEF FrontInv, Learning
<1>2. FrontInv /\ [Advance]_vars => FrontInv'
  <2>1. ASSUME FrontInv, UNCHANGED vars
        PROVE  FrontInv'
    <3>1. OwnPrediction'
      BY <2>1 DEF FrontInv, OwnPrediction, F!op_ex, vars, F!vars, F!pipe, P!predRegs
    <3>2. Learning'
      BY <2>1 DEF FrontInv, Learning, Leaning, P!PredTypeOK, vars, P!predRegs
    <3> QED BY <3>1, <3>2 DEF FrontInv
  <2> QED BY <2>1, OwnPredictionStep, LearningStep DEF FrontInv
<1> QED BY <1>1, <1>2, PTL DEF Spec

(* The selector is trained on the predictions with which the branch in EX  *)
(* was fetched, through every flush and whatever the shift registers held  *)
(* at reset, and fetch followed a prediction only if one of them was for   *)
(* it.                                                                     *)
THEOREM SelectorTraining == Spec => []SelectorJudgesOwnPrediction
<1>1. FrontInv => SelectorJudgesOwnPrediction
  BY DEF FrontInv, OwnPrediction, SelectorJudgesOwnPrediction
<1> QED BY <1>1, Invariance, PTL

(* After two equal outcomes in a row at an index the local table predicts  *)
(* a third, for every width of the index and every order of branches.      *)
THEOREM LocalLearning == Spec => []LocalTableLearns
<1>1. FrontInv => LocalTableLearns
  <2> SUFFICES ASSUME FrontInv, NEW i \in P!Index, Len(outcomes[i]) = 2,
                      outcomes[i][1] = outcomes[i][2]
               PROVE  (local_pht[i] >= 2) = outcomes[i][1]
    BY DEF FrontInv, Learning, LocalTableLearns
  <2>1. outcomes[i] \in Outcomes /\ local_pht[i] \in 0 .. 3 /\ Leaning(i)
    BY DEF FrontInv, Learning, P!PredTypeOK
  <2>2. outcomes[i] \in [1 .. 2 -> BOOLEAN]
    BY <2>1 DEF Outcomes
  <2> QED BY <2>1, <2>2 DEF Leaning
<1> QED BY <1>1, Invariance, PTL

-----------------------------------------------------------------------------
(* What FetchProofs proves of Fetch, carried over along ImplementsFetch.   *)
(* FP has the definitions of Fetch a second time; they are the same.       *)
FP == INSTANCE FetchProofs

(* The constants of Fetch are as its proofs assume.                        *)
LEMMA SameAssumptions ==
  /\ Programs \subseteq [FP!PC -> FP!Instr]
  /\ LastPC \in Nat \ {0, 1} /\ BtbEntries \in Nat \ {0}
BY FetchAssumption DEF F!PC, F!Instr, F!RESET_PC, FP!PC, FP!Instr, FP!RESET_PC

(* FP has the definitions of F another time: the reset state.              *)
LEMMA SameInit == F!Init => FP!Init
BY DEF F!Init, F!B!BtbInit, F!Cleared, F!Nop, F!RESET_PC, F!BtbIndex,
       FP!Init, FP!B!BtbInit, FP!Cleared, FP!Nop, FP!RESET_PC, FP!BtbIndex

(* And the step.                                                           *)
LEMMA SameNext == [F!Advance]_F!vars => [FP!Advance]_FP!vars
<1>1. F!Advance => FP!Advance
  BY Zenon DEF F!Advance, F!Clock, F!Registers, F!IsaStep, F!pc_reg_input, F!predicted, F!rst_flush,
     F!pcmux_out, F!alu_out, F!plus4, F!i_data, F!op_ex, F!Jumps, F!B!Clock, F!B!btb_hit, F!B!pred_pc,
     F!B!btbRegs, F!IndexOf, F!Cleared, F!Nop, F!RESET_PC, F!PC,
     FP!Advance, FP!Clock, FP!Registers, FP!IsaStep, FP!pc_reg_input, FP!predicted, FP!rst_flush,
     FP!pcmux_out, FP!alu_out, FP!plus4, FP!i_data, FP!op_ex, FP!Jumps, FP!B!Clock, FP!B!btb_hit,
     FP!B!pred_pc, FP!B!btbRegs, FP!IndexOf, FP!Cleared, FP!Nop, FP!RESET_PC, FP!PC
<1>2. UNCHANGED F!vars => UNCHANGED FP!vars
  BY DEF F!vars, F!pipe, F!B!btbRegs, FP!vars, FP!pipe, FP!B!btbRegs
<1> QED BY <1>1, <1>2

(* With the tournament predictor in place the instructions that execute    *)
(* are still the program's, in its order, none is lost on a flush and each *)
(* commits once.                                                           *)
THEOREM PredictedControlFlow ==
  Spec => [](F!FollowsIsa /\ F!NextIsInFlight /\ F!CommitsInstructions)
<1>1. FP!SafeSpec => [](FP!FollowsIsa /\ FP!NextIsInFlight /\ FP!CommitsInstructions)
  <2>1. FP!SafeSpec => []FP!FollowsIsa
    BY FP!ControlFlow, SameAssumptions
  <2>2. FP!SafeSpec => []FP!NextIsInFlight
    BY FP!NextInstruction, SameAssumptions
  <2>3. FP!SafeSpec => []FP!CommitsInstructions
    BY FP!Commits, SameAssumptions
  <2> QED BY <2>1, <2>2, <2>3, PTL
<1>2. F!SafeSpec => FP!SafeSpec
  BY SameInit, SameNext, PTL DEF F!SafeSpec, FP!SafeSpec
<1>3. FP!FollowsIsa => F!FollowsIsa
  BY DEF F!FollowsIsa, F!op_ex, FP!FollowsIsa, FP!op_ex
<1>4. FP!NextIsInFlight => F!NextIsInFlight
  BY DEF F!NextIsInFlight, F!op_ex, FP!NextIsInFlight, FP!op_ex
<1>5. FP!CommitsInstructions => F!CommitsInstructions
  BY DEF F!CommitsInstructions, F!commit, F!RESET_PC, FP!CommitsInstructions, FP!commit, FP!RESET_PC
<1> QED BY <1>1, <1>2, <1>3, <1>4, <1>5, ImplementsFetch, PTL

=============================================================================
