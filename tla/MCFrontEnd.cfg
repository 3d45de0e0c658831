SPECIFICATION Spec
CONSTANTS
  LastPC = 4
  BtbEntries = 4
  Width = 2
  Programs <- TwoPrograms
INVARIANTS SelectorJudgesOwnPrediction LocalTableLearns
