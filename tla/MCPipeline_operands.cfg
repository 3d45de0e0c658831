CONSTANTS
  x1 = x1
  x2 = x2
  KindSet = {"lui", "imm", "reg", "slt", "load", "store", "br"}
  Reg <- Registers
SPECIFICATION SafeSpec
SYMMETRY RegSymmetry
INVARIANTS OperandsCurrent RegfileCurrent
