CONSTANTS
  x1 = x1
  x2 = x2
  KindSet = {"jal", "jalr", "auipc", "load", "store"}
  Reg <- Registers
SPECIFICATION Spec
INVARIANT OperandsCurrent
PROPERTY StallsEnd
