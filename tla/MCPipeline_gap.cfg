SPECIFICATION SafeSpec
CONSTANTS
  x1 = x1
  x2 = x2
  KindSet = {"imm", "reg", "slt", "slti", "load", "store"}
  Reg <- Registers
INVARIANT OperandsAlwaysCurrent
