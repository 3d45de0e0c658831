SPECIFICATION Spec
CONSTANTS
  Multithread = 2
  Contexts = {0, 1, 2, 5}
  Methods = {"single", "pthread"}
  Asked = {0, 3}
  Rates = {2, 7, 55, 299}
  Known = {FALSE}
  WrongTypes = {{}, {"ee_ptr_int"}}
  Faults = {}
  Clocks = {"cycle", "clock", "timespec"}
  Cores = {2}
  Boots = {9989}
  NSECS_PER_SEC = 30
  TIMER_RES_DIVIDER = 3
  TickMod = 10000
INVARIANT VerdictIsRight
CHECK_DEADLOCK FALSE
