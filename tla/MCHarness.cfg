SPECIFICATION Spec
CONSTANTS
  Multithread = 2
  Contexts = {0, 1, 2, 5}
  Methods = {"single", "pthread", "fork", "socket"}
  Asked = {0, 3}
  Rates = {2, 7, 55, 299, 320}
  Known = {TRUE}
  WrongTypes = {{}, {"ee_ptr_int"}}
  Faults = {"fork", "shmget", "shmat", "killed", "socket"}
  Clocks = {"cycle", "clock", "timespec"}
  Cores = {1, 2}
  Boots = {9989}
  NSECS_PER_SEC = 30
  TIMER_RES_DIVIDER = 3
  TickMod = 10000
INVARIANTS FaultsStayLocal VerdictIsRight TimeIsMeasured RunTimeBounded
PROPERTY MainEnds
CHECK_DEADLOCK FALSE
