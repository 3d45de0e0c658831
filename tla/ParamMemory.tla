---------------------------- MODULE ParamMemory ----------------------------
(***************************************************************************)
(* hvl/param_memory.sv: the burst memory of the testbench.  A sampled read *)
(* or write starts a transfer; after a delay that depends on whether the   *)
(* page is open, resp goes high for BURST_LEN cycles.  While a transfer    *)
(* lasts, the assertions of error_check watch the request lines; a failed  *)
(* one raises error and abandons the transfer.                             *)
(*                                                                         *)
(* rdata and resp are registered outputs; the inputs are sampled at the    *)
(* edge and are parameters of Clock.                                       *)
(***************************************************************************)
EXTENDS Naturals

CONSTANTS
  BURST_LEN,        \* beats of a transfer
  DELAY_MEM,        \* cycles before the first beat, page closed
  DELAY_PAGE_HIT,   \* cycles before the first beat, page open
  Page(_),          \* page number of an address
  Loc(_),           \* the line an address lies in (addr & mask)
  NoPage            \* pageno after reset

VARIABLES
  mem,      \* _mem[l]: a line, as a function from beats
  pageno,
  task,     \* "none", "memread" or "memwrite"
  addr,     \* the address the running task was called with
  left,     \* edges left of its delay; 0 in the burst
  beat,     \* loop variable i of the burst
  rdata, resp, error

memRegs == <<mem, pageno, task, addr, left, beat, rdata, resp, error>>

MemInit(image, someAddr, someBurst) ==
  /\ mem = image
  /\ pageno = NoPage
  /\ task = "none"
  /\ addr = someAddr
  /\ left = 0
  /\ beat = 0
  /\ rdata = someBurst
  /\ resp = FALSE
  /\ error = FALSE

-----------------------------------------------------------------------------

Quiet(read, write) ==
  /\ task = "none" /\ ~read /\ ~write
  /\ UNCHANGED memRegs

Both(read, write) ==
  /\ task = "none" /\ read /\ write
  /\ error' = TRUE
  /\ UNCHANGED <<mem, pageno, task, addr, left, beat, rdata, resp>>

Start(read, write, a) ==
  /\ task = "none" /\ (read # write)
  /\ task' = IF read THEN "memread" ELSE "memwrite"
  /\ addr' = a
  /\ left' = IF Page(a) = pageno THEN DELAY_PAGE_HIT ELSE DELAY_MEM
  /\ pageno' = Page(a)
  /\ UNCHANGED <<mem, beat, rdata, resp, error>>

(* read_steady, no_write, addr_read_steady and their write counterparts.   *)
Steady(read, write, a) ==
  /\ read  = (task = "memread")
  /\ write = (task = "memwrite")
  /\ a = addr

ErrorCheck(read, write, a) ==
  /\ task # "none" /\ ~Steady(read, write, a)
  /\ error' = TRUE
  /\ task' = "none"
  /\ UNCHANGED <<mem, pageno, addr, left, beat, rdata, resp>>

(* rdata is driven by memread only.                                        *)
Drive(b) ==
  /\ beat' = b
  /\ resp' = TRUE
  /\ rdata' = IF task = "memread" THEN mem[Loc(addr)][b] ELSE rdata

Delay(read, write, a) ==
  /\ task # "none" /\ Steady(read, write, a) /\ left > 0
  /\ left' = left - 1
  /\ IF left = 1 THEN Drive(0) ELSE UNCHANGED <<beat, rdata, resp>>
  /\ UNCHANGED <<mem, pageno, task, addr, error>>

(* One edge of the burst: a write stores the beat that was on the bus; the *)
(* edge after the last beat drops resp and ends the task.                  *)
BurstBeat(read, write, a, wdata) ==
  /\ task # "none" /\ Steady(read, write, a) /\ left = 0
  /\ mem' = IF task = "memwrite" THEN [mem EXCEPT ![Loc(addr)][beat] = wdata] ELSE mem
  /\ IF beat + 1 < BURST_LEN
       THEN Drive(beat + 1) /\ UNCHANGED task
       ELSE resp' = FALSE /\ task' = "none" /\ UNCHANGED <<beat, rdata>>
  /\ UNCHANGED <<pageno, addr, left, error>>

Clock(read, write, a, wdata) ==
  \/ Quiet(read, write)
  \/ Both(read, write)
  \/ Start(read, write, a)
  \/ ErrorCheck(read, write, a)
  \/ Delay(read, write, a)
  \/ BurstBeat(read, write, a, wdata)

=============================================================================
