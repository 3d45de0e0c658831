----------------------------- MODULE PortTimer -----------------------------
(* The timers of the ports (core_portme.c). "cycle", the RISC-V port's     *)
(* CSR, and "clock", the hosted ports' clock(), are counters that wrap;    *)
(* "timespec" is clock_gettime, seconds and nanoseconds, counted in larger *)
(* ticks. What they read is now, two natural numbers of nanoseconds that   *)
(* never wrap: wall, the time that has passed, and cpu, the processor time *)
(* that main's process has taken, in all its threads and no other process. *)
EXTENDS Integers

CONSTANTS
  NSECS_PER_SEC,
  TIMER_RES_DIVIDER,  \* nanoseconds in a tick of "timespec"
  TickMod             \* where clock_t wraps

ASSUME TimerAssumption ==
  /\ NSECS_PER_SEC \in Nat \ {0} /\ TIMER_RES_DIVIDER \in Nat \ {0} /\ TickMod \in Nat \ {0}
  /\ NSECS_PER_SEC % TIMER_RES_DIVIDER = 0

(* TIMER_RES_DIVIDER as each kind of timer defines it.                     *)
Divider(clock) == IF clock = "timespec" THEN TIMER_RES_DIVIDER ELSE 1

EE_TICKS_PER_SEC(clock) == NSECS_PER_SEC \div Divider(clock)

(* clock() is the processor time of its process; the other two go on with  *)
(* the time.                                                               *)
Shown(clock, now) == IF clock = "clock" THEN now.cpu ELSE now.wall

GETMYTIME(clock, now) ==
  IF clock = "timespec"
  THEN [tv_sec |-> now.wall \div NSECS_PER_SEC, tv_nsec |-> now.wall % NSECS_PER_SEC]
  ELSE [count |-> Shown(clock, now) % TickMod]

(* C's division rounds towards zero.                                       *)
Quotient(a, b) == IF a >= 0 THEN a \div b ELSE -((-a) \div b)

(* MUTANT: the nanoseconds borrow a second that nobody gives back.         *)
MYTIMEDIFF_borrow(clock, fin, ini) ==
  IF clock = "timespec"
  THEN (fin.tv_sec - ini.tv_sec) * EE_TICKS_PER_SEC(clock)
       + Quotient((fin.tv_nsec - ini.tv_nsec) % NSECS_PER_SEC, TIMER_RES_DIVIDER)
  ELSE (fin.count - ini.count) % TickMod

(* The difference of nanoseconds may be negative; that of counters is      *)
(* unsigned.                                                               *)
MYTIMEDIFF(clock, fin, ini) ==
  IF clock = "timespec"
  THEN (fin.tv_sec - ini.tv_sec) * EE_TICKS_PER_SEC(clock)
       + Quotient(fin.tv_nsec - ini.tv_nsec, TIMER_RES_DIVIDER)
  ELSE (fin.count - ini.count) % TickMod

time_in_secs(clock, ticks) == ticks \div EE_TICKS_PER_SEC(clock)

=============================================================================
