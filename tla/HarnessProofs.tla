--------------------------- MODULE HarnessProofs ---------------------------
(* Proofs about Harness, for any number of contexts, any timer resolution, *)
(* any boot time and any combination of failing calls.                     *)
EXTENDS Harness, FiniteSetTheorems, TLAPS

-----------------------------------------------------------------------------
(* Timers.                                                                 *)

(* Quotient and remainder.                                                 *)
LEMMA DivMod ==
  ASSUME NEW a \in Int, NEW b \in Nat \ {0}
  PROVE  /\ a \div b \in Int /\ a % b \in 0..(b - 1)
         /\ a = b * (a \div b) + (a % b)
<1>1. a \div b \in Int /\ a % b \in 0..(b - 1)
  OBVIOUS
<1>2. a = b * (a \div b) + (a % b)
  OBVIOUS
<1> QED BY <1>1, <1>2

(* A quotient of natural numbers is one.                                   *)
LEMMA DivNat ==
  ASSUME NEW a \in Nat, NEW b \in Nat \ {0}
  PROVE  a \div b \in Nat
OBVIOUS

(* C's division misses by less than the divisor, whatever the sign.        *)
LEMMA QuotientError ==
  ASSUME NEW a \in Int, NEW b \in Nat \ {0}
  PROVE  /\ Quotient(a, b) \in Int
         /\ -b < b * Quotient(a, b) - a /\ b * Quotient(a, b) - a < b
<1>1. CASE a >= 0
  BY <1>1, DivMod DEF Quotient
<1>2. CASE a < 0
  <2>1. ASSUME NEW q \in Int, NEW r \in 0..(b - 1), -a = b * q + r
        PROVE  -b < b * (-q) - a /\ b * (-q) - a < b
    BY <2>1
  <2>2. Quotient(a, b) = -((-a) \div b)
    BY <1>2 DEF Quotient
  <2>3. -a \in Int
    OBVIOUS
  <2>4. PICK q \in Int, r \in 0..(b - 1) : q = (-a) \div b /\ -a = b * q + r
    BY <2>3, DivMod, Zenon
  <2> QED BY <2>1, <2>2, <2>4
<1> QED BY <1>1, <1>2

(* Values that are a multiple of m apart have one remainder.               *)
LEMMA ModOfDifference ==
  ASSUME NEW m \in Nat \ {0}, NEW d \in 0..(m - 1), NEW e \in Int
  PROVE  (d + m * e) % m = d
<1> DEFINE x == d + m * e
<1>1. x \in Int
  OBVIOUS
<1>2. PICK q \in Int, r \in 0..(m - 1) : q = x \div m /\ r = x % m /\ x = m * q + r
  BY <1>1, DivMod
<1>3. m * (q - e) = d - r
  BY <1>2
<1>4. ASSUME NEW f \in Int, NEW y \in Int, m * f = y, -m < y, y < m
      PROVE  y = 0
  <2>1. CASE f >= 1
    <3>1. m * f >= m
      BY <2>1
    <3> QED BY <3>1, <1>4
  <2>2. CASE f <= -1
    <3>1. m * f <= -m
      BY <2>2
    <3> QED BY <3>1, <1>4
  <2>3. CASE f = 0
    BY <2>3, <1>4
  <2> QED BY <2>1, <2>2, <2>3
<1>5. d - r = 0
  BY <1>3, <1>4
<1> QED BY <1>2, <1>5

(* A second is a whole number of ticks.                                    *)
LEMMA TicksPerSecond ==
  ASSUME NEW clock \in {"cycle", "clock", "timespec"}
  PROVE  /\ Divider(clock) \in Nat \ {0}
         /\ EE_TICKS_PER_SEC(clock) \in Nat \ {0}
         /\ Divider(clock) * EE_TICKS_PER_SEC(clock) = NSECS_PER_SEC
<1>1. CASE clock \in {"cycle", "clock"}
  BY <1>1, TimerAssumption DEF Divider, EE_TICKS_PER_SEC
<1>2. CASE clock = "timespec"
  <2> DEFINE t == NSECS_PER_SEC \div TIMER_RES_DIVIDER
  <2>1. t \in Nat /\ NSECS_PER_SEC = TIMER_RES_DIVIDER * t
    BY TimerAssumption, DivMod, DivNat
  <2>2. t # 0
    BY <2>1, TimerAssumption
  <2> QED BY <1>2, <2>1, <2>2, TimerAssumption DEF Divider, EE_TICKS_PER_SEC
<1> QED BY <1>1, <1>2

Time == [wall : Nat, cpu : Nat]

(* The ticks between two readings, times their length, are what passed on  *)
(* the clock, to less than a tick.                                         *)
LEMMA Difference ==
  ASSUME NEW clock \in {"cycle", "clock", "timespec"}, NEW at \in Time, NEW later \in Time
  PROVE  LET ticks == MYTIMEDIFF(clock, GETMYTIME(clock, later), GETMYTIME(clock, at))
             passed == Shown(clock, later) - Shown(clock, at)
             error == ticks * Divider(clock) - passed
         IN  /\ ticks \in Int
             /\ 0 <= passed /\ passed < TickMod =>
                  -Divider(clock) < error /\ error < Divider(clock)
<1> DEFINE ticks == MYTIMEDIFF(clock, GETMYTIME(clock, later), GETMYTIME(clock, at))
<1>t. PICK ini \in Nat, fin \in Nat : ini = Shown(clock, at) /\ fin = Shown(clock, later)
  BY DEF Time, Shown
<1> fin \in Int /\ ini \in Int
  OBVIOUS
<1> TickMod \in Nat \ {0} /\ NSECS_PER_SEC \in Nat \ {0} /\ TIMER_RES_DIVIDER \in Nat \ {0}
  BY TimerAssumption
<1>1. CASE clock \in {"cycle", "clock"}
  <2>1. ticks = ((fin % TickMod) - (ini % TickMod)) % TickMod
    BY <1>t, <1>1 DEF MYTIMEDIFF, GETMYTIME
  <2>2. PICK q1 \in Int, r1 \in 0..(TickMod - 1) : r1 = fin % TickMod /\ fin = TickMod * q1 + r1
    BY DivMod, Zenon
  <2>3. PICK q2 \in Int, r2 \in 0..(TickMod - 1) : r2 = ini % TickMod /\ ini = TickMod * q2 + r2
    BY DivMod, Zenon
  <2>4. ticks \in Int
    BY <2>1, <2>2, <2>3
  <2>5. ASSUME ini <= fin, fin - ini < TickMod
        PROVE  ticks = fin - ini
    <3>1. r1 - r2 = (fin - ini) + TickMod * (q2 - q1)
      BY <2>2, <2>3
    <3>2. fin - ini \in 0..(TickMod - 1) /\ q2 - q1 \in Int
      BY <2>5
    <3>3. (r1 - r2) % TickMod = fin - ini
      BY <3>1, <3>2, ModOfDifference
    <3> QED BY <2>1, <2>2, <2>3, <3>3
  <2>6. Divider(clock) = 1
    BY <1>1 DEF Divider
  <2> HIDE DEF ticks
  <2>7. 0 <= fin - ini /\ fin - ini < TickMod => ticks * 1 - (fin - ini) = 0
    BY <2>4, <2>5
  <2> QED BY <1>t, <2>4, <2>6, <2>7 DEF ticks
<1>2. CASE clock = "timespec"
  <2> DEFINE t == EE_TICKS_PER_SEC(clock)
             D == TIMER_RES_DIVIDER
  <2>1. t \in Nat /\ D \in Nat \ {0} /\ D * t = NSECS_PER_SEC /\ Divider(clock) = D
    BY <1>2, TicksPerSecond DEF Divider
  <2>2. PICK s1 \in Int, r1 \in 0..(NSECS_PER_SEC - 1) :
                /\ s1 = fin \div NSECS_PER_SEC /\ r1 = fin % NSECS_PER_SEC
                /\ fin = NSECS_PER_SEC * s1 + r1
    BY DivMod, Zenon
  <2>3. PICK s2 \in Int, r2 \in 0..(NSECS_PER_SEC - 1) :
                /\ s2 = ini \div NSECS_PER_SEC /\ r2 = ini % NSECS_PER_SEC
                /\ ini = NSECS_PER_SEC * s2 + r2
    BY DivMod, Zenon
  <2>4. ticks = (s1 - s2) * t + Quotient(r1 - r2, D)
    <3>1. fin = later.wall /\ ini = at.wall
      BY <1>t, <1>2 DEF Shown
    <3> QED BY <1>2, <2>2, <2>3, <3>1 DEF MYTIMEDIFF, GETMYTIME
  <2>5. /\ Quotient(r1 - r2, D) \in Int
        /\ -D < D * Quotient(r1 - r2, D) - (r1 - r2)
        /\ D * Quotient(r1 - r2, D) - (r1 - r2) < D
    <3> r1 - r2 \in Int
      OBVIOUS
    <3> QED BY <2>1, QuotientError, Zenon
  <2>6. ASSUME NEW q \in Int, q = Quotient(r1 - r2, D)
        PROVE  ticks * D - (fin - ini) = D * q - (r1 - r2)
    <3>1. ((s1 - s2) * t) * D = NSECS_PER_SEC * (s1 - s2)
      BY <2>1
    <3>2. ticks * D = ((s1 - s2) * t) * D + D * q
      BY <2>1, <2>4, <2>6
    <3>3. NSECS_PER_SEC * (s1 - s2) = NSECS_PER_SEC * s1 - NSECS_PER_SEC * s2
      OBVIOUS
    <3>4. fin - ini = NSECS_PER_SEC * (s1 - s2) + (r1 - r2)
      BY <2>2, <2>3, <3>3
    <3>5. ticks * D = NSECS_PER_SEC * (s1 - s2) + D * q
      BY <3>1, <3>2
    <3> HIDE DEF ticks
    <3>6. NSECS_PER_SEC * (s1 - s2) \in Int /\ D * q \in Int
      BY <2>1
    <3> QED BY <3>4, <3>5, <3>6
  <2>7. ticks \in Int
    BY <2>1, <2>4, <2>5
  <2> HIDE DEF ticks
  <2> QED BY <1>t, <2>1, <2>5, <2>6, <2>7 DEF ticks
<1> QED BY <1>1, <1>2

(* A reported number of seconds is a number.                               *)
LEMMA Seconds ==
  ASSUME NEW clock \in {"cycle", "clock", "timespec"}, NEW at \in Time, NEW later \in Time
  PROVE  time_in_secs(clock, MYTIMEDIFF(clock, GETMYTIME(clock, later), GETMYTIME(clock, at))) \in Int
BY Difference, TicksPerSecond, DivMod DEF time_in_secs

-----------------------------------------------------------------------------
(* The inductive invariant.                                                *)

Over == {"stopped", "report", "done"}

(* Contexts whose core_start_parallel and core_stop_parallel are over.     *)
Started(c) == \/ pc = "start" /\ c < k
              \/ pc \in {"stop"} \cup Over /\ c <= run.contexts

Joined(c) == \/ pc = "stop" /\ c < k
             \/ pc \in Over /\ c <= run.contexts

Faulty(c) == \E f \in failed : f[2] = c

NoForkFailed == ~(\E c \in Ctx : <<"fork", c>> \in failed)

(* The command line never changes; main's loop stays within the contexts.  *)
RunOK ==
  /\ run \in [method : Methods, contexts : 0..Multithread, asked : Asked, rate : Rates,
             known : Known, wrong : WrongTypes, clock : Clocks, cores : Cores]
  /\ BuiltIn(run.method, run.contexts, run.clock)

StateOK ==
  /\ pc \in {"main", "calibrate", "timed", "start", "stop"} \cup Over
  /\ k \in 1..(run.contexts + 1)
  /\ pc \in {"main", "calibrate", "timed"} => k = 1
  /\ run.method = "single" => pc # "stop"
  /\ child \in [Ctx -> {"none", "shmget", "iterate", "iterated", "exited"}]
  /\ crc \in [Ctx -> Crcs] /\ seg \in [Ctx -> Crcs]
  /\ pid \in [Ctx -> Int] /\ sock \in [Ctx -> {"closed", "none", "unbound", "bound", "full"}]

(* pthread: a thread lives from its start, and has written its results     *)
(* when it has exited.                                                     *)
ThreadsWrite ==
  run.method = "pthread" => \A c \in Ctx :
    /\ child[c] \in IF Started(c) THEN {"iterate", "exited"} ELSE {"none"}
    /\ child[c] = "exited" => crc[c] = "own"
    /\ Joined(c) => child[c] = "exited"

(* fork: pid tells whether there is a child; only main's waiting for a     *)
(* context reaps its child; the segment of a child that has exited has its *)
(* results.                                                                *)
ForksRecorded ==
  run.method = "fork" => \A c \in Ctx :
    /\ pid[c] \in {0, -1, c}
    /\ Started(c) => pid[c] # 0
    /\ pid[c] = -1 => <<"fork", c>> \in failed
    /\ pid[c] = c => child[c] # "none"
    /\ NoForkFailed /\ c \in reaped => Joined(c)
    /\ child[c] = "exited" => seg[c] = "own" \/ Faulty(c)

(* socket: main has no socket for a context only when a call failed.       *)
SocketsRecorded ==
  run.method = "socket" => \A c \in Ctx : sock[c] = "none" => Faulty(c)

(* What main has after waiting for a context.                              *)
Gathered ==
  NoForkFailed => \A c \in Ctx : Joined(c) => crc[c] = "own" \/ Faulty(c)

(* The last readings of the clock.                                         *)
ClockRead ==
  /\ iterations \in Nat /\ now \in Time /\ began \in Time
  /\ pc \in {"start", "stop"} \cup Over =>
       began.wall <= now.wall /\ began.cpu <= now.cpu /\ start_time_val = GETMYTIME(run.clock, began)
  /\ pc \in {"report", "done"} => stop_time_val = GETMYTIME(run.clock, now)

(* The report stands.                                                      *)
Reported ==
  pc = "done" => verdict = CASE total_errors = 0 -> "validated"
                             [] total_errors > 0 -> "errors"
                             [] total_errors < 0 -> "cannot_validate"

HarnessInv ==
  /\ RunOK /\ StateOK /\ ThreadsWrite /\ ForksRecorded /\ SocketsRecorded /\ Gathered
  /\ ClockRead /\ Reported

-----------------------------------------------------------------------------
(* Steps of main that leave every context as far as it was.                *)
MainAlone == SetIterations \/ Calibrate \/ StartTime \/ AllStarted \/ AllStopped \/ StopTime \/ Report

(* The steps of the main process alone move no context from one phase to   *)
(* the next.                                                               *)
LEMMA SamePhases ==
  ASSUME RunOK, StateOK, MainAlone
  PROVE  \A c \in Ctx : Started(c)' = Started(c) /\ Joined(c)' = Joined(c)
<1> SUFFICES ASSUME NEW c \in Ctx
             PROVE  (Started(c)' <=> Started(c)) /\ (Joined(c)' <=> Joined(c))
  BY Zenon DEF Started, Joined
<1> USE DEF RunOK, StateOK, Started, Joined, Over, Ctx
<1>1. CASE SetIterations \/ Calibrate \/ StartTime
  BY <1>1 DEF SetIterations, Calibrate, StartTime, start_time, stop_time
<1>2. CASE AllStarted \/ AllStopped
  BY <1>2 DEF AllStarted, AllStopped
<1>3. CASE StopTime \/ Report
  BY <1>3 DEF StopTime, Report, stop_time
<1> QED BY <1>1, <1>2, <1>3 DEF MainAlone

(* The context of main's loop is one.                                      *)
LEMMA LoopContext ==
  ASSUME RunOK, StateOK
  PROVE  /\ run.contexts \in Nat /\ k \in Nat \ {0} /\ Multithread \in Nat
         /\ 1..run.contexts \subseteq Ctx
         /\ k <= run.contexts => k \in Ctx
<1>1. run.contexts \in 0..Multithread /\ Multithread \in Nat
  BY HarnessAssumption DEF RunOK
<1>2. k \in 1..(run.contexts + 1)
  BY DEF StateOK
<1> QED BY <1>1, <1>2 DEF Ctx

(* Failures are not forgotten.                                             *)
LEMMA FaultsGrow ==
  ASSUME failed \subseteq failed'
  PROVE  /\ NoForkFailed' => NoForkFailed
         /\ \A c : Faulty(c) => Faulty(c)'
BY DEF NoForkFailed, Faulty

(* No step changes the command line or forgets a failure.                  *)
LEMMA RunFixed ==
  ASSUME Next
  PROVE  run' = run
BY DEF Next, Main, Child, SetIterations, Calibrate, StartTime, IterateInMain, AllStarted,
   AllStopped, pthread_start_parallel, pthread_stop_parallel, fork_start_parallel, ParentShmget,
   fork_stop_parallel, socket_start_parallel, ParentBinds, socket_stop_parallel, StopTime, Report,
   ThreadIterates, ChildShmget, ChildIterates, ChildCopies, ChildSends, ChildKilled

(* A context that has failed has failed for good.                          *)
LEMMA FailedGrows ==
  ASSUME Next
  PROVE  failed \subseteq failed'
BY DEF Next, Main, Child, SetIterations, Calibrate, StartTime, IterateInMain, AllStarted,
   AllStopped, pthread_start_parallel, pthread_stop_parallel, fork_start_parallel, Fork, ParentShmget,
   Shmget, fork_stop_parallel, socket_start_parallel, ParentBinds, socket_stop_parallel, StopTime,
   Report, ThreadIterates, ChildShmget, ChildIterates, ChildCopies, ChildSends, ChildKilled

-----------------------------------------------------------------------------
(* fork and shared memory.                                                 *)
LEMMA ForksStep ==
  ASSUME RunOK, StateOK, ForksRecorded, Next
  PROVE  ForksRecorded'
<1> SUFFICES ASSUME run.method = "fork", run' = run
             PROVE  ForksRecorded'
  BY RunFixed DEF ForksRecorded
<1>1. CASE MainAlone
  <2>1. UNCHANGED <<pid, child, reaped, seg, failed>>
    BY <1>1 DEF MainAlone, SetIterations, Calibrate, StartTime, AllStarted, AllStopped, StopTime, Report
  <2> QED BY <1>1, <2>1, SamePhases DEF ForksRecorded, NoForkFailed, Faulty
<1>2. CASE fork_start_parallel
  <2>1. /\ pc = "start" /\ k <= run.contexts /\ pid[k] = 0 /\ UNCHANGED <<pc, k, reaped, seg>>
        /\ failed \subseteq failed'
        /\ \/ child' = [child EXCEPT ![k] = "shmget"] /\ pid' = [pid EXCEPT ![k] = k]
           \/ /\ child' = child /\ pid' = [pid EXCEPT ![k] = -1]
              /\ failed' = failed \cup {<<"fork", k>>}
    BY <1>2 DEF fork_start_parallel, Fork, Starting
  <2>2. k \in Ctx /\ k # 0 /\ k # -1
    BY <2>1, LoopContext
  <2>3. \A c \in Ctx : (Started(c)' <=> Started(c)) /\ (Joined(c)' <=> Joined(c))
    BY <2>1 DEF Started, Joined
  <2>4. /\ pid'[k] \in {-1, k}
        /\ pid'[k] = -1 => <<"fork", k>> \in failed'
        /\ pid'[k] = k => child'[k] # "none"
        /\ child'[k] \in {"none", "shmget", child[k]}
        /\ \A c \in Ctx \ {k} : pid'[c] = pid[c] /\ child'[c] = child[c]
    BY <2>1, <2>2 DEF StateOK
  <2>5. ~Started(k)
    BY <2>1, LoopContext DEF Started, Over
  <2> QED BY <2>1, <2>2, <2>3, <2>4, <2>5, FaultsGrow DEF ForksRecorded
<1>3. CASE ParentShmget
  <2>1. /\ pc = "start" /\ pid[k] # 0 /\ k' = k + 1 /\ UNCHANGED <<pc, pid, child, reaped, seg>>
        /\ failed \subseteq failed'
    BY <1>3 DEF ParentShmget, Starting, Shmget
  <2>2. \A c \in Ctx : (Started(c)' => Started(c) \/ c = k) /\ (Joined(c)' <=> Joined(c))
    BY <2>1, LoopContext DEF Started, Joined, Over, Ctx
  <2>3. /\ NoForkFailed' => NoForkFailed
        /\ \A c \in Ctx : Faulty(c) => Faulty(c)'
    BY <2>1, FaultsGrow
  <2>4. \A c \in Ctx : Started(c)' => pid'[c] # 0
    BY <2>1, <2>2 DEF ForksRecorded
  <2> QED BY <2>1, <2>2, <2>3, <2>4 DEF ForksRecorded
<1>4. CASE fork_stop_parallel
  <2>1. /\ pc = "stop" /\ k' = k + 1 /\ UNCHANGED <<pc, pid, child, seg>>
        /\ k <= run.contexts /\ failed \subseteq failed'
    BY <1>4 DEF fork_stop_parallel, Stopping
  <2>2. \A c \in Ctx : (Started(c)' <=> Started(c)) /\ (Joined(c)' <=> Joined(c) \/ c = k)
    BY <2>1, LoopContext DEF Started, Joined, Over, Ctx
  <2>3. ASSUME NoForkFailed
        PROVE  reaped' \subseteq reaped \cup {k}
    <3>1. k \in Ctx /\ -1 \notin Ctx /\ Started(k)
      BY <2>1, LoopContext DEF Started, Ctx
    <3>2. pid[k] = k
      BY <2>3, <3>1 DEF ForksRecorded, NoForkFailed
    <3>3. PICK w \in Ctx \cup {-1} : Waitpid(w)
      BY <1>4 DEF fork_stop_parallel
    <3> QED BY <3>1, <3>2, <3>3 DEF Waitpid, Children
  <2> QED BY <2>1, <2>2, <2>3, FaultsGrow DEF ForksRecorded
<1>5. ASSUME NEW c \in Ctx, ChildShmget(c) \/ ChildIterates(c) \/ ChildCopies(c) \/ ChildKilled(c)
      PROVE  ForksRecorded'
  <2>1. UNCHANGED <<pc, k, pid, reaped>> /\ failed \subseteq failed'
    BY <1>5 DEF ChildShmget, Shmget, ChildIterates, ChildCopies, ChildKilled
  <2>2. \A d \in Ctx : (Started(d)' <=> Started(d)) /\ (Joined(d)' <=> Joined(d))
    BY <2>1 DEF Started, Joined
  <2>3. /\ child[c] # "none" /\ child'[c] # "none"
        /\ child'[c] = "exited" => seg'[c] = "own" \/ Faulty(c)'
        /\ \A d \in Ctx \ {c} : child'[d] = child[d] /\ seg'[d] = seg[d]
    <3>1. CASE ChildShmget(c) \/ ChildIterates(c)
      BY <3>1 DEF ChildShmget, ChildIterates, StateOK
    <3>2. CASE ChildCopies(c)
      <4>1. \/ seg' = [seg EXCEPT ![c] = "own"]
            \/ seg' = seg /\ <<"shmat", c>> \in failed'
        BY <3>2 DEF ChildCopies
      <4> QED BY <3>2, <4>1 DEF ChildCopies, StateOK, Faulty
    <3>3. CASE ChildKilled(c)
      <4>1. <<"killed", c>> \in failed' /\ seg' = seg
        BY <3>3 DEF ChildKilled
      <4> QED BY <3>3, <4>1 DEF ChildKilled, StateOK, Faulty
    <3> QED BY <1>5, <3>1, <3>2, <3>3
  <2> QED BY <2>1, <2>2, <2>3, FaultsGrow DEF ForksRecorded
<1>6. CASE \/ IterateInMain \/ pthread_start_parallel \/ pthread_stop_parallel \/ socket_start_parallel
           \/ ParentBinds \/ socket_stop_parallel \/ \E c \in Ctx : ThreadIterates(c) \/ ChildSends(c)
  BY <1>6 DEF IterateInMain, pthread_start_parallel, pthread_stop_parallel, socket_start_parallel,
     ParentBinds, socket_stop_parallel, ThreadIterates, ChildSends, Starting, Stopping
<1> QED BY <1>1, <1>2, <1>3, <1>4, <1>5, <1>6 DEF Next, Main, Child, MainAlone

-----------------------------------------------------------------------------
(* Threads.                                                                *)
LEMMA ThreadsStep ==
  ASSUME RunOK, StateOK, ThreadsWrite, Next
  PROVE  ThreadsWrite'
<1> SUFFICES ASSUME run.method = "pthread", run' = run
             PROVE  ThreadsWrite'
  BY RunFixed DEF ThreadsWrite
<1>1. CASE MainAlone
  <2>1. child' = child
    BY <1>1 DEF MainAlone, SetIterations, Calibrate, StartTime, AllStarted, AllStopped, StopTime, Report
  <2>2. \A c \in Ctx : child[c] = "exited" => crc'[c] = crc[c]
    <3>1. CASE pc # "calibrate"
      BY <1>1, <3>1 DEF MainAlone, SetIterations, Calibrate, StartTime, AllStarted, AllStopped, StopTime,
                        Report
    <3>2. CASE pc = "calibrate"
      BY <3>2 DEF ThreadsWrite, Started, Over
    <3> QED BY <3>1, <3>2
  <2> QED BY <1>1, <2>1, <2>2, SamePhases DEF ThreadsWrite
<1>2. CASE pthread_start_parallel
  <2>1. /\ pc = "start" /\ k' = k + 1 /\ k \in Ctx /\ pc' = pc /\ crc' = crc
        /\ child' = [child EXCEPT ![k] = "iterate"]
    BY <1>2, LoopContext DEF pthread_start_parallel, Starting
  <2>2. \A c \in Ctx : (Started(c)' <=> Started(c) \/ c = k) /\ ~Joined(c)'
    BY <2>1, LoopContext DEF Started, Joined, Over, Ctx
  <2> QED BY <2>1, <2>2 DEF ThreadsWrite, StateOK
<1>3. CASE pthread_stop_parallel
  <2>1. /\ pc = "stop" /\ k' = k + 1 /\ k \in Ctx /\ child[k] = "exited"
        /\ UNCHANGED <<pc, child, crc>>
    BY <1>3, LoopContext DEF pthread_stop_parallel, Stopping
  <2>2. \A c \in Ctx : (Started(c)' <=> Started(c)) /\ (Joined(c)' => Joined(c) \/ c = k)
    BY <2>1, LoopContext DEF Started, Joined, Over, Ctx
  <2>3. \A c \in Ctx : Joined(c)' => child[c] = "exited"
    BY <2>1, <2>2 DEF ThreadsWrite
  <2> QED BY <2>1, <2>2, <2>3 DEF ThreadsWrite
<1>4. ASSUME NEW c \in Ctx, ThreadIterates(c)
      PROVE  ThreadsWrite'
  <2>1. \A d \in Ctx : (Started(d)' <=> Started(d)) /\ (Joined(d)' <=> Joined(d))
    BY <1>4 DEF ThreadIterates, Started, Joined
  <2>2. /\ child[c] = "iterate" /\ child'[c] = "exited" /\ crc'[c] = "own"
        /\ \A d \in Ctx \ {c} : child'[d] = child[d] /\ crc'[d] = crc[d]
    BY <1>4 DEF ThreadIterates, StateOK
  <2> QED BY <2>1, <2>2 DEF ThreadsWrite
<1>5. ASSUME NEW c \in Ctx, ChildShmget(c)
      PROVE  FALSE
  BY <1>5 DEF ChildShmget, ThreadsWrite
<1>6. CASE \/ IterateInMain \/ fork_start_parallel \/ ParentShmget \/ fork_stop_parallel
           \/ socket_start_parallel \/ ParentBinds \/ socket_stop_parallel
           \/ \E c \in Ctx : ChildIterates(c) \/ ChildCopies(c) \/ ChildSends(c) \/ ChildKilled(c)
  BY <1>6 DEF IterateInMain, fork_start_parallel, ParentShmget, fork_stop_parallel, socket_start_parallel,
     ParentBinds, socket_stop_parallel, ChildIterates, ChildCopies, ChildSends, ChildKilled, Starting,
     Stopping
<1> QED BY <1>1, <1>2, <1>3, <1>4, <1>5, <1>6 DEF Next, Main, Child, MainAlone

-----------------------------------------------------------------------------
(* Sockets.                                                                *)
LEMMA SocketsStep ==
  ASSUME RunOK, StateOK, SocketsRecorded, Next
  PROVE  SocketsRecorded'
<1>1. run' = run /\ failed \subseteq failed'
  BY RunFixed, FailedGrows
<1>2. CASE sock' = sock
  BY <1>1, <1>2, FaultsGrow DEF SocketsRecorded
<1>3. CASE ParentBinds
  <2>1. k \in Ctx /\ (\A c \in Ctx \ {k} : sock'[c] = sock[c])
    BY <1>3, LoopContext DEF ParentBinds, Starting, StateOK
  <2>2. sock'[k] = "none" => <<"socket", k>> \in failed'
    BY <1>3, <2>1 DEF ParentBinds, StateOK
  <2>3. \A c \in Ctx : <<"socket", c>> \in failed' => Faulty(c)'
    BY DEF Faulty
  <2>4. \A c \in Ctx : Faulty(c) => Faulty(c)'
    BY <1>1, FaultsGrow
  <2> QED BY <1>1, <2>1, <2>2, <2>3, <2>4 DEF SocketsRecorded
<1>4. ASSUME NEW c \in Ctx, ChildSends(c)
      PROVE  SocketsRecorded'
  <2>1. sock' = sock \/ sock' = [sock EXCEPT ![c] = "full"]
    BY <1>4 DEF ChildSends
  <2>2. \A d \in Ctx : sock'[d] = "none" => sock[d] = "none"
    BY <2>1 DEF StateOK
  <2>3. \A d \in Ctx : Faulty(d) => Faulty(d)'
    BY <1>1, FaultsGrow
  <2> QED BY <1>1, <2>2, <2>3 DEF SocketsRecorded
<1>5. sock' = sock \/ ParentBinds \/ \E c \in Ctx : ChildSends(c)
  BY DEF Next, Main, Child, SetIterations, Calibrate, StartTime, IterateInMain, AllStarted,
     AllStopped, pthread_start_parallel, pthread_stop_parallel, fork_start_parallel, ParentShmget,
     fork_stop_parallel, socket_start_parallel, socket_stop_parallel, StopTime, Report,
     ThreadIterates, ChildShmget, ChildIterates, ChildCopies, ChildKilled
<1> QED BY <1>2, <1>3, <1>4, <1>5

-----------------------------------------------------------------------------
(* The results that main gathers.                                          *)
LEMMA GatheredStep ==
  ASSUME RunOK, StateOK, ThreadsWrite, ForksRecorded, SocketsRecorded, Gathered, Next
  PROVE  Gathered'
<1>1. run' = run /\ (NoForkFailed' => NoForkFailed) /\ \A c \in Ctx : Faulty(c) => Faulty(c)'
  BY RunFixed, FailedGrows, FaultsGrow
<1>2. CASE MainAlone
  <2>1. \A c \in Ctx : Joined(c) => crc'[c] = crc[c]
    BY <1>2 DEF MainAlone, SetIterations, Calibrate, StartTime, AllStarted, AllStopped, StopTime, Report,
                Joined, Over
  <2> QED BY <1>1, <1>2, <2>1, SamePhases DEF Gathered
<1>3. CASE IterateInMain
  <2>1. 1 \in Ctx /\ run.contexts = 1
    BY <1>3, HarnessAssumption DEF IterateInMain, RunOK, BuiltIn, Ctx
  <2>2. crc'[1] = "own"
    BY <1>3, <2>1 DEF IterateInMain, StateOK
  <2>3. \A c \in Ctx : Joined(c)' => c = 1
    BY <1>1, <1>3, <2>1 DEF IterateInMain, Joined, Over, Ctx
  <2> QED BY <2>2, <2>3 DEF Gathered
<1>4. CASE \/ pthread_start_parallel \/ fork_start_parallel \/ ParentShmget \/ socket_start_parallel
           \/ ParentBinds
  <2>1. pc' = "start"
    BY <1>4 DEF pthread_start_parallel, fork_start_parallel, ParentShmget, socket_start_parallel,
                ParentBinds, Starting
  <2> QED BY <2>1 DEF Gathered, Joined, Over
<1>5. CASE pthread_stop_parallel \/ fork_stop_parallel \/ socket_stop_parallel
  <2>1. /\ pc = "stop" /\ pc' = pc /\ k' = k + 1 /\ k <= run.contexts
        /\ \A c \in Ctx \ {k} : crc'[c] = crc[c]
    BY <1>5 DEF pthread_stop_parallel, fork_stop_parallel, socket_stop_parallel, Stopping, StateOK
  <2>2. k \in Ctx /\ Started(k) /\ ~Joined(k)
    BY <2>1, LoopContext DEF Started, Joined, Over
  <2>3. \A c \in Ctx : Joined(c)' => Joined(c) \/ c = k
    BY <2>1, LoopContext DEF Joined, Over, Ctx
  <2>4. ASSUME NoForkFailed, NoForkFailed'
        PROVE  crc'[k] = "own" \/ \E f \in failed' : f[2] = k
    <3>1. CASE pthread_stop_parallel
      BY <2>2, <3>1 DEF pthread_stop_parallel, Stopping, ThreadsWrite
    <3>2. CASE fork_stop_parallel
      <4>1. pid[k] = k /\ k \notin reaped /\ child[k] # "none" /\ -1 \notin Ctx
        <5>1. run.method = "fork"
          BY <3>2 DEF fork_stop_parallel, Stopping
        <5>2. <<"fork", k>> \notin failed
          BY <2>2, <2>4 DEF NoForkFailed
        <5>3. -1 \notin Ctx
          BY DEF Ctx
        <5> QED BY <2>2, <2>4, <5>1, <5>2, <5>3 DEF ForksRecorded
      <4>2. child[k] = "exited"
        BY <2>2, <3>2, <4>1 DEF fork_stop_parallel, Waitpid, Children
      <4>3. seg[k] = "own" \/ \E f \in failed' : f[2] = k
        <5>1. seg[k] = "own" \/ Faulty(k)
          BY <2>2, <3>2, <4>2 DEF ForksRecorded, fork_stop_parallel, Stopping
        <5> QED BY <5>1, FailedGrows DEF Faulty
      <4>4. PICK w \in Ctx \cup {-1} :
              /\ Waitpid(w)
              /\ w = pid[k] => \/ crc' = [crc EXCEPT ![k] = seg[k]]
                               \/ <<"shmat", k>> \in failed'
        BY <3>2 DEF fork_stop_parallel
      <4>5. w = pid[k]
        BY <2>2, <4>1, <4>4 DEF Waitpid, Children
      <4> QED BY <2>2, <4>3, <4>4, <4>5 DEF StateOK
    <3>3. CASE socket_stop_parallel
      <4>1. \/ crc' = [crc EXCEPT ![k] = "own"]
            \/ sock[k] = "none"
        BY <3>3 DEF socket_stop_parallel
      <4> QED BY <2>2, <3>3, <4>1, FailedGrows DEF socket_stop_parallel, Stopping, SocketsRecorded, Faulty,
                                                   StateOK
    <3> QED BY <1>5, <3>1, <3>2, <3>3
  <2>5. ASSUME NoForkFailed', NEW c \in Ctx, Joined(c)'
        PROVE  crc'[c] = "own" \/ Faulty(c)'
    <3>1. CASE c = k
      BY <1>1, <2>4, <2>5, <3>1 DEF Faulty
    <3>2. CASE c # k
      BY <1>1, <2>1, <2>3, <2>5, <3>2 DEF Gathered
    <3> QED BY <3>1, <3>2
  <2> QED BY <2>5 DEF Gathered
<1>6. ASSUME NEW c \in Ctx, Child(c) \/ ChildKilled(c)
      PROVE  Gathered'
  <2>1. UNCHANGED <<pc, k>>
    BY <1>6 DEF Child, ThreadIterates, ChildShmget, ChildIterates, ChildCopies, ChildSends, ChildKilled
  <2>2. \A d \in Ctx : Joined(d)' <=> Joined(d)
    BY <1>1, <2>1 DEF Joined
  <2>3. \A d \in Ctx : crc'[d] \in {crc[d], "own"}
    BY <1>6 DEF Child, ThreadIterates, ChildShmget, ChildIterates, ChildCopies, ChildSends, ChildKilled,
                StateOK
  <2> QED BY <1>1, <2>2, <2>3 DEF Gathered
<1> QED BY <1>2, <1>3, <1>4, <1>5, <1>6 DEF Next, Main, MainAlone

-----------------------------------------------------------------------------
(* Types, and where main is.                                               *)
LEMMA StateStep ==
  ASSUME RunOK, StateOK, Next
  PROVE  RunOK' /\ StateOK'
<1>1. run' = run
  BY RunFixed
<1>2. RunOK'
  BY <1>1 DEF RunOK
<1> SUFFICES StateOK'
  BY <1>2
<1> USE DEF StateOK, Over
<1>3. CASE SetIterations
  BY <1>1, <1>3, LoopContext DEF SetIterations
<1>4. CASE Calibrate
  BY <1>1, <1>4, LoopContext DEF Calibrate, Crcs
<1>5. CASE StartTime
  BY <1>1, <1>5, LoopContext DEF StartTime
<1>6. CASE IterateInMain
  BY <1>1, <1>6, LoopContext DEF IterateInMain, Crcs
<1>7. CASE AllStarted
  BY <1>1, <1>7, LoopContext DEF AllStarted
<1>8. CASE AllStopped
  BY <1>1, <1>8, LoopContext DEF AllStopped
<1>9. CASE pthread_start_parallel
  BY <1>1, <1>9, LoopContext DEF pthread_start_parallel, Starting
<1>10. CASE pthread_stop_parallel
  BY <1>1, <1>10, LoopContext DEF pthread_stop_parallel, Stopping
<1>11. CASE fork_start_parallel
  BY <1>1, <1>11, LoopContext DEF fork_start_parallel, Fork, Starting, Ctx
<1>12. CASE ParentShmget
  BY <1>1, <1>12, LoopContext DEF ParentShmget, Starting
<1>13. CASE fork_stop_parallel
  BY <1>1, <1>13, LoopContext DEF fork_stop_parallel, Stopping
<1>14. CASE socket_start_parallel
  BY <1>1, <1>14, LoopContext DEF socket_start_parallel, Fork, Starting, Ctx
<1>15. CASE ParentBinds
  BY <1>1, <1>15, LoopContext DEF ParentBinds, Starting
<1>16. CASE socket_stop_parallel
  BY <1>1, <1>16, LoopContext DEF socket_stop_parallel, Stopping, Crcs
<1>17. CASE StopTime
  BY <1>1, <1>17, LoopContext DEF StopTime
<1>18. CASE Report
  BY <1>1, <1>18, LoopContext DEF Report
<1>19. ASSUME NEW c \in Ctx, Child(c) \/ ChildKilled(c)
      PROVE  StateOK'
  BY <1>1, <1>19 DEF Child, ThreadIterates, ChildShmget, ChildIterates, ChildCopies, ChildSends, ChildKilled,
                    Crcs
<1> QED BY <1>3, <1>4, <1>5, <1>6, <1>7, <1>8, <1>9, <1>10,
           <1>11, <1>12, <1>13, <1>14, <1>15, <1>16, <1>17, <1>18, <1>19 DEF Next, Main

-----------------------------------------------------------------------------
(* Readings of the clock.                                                  *)

(* Time only goes on.                                                      *)
LEMMA TimePasses ==
  ASSUME now \in Time, run.rate \in Nat, NEW rounds \in Nat, NEW own \in Nat, NEW times \in Nat
  PROVE  /\ After(rounds, own, times) \in Time
         /\ now.wall <= After(rounds, own, times).wall /\ now.cpu <= After(rounds, own, times).cpu
<1>1. times * run.rate \in Nat
  OBVIOUS
<1>2. rounds * (times * run.rate) \in Nat /\ own * (times * run.rate) \in Nat
  BY <1>1
<1>3. now.wall \in Nat /\ now.cpu \in Nat
  BY DEF Time
<1> QED BY <1>2, <1>3 DEF After, Time

(* The contexts that ran had begun, and those are not more than there are. *)
LEMMA RanAndBegun ==
  ASSUME NEW n \in Nat, n <= Multithread, \A c \in Begun : c <= n
  PROVE  /\ Cardinality(Ran) \in Nat /\ Cardinality(Begun) \in Nat
         /\ Cardinality(Ran) <= Cardinality(Begun) /\ Cardinality(Begun) <= n
         /\ Ran # {} => Cardinality(Ran) > 0
<1>1. IsFiniteSet(1..n) /\ Cardinality(1..n) = n
  BY FS_Interval
<1>2. Begun \subseteq 1..n
  BY HarnessAssumption DEF Begun, Ctx
<1>3. IsFiniteSet(Begun) /\ Cardinality(Begun) <= n
  BY <1>1, <1>2, FS_Subset
<1>4. Ran \subseteq Begun
  BY DEF Ran
<1>5. IsFiniteSet(Ran) /\ Cardinality(Ran) <= Cardinality(Begun)
  BY <1>3, <1>4, FS_Subset
<1> QED BY <1>3, <1>5, FS_CardinalityType, FS_EmptySet

(* More contexts take no fewer rounds; a single one takes one.             *)
LEMMA RoundsGrow ==
  ASSUME run.cores \in Nat \ {0}, NEW m \in Nat, NEW n \in Nat, m <= n
  PROVE  /\ Rounds(m) \in Nat /\ Rounds(n) \in Nat /\ Rounds(m) <= Rounds(n)
         /\ m > 0 => Rounds(m) > 0
         /\ Rounds(1) = 1
<1> DEFINE b == run.cores
<1>0. b \in Nat \ {0}
  OBVIOUS
<1>d. ASSUME NEW x \in Int
      PROVE  \E q \in Int, r \in 0..(b - 1) : q = x \div b /\ x = b * q + r
  BY <1>0, DivMod, Zenon
<1>r. \A i : Rounds(i) = (i + b - 1) \div b
  BY DEF Rounds
<1> HIDE DEF b
<1>1. PICK q1 \in Int, r1 \in 0..(b - 1) : q1 = (m + b - 1) \div b /\ m + b - 1 = b * q1 + r1
  <2>1. m + b - 1 \in Int
    BY <1>0
  <2> QED BY <1>d, <2>1, Zenon
<1>2. PICK q2 \in Int, r2 \in 0..(b - 1) : q2 = (n + b - 1) \div b /\ n + b - 1 = b * q2 + r2
  <2>1. n + b - 1 \in Int
    BY <1>0
  <2> QED BY <1>d, <2>1, Zenon
<1>3. PICK q3 \in Int, r3 \in 0..(b - 1) : q3 = (1 + b - 1) \div b /\ 1 + b - 1 = b * q3 + r3
  <2>1. 1 + b - 1 \in Int
    BY <1>0
  <2> QED BY <1>d, <2>1, Zenon
<1>4. q1 = Rounds(m) /\ q2 = Rounds(n) /\ q3 = Rounds(1)
  BY <1>1, <1>2, <1>3, <1>r, Zenon
<1>5. ASSUME NEW q \in Int, b * q > -b
      PROVE  q >= 0
  <2>1. CASE q <= -1
    <3>1. b * q <= b * (-1)
      BY <1>0, <2>1
    <3> QED BY <1>0, <3>1, <1>5
  <2> QED BY <2>1
<1>6. q1 >= 0
  BY <1>0, <1>1, <1>5
<1>7. q1 <= q2
  <2>1. b * (q2 - q1) = b * q2 - b * q1
    BY <1>0
  <2>2. b * (q2 - q1) > -b
    BY <1>0, <1>1, <1>2, <2>1
  <2> QED BY <1>5, <2>2
<1>8. m > 0 => q1 > 0
  <2>1. b * (q1 - 1) = b * q1 - b
    BY <1>0
  <2>2. m > 0 => b * (q1 - 1) > -b
    BY <1>0, <1>1, <2>1
  <2> QED BY <1>5, <2>2
<1>9. q3 = 1
  <2>1. b * (q3 - 1) = b * q3 - b /\ b * (1 - q3) = b - b * q3
    BY <1>0
  <2>2. b * (q3 - 1) > -b /\ b * (1 - q3) > -b
    BY <1>0, <1>3, <2>1
  <2> QED BY <1>5, <2>2
<1> QED BY <1>4, <1>6, <1>7, <1>8, <1>9

LEMMA ClockStep ==
  ASSUME RunOK, StateOK, ClockRead, Next
  PROVE  ClockRead'
<1>1. /\ run' = run /\ run.clock \in {"cycle", "clock", "timespec"} /\ run.rate \in Nat
      /\ run.asked \in Nat /\ run.cores \in Nat \ {0}
  BY RunFixed, HarnessAssumption DEF RunOK
<1>2. CASE SetIterations
  BY <1>1, <1>2 DEF SetIterations, ClockRead, timer, Over
<1>3. CASE Calibrate
  <2> DEFINE tried == iterations * 10
             later == After(1, 1, tried)
             secs_passed == time_in_secs(run.clock,
                              MYTIMEDIFF(run.clock, GETMYTIME(run.clock, later), GETMYTIME(run.clock, now)))
  <2>1. /\ began' = now /\ now' = later /\ pc' \in {"calibrate", "timed"}
        /\ IF secs_passed < 1 THEN iterations' = tried
           ELSE iterations' = tried * (1 + 10 \div secs_passed)
    BY <1>1, <1>3 DEF Calibrate, start_time, stop_time, secs
  <2>2. tried \in Nat /\ now \in Time
    BY DEF ClockRead
  <2>4. later \in Time
    BY <1>1, <2>2, TimePasses
  <2>5. secs_passed \in Int
    BY <1>1, <2>2, <2>4, Seconds
  <2>6. iterations' \in Nat
    <3> HIDE DEF tried, secs_passed
    <3>1. CASE secs_passed < 1
      BY <2>1, <2>2, <3>1
    <3>2. CASE secs_passed >= 1
      <4>1. 10 \div secs_passed \in Nat
        BY <2>5, <3>2, DivNat
      <4> QED BY <2>1, <2>2, <2>5, <3>2, <4>1
    <3> QED BY <2>5, <3>1, <3>2
  <2> HIDE DEF later
  <2> QED BY <2>1, <2>2, <2>4, <2>6 DEF ClockRead, Over
<1>4. CASE StartTime
  BY <1>1, <1>4 DEF StartTime, start_time, ClockRead, Time, Over
<1>5. CASE StopTime
  <2>1. PICK rounds \in Nat, own \in Nat : stop_time(After(rounds, own, iterations))
    <3>1. CASE run.method = "single"
      BY <1>5, <3>1 DEF StopTime
    <3>2. CASE run.method # "single"
      <4>1. /\ Multithread \in Nat /\ Multithread <= Multithread
            /\ \A c \in Begun : c <= Multithread
        BY HarnessAssumption DEF Begun, Ctx
      <4>2. Cardinality(Ran) \in Nat /\ Cardinality(Begun) \in Nat /\ Cardinality(Ran) <= Cardinality(Begun)
        BY <4>1, RanAndBegun
      <4>3. Rounds(Cardinality(Ran))..Rounds(Cardinality(Begun)) \subseteq Nat
        BY <1>1, <4>2, RoundsGrow
      <4> QED BY <1>5, <3>2, <4>2, <4>3 DEF StopTime
    <3> QED BY <3>1, <3>2
  <2> DEFINE later == After(rounds, own, iterations)
  <2>2. later \in Time /\ now.wall <= later.wall /\ now.cpu <= later.cpu
    BY <1>1, TimePasses DEF ClockRead
  <2>3. /\ pc = "stopped" /\ pc' = "report" /\ UNCHANGED <<iterations, began, start_time_val>>
        /\ now' = later /\ stop_time_val' = GETMYTIME(run.clock, later)
    BY <1>5, <2>1 DEF StopTime, stop_time
  <2>4. /\ began \in Time /\ now \in Time /\ began.wall <= now.wall /\ began.cpu <= now.cpu
        /\ start_time_val = GETMYTIME(run.clock, began) /\ iterations \in Nat
    BY <2>3 DEF ClockRead, Over
  <2> HIDE DEF later
  <2>5. began.wall <= later.wall /\ began.cpu <= later.cpu
    BY <2>2, <2>4 DEF Time
  <2> QED BY <1>1, <2>2, <2>3, <2>4, <2>5 DEF ClockRead, Over
<1>6. CASE UNCHANGED <<pc, iterations, timer>>
  BY <1>1, <1>6 DEF timer, ClockRead
<1>7. CASE IterateInMain \/ AllStarted \/ AllStopped \/ Report
  BY <1>1, <1>7 DEF IterateInMain, AllStarted, AllStopped, Report, timer, ClockRead, Over
<1>8. \/ SetIterations \/ Calibrate \/ StartTime \/ StopTime \/ IterateInMain \/ AllStarted
      \/ AllStopped \/ Report \/ UNCHANGED <<pc, iterations, timer>>
  BY DEF Next, Main, Child, pthread_start_parallel, pthread_stop_parallel, fork_start_parallel,
     ParentShmget, fork_stop_parallel, socket_start_parallel, ParentBinds, socket_stop_parallel,
     ThreadIterates, ChildShmget, ChildIterates, ChildCopies, ChildSends, ChildKilled
<1> QED BY <1>2, <1>3, <1>4, <1>5, <1>6, <1>7, <1>8

-----------------------------------------------------------------------------
(* The report.                                                             *)
LEMMA ReportedStep ==
  ASSUME RunOK, StateOK, ThreadsWrite, Reported, Next
  PROVE  Reported'
<1>1. run' = run
  BY RunFixed
<1>2. ASSUME UNCHANGED <<crc, start_time_val, stop_time_val>>
      PROVE  total_errors' = total_errors
  BY <1>1, <1>2 DEF total_errors, check_data_types, secs, get_time
<1>3. CASE Report
  BY <1>2, <1>3 DEF Report, Reported, timer
<1>4. CASE pc = "done"
  <2>1. UNCHANGED <<pc, start_time_val, stop_time_val, verdict>>
    BY <1>4 DEF Next, Main, Child, SetIterations, Calibrate, StartTime, IterateInMain, AllStarted,
       AllStopped, pthread_start_parallel, pthread_stop_parallel, fork_start_parallel, ParentShmget,
       fork_stop_parallel, socket_start_parallel, ParentBinds, socket_stop_parallel, StopTime, Report,
       ThreadIterates, ChildShmget, ChildIterates, ChildCopies, ChildSends, ChildKilled, Starting,
       Stopping, timer
  <2>2. ASSUME NEW c \in Ctx, ThreadIterates(c)
        PROVE  FALSE
    BY <1>4, <2>2 DEF ThreadIterates, ThreadsWrite, Started, Joined, Over
  <2>3. crc' = crc
    BY <1>4, <2>2 DEF Next, Main, Child, SetIterations, Calibrate, StartTime, IterateInMain, AllStarted,
       AllStopped, pthread_start_parallel, pthread_stop_parallel, fork_start_parallel, ParentShmget,
       fork_stop_parallel, socket_start_parallel, ParentBinds, socket_stop_parallel, StopTime, Report,
       ChildShmget, ChildIterates, ChildCopies, ChildSends, ChildKilled, Starting, Stopping
  <2> QED BY <1>2, <1>4, <2>1, <2>3 DEF Reported
<1>5. CASE pc # "done" /\ ~Report
  <2>1. pc' # "done"
    BY <1>5 DEF Next, Main, Child, SetIterations, Calibrate, StartTime, IterateInMain, AllStarted,
       AllStopped, pthread_start_parallel, pthread_stop_parallel, fork_start_parallel, ParentShmget,
       fork_stop_parallel, socket_start_parallel, ParentBinds, socket_stop_parallel, StopTime,
       ThreadIterates, ChildShmget, ChildIterates, ChildCopies, ChildSends, ChildKilled
  <2> QED BY <2>1 DEF Reported
<1> QED BY <1>3, <1>4, <1>5

-----------------------------------------------------------------------------
(* The inductive invariant holds initially.                                *)
LEMMA Initially ==
  ASSUME Init
  PROVE  HarnessInv
<1>1. RunOK
  <2>1. \A n \in Contexts : default_num_contexts(n) \in 0..Multithread
    BY HarnessAssumption DEF default_num_contexts
  <2> QED BY <2>1 DEF Init, RunOK
<1>2. run.contexts \in Nat
  BY <1>1, HarnessAssumption DEF RunOK
<1>3. seg \in [Ctx -> Crcs]
  BY DEF Init, PortInit, Crcs
<1>4. StateOK
  BY <1>2, <1>3 DEF Init, PortInit, StateOK, Crcs, Over, Ctx
<1>5. ThreadsWrite /\ SocketsRecorded
  BY DEF Init, PortInit, ThreadsWrite, SocketsRecorded, Started, Joined, Over
<1>6. ForksRecorded
  <2>1. \A c \in Ctx : pid[c] = 0 /\ child[c] = "none" /\ ~Started(c) /\ c # 0 /\ c \notin reaped
    BY DEF Init, PortInit, Started, Over, Ctx
  <2> QED BY <2>1 DEF ForksRecorded
<1>7. Gathered /\ Reported
  BY DEF Init, Gathered, Reported, Joined, Over
<1>8. ClockRead
  <2>1. now \in Time /\ began = now
    <3>1. now \in [wall : Boots, cpu : {0}] /\ began = now
      BY DEF Init
    <3>2. Boots \subseteq Nat
      BY HarnessAssumption
    <3>3. now.wall \in Boots /\ now.cpu = 0 /\ now = [wall |-> now.wall, cpu |-> now.cpu]
      BY <3>1
    <3>4. now.wall \in Nat /\ now.cpu \in Nat
      BY <3>2, <3>3
    <3> QED BY <3>1, <3>3, <3>4, Zenon DEF Time
  <2> QED BY <2>1 DEF Init, ClockRead, Over
<1> QED BY <1>1, <1>4, <1>5, <1>6, <1>7, <1>8 DEF HarnessInv

(* A step that changes nothing keeps the invariant.                        *)
LEMMA Stuttering ==
  ASSUME HarnessInv, UNCHANGED vars
  PROVE  HarnessInv'
<1>1. UNCHANGED <<pc, run, iterations, k, child, pid, reaped, shmid, seg, sock, crc, verdict, failed,
                  now, began, start_time_val, stop_time_val>>
  BY DEF vars, timer
<1>2. total_errors' = total_errors
  BY <1>1 DEF total_errors, check_data_types, secs, get_time
<1>3. RunOK' /\ StateOK' /\ ClockRead' /\ Reported'
  BY <1>1, <1>2 DEF HarnessInv, RunOK, StateOK, ClockRead, Reported
<1>4. \A c \in Ctx : /\ Started(c)' <=> Started(c)
                     /\ Joined(c)' <=> Joined(c)
                     /\ Faulty(c)' <=> Faulty(c)
  BY <1>1 DEF Started, Joined, Faulty
<1>5. ThreadsWrite' /\ SocketsRecorded' /\ Gathered' /\ ForksRecorded'
  BY <1>1, <1>4 DEF HarnessInv, ThreadsWrite, SocketsRecorded, Gathered, ForksRecorded, NoForkFailed
<1> QED BY <1>3, <1>5 DEF HarnessInv

(* Where each context's results are at every step of main, its threads and *)
(* its children, and what the clock was read at.                           *)
THEOREM Invariance == Spec => []HarnessInv
<1>1. Init => HarnessInv
  BY Initially
<1>2. HarnessInv /\ [Next]_vars => HarnessInv'
  BY StateStep, ThreadsStep, ForksStep, SocketsStep, GatheredStep, ClockStep, ReportedStep, Stuttering
     DEF HarnessInv
<1> QED BY <1>1, <1>2, PTL DEF Spec

(* For any number of contexts, any of the three ways to run them and any   *)
(* calls that fail: a context none of whose calls failed has its own       *)
(* results in main when the timed part is over, if every fork succeeded.   *)
THEOREM ContextsAreSeparate == Spec => []FaultsStayLocal
<1>1. HarnessInv => FaultsStayLocal
  <2> SUFFICES ASSUME HarnessInv, pc \in Over, NoForkFailed, NEW c \in 1..run.contexts,
                      \A f \in failed : f[2] # c
               PROVE  crc[c] = "own"
    BY DEF FaultsStayLocal, NoForkFailed, Over
  <2>1. c \in Ctx /\ c <= run.contexts
    BY LoopContext DEF HarnessInv
  <2>2. Joined(c) /\ ~Faulty(c)
    BY <2>1 DEF Joined, Faulty
  <2> QED BY <2>1, <2>2 DEF HarnessInv, Gathered
<1> QED BY <1>1, Invariance, PTL

(* For any timer resolution, wrap of the counter and length of the run: at *)
(* the report the ticks are what passed on the port's clock since the last *)
(* start_time, to less than a tick: the time, or with clock() what main's  *)
(* process took of the processors.                                         *)
THEOREM TimerIsRight == Spec => []TimeIsMeasured
<1>1. HarnessInv => TimeIsMeasured
  <2> DEFINE passed == Shown(run.clock, now) - Shown(run.clock, began)
  <2> SUFFICES ASSUME HarnessInv, pc \in {"report", "done"}, passed < TickMod
               PROVE  LET error == get_time * Divider(run.clock) - passed
                      IN -Divider(run.clock) < error /\ error < Divider(run.clock)
    BY DEF TimeIsMeasured
  <2>1. run.clock \in {"cycle", "clock", "timespec"}
    BY HarnessAssumption DEF HarnessInv, RunOK
  <2>2. /\ now \in Time /\ began \in Time /\ began.wall <= now.wall /\ began.cpu <= now.cpu
        /\ get_time = MYTIMEDIFF(run.clock, GETMYTIME(run.clock, now), GETMYTIME(run.clock, began))
    BY DEF HarnessInv, ClockRead, Over, get_time
  <2>3. 0 <= passed
    BY <2>2 DEF Shown, Time
  <2> QED BY <2>1, <2>2, <2>3, Difference
<1> QED BY <1>1, Invariance, PTL

(* With seeds that main knows, and for any wrong data types, its verdict   *)
(* is right whenever nothing failed.  (With other seeds it is not: one     *)
(* error cancels the -1 that stands for them.)                             *)
THEOREM VerdictForKnownSeeds == Spec => [](run.known => VerdictIsRight)
<1>1. HarnessInv => (run.known => VerdictIsRight)
  <2> SUFFICES ASSUME HarnessInv, run.known, pc = "done", failed = {}
               PROVE  verdict = "validated" <=>
                        /\ run.known /\ run.wrong = {}
                        /\ secs(get_time) >= 10
                        /\ \A c \in 1..run.contexts : crc[c] = "own"
    BY DEF VerdictIsRight
  <2>1. \A c \in 1..run.contexts : crc[c] = "own"
    <3>1. NoForkFailed /\ \A c \in Ctx : ~Faulty(c)
      BY DEF NoForkFailed, Faulty
    <3>2. 1..run.contexts \subseteq Ctx /\ run.contexts \in Nat
      BY LoopContext DEF HarnessInv
    <3>3. \A c \in 1..run.contexts : Joined(c)
      BY <3>2 DEF Joined, Over
    <3> QED BY <3>1, <3>2, <3>3 DEF HarnessInv, Gathered
  <2>2. secs(get_time) \in Int
    <3>1. run.clock \in {"cycle", "clock", "timespec"}
      BY HarnessAssumption DEF HarnessInv, RunOK
    <3>2. /\ now \in Time /\ began \in Time
          /\ get_time = MYTIMEDIFF(run.clock, GETMYTIME(run.clock, now), GETMYTIME(run.clock, began))
      BY DEF HarnessInv, ClockRead, Over, get_time
    <3> QED BY <3>1, <3>2, Seconds DEF secs
  <2>3. check_data_types \in Nat /\ (check_data_types = 0 <=> run.wrong = {})
    <3>1. IsFiniteSet(run.wrong)
      BY HarnessAssumption DEF HarnessInv, RunOK
    <3> QED BY <3>1, FS_CardinalityType, FS_EmptySet DEF check_data_types
  <2>4. {c \in 1..run.contexts : crc[c] \notin {"own", "stale"}} = {}
    BY <2>1
  <2>5. total_errors = check_data_types + (IF secs(get_time) < 10 THEN 1 ELSE 0)
    <3>1. 3 * Cardinality({c \in 1..run.contexts : crc[c] \notin {"own", "stale"}}) = 0
      BY <2>4, FS_EmptySet
    <3> QED BY <2>3, <3>1 DEF total_errors
  <2>6. verdict = "validated" <=> total_errors = 0
    <3>1. total_errors \in Nat
      BY <2>3, <2>5
    <3>2. verdict = CASE total_errors = 0 -> "validated"
                      [] total_errors > 0 -> "errors"
                      [] total_errors < 0 -> "cannot_validate"
      BY DEF HarnessInv, Reported
    <3> QED BY <3>1, <3>2
  <2> QED BY <2>1, <2>2, <2>3, <2>5, <2>6
<1> QED BY <1>1, Invariance, PTL

-----------------------------------------------------------------------------
(* How long the run lasts that main determines.                            *)

(* What main's calibration takes for granted: ticks are fine enough, and   *)
(* the counter does not wrap while it runs.                                *)
Measurable ==
  /\ NSECS_PER_SEC >= 11 * (TIMER_RES_DIVIDER - 1)
  /\ TickMod >= 101 * NSECS_PER_SEC

(* Main determines the iterations, of which ten take no longer than a run  *)
(* may.                                                                    *)
Determined == Measurable /\ run.asked = 0 /\ 10 * run.rate < 101 * NSECS_PER_SEC

(* A context that main has waited for has done all its iterations, if      *)
(* nothing failed: a child whose datagram is there has exited.             *)
ChildrenWaitedFor ==
  /\ \A c \in Ctx : child[c] # "none" => c <= run.contexts
  /\ run.method \in {"fork", "socket"} => \A c \in Ctx :
       /\ sock[c] # "closed" => pid[c] # 0
       /\ sock[c] = "full" => child[c] = "exited"
       /\ failed = {} /\ Joined(c) => child[c] = "exited"

(* While main calibrates, what it tried took less than a second; then the  *)
(* iterations take from 10 to 100 seconds.                                 *)
Calibrated ==
  Determined =>
    /\ pc = "calibrate" => iterations = 1 \/ iterations * run.rate < NSECS_PER_SEC
    /\ pc \in {"timed", "start", "stop"} \cup Over =>
         10 * NSECS_PER_SEC <= iterations * run.rate /\ iterations * run.rate < 101 * NSECS_PER_SEC

(* Time stands still until all contexts are waited for; then it has passed *)
(* for one round of them at least, and for no more rounds than it takes.   *)
Elapsed ==
  /\ pc \in {"start", "stop", "stopped"} => began = now
  /\ pc \in {"report", "done"} /\ run.contexts > 0 /\ failed = {} =>
       \E rounds \in 1..Rounds(run.contexts) :
         now.wall = began.wall + rounds * (iterations * run.rate)

(* Where a value between two multiples is divided.                         *)
LEMMA DivBetween ==
  ASSUME NEW a \in Int, NEW b \in Nat \ {0}, NEW lo \in Int, NEW hi \in Int,
         lo * b <= a, a < (hi + 1) * b
  PROVE  a \div b \in lo..hi
<1>1. PICK q \in Int, r \in 0..(b - 1) : q = a \div b /\ a = b * q + r
  BY DivMod, Zenon
<1>2. lo <= q
  <2>1. CASE q + 1 <= lo
    <3>1. (q + 1) * b <= lo * b
      BY <2>1
    <3> QED BY <1>1, <3>1
  <2> QED BY <2>1
<1>3. q <= hi
  <2>1. CASE q >= hi + 1
    <3>1. q * b >= (hi + 1) * b
      BY <2>1
    <3> QED BY <1>1, <3>1
  <2> QED BY <2>1
<1> QED BY <1>1, <1>2, <1>3

(* The seconds that are measured for x nanoseconds: less than a tick too   *)
(* many, and never one too few.                                            *)
LEMMA SecondsMeasured ==
  ASSUME NEW clock \in {"cycle", "clock", "timespec"}, NEW at \in Time, NEW later \in Time,
         NEW x \in Nat, x < TickMod, Shown(clock, later) - Shown(clock, at) = x
  PROVE  LET d == time_in_secs(clock, MYTIMEDIFF(clock, GETMYTIME(clock, later), GETMYTIME(clock, at)))
         IN  /\ d \in Nat
             /\ d * NSECS_PER_SEC - Divider(clock) < x
             /\ x < (d + 1) * NSECS_PER_SEC
<1> DEFINE D == Divider(clock)
           T == EE_TICKS_PER_SEC(clock)
           S == NSECS_PER_SEC
           ticks == MYTIMEDIFF(clock, GETMYTIME(clock, later), GETMYTIME(clock, at))
<1>1. D \in Nat \ {0} /\ T \in Nat \ {0} /\ D * T = S /\ S \in Nat \ {0}
  BY TicksPerSecond, TimerAssumption
<1>3. ticks \in Int /\ -D < ticks * D - x /\ ticks * D - x < D
  BY Difference
<1> HIDE DEF D, T, S, ticks
<1>4. PICK d \in Int, r \in 0..(T - 1) : d = ticks \div T /\ ticks = T * d + r
  BY <1>1, <1>3, DivMod, Zenon
<1>5. ticks * D = d * S + r * D
  <2>1. (T * d + r) * D = d * (D * T) + r * D
    BY <1>1
  <2> QED BY <1>1, <1>4, <2>1
<1>6. 0 <= r * D /\ r * D <= S - D
  <2>1. r * D <= (T - 1) * D
    BY <1>1
  <2>2. (T - 1) * D = S - D
    BY <1>1
  <2>3. 0 <= r * D
    BY <1>1
  <2> QED BY <2>1, <2>2, <2>3
<1>7. d * S - D < x /\ x < (d + 1) * S
  <2>1. d * S \in Int /\ r * D \in Int /\ (d + 1) * S = d * S + S
    BY <1>1
  <2> QED BY <1>1, <1>3, <1>5, <1>6, <2>1
<1>8. d >= 0
  <2>1. CASE d + 1 <= 0
    <3>1. (d + 1) * S <= 0
      BY <1>1, <2>1
    <3> QED BY <1>1, <1>7, <3>1
  <2> QED BY <2>1
<1>9. d \in Nat /\ d = time_in_secs(clock, ticks)
  BY <1>4, <1>8 DEF time_in_secs, T
<1> QED BY <1>7, <1>9 DEF D, S, ticks

(* The factor for ten seconds more, whatever was measured: the product     *)
(* takes from 10 to 100 seconds.                                           *)
LEMMA FactorFits ==
  ASSUME NEW S \in Nat \ {0}, NEW D \in Nat \ {0}, NEW x \in Nat, NEW d \in Nat \ {0},
         d * S - D < x, x < (d + 1) * S, S >= 11 * (D - 1), D <= S, d <= 10 \/ x < 101 * S
  PROVE  10 * S <= x * (1 + 10 \div d) /\ x * (1 + 10 \div d) < 101 * S
<1>1. CASE d > 10
  <2>1. 10 \div d = 0
    BY <1>1
  <2>2. d * S >= 11 * S
    BY <1>1
  <2> QED BY <1>1, <2>1, <2>2
<1>2. CASE d = 1
  BY <1>2
<1>3. CASE d = 2
  BY <1>3
<1>4. CASE d = 3
  BY <1>4
<1>5. CASE d \in 4..5
  <2>1. CASE d = 4
    BY <2>1
  <2>2. CASE d = 5
    BY <2>2
  <2> QED BY <1>5, <2>1, <2>2
<1>6. CASE d \in 6..10
  <2>1. 10 \div d = 1
    <3>1. CASE d = 6 BY <3>1
    <3>2. CASE d = 7 BY <3>2
    <3>3. CASE d = 8 BY <3>3
    <3>4. CASE d = 9 BY <3>4
    <3>5. CASE d = 10 BY <3>5
    <3> QED BY <1>6, <3>1, <3>2, <3>3, <3>4, <3>5
  <2>2. 6 * S <= d * S /\ (d + 1) * S <= 11 * S
    BY <1>6
  <2> QED BY <2>1, <2>2
<1> QED BY <1>1, <1>2, <1>3, <1>4, <1>5, <1>6

(* Contexts that main has waited for have exited.                          *)
LEMMA ChildrenStep ==
  ASSUME RunOK, StateOK, ForksRecorded, SocketsRecorded, ChildrenWaitedFor, Next
  PROVE  ChildrenWaitedFor'
<1>1. run' = run /\ failed \subseteq failed' /\ k \in Int /\ run.contexts \in Int
  BY RunFixed, FailedGrows, LoopContext
<1>2. ASSUME NEW c \in Ctx, child'[c] # "none"
      PROVE  c <= run'.contexts
  <2>1. child[c] # "none" \/ (c = k /\ k <= run.contexts)
    BY <1>2 DEF Next, Main, Child, SetIterations, Calibrate, StartTime, IterateInMain, AllStarted,
       AllStopped, pthread_start_parallel, pthread_stop_parallel, fork_start_parallel, Fork, ParentShmget,
       fork_stop_parallel, socket_start_parallel, ParentBinds, socket_stop_parallel, StopTime, Report,
       ThreadIterates, ChildShmget, ChildIterates, ChildCopies, ChildSends, ChildKilled, Starting, StateOK
  <2> QED BY <1>1, <2>1 DEF ChildrenWaitedFor
<1> DEFINE Of(c) == /\ sock[c] # "closed" => pid[c] # 0
                    /\ sock[c] = "full" => child[c] = "exited"
                    /\ failed = {} /\ Joined(c) => child[c] = "exited"
<1> SUFFICES ASSUME run.method \in {"fork", "socket"}
             PROVE  \A c \in Ctx : Of(c)'
  BY <1>1, <1>2 DEF ChildrenWaitedFor
<1>3. \A c \in Ctx : Of(c)
  BY DEF ChildrenWaitedFor
<1>4. CASE MainAlone
  <2>1. UNCHANGED <<pid, child, sock>>
    BY <1>4 DEF MainAlone, SetIterations, Calibrate, StartTime, AllStarted, AllStopped, StopTime, Report
  <2> QED BY <1>1, <1>3, <1>4, <2>1, SamePhases
<1>5. CASE fork_start_parallel \/ socket_start_parallel
  <2>1. /\ pc = "start" /\ pc' = pc /\ k <= run.contexts /\ pid[k] = 0 /\ sock' = sock
        /\ \/ /\ pid' = [pid EXCEPT ![k] = k]
              /\ \E f \in {"shmget", "iterate"} : child' = [child EXCEPT ![k] = f]
           \/ child' = child /\ pid' = [pid EXCEPT ![k] = -1]
    BY <1>5 DEF fork_start_parallel, socket_start_parallel, Fork, Starting
  <2>2. k \in Ctx /\ k # 0 /\ \A c \in Ctx : ~Joined(c)'
    BY <2>1, LoopContext DEF Joined, Over
  <2>3. pid'[k] # 0 /\ \A c \in Ctx \ {k} : pid'[c] = pid[c] /\ child'[c] = child[c]
    BY <2>1, <2>2 DEF StateOK
  <2>4. sock[k] = "closed"
    BY <1>3, <2>1, <2>2
  <2> QED BY <1>3, <2>1, <2>2, <2>3, <2>4
<1>6. CASE ParentShmget \/ ParentBinds
  <2>1. /\ pc = "start" /\ pc' = pc /\ pid[k] # 0 /\ UNCHANGED <<pid, child>>
        /\ sock' = sock \/ \E f \in {"none", "unbound", "bound"} : sock' = [sock EXCEPT ![k] = f]
    BY <1>6 DEF ParentShmget, ParentBinds, Starting
  <2>2. \A c \in Ctx : ~Joined(c)'
    BY <2>1 DEF Joined, Over
  <2>3. ASSUME NEW c \in Ctx
        PROVE  sock'[c] = sock[c] \/ (c = k /\ sock'[c] # "full")
    BY <2>1, <2>3 DEF StateOK
  <2> QED BY <1>3, <2>1, <2>2, <2>3
<1>7. CASE fork_stop_parallel \/ socket_stop_parallel
  <2>1. /\ pc = "stop" /\ pc' = pc /\ k' = k + 1 /\ k <= run.contexts /\ UNCHANGED <<pid, child, sock>>
    BY <1>7 DEF fork_stop_parallel, socket_stop_parallel, Stopping
  <2>2. k \in Ctx /\ Started(k) /\ ~Joined(k)
    BY <2>1, LoopContext DEF Started, Joined, Over
  <2>3. \A c \in Ctx : Joined(c)' => Joined(c) \/ c = k
    BY <2>1, LoopContext DEF Joined, Over, Ctx
  <2>4. ASSUME failed = {}
        PROVE  child[k] = "exited"
    <3>1. CASE fork_stop_parallel
      <4>1. NoForkFailed /\ run.method = "fork"
        BY <2>4, <3>1 DEF NoForkFailed, fork_stop_parallel, Stopping
      <4>2. pid[k] = k /\ k \notin reaped /\ child[k] # "none" /\ -1 \notin Ctx
        <5>1. <<"fork", k>> \notin failed /\ -1 \notin Ctx
          BY <2>4 DEF Ctx
        <5> QED BY <2>2, <4>1, <5>1 DEF ForksRecorded
      <4> QED BY <2>2, <3>1, <4>2 DEF fork_stop_parallel, Waitpid, Children
    <3>2. CASE socket_stop_parallel
      <4>1. sock[k] \in {"full", "none"} /\ run.method = "socket"
        BY <3>2 DEF socket_stop_parallel, Stopping
      <4>2. sock[k] # "none"
        BY <2>2, <2>4, <4>1 DEF SocketsRecorded, Faulty
      <4> QED BY <1>3, <2>2, <4>1, <4>2
    <3> QED BY <1>7, <3>1, <3>2
  <2>5. failed' = {} => failed = {}
    BY <1>1
  <2> QED BY <1>3, <2>1, <2>3, <2>4, <2>5
<1>8. ASSUME NEW d \in Ctx, Child(d) \/ ChildKilled(d)
      PROVE  \A c \in Ctx : Of(c)'
  <2>1. UNCHANGED <<pc, k, pid>>
    BY <1>8 DEF Child, ThreadIterates, ChildShmget, ChildIterates, ChildCopies, ChildSends, ChildKilled
  <2>2. \A c \in Ctx : Joined(c)' <=> Joined(c)
    BY <1>1, <2>1 DEF Joined
  <2>3. \A c \in Ctx : child[c] = "exited" => child'[c] = "exited"
    BY <1>8 DEF Child, ThreadIterates, ChildShmget, ChildIterates, ChildCopies, ChildSends, ChildKilled,
                StateOK
  <2>4. \/ sock' = sock
        \/ sock[d] = "bound" /\ sock' = [sock EXCEPT ![d] = "full"] /\ child' = [child EXCEPT ![d] = "exited"]
    BY <1>8 DEF Child, ThreadIterates, ChildShmget, ChildIterates, ChildCopies, ChildSends, ChildKilled
  <2>5. ASSUME NEW c \in Ctx
        PROVE  /\ sock'[c] # "closed" => sock[c] # "closed"
               /\ sock'[c] = "full" => sock[c] = "full" \/ child'[c] = "exited"
    BY <2>4 DEF StateOK
  <2>6. failed' = {} => failed = {}
    BY <1>1
  <2> QED BY <1>3, <2>1, <2>2, <2>3, <2>5, <2>6
<1>9. ~(IterateInMain \/ pthread_start_parallel \/ pthread_stop_parallel)
  BY DEF IterateInMain, pthread_start_parallel, pthread_stop_parallel, Starting, Stopping
<1> QED BY <1>4, <1>5, <1>6, <1>7, <1>8, <1>9 DEF Next, Main, MainAlone

(* The number of iterations.                                               *)
LEMMA CalibratedStep ==
  ASSUME RunOK, StateOK, ClockRead, Calibrated, Next
  PROVE  Calibrated'
<1> DEFINE S == NSECS_PER_SEC
<1> SUFFICES ASSUME Determined
             PROVE  /\ pc' = "calibrate" => iterations' = 1 \/ iterations' * run.rate < S
                    /\ pc' \in {"timed", "start", "stop"} \cup Over =>
                         10 * S <= iterations' * run.rate /\ iterations' * run.rate < 101 * S
  BY RunFixed DEF Calibrated, Determined, Measurable
<1>1. /\ run.clock \in {"cycle", "clock", "timespec"} /\ run.rate \in Nat /\ S \in Nat \ {0}
      /\ TIMER_RES_DIVIDER \in Nat \ {0} /\ TickMod \in Nat
  BY HarnessAssumption, TimerAssumption DEF RunOK
<1>2. CASE SetIterations
  BY <1>2 DEF SetIterations, Determined, Over
<1>3. CASE Calibrate
  <2> DEFINE tried == iterations * 10
             x == tried * run.rate
             d == time_in_secs(run.clock,
                    MYTIMEDIFF(run.clock, GETMYTIME(run.clock, After(1, 1, tried)),
                               GETMYTIME(run.clock, now)))
             D == Divider(run.clock)
  <2>1. /\ pc = "calibrate"
        /\ IF d < 1 THEN iterations' = tried /\ pc' = "calibrate"
           ELSE iterations' = tried * (1 + 10 \div d) /\ pc' = "timed"
    BY <1>3, RunFixed DEF Calibrate, start_time, stop_time, secs
  <2>2. /\ iterations \in Nat /\ now \in Time
        /\ iterations = 1 \/ iterations * run.rate < S
    BY <2>1 DEF ClockRead, Calibrated
  <2>3. tried \in Nat /\ x \in Nat /\ x = 10 * (iterations * run.rate) /\ x < 101 * S
        /\ (iterations # 1 => x < 10 * S)
    BY <1>1, <2>2 DEF Determined
  <2>4. D \in Nat \ {0} /\ D <= TIMER_RES_DIVIDER /\ D <= S /\ S >= 11 * (D - 1)
    <3>1. D \in Nat \ {0} /\ D <= TIMER_RES_DIVIDER
      BY <1>1 DEF Divider
    <3>2. D <= S
      <4>1. EE_TICKS_PER_SEC(run.clock) \in Nat \ {0} /\ D * EE_TICKS_PER_SEC(run.clock) = S
        BY <1>1, TicksPerSecond
      <4>2. ASSUME NEW t \in Nat \ {0}, D * t = S
            PROVE  D <= S
        BY <1>1, <3>1, <4>2
      <4> QED BY <4>1, <4>2
    <3> QED BY <1>1, <3>1, <3>2 DEF Determined, Measurable
  <2>5. d \in Nat /\ d * S - D < x /\ x < (d + 1) * S
    <3>1. x < TickMod
      BY <1>1, <2>3 DEF Determined, Measurable
    <3>2. After(1, 1, tried) \in Time
      BY <1>1, <2>2, <2>3, TimePasses
    <3>3. Shown(run.clock, After(1, 1, tried)) - Shown(run.clock, now) = x
      <4>1. now.wall \in Nat /\ now.cpu \in Nat
        BY <2>2 DEF Time
      <4>2. After(1, 1, tried) = [wall |-> now.wall + x, cpu |-> now.cpu + x]
        BY <2>3 DEF After
      <4> HIDE DEF x
      <4> QED BY <2>3, <4>1, <4>2 DEF Shown
    <3> HIDE DEF x, tried
    <3> QED BY <1>1, <2>2, <2>3, <3>1, <3>2, <3>3, SecondsMeasured
  <2> HIDE DEF tried, x, d, D
  <2>6. CASE d < 1
    <3>1. d = 0
      BY <2>5, <2>6
    <3>2. x < S
      BY <1>1, <2>3, <2>5, <3>1
    <3> QED BY <2>1, <2>6, <3>2 DEF x, Over
  <2>7. CASE d >= 1
    <3>1. d <= 10 \/ x < 101 * S
      BY <2>3
    <3>2. 10 * S <= x * (1 + 10 \div d) /\ x * (1 + 10 \div d) < 101 * S
      BY <1>1, <2>3, <2>4, <2>5, <2>7, <3>1, FactorFits
    <3>3. 10 \div d \in Nat
      BY <2>5, <2>7, DivNat
    <3>4. ASSUME NEW f \in Nat
          PROVE  (tried * f) * run.rate = x * f
      BY <1>1, <2>3 DEF x
    <3>5. pc' = "timed" /\ iterations' = tried * (1 + 10 \div d)
      BY <2>1, <2>5, <2>7
    <3>6. iterations' * run.rate = x * (1 + 10 \div d)
      BY <3>3, <3>4, <3>5
    <3> QED BY <3>2, <3>5, <3>6
  <2> QED BY <2>5, <2>6, <2>7
<1>4. CASE ~SetIterations /\ ~Calibrate
  <2>1. /\ pc' = "calibrate" => pc = "calibrate"
        /\ pc' \in {"timed", "start", "stop"} \cup Over => pc \in {"timed", "start", "stop"} \cup Over
    BY <1>4 DEF Next, Main, Child, StartTime, IterateInMain, AllStarted, AllStopped,
       pthread_start_parallel, pthread_stop_parallel, fork_start_parallel, ParentShmget,
       fork_stop_parallel, socket_start_parallel, ParentBinds, socket_stop_parallel, StopTime, Report,
       ThreadIterates, ChildShmget, ChildIterates, ChildCopies, ChildSends, ChildKilled, Over
  <2>2. iterations' = iterations
    BY <1>4 DEF Next, Main, Child, StartTime, IterateInMain, AllStarted, AllStopped,
       pthread_start_parallel, pthread_stop_parallel, fork_start_parallel, ParentShmget,
       fork_stop_parallel, socket_start_parallel, ParentBinds, socket_stop_parallel, StopTime, Report,
       ThreadIterates, ChildShmget, ChildIterates, ChildCopies, ChildSends, ChildKilled
  <2> QED BY <2>1, <2>2 DEF Calibrated
<1> QED BY <1>2, <1>3, <1>4

(* Time passes for the iterations of the contexts, round by round.         *)
LEMMA ElapsedStep ==
  ASSUME RunOK, StateOK, ThreadsWrite, ClockRead, ChildrenWaitedFor, Elapsed, Next
  PROVE  Elapsed'
<1>1. run' = run /\ run.rate \in Nat /\ run.cores \in Nat \ {0}
  BY RunFixed, HarnessAssumption DEF RunOK
<1>2. failed' = {} => failed = {}
  BY FailedGrows
<1>3. CASE StopTime
  <2>1. /\ pc = "stopped" /\ pc' = "report" /\ iterations' = iterations /\ began' = began
    BY <1>3 DEF StopTime
  <2>2. began = now
    BY <2>1 DEF Elapsed
  <2>3. ASSUME run.contexts > 0, failed = {}
        PROVE  \E rounds \in 1..Rounds(run.contexts) :
                 now'.wall = now.wall + rounds * (iterations * run.rate)
    <3>1. run.contexts \in Nat \ {0} /\ run.contexts <= Multithread /\ 1 \in Ctx /\ Joined(1)
      BY <2>1, <2>3, HarnessAssumption DEF RunOK, Joined, Over, Ctx
    <3>2. CASE run.method = "single"
      <4>1. now' = After(1, 1, iterations)
        BY <1>3, <3>2 DEF StopTime, stop_time
      <4>2. run.contexts = 1 /\ Rounds(1) = 1
        BY <1>1, <3>2, RoundsGrow DEF RunOK, BuiltIn
      <4> QED BY <4>1, <4>2 DEF After
    <3>3. CASE run.method # "single"
      <4>1. 1 \in Ran
        <5>1. child[1] = "exited"
          <6>1. run.method \in Methods
            BY DEF RunOK
          <6>2. run.method \in {"pthread", "fork", "socket"}
            BY <3>3, <6>1, HarnessAssumption
          <6>3. CASE run.method = "pthread"
            BY <3>1, <6>3 DEF ThreadsWrite
          <6>4. CASE run.method \in {"fork", "socket"}
            BY <2>3, <3>1, <6>4 DEF ChildrenWaitedFor
          <6> QED BY <6>2, <6>3, <6>4
        <5> QED BY <2>3, <3>1, <5>1 DEF Ran, Begun
      <4>2. \A c \in Begun : c <= run.contexts
        BY DEF Begun, ChildrenWaitedFor
      <4> DEFINE ran == Cardinality(Ran)
                 begun == Cardinality(Begun)
      <4>3. ran \in Nat /\ begun \in Nat /\ ran <= begun /\ begun <= run.contexts /\ ran > 0
        BY <3>1, <4>1, <4>2, RanAndBegun
      <4>4. PICK rounds \in Rounds(ran)..Rounds(begun), own \in Nat :
              now' = After(rounds, own, iterations)
        BY <1>3, <3>3, <4>3 DEF StopTime, stop_time
      <4> HIDE DEF ran, begun
      <4>5. Rounds(ran) \in Nat /\ Rounds(ran) > 0
        BY <1>1, <4>3, RoundsGrow
      <4>6. /\ Rounds(begun) \in Nat /\ Rounds(run.contexts) \in Nat
            /\ Rounds(begun) <= Rounds(run.contexts)
        BY <1>1, <3>1, <4>3, RoundsGrow
      <4>7. rounds \in 1..Rounds(run.contexts)
        BY <4>4, <4>5, <4>6
      <4> QED BY <4>4, <4>7 DEF After
    <3> QED BY <3>2, <3>3
  <2>4. Rounds(run.contexts)' = Rounds(run.contexts)
    BY <1>1 DEF Rounds
  <2> QED BY <1>1, <1>2, <2>1, <2>2, <2>3, <2>4 DEF Elapsed
<1>4. CASE StartTime
  BY <1>4 DEF StartTime, start_time, Elapsed
<1>5. CASE Calibrate \/ SetIterations
  BY <1>5 DEF Calibrate, SetIterations, Elapsed
<1>6. CASE ~StopTime /\ ~StartTime /\ ~Calibrate /\ ~SetIterations
  <2>1. UNCHANGED <<iterations, now, began>>
    BY <1>6 DEF Next, Main, Child, IterateInMain, AllStarted, AllStopped,
       pthread_start_parallel, pthread_stop_parallel, fork_start_parallel, ParentShmget,
       fork_stop_parallel, socket_start_parallel, ParentBinds, socket_stop_parallel, Report,
       ThreadIterates, ChildShmget, ChildIterates, ChildCopies, ChildSends, ChildKilled, timer
  <2>2. /\ pc' \in {"start", "stop", "stopped"} => pc \in {"start", "stop", "stopped"}
        /\ pc' \in {"report", "done"} => pc \in {"report", "done"}
    BY <1>6 DEF Next, Main, Child, IterateInMain, AllStarted, AllStopped,
       pthread_start_parallel, pthread_stop_parallel, fork_start_parallel, ParentShmget,
       fork_stop_parallel, socket_start_parallel, ParentBinds, socket_stop_parallel, Report,
       ThreadIterates, ChildShmget, ChildIterates, ChildCopies, ChildSends, ChildKilled
  <2> QED BY <1>1, <1>2, <2>1, <2>2 DEF Elapsed, Rounds
<1> QED BY <1>3, <1>4, <1>5, <1>6

LengthInv == ChildrenWaitedFor /\ Calibrated /\ Elapsed

(* For any resolution of the timer, any boot time, any way to run the      *)
(* contexts and any number of processors: iterations that main determines, *)
(* each shorter than ten seconds, take 10 seconds, and 100 at most for     *)
(* each round of the contexts, if ticks are fine enough and the counter    *)
(* does not wrap in a run. The run is what the model says it is: nothing   *)
(* but the iterations takes time, and a round of contexts as long as one.  *)
THEOREM RunLength == Spec => [](Measurable => RunTimeBounded)
<1>1. Init => LengthInv
  <2> SUFFICES ASSUME Init
               PROVE  LengthInv
    OBVIOUS
  <2>1. /\ pc = "main" /\ failed = {}
        /\ \A c \in Ctx : sock[c] = "closed" /\ child[c] = "none"
    BY DEF Init, PortInit
  <2> QED BY <2>1 DEF LengthInv, ChildrenWaitedFor, Calibrated, Elapsed, Joined, Over
<1>2. HarnessInv /\ LengthInv /\ [Next]_vars => LengthInv'
  <2>1. CASE UNCHANGED vars
    BY <2>1 DEF vars, timer, LengthInv, ChildrenWaitedFor, Calibrated, Determined, Measurable, Elapsed,
                Joined, Rounds
  <2> QED BY <2>1, ChildrenStep, CalibratedStep, ElapsedStep DEF HarnessInv, LengthInv
<1>3. HarnessInv /\ LengthInv => (Measurable => RunTimeBounded)
  <2> SUFFICES ASSUME HarnessInv, LengthInv, Measurable, MainDetermined,
                      10 * run.rate < 101 * NSECS_PER_SEC
               PROVE  RunTime \in 10..(101 * Rounds(run.contexts) - 1)
    BY DEF RunTimeBounded
  <2> DEFINE S == NSECS_PER_SEC
             x == iterations * run.rate
             R == Rounds(run.contexts)
  <2>1. /\ S \in Nat \ {0} /\ run.contexts \in Nat /\ run.contexts > 0
        /\ iterations \in Nat /\ run.rate \in Nat /\ run.cores \in Nat \ {0}
        /\ began.wall \in Nat
    BY TimerAssumption, HarnessAssumption, LoopContext
       DEF HarnessInv, RunOK, ClockRead, Time, MainDetermined
  <2>2. x \in Nat /\ 10 * S <= x /\ x < 101 * S
    BY <2>1 DEF LengthInv, Calibrated, Determined, MainDetermined, Over
  <2>3. PICK rounds \in 1..R : now.wall = began.wall + rounds * x
    BY DEF LengthInv, Elapsed, MainDetermined
  <2>4. R \in Nat
    BY <2>1, RoundsGrow
  <2>5. RunTime = (rounds * x) \div S
    <3>1. rounds * x \in Nat
      BY <2>2, <2>3, <2>4
    <3> HIDE DEF x
    <3>2. now.wall - began.wall = rounds * x
      BY <2>1, <2>3, <3>1
    <3> QED BY <3>2 DEF RunTime
  <2> HIDE DEF x, R, S
  <2>6. rounds * x \in Nat /\ 10 * S <= rounds * x
    <3>1. rounds * x >= x
      BY <2>2, <2>3, <2>4
    <3> QED BY <2>1, <2>2, <2>3, <2>4, <3>1
  <2>7. rounds * x < (101 * R - 1 + 1) * S
    <3>1. rounds * x <= R * x
      BY <2>2, <2>3, <2>4
    <3>2. R * x < R * (101 * S)
      BY <2>1, <2>2, <2>3, <2>4
    <3>3. (101 * R - 1 + 1) * S = R * (101 * S)
      BY <2>1, <2>4
    <3> QED BY <2>1, <2>2, <2>3, <2>4, <3>1, <3>2, <3>3
  <2>8. (rounds * x) \div S \in 10..(101 * R - 1)
    BY <2>1, <2>4, <2>6, <2>7, DivBetween
  <2> QED BY <2>5, <2>8 DEF R
<1> QED BY <1>1, <1>2, <1>3, Invariance, PTL DEF Spec

=============================================================================
