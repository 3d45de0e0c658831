------------------------------ MODULE Harness ------------------------------
(* main of CoreMark around the benchmark (core_main.c), with the timer and *)
(* the parallel contexts of the ports (core_portme.c): calibration, the    *)
(* contexts started and stopped by pthread, by fork and shared memory or   *)
(* by fork and a UDP socket, validation and the verdict that is reported.  *)
(* The benchmark itself is one step: CoreMark models what is in it. Only   *)
(* the benchmark takes time, and nothing else runs on the machine.         *)
EXTENDS FiniteSets, PortTimer

CONSTANTS
  Multithread,   \* MULTITHREAD, the number of contexts built in
  Contexts,      \* values of the argument M<n>, a number of contexts
  Methods,       \* "single", "pthread", "fork", "socket"
  Asked,         \* iterations asked for; 0 lets main determine them
  Rates,         \* nanoseconds one iteration may take
  Known,         \* whether the seeds are known to main
  WrongTypes,    \* sets of data types that a port may have the wrong size of
  Faults,        \* calls that may fail: "fork", "shmget", "shmat", "killed", "socket"
  Clocks,        \* "cycle", "clock", "timespec"
  Cores,         \* processors that run the contexts
  Boots          \* what the time may be when main starts

ASSUME HarnessAssumption ==
  /\ Multithread \in Nat \ {0} /\ Contexts \subseteq Nat
  /\ Methods \subseteq {"single", "pthread", "fork", "socket"}
  /\ Rates \subseteq Nat \ {0} /\ Asked \subseteq Nat
  /\ Boots \subseteq Nat /\ Clocks \subseteq {"cycle", "clock", "timespec"}
  /\ Cores \subseteq Nat \ {0}
  /\ Known \subseteq BOOLEAN /\ \A wrong \in WrongTypes : IsFiniteSet(wrong)

Ctx == 1..Multithread

VARIABLES
  pc,        \* where main is
  run,       \* the build and the command line
  iterations,
  k,         \* the context of main's loop
  child,     \* what each context's thread or process does
  pid,       \* res->port.pid of each context: itself, or -1 when fork failed
  reaped,    \* children that waitpid has returned
  shmid,     \* which results of shmget are valid: the parent's, the children's
  seg,       \* contents of the shared memory segments
  sock,      \* each context's socket at the parent, and whether a datagram is there
  crc,       \* the CRCs of each context's core_results, in the parent
  now,       \* the time, [wall, cpu]
  began,     \* ghost: now at the last start_time
  start_time_val, stop_time_val,
  verdict,   \* what main reports
  failed     \* ghost: the calls that failed, with their context

timer == <<now, began, start_time_val, stop_time_val>>

vars == <<pc, run, iterations, k, child, pid, reaped, shmid, seg, sock, crc, timer, verdict, failed>>

(* CRCs: this run's own, stale ones of an earlier run with the same seeds, *)
(* an empty segment's zeroes, and uninitialised memory.                    *)
Crcs == {"own", "stale", "zero", "garbage"}

(* portable_init and main limit the contexts to those built in.            *)
default_num_contexts(n) == IF n > Multithread THEN Multithread ELSE n

(* One of the methods is built in; without one there is a single context,  *)
(* as on the processor itself, whose port has the cycle counter.           *)
BuiltIn(method, contexts, clock) ==
  /\ method = "single" => contexts = 1
  /\ clock = "cycle" => method = "single"

(* core_portable of every context, the shared memory that an earlier run   *)
(* may have left under the same keys, and the children, of which none is.  *)
PortInit ==
  /\ child = [c \in Ctx |-> "none"] /\ pid = [c \in Ctx |-> 0] /\ reaped = {}
  /\ shmid = [parent |-> {}, child |-> {}]
  /\ seg \in [Ctx -> IF run.method = "fork" THEN {"stale", "zero"} ELSE {"zero"}]
  /\ sock = [c \in Ctx |-> "closed"]

Init ==
  /\ pc = "main"
  /\ run \in [method : Methods, contexts : {default_num_contexts(n) : n \in Contexts}, asked : Asked,
             rate : Rates, known : Known, wrong : WrongTypes, clock : Clocks, cores : Cores]
  /\ BuiltIn(run.method, run.contexts, run.clock)
  /\ iterations = 0 /\ k = 1
  /\ PortInit
  /\ crc = [c \in Ctx |-> "garbage"]
  /\ now \in [wall : Boots, cpu : {0}] /\ began = now /\ start_time_val = << >> /\ stop_time_val = << >>
  /\ verdict = "none" /\ failed = {}

MayFail(call) == call \in Faults

(***************************************************************************)
(* The timer.                                                              *)
(***************************************************************************)
start_time(at) == began' = at /\ start_time_val' = GETMYTIME(run.clock, at)

stop_time(at) == now' = at /\ stop_time_val' = GETMYTIME(run.clock, at)

get_time == MYTIMEDIFF(run.clock, stop_time_val, start_time_val)

secs(t) == time_in_secs(run.clock, t)

(* The time after rounds of the iterations, of which as many as own were   *)
(* in main's process.                                                      *)
After(rounds, own, times) ==
  [wall |-> now.wall + rounds * (times * run.rate), cpu |-> now.cpu + own * (times * run.rate)]

(***************************************************************************)
(* main: the number of iterations.                                         *)
(***************************************************************************)
SetIterations ==
  /\ pc = "main"
  /\ IF run.asked = 0 THEN iterations' = 1 /\ pc' = "calibrate"
     ELSE iterations' = run.asked /\ pc' = "timed"
  /\ UNCHANGED <<run, k, child, pid, reaped, shmid, seg, sock, crc, timer, verdict, failed>>

(* MUTANT: the last factor is not one more.                                *)
Calibrate_short ==
  /\ pc = "calibrate"
  /\ LET tried == iterations * 10
         secs_passed == secs(MYTIMEDIFF(run.clock, stop_time_val', start_time_val'))
     IN /\ start_time(now) /\ stop_time(After(1, 1, tried))
        /\ IF secs_passed < 1 THEN iterations' = tried /\ pc' = pc
           ELSE iterations' = tried * (10 \div secs_passed) /\ pc' = "timed"
  /\ crc' = [crc EXCEPT ![1] = "stale"]
  /\ UNCHANGED <<run, k, child, pid, reaped, shmid, seg, sock, verdict, failed>>

(* Ten times more iterations until a second passes; then for ten seconds.  *)
(* Each run is one of results[0], in main itself.                          *)
Calibrate ==
  /\ pc = "calibrate"
  /\ LET tried == iterations * 10
         secs_passed == secs(MYTIMEDIFF(run.clock, stop_time_val', start_time_val'))
     IN /\ start_time(now) /\ stop_time(After(1, 1, tried))
        /\ IF secs_passed < 1 THEN iterations' = tried /\ pc' = pc
           ELSE iterations' = tried * (1 + 10 \div secs_passed) /\ pc' = "timed"
  /\ crc' = [crc EXCEPT ![1] = "stale"]
  /\ UNCHANGED <<run, k, child, pid, reaped, shmid, seg, sock, verdict, failed>>

StartTime ==
  /\ pc = "timed"
  /\ start_time(now)
  /\ pc' = "start"
  /\ UNCHANGED <<run, iterations, k, child, pid, reaped, shmid, seg, sock, crc, now, stop_time_val,
                 verdict, failed>>

(* Without MULTITHREAD, main iterates.                                     *)
IterateInMain ==
  /\ pc = "start" /\ run.method = "single"
  /\ crc' = [crc EXCEPT ![1] = "own"]
  /\ pc' = "stopped"
  /\ UNCHANGED <<run, iterations, k, child, pid, reaped, shmid, seg, sock, timer, verdict, failed>>

(***************************************************************************)
(* main: the loops over the contexts.                                      *)
(***************************************************************************)
Starting(method) == pc = "start" /\ run.method = method /\ k <= run.contexts

Stopping(method) == pc = "stop" /\ run.method = method /\ k <= run.contexts

AllStarted ==
  /\ pc = "start" /\ run.method # "single" /\ k > run.contexts
  /\ pc' = "stop" /\ k' = 1
  /\ UNCHANGED <<run, iterations, child, pid, reaped, shmid, seg, sock, crc, timer, verdict, failed>>

AllStopped ==
  /\ pc = "stop" /\ k > run.contexts
  /\ pc' = "stopped"
  /\ UNCHANGED <<run, iterations, k, child, pid, reaped, shmid, seg, sock, crc, timer, verdict, failed>>

(***************************************************************************)
(* pthread.                                                                *)
(***************************************************************************)
pthread_start_parallel ==
  /\ Starting("pthread")
  /\ child' = [child EXCEPT ![k] = "iterate"]
  /\ k' = k + 1
  /\ UNCHANGED <<pc, run, iterations, pid, reaped, shmid, seg, sock, crc, timer, verdict, failed>>

(* iterate, in a thread, writes the results where main reads them.         *)
ThreadIterates(c) ==
  /\ run.method = "pthread" /\ child[c] = "iterate"
  /\ crc' = [crc EXCEPT ![c] = "own"]
  /\ child' = [child EXCEPT ![c] = "exited"]
  /\ UNCHANGED <<pc, run, iterations, k, pid, reaped, shmid, seg, sock, timer, verdict, failed>>

pthread_stop_parallel ==
  /\ Stopping("pthread") /\ child[k] = "exited"
  /\ k' = k + 1
  /\ UNCHANGED <<pc, run, iterations, child, pid, reaped, shmid, seg, sock, crc, timer, verdict, failed>>

(***************************************************************************)
(* fork, with shared memory or a socket.                                   *)
(***************************************************************************)
Fork(first) ==
  \/ /\ child' = [child EXCEPT ![k] = first]
     /\ pid' = [pid EXCEPT ![k] = k]
     /\ UNCHANGED failed
  \/ /\ MayFail("fork")
     /\ pid' = [pid EXCEPT ![k] = -1]
     /\ failed' = failed \cup {<<"fork", k>>}
     /\ UNCHANGED child

fork_start_parallel ==
  /\ Starting("fork") /\ pid[k] = 0
  /\ Fork("shmget")
  /\ UNCHANGED <<pc, run, iterations, k, reaped, shmid, seg, sock, crc, timer, verdict>>

(* Parent and child each call shmget: who is first creates the segment,    *)
(* unless an earlier run has left one under the same key.                  *)
Shmget(who, c) ==
  \/ shmid' = [shmid EXCEPT ![who] = @ \cup {c}] /\ UNCHANGED failed
  \/ MayFail("shmget") /\ failed' = failed \cup {<<"shmget", c>>} /\ UNCHANGED shmid

ParentShmget ==
  /\ Starting("fork") /\ pid[k] # 0
  /\ Shmget("parent", k)
  /\ k' = k + 1
  /\ UNCHANGED <<pc, run, iterations, child, pid, reaped, seg, sock, crc, timer, verdict>>

ChildShmget(c) ==
  /\ child[c] = "shmget"
  /\ Shmget("child", c)
  /\ child' = [child EXCEPT ![c] = "iterate"]
  /\ UNCHANGED <<pc, run, iterations, k, pid, reaped, seg, sock, crc, timer, verdict>>

ChildIterates(c) ==
  /\ run.method \in {"fork", "socket"} /\ child[c] = "iterate"
  /\ child' = [child EXCEPT ![c] = "iterated"]
  /\ UNCHANGED <<pc, run, iterations, k, pid, reaped, shmid, seg, sock, crc, timer, verdict, failed>>

(* shmat in the child, which copies its CRCs there and exits.              *)
ChildCopies(c) ==
  /\ run.method = "fork" /\ child[c] = "iterated"
  /\ child' = [child EXCEPT ![c] = "exited"]
  /\ \/ c \in shmid.child /\ seg' = [seg EXCEPT ![c] = "own"] /\ UNCHANGED failed
     \/ /\ c \notin shmid.child \/ MayFail("shmat")
        /\ failed' = failed \cup {<<"shmat", c>>} /\ UNCHANGED seg
  /\ UNCHANGED <<pc, run, iterations, k, pid, reaped, shmid, sock, crc, timer, verdict>>

ChildKilled(c) ==
  /\ MayFail("killed") /\ run.method \in {"fork", "socket"}
  /\ child[c] \in {"shmget", "iterate", "iterated"}
  /\ child' = [child EXCEPT ![c] = "exited"]
  /\ failed' = failed \cup {<<"killed", c>>}
  /\ UNCHANGED <<pc, run, iterations, k, pid, reaped, shmid, seg, sock, crc, timer, verdict>>

Children == {c \in Ctx : child[c] # "none"} \ reaped

(* MUTANT: waitpid does not wait.                                          *)
Waitpid_nohang(w) == w \in Ctx /\ w = pid[k] /\ reaped' = reaped \cup {w}

(* MUTANT: waitpid for -1 blocks when there is no child.                   *)
Waitpid_blocks(w) ==
  \/ w \in Children /\ child[w] = "exited" /\ pid[k] \in {w, -1} /\ reaped' = reaped \cup {w}
  \/ w = -1 /\ reaped' = reaped /\ pid[k] # -1 /\ pid[k] \notin Children

(* waitpid for context k: w is what it returns, and it blocks while the    *)
(* children it may return still run. For -1 any child will do.             *)
Waitpid(w) ==
  \/ w \in Children /\ child[w] = "exited" /\ pid[k] \in {w, -1} /\ reaped' = reaped \cup {w}
  \/ /\ w = -1 /\ reaped' = reaped
     /\ IF pid[k] = -1 THEN Children = {} ELSE pid[k] \notin Children

(* core_stop_parallel: only the pid is compared, not the status; then the  *)
(* CRCs are read from the segment. main ignores the result.                *)
fork_stop_parallel ==
  /\ Stopping("fork")
  /\ \E w \in Ctx \cup {-1} :
       /\ Waitpid(w)
       /\ IF w # pid[k] THEN UNCHANGED <<crc, failed>>
          ELSE \/ k \in shmid.parent /\ crc' = [crc EXCEPT ![k] = seg[k]] /\ UNCHANGED failed
               \/ /\ k \notin shmid.parent \/ MayFail("shmat")
                  /\ failed' = failed \cup {<<"shmat", k>>} /\ UNCHANGED crc
  /\ k' = k + 1
  /\ UNCHANGED <<pc, run, iterations, child, pid, shmid, seg, sock, timer, verdict>>

(* The parent binds the context's socket after the fork.                   *)
socket_start_parallel ==
  /\ Starting("socket") /\ pid[k] = 0
  /\ Fork("iterate")
  /\ UNCHANGED <<pc, run, iterations, k, reaped, shmid, seg, sock, crc, timer, verdict>>

(* Without a socket, and with one that is not bound, main goes on.         *)
ParentBinds ==
  /\ Starting("socket") /\ pid[k] # 0
  /\ \/ sock' = [sock EXCEPT ![k] = "bound"] /\ UNCHANGED failed
     \/ /\ MayFail("socket")
        /\ \E s \in {"none", "unbound"} : sock' = [sock EXCEPT ![k] = s]
        /\ failed' = failed \cup {<<"socket", k>>}
  /\ k' = k + 1
  /\ UNCHANGED <<pc, run, iterations, child, pid, reaped, shmid, seg, crc, timer, verdict>>

(* A datagram to a port that nobody has bound is lost.                     *)
ChildSends(c) ==
  /\ run.method = "socket" /\ child[c] = "iterated"
  /\ \/ /\ sock[c] = "bound" /\ sock' = [sock EXCEPT ![c] = "full"] /\ UNCHANGED failed
     \/ /\ sock[c] # "bound" /\ failed' = failed \cup {<<"lost", c>>} /\ UNCHANGED sock
     \/ /\ MayFail("socket") /\ failed' = failed \cup {<<"socket", c>>} /\ UNCHANGED sock
  /\ child' = [child EXCEPT ![c] = "exited"]
  /\ UNCHANGED <<pc, run, iterations, k, pid, reaped, shmid, seg, crc, timer, verdict>>

(* recvfrom blocks until there is a datagram; then the child is waited     *)
(* for, whichever it is. Without a socket it fails and nobody is.          *)
socket_stop_parallel ==
  /\ Stopping("socket")
  /\ \/ /\ sock[k] = "full"
        /\ crc' = [crc EXCEPT ![k] = "own"]
        /\ \E w \in Ctx \cup {-1} : Waitpid(w)
     \/ sock[k] = "none" /\ UNCHANGED <<crc, reaped>>
  /\ k' = k + 1
  /\ UNCHANGED <<pc, run, iterations, child, pid, shmid, seg, sock, timer, verdict, failed>>

(***************************************************************************)
(* main: the end of the timed part, validation and report.                 *)
(***************************************************************************)
(* Contexts that have a thread or a process; those that have done all      *)
(* their iterations by now.                                                *)
Begun == {c \in Ctx : child[c] # "none"}

Ran == {c \in Begun : child[c] = "exited" /\ <<"killed", c>> \notin failed}

(* How often n contexts take their turn on the processors.                 *)
Rounds(n) == (n + run.cores - 1) \div run.cores

(* The timed part took as long as the contexts in turn; those that were    *)
(* killed, or that main did not wait for, may have taken no time of it.    *)
(* The iterations of main and its threads are in main's process, those of  *)
(* forked children in others.                                              *)
StopTime ==
  /\ pc = "stopped"
  /\ IF run.method = "single" THEN stop_time(After(1, 1, iterations))
     ELSE \E rounds \in Rounds(Cardinality(Ran))..Rounds(Cardinality(Begun)) :
            stop_time(After(rounds, IF run.method = "pthread" THEN Cardinality(Ran) ELSE 0, iterations))
  /\ pc' = "report"
  /\ UNCHANGED <<run, iterations, k, child, pid, reaped, shmid, seg, sock, crc, began, start_time_val,
                 verdict, failed>>

(* One error for each data type whose size is not the expected one.        *)
check_data_types == Cardinality(run.wrong)

(* MUTANT: a run that is too short is no error.                            *)
total_errors_untimed ==
  (IF run.known
   THEN 3 * Cardinality({c \in 1..run.contexts : crc[c] \notin {"own", "stale"}})
   ELSE -1)
  + check_data_types

(* Three errors for each context without the right CRCs; -1 for unknown    *)
(* seeds; more for wrong data types, and one when less than ten seconds    *)
(* were measured.                                                          *)
total_errors ==
  (IF run.known
   THEN 3 * Cardinality({c \in 1..run.contexts : crc[c] \notin {"own", "stale"}})
   ELSE -1)
  + check_data_types
  + (IF secs(get_time) < 10 THEN 1 ELSE 0)

Report ==
  /\ pc = "report"
  /\ verdict' = CASE total_errors = 0 -> "validated"
                  [] total_errors > 0 -> "errors"
                  [] total_errors < 0 -> "cannot_validate"
  /\ pc' = "done"
  /\ UNCHANGED <<run, iterations, k, child, pid, reaped, shmid, seg, sock, crc, timer, failed>>

Main ==
  \/ SetIterations \/ Calibrate \/ StartTime \/ IterateInMain \/ AllStarted \/ AllStopped
  \/ pthread_start_parallel \/ pthread_stop_parallel
  \/ fork_start_parallel \/ ParentShmget \/ fork_stop_parallel
  \/ socket_start_parallel \/ ParentBinds \/ socket_stop_parallel
  \/ StopTime \/ Report

Child(c) ==
  \/ ThreadIterates(c) \/ ChildShmget(c) \/ ChildIterates(c) \/ ChildCopies(c) \/ ChildSends(c)

Next == Main \/ \E c \in Ctx : Child(c) \/ ChildKilled(c)

(* The system schedules main and every child; nobody has to kill one.      *)
Spec == Init /\ [][Next]_vars /\ WF_vars(Main) /\ \A c \in Ctx : WF_vars(Child(c))

(***************************************************************************)
(* Properties.                                                             *)
(***************************************************************************)
(* What main gathers is the context's own: a context none of whose calls   *)
(* failed has its results in main when the timed part is over, unless a    *)
(* fork failed, whose wait may have taken this context's child.            *)
FaultsStayLocal ==
  pc \in {"stopped", "report", "done"} /\ ~(\E c \in Ctx : <<"fork", c>> \in failed) =>
    \A c \in 1..run.contexts : (\A f \in failed : f[2] # c) => crc[c] = "own"

(* Without a failure main reports success exactly when the seeds are       *)
(* known, the data types are right, ten seconds were measured, and every   *)
(* context ran.                                                            *)
VerdictIsRight ==
  pc = "done" /\ failed = {} =>
    (verdict = "validated" <=>
       /\ run.known /\ run.wrong = {}
       /\ secs(get_time) >= 10
       /\ \A c \in 1..run.contexts : crc[c] = "own")

(* What is reported is what has passed on the port's clock since the last  *)
(* start_time, to less than a tick: calibration leaves nothing behind,     *)
(* nanoseconds that went down are made up for and a counter may wrap in    *)
(* between. With clock() that is the processor time of main's process.     *)
TimeIsMeasured ==
  LET passed == Shown(run.clock, now) - Shown(run.clock, began)
      error == get_time * Divider(run.clock) - passed
  IN pc \in {"report", "done"} /\ passed < TickMod =>
       -Divider(run.clock) < error /\ error < Divider(run.clock)

(* The seconds that the timed part took, whatever the clock shows of them. *)
RunTime == (now.wall - began.wall) \div NSECS_PER_SEC

MainDetermined == pc = "done" /\ run.asked = 0 /\ run.contexts > 0 /\ failed = {}

(* Iterations that main determines make the run last 10 seconds, and 100   *)
(* at most where each context has a processor; with fewer processors each  *)
(* round of contexts may take as long again. An iteration must not take    *)
(* longer than 10 seconds, of which main makes ten at least.               *)
RunTimeBounded ==
  MainDetermined /\ 10 * run.rate < 101 * NSECS_PER_SEC =>
    RunTime \in 10..(101 * Rounds(run.contexts) - 1)

(* main ends, whatever fails, or waits for one thing only: a datagram to a *)
(* socket it has open, from a child that has exited or was never forked.   *)
MainEnds ==
  <>(\/ pc = "done"
     \/ Stopping("socket") /\ sock[k] \in {"bound", "unbound"} /\ child[k] \in {"none", "exited"})

=============================================================================
