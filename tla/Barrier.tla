------------------------------ MODULE Barrier ------------------------------
(* barrier of util.h: ncores threads meet, again and again. The last one   *)
(* to arrive clears the count and flips the shared sense; the others spin  *)
(* until the shared sense is theirs.                                       *)
EXTENDS Integers, FiniteSets

CONSTANTS
  Threads,   \* the ncores threads
  Rounds     \* how often each calls barrier

ASSUME ThreadsAssumption == IsFiniteSet(Threads) /\ Rounds \in Nat

VARIABLE bar   \* sense and count, and each thread's place, threadsense and calls made, or IdleBar

IdleBar == << >>

ncores == Cardinality(Threads)

BarrierInit ==
  bar = [sense |-> FALSE, count |-> 0, at |-> [t \in Threads |-> "out"],
         threadsense |-> [t \in Threads |-> FALSE], calls |-> [t \in Threads |-> 0]]

Enter(t) ==
  /\ bar.at[t] = "out" /\ bar.calls[t] < Rounds
  /\ bar' = [bar EXCEPT !.threadsense[t] = ~@, !.at[t] = "add", !.calls[t] = @ + 1]

(* MUTANT: the last thread is one more than there are.                     *)
FetchAndAdd_past(t) ==
  /\ bar.at[t] = "add"
  /\ bar' = [bar EXCEPT !.count = @ + 1,
                        !.at[t] = IF bar.count = ncores THEN "clear" ELSE "spin"]

(* __sync_fetch_and_add is atomic.                                         *)
FetchAndAdd(t) ==
  /\ bar.at[t] = "add"
  /\ bar' = [bar EXCEPT !.count = @ + 1,
                        !.at[t] = IF bar.count = ncores - 1 THEN "clear" ELSE "spin"]

ClearCount(t) ==
  /\ bar.at[t] = "clear"
  /\ bar' = [bar EXCEPT !.count = 0, !.at[t] = "flip"]

FlipSense(t) ==
  /\ bar.at[t] = "flip"
  /\ bar' = [bar EXCEPT !.sense = bar.threadsense[t], !.at[t] = "out"]

(* MUTANT: a thread waits for the sense to be another than its own.        *)
Spin_any(t) ==
  /\ bar.at[t] = "spin" /\ bar.sense # bar.threadsense[t]
  /\ bar' = [bar EXCEPT !.at[t] = "out"]

Spin(t) ==
  /\ bar.at[t] = "spin" /\ bar.sense = bar.threadsense[t]
  /\ bar' = [bar EXCEPT !.at[t] = "out"]

BarrierStep(t) == Enter(t) \/ FetchAndAdd(t) \/ ClearCount(t) \/ FlipSense(t) \/ Spin(t)

(* The barrier on its own.                                                 *)
BarrierNext == \E t \in Threads : BarrierStep(t)

BarrierSpec == BarrierInit /\ [][BarrierNext]_bar

(* A thread that has left its n-th call knows that every thread has made   *)
(* its n-th call: nobody is a round ahead.                                 *)
NobodyAhead ==
  bar # IdleBar =>
    \A t, u \in Threads : bar.at[t] = "out" => bar.calls[u] >= bar.calls[t]

(* Every thread gets through all its calls.                                *)
BarrierPassed ==
  bar # IdleBar ~> bar # IdleBar /\ \A t \in Threads : bar.calls[t] = Rounds /\ bar.at[t] = "out"

=============================================================================
