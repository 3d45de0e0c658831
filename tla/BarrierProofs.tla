--------------------------- MODULE BarrierProofs ---------------------------
(* The barrier of util.h separates the rounds of any finite number of      *)
(* threads, however often they meet.                                       *)
(*                                                                         *)
(* NobodyAhead is not inductive: why a spinning thread may leave is in the *)
(* parity of its calls, and why the last thread may flip is in the count.  *)
(* The invariant names g, how many rounds are complete: the shared sense   *)
(* is the parity of g, every thread has called barrier g or g + 1 times,   *)
(* the count is that of the threads that have arrived in round g + 1, and  *)
(* who is past the count has seen all of them arrive.                      *)
EXTENDS Barrier, FiniteSetTheorems, TLAPS

Odd(i) == i % 2 = 1

Places == {"out", "add", "clear", "flip", "spin"}

(* The barrier's data and each thread's place and counts.                  *)
BarrierTypeOK ==
  bar \in [sense : BOOLEAN, count : Nat, at : [Threads -> Places],
           threadsense : [Threads -> BOOLEAN], calls : [Threads -> Nat]]

(* The threads that have added themselves to the count of round g + 1.     *)
Arrived(g) == {t \in Threads : bar.calls[t] = g + 1 /\ bar.at[t] # "add"}

(* A thread's own sense and the shared one are parities; a thread is in    *)
(* the round g that is complete or in the next one.                        *)
SenseIsParity(g) ==
  /\ bar.sense = Odd(g)
  /\ \A t \in Threads : bar.threadsense[t] = Odd(bar.calls[t])

InRound(g) ==
  \A t \in Threads :
    /\ bar.calls[t] \in {g, g + 1}
    /\ bar.at[t] = "out" => bar.calls[t] = g
    /\ bar.at[t] \in {"add", "clear", "flip"} => bar.calls[t] = g + 1

(* The count, and the one thread that goes on when it is full.             *)
CountsArrivals(g) ==
  /\ (\A t \in Threads : bar.at[t] # "flip") => bar.count = Cardinality(Arrived(g))
  /\ \A t \in Threads :
       bar.at[t] \in {"clear", "flip"} =>
         /\ Arrived(g) = Threads
         /\ \A u \in Threads \ {t} : bar.at[u] = "spin"
         /\ bar.at[t] = "flip" => bar.count = 0

(* What holds when g rounds are complete.                                  *)
AfterRounds(g) == SenseIsParity(g) /\ InRound(g) /\ CountsArrivals(g)

(* The inductive invariant.                                                *)
BarrierInv == BarrierTypeOK /\ \E g \in Nat : AfterRounds(g)

-----------------------------------------------------------------------------
(* Arithmetic of parities.                                                 *)
LEMMA Parity ==
  ASSUME NEW i \in Nat
  PROVE  Odd(i + 1) = ~Odd(i)
BY DEF Odd

(* The shape of a step: which fields it changes.                           *)
LEMMA FieldsOfStep ==
  ASSUME BarrierTypeOK, NEW t \in Threads, BarrierStep(t)
  PROVE  /\ BarrierTypeOK'
         /\ \A u \in Threads \ {t} : /\ bar'.at[u] = bar.at[u]
                                     /\ bar'.calls[u] = bar.calls[u]
                                     /\ bar'.threadsense[u] = bar.threadsense[u]
         /\ \/ /\ Enter(t)
               /\ bar'.at[t] = "add" /\ bar'.calls[t] = bar.calls[t] + 1
               /\ bar'.threadsense[t] = ~bar.threadsense[t]
               /\ bar'.count = bar.count /\ bar'.sense = bar.sense
            \/ /\ FetchAndAdd(t)
               /\ bar'.at[t] = IF bar.count = ncores - 1 THEN "clear" ELSE "spin"
               /\ bar'.calls[t] = bar.calls[t] /\ bar'.threadsense[t] = bar.threadsense[t]
               /\ bar'.count = bar.count + 1 /\ bar'.sense = bar.sense
            \/ /\ ClearCount(t)
               /\ bar'.at[t] = "flip"
               /\ bar'.calls[t] = bar.calls[t] /\ bar'.threadsense[t] = bar.threadsense[t]
               /\ bar'.count = 0 /\ bar'.sense = bar.sense
            \/ /\ FlipSense(t)
               /\ bar'.at[t] = "out"
               /\ bar'.calls[t] = bar.calls[t] /\ bar'.threadsense[t] = bar.threadsense[t]
               /\ bar'.count = bar.count /\ bar'.sense = bar.threadsense[t]
            \/ /\ Spin(t)
               /\ bar'.at[t] = "out"
               /\ bar'.calls[t] = bar.calls[t] /\ bar'.threadsense[t] = bar.threadsense[t]
               /\ bar'.count = bar.count /\ bar'.sense = bar.sense
<1> /\ bar.sense \in BOOLEAN /\ bar.count \in Nat /\ bar.at \in [Threads -> Places]
    /\ bar.threadsense \in [Threads -> BOOLEAN] /\ bar.calls \in [Threads -> Nat]
    /\ bar = [sense |-> bar.sense, count |-> bar.count, at |-> bar.at,
              threadsense |-> bar.threadsense, calls |-> bar.calls]
  BY DEF BarrierTypeOK
<1>1. CASE Enter(t)
  <2>1. bar' = [sense |-> bar.sense, count |-> bar.count, at |-> [bar.at EXCEPT ![t] = "add"],
                threadsense |-> [bar.threadsense EXCEPT ![t] = ~@],
                calls |-> [bar.calls EXCEPT ![t] = @ + 1]]
    BY <1>1 DEF Enter
  <2>2. bar.calls[t] + 1 \in Nat
    OBVIOUS
  <2> QED BY <1>1, <2>1, <2>2, Zenon DEF BarrierTypeOK, Places
<1>2. CASE FetchAndAdd(t)
  <2> DEFINE next == IF bar.count = ncores - 1 THEN "clear" ELSE "spin"
  <2>1. bar' = [sense |-> bar.sense, count |-> bar.count + 1, at |-> [bar.at EXCEPT ![t] = next],
                threadsense |-> bar.threadsense, calls |-> bar.calls]
    BY <1>2 DEF FetchAndAdd
  <2>2. bar.count + 1 \in Nat /\ next \in Places
    BY DEF Places
  <2> QED BY <1>2, <2>1, <2>2, Zenon DEF BarrierTypeOK
<1>3. CASE ClearCount(t)
  BY <1>3 DEF BarrierTypeOK, Places, ClearCount
<1>4. CASE FlipSense(t)
  BY <1>4 DEF BarrierTypeOK, Places, FlipSense
<1>5. CASE Spin(t)
  BY <1>5 DEF BarrierTypeOK, Places, Spin
<1> QED BY <1>1, <1>2, <1>3, <1>4, <1>5 DEF BarrierStep

-----------------------------------------------------------------------------
(* Every step keeps the invariant; the flip completes a round.             *)
LEMMA EnterKeeps ==
  ASSUME BarrierTypeOK, NEW g \in Nat, AfterRounds(g), NEW t \in Threads, Enter(t)
  PROVE  AfterRounds(g)'
<1> BarrierStep(t)
  BY DEF BarrierStep
<1>1. /\ bar.at[t] = "out" /\ bar'.at[t] = "add" /\ bar'.calls[t] = bar.calls[t] + 1
      /\ bar'.threadsense[t] = ~bar.threadsense[t]
      /\ bar'.count = bar.count /\ bar'.sense = bar.sense
  BY FieldsOfStep DEF Enter, FetchAndAdd, ClearCount, FlipSense, Spin
<1>2. \A u \in Threads \ {t} : /\ bar'.at[u] = bar.at[u] /\ bar'.calls[u] = bar.calls[u]
                              /\ bar'.threadsense[u] = bar.threadsense[u]
  BY FieldsOfStep
<1>3. bar.calls[t] = g
  BY <1>1 DEF AfterRounds, InRound
<1>4. Arrived(g)' = Arrived(g)
  BY <1>1, <1>2, <1>3 DEF Arrived
<1>5. t \notin Arrived(g)
  BY <1>3 DEF Arrived
<1>6. SenseIsParity(g)'
  BY <1>1, <1>2, <1>3, Parity DEF AfterRounds, SenseIsParity
<1>7. InRound(g)'
  BY <1>1, <1>2, <1>3 DEF AfterRounds, InRound
<1>8. CountsArrivals(g)'
  BY <1>1, <1>2, <1>4, <1>5 DEF AfterRounds, CountsArrivals
<1> QED BY <1>6, <1>7, <1>8 DEF AfterRounds

(* The fetch-and-add counts the thread in; the last one will clear the     *)
(* count.                                                                  *)
LEMMA FetchAndAddKeeps ==
  ASSUME BarrierTypeOK, NEW g \in Nat, AfterRounds(g), NEW t \in Threads, FetchAndAdd(t)
  PROVE  AfterRounds(g)'
<1> BarrierStep(t)
  BY DEF BarrierStep
<1>1. /\ bar.at[t] = "add" /\ bar'.at[t] = IF bar.count = ncores - 1 THEN "clear" ELSE "spin"
      /\ bar'.calls[t] = bar.calls[t] /\ bar'.threadsense[t] = bar.threadsense[t]
      /\ bar'.count = bar.count + 1 /\ bar'.sense = bar.sense
  BY FieldsOfStep DEF Enter, FetchAndAdd, ClearCount, FlipSense, Spin
<1>2. \A u \in Threads \ {t} : /\ bar'.at[u] = bar.at[u] /\ bar'.calls[u] = bar.calls[u]
                              /\ bar'.threadsense[u] = bar.threadsense[u]
  BY FieldsOfStep
<1>3. bar.calls[t] = g + 1 /\ t \notin Arrived(g) /\ Arrived(g) \subseteq Threads
  BY <1>1 DEF AfterRounds, InRound, Arrived
<1>4. \A u \in Threads : bar.at[u] \notin {"clear", "flip"}
  BY <1>3 DEF AfterRounds, CountsArrivals
<1>5. Arrived(g)' = Arrived(g) \cup {t}
  BY <1>1, <1>2, <1>3 DEF Arrived
<1>6. IsFiniteSet(Arrived(g)) /\ bar.count = Cardinality(Arrived(g))
  BY <1>3, <1>4, FS_Subset, ThreadsAssumption DEF AfterRounds, CountsArrivals
<1>7. bar'.count = Cardinality(Arrived(g)')
  BY <1>1, <1>3, <1>5, <1>6, FS_AddElement
<1>8. SenseIsParity(g)'
  BY <1>1, <1>2 DEF AfterRounds, SenseIsParity
<1>9. InRound(g)'
  BY <1>1, <1>2, <1>3 DEF AfterRounds, InRound
<1>10. ASSUME bar'.at[t] = "clear"
       PROVE  Arrived(g)' = Threads /\ \A u \in Threads \ {t} : bar'.at[u] = "spin"
  <2>1. bar.count = ncores - 1
    BY <1>1, <1>10
  <2>2. ncores \in Nat /\ bar.count \in Nat
    BY FS_CardinalityType, ThreadsAssumption DEF ncores, BarrierTypeOK
  <2>3. Cardinality(Arrived(g)') = Cardinality(Threads)
    BY <1>1, <1>7, <2>1, <2>2 DEF ncores
  <2>4. Arrived(g)' = Threads
    BY <1>3, <1>5, <2>3, FS_Subset, ThreadsAssumption
  <2>5. ASSUME NEW u \in Threads \ {t}
        PROVE  bar'.at[u] = "spin"
    <3>1. u \in Arrived(g)
      BY <1>5, <2>4
    <3>2. bar.at[u] \in Places
      BY DEF BarrierTypeOK
    <3> QED BY <1>2, <1>4, <3>1, <3>2 DEF Arrived, Places, AfterRounds, InRound
  <2> QED BY <2>4, <2>5
<1>11. CountsArrivals(g)'
  <2>1. \A u \in Threads : bar'.at[u] \in {"clear", "flip"} => u = t /\ bar'.at[u] = "clear"
    BY <1>1, <1>2, <1>4
  <2> QED BY <1>7, <1>10, <2>1 DEF CountsArrivals
<1> QED BY <1>8, <1>9, <1>11 DEF AfterRounds

(* The last thread clears the count before anyone is released.             *)
LEMMA ClearCountKeeps ==
  ASSUME BarrierTypeOK, NEW g \in Nat, AfterRounds(g), NEW t \in Threads, ClearCount(t)
  PROVE  AfterRounds(g)'
<1> BarrierStep(t)
  BY DEF BarrierStep
<1>1. /\ bar.at[t] = "clear" /\ bar'.at[t] = "flip"
      /\ bar'.calls[t] = bar.calls[t] /\ bar'.threadsense[t] = bar.threadsense[t]
      /\ bar'.count = 0 /\ bar'.sense = bar.sense
  BY FieldsOfStep DEF Enter, FetchAndAdd, ClearCount, FlipSense, Spin
<1>2. \A u \in Threads \ {t} : /\ bar'.at[u] = bar.at[u] /\ bar'.calls[u] = bar.calls[u]
                              /\ bar'.threadsense[u] = bar.threadsense[u]
  BY FieldsOfStep
<1>3. Arrived(g)' = Arrived(g)
  BY <1>1, <1>2 DEF Arrived
<1>4. SenseIsParity(g)' /\ InRound(g)'
  BY <1>1, <1>2 DEF AfterRounds, SenseIsParity, InRound
<1>5. CountsArrivals(g)'
  BY <1>1, <1>2, <1>3 DEF AfterRounds, CountsArrivals
<1> QED BY <1>4, <1>5 DEF AfterRounds

(* The flip of the shared sense releases everyone: the round is complete.  *)
LEMMA FlipSenseCompletes ==
  ASSUME BarrierTypeOK, NEW g \in Nat, AfterRounds(g), NEW t \in Threads, FlipSense(t)
  PROVE  AfterRounds(g + 1)'
<1> BarrierStep(t)
  BY DEF BarrierStep
<1>1. /\ bar.at[t] = "flip" /\ bar'.at[t] = "out"
      /\ bar'.calls[t] = bar.calls[t] /\ bar'.threadsense[t] = bar.threadsense[t]
      /\ bar'.count = bar.count /\ bar'.sense = bar.threadsense[t]
  BY FieldsOfStep DEF Enter, FetchAndAdd, ClearCount, FlipSense, Spin
<1>2. \A u \in Threads \ {t} : /\ bar'.at[u] = bar.at[u] /\ bar'.calls[u] = bar.calls[u]
                              /\ bar'.threadsense[u] = bar.threadsense[u]
  BY FieldsOfStep
<1>3. /\ Arrived(g) = Threads /\ bar.count = 0
      /\ \A u \in Threads \ {t} : bar.at[u] = "spin"
  BY <1>1 DEF AfterRounds, CountsArrivals
<1>4. \A u \in Threads : bar'.calls[u] = g + 1 /\ bar'.at[u] \in {"spin", "out"}
  BY <1>1, <1>2, <1>3 DEF Arrived
<1>5. SenseIsParity(g + 1)'
  BY <1>1, <1>2, <1>4 DEF AfterRounds, SenseIsParity
<1>6. InRound(g + 1)'
  BY <1>4 DEF InRound
<1>7. Arrived(g + 1)' = {}
  BY <1>4 DEF Arrived
<1>8. CountsArrivals(g + 1)'
  BY <1>1, <1>3, <1>4, <1>7, FS_EmptySet DEF CountsArrivals
<1> QED BY <1>5, <1>6, <1>8 DEF AfterRounds

(* A thread that sees the new sense leaves the round.                      *)
LEMMA SpinKeeps ==
  ASSUME BarrierTypeOK, NEW g \in Nat, AfterRounds(g), NEW t \in Threads, Spin(t)
  PROVE  AfterRounds(g)'
<1> BarrierStep(t)
  BY DEF BarrierStep
<1>1. /\ bar.at[t] = "spin" /\ bar.sense = bar.threadsense[t] /\ bar'.at[t] = "out"
      /\ bar'.calls[t] = bar.calls[t] /\ bar'.threadsense[t] = bar.threadsense[t]
      /\ bar'.count = bar.count /\ bar'.sense = bar.sense
  BY FieldsOfStep DEF Enter, FetchAndAdd, ClearCount, FlipSense, Spin
<1>2. \A u \in Threads \ {t} : /\ bar'.at[u] = bar.at[u] /\ bar'.calls[u] = bar.calls[u]
                              /\ bar'.threadsense[u] = bar.threadsense[u]
  BY FieldsOfStep
<1>3. bar.calls[t] = g
  <2>1. bar.calls[t] \in {g, g + 1} /\ Odd(bar.calls[t]) = Odd(g)
    BY <1>1 DEF AfterRounds, SenseIsParity, InRound
  <2> QED BY <2>1, Parity DEF Odd
<1>4. Arrived(g)' = Arrived(g) /\ t \notin Arrived(g)
  BY <1>1, <1>2, <1>3 DEF Arrived
<1>5. SenseIsParity(g)' /\ InRound(g)'
  BY <1>1, <1>2, <1>3 DEF AfterRounds, SenseIsParity, InRound
<1>6. CountsArrivals(g)'
  BY <1>1, <1>2, <1>4 DEF AfterRounds, CountsArrivals
<1> QED BY <1>5, <1>6 DEF AfterRounds

-----------------------------------------------------------------------------
(* The rounds follow each other: at any time there is a number g of        *)
(* complete rounds such that nobody is before its call g or past its call  *)
(* g + 1, the shared sense is g's parity and the count is exact.           *)
THEOREM RoundsInOrder == BarrierSpec => []BarrierInv
<1>1. BarrierInit => BarrierInv
  <2> SUFFICES ASSUME BarrierInit
               PROVE  BarrierTypeOK /\ AfterRounds(0)
    BY DEF BarrierInv
  <2>1. BarrierTypeOK
    BY DEF BarrierInit, BarrierTypeOK, Places
  <2>2. Arrived(0) = {}
    BY DEF BarrierInit, Arrived
  <2>3. SenseIsParity(0) /\ InRound(0)
    <3>1. Odd(0) = FALSE
      BY DEF Odd
    <3>2. /\ bar.sense = FALSE
          /\ \A t \in Threads : bar.threadsense[t] = FALSE /\ bar.calls[t] = 0
      BY DEF BarrierInit
    <3>3. SenseIsParity(0)
      BY <3>1, <3>2, Zenon DEF SenseIsParity
    <3>4. InRound(0)
      BY DEF BarrierInit, InRound
    <3> QED BY <3>3, <3>4
  <2>4. CountsArrivals(0)
    BY <2>2, FS_EmptySet DEF BarrierInit, CountsArrivals
  <2> QED BY <2>1, <2>3, <2>4 DEF AfterRounds
<1>2. BarrierInv /\ [BarrierNext]_bar => BarrierInv'
  <2> SUFFICES ASSUME BarrierInv, [BarrierNext]_bar
               PROVE  BarrierInv'
    OBVIOUS
  <2>1. PICK g \in Nat : AfterRounds(g)
    BY DEF BarrierInv
  <2>2. BarrierTypeOK
    BY DEF BarrierInv
  <2>3. CASE UNCHANGED bar
    <3>1. AfterRounds(g)'
      BY <2>1, <2>3 DEF AfterRounds, SenseIsParity, InRound, CountsArrivals, Arrived
    <3>2. BarrierTypeOK'
      BY <2>2, <2>3 DEF BarrierTypeOK
    <3> QED BY <3>1, <3>2 DEF BarrierInv
  <2>4. ASSUME NEW t \in Threads, BarrierStep(t)
        PROVE  BarrierInv'
    <3>1. BarrierTypeOK'
      BY <2>2, <2>4, FieldsOfStep
    <3>2. g + 1 \in Nat
      OBVIOUS
    <3>3. AfterRounds(g)' \/ AfterRounds(g + 1)'
      BY <2>1, <2>2, <2>4, EnterKeeps, FetchAndAddKeeps, ClearCountKeeps, FlipSenseCompletes,
         SpinKeeps DEF BarrierStep
    <3> QED BY <3>1, <3>2, <3>3 DEF BarrierInv
  <2> QED BY <2>3, <2>4 DEF BarrierNext
<1> QED BY <1>1, <1>2, PTL DEF BarrierSpec

(* A thread that has left its n-th call of barrier knows that every thread *)
(* has made its n-th call, for any finite number of threads and calls.     *)
THEOREM NobodyIsAhead == BarrierSpec => []NobodyAhead
<1>1. BarrierInv => NobodyAhead
  <2> SUFFICES ASSUME BarrierInv, NEW t \in Threads, NEW u \in Threads, bar.at[t] = "out"
               PROVE  bar.calls[u] >= bar.calls[t]
    BY DEF NobodyAhead
  <2>1. PICK g \in Nat : InRound(g)
    BY DEF BarrierInv, AfterRounds
  <2> QED BY <2>1 DEF InRound
<1> QED BY <1>1, RoundsInOrder, PTL

=============================================================================
