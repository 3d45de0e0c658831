--------------------------- MODULE ProgramProofs ---------------------------
(* Proofs about the programs under testcode: the comparisons of util.h,    *)
(* for arrays of any length; the memory that CoreMark's main lays out, for *)
(* any number of contexts, sizes and selected algorithms; comp3, for any   *)
(* notifications; and CoreMark's merge sort, for lists of any length.      *)
EXTENDS Verify, Blocks, Comp3, CoreSort, FiniteSetTheorems, SequenceTheorems, NaturalsInduction,
        WellFoundedInduction, TLAPS

-----------------------------------------------------------------------------
(* verify and verifyDouble.                                                *)

(* The arguments do not change; an array of integers has no NaN.           *)
ArgumentsOK ==
  /\ ver.fn \in {"verify", "verifyDouble"}
  /\ ver.test \in Seq(Nat \cup {NaN}) /\ ver.verify \in Seq(Nat \cup {NaN})
  /\ Len(ver.test) = Len(ver.verify)
  /\ ver.fn = "verify" => \A j \in 1..n : ver.test[j] # NaN

(* Everything before the pair that is looked at next is the same.          *)
LoopOK ==
  /\ ver.i \in Nat /\ ver.i % 2 = 0 /\ ver.i <= (n \div 2) * 2
  /\ ver.returned \in BOOLEAN
  /\ ~ver.returned => \A j \in 1..ver.i : Same(ver.test[j], ver.verify[j])

VerifyInv ==
  /\ ver \in [fn : {"verify", "verifyDouble"}, test : Seq(Nat \cup {NaN}), verify : Seq(Nat \cup {NaN}),
              i : Nat, returned : BOOLEAN, ret : Nat]
  /\ ArgumentsOK /\ LoopOK /\ FirstMismatch

(* Pairs: i is even, and before the last even number up to k.              *)
LEMMA NextPair ==
  ASSUME NEW k \in Nat, NEW i \in Nat, i % 2 = 0, i < (k \div 2) * 2
  PROVE  i + 2 <= (k \div 2) * 2 /\ i + 2 <= k /\ (i + 2) % 2 = 0
<1>1. PICK h \in Nat : h = k \div 2
  OBVIOUS
<1>2. h * 2 <= k
  BY <1>1
<1>3. i + 2 <= h * 2
  BY <1>1
<1>4. (i + 2) % 2 = 0
  OBVIOUS
<1> QED BY <1>1, <1>2, <1>3, <1>4

(* A return whose value is the first difference, or 0 without one.         *)
LEMMA Answers ==
  ASSUME VerifyInv, NEW value \in 0..n, Return(value),
         value = 0 => \A j \in 1..n : Same(ver.test[j], ver.verify[j]),
         value # 0 => /\ ~Same(ver.test[value], ver.verify[value])
                      /\ \A j \in 1..(value - 1) : Same(ver.test[j], ver.verify[j])
  PROVE  VerifyInv'
<1>1. n \in Nat /\ value \in Nat
  <2>1. n \in Nat
    BY DEF VerifyInv, ArgumentsOK, n
  <2> QED BY <2>1
<1>2. /\ ver' \in [fn : {"verify", "verifyDouble"}, test : Seq(Nat \cup {NaN}),
                   verify : Seq(Nat \cup {NaN}), i : Nat, returned : BOOLEAN, ret : Nat]
      /\ ver'.fn = ver.fn /\ ver'.test = ver.test /\ ver'.verify = ver.verify
      /\ ver'.i = ver.i /\ ver'.returned = TRUE /\ ver'.ret = value
  BY <1>1 DEF VerifyInv, Return
<1>3. n' = n
  BY <1>2 DEF n
<1>4. ArgumentsOK' /\ LoopOK'
  BY <1>2, <1>3 DEF VerifyInv, ArgumentsOK, LoopOK
<1>5. FirstMismatch'
  <2> DEFINE differ == {j \in 1..n : ~Same(ver.test[j], ver.verify[j])}
  <2>1. CASE value = 0
    BY <1>2, <1>3, <2>1 DEF FirstMismatch
  <2>2. CASE value # 0
    <3>1. value \in differ /\ \A j \in differ : value <= j
      BY <1>1, <2>2
    <3> QED BY <1>2, <1>3, <2>2, <3>1 DEF FirstMismatch
  <2> QED BY <2>1, <2>2
<1> QED BY <1>2, <1>4, <1>5 DEF VerifyInv

(* A pair without a difference.                                            *)
LEMMA GoesOn ==
  ASSUME VerifyInv, ~ver.returned, ver.i < (n \div 2) * 2,
         Same(ver.test[ver.i + 1], ver.verify[ver.i + 1]),
         Same(ver.test[ver.i + 2], ver.verify[ver.i + 2]),
         ver' = [ver EXCEPT !.i = @ + 2]
  PROVE  VerifyInv'
<1>1. n \in Nat /\ ver.i \in Nat
  BY DEF VerifyInv, ArgumentsOK, LoopOK, n
<1>2. /\ ver' \in [fn : {"verify", "verifyDouble"}, test : Seq(Nat \cup {NaN}),
                   verify : Seq(Nat \cup {NaN}), i : Nat, returned : BOOLEAN, ret : Nat]
      /\ ver'.fn = ver.fn /\ ver'.test = ver.test /\ ver'.verify = ver.verify
      /\ ver'.i = ver.i + 2 /\ ver'.returned = FALSE
  <2> DEFINE next == ver.i + 2
  <2>1. ver' = [ver EXCEPT !.i = next] /\ next \in Nat
    BY <1>1
  <2> HIDE DEF next
  <2>2. /\ ver' \in [fn : {"verify", "verifyDouble"}, test : Seq(Nat \cup {NaN}),
                     verify : Seq(Nat \cup {NaN}), i : Nat, returned : BOOLEAN, ret : Nat]
        /\ ver'.fn = ver.fn /\ ver'.test = ver.test /\ ver'.verify = ver.verify
        /\ ver'.i = next /\ ver'.returned = FALSE
    BY <2>1 DEF VerifyInv
  <2> QED BY <2>2 DEF next
<1>3. n' = n
  BY <1>2 DEF n
<1>4. ArgumentsOK' /\ FirstMismatch'
  BY <1>2, <1>3 DEF VerifyInv, ArgumentsOK, FirstMismatch
<1>5. ver.i + 2 <= (n \div 2) * 2 /\ (ver.i + 2) % 2 = 0
  <2>1. ver.i % 2 = 0
    BY DEF VerifyInv, LoopOK
  <2> QED BY <1>1, <2>1, NextPair
<1>6. \A j \in 1..(ver.i + 2) : j \in 1..ver.i \/ j = ver.i + 1 \/ j = ver.i + 2
  BY <1>1
<1>7. LoopOK'
  BY <1>1, <1>2, <1>3, <1>5, <1>6 DEF VerifyInv, LoopOK
<1> QED BY <1>2, <1>4, <1>7 DEF VerifyInv

(* The integer loop compares two elements and keeps the invariant.         *)
LEMMA VerifyStep ==
  ASSUME VerifyInv, verify
  PROVE  VerifyInv'
<1>1. n \in Nat /\ ver.i \in Nat /\ ver.i + 2 <= n
  <2>1. n \in Nat
    BY DEF VerifyInv, ArgumentsOK, n
  <2>2. ver.i \in Nat /\ ver.i % 2 = 0 /\ ver.i < (n \div 2) * 2
    BY DEF VerifyInv, LoopOK, verify
  <2> QED BY <2>1, <2>2, NextPair
<1>2. ASSUME NEW j \in 1..n
      PROVE  Same(ver.test[j], ver.verify[j]) <=> ver.test[j] = ver.verify[j]
  BY DEF VerifyInv, ArgumentsOK, verify, Same
<1>3. \A j \in 1..ver.i : Same(ver.test[j], ver.verify[j])
  BY DEF VerifyInv, LoopOK, verify
<1>4. CASE ver.test[ver.i + 1] # ver.verify[ver.i + 1]
  <2>1. Return(ver.i + 1) /\ ver.i + 1 \in 0..n /\ ver.i + 1 # 0
    BY <1>1, <1>4 DEF verify
  <2>2. ~Same(ver.test[ver.i + 1], ver.verify[ver.i + 1])
    BY <1>1, <1>2, <1>4
  <2>3. \A j \in 1..((ver.i + 1) - 1) : Same(ver.test[j], ver.verify[j])
    BY <1>1, <1>3
  <2> QED BY <2>1, <2>2, <2>3, Answers
<1>5. CASE ver.test[ver.i + 1] = ver.verify[ver.i + 1] /\ ver.test[ver.i + 2] # ver.verify[ver.i + 2]
  <2>1. Return(ver.i + 2) /\ ver.i + 2 \in 0..n /\ ver.i + 2 # 0
    BY <1>1, <1>5 DEF verify
  <2>2. /\ ~Same(ver.test[ver.i + 2], ver.verify[ver.i + 2])
        /\ Same(ver.test[ver.i + 1], ver.verify[ver.i + 1])
    BY <1>1, <1>2, <1>5
  <2>3. \A j \in 1..((ver.i + 2) - 1) : Same(ver.test[j], ver.verify[j])
    BY <1>1, <1>3, <2>2
  <2> QED BY <2>1, <2>2, <2>3, Answers
<1>6. CASE ver.test[ver.i + 1] = ver.verify[ver.i + 1] /\ ver.test[ver.i + 2] = ver.verify[ver.i + 2]
  <2>1. ver' = [ver EXCEPT !.i = @ + 2] /\ ~ver.returned /\ ver.i < (n \div 2) * 2
    BY <1>6 DEF verify
  <2>2. /\ Same(ver.test[ver.i + 1], ver.verify[ver.i + 1])
        /\ Same(ver.test[ver.i + 2], ver.verify[ver.i + 2])
    BY <1>1, <1>2, <1>6
  <2> QED BY <2>1, <2>2, GoesOn
<1> QED BY <1>4, <1>5, <1>6

(* So does the loop over doubles.                                          *)
LEMMA VerifyDoubleStep ==
  ASSUME VerifyInv, verifyDouble
  PROVE  VerifyInv'
<1> DEFINE eq1 == Same(ver.test[ver.i + 1], ver.verify[ver.i + 1])
           eq2 == Same(ver.test[ver.i + 2], ver.verify[ver.i + 2])
<1>1. n \in Nat /\ ver.i \in Nat /\ ver.i + 2 <= n
  <2>1. n \in Nat
    BY DEF VerifyInv, ArgumentsOK, n
  <2>2. ver.i \in Nat /\ ver.i % 2 = 0 /\ ver.i < (n \div 2) * 2
    BY DEF VerifyInv, LoopOK, verifyDouble
  <2> QED BY <2>1, <2>2, NextPair
<1>2. \A j \in 1..ver.i : Same(ver.test[j], ver.verify[j])
  BY DEF VerifyInv, LoopOK, verifyDouble
<1>3. CASE ~eq1
  <2>1. Return(ver.i + 1) /\ ver.i + 1 \in 0..n /\ ver.i + 1 # 0
    BY <1>1, <1>3 DEF verifyDouble
  <2>2. \A j \in 1..((ver.i + 1) - 1) : Same(ver.test[j], ver.verify[j])
    BY <1>1, <1>2
  <2> QED BY <1>3, <2>1, <2>2, Answers
<1>4. CASE eq1 /\ ~eq2
  <2>1. Return(ver.i + 2) /\ ver.i + 2 \in 0..n /\ ver.i + 2 # 0
    BY <1>1, <1>4 DEF verifyDouble
  <2>2. \A j \in 1..((ver.i + 2) - 1) : Same(ver.test[j], ver.verify[j])
    BY <1>1, <1>2, <1>4
  <2> QED BY <1>4, <2>1, <2>2, Answers
<1>5. CASE eq1 /\ eq2
  BY <1>5, GoesOn DEF verifyDouble
<1> QED BY <1>3, <1>4, <1>5

(* The odd element at the end is compared after the loop.                  *)
LEMMA LastElementStep ==
  ASSUME VerifyInv, LastElement
  PROVE  VerifyInv'
<1>1. n \in Nat /\ ver.i \in Nat /\ ver.i = (n \div 2) * 2
  BY DEF VerifyInv, ArgumentsOK, LoopOK, n, LastElement
<1>2. \A j \in 1..ver.i : Same(ver.test[j], ver.verify[j])
  BY DEF VerifyInv, LoopOK, LastElement
<1>3. (n % 2 = 0 => n = ver.i) /\ (n % 2 # 0 => n = ver.i + 1)
  BY <1>1
<1>4. CASE n % 2 # 0 /\ ~Same(ver.test[n], ver.verify[n])
  <2>1. Return(n) /\ n \in 0..n /\ n # 0
    BY <1>1, <1>3, <1>4 DEF LastElement
  <2>2. \A j \in 1..(n - 1) : Same(ver.test[j], ver.verify[j])
    BY <1>1, <1>2, <1>3, <1>4
  <2> QED BY <1>4, <2>1, <2>2, Answers
<1>5. CASE ~(n % 2 # 0 /\ ~Same(ver.test[n], ver.verify[n]))
  <2>1. Return(0) /\ 0 \in 0..n
    BY <1>1, <1>5 DEF LastElement
  <2>2. \A j \in 1..n : Same(ver.test[j], ver.verify[j])
    BY <1>1, <1>2, <1>3, <1>5
  <2> QED BY <2>1, <2>2, Answers
<1> QED BY <1>4, <1>5

(* For arrays of any length, with or without a NaN, both comparisons       *)
(* return the place of the first pair that differs, or 0.                  *)
THEOREM ComparisonsAreRight == VerifySpec => []FirstMismatch
<1>1. VerifyInit => VerifyInv
  <2> SUFFICES ASSUME VerifyInit
               PROVE  VerifyInv
    OBVIOUS
  <2>1. PICK x \in Vectors, fn \in {"verify", "verifyDouble"} :
          /\ fn = "verify" => \A j \in DOMAIN x.test : NaN \notin {x.test[j], x.verify[j]}
          /\ ver = [fn |-> fn, test |-> x.test, verify |-> x.verify, i |-> 0, returned |-> FALSE,
                    ret |-> 0]
    BY DEF VerifyInit
  <2>2. /\ x.test \in Seq(Nat \cup {NaN}) /\ x.verify \in Seq(Nat \cup {NaN})
        /\ Len(x.test) = Len(x.verify)
    BY VectorsAssumption
  <2>3. /\ ver.fn = fn /\ ver.test = x.test /\ ver.verify = x.verify /\ ver.i = 0
        /\ ver.returned = FALSE /\ n = Len(x.test)
    BY <2>1 DEF n
  <2>4. ArgumentsOK
    BY <2>1, <2>2, <2>3 DEF ArgumentsOK
  <2>5. LoopOK /\ FirstMismatch
    <3>1. n \in Nat
      BY <2>2, <2>3
    <3>2. 0 <= (n \div 2) * 2
      BY <3>1
    <3>3. 0 % 2 = 0
      BY SMT
    <3>4. 1..0 = {} /\ 0 \in Nat
      OBVIOUS
    <3>5. ver.i \in Nat /\ ver.i % 2 = 0 /\ ver.i <= (n \div 2) * 2 /\ 1..ver.i = {}
      <4>1. ver.i = 0
        BY <2>3
      <4> QED BY <4>1, <3>2, <3>3, <3>4, Zenon
    <3>6. LoopOK
      BY <2>3, <3>5 DEF LoopOK
    <3> QED BY <2>3, <3>6 DEF FirstMismatch
  <2> QED BY <2>1, <2>2, <2>4, <2>5 DEF VerifyInv
<1>2. VerifyInv /\ [VerifyNext]_ver => VerifyInv'
  <2>1. ASSUME VerifyInv, UNCHANGED ver
        PROVE  VerifyInv'
    BY <2>1 DEF VerifyInv, ArgumentsOK, LoopOK, FirstMismatch, n
  <2> QED BY <2>1, VerifyStep, VerifyDoubleStep, LastElementStep DEF VerifyNext
<1>3. VerifyInv => FirstMismatch
  BY DEF VerifyInv
<1> QED BY <1>1, <1>2, <1>3, PTL DEF VerifySpec

-----------------------------------------------------------------------------
(* The blocks of main.                                                     *)

(* How many of the algorithms in e have a number below a.                  *)
Before(e, a) ==
  (IF 1 \in e /\ 1 < a THEN 1 ELSE 0) + (IF 2 \in e /\ 2 < a THEN 1 ELSE 0)
    + (IF 3 \in e /\ 3 < a THEN 1 ELSE 0)

(* The number of selected algorithms, counted one by one.                  *)
LEMMA Number ==
  ASSUME NEW e \in SUBSET {1, 2, 3}
  PROVE  Cardinality(e) = Before(e, 4)
<1> DEFINE e1 == e \cap {1}  e2 == e \cap {1, 2}
<1>1. IsFiniteSet({}) /\ Cardinality({}) = 0
  BY FS_EmptySet
<1>2. IsFiniteSet(e1) /\ Cardinality(e1) = IF 1 \in e THEN 1 ELSE 0
  <2>1. CASE 1 \in e
    <3>1. e1 = {} \cup {1} /\ 1 \notin {}
      BY <2>1
    <3> HIDE DEF e1
    <3> QED BY <1>1, <2>1, <3>1, FS_AddElement
  <2>2. CASE 1 \notin e
    <3>1. e1 = {}
      BY <2>2
    <3> QED BY <1>1, <2>2, <3>1
  <2> QED BY <2>1, <2>2
<1>3. IsFiniteSet(e2) /\ Cardinality(e2) = Cardinality(e1) + IF 2 \in e THEN 1 ELSE 0
  <2>1. CASE 2 \in e
    <3>1. e2 = e1 \cup {2} /\ 2 \notin e1
      BY <2>1
    <3> HIDE DEF e1, e2
    <3> QED BY <1>2, <2>1, <3>1, FS_AddElement
  <2>2. CASE 2 \notin e
    <3>1. e2 = e1
      BY <2>2
    <3>2. Cardinality(e1) \in Nat
      BY <1>2
    <3> HIDE DEF e1, e2
    <3> QED BY <1>2, <2>2, <3>1, <3>2
  <2> QED BY <2>1, <2>2
<1>4. Cardinality(e) = Cardinality(e2) + IF 3 \in e THEN 1 ELSE 0
  <2>1. CASE 3 \in e
    <3>0. \A x \in e : x \in {1, 2} \/ x = 3
      OBVIOUS
    <3>1. e = e2 \cup {3} /\ 3 \notin e2
      <4>1. e \subseteq e2 \cup {3}
        BY <3>0
      <4>2. e2 \cup {3} \subseteq e
        BY <2>1
      <4>3. e = e2 \cup {3}
        BY <4>1, <4>2, Zenon
      <4>4. 3 \notin e2
        OBVIOUS
      <4> QED BY <4>3, <4>4
    <3> HIDE DEF e2
    <3> QED BY <1>3, <2>1, <3>1, FS_AddElement
  <2>2. CASE 3 \notin e
    <3>1. e = e2
      BY <2>2
    <3>2. Cardinality(e2) \in Nat
      BY <1>3, FS_CardinalityType
    <3> HIDE DEF e2
    <3> QED BY <2>2, <3>1, <3>2
  <2> QED BY <2>1, <2>2
<1> HIDE DEF e1, e2
<1> QED BY <1>2, <1>3, <1>4 DEF Before

(* Selected algorithms have places of their own, all of them below the     *)
(* number of the selected ones.                                            *)
LEMMA Places ==
  ASSUME NEW e \in SUBSET {1, 2, 3}, NEW a \in e
  PROVE  /\ Before(e, a) \in Nat /\ Before(e, a) + 1 <= Before(e, 4) /\ Before(e, 4) \in Nat
         /\ \A b \in e : a < b => Before(e, a) + 1 <= Before(e, b)
<1>1. a = 1 \/ a = 2 \/ a = 3
  OBVIOUS
<1>2. Before(e, a) \in Nat /\ Before(e, a) + 1 <= Before(e, 4) /\ Before(e, 4) \in Nat
  BY <1>1 DEF Before
<1>3. ASSUME NEW b \in e, a < b
      PROVE  Before(e, a) + 1 <= Before(e, b)
  <2>1. b = 1 \/ b = 2 \/ b = 3
    OBVIOUS
  <2> QED BY <1>1, <1>3, <2>1 DEF Before
<1> QED BY <1>2, <1>3

(* Multiples of a size, as far as they are needed.                         *)
LEMMA Monotone ==
  ASSUME NEW z \in Nat, NEW k \in Nat, NEW m \in Nat, k + 1 <= m
  PROVE  z * k \in Nat /\ z * m \in Nat /\ z * k + z <= z * m
<1>1. PICK d \in Nat : m = k + 1 + d
  BY m - (k + 1) \in Nat
<1>2. z * m = z * k + z + z * d
  BY <1>1
<1>3. z * d \in Nat /\ z * k \in Nat
  OBVIOUS
<1> QED BY <1>2, <1>3

(* Cutting a size into equal parts loses less than one part each.          *)
LEMMA CutSize ==
  ASSUME NEW size \in Nat, NEW number \in Nat, number > 0
  PROVE  (size \div number) \in Nat /\ (size \div number) * number <= size
  OBVIOUS

(* The layout does not change; the loops' counters have their range.       *)
MemOK ==
  /\ mem \in [in : Layouts, area : Seq(Int), size : Nat, i : 1..4, j : Nat,
              memblock : Seq(Seq(SUBSET Int))]
  /\ mem.in.execs # {}
  /\ mem.in.method = "MEM_STATIC" => mem.in.multithread = 1
  /\ Len(mem.area) <= mem.in.multithread

(* Areas have no byte in common: there is one, or each is free when it is  *)
(* got, or the stack is shared out by the contexts' numbers.               *)
AreasOK ==
  /\ mem.in.method = "MEM_STACK" =>
       \A c \in DOMAIN mem.area : mem.area[c] = (c - 1) * TOTAL_DATA_SIZE
  /\ \A c, d \in DOMAIN mem.area :
       c # d => Spans(mem.area[c], AreaSize) \cap Spans(mem.area[d], AreaSize) = {}

(* Before the cut the size is an area's, and nothing is assigned.          *)
UncutOK ==
  mem.memblock = << >> =>
    /\ mem.i = 1 /\ mem.j = 0
    /\ Len(mem.area) > 0 => mem.size = AreaSize

(* After it j counts the selected algorithms that have their blocks, and   *)
(* these are one behind the other from the start of the area.              *)
CutOK ==
  mem.memblock # << >> =>
    /\ Len(mem.area) = mem.in.multithread
    /\ mem.size = AreaSize \div num_algorithms
    /\ mem.j = Before(mem.in.execs, mem.i)
    /\ DOMAIN mem.memblock = DOMAIN mem.area
    /\ \A c \in DOMAIN mem.area :
         /\ Len(mem.memblock[c]) = mem.i - 1
         /\ \A a \in 1..(mem.i - 1) :
              mem.memblock[c][a] = IF a \in mem.in.execs
                                   THEN {mem.area[c] + mem.size * Before(mem.in.execs, a)} ELSE {}

MemInv == MemOK /\ AreasOK /\ UncutOK /\ CutOK

(* What the layout says of the sizes.                                      *)
LEMMA LayoutFacts ==
  ASSUME MemOK
  PROVE  /\ mem.in \in Layouts /\ mem.in.execs \in SUBSET {1, 2, 3} /\ TOTAL_DATA_SIZE \in Nat
         /\ AreaSize \in Nat /\ mem.in.multithread \in Nat
         /\ mem.in.method \in {"MEM_STATIC", "MEM_MALLOC", "MEM_STACK"}
         /\ mem.in.method # "MEM_MALLOC" => AreaSize = TOTAL_DATA_SIZE
         /\ num_algorithms = Before(mem.in.execs, 4) /\ num_algorithms \in Nat /\ num_algorithms > 0
<1>1. /\ mem.in \in Layouts
      /\ mem.in \in [method : {"MEM_STATIC", "MEM_MALLOC", "MEM_STACK"}, multithread : Nat,
                     execs : SUBSET {1, 2, 3}, override : Nat, total : Nat]
  BY LayoutsAssumption DEF MemOK
<1>2. /\ mem.in.execs \in SUBSET {1, 2, 3} /\ mem.in.total \in Nat /\ mem.in.override \in Nat
      /\ mem.in.multithread \in Nat /\ mem.in.method \in {"MEM_STATIC", "MEM_MALLOC", "MEM_STACK"}
  BY <1>1
<1>3. /\ TOTAL_DATA_SIZE \in Nat /\ AreaSize \in Nat
      /\ mem.in.method # "MEM_MALLOC" => AreaSize = TOTAL_DATA_SIZE
  BY <1>2 DEF TOTAL_DATA_SIZE, AreaSize
<1>4. num_algorithms = Before(mem.in.execs, 4)
  BY <1>2, Number DEF num_algorithms
<1>5. PICK a \in mem.in.execs : TRUE
  BY DEF MemOK
<1>6. num_algorithms \in Nat /\ num_algorithms > 0
  <2>1. /\ Before(mem.in.execs, a) \in Nat /\ Before(mem.in.execs, 4) \in Nat
        /\ Before(mem.in.execs, a) + 1 <= Before(mem.in.execs, 4)
    BY <1>2, Places
  <2> QED BY <1>4, <2>1
<1> QED BY <1>1, <1>2, <1>3, <1>4, <1>6

(* A block: it is within its area, and the next one begins behind it.      *)
LEMMA BlockPlaces ==
  ASSUME MemInv, mem.memblock # << >>
  PROVE  /\ mem.size \in Nat
         /\ \A a \in mem.in.execs :
              /\ mem.size * Before(mem.in.execs, a) \in Nat
              /\ mem.size * Before(mem.in.execs, a) + mem.size <= AreaSize
              /\ \A b \in mem.in.execs :
                   a < b => mem.size * Before(mem.in.execs, a) + mem.size
                              <= mem.size * Before(mem.in.execs, b)
<1> DEFINE e == mem.in.execs  z == mem.size  num == num_algorithms
<1>1. /\ e \in SUBSET {1, 2, 3} /\ AreaSize \in Nat /\ num = Before(e, 4) /\ num \in Nat /\ num > 0
  BY LayoutFacts DEF MemInv
<1>2. z = AreaSize \div num
  BY DEF MemInv, CutOK
<1>3. z \in Nat /\ z * num <= AreaSize
  BY <1>1, <1>2, CutSize
<1>4. ASSUME NEW a \in e
      PROVE  /\ z * Before(e, a) \in Nat /\ z * Before(e, a) + z <= AreaSize
             /\ \A b \in e : a < b => z * Before(e, a) + z <= z * Before(e, b)
  <2>1. /\ Before(e, a) \in Nat /\ Before(e, a) + 1 <= num
        /\ \A b \in e : a < b => Before(e, a) + 1 <= Before(e, b)
    BY <1>1, Places
  <2>2. \A b \in e : Before(e, b) \in Nat
    BY <1>1, Places
  <2>3. z * Before(e, a) \in Nat /\ z * num \in Nat /\ z * Before(e, a) + z <= z * num
    BY <1>1, <1>3, <2>1, Monotone
  <2>4. ASSUME NEW b \in e, a < b
        PROVE  z * Before(e, a) + z <= z * Before(e, b)
    <3>1. Before(e, a) + 1 <= Before(e, b)
      BY <2>1, <2>4
    <3> HIDE DEF e, z
    <3> QED BY <1>3, <2>1, <2>2, <3>1, Monotone
  <2>5. z * Before(e, a) + z <= AreaSize
    <3> HIDE DEF e, z, num
    <3> QED BY <1>1, <1>3, <2>3
  <2> QED BY <2>3, <2>4, <2>5
<1> QED BY <1>3, <1>4

(* The inductive invariant implies that blocks are apart.                  *)
LEMMA MemInvIsEnough ==
  ASSUME MemInv
  PROVE  BlocksApart
<1> DEFINE e == mem.in.execs  P(a) == mem.size * Before(e, a)
<1> SUFFICES ASSUME mem.memblock # << >>,
                    NEW c \in DOMAIN mem.memblock, NEW a \in DOMAIN mem.memblock[c],
                    NEW at \in mem.memblock[c][a]
             PROVE  /\ Spans(at, mem.size) \subseteq Spans(mem.area[c], AreaSize)
                    /\ \A d \in DOMAIN mem.memblock : \A b \in DOMAIN mem.memblock[d] :
                         \A other \in mem.memblock[d][b] :
                           <<c, a>> # <<d, b>> => Spans(at, mem.size) \cap Spans(other, mem.size) = {}
  BY DEF BlocksApart
<1>1. /\ mem.size \in Nat
      /\ \A k \in e : P(k) \in Nat /\ P(k) + mem.size <= AreaSize
      /\ \A k, m \in e : k < m => P(k) + mem.size <= P(m)
  BY BlockPlaces
<1>2. AreaSize \in Nat /\ e \in SUBSET {1, 2, 3}
  BY LayoutFacts DEF MemInv
<1>3. ASSUME NEW d \in DOMAIN mem.memblock, NEW b \in DOMAIN mem.memblock[d],
             NEW other \in mem.memblock[d][b]
      PROVE  /\ d \in DOMAIN mem.area /\ mem.area[d] \in Int
             /\ b \in e /\ other = mem.area[d] + P(b) /\ other \in Int
             /\ Spans(other, mem.size) \subseteq Spans(mem.area[d], AreaSize)
  <2>1. d \in DOMAIN mem.area /\ mem.area[d] \in Int
    BY DEF MemInv, MemOK, CutOK
  <2>2. b \in 1..(mem.i - 1)
    <3>1. mem.memblock[d] \in Seq(SUBSET Int) /\ Len(mem.memblock[d]) = mem.i - 1
      BY <2>1 DEF MemInv, MemOK, CutOK
    <3> QED BY <3>1
  <2>3. mem.memblock[d][b] = IF b \in e THEN {mem.area[d] + P(b)} ELSE {}
    BY <2>1, <2>2 DEF MemInv, CutOK
  <2>4. b \in e /\ other = mem.area[d] + P(b)
    BY <2>3
  <2>5. P(b) \in Nat /\ P(b) + mem.size <= AreaSize
    BY <1>1, <2>4
  <2> HIDE DEF P
  <2>6. other \in Int /\ Spans(other, mem.size) \subseteq Spans(mem.area[d], AreaSize)
    <3> DEFINE base == mem.area[d]  p == P(b)  size == mem.size
    <3>1. /\ base \in Int /\ size \in Nat /\ p \in Nat /\ AreaSize \in Nat
          /\ other = base + p /\ p + size <= AreaSize
      BY <1>1, <1>2, <2>1, <2>4, <2>5
    <3> HIDE DEF base, p, size
    <3>2. other \in Int /\ base <= other /\ other + size <= base + AreaSize
      BY <3>1
    <3>3. Spans(other, size) \subseteq Spans(base, AreaSize)
      BY <3>1, <3>2 DEF Spans
    <3> QED BY <3>2, <3>3 DEF base, size
  <2> QED BY <2>1, <2>4, <2>6
<1>4. ASSUME NEW d \in DOMAIN mem.memblock, NEW b \in DOMAIN mem.memblock[d],
             NEW other \in mem.memblock[d][b], <<c, a>> # <<d, b>>
      PROVE  Spans(at, mem.size) \cap Spans(other, mem.size) = {}
  <2>1. /\ c \in DOMAIN mem.area /\ mem.area[c] \in Int /\ a \in e /\ at = mem.area[c] + P(a)
        /\ Spans(at, mem.size) \subseteq Spans(mem.area[c], AreaSize)
    BY <1>3
  <2>2. /\ d \in DOMAIN mem.area /\ mem.area[d] \in Int /\ b \in e /\ other = mem.area[d] + P(b)
        /\ Spans(other, mem.size) \subseteq Spans(mem.area[d], AreaSize)
    BY <1>3
  <2>3. CASE c # d
    <3>1. Spans(mem.area[c], AreaSize) \cap Spans(mem.area[d], AreaSize) = {}
      BY <2>1, <2>2, <2>3 DEF MemInv, AreasOK
    <3> QED BY <2>1, <2>2, <3>1, Zenon
  <2>4. CASE c = d
    <3>1. a \in Int /\ b \in Int
      BY <1>2, <2>1, <2>2
    <3>2. a < b \/ b < a
      BY <1>4, <2>4, <3>1
    <3>3. P(a) \in Nat /\ P(b) \in Nat /\ (P(a) + mem.size <= P(b) \/ P(b) + mem.size <= P(a))
      BY <1>1, <2>1, <2>2, <3>2
    <3>4. at = mem.area[c] + P(a) /\ other = mem.area[c] + P(b) /\ mem.area[c] \in Int
      BY <2>1, <2>2, <2>4
    <3> HIDE DEF P
    <3>5. /\ at \in Int /\ other \in Int /\ mem.size \in Nat
          /\ at + mem.size <= other \/ other + mem.size <= at
      <4> DEFINE base == mem.area[c]  p == P(a)  q == P(b)  size == mem.size
      <4>1. /\ base \in Int /\ size \in Nat /\ p \in Nat /\ q \in Nat
            /\ at = base + p /\ other = base + q /\ (p + size <= q \/ q + size <= p)
        BY <1>1, <3>3, <3>4
      <4> HIDE DEF base, p, q, size
      <4>2. at \in Int /\ other \in Int /\ (at + size <= other \/ other + size <= at)
        BY <4>1
      <4> QED BY <4>1, <4>2 DEF size
    <3> QED BY <3>5 DEF Spans
  <2> QED BY <2>3, <2>4
<1> QED BY <1>3, <1>4

(* The inductive invariant holds initially.                                *)
LEMMA MemInitOK ==
  ASSUME MemInit
  PROVE  MemInv
<1>1. PICK x \in Layouts :
        /\ x.method = "MEM_STATIC" => x.multithread = 1
        /\ x.execs # {}
        /\ mem = [in |-> x, area |-> << >>, size |-> 0, i |-> 1, j |-> 0, memblock |-> << >>]
  BY DEF MemInit
<1>2. /\ mem.in = x /\ mem.area = << >> /\ mem.size = 0 /\ mem.i = 1 /\ mem.j = 0
      /\ mem.memblock = << >>
  BY <1>1
<1>3. x.multithread \in Nat
  BY LayoutsAssumption
<1>4. MemOK
  BY <1>1, <1>2, <1>3 DEF MemOK
<1> QED BY <1>2, <1>4 DEF MemInv, AreasOK, UncutOK, CutOK

(* A context gets an area of its own.                                      *)
LEMMA AssignAreaStep ==
  ASSUME MemInv, AssignArea
  PROVE  MemInv'
<1> DEFINE k == Len(mem.area) + 1
<1>1. /\ mem.in.execs \in SUBSET {1, 2, 3} /\ TOTAL_DATA_SIZE \in Nat /\ AreaSize \in Nat
      /\ mem.in.multithread \in Nat /\ mem.in.method \in {"MEM_STATIC", "MEM_MALLOC", "MEM_STACK"}
      /\ mem.in.method # "MEM_MALLOC" => AreaSize = TOTAL_DATA_SIZE
  BY LayoutFacts DEF MemInv
<1>2. PICK at : /\ at \in CASE mem.in.method = "MEM_STATIC" -> {0}
                           [] mem.in.method = "MEM_MALLOC" -> portable_malloc
                           [] mem.in.method = "MEM_STACK" -> {Len(mem.area) * TOTAL_DATA_SIZE}
                /\ mem' = [mem EXCEPT !.area = Append(@, at), !.size = AreaSize]
  BY Zenon DEF AssignArea
<1>3. /\ mem.in.method = "MEM_STATIC" => at = 0
      /\ mem.in.method = "MEM_MALLOC" => at \in portable_malloc
      /\ mem.in.method = "MEM_STACK" => at = Len(mem.area) * TOTAL_DATA_SIZE
  BY <1>2, Zenon
<1>4. mem.area \in Seq(Int) /\ Len(mem.area) \in Nat /\ DOMAIN mem.area = 1..Len(mem.area)
  BY DEF MemInv, MemOK
<1>5. at \in Int
  <2>1. CASE mem.in.method = "MEM_MALLOC"
    <3>1. at \in {0, 5 * TOTAL_DATA_SIZE} \cup {mem.area[c] + AreaSize : c \in DOMAIN mem.area}
      BY <1>3, <2>1 DEF portable_malloc
    <3>2. \A c \in DOMAIN mem.area : mem.area[c] \in Int
      BY <1>4
    <3> QED BY <1>1, <3>1, <3>2
  <2> QED BY <1>1, <1>3, <1>4, <2>1
<1>6. Len(mem.area) < mem.in.multithread /\ mem.memblock = << >>
  BY <1>1, <1>4 DEF MemInv, CutOK, AssignArea
<1>7. /\ mem' \in [in : Layouts, area : Seq(Int), size : Nat, i : 1..4, j : Nat,
                   memblock : Seq(Seq(SUBSET Int))]
      /\ mem'.in = mem.in /\ mem'.area = Append(mem.area, at) /\ mem'.size = AreaSize
      /\ mem'.i = mem.i /\ mem'.j = mem.j /\ mem'.memblock = mem.memblock
  <2>1. Append(mem.area, at) \in Seq(Int)
    BY <1>4, <1>5
  <2>2. mem' = [mem EXCEPT !.area = Append(mem.area, at), !.size = AreaSize]
    BY <1>2, Zenon
  <2> QED BY <1>1, <2>1, <2>2 DEF MemInv, MemOK
<1>8. /\ Len(mem'.area) = k /\ DOMAIN mem'.area = 1..k /\ mem'.area[k] = at
      /\ \A c \in DOMAIN mem.area : mem'.area[c] = mem.area[c]
      /\ \A c \in DOMAIN mem'.area : c \in DOMAIN mem.area \/ c = k
  BY <1>4, <1>5, <1>7
<1>9. TOTAL_DATA_SIZE' = TOTAL_DATA_SIZE /\ AreaSize' = AreaSize
  BY <1>7 DEF TOTAL_DATA_SIZE, AreaSize
<1>10. MemOK'
  BY <1>1, <1>4, <1>6, <1>7, <1>8 DEF MemInv, MemOK
<1>11. mem.in.method = "MEM_STACK" =>
         \A c \in DOMAIN mem'.area : mem'.area[c] = (c - 1) * TOTAL_DATA_SIZE
  <2> SUFFICES ASSUME mem.in.method = "MEM_STACK", NEW c \in DOMAIN mem'.area
               PROVE  mem'.area[c] = (c - 1) * TOTAL_DATA_SIZE
    OBVIOUS
  <2>1. CASE c \in DOMAIN mem.area
    BY <1>8, <2>1 DEF MemInv, AreasOK
  <2>2. CASE c = k
    <3>1. k - 1 = Len(mem.area)
      BY <1>4
    <3> QED BY <1>3, <1>8, <2>2, <3>1
  <2> QED BY <1>8, <2>1, <2>2
<1>12. ASSUME NEW c \in DOMAIN mem.area
       PROVE  Spans(at, AreaSize) \cap Spans(mem.area[c], AreaSize) = {}
  <2>1. CASE mem.in.method = "MEM_STATIC"
    <3>1. Len(mem.area) = 0
      BY <1>4, <1>6, <2>1 DEF MemInv, MemOK
    <3> QED BY <1>4, <3>1
  <2>2. CASE mem.in.method = "MEM_MALLOC"
    BY <1>3, <2>2 DEF portable_malloc
  <2>3. CASE mem.in.method = "MEM_STACK"
    <3>1. mem.area[c] = (c - 1) * TOTAL_DATA_SIZE
      BY <2>3 DEF MemInv, AreasOK
    <3>2. c - 1 \in Nat /\ (c - 1) + 1 <= Len(mem.area)
      BY <1>4
    <3>3. /\ TOTAL_DATA_SIZE * (c - 1) \in Nat
          /\ TOTAL_DATA_SIZE * (c - 1) + TOTAL_DATA_SIZE <= TOTAL_DATA_SIZE * Len(mem.area)
      BY <1>1, <1>4, <3>2, Monotone
    <3>4. mem.area[c] \in Int /\ mem.area[c] + AreaSize <= at
      BY <1>1, <1>3, <1>4, <2>3, <3>1, <3>2, <3>3
    <3> QED BY <1>1, <1>5, <3>4 DEF Spans
  <2> QED BY <1>1, <2>1, <2>2, <2>3
<1>13. ASSUME NEW c \in DOMAIN mem'.area, NEW d \in DOMAIN mem'.area, c # d
       PROVE  Spans(mem'.area[c], AreaSize) \cap Spans(mem'.area[d], AreaSize) = {}
  <2>1. CASE c \in DOMAIN mem.area /\ d \in DOMAIN mem.area
    BY <1>8, <1>13, <2>1 DEF MemInv, AreasOK
  <2>2. CASE c \in DOMAIN mem.area /\ d = k
    <3>1. Spans(at, AreaSize) \cap Spans(mem.area[c], AreaSize) = {}
      BY <1>12, <2>2
    <3> QED BY <1>8, <2>2, <3>1
  <2>3. CASE c = k /\ d \in DOMAIN mem.area
    <3>1. Spans(at, AreaSize) \cap Spans(mem.area[d], AreaSize) = {}
      BY <1>12, <2>3
    <3> QED BY <1>8, <2>3, <3>1
  <2> QED BY <1>8, <1>13, <2>1, <2>2, <2>3
<1>14. AreasOK'
  BY <1>7, <1>9, <1>11, <1>13 DEF AreasOK
<1>15. UncutOK' /\ CutOK'
  BY <1>6, <1>7, <1>9 DEF MemInv, UncutOK, CutOK
<1> QED BY <1>10, <1>14, <1>15 DEF MemInv

(* The areas are cut into one block for each selected algorithm.           *)
LEMMA CutAreasStep ==
  ASSUME MemInv, CutAreas
  PROVE  MemInv'
<1> DEFINE cut == [c \in DOMAIN mem.area |-> << >>]
<1>1. /\ AreaSize \in Nat /\ num_algorithms \in Nat /\ num_algorithms > 0
      /\ mem.in.execs \in SUBSET {1, 2, 3}
  BY LayoutFacts DEF MemInv
<1>2. mem.area \in Seq(Int) /\ Len(mem.area) \in Nat /\ DOMAIN mem.area = 1..Len(mem.area)
  BY DEF MemInv, MemOK
<1>3. mem.memblock = << >> /\ mem.i = 1 /\ mem.j = 0 /\ Len(mem.area) = mem.in.multithread
  BY DEF CutAreas
<1>4. cut \in Seq(Seq(SUBSET Int)) /\ DOMAIN cut = DOMAIN mem.area
  BY <1>2
<1>5. (mem.size \div num_algorithms) \in Nat
  BY <1>1, CutSize DEF MemInv, MemOK
<1>6. /\ mem' \in [in : Layouts, area : Seq(Int), size : Nat, i : 1..4, j : Nat,
                   memblock : Seq(Seq(SUBSET Int))]
      /\ mem'.in = mem.in /\ mem'.area = mem.area /\ mem'.size = mem.size \div num_algorithms
      /\ mem'.i = mem.i /\ mem'.j = mem.j /\ mem'.memblock = cut
  <2> HIDE DEF cut
  <2>1. mem' = [mem EXCEPT !.size = @ \div num_algorithms, !.memblock = cut]
    BY DEF CutAreas, cut
  <2> QED BY <1>4, <1>5, <2>1 DEF MemInv, MemOK
<1>7. /\ TOTAL_DATA_SIZE' = TOTAL_DATA_SIZE /\ AreaSize' = AreaSize
      /\ num_algorithms' = num_algorithms
  BY <1>6 DEF TOTAL_DATA_SIZE, AreaSize, num_algorithms
<1>8. MemOK' /\ AreasOK'
  BY <1>6, <1>7 DEF MemInv, MemOK, AreasOK
<1>9. UncutOK'
  <2>1. cut = << >> => Len(mem.area) = 0
    <3> HIDE DEF cut
    <3>1. DOMAIN << >> = {}
      OBVIOUS
    <3>2. cut = << >> => DOMAIN mem.area = {}
      BY <1>4, <3>1, Zenon
    <3>3. Len(mem.area) # 0 => 1 \in DOMAIN mem.area
      BY <1>2
    <3> QED BY <3>2, <3>3
  <2> HIDE DEF cut
  <2> QED BY <1>2, <1>3, <1>6, <2>1 DEF UncutOK
<1>10. CutOK'
  <2>1. ASSUME cut # << >>
        PROVE  mem.size = AreaSize
    <3>1. Len(mem.area) # 0
      <4>1. ASSUME Len(mem.area) = 0
            PROVE  FALSE
        <5>1. DOMAIN mem.area = {}
          BY <1>2, <4>1
        <5> QED BY <2>1, <5>1
      <4> QED BY <4>1
    <3> QED BY <1>2, <1>3, <3>1 DEF MemInv, UncutOK
  <2>2. Before(mem.in.execs, 1) = 0
    BY <1>1 DEF Before
  <2>3. \A c \in DOMAIN mem.area : Len(cut[c]) = 0
    OBVIOUS
  <2>4. 1 - 1 = 0 /\ 1..0 = {}
    OBVIOUS
  <2> HIDE DEF cut
  <2> QED BY <1>3, <1>4, <1>6, <1>7, <2>1, <2>2, <2>3, <2>4 DEF CutOK
<1> QED BY <1>8, <1>9, <1>10 DEF MemInv

(* The blocks of a context follow each other within its area.              *)
LEMMA AssignPointersStep ==
  ASSUME MemInv, AssignPointers
  PROVE  MemInv'
<1> DEFINE e == mem.in.execs
           block(c) == IF mem.i \in e THEN {mem.area[c] + mem.size * mem.j} ELSE {}
           blocks == [c \in DOMAIN mem.area |-> Append(mem.memblock[c], block(c))]
<1>1. e \in SUBSET {1, 2, 3}
  BY LayoutFacts DEF MemInv
<1>2. mem.area \in Seq(Int) /\ Len(mem.area) \in Nat /\ DOMAIN mem.area = 1..Len(mem.area)
  BY DEF MemInv, MemOK
<1>3. mem.memblock # << >> /\ mem.i \in 1..3 /\ mem.i + 1 \in 1..4
  BY DEF MemInv, MemOK, AssignPointers
<1>4. /\ DOMAIN mem.memblock = DOMAIN mem.area /\ mem.j = Before(e, mem.i)
      /\ Len(mem.area) = mem.in.multithread /\ mem.size = AreaSize \div num_algorithms
      /\ \A c \in DOMAIN mem.area :
           /\ Len(mem.memblock[c]) = mem.i - 1
           /\ \A a \in 1..(mem.i - 1) :
                mem.memblock[c][a] = IF a \in e THEN {mem.area[c] + mem.size * Before(e, a)} ELSE {}
  BY <1>3 DEF MemInv, CutOK
<1>5. mem.size \in Nat /\ mem.j \in Nat
  BY DEF MemInv, MemOK
<1>6. ASSUME NEW c \in DOMAIN mem.area
      PROVE  mem.memblock[c] \in Seq(SUBSET Int) /\ block(c) \in SUBSET Int /\ mem.area[c] \in Int
  <2>1. mem.memblock[c] \in Seq(SUBSET Int) /\ mem.area[c] \in Int
    BY <1>2, <1>4 DEF MemInv, MemOK
  <2>2. mem.size * mem.j \in Int
    BY <1>5
  <2>3. mem.area[c] + mem.size * mem.j \in Int
    BY <2>1, <2>2
  <2> QED BY <2>1, <2>3
<1>7. blocks \in Seq(Seq(SUBSET Int)) /\ DOMAIN blocks = DOMAIN mem.area
  <2> HIDE DEF block
  <2>1. \A c \in DOMAIN mem.area : Append(mem.memblock[c], block(c)) \in Seq(SUBSET Int)
    BY <1>6
  <2> QED BY <1>2, <2>1
<1>8. /\ mem' \in [in : Layouts, area : Seq(Int), size : Nat, i : 1..4, j : Nat,
                   memblock : Seq(Seq(SUBSET Int))]
      /\ mem'.in = mem.in /\ mem'.area = mem.area /\ mem'.size = mem.size /\ mem'.i = mem.i + 1
      /\ mem'.j = (IF mem.i \in e THEN mem.j + 1 ELSE mem.j) /\ mem'.memblock = blocks
  <2> DEFINE next == IF mem.i \in e THEN mem.j + 1 ELSE mem.j
  <2>1. mem' = [mem EXCEPT !.i = mem.i + 1, !.j = next, !.memblock = blocks]
    BY DEF AssignPointers
  <2>2. next \in Nat
    BY <1>5
  <2> HIDE DEF blocks, next
  <2>3. /\ mem' \in [in : Layouts, area : Seq(Int), size : Nat, i : 1..4, j : Nat,
                     memblock : Seq(Seq(SUBSET Int))]
        /\ mem'.in = mem.in /\ mem'.area = mem.area /\ mem'.size = mem.size
        /\ mem'.i = mem.i + 1 /\ mem'.j = next /\ mem'.memblock = blocks
    BY <1>3, <1>7, <2>1, <2>2 DEF MemInv, MemOK
  <2> QED BY <2>3 DEF next
<1>9. /\ TOTAL_DATA_SIZE' = TOTAL_DATA_SIZE /\ AreaSize' = AreaSize
      /\ num_algorithms' = num_algorithms
  BY <1>8 DEF TOTAL_DATA_SIZE, AreaSize, num_algorithms
<1>10. MemOK' /\ AreasOK'
  BY <1>8, <1>9 DEF MemInv, MemOK, AreasOK
<1>11. blocks # << >>
  <2>1. PICK c \in DOMAIN mem.area : TRUE
    <3>1. DOMAIN mem.memblock # {}
      <4>1. mem.memblock \in Seq(Seq(SUBSET Int))
        BY DEF MemInv, MemOK
      <4>2. Len(mem.memblock) \in Nat \ {0}
        BY <1>3, <4>1, EmptySeq
      <4>3. 1 \in DOMAIN mem.memblock
        BY <4>1, <4>2
      <4> QED BY <4>3
    <3> QED BY <1>4, <3>1
  <2> HIDE DEF blocks
  <2>2. DOMAIN << >> = {}
    OBVIOUS
  <2> QED BY <1>7, <2>1, <2>2, Zenon
<1>12. UncutOK'
  BY <1>8, <1>11 DEF UncutOK
<1>13. Before(e, mem.i + 1) = IF mem.i \in e THEN mem.j + 1 ELSE mem.j
  <2>1. mem.i = 1 \/ mem.i = 2 \/ mem.i = 3
    BY <1>3
  <2> QED BY <1>1, <1>4, <2>1 DEF Before
<1>14. ASSUME NEW c \in DOMAIN mem.area
       PROVE  /\ Len(blocks[c]) = (mem.i + 1) - 1
              /\ \A a \in 1..((mem.i + 1) - 1) :
                   blocks[c][a] = IF a \in e THEN {mem.area[c] + mem.size * Before(e, a)} ELSE {}
  <2> DEFINE old == mem.memblock[c]
  <2>1. blocks[c] = Append(old, block(c))
    OBVIOUS
  <2>2. old \in Seq(SUBSET Int) /\ Len(old) = mem.i - 1 /\ block(c) \in SUBSET Int
    BY <1>4, <1>6
  <2>3. \A a \in 1..(mem.i - 1) :
          old[a] = IF a \in e THEN {mem.area[c] + mem.size * Before(e, a)} ELSE {}
    BY <1>4
  <2>4. block(c) = IF mem.i \in e THEN {mem.area[c] + mem.size * Before(e, mem.i)} ELSE {}
    BY <1>4
  <2> HIDE DEF blocks, block, old
  <2>5. /\ Len(Append(old, block(c))) = mem.i /\ Append(old, block(c))[mem.i] = block(c)
        /\ \A a \in 1..(mem.i - 1) : Append(old, block(c))[a] = old[a]
    BY <1>3, <2>2
  <2>6. (mem.i + 1) - 1 = mem.i /\ \A a \in 1..mem.i : a \in 1..(mem.i - 1) \/ a = mem.i
    BY <1>3
  <2> QED BY <2>1, <2>3, <2>4, <2>5, <2>6, Zenon
<1>15. CutOK'
  <2> HIDE DEF blocks
  <2>1. /\ Len(mem'.area) = mem'.in.multithread /\ mem'.size = AreaSize' \div num_algorithms'
        /\ mem'.j = Before(mem'.in.execs, mem'.i) /\ DOMAIN mem'.memblock = DOMAIN mem'.area
    BY <1>4, <1>7, <1>8, <1>9, <1>13
  <2>2. \A c \in DOMAIN mem'.area :
          /\ Len(mem'.memblock[c]) = mem'.i - 1
          /\ \A a \in 1..(mem'.i - 1) :
               mem'.memblock[c][a] = IF a \in mem'.in.execs
                                     THEN {mem'.area[c] + mem'.size * Before(mem'.in.execs, a)} ELSE {}
    BY <1>8, <1>14, Zenon
  <2> QED BY <2>1, <2>2 DEF CutOK
<1> QED BY <1>10, <1>12, <1>15 DEF MemInv

(* However many contexts there are, of whatever size, static, on the heap  *)
(* or on the stack, and whichever algorithms are selected: no byte is in   *)
(* two blocks, and no block leaves its context's area.                     *)
THEOREM BlocksAreApart == MemSpec => []BlocksApart
<1>1. MemInit => MemInv
  BY MemInitOK
<1>2. MemInv /\ [MemNext]_mem => MemInv'
  <2>1. ASSUME MemInv, UNCHANGED mem
        PROVE  MemInv'
    BY <2>1 DEF MemInv, MemOK, AreasOK, UncutOK, CutOK, AreaSize, TOTAL_DATA_SIZE, num_algorithms
  <2> QED BY <2>1, AssignAreaStep, CutAreasStep, AssignPointersStep DEF MemNext
<1>3. MemInv => BlocksApart
  BY MemInvIsEnough
<1> QED BY <1>1, <1>2, <1>3, PTL DEF MemSpec

-----------------------------------------------------------------------------
(* comp3.                                                                  *)

(* A set of natural numbers that is not empty has a least one.             *)
LEMMA LeastOf ==
  ASSUME NEW S \in SUBSET Nat, S # {}
  PROVE  \E i \in S : \A j \in S : i <= j
<1> DEFINE R == {p \in Nat \X Nat : p[1] < p[2]}
<1>1. OpToRel(<, Nat) = R
  BY Zenon DEF OpToRel
<1>2. IsWellFoundedOn(R, Nat)
  BY <1>1, NatLessThanWellFounded, Zenon
<1> HIDE DEF R
<1>3. PICK i \in S : \A j \in S : ~(<<j, i>> \in R)
  BY <1>2, WFMin, Zenon
<1>4. \A j \in S : ~(j < i)
  BY <1>3 DEF R
<1> QED BY <1>4

(* What bswap's definition says of its first k bytes.                      *)
Decoding(f, bytes, k) ==
  f = [m \in 0..k |-> IF m = 0 THEN 0 ELSE 256 * f[m - 1] + bytes[m]]

(* Some function decodes the bytes.                                        *)
LEMMA DecodingExists ==
  ASSUME NEW bytes \in Seq(Byte)
  PROVE  \A k \in 0..Len(bytes) : \E f : Decoding(f, bytes, k)
<1> DEFINE Bad == {k \in 0..Len(bytes) : ~(\E f : Decoding(f, bytes, k))}
<1> SUFFICES ASSUME Bad # {}
             PROVE  FALSE
  OBVIOUS
<1>1. Bad \in SUBSET Nat
  OBVIOUS
<1>2. PICK k \in Bad : \A j \in Bad : k <= j
  BY <1>1, LeastOf
<1>3. k \in 0..Len(bytes) /\ Len(bytes) \in Nat
  BY <1>2
<1>4. CASE k = 0
  <2>1. Decoding([m \in 0..0 |-> 0], bytes, 0)
    BY DEF Decoding
  <2> QED BY <1>2, <1>4, <2>1
<1>5. CASE k > 0
  <2>1. k - 1 \in 0..Len(bytes) /\ k - 1 \notin Bad
    BY <1>2, <1>3, <1>5
  <2>2. PICK f : Decoding(f, bytes, k - 1)
    BY <2>1
  <2> DEFINE g == [m \in 0..k |-> IF m = 0 THEN 0 ELSE 256 * f[m - 1] + bytes[m]]
  <2>3. \A m \in 0..(k - 1) : g[m] = f[m]
    BY <1>3, <2>2 DEF Decoding
  <2>4. \A m \in 0..k : m # 0 => m - 1 \in 0..(k - 1)
    BY <1>3
  <2>5. \A m \in 0..k : m # 0 => g[m - 1] = f[m - 1]
    BY <2>3, <2>4
  <2>6. g = [m \in 0..k |-> IF m = 0 THEN 0 ELSE 256 * g[m - 1] + bytes[m]]
    BY <2>5, Zenon
  <2> QED BY <1>2, <2>6 DEF Decoding
<1> QED BY <1>3, <1>4, <1>5

(* It yields natural numbers.                                              *)
LEMMA DecodingIsNat ==
  ASSUME NEW bytes \in Seq(Byte), NEW f, Decoding(f, bytes, Len(bytes))
  PROVE  \A k \in 0..Len(bytes) : f[k] \in Nat
<1> DEFINE Bad == {k \in 0..Len(bytes) : f[k] \notin Nat}
<1> SUFFICES ASSUME Bad # {}
             PROVE  FALSE
  OBVIOUS
<1>1. Bad \in SUBSET Nat
  OBVIOUS
<1>2. PICK k \in Bad : \A j \in Bad : k <= j
  BY <1>1, LeastOf
<1>3. k \in 0..Len(bytes) /\ f[k] \notin Nat /\ Len(bytes) \in Nat
  BY <1>2
<1>4. f[k] = IF k = 0 THEN 0 ELSE 256 * f[k - 1] + bytes[k]
  BY <1>3 DEF Decoding
<1>5. k # 0
  BY <1>3, <1>4
<1>6. k - 1 \in 0..Len(bytes) /\ f[k - 1] \in Nat
  BY <1>2, <1>3, <1>5
<1>7. bytes[k] \in Nat
  <2>1. k \in 1..Len(bytes)
    BY <1>3, <1>5
  <2>2. bytes[k] \in Byte
    BY <2>1
  <2>3. \A x \in Byte : x \in Nat
    BY DEF Byte
  <2> QED BY <2>2, <2>3
<1>8. ASSUME NEW x \in Nat, NEW y \in Nat
      PROVE  256 * x + y \in Nat
  OBVIOUS
<1> QED BY <1>3, <1>4, <1>5, <1>6, <1>7, <1>8

(* A field of any number of bytes is a natural number.                     *)
LEMMA FieldValue ==
  ASSUME NEW bytes \in Seq(Byte)
  PROVE  bswap(bytes) \in Nat
<1> DEFINE value == CHOOSE f : f = [m \in 0..Len(bytes) |-> IF m = 0 THEN 0 ELSE 256 * f[m - 1] + bytes[m]]
<1>1. Len(bytes) \in 0..Len(bytes)
  OBVIOUS
<1>2. \E f : f = [m \in 0..Len(bytes) |-> IF m = 0 THEN 0 ELSE 256 * f[m - 1] + bytes[m]]
  BY <1>1, DecodingExists DEF Decoding
<1>3. value = [m \in 0..Len(bytes) |-> IF m = 0 THEN 0 ELSE 256 * value[m - 1] + bytes[m]]
  BY <1>2, Zenon
<1>4. bswap(bytes) = value[Len(bytes)]
  BY DEF bswap
<1> HIDE DEF value
<1>5. Decoding(value, bytes, Len(bytes))
  BY <1>3 DEF Decoding
<1> QED BY <1>1, <1>4, <1>5, DecodingIsNat

(* The fields of a notification.                                           *)
LEMMA Fields ==
  ASSUME NEW trade \in Messages
  PROVE  /\ bswap(trade.message_id) \in Nat /\ bswap(trade.price) \in Nat /\ bswap(trade.strike) \in Nat
         /\ bswap(trade.contracts) \in Nat /\ bswap(trade.expiration) \in Nat
<1>1. [1..4 -> Byte] \subseteq Seq(Byte) /\ [1..2 -> Byte] \subseteq Seq(Byte)
  BY SeqDef
<1>2. trade \in exec_notification
  BY Comp3Assumption
<1>3. /\ trade.message_id \in Seq(Byte) /\ trade.price \in Seq(Byte) /\ trade.strike \in Seq(Byte)
      /\ trade.contracts \in Seq(Byte) /\ trade.expiration \in Seq(Byte)
  BY <1>1, <1>2 DEF exec_notification
<1> QED BY <1>3, FieldValue

(* A notification within the distance of the comments is judged no risk;   *)
(* one beyond it is judged a risk, for makers too, unless it is so far off *)
(* that its risk may leave the range of int.                               *)
LEMMA RiskAndDistance ==
  ASSUME NEW trade \in Messages
  PROVE  /\ Safe(trade) => Uhoh(trade) = {FALSE}
         /\ ~Safe(trade) /\ Distance(trade) < IN_RANGE => Uhoh(trade) = {TRUE}
<1>1. PICK d \in Int : d = bswap(trade.price) - bswap(trade.strike)
  BY Fields
<1>2. PICK far \in Nat : far = Distance(trade) /\ far = Abs(d)
  BY <1>1 DEF Distance, Abs
<1>3. PICK w \in {4, 8} : w = Weight(trade) /\ (w = 8 <=> bswap(trade.expiration) > 10)
  BY DEF Weight
<1>4. Safe(trade) <=> IF w = 8 THEN far <= 12 ELSE far <= 25
  BY <1>2, <1>3 DEF Safe
<1>5. ASSUME far < IN_RANGE
      PROVE  /\ Vol(trade) = far
             /\ far <= INT_MAX \div w
             /\ Risk(trade) > RISK_THRESHOLD <=> ~Safe(trade)
  <2>1. Vol(trade) = far
    BY <1>1, <1>2, <1>5 DEF Vol, ToInt, Abs, INT_MAX, IN_RANGE
  <2>2. far <= INT_MAX \div w
    BY <1>5, <1>3 DEF INT_MAX, IN_RANGE
  <2>3. PICK rebate \in {0, 2} : Risk(trade) = far * w - rebate
    BY <2>1, <1>3 DEF Risk
  <2>4. ASSUME w = 8
        PROVE  Risk(trade) > RISK_THRESHOLD <=> ~Safe(trade)
    <3>1. Safe(trade) <=> far <= 12
      BY <1>4, <2>4
    <3>2. far * 8 - rebate > 100 <=> ~(far <= 12)
      OBVIOUS
    <3> QED BY <2>3, <2>4, <3>1, <3>2 DEF RISK_THRESHOLD
  <2>5. ASSUME w = 4
        PROVE  Risk(trade) > RISK_THRESHOLD <=> ~Safe(trade)
    <3>1. Safe(trade) <=> far <= 25
      BY <1>4, <2>5
    <3>2. far * 4 - rebate > 100 <=> ~(far <= 25)
      OBVIOUS
    <3> QED BY <2>3, <2>5, <3>1, <3>2 DEF RISK_THRESHOLD
  <2> QED BY <2>1, <2>2, <2>4, <2>5
<1>6. far < IN_RANGE => Uhoh(trade) = {~Safe(trade)}
  <2> SUFFICES ASSUME far < IN_RANGE
               PROVE  Uhoh(trade) = {~Safe(trade)}
    OBVIOUS
  <2>1. Vol(trade) <= INT_MAX \div Weight(trade)
    BY <1>3, <1>5
  <2>2. Uhoh(trade) = {Risk(trade) > RISK_THRESHOLD}
    BY <2>1, Zenon DEF Uhoh
  <2>3. (Risk(trade) > RISK_THRESHOLD) = ~Safe(trade)
    BY <1>5
  <2> QED BY <2>2, <2>3
<1>7. Safe(trade) => far < IN_RANGE
  BY <1>4 DEF IN_RANGE
<1> QED BY <1>2, <1>6, <1>7

(* The globals of comp3 and the locals of its main.                        *)
Comp3Type ==
  [turn : Nat, message_start : Nat, status : {"FEFEFEFE", "00BADBAD", "600D600D"},
   old_message_id : Nat, contracts_processed : Nat, puts_count : Int, calls_count : Int,
   accepted : Seq(Messages)]

Id(trade) == bswap(trade.message_id)

(* The ids that were accepted increase, up to the old message's; a bad     *)
(* status has its reason, and one that is far enough, but not too far, is  *)
(* enough of a reason.                                                     *)
JudgedSoFar(accepted, old_message_id, status) ==
  /\ \A i \in 1..Len(accepted) : Id(accepted[i]) <= old_message_id
  /\ \A i, j \in 1..Len(accepted) : i < j => Id(accepted[i]) < Id(accepted[j])
  /\ status = "00BADBAD" => \E i \in 1..Len(accepted) : ~Safe(accepted[i])
  /\ \A i \in 1..Len(accepted) :
       ~Safe(accepted[i]) /\ Distance(accepted[i]) < IN_RANGE => status = "00BADBAD"

Comp3Inv == c3 \in Comp3Type /\ JudgedSoFar(c3.accepted, c3.old_message_id, c3.status)

(* One more notification is taken.                                         *)
LEMMA JudgedNext ==
  ASSUME NEW accepted \in Seq(Messages), NEW old \in Nat, NEW status, JudgedSoFar(accepted, old, status),
         NEW trade \in Messages, Id(trade) > old, NEW ret_val \in Uhoh(trade)
  PROVE  JudgedSoFar(Append(accepted, trade), Id(trade), IF ret_val THEN "00BADBAD" ELSE status)
<1> DEFINE st == IF ret_val THEN "00BADBAD" ELSE status
           k == Len(accepted)
           q == Append(accepted, trade)
<1>1. /\ k \in Nat /\ Len(q) = k + 1 /\ q[k + 1] = trade
      /\ \A i \in 1..k : q[i] = accepted[i] /\ accepted[i] \in Messages
  OBVIOUS
<1>2. \A m \in Messages : Id(m) \in Nat
  BY Fields DEF Id
<1> HIDE DEF q
<1>3. 1..(k + 1) = 1..k \cup {k + 1}
  BY <1>1
<1>4. \A i \in 1..k : Id(q[i]) \in Nat /\ Id(q[i]) <= old
  BY <1>1, <1>2 DEF JudgedSoFar
<1>5. \A i \in 1..(k + 1) : Id(q[i]) <= Id(trade)
  <2>1. \A i \in 1..k : Id(q[i]) <= Id(trade)
    BY <1>2, <1>4
  <2>2. Id(trade) <= Id(trade)
    BY <1>2
  <2> QED BY <1>1, <1>3, <2>1, <2>2
<1>6. ASSUME NEW i \in 1..(k + 1), NEW j \in 1..(k + 1), i < j
      PROVE  Id(q[i]) < Id(q[j])
  <2>1. i \in 1..k
    BY <1>1, <1>6
  <2>2. CASE j = k + 1
    <3>1. Id(q[i]) \in Nat /\ Id(q[i]) <= old /\ q[j] = trade
      BY <1>1, <1>4, <2>1, <2>2
    <3> QED BY <1>2, <3>1
  <2>3. CASE j \in 1..k
    BY <1>1, <1>6, <2>1, <2>3 DEF JudgedSoFar
  <2> QED BY <1>3, <2>2, <2>3
<1>7. st = "00BADBAD" => \E i \in 1..(k + 1) : ~Safe(q[i])
  <2> SUFFICES ASSUME st = "00BADBAD"
               PROVE  \E i \in 1..(k + 1) : ~Safe(q[i])
    OBVIOUS
  <2>1. CASE Safe(trade)
    <3>1. ret_val = FALSE
      BY <2>1, RiskAndDistance
    <3>2. PICK i \in 1..k : ~Safe(accepted[i])
      BY <3>1 DEF JudgedSoFar
    <3>3. i \in 1..(k + 1) /\ q[i] = accepted[i]
      BY <1>1, <1>3
    <3> QED BY <3>2, <3>3
  <2>2. CASE ~Safe(trade)
    BY <2>2, <1>1, <1>3
  <2> QED BY <2>1, <2>2
<1>8. ASSUME NEW i \in 1..(k + 1), ~Safe(q[i]), Distance(q[i]) < IN_RANGE
      PROVE  st = "00BADBAD"
  <2>1. CASE i = k + 1
    <3>1. Uhoh(trade) = {TRUE}
      BY <1>1, <1>8, <2>1, RiskAndDistance
    <3> QED BY <3>1
  <2>2. CASE i \in 1..k
    BY <1>1, <1>8, <2>2 DEF JudgedSoFar
  <2> QED BY <1>3, <2>1, <2>2
<1> QED BY <1>1, <1>5, <1>6, <1>7, <1>8 DEF JudgedSoFar, q

(* A turn of either loop.                                                  *)
LEMMA TurnStep ==
  ASSUME Comp3Inv, NEW trade \in Messages, NEW step \in Nat, process_execution(trade, step)
  PROVE  Comp3Inv'
<1>1. c3 \in Comp3Type
  BY DEF Comp3Inv
<1>2. CASE ~Accepts(trade, c3.old_message_id)
  <2>1. c3' = [c3 EXCEPT !.turn = @ + 1, !.message_start = @ + step]
    BY <1>2 DEF process_execution
  <2>2. c3' \in Comp3Type
    <3> DEFINE tn == c3.turn + 1
               ms == c3.message_start + step
    <3>1. tn \in Nat /\ ms \in Nat
      BY <1>1 DEF Comp3Type
    <3>2. c3' = [c3 EXCEPT !.turn = tn, !.message_start = ms]
      BY <2>1
    <3> HIDE DEF tn, ms
    <3> QED BY <1>1, <3>1, <3>2 DEF Comp3Type
  <2>3. UNCHANGED <<c3.accepted, c3.old_message_id, c3.status>>
    BY <1>1, <2>1 DEF Comp3Type
  <2> QED BY <2>2, <2>3 DEF Comp3Inv
<1>3. CASE Accepts(trade, c3.old_message_id)
  <2>p. PICK ret_val \in Uhoh(trade) :
          c3' = [c3 EXCEPT !.turn = @ + 1, !.message_start = @ + step,
                           !.old_message_id = bswap(trade.message_id),
                           !.contracts_processed = @ + bswap(trade.contracts),
                           !.puts_count = @ + Puts(trade), !.calls_count = @ + Calls(trade),
                           !.status = IF ret_val THEN "00BADBAD" ELSE @,
                           !.accepted = Append(@, trade)]
    BY <1>3 DEF process_execution
  <2> DEFINE cp == c3.contracts_processed + bswap(trade.contracts)
             pu == c3.puts_count + Puts(trade)
             ca == c3.calls_count + Calls(trade)
             st == IF ret_val THEN "00BADBAD" ELSE c3.status
             ac == Append(c3.accepted, trade)
  <2>0. c3' = [c3 EXCEPT !.turn = @ + 1, !.message_start = @ + step, !.old_message_id = Id(trade),
                         !.contracts_processed = cp, !.puts_count = pu, !.calls_count = ca,
                         !.status = st, !.accepted = ac]
    BY <2>p DEF Id
  <2>1. c3'.accepted = ac /\ c3'.old_message_id = Id(trade) /\ c3'.status = st
    <3> HIDE DEF cp, pu, ca, st, ac
    <3> QED BY <1>1, <2>0 DEF Comp3Type
  <2>2. Id(trade) > c3.old_message_id
    BY <1>3 DEF Accepts, Id
  <2>3. c3' \in Comp3Type
    <3>1. cp \in Nat /\ pu \in Int /\ ca \in Int /\ Id(trade) \in Nat
      <4>1. Puts(trade) \in Int /\ Calls(trade) \in Int /\ bswap(trade.contracts) \in Nat
        BY Fields DEF Puts, Calls
      <4>2. Id(trade) \in Nat
        BY Fields DEF Id
      <4>3. c3.contracts_processed \in Nat /\ c3.puts_count \in Int /\ c3.calls_count \in Int
        BY <1>1 DEF Comp3Type
      <4> QED BY <4>1, <4>2, <4>3
    <3>2. ac \in Seq(Messages) /\ st \in {"FEFEFEFE", "00BADBAD", "600D600D"}
      BY <1>1 DEF Comp3Type
    <3> HIDE DEF cp, pu, ca, st, ac
    <3>3. c3.turn + 1 \in Nat /\ c3.message_start + step \in Nat
      BY <1>1 DEF Comp3Type
    <3> QED BY <1>1, <2>0, <3>1, <3>2, <3>3 DEF Comp3Type
  <2>4. c3.accepted \in Seq(Messages) /\ c3.old_message_id \in Nat
    BY <1>1 DEF Comp3Type
  <2>5. JudgedSoFar(c3.accepted, c3.old_message_id, c3.status)
    BY DEF Comp3Inv
  <2>6. JudgedSoFar(c3'.accepted, c3'.old_message_id, c3'.status)
    BY <2>1, <2>2, <2>4, <2>5, JudgedNext
  <2> QED BY <2>3, <2>6 DEF Comp3Inv
<1> QED BY <1>2, <1>3

(* For any messages, with ids of any number of bytes, and any number of    *)
(* turns: the notifications that are taken have increasing ids; the        *)
(* verdict of comp3 is bad only if one of them was too far from its        *)
(* strike, and is bad if one of them was, by less than 2^28. Beyond that   *)
(* the risk may leave the range of int, and nothing is claimed.            *)
THEOREM NotificationsAreJudged == Comp3Spec => [](AcceptedInOrder /\ VerdictOnRisk)
<1>1. Comp3Init => Comp3Inv
  BY DEF Comp3Init, Comp3Inv, Comp3Type, JudgedSoFar
<1>2. Comp3Inv /\ [Comp3Next]_c3 => Comp3Inv'
  <2> SUFFICES ASSUME Comp3Inv, [Comp3Next]_c3
               PROVE  Comp3Inv'
    OBVIOUS
  <2>1. CASE CheckEveryTurn
    BY <2>1, TurnStep DEF CheckEveryTurn
  <2>2. CASE CheckStrideTurn
    BY <2>2, TurnStep, Comp3Assumption DEF CheckStrideTurn
  <2>3. CASE Comp3Ends
    BY <2>3 DEF Comp3Ends, Comp3Inv, Comp3Type, JudgedSoFar
  <2>4. CASE UNCHANGED c3
    BY <2>4 DEF Comp3Inv
  <2> QED BY <2>1, <2>2, <2>3, <2>4 DEF Comp3Next
<1>3. Comp3Inv => AcceptedInOrder /\ VerdictOnRisk
  <2> SUFFICES ASSUME Comp3Inv
               PROVE  AcceptedInOrder /\ VerdictOnRisk
    OBVIOUS
  <2>1. DOMAIN c3.accepted = 1..Len(c3.accepted)
    BY DEF Comp3Inv, Comp3Type
  <2> QED BY <2>1 DEF Comp3Inv, JudgedSoFar, Id, AcceptedInOrder, VerdictOnRisk
<1> QED BY <1>1, <1>2, <1>3, PTL DEF Comp3Spec

-----------------------------------------------------------------------------
(* core_list_mergesort.                                                    *)

Size == Len(chain)

Cells == {chain[i] : i \in 1..Size}

(* The place of a cell before the sort.                                    *)
Rank(c) == CHOOSE i \in 1..Size : chain[i] = c

(* c goes before d, as far as the sort can tell: an item that calc_func    *)
(* has not seen has no value yet.                                          *)
Ready(c) == s.by = "idx" \/ Cached(Datum(heap, c))

Ord(c, d) == Ready(c) /\ Ready(d) /\ (Key(c) < Key(d) \/ (Key(c) = Key(d) /\ Rank(c) < Rank(d)))

(* Places i and j are in different runs of w cells.                        *)
Boundary(i, j, w) == \E m \in Nat : i <= m * w /\ m * w < j

(* The first k cells of L, in runs of w: sorted within a run; between runs *)
(* in the order before the sort.                                           *)
Runs(L, k, w) ==
  \A i, j \in 1..k : i < j =>
    /\ Boundary(i, j, w) => Rank(L[i]) < Rank(L[j])
    /\ ~Boundary(i, j, w) => Ord(L[i], L[j])

At(L, i) == IF i <= Size THEN L[i] ELSE NIL

(* L is an order of all the cells.                                         *)
Order(L) ==
  /\ L \in [1..Size -> Cells]
  /\ \A i, j \in 1..Size : L[i] = L[j] => i = j
  /\ \A c \in Cells : \E i \in 1..Size : L[i] = c

(* The list is whole, in the order L.                                      *)
Whole(L) ==
  /\ Order(L) /\ s.list = L[1]
  /\ \A i \in 1..Size : heap.next[L[i]] = At(L, i + 1)

(* In a pass over the list that was L: the first o places of O are merged, *)
(* and the cells at the places U of L wait with the links they had.        *)
Halves(L, O, o, U) ==
  /\ Order(L) /\ O \in [1..Size -> Cells] /\ o \in 0..Size /\ U \subseteq 1..Size
  /\ \A r \in U : heap.next[L[r]] = At(L, r + 1)
  /\ \A i \in 1..(o - 1) : heap.next[O[i]] = O[i + 1]
  /\ \A i, j \in 1..o : O[i] = O[j] => i = j
  /\ \A i \in 1..o : \A r \in U : O[i] # L[r]
  /\ \A c \in Cells : (\E i \in 1..o : O[i] = c) \/ (\E r \in U : L[r] = c)
  /\ IF o = 0 THEN s.tail = NIL ELSE s.tail = O[o] /\ s.list = O[1]

(* What is merged goes before what waits; the current pair of runs begins  *)
(* after the place base.                                                   *)
Merged(L, O, o, U, base) ==
  /\ Runs(L, Size, s.insize) /\ Runs(O, o, 2 * s.insize)
  /\ \A i \in 1..o : \A r \in U :
       IF i <= base \/ r > base + 2 * s.insize THEN Rank(O[i]) < Rank(L[r]) ELSE Ord(O[i], L[r])

(* Between two pairs of runs, N being the number of cells.                 *)
InRuns(L, O, o, N) ==
  /\ N = Size /\ Halves(L, O, o, (o + 1)..N) /\ Merged(L, O, o, (o + 1)..N, o)
  /\ s.p = At(L, o + 1)
  /\ o = (2 * s.insize) * s.nmerges \/ (o = N /\ N <= (2 * s.insize) * s.nmerges)

(* While the first run is counted.                                         *)
InCount(L, O, o, N) ==
  /\ N = Size /\ Halves(L, O, o, (o + 1)..N) /\ Merged(L, O, o, (o + 1)..N, o)
  /\ s.p = At(L, o + 1) /\ s.q = At(L, o + 1 + s.psize)
  /\ s.nmerges > 0 /\ o = (2 * s.insize) * (s.nmerges - 1)
  /\ s.psize \in 0..(s.insize - 1) /\ o + 1 + s.psize <= N

(* While two runs are merged: places ip to ep and from iq on wait.         *)
Waiting(ip, ep, iq, N) == (ip..ep) \cup (iq..N)

Taken(ip, ep, iq) == (ip - 1) + (iq - ep - 1)

InMerge(L, O, base, ip, ep, iq, N) ==
  /\ N = Size /\ s.nmerges > 0 /\ base = (2 * s.insize) * (s.nmerges - 1)
  /\ base < ip /\ ip <= ep + 1 /\ ep < iq /\ iq <= N + 1
  /\ ep = base + s.insize \/ (ep = N /\ N < base + s.insize)
  /\ s.psize = ep + 1 - ip /\ s.qsize = s.insize - (iq - ep - 1) /\ s.qsize >= 0
  /\ s.p = At(L, ip) /\ s.q = At(L, iq)
  /\ Halves(L, O, Taken(ip, ep, iq), Waiting(ip, ep, iq, N))
  /\ Merged(L, O, Taken(ip, ep, iq), Waiting(ip, ep, iq, N), base)

Heaps(cells, items) ==
  [next : [cells -> cells \cup {NIL}], info : [cells -> items],
   data : [items -> [data16 : Nat, idx : Int]], free : Nat]

(* The heap, and the list before the sort.                                 *)
HeapOK ==
  /\ DOMAIN heap.next \subseteq Nat /\ heap \in Heaps(DOMAIN heap.next, DOMAIN heap.data)
  /\ chain \in Seq(DOMAIN heap.next) /\ chain # << >>
  /\ \A i, j \in 1..Size : chain[i] = chain[j] => i = j

LocalsOK ==
  /\ DOMAIN s = {"phase", "by", "list", "p", "q", "tail", "psize", "qsize", "insize", "nmerges", "back"}
  /\ s.phase \in {"pass", "runs", "count", "merge"} /\ s.by \in {"idx", "complex"} /\ s.back \in Returns
  /\ s.list \in Int /\ s.p \in Int /\ s.q \in Int /\ s.tail \in Int /\ s.psize \in Int /\ s.qsize \in Int
  /\ s.insize \in Nat \ {0} /\ s.nmerges \in Nat /\ pc \in {"sort"} \cup Returns

PassInv ==
  pc = "sort" =>
    \/ s.phase = "pass" /\ \E L : Whole(L) /\ Runs(L, Size, s.insize)
    \/ s.phase = "runs" /\ \E L, O : \E o, N \in Nat : InRuns(L, O, o, N)
    \/ s.phase = "count" /\ \E L, O : \E o, N \in Nat : InCount(L, O, o, N)
    \/ s.phase = "merge" /\ \E L, O : \E base, ip, ep, iq, N \in Nat : InMerge(L, O, base, ip, ep, iq, N)

EndInv == pc \in Returns => \E L : Whole(L) /\ \A i, j \in 1..Size : i < j => Ord(L[i], L[j])

SortInv == HeapOK /\ LocalsOK /\ PassInv /\ EndInv

(* The cells and their places.                                             *)
LEMMA CellFacts ==
  ASSUME HeapOK
  PROVE  /\ Size \in Nat \ {0} /\ Cells \subseteq DOMAIN heap.next /\ Cells \subseteq Nat
         /\ \A i \in 1..Size : chain[i] \in Cells /\ Rank(chain[i]) = i
         /\ \A c \in Cells : Rank(c) \in 1..Size /\ chain[Rank(c)] = c
<1>1. Size \in Nat \ {0}
  BY DEF HeapOK, Size
<1>2. \A i \in 1..Size : chain[i] \in DOMAIN heap.next
  BY DEF HeapOK, Size
<1>3. \A c \in Cells : Rank(c) \in 1..Size /\ chain[Rank(c)] = c
  BY DEF Cells, Rank
<1>4. \A i \in 1..Size : chain[i] \in Cells
  BY DEF Cells
<1>5. \A i \in 1..Size : Rank(chain[i]) = i
  BY <1>3, <1>4 DEF HeapOK
<1>6. Cells \subseteq DOMAIN heap.next
  BY <1>2 DEF Cells
<1>7. Cells \subseteq Nat
  BY <1>6 DEF HeapOK
<1> QED BY <1>1, <1>3, <1>4, <1>5, <1>6, <1>7

(* No cell is NIL; every cell has an item, with a key.                     *)
LEMMA CellData ==
  ASSUME HeapOK, NEW c \in Cells
  PROVE  /\ c # NIL /\ c \in Int /\ heap.next[c] \in Int
         /\ heap.info[c] \in DOMAIN heap.data
         /\ Datum(heap, c) \in [data16 : Nat, idx : Int]
         /\ Key(c) \in Int
<1>1. c \in DOMAIN heap.next /\ c \in Nat
  BY CellFacts
<1>2. heap.next[c] \in DOMAIN heap.next \cup {NIL} /\ heap.info[c] \in DOMAIN heap.data
  BY <1>1 DEF HeapOK, Heaps
<1>3. Datum(heap, c) \in [data16 : Nat, idx : Int]
  BY <1>2 DEF HeapOK, Heaps, Datum
<1>4. Key(c) \in Int
  BY <1>3 DEF Key, CachedValue
<1>5. c # NIL /\ heap.next[c] \in Int
  BY <1>1, <1>2 DEF HeapOK, NIL
<1> QED BY <1>1, <1>2, <1>3, <1>4, <1>5

(* The order is transitive.                                                *)
LEMMA OrdTransitive ==
  ASSUME HeapOK, NEW c \in Cells, NEW d \in Cells, NEW e \in Cells, Ord(c, d), Ord(d, e)
  PROVE  Ord(c, e)
<1>1. Key(c) \in Int /\ Key(d) \in Int /\ Key(e) \in Int
  BY CellData
<1>2. Rank(c) \in Int /\ Rank(d) \in Int /\ Rank(e) \in Int
  BY CellFacts
<1> QED BY <1>1, <1>2 DEF Ord

(* What a step of the sort may do to the data: regenerate them when the    *)
(* items are compared by index, compute a value that was not there when    *)
(* they are compared by value.                                             *)
DataKept ==
  /\ heap' \in Heaps(DOMAIN heap.next, DOMAIN heap.data) /\ heap'.info = heap.info
  /\ chain' = chain /\ s'.by = s.by
  /\ \A x \in DOMAIN heap.data :
       IF s.by = "idx" THEN heap'.data[x].idx = heap.data[x].idx
       ELSE Cached(heap.data[x]) => heap'.data[x] = heap.data[x]

(* The cells, their places and their order outlast it.                     *)
LEMMA OrderKept ==
  ASSUME HeapOK, DataKept
  PROVE  /\ HeapOK' /\ Size' = Size /\ Cells' = Cells
         /\ \A c \in Cells : Rank(c)' = Rank(c)
         /\ \A c, d \in Cells : Ord(c, d) => Ord(c, d)'
         /\ \A L, i : At(L, i)' = At(L, i)
         /\ \A L : Order(L)' <=> Order(L)
<1>1. chain' = chain /\ s'.by = s.by /\ heap'.info = heap.info
  BY DEF DataKept
<1>2. DOMAIN heap'.next = DOMAIN heap.next /\ DOMAIN heap'.data = DOMAIN heap.data
  BY DEF DataKept, Heaps
<1>3. Size' = Size
  BY <1>1 DEF Size
<1>4. HeapOK'
  BY <1>1, <1>2, <1>3 DEF HeapOK, DataKept
<1>5. Cells' = Cells
  BY <1>1, <1>3 DEF Cells
<1>6. \A c \in Cells : Rank(c)' = Rank(c)
  BY <1>1, <1>3 DEF Rank
<1>7. ASSUME NEW c \in Cells, Ready(c)
      PROVE  Ready(c)' /\ Key(c)' = Key(c)
  <2>1. heap.info[c] \in DOMAIN heap.data
    BY CellData
  <2>2. CASE s.by = "idx"
    BY <1>1, <2>1, <2>2 DEF Ready, Key, Datum, DataKept
  <2>3. CASE s.by # "idx"
    <3>1. heap'.data[heap.info[c]] = heap.data[heap.info[c]]
      BY <1>7, <2>1, <2>3 DEF Ready, Datum, DataKept
    <3> QED BY <1>1, <1>7, <2>3, <3>1 DEF Ready, Key, Datum
  <2> QED BY <2>2, <2>3
<1>8. \A c, d \in Cells : Ord(c, d) => Ord(c, d)'
  BY <1>6, <1>7 DEF Ord
<1>9. \A L, i : At(L, i)' = At(L, i)
  BY <1>3 DEF At
<1>10. \A L : Order(L)' <=> Order(L)
  BY <1>3, <1>5 DEF Order
<1> QED BY <1>3, <1>4, <1>5, <1>6, <1>8, <1>9, <1>10

(* So sorted runs stay sorted.                                             *)
LEMMA RunsKept ==
  ASSUME HeapOK, DataKept, NEW k \in 0..Size, NEW w, NEW L \in [1..Size -> Cells], Runs(L, k, w)
  PROVE  Runs(L, k, w)'
<1>1. \A i \in 1..k : L[i] \in Cells
  BY CellFacts
<1> SUFFICES ASSUME NEW i \in 1..k, NEW j \in 1..k, i < j
             PROVE  /\ Boundary(i, j, w) => Rank(L[i])' < Rank(L[j])'
                    /\ ~Boundary(i, j, w) => Ord(L[i], L[j])'
  BY Zenon DEF Runs, Boundary
<1> QED BY <1>1, OrderKept DEF Runs

(* A place between two multiples, and places on either side of one.        *)
LEMMA NoBoundary ==
  ASSUME NEW w \in Nat \ {0}, NEW m \in Nat, NEW i \in Int, NEW j \in Int, m * w < i, j <= m * w + w
  PROVE  ~Boundary(i, j, w)
<1> SUFFICES ASSUME NEW x \in Nat, i <= x * w, x * w < j
             PROVE  FALSE
  BY DEF Boundary
<1>1. CASE x <= m
  <2>1. x * w <= m * w
    BY <1>1
  <2>2. x * w \in Int /\ m * w \in Int
    OBVIOUS
  <2> QED BY <2>1, <2>2
<1>2. CASE x >= m + 1
  <2>1. x * w >= (m + 1) * w
    BY <1>2
  <2>2. (m + 1) * w = m * w + w /\ x * w \in Int /\ m * w \in Int
    OBVIOUS
  <2> QED BY <2>1, <2>2
<1> QED BY <1>1, <1>2

(* Runs of w cells begin after the place base.                             *)
Aligned(base, w) ==
  \A i, j \in Int : /\ i <= base /\ base < j => Boundary(i, j, w)
                    /\ base < i /\ j <= base + w => ~Boundary(i, j, w)

(* Every multiple of w is such a place.                                    *)
LEMMA Multiples ==
  ASSUME NEW w \in Nat \ {0}, NEW m \in Nat
  PROVE  Aligned(w * m, w)
<1>1. w * m = m * w /\ m * w \in Int
  OBVIOUS
<1>2. \A i, j \in Int : i <= m * w /\ m * w < j => Boundary(i, j, w)
  BY DEF Boundary
<1>3. \A i, j \in Int : m * w < i /\ j <= m * w + w => ~Boundary(i, j, w)
  BY NoBoundary
<1> QED BY <1>1, <1>2, <1>3, Zenon DEF Aligned

(* The types of the two orders.                                            *)
LEMMA HalvesTypes ==
  ASSUME HeapOK, NEW L, NEW O, NEW o, NEW U, Halves(L, O, o, U)
  PROVE  /\ Order(L) /\ L \in [1..Size -> Cells] /\ O \in [1..Size -> Cells]
         /\ o \in Nat /\ o <= Size /\ U \subseteq 1..Size /\ Size \in Nat
<1>1. Size \in Nat
  BY CellFacts
<1>2. Order(L) /\ O \in [1..Size -> Cells] /\ o \in 0..Size /\ U \subseteq 1..Size
  BY DEF Halves
<1> QED BY <1>1, <1>2 DEF Order

(* A cell that waits, at the place x, is appended to what is merged.       *)
LEMMA HalvesTake ==
  ASSUME HeapOK, DataKept, NEW L, NEW O, NEW o, NEW U, Halves(L, O, o, U), NEW x \in U, o < Size,
         heap'.next = IF o = 0 THEN heap.next ELSE [heap.next EXCEPT ![O[o]] = L[x]],
         s'.tail = L[x], s'.list = IF o = 0 THEN L[x] ELSE s.list
  PROVE  Halves(L, [O EXCEPT ![o + 1] = L[x]], o + 1, U \ {x})'
<1> DEFINE P == [O EXCEPT ![o + 1] = L[x]]
           V == U \ {x}
<1>1. /\ Order(L) /\ O \in [1..Size -> Cells] /\ o \in Nat /\ o + 1 \in 1..Size /\ U \subseteq 1..Size
      /\ x \in 1..Size /\ Size \in Nat
  BY HalvesTypes
<1>2. L \in [1..Size -> Cells] /\ L[x] \in Cells
  BY <1>1 DEF Order
<1>3. P \in [1..Size -> Cells] /\ P[o + 1] = L[x] /\ \A i \in 1..o : P[i] = O[i] /\ O[i] \in Cells
  BY <1>1, <1>2
<1>4. \A c \in Cells : c \in DOMAIN heap.next
  BY CellFacts
<1>5. heap.next \in [DOMAIN heap.next -> DOMAIN heap.next \cup {NIL}]
  BY DEF HeapOK, Heaps
<1>6. \A c \in Cells : (\A i \in 1..o : i = o => c # O[i]) => heap'.next[c] = heap.next[c]
  BY <1>1, <1>3, <1>4, <1>5
<1>7. o # 0 => heap'.next[O[o]] = L[x]
  BY <1>1, <1>3, <1>4, <1>5
<1> HIDE DEF P
<1>8. ASSUME NEW r \in V
      PROVE  heap'.next[L[r]] = At(L, r + 1)
  <2>1. r \in U /\ L[r] \in Cells
    BY <1>1, <1>2
  <2>2. \A i \in 1..o : O[i] # L[r]
    BY <2>1 DEF Halves
  <2> QED BY <1>6, <2>1, <2>2 DEF Halves
<1>9. ASSUME NEW i \in 1..o
      PROVE  heap'.next[P[i]] = P[i + 1]
  <2>1. CASE i = o
    BY <1>3, <1>7, <2>1
  <2>2. CASE i # o
    <3>1. i \in 1..(o - 1) /\ i + 1 \in 1..o
      BY <1>1, <2>2
    <3>2. heap.next[O[i]] = O[i + 1]
      BY <3>1 DEF Halves
    <3>3. \A j \in 1..o : j = o => O[i] # O[j]
      BY <2>2 DEF Halves
    <3> QED BY <1>3, <1>6, <3>1, <3>2, <3>3
  <2> QED BY <2>1, <2>2
<1>10. ASSUME NEW i \in 1..(o + 1), NEW j \in 1..(o + 1), P[i] = P[j]
       PROVE  i = j
  <2>1. (i \in 1..o \/ i = o + 1) /\ (j \in 1..o \/ j = o + 1)
    BY <1>1
  <2>2. \A m \in 1..o : O[m] # L[x]
    BY DEF Halves
  <2>3. CASE i \in 1..o /\ j \in 1..o
    BY <1>3, <1>10, <2>3 DEF Halves
  <2> QED BY <1>3, <1>10, <2>1, <2>2, <2>3
<1>11. ASSUME NEW i \in 1..(o + 1), NEW r \in V
       PROVE  P[i] # L[r]
  <2>1. i \in 1..o \/ i = o + 1
    BY <1>1
  <2>2. L[x] # L[r]
    BY <1>1 DEF Order
  <2>3. CASE i \in 1..o
    BY <1>3, <2>3 DEF Halves
  <2> QED BY <1>3, <2>1, <2>2, <2>3
<1>12. ASSUME NEW c \in Cells
       PROVE  (\E i \in 1..(o + 1) : P[i] = c) \/ (\E r \in V : L[r] = c)
  <2>1. CASE \E i \in 1..o : O[i] = c
    <3>1. \A i \in 1..o : i \in 1..(o + 1)
      BY <1>1
    <3> QED BY <1>3, <2>1, <3>1
  <2>2. CASE \E r \in U : L[r] = c
    <3>1. o + 1 \in 1..(o + 1)
      BY <1>1
    <3> QED BY <1>3, <2>2, <3>1
  <2> QED BY <2>1, <2>2 DEF Halves
<1>13. o + 1 # 0 /\ s'.tail = P[o + 1] /\ s'.list = P[1]
  <2>1. CASE o = 0
    BY <1>3, <2>1
  <2>2. CASE o # 0
    <3>1. 1 \in 1..o /\ s.list = O[1]
      BY <1>1, <2>2 DEF Halves
    <3> QED BY <1>1, <1>3, <2>2, <3>1
  <2> QED BY <1>1, <2>1, <2>2
<1>14. (o + 1) - 1 = o /\ o + 1 \in 0..Size /\ V \subseteq 1..Size
  BY <1>1
<1>15. /\ Size' = Size /\ Cells' = Cells /\ Order(L)' /\ \A i : At(L, i)' = At(L, i)
  BY <1>1, OrderKept
<1> HIDE DEF V
<1>16. Halves(L, P, o + 1, V)'
  BY <1>3, <1>8, <1>9, <1>10, <1>11, <1>12, <1>13, <1>14, <1>15 DEF Halves
<1> QED BY <1>16 DEF P, V

(* It goes before all that wait, and after all that are merged.            *)
LEMMA MergedTake ==
  ASSUME HeapOK, DataKept, s'.insize = s.insize, NEW W \in Nat \ {0}, W = 2 * s.insize,
         NEW L, NEW O, NEW o, NEW U, NEW base \in Nat,
         Halves(L, O, o, U), Merged(L, O, o, U, base), NEW x \in U, o < Size,
         Aligned(base, W), base <= o, o < base + W, x <= base + W,
         \A r \in U \ {x} : IF r > base + W THEN Rank(L[x]) < Rank(L[r]) ELSE Ord(L[x], L[r])
  PROVE  Merged(L, [O EXCEPT ![o + 1] = L[x]], o + 1, U \ {x}, base)'
<1> DEFINE P == [O EXCEPT ![o + 1] = L[x]]
           V == U \ {x}
<1>1. /\ Order(L) /\ O \in [1..Size -> Cells] /\ o \in Nat /\ o + 1 \in 1..Size /\ U \subseteq 1..Size
      /\ x \in 1..Size /\ Size \in Nat
  BY HalvesTypes
<1>2. L \in [1..Size -> Cells] /\ L[x] \in Cells /\ \A r \in U : L[r] \in Cells
  BY <1>1 DEF Order
<1>3. P \in [1..Size -> Cells] /\ P[o + 1] = L[x] /\ \A i \in 1..o : P[i] = O[i] /\ O[i] \in Cells
  BY <1>1, <1>2
<1>4. \A i \in 1..o : IF i <= base THEN Rank(O[i]) < Rank(L[x]) ELSE Ord(O[i], L[x])
  BY <1>1 DEF Merged
<1> HIDE DEF P
<1>5. Runs(P, o + 1, W)
  <2> SUFFICES ASSUME NEW i \in 1..(o + 1), NEW j \in 1..(o + 1), i < j
               PROVE  /\ Boundary(i, j, W) => Rank(P[i]) < Rank(P[j])
                      /\ ~Boundary(i, j, W) => Ord(P[i], P[j])
    BY DEF Runs
  <2>1. i \in 1..o
    BY <1>1
  <2>2. CASE j \in 1..o
    BY <1>3, <2>1, <2>2 DEF Merged, Runs
  <2>3. CASE j = o + 1
    <3>1. CASE i <= base
      <4>1. base < j
        BY <1>1, <2>3
      <4>2. Boundary(i, j, W)
        BY <3>1, <4>1 DEF Aligned
      <4> QED BY <1>3, <1>4, <2>1, <2>3, <3>1, <4>2
    <3>2. CASE i > base
      <4>1. j <= base + W
        BY <1>1, <2>3
      <4>2. i \in Int /\ j \in Int
        OBVIOUS
      <4>3. ~Boundary(i, j, W)
        BY <3>2, <4>1, <4>2 DEF Aligned
      <4>4. ~(i <= base)
        BY <1>1, <2>1, <3>2
      <4> QED BY <1>3, <1>4, <2>1, <2>3, <4>3, <4>4
    <3> QED BY <1>1, <3>1, <3>2
  <2> QED BY <1>1, <2>2, <2>3
<1>6. ASSUME NEW i \in 1..(o + 1), NEW r \in V
      PROVE  IF i <= base \/ r > base + W THEN Rank(P[i]) < Rank(L[r]) ELSE Ord(P[i], L[r])
  <2>1. CASE i \in 1..o
    BY <1>3, <2>1 DEF Merged
  <2>2. CASE i = o + 1
    <3>1. ~(i <= base)
      BY <1>1, <2>2
    <3> QED BY <1>3, <2>2, <3>1
  <2> QED BY <1>1, <2>1, <2>2
<1>7. \A i \in 1..(o + 1) : P[i] \in Cells
  BY <1>1, <1>3
<1>8. \A r \in V : L[r] \in Cells
  BY <1>2
<1>9. ASSUME NEW i \in 1..(o + 1), NEW r \in V
      PROVE  IF i <= base \/ r > base + W THEN Rank(P[i])' < Rank(L[r])' ELSE Ord(P[i], L[r])'
  <2>1. P[i] \in Cells /\ L[r] \in Cells
    BY <1>7, <1>8
  <2> QED BY <1>6, <2>1, OrderKept
<1>10. Runs(P, o + 1, W)'
  BY <1>1, <1>3, <1>5, RunsKept
<1>11. Runs(L, Size, s.insize)'
  <2>1. Size \in 0..Size /\ Runs(L, Size, s.insize)
    BY <1>1 DEF Merged
  <2>2. Size' = Size
    BY OrderKept
  <2> QED BY <1>2, <2>1, <2>2, RunsKept
<1> QED BY <1>9, <1>10, <1>11 DEF Merged, P, V

(* A step that leaves the links, the tail and the head alone.              *)
LEMMA HalvesSame ==
  ASSUME HeapOK, DataKept, heap'.next = heap.next, s'.tail = s.tail, s'.list = s.list,
         NEW L, NEW O, NEW o, NEW U, Halves(L, O, o, U)
  PROVE  Halves(L, O, o, U)'
<1>1. Size' = Size /\ Cells' = Cells /\ (Order(L)' <=> Order(L)) /\ \A i : At(L, i)' = At(L, i)
  BY OrderKept
<1> QED BY <1>1 DEF Halves

(* Nor does such a step disturb the order of what is merged.               *)
LEMMA MergedSame ==
  ASSUME HeapOK, DataKept, s'.insize = s.insize,
         NEW L, NEW O, NEW o, NEW U, NEW base, Halves(L, O, o, U), Merged(L, O, o, U, base)
  PROVE  Merged(L, O, o, U, base)'
<1>1. /\ L \in [1..Size -> Cells] /\ O \in [1..Size -> Cells] /\ o \in 0..Size /\ U \subseteq 1..Size
      /\ Size \in 0..Size
  BY HalvesTypes
<1>2. Size' = Size
  BY OrderKept
<1>3. Runs(L, Size, s.insize)'
  BY <1>1, <1>2, RunsKept DEF Merged
<1>4. Runs(O, o, 2 * s.insize)'
  BY <1>1, RunsKept DEF Merged
<1>5. ASSUME NEW i \in 1..o, NEW r \in U
      PROVE  IF i <= base \/ r > base + 2 * s.insize THEN Rank(O[i])' < Rank(L[r])' ELSE Ord(O[i], L[r])'
  <2>1. O[i] \in Cells /\ L[r] \in Cells
    BY <1>1
  <2> QED BY <2>1, OrderKept DEF Merged
<1> QED BY <1>3, <1>4, <1>5 DEF Merged

(* The values of At.                                                       *)
LEMMA AtFacts ==
  ASSUME HeapOK, NEW L, Order(L), NEW i \in Nat \ {0}
  PROVE  /\ At(L, i) \in Int /\ (At(L, i) = NIL <=> i > Size)
         /\ i <= Size => At(L, i) = L[i] /\ L[i] \in Cells /\ i \in 1..Size
<1>1. Size \in Nat
  BY CellFacts
<1>2. i <= Size => i \in 1..Size /\ L[i] \in Cells
  BY <1>1 DEF Order
<1>3. i <= Size => L[i] # NIL /\ L[i] \in Int
  BY <1>2, CellData
<1> QED BY <1>1, <1>2, <1>3 DEF At, NIL

(* The locals and the heap that a step leaves alone.                       *)
LEMMA SameHeap ==
  ASSUME HeapOK, heap' = heap, chain' = chain, s'.by = s.by
  PROVE  DataKept
BY DEF DataKept, HeapOK

(* A pass begins: all cells wait, in the order the list has.               *)
LEMMA PassStep ==
  ASSUME SortInv, SortPass
  PROVE  SortInv'
<1>1. pc = "sort" /\ s.phase = "pass" /\ UNCHANGED <<pc, heap, chain>> /\ HeapOK /\ LocalsOK
  BY DEF SortPass, SortInv
<1>2. PICK L : Whole(L) /\ Runs(L, Size, s.insize)
  BY <1>1 DEF SortInv, PassInv
<1>3. LocalsOK' /\ s'.phase = "runs" /\ s'.p = s.list /\ s'.tail = NIL /\ s'.nmerges = 0
      /\ s'.insize = s.insize /\ s'.by = s.by
  BY <1>1 DEF SortPass, LocalsOK, NIL
<1>4. DataKept
  BY <1>1, <1>3, SameHeap
<1>5. PICK N \in Nat \ {0} : N = Size
  BY <1>1, CellFacts
<1>6. Order(L) /\ L \in [1..Size -> Cells] /\ L \in [1..N -> Cells]
  BY <1>2, <1>5 DEF Whole, Order
<1>7. /\ HeapOK' /\ Size' = N /\ Cells' = Cells /\ Order(L)' /\ \A i : At(L, i)' = At(L, i)
  BY <1>1, <1>4, <1>5, <1>6, OrderKept
<1>8. Halves(L, L, 0, 1..N)'
  <2>1. \A r \in 1..N : heap'.next[L[r]] = At(L, r + 1)
    BY <1>1, <1>2, <1>5 DEF Whole
  <2>2. \A c \in Cells : \E r \in 1..N : L[r] = c
    BY <1>5, <1>6 DEF Order
  <2>3. 1..(0 - 1) = {} /\ 1..0 = {} /\ 0 \in 0..N
    OBVIOUS
  <2> QED BY <1>3, <1>6, <1>7, <2>1, <2>2, <2>3 DEF Halves
<1>9. Merged(L, L, 0, 1..N, 0)'
  <2>1. Runs(L, Size, s.insize)'
    <3>1. Size \in 0..Size /\ Size' = Size
      BY <1>5, <1>7
    <3> QED BY <1>1, <1>2, <1>3, <1>4, <1>6, <3>1, RunsKept
  <2>2. 1..0 = {}
    OBVIOUS
  <2>3. Runs(L, 0, 2 * s.insize)'
    BY <2>2 DEF Runs
  <2> QED BY <2>1, <2>2, <2>3 DEF Merged
<1>10. s'.p = At(L, 0 + 1)
  BY <1>2, <1>3, <1>5 DEF Whole, At
<1>11. 0 = (2 * s'.insize) * s'.nmerges
  BY <1>3 DEF LocalsOK
<1>12. InRuns(L, L, 0, N)'
  BY <1>7, <1>8, <1>9, <1>10, <1>11 DEF InRuns
<1>13. PassInv' /\ EndInv'
  BY <1>1, <1>3, <1>12 DEF PassInv, EndInv, Returns
<1> QED BY <1>3, <1>7, <1>13 DEF SortInv

(* A pair of runs begins where the cells wait.                             *)
LEMMA RunStep ==
  ASSUME SortInv, SortRun
  PROVE  SortInv'
<1>1. pc = "sort" /\ s.phase = "runs" /\ s.p # NIL /\ UNCHANGED <<pc, heap, chain>> /\ HeapOK /\ LocalsOK
  BY DEF SortRun, SortInv
<1>a. PICK L, O : \E o, N \in Nat : InRuns(L, O, o, N)
  BY <1>1 DEF SortInv, PassInv
<1>2. PICK o \in Nat, N \in Nat : InRuns(L, O, o, N)
  BY <1>a
<1>3. /\ LocalsOK' /\ s'.phase = "count" /\ s'.p = s.p /\ s'.q = s.p /\ s'.psize = 0
      /\ s'.nmerges = s.nmerges + 1 /\ UNCHANGED <<s.insize, s.by, s.tail, s.list>>
  BY <1>1 DEF SortRun, LocalsOK
<1>4. DataKept
  BY <1>1, <1>3, SameHeap
<1>5. Halves(L, O, o, (o + 1)..N) /\ Merged(L, O, o, (o + 1)..N, o) /\ N = Size /\ s.p = At(L, o + 1)
  BY <1>2 DEF InRuns
<1>6. Halves(L, O, o, (o + 1)..N)' /\ Merged(L, O, o, (o + 1)..N, o)'
  BY <1>1, <1>3, <1>4, <1>5, HalvesSame, MergedSame
<1>7. HeapOK' /\ Size' = N /\ \A i : At(L, i)' = At(L, i)
  BY <1>1, <1>4, <1>5, OrderKept
<1>8. Order(L) /\ o + 1 \in Nat \ {0}
  BY <1>1, <1>5, HalvesTypes
<1>9. o + 1 <= N
  BY <1>1, <1>5, <1>8, AtFacts
<1>10. o = (2 * s.insize) * s.nmerges
  BY <1>2, <1>9 DEF InRuns
<1>11. s'.nmerges > 0 /\ s'.nmerges - 1 = s.nmerges
  BY <1>1, <1>3 DEF LocalsOK
<1>12. s'.psize \in 0..(s'.insize - 1) /\ o + 1 + s'.psize <= N /\ o + 1 + s'.psize = o + 1
  BY <1>1, <1>3, <1>9 DEF LocalsOK
<1>13. InCount(L, O, o, N)'
  BY <1>3, <1>5, <1>6, <1>7, <1>10, <1>11, <1>12 DEF InCount
<1>14. PassInv' /\ EndInv'
  BY <1>1, <1>3, <1>13 DEF PassInv, EndInv, Returns
<1> QED BY <1>3, <1>7, <1>14 DEF SortInv

(* A cell of the first run is counted; when the run is over the merge      *)
(* begins, with nothing of the pair taken.                                 *)
LEMMA CountStep ==
  ASSUME SortInv, SortCount
  PROVE  SortInv'
<1>1. pc = "sort" /\ s.phase = "count" /\ UNCHANGED <<pc, heap, chain>> /\ HeapOK /\ LocalsOK
  BY DEF SortCount, SortInv
<1>a. PICK L, O : \E o, N \in Nat : InCount(L, O, o, N)
  BY <1>1 DEF SortInv, PassInv
<1>2. PICK o \in Nat, N \in Nat : InCount(L, O, o, N)
  BY <1>a
<1> DEFINE q == heap.next[s.q]
           ep == o + 1 + s.psize
<1>3. /\ Halves(L, O, o, (o + 1)..N) /\ Merged(L, O, o, (o + 1)..N, o) /\ N = Size /\ s.p = At(L, o + 1)
      /\ s.q = At(L, ep) /\ s.psize \in 0..(s.insize - 1) /\ ep <= N
  BY <1>2, Zenon DEF InCount
<1>b. s.nmerges > 0 /\ o = (2 * s.insize) * (s.nmerges - 1)
  BY <1>2, Zenon DEF InCount
<1>4. s.psize \in Nat /\ ep \in Nat \ {0} /\ ep \in (o + 1)..N /\ s.insize \in Nat /\ s.psize < s.insize
  BY <1>1, <1>3 DEF LocalsOK
<1>5. Order(L)
  BY <1>1, <1>3, HalvesTypes
<1>6. q = At(L, ep + 1)
  <2>1. s.q = L[ep]
    BY <1>1, <1>3, <1>4, <1>5, AtFacts
  <2> QED BY <1>3, <1>4, <2>1 DEF Halves
<1>c. N = Size
  BY <1>3, Zenon
<1>7. q \in Int /\ (q = NIL <=> ep + 1 > N)
  <2>1. ep + 1 \in Nat \ {0}
    BY <1>4
  <2> HIDE DEF ep
  <2> QED BY <1>1, <1>c, <1>5, <1>6, <2>1, AtFacts
<1>8. /\ s'.p = s.p /\ s'.q = q /\ s'.psize = s.psize + 1
      /\ UNCHANGED <<s.insize, s.nmerges, s.by, s.tail, s.list>>
      /\ IF q = NIL \/ s.psize + 1 = s.insize THEN s'.phase = "merge" /\ s'.qsize = s.insize
         ELSE s'.phase = "count"
  BY <1>1 DEF SortCount, LocalsOK
<1>9. LocalsOK'
  <2> HIDE DEF q
  <2> QED BY <1>1, <1>4, <1>7 DEF SortCount, LocalsOK, q
<1>10. DataKept
  BY <1>1, <1>8, SameHeap
<1>11. Halves(L, O, o, (o + 1)..N)' /\ Merged(L, O, o, (o + 1)..N, o)'
  BY <1>1, <1>3, <1>8, <1>10, HalvesSame, MergedSame
<1>12. HeapOK' /\ Size' = N /\ \A i : At(L, i)' = At(L, i)
  BY <1>1, <1>3, <1>10, OrderKept
<1> HIDE DEF q
<1>13. CASE q = NIL \/ s.psize + 1 = s.insize
  <2>1. /\ Taken(o + 1, ep, ep + 1) = o /\ Waiting(o + 1, ep, ep + 1, N) = (o + 1)..N
    BY <1>4 DEF Taken, Waiting
  <2>2. ep = o + s.insize \/ (ep = N /\ N < o + s.insize)
    BY <1>4, <1>7, <1>13
  <2>3. /\ o < o + 1 /\ o + 1 <= ep + 1 /\ ep < ep + 1 /\ ep + 1 <= N + 1
        /\ s'.psize = ep + 1 - (o + 1) /\ s'.qsize = s.insize - ((ep + 1) - ep - 1) /\ s'.qsize >= 0
    BY <1>4, <1>8, <1>13
  <2>4. PICK e \in Nat : e = ep
    BY <1>4
  <2> HIDE DEF ep
  <2>5. InMerge(L, O, o, o + 1, e, e + 1, N)'
    BY <1>3, <1>b, <1>6, <1>8, <1>11, <1>12, <2>1, <2>2, <2>3, <2>4 DEF InMerge
  <2>6. PassInv'
    BY <1>8, <1>13, <2>5 DEF PassInv
  <2> QED BY <1>1, <1>9, <1>12, <2>6 DEF SortInv, EndInv, Returns
<1>14. CASE ~(q = NIL \/ s.psize + 1 = s.insize)
  <2>1. s'.psize \in 0..(s'.insize - 1) /\ o + 1 + s'.psize <= N /\ o + 1 + s'.psize = ep + 1
    BY <1>4, <1>7, <1>8, <1>14
  <2>2. InCount(L, O, o, N)'
    BY <1>3, <1>b, <1>6, <1>8, <1>11, <1>12, <2>1 DEF InCount
  <2>3. PassInv'
    BY <1>8, <1>14, <2>2 DEF PassInv
  <2> QED BY <1>1, <1>9, <1>12, <2>3 DEF SortInv, EndInv, Returns
<1> QED BY <1>13, <1>14

(* While two runs are merged: the numbers, without their products, and the *)
(* order of what waits.                                                    *)
MergeNumbers(base, ip, ep, iq, N, w) ==
  /\ N = Size /\ N > 0 /\ w > 0 /\ base < ip /\ ip <= ep + 1 /\ ep < iq /\ iq <= N + 1
  /\ ep = base + w \/ (ep = N /\ N < base + w)
  /\ s.psize = ep + 1 - ip /\ s.qsize = w - (iq - ep - 1) /\ s.qsize >= 0
  /\ (s.p = NIL <=> ip > N) /\ (s.q = NIL <=> iq > N)

PairOrder(L, base, N, w) ==
  \A i, j \in 1..N : i < j =>
    /\ base < i /\ j <= base + w => Ord(L[i], L[j])
    /\ base + w < i /\ j <= base + 2 * w => Ord(L[i], L[j])
    /\ i <= base + w /\ base + w < j => Rank(L[i]) < Rank(L[j])
    /\ i <= base + 2 * w /\ base + 2 * w < j => Rank(L[i]) < Rank(L[j])

(* What the runs of L say about the pair that begins after base: each run  *)
(* is sorted, and what comes before either boundary was first.             *)
LEMMA MergeOrder ==
  ASSUME HeapOK, NEW w \in Nat \ {0}, NEW k \in Nat, NEW base \in Nat, base = (2 * w) * k,
         NEW L \in [1..Size -> Cells], Runs(L, Size, w)
  PROVE  Aligned(base, 2 * w) /\ PairOrder(L, base, Size, w)
<1>1. (2 * w) * k = w * (2 * k)
  OBVIOUS
<1>2. Aligned(base, w)
  <2>1. 2 * k \in Nat
    OBVIOUS
  <2> QED BY <1>1, <2>1, Multiples, Zenon
<1>3. Aligned(base + w, w)
  <2>1. 2 * k + 1 \in Nat
    OBVIOUS
  <2>2. w * (2 * k + 1) = w * (2 * k) + w
    OBVIOUS
  <2> QED BY <1>1, <2>1, <2>2, Multiples, Zenon
<1>4. Aligned(base + 2 * w, w)
  <2>1. 2 * k + 2 \in Nat
    OBVIOUS
  <2>2. w * (2 * k + 2) = w * (2 * k) + 2 * w
    OBVIOUS
  <2> QED BY <1>1, <2>1, <2>2, Multiples, Zenon
<1>5. Aligned(base, 2 * w)
  <2>1. 2 * w \in Nat \ {0}
    OBVIOUS
  <2> QED BY <2>1, Multiples, Zenon
<1>6. PICK u \in Nat, v \in Nat : u = base + w /\ v = base + 2 * w /\ u + w = v
  OBVIOUS
<1>7. ASSUME NEW i \in 1..Size, NEW j \in 1..Size, i < j
      PROVE  /\ base < i /\ j <= base + w => Ord(L[i], L[j])
             /\ u < i /\ j <= v => Ord(L[i], L[j])
             /\ i <= u /\ u < j => Rank(L[i]) < Rank(L[j])
             /\ i <= v /\ v < j => Rank(L[i]) < Rank(L[j])
  <2>1. i \in Int /\ j \in Int
    OBVIOUS
  <2>2. /\ Boundary(i, j, w) => Rank(L[i]) < Rank(L[j])
        /\ ~Boundary(i, j, w) => Ord(L[i], L[j])
    BY <1>7 DEF Runs
  <2>3. base < i /\ j <= base + w => ~Boundary(i, j, w)
    BY <1>2, <2>1 DEF Aligned
  <2>4. u < i /\ j <= v => ~Boundary(i, j, w)
    BY <1>3, <1>6, <2>1 DEF Aligned
  <2>5. i <= u /\ u < j => Boundary(i, j, w)
    BY <1>3, <1>6, <2>1 DEF Aligned
  <2>6. i <= v /\ v < j => Boundary(i, j, w)
    BY <1>4, <1>6, <2>1 DEF Aligned
  <2> QED BY <2>2, <2>3, <2>4, <2>5, <2>6
<1> QED BY <1>5, <1>6, <1>7 DEF PairOrder

(* The heap h differs from the heap by what a comparison may change.       *)
Agrees(h) ==
  /\ h \in Heaps(DOMAIN heap.next, DOMAIN heap.data) /\ h.next = heap.next /\ h.info = heap.info
  /\ \A x \in DOMAIN heap.data :
       IF s.by = "idx" THEN h.data[x].idx = heap.data[x].idx
       ELSE Cached(heap.data[x]) => h.data[x] = heap.data[x]

(* What taking a cell does.                                                *)
LEMMA TakeEffect ==
  ASSUME HeapOK, LocalsOK, NEW h, Agrees(h), NEW fromP \in BOOLEAN, Take(h, fromP),
         NEW e \in Cells, e = (IF fromP THEN s.p ELSE s.q), s.tail \in Cells \cup {NIL}
  PROVE  /\ DataKept /\ LocalsOK' /\ pc' = pc
         /\ heap'.next = IF s.tail = NIL THEN heap.next ELSE [heap.next EXCEPT ![s.tail] = e]
         /\ s'.tail = e /\ s'.list = IF s.tail = NIL THEN e ELSE s.list
         /\ s'.phase = s.phase /\ s'.insize = s.insize /\ s'.nmerges = s.nmerges
         /\ IF fromP THEN /\ s'.p = heap.next[s.p] /\ s'.psize = s.psize - 1
                          /\ s'.q = s.q /\ s'.qsize = s.qsize
            ELSE /\ s'.q = heap.next[s.q] /\ s'.qsize = s.qsize - 1
                 /\ s'.p = s.p /\ s'.psize = s.psize
<1> DEFINE cells == DOMAIN heap.next
           items == DOMAIN heap.data
<1>1. e \in cells /\ e \in Int /\ heap.next[e] \in Int
  BY CellFacts, CellData
<1>2. s.tail # NIL => s.tail \in cells
  BY CellFacts
<1>3. /\ h.next \in [cells -> cells \cup {NIL}] /\ h.next = heap.next /\ h.info = heap.info
      /\ h.info \in [cells -> items] /\ h.data \in [items -> [data16 : Nat, idx : Int]] /\ h.free \in Nat
      /\ h = [next |-> h.next, info |-> h.info, data |-> h.data, free |-> h.free]
  BY DEF Agrees, Heaps
<1>4. heap' = IF s.tail = NIL THEN h ELSE [h EXCEPT !.next[s.tail] = e]
  BY DEF Take
<1>5. /\ heap'.next = IF s.tail = NIL THEN heap.next ELSE [heap.next EXCEPT ![s.tail] = e]
      /\ heap'.info = heap.info /\ heap'.data = h.data /\ heap'.free = h.free
      /\ heap' = [next |-> heap'.next, info |-> heap'.info, data |-> heap'.data, free |-> heap'.free]
  BY <1>3, <1>4
<1>6. heap'.next \in [cells -> cells \cup {NIL}]
  BY <1>1, <1>2, <1>3, <1>5
<1>7. heap' \in Heaps(cells, items)
  BY <1>3, <1>5, <1>6 DEF Heaps
<1>8. PICK np, nq, nps, nqs, nl :
         /\ np = IF fromP THEN h.next[s.p] ELSE s.p
         /\ nq = IF fromP THEN s.q ELSE h.next[s.q]
         /\ nps = IF fromP THEN s.psize - 1 ELSE s.psize
         /\ nqs = IF fromP THEN s.qsize ELSE s.qsize - 1
         /\ nl = IF s.tail = NIL THEN e ELSE s.list
  OBVIOUS
<1>9. s' = [s EXCEPT !.p = np, !.q = nq, !.psize = nps, !.qsize = nqs, !.list = nl, !.tail = e]
  BY <1>8 DEF Take
<1>10. np \in Int /\ nq \in Int /\ nps \in Int /\ nqs \in Int /\ nl \in Int
  BY <1>1, <1>3, <1>8 DEF LocalsOK
<1>11. pc' = pc /\ chain' = chain
  BY DEF Take
<1>12. /\ s'.p = np /\ s'.q = nq /\ s'.psize = nps /\ s'.qsize = nqs /\ s'.list = nl /\ s'.tail = e
       /\ s'.phase = s.phase /\ s'.insize = s.insize /\ s'.nmerges = s.nmerges /\ s'.by = s.by
       /\ s'.back = s.back /\ DOMAIN s' = DOMAIN s
  BY <1>9 DEF LocalsOK
<1>13. LocalsOK'
  BY <1>1, <1>10, <1>11, <1>12 DEF LocalsOK
<1>14. DataKept
  BY <1>5, <1>7, <1>11, <1>12 DEF DataKept, Agrees
<1> QED BY <1>3, <1>5, <1>8, <1>11, <1>12, <1>13, <1>14

(* What InMerge says, in these terms.                                      *)
LEMMA MergeFacts ==
  ASSUME HeapOK, LocalsOK, NEW L, NEW O, NEW base \in Nat, NEW ip \in Nat, NEW ep \in Nat,
         NEW iq \in Nat, NEW N \in Nat, InMerge(L, O, base, ip, ep, iq, N), NEW w \in Nat, w = s.insize
  PROVE  /\ Order(L) /\ L \in [1..N -> Cells] /\ Aligned(base, 2 * w)
         /\ MergeNumbers(base, ip, ep, iq, N, w) /\ PairOrder(L, base, N, w)
<1>1. N = Size /\ N > 0 /\ w > 0
  BY CellFacts DEF InMerge, LocalsOK
<1>2. Order(L) /\ L \in [1..N -> Cells]
  BY <1>1, HalvesTypes DEF InMerge
<1>3. PICK k \in Nat : k = s.nmerges - 1
  BY DEF InMerge, LocalsOK
<1>4. base = (2 * w) * k /\ Runs(L, Size, w)
  BY <1>3 DEF InMerge, Merged
<1>5. Aligned(base, 2 * w) /\ PairOrder(L, base, Size, w)
  <2>1. w \in Nat \ {0} /\ L \in [1..Size -> Cells]
    BY <1>1, <1>2
  <2> QED BY <1>4, <2>1, MergeOrder, Zenon
<1>6. /\ base < ip /\ ip <= ep + 1 /\ ep < iq /\ iq <= N + 1
      /\ ep = base + w \/ (ep = N /\ N < base + w)
      /\ s.psize = ep + 1 - ip /\ s.qsize = w - (iq - ep - 1) /\ s.qsize >= 0
      /\ s.p = At(L, ip) /\ s.q = At(L, iq)
  BY Zenon DEF InMerge
<1>7. ip \in Nat \ {0} /\ iq \in Nat \ {0}
  BY <1>6
<1>8. (s.p = NIL <=> ip > N) /\ (s.q = NIL <=> iq > N)
  BY <1>1, <1>2, <1>6, <1>7, AtFacts
<1> QED BY <1>1, <1>2, <1>5, <1>6, <1>8, Zenon DEF MergeNumbers

(* The cell at the place x, of those at U, may be taken next; and it is.   *)
GoesNext(L, U, x, base, w) ==
  /\ x <= base + 2 * w
  /\ \A r \in U \ {x} : IF r > base + 2 * w THEN Rank(L[x]) < Rank(L[r]) ELSE Ord(L[x], L[r])

Taker(L, O, base, ip, ep, iq, N, w, h, fromP, o, x, P) ==
  /\ base \in Nat /\ ip \in Nat /\ ep \in Nat /\ iq \in Nat /\ N \in Nat /\ o \in Nat
  /\ InMerge(L, O, base, ip, ep, iq, N) /\ w \in Nat /\ w = s.insize
  /\ Agrees(h) /\ fromP \in BOOLEAN /\ Take(h, fromP)
  /\ o = Taken(ip, ep, iq) /\ o < N /\ base <= o /\ o < base + 2 * w
  /\ x \in Waiting(ip, ep, iq, N) /\ x = (IF fromP THEN ip ELSE iq)
  /\ GoesNext(L, Waiting(ip, ep, iq, N), x, base, w) /\ P = [O EXCEPT ![o + 1] = L[x]]

Took(L, U, P, o, x, base, ip, iq, fromP) ==
  /\ HeapOK' /\ LocalsOK' /\ Size' = Size /\ pc' = pc
  /\ s'.phase = s.phase /\ s'.insize = s.insize /\ s'.nmerges = s.nmerges
  /\ IF fromP THEN /\ s'.p = At(L, ip + 1)' /\ s'.psize = s.psize - 1
                   /\ s'.q = At(L, iq)' /\ s'.qsize = s.qsize
     ELSE /\ s'.q = At(L, iq + 1)' /\ s'.qsize = s.qsize - 1
          /\ s'.p = At(L, ip)' /\ s'.psize = s.psize
  /\ Halves(L, P, o + 1, U \ {x})' /\ Merged(L, P, o + 1, U \ {x}, base)'

(* The cell at the place x, first of a run, is taken.                      *)
LEMMA Taking ==
  ASSUME HeapOK, LocalsOK, NEW L, NEW O, NEW base, NEW ip, NEW ep, NEW iq, NEW N, NEW w, NEW h,
         NEW fromP, NEW o, NEW x, NEW P, Taker(L, O, base, ip, ep, iq, N, w, h, fromP, o, x, P)
  PROVE  Took(L, Waiting(ip, ep, iq, N), P, o, x, base, ip, iq, fromP)
<1> /\ base \in Nat /\ ip \in Nat /\ ep \in Nat /\ iq \in Nat /\ N \in Nat /\ o \in Nat
    /\ InMerge(L, O, base, ip, ep, iq, N) /\ w \in Nat /\ w = s.insize
    /\ Agrees(h) /\ fromP \in BOOLEAN /\ Take(h, fromP)
    /\ o = Taken(ip, ep, iq) /\ o < N /\ base <= o /\ o < base + 2 * w
    /\ x \in Waiting(ip, ep, iq, N) /\ x = (IF fromP THEN ip ELSE iq)
    /\ GoesNext(L, Waiting(ip, ep, iq, N), x, base, w) /\ P = [O EXCEPT ![o + 1] = L[x]]
  BY Zenon DEF Taker
<1>1. PICK U : U = Waiting(ip, ep, iq, N)
  OBVIOUS
<1>2. Halves(L, O, o, U) /\ Merged(L, O, o, U, base) /\ s.p = At(L, ip) /\ s.q = At(L, iq) /\ N = Size
  BY <1>1, Zenon DEF InMerge
<1>3. Order(L) /\ L \in [1..Size -> Cells] /\ O \in [1..Size -> Cells] /\ o \in Nat /\ o <= Size /\ U \subseteq 1..Size
  BY <1>2, HalvesTypes
<1>4. x \in U /\ x \in 1..Size /\ L[x] \in Cells /\ L[x] = At(L, x)
  BY <1>1, <1>2, <1>3 DEF At
<1>5. L[x] = IF fromP THEN s.p ELSE s.q
  BY <1>2, <1>4
<1>6. (o = 0 <=> s.tail = NIL) /\ (o # 0 => s.tail = O[o]) /\ s.tail \in Cells \cup {NIL}
  <2>1. CASE o = 0
    BY <1>2, <2>1 DEF Halves
  <2>2. CASE o # 0
    <3>1. s.tail = O[o]
      BY <1>2, <2>2 DEF Halves
    <3>2. O[o] \in Cells
      BY <1>2, <1>3, <2>2
    <3>3. O[o] # NIL
      BY <3>2, CellData
    <3> QED BY <2>2, <3>1, <3>2, <3>3
  <2> QED BY <2>1, <2>2
<1>7. /\ DataKept /\ LocalsOK' /\ pc' = pc
      /\ heap'.next = IF s.tail = NIL THEN heap.next ELSE [heap.next EXCEPT ![s.tail] = L[x]]
      /\ s'.tail = L[x] /\ s'.list = IF s.tail = NIL THEN L[x] ELSE s.list
      /\ s'.phase = s.phase /\ s'.insize = s.insize /\ s'.nmerges = s.nmerges
      /\ IF fromP THEN /\ s'.p = heap.next[s.p] /\ s'.psize = s.psize - 1
                       /\ s'.q = s.q /\ s'.qsize = s.qsize
         ELSE /\ s'.q = heap.next[s.q] /\ s'.qsize = s.qsize - 1
              /\ s'.p = s.p /\ s'.psize = s.psize
  BY <1>4, <1>5, <1>6, TakeEffect
<1>8. HeapOK' /\ Size' = Size /\ \A i : At(L, i)' = At(L, i)
  BY <1>7, OrderKept
<1>9. heap.next[L[x]] = At(L, x + 1)
  BY <1>2, <1>4 DEF Halves
<1>10. Halves(L, [O EXCEPT ![o + 1] = L[x]], o + 1, U \ {x})'
  BY <1>2, <1>4, <1>6, <1>7, HalvesTake
<1>11. PICK W \in Nat \ {0} : W = 2 * w
  BY DEF LocalsOK
<1>12. Aligned(base, W)
  BY <1>11, MergeFacts, Zenon
<1>13. Merged(L, [O EXCEPT ![o + 1] = L[x]], o + 1, U \ {x}, base)'
  <2>1. \A r \in U \ {x} : IF r > base + W THEN Rank(L[x]) < Rank(L[r]) ELSE Ord(L[x], L[r])
    BY <1>1, <1>11 DEF GoesNext
  <2>2. W = 2 * s.insize /\ o < base + W /\ x <= base + W
    BY <1>11 DEF GoesNext
  <2> QED BY <1>2, <1>4, <1>7, <1>12, <2>1, <2>2, MergedTake
<1>14. IF fromP THEN /\ s'.p = At(L, ip + 1)' /\ s'.psize = s.psize - 1
                     /\ s'.q = At(L, iq)' /\ s'.qsize = s.qsize
       ELSE /\ s'.q = At(L, iq + 1)' /\ s'.qsize = s.qsize - 1
            /\ s'.p = At(L, ip)' /\ s'.psize = s.psize
  BY <1>2, <1>5, <1>7, <1>8, <1>9
<1> QED BY <1>1, <1>2, <1>7, <1>8, <1>10, <1>13, <1>14, Zenon DEF Took

(* The first run gives its first cell when the second is empty or has to   *)
(* wait.                                                                   *)
LEMMA TakeP ==
  ASSUME HeapOK, LocalsOK, pc = "sort", s.phase = "merge",
         NEW L, NEW O, NEW base \in Nat, NEW ip \in Nat, NEW ep \in Nat,
         NEW iq \in Nat, NEW N \in Nat, InMerge(L, O, base, ip, ep, iq, N),
         NEW h, Agrees(h), Take(h, TRUE), ~PEmpty, QEmpty \/ Ord(L[ip], L[iq])
  PROVE  SortInv'
<1>1. PICK w \in Nat : w = s.insize
  BY DEF LocalsOK
<1>a. Order(L) /\ L \in [1..N -> Cells] /\ MergeNumbers(base, ip, ep, iq, N, w) /\ PairOrder(L, base, N, w)
  BY <1>1, MergeFacts, Zenon
<1>2. /\ N = Size /\ w > 0 /\ Order(L) /\ L \in [1..N -> Cells]
      /\ base < ip /\ ip <= ep + 1 /\ ep < iq /\ iq <= N + 1
      /\ ep = base + w \/ (ep = N /\ N < base + w)
      /\ s.psize = ep + 1 - ip /\ s.qsize = w - (iq - ep - 1) /\ s.qsize >= 0
      /\ (s.q = NIL <=> iq > N)
  BY <1>a, Zenon DEF MergeNumbers
<1>3. \A i, j \in 1..N : i < j =>
        /\ base < i /\ j <= base + w => Ord(L[i], L[j])
        /\ base + w < i /\ j <= base + 2 * w => Ord(L[i], L[j])
        /\ i <= base + 2 * w /\ base + 2 * w < j => Rank(L[i]) < Rank(L[j])
  BY <1>a, Zenon DEF PairOrder
<1>4. ip <= ep /\ ep <= N /\ ep <= base + w /\ ip \in 1..N
  BY <1>2 DEF PEmpty
<1>5. PICK o \in Nat : o = Taken(ip, ep, iq)
  BY <1>2 DEF Taken
<1>6. o < N /\ base <= o /\ o < base + 2 * w /\ ip <= base + 2 * w
  BY <1>2, <1>4, <1>5 DEF Taken
<1>7. ASSUME NEW r \in Waiting(ip, ep, iq, N) \ {ip}
      PROVE  IF r > base + 2 * w THEN Rank(L[ip]) < Rank(L[r]) ELSE Ord(L[ip], L[r])
  <2>1. r \in 1..N /\ ip < r /\ (r <= ep \/ iq <= r)
    BY <1>2, <1>4 DEF Waiting
  <2>2. CASE r <= ep
    <3>1. r <= base + w /\ ~(r > base + 2 * w)
      BY <1>4, <2>1, <2>2
    <3> QED BY <1>2, <1>3, <1>4, <2>1, <3>1
  <2>3. CASE r > base + 2 * w
    BY <1>3, <1>4, <1>6, <2>1, <2>3
  <2>4. CASE iq <= r /\ r <= base + 2 * w
    <3>1. iq <= N /\ iq \in 1..N /\ ep = base + w /\ base + w < iq /\ s.q # NIL
      BY <1>2, <2>1, <2>4
    <3>2. s.qsize # 0
      BY <1>2, <2>1, <2>4, <3>1
    <3>3. Ord(L[ip], L[iq])
      BY <3>1, <3>2 DEF QEmpty
    <3>4. CASE r = iq
      BY <2>4, <3>3, <3>4
    <3>5. CASE iq < r
      <4>1. Ord(L[iq], L[r])
        BY <1>3, <2>1, <2>4, <3>1, <3>5
      <4>2. L[ip] \in Cells /\ L[iq] \in Cells /\ L[r] \in Cells
        BY <1>2, <1>4, <2>1, <3>1
      <4>3. Ord(L[ip], L[r])
        BY <3>3, <4>1, <4>2, OrdTransitive
      <4>4. ~(r > base + 2 * w)
        BY <2>1, <2>4
      <4> QED BY <4>3, <4>4
    <3> QED BY <2>1, <2>4, <3>4, <3>5
  <2> QED BY <2>1, <2>2, <2>3, <2>4
<1>8. ip \in Waiting(ip, ep, iq, N)
  BY <1>4 DEF Waiting
<1>9. PICK P : P = [O EXCEPT ![o + 1] = L[ip]]
  OBVIOUS
<1>10. /\ HeapOK' /\ LocalsOK' /\ N = Size' /\ pc' = pc
       /\ s'.phase = s.phase /\ s'.insize = s.insize /\ s'.nmerges = s.nmerges
       /\ s'.p = At(L, ip + 1)' /\ s'.psize = s.psize - 1
       /\ s'.q = At(L, iq)' /\ s'.qsize = s.qsize
       /\ Halves(L, P, o + 1, Waiting(ip, ep, iq, N) \ {ip})'
       /\ Merged(L, P, o + 1, Waiting(ip, ep, iq, N) \ {ip}, base)'
  <2>1. PICK f \in BOOLEAN : f = TRUE
    OBVIOUS
  <2>2. Take(h, f) /\ ip = (IF f THEN ip ELSE iq)
    BY <2>1
  <2>3. GoesNext(L, Waiting(ip, ep, iq, N), ip, base, w)
    BY <1>6, <1>7, Zenon DEF GoesNext
  <2>4. Took(L, Waiting(ip, ep, iq, N), P, o, ip, base, ip, iq, f)
    <3>1. Taker(L, O, base, ip, ep, iq, N, w, h, f, o, ip, P)
      BY <1>1, <1>5, <1>6, <1>8, <1>9, <2>2, <2>3, Zenon DEF Taker
    <3> QED BY <3>1, Taking, Zenon
  <2> QED BY <1>2, <2>1, <2>4, Zenon DEF Took
<1>11. Waiting(ip, ep, iq, N) \ {ip} = Waiting(ip + 1, ep, iq, N)
  BY <1>2, <1>4 DEF Waiting
<1>12. o + 1 = Taken(ip + 1, ep, iq)
  BY <1>5 DEF Taken
<1>13. PICK jp \in Nat : jp = ip + 1
  OBVIOUS
<1>14. /\ base < jp /\ jp <= ep + 1 /\ s'.psize = ep + 1 - jp
       /\ Halves(L, P, Taken(jp, ep, iq), Waiting(jp, ep, iq, N))'
       /\ Merged(L, P, Taken(jp, ep, iq), Waiting(jp, ep, iq, N), base)'
       /\ s'.p = At(L, jp)'
  <2>1. base < jp /\ jp <= ep + 1 /\ s'.psize = ep + 1 - jp
    <3>1. s'.psize = s.psize - 1 /\ s.psize = ep + 1 - ip /\ base < ip /\ ip <= ep
      BY <1>2, <1>4, <1>10, Zenon
    <3> QED BY <1>13, <3>1
  <2> QED BY <1>10, <1>11, <1>12, <1>13, <2>1, Zenon
<1>15. s.nmerges > 0 /\ base = (2 * s.insize) * (s.nmerges - 1)
  BY Zenon DEF InMerge
<1>16. InMerge(L, P, base, jp, ep, iq, N)'
  BY <1>1, <1>2, <1>10, <1>14, <1>15, Zenon DEF InMerge
<1>17. PassInv' /\ EndInv'
  BY <1>10, <1>13, <1>16 DEF PassInv, EndInv, Returns
<1> QED BY <1>10, <1>17 DEF SortInv

(* The second run gives its first cell when the first is empty or has to   *)
(* wait.                                                                   *)
LEMMA TakeQ ==
  ASSUME HeapOK, LocalsOK, pc = "sort", s.phase = "merge",
         NEW L, NEW O, NEW base \in Nat, NEW ip \in Nat, NEW ep \in Nat,
         NEW iq \in Nat, NEW N \in Nat, InMerge(L, O, base, ip, ep, iq, N),
         NEW h, Agrees(h), Take(h, FALSE), ~QEmpty, PEmpty \/ Ord(L[iq], L[ip])
  PROVE  SortInv'
<1>1. PICK w \in Nat : w = s.insize
  BY DEF LocalsOK
<1>a. Order(L) /\ L \in [1..N -> Cells] /\ MergeNumbers(base, ip, ep, iq, N, w) /\ PairOrder(L, base, N, w)
  BY <1>1, MergeFacts, Zenon
<1>2. /\ N = Size /\ w > 0 /\ Order(L) /\ L \in [1..N -> Cells]
      /\ base < ip /\ ip <= ep + 1 /\ ep < iq /\ iq <= N + 1
      /\ ep = base + w \/ (ep = N /\ N < base + w)
      /\ s.psize = ep + 1 - ip /\ s.qsize = w - (iq - ep - 1) /\ s.qsize >= 0
      /\ (s.q = NIL <=> iq > N)
  BY <1>a, Zenon DEF MergeNumbers
<1>3. \A i, j \in 1..N : i < j =>
        /\ base < i /\ j <= base + w => Ord(L[i], L[j])
        /\ base + w < i /\ j <= base + 2 * w => Ord(L[i], L[j])
        /\ i <= base + 2 * w /\ base + 2 * w < j => Rank(L[i]) < Rank(L[j])
  BY <1>a, Zenon DEF PairOrder
<1>4. iq <= N /\ ep = base + w /\ iq <= base + 2 * w /\ iq \in 1..N
  BY <1>2 DEF QEmpty
<1>5. PICK o \in Nat : o = Taken(ip, ep, iq)
  BY <1>2 DEF Taken
<1>6. o < N /\ base <= o /\ o < base + 2 * w /\ iq <= base + 2 * w
  BY <1>2, <1>4, <1>5 DEF Taken
<1>7. ASSUME NEW r \in Waiting(ip, ep, iq, N) \ {iq}
      PROVE  IF r > base + 2 * w THEN Rank(L[iq]) < Rank(L[r]) ELSE Ord(L[iq], L[r])
  <2>1. r \in 1..N /\ ((ip <= r /\ r <= ep) \/ iq < r)
    BY <1>2, <1>4 DEF Waiting
  <2>2. CASE iq < r
    <3>1. CASE r > base + 2 * w
      BY <1>3, <1>4, <2>1, <2>2, <3>1
    <3>2. CASE r <= base + 2 * w
      <4>1. base + w < iq /\ ~(r > base + 2 * w)
        BY <1>2, <1>4, <2>1, <3>2
      <4> QED BY <1>3, <1>4, <2>1, <2>2, <3>2, <4>1
    <3> QED BY <2>1, <3>1, <3>2
  <2>3. CASE ip <= r /\ r <= ep
    <3>1. ip \in 1..N /\ s.psize # 0 /\ r <= base + w /\ ~(r > base + 2 * w)
      BY <1>2, <1>4, <2>1, <2>3
    <3>2. Ord(L[iq], L[ip])
      BY <3>1 DEF PEmpty
    <3>3. CASE r = ip
      BY <3>1, <3>2, <3>3
    <3>4. CASE ip < r
      <4>1. Ord(L[ip], L[r])
        BY <1>2, <1>3, <2>1, <3>1, <3>4
      <4>2. L[ip] \in Cells /\ L[iq] \in Cells /\ L[r] \in Cells
        BY <1>2, <1>4, <2>1, <3>1
      <4>3. Ord(L[iq], L[r])
        BY <3>2, <4>1, <4>2, OrdTransitive
      <4> QED BY <3>1, <4>3
    <3> QED BY <2>1, <2>3, <3>3, <3>4
  <2> QED BY <2>1, <2>2, <2>3
<1>8. iq \in Waiting(ip, ep, iq, N)
  BY <1>4 DEF Waiting
<1>9. PICK P : P = [O EXCEPT ![o + 1] = L[iq]]
  OBVIOUS
<1>10. /\ HeapOK' /\ LocalsOK' /\ N = Size' /\ pc' = pc
       /\ s'.phase = s.phase /\ s'.insize = s.insize /\ s'.nmerges = s.nmerges
       /\ s'.q = At(L, iq + 1)' /\ s'.qsize = s.qsize - 1
       /\ s'.p = At(L, ip)' /\ s'.psize = s.psize
       /\ Halves(L, P, o + 1, Waiting(ip, ep, iq, N) \ {iq})'
       /\ Merged(L, P, o + 1, Waiting(ip, ep, iq, N) \ {iq}, base)'
  <2>1. PICK f \in BOOLEAN : f = FALSE
    OBVIOUS
  <2>2. Take(h, f) /\ iq = (IF f THEN ip ELSE iq)
    BY <2>1
  <2>3. GoesNext(L, Waiting(ip, ep, iq, N), iq, base, w)
    BY <1>6, <1>7, Zenon DEF GoesNext
  <2>4. Took(L, Waiting(ip, ep, iq, N), P, o, iq, base, ip, iq, f)
    <3>1. Taker(L, O, base, ip, ep, iq, N, w, h, f, o, iq, P)
      BY <1>1, <1>5, <1>6, <1>8, <1>9, <2>2, <2>3, Zenon DEF Taker
    <3> QED BY <3>1, Taking, Zenon
  <2> QED BY <1>2, <2>1, <2>4, Zenon DEF Took
<1>11. Waiting(ip, ep, iq, N) \ {iq} = Waiting(ip, ep, iq + 1, N)
  BY <1>2, <1>4 DEF Waiting
<1>12. o + 1 = Taken(ip, ep, iq + 1)
  BY <1>5 DEF Taken
<1>13. PICK jq \in Nat : jq = iq + 1
  OBVIOUS
<1>14. /\ ep < jq /\ jq <= N + 1 /\ s'.qsize = w - (jq - ep - 1) /\ s'.qsize >= 0
       /\ Halves(L, P, Taken(ip, ep, jq), Waiting(ip, ep, jq, N))'
       /\ Merged(L, P, Taken(ip, ep, jq), Waiting(ip, ep, jq, N), base)'
       /\ s'.q = At(L, jq)'
  <2>1. s.qsize # 0
    BY DEF QEmpty
  <2>2. ep < jq /\ jq <= N + 1 /\ s'.qsize = w - (jq - ep - 1) /\ s'.qsize >= 0
    <3>1. s'.qsize = s.qsize - 1 /\ s.qsize = w - (iq - ep - 1) /\ s.qsize >= 0 /\ ep < iq /\ iq <= N
      BY <1>2, <1>4, <1>10, Zenon
    <3> QED BY <1>13, <2>1, <3>1
  <2> QED BY <1>10, <1>11, <1>12, <1>13, <2>2, Zenon
<1>15. s.nmerges > 0 /\ base = (2 * s.insize) * (s.nmerges - 1)
  BY Zenon DEF InMerge
<1>16. InMerge(L, P, base, ip, ep, jq, N)'
  BY <1>1, <1>2, <1>10, <1>14, <1>15, Zenon DEF InMerge
<1>17. PassInv' /\ EndInv'
  BY <1>10, <1>13, <1>16 DEF PassInv, EndInv, Returns
<1> QED BY <1>10, <1>17 DEF SortInv

(* What the invariant says while two runs are merged.                      *)
LEMMA InTheMerge ==
  ASSUME SortInv, pc = "sort", s.phase = "merge"
  PROVE  /\ HeapOK /\ LocalsOK
         /\ \E L, O : \E base, ip, ep, iq, N \in Nat : InMerge(L, O, base, ip, ep, iq, N)
BY DEF SortInv, PassInv

(* The heap as it is agrees with itself.                                   *)
LEMMA SameAgrees ==
  ASSUME HeapOK
  PROVE  Agrees(heap)
BY DEF HeapOK, Agrees

(* With a cell in each run, the comparison decides; on a tie the first     *)
(* run's cell, which was first before, stays first.                        *)
LEMMA CompareStep ==
  ASSUME SortInv, Comparing, NEW h, Agrees(h), Ready(s.p), Ready(s.q),
         NEW first \in BOOLEAN, first <=> (Key(s.p) <= Key(s.q)), Take(h, first)
  PROVE  SortInv'
<1>1. /\ pc = "sort" /\ s.phase = "merge" /\ ~PEmpty /\ ~QEmpty
      /\ HeapOK /\ LocalsOK
  BY DEF Comparing, SortInv
<1>2. PICK L, O : \E base, ip, ep, iq, N \in Nat : InMerge(L, O, base, ip, ep, iq, N)
  BY <1>1, InTheMerge, Zenon
<1>3. PICK base \in Nat, ip \in Nat, ep \in Nat, iq \in Nat, N \in Nat : InMerge(L, O, base, ip, ep, iq, N)
  BY <1>2, Zenon
<1>4. PICK w \in Nat : w = s.insize
  BY <1>1 DEF LocalsOK
<1>5. Order(L) /\ L \in [1..N -> Cells] /\ MergeNumbers(base, ip, ep, iq, N, w) /\ PairOrder(L, base, N, w)
  BY <1>1, <1>3, <1>4, MergeFacts, Zenon
<1>6. /\ ip \in 1..N /\ iq \in 1..N /\ ip < iq /\ ip <= base + w /\ base + w < iq
      /\ ip \in Nat \ {0} /\ iq \in Nat \ {0} /\ N = Size
  BY <1>1, <1>5 DEF MergeNumbers, PEmpty, QEmpty
<1>7. s.p = At(L, ip) /\ s.q = At(L, iq)
  BY <1>3, Zenon DEF InMerge
<1>8. s.p = L[ip] /\ s.q = L[iq] /\ L[ip] \in Cells /\ L[iq] \in Cells
  BY <1>5, <1>6, <1>7 DEF At
<1>9. Rank(L[ip]) < Rank(L[iq])
  BY <1>5, <1>6 DEF PairOrder
<1>10. Key(L[ip]) \in Int /\ Key(L[iq]) \in Int
  BY <1>1, <1>8, CellData
<1>11. CASE first
  <2>1. Key(L[ip]) <= Key(L[iq]) /\ Take(h, TRUE)
    BY <1>8, <1>11
  <2>2. Ord(L[ip], L[iq])
    BY <1>8, <1>9, <1>10, <2>1 DEF Ord
  <2> QED BY <1>1, <1>3, <2>1, <2>2, TakeP
<1>12. CASE ~first
  <2>1. ~(Key(L[ip]) <= Key(L[iq])) /\ Take(h, FALSE)
    BY <1>8, <1>12
  <2>2. Ord(L[iq], L[ip])
    BY <1>8, <1>10, <2>1 DEF Ord
  <2> QED BY <1>1, <1>3, <2>1, <2>2, TakeQ
<1> QED BY <1>11, <1>12

(* With one run empty there is nothing to compare.                         *)
LEMMA RestStep ==
  ASSUME SortInv, SortTakeRest
  PROVE  SortInv'
<1>1. pc = "sort" /\ s.phase = "merge" /\ PEmpty # QEmpty /\ Take(heap, ~PEmpty) /\ HeapOK /\ LocalsOK
  BY DEF SortTakeRest, SortInv
<1>2. PICK h : h = heap
  OBVIOUS
<1>3. Agrees(h)
  BY <1>1, <1>2, SameAgrees
<1>4. PICK L, O : \E base, ip, ep, iq, N \in Nat : InMerge(L, O, base, ip, ep, iq, N)
  BY <1>1, InTheMerge, Zenon
<1>5. PICK base \in Nat, ip \in Nat, ep \in Nat, iq \in Nat, N \in Nat : InMerge(L, O, base, ip, ep, iq, N)
  BY <1>4, Zenon
<1>6. CASE ~PEmpty
  <2>1. QEmpty /\ (~PEmpty) = TRUE
    BY <1>1, <1>6 DEF PEmpty, QEmpty
  <2>2. Take(h, TRUE)
    BY <1>1, <1>2, <2>1
  <2> QED BY <1>1, <1>3, <1>5, <1>6, <2>1, <2>2, TakeP
<1>7. CASE PEmpty
  <2>1. ~QEmpty /\ (~PEmpty) = FALSE
    BY <1>1, <1>7 DEF PEmpty, QEmpty
  <2>2. Take(h, FALSE)
    BY <1>1, <1>2, <2>1
  <2> QED BY <1>1, <1>3, <1>5, <1>7, <2>1, <2>2, TakeQ
<1> QED BY <1>6, <1>7

(* The cells that are compared.                                            *)
LEMMA Compared ==
  ASSUME SortInv, Comparing
  PROVE  s.p \in Cells /\ s.q \in Cells /\ HeapOK /\ LocalsOK
<1>1. /\ pc = "sort" /\ s.phase = "merge" /\ ~PEmpty /\ ~QEmpty
      /\ HeapOK /\ LocalsOK
  BY DEF Comparing, SortInv
<1>2. PICK L, O : \E base, ip, ep, iq, N \in Nat : InMerge(L, O, base, ip, ep, iq, N)
  BY <1>1, InTheMerge, Zenon
<1>3. PICK base \in Nat, ip \in Nat, ep \in Nat, iq \in Nat, N \in Nat : InMerge(L, O, base, ip, ep, iq, N)
  BY <1>2, Zenon
<1>4. PICK w \in Nat : w = s.insize
  BY <1>1 DEF LocalsOK
<1>5. L \in [1..N -> Cells] /\ MergeNumbers(base, ip, ep, iq, N, w)
  BY <1>1, <1>3, <1>4, MergeFacts, Zenon
<1>6. ip \in 1..N /\ iq \in 1..N /\ N = Size
  BY <1>1, <1>5 DEF MergeNumbers, PEmpty, QEmpty
<1>7. s.p = At(L, ip) /\ s.q = At(L, iq)
  BY <1>3, Zenon DEF InMerge
<1> QED BY <1>1, <1>5, <1>6, <1>7 DEF At

(* cmp_idx regenerates both items, which leaves every index alone.         *)
LEMMA IdxStep ==
  ASSUME SortInv, SortTakeByIdx
  PROVE  SortInv'
<1>1. Comparing /\ s.by = "idx"
  BY DEF SortTakeByIdx
<1>2. s.p \in Cells /\ s.q \in Cells /\ HeapOK /\ LocalsOK
  BY <1>1, Compared
<1> DEFINE cells == DOMAIN heap.next
           items == DOMAIN heap.data
           two == {heap.info[s.p], heap.info[s.q]}
           fresh == [x \in items |-> IF x \in two THEN Regenerated(heap.data[x]) ELSE heap.data[x]]
<1>3. PICK h : h = [heap EXCEPT !.data = fresh] /\ Take(h, Datum(h, s.p).idx <= Datum(h, s.q).idx)
  BY DEF SortTakeByIdx
<1>4. heap.info[s.p] \in items /\ heap.info[s.q] \in items
  BY <1>2, CellData
<1>5. /\ heap.next \in [cells -> cells \cup {NIL}] /\ heap.info \in [cells -> items]
      /\ heap.data \in [items -> [data16 : Nat, idx : Int]] /\ heap.free \in Nat
      /\ heap = [next |-> heap.next, info |-> heap.info, data |-> heap.data, free |-> heap.free]
  BY <1>2 DEF HeapOK, Heaps
<1>6. \A d \in [data16 : Nat, idx : Int] :
        Regenerated(d) \in [data16 : Nat, idx : Int] /\ Regenerated(d).idx = d.idx
  <2> TAKE d \in [data16 : Nat, idx : Int]
  <2>1. 257 * (d.data16 \div 256) \in Nat
    OBVIOUS
  <2> QED BY <2>1 DEF Regenerated
<1> HIDE DEF items, cells, two
<1>7. fresh \in [items -> [data16 : Nat, idx : Int]] /\ \A z \in items : fresh[z].idx = heap.data[z].idx
  BY <1>5, <1>6
<1> HIDE DEF fresh
<1>8. /\ h.next = heap.next /\ h.info = heap.info /\ h.data = fresh /\ h.free = heap.free
      /\ h = [next |-> h.next, info |-> h.info, data |-> h.data, free |-> h.free]
  BY <1>3, <1>5
<1>9. Agrees(h)
  <2>1. h \in Heaps(cells, items)
    BY <1>5, <1>7, <1>8 DEF Heaps
  <2>2. \A z \in items : h.data[z].idx = heap.data[z].idx
    BY <1>7, <1>8
  <2> QED BY <1>1, <1>8, <2>1, <2>2 DEF Agrees, cells, items
<1>10. Key(s.p) = Datum(h, s.p).idx /\ Key(s.q) = Datum(h, s.q).idx
  BY <1>1, <1>4, <1>7, <1>8 DEF Key, Datum
<1>11. Ready(s.p) /\ Ready(s.q)
  BY <1>1 DEF Ready
<1>12. PICK first \in BOOLEAN : first <=> (Key(s.p) <= Key(s.q))
  OBVIOUS
<1>13. Take(h, first)
  <2>1. first = (Datum(h, s.p).idx <= Datum(h, s.q).idx)
    BY <1>10, <1>12
  <2> QED BY <1>3, <2>1
<1> QED BY <1>1, <1>9, <1>11, <1>12, <1>13, CompareStep

(* cmp_complex, when both values are there.                                *)
LEMMA ComplexStep ==
  ASSUME SortInv, SortTakeComplex
  PROVE  SortInv'
<1>1. /\ Comparing /\ s.by = "complex" /\ Cached(Datum(heap, s.p)) /\ Cached(Datum(heap, s.q))
      /\ Take(heap, CachedValue(Datum(heap, s.p)) <= CachedValue(Datum(heap, s.q)))
  BY DEF SortTakeComplex
<1>2. HeapOK
  BY DEF SortInv
<1>3. PICK h : h = heap
  OBVIOUS
<1>4. Agrees(h)
  BY <1>2, <1>3, SameAgrees
<1>5. Ready(s.p) /\ Ready(s.q)
  BY <1>1 DEF Ready
<1>6. PICK first \in BOOLEAN : first <=> (Key(s.p) <= Key(s.q))
  OBVIOUS
<1>7. Take(h, first)
  <2>1. first = (CachedValue(Datum(heap, s.p)) <= CachedValue(Datum(heap, s.q)))
    BY <1>1, <1>6 DEF Key
  <2> QED BY <1>1, <1>3, <2>1
<1> QED BY <1>1, <1>4, <1>5, <1>6, <1>7, CompareStep

(* Both runs are used up: what is merged is the first cells of L, to the   *)
(* end of the pair or of the list.                                         *)
LEMMA NextRunStep ==
  ASSUME SortInv, SortNextRun
  PROVE  SortInv'
<1>1. /\ pc = "sort" /\ s.phase = "merge" /\ PEmpty /\ QEmpty /\ UNCHANGED <<pc, heap, chain>>
      /\ HeapOK /\ LocalsOK
  BY DEF SortNextRun, SortInv
<1>2. PICK L, O : \E base, ip, ep, iq, N \in Nat : InMerge(L, O, base, ip, ep, iq, N)
  BY <1>1, InTheMerge, Zenon
<1>3. PICK base \in Nat, ip \in Nat, ep \in Nat, iq \in Nat, N \in Nat : InMerge(L, O, base, ip, ep, iq, N)
  BY <1>2, Zenon
<1>4. PICK w \in Nat : w = s.insize
  BY <1>1 DEF LocalsOK
<1>5. MergeNumbers(base, ip, ep, iq, N, w)
  BY <1>1, <1>3, <1>4, MergeFacts, Zenon
<1>6. ip = ep + 1 /\ ep < iq /\ iq <= N + 1 /\ N = Size /\ N > 0 /\ base <= ep
  BY <1>1, <1>5 DEF MergeNumbers, PEmpty
<1>7. PICK o \in Nat : o = iq - 1
  BY <1>6
<1>8. Taken(ip, ep, iq) = o /\ Waiting(ip, ep, iq, N) = (o + 1)..N
  BY <1>6, <1>7 DEF Taken, Waiting
<1>9. /\ Halves(L, O, o, (o + 1)..N) /\ Merged(L, O, o, (o + 1)..N, base)
      /\ s.nmerges > 0 /\ base = (2 * s.insize) * (s.nmerges - 1) /\ s.q = At(L, iq)
  BY <1>3, <1>8, Zenon DEF InMerge
<1>10. (o = base + 2 * w \/ o = N) /\ (o = N => N <= base + 2 * w)
  <2>1. CASE s.qsize = 0
    BY <1>5, <1>7, <2>1 DEF MergeNumbers
  <2>2. CASE s.q = NIL
    BY <1>5, <1>7, <2>2 DEF MergeNumbers
  <2> QED BY <1>1, <2>1, <2>2 DEF QEmpty
<1>11. \A r \in (o + 1)..N : r > base + 2 * w
  BY <1>7, <1>10
<1>12. Merged(L, O, o, (o + 1)..N, o)
  <2>1. ASSUME NEW i \in 1..o, NEW r \in (o + 1)..N
        PROVE  IF i <= o \/ r > o + 2 * s.insize THEN Rank(O[i]) < Rank(L[r]) ELSE Ord(O[i], L[r])
    <3>1. i <= o
      BY <1>7
    <3>2. r > base + 2 * s.insize
      BY <1>4, <1>11
    <3> QED BY <1>9, <3>1, <3>2 DEF Merged
  <2> QED BY <1>9, <2>1 DEF Merged
<1>13. /\ LocalsOK' /\ s'.phase = "runs" /\ s'.p = s.q
       /\ UNCHANGED <<s.insize, s.nmerges, s.by, s.tail, s.list>>
  BY <1>1 DEF SortNextRun, LocalsOK
<1>14. DataKept
  BY <1>1, <1>13, SameHeap
<1>15. Halves(L, O, o, (o + 1)..N)' /\ Merged(L, O, o, (o + 1)..N, o)'
  BY <1>1, <1>9, <1>12, <1>13, <1>14, HalvesSame, MergedSame
<1>16. HeapOK' /\ Size' = N /\ \A i : At(L, i)' = At(L, i)
  BY <1>1, <1>6, <1>14, OrderKept
<1>17. o + 1 = iq
  BY <1>7
<1>18. base + 2 * w = (2 * s.insize) * s.nmerges
  <2>1. s.insize \in Nat /\ s.nmerges \in Nat
    BY <1>1 DEF LocalsOK
  <2>2. PICK k \in Nat : k = s.nmerges - 1
    BY <1>9, <2>1
  <2>3. s.nmerges = k + 1 /\ base = (2 * w) * k
    BY <1>4, <1>9, <2>1, <2>2
  <2>4. (2 * w) * (k + 1) = (2 * w) * k + 2 * w
    OBVIOUS
  <2> QED BY <1>4, <2>3, <2>4
<1>19. o = (2 * s.insize) * s.nmerges \/ (o = N /\ N <= (2 * s.insize) * s.nmerges)
  BY <1>10, <1>18
<1>20. InRuns(L, O, o, N)'
  BY <1>9, <1>13, <1>15, <1>16, <1>17, <1>19, Zenon DEF InRuns
<1>21. PassInv' /\ EndInv'
  BY <1>1, <1>13, <1>20 DEF PassInv, EndInv, Returns
<1> QED BY <1>13, <1>16, <1>21 DEF SortInv

(* When nothing waits the pass is over: the links are those of O.          *)
LEMMA PassEndsStep ==
  ASSUME SortInv, SortPassEnds
  PROVE  SortInv'
<1>1. /\ pc = "sort" /\ s.phase = "runs" /\ s.p = NIL /\ chain' = chain
      /\ heap' = [heap EXCEPT !.next[s.tail] = NIL] /\ HeapOK /\ LocalsOK
  BY DEF SortPassEnds, SortInv
<1>a. PICK L, O : \E o, N \in Nat : InRuns(L, O, o, N)
  BY <1>1 DEF SortInv, PassInv
<1>2. PICK o \in Nat, N \in Nat : InRuns(L, O, o, N)
  BY <1>a
<1>3. /\ Halves(L, O, o, (o + 1)..N) /\ Merged(L, O, o, (o + 1)..N, o) /\ N = Size /\ s.p = At(L, o + 1)
      /\ o = (2 * s.insize) * s.nmerges \/ (o = N /\ N <= (2 * s.insize) * s.nmerges)
  BY <1>2, Zenon DEF InRuns
<1>4. N \in Nat \ {0} /\ o <= N /\ Order(L) /\ O \in [1..N -> Cells]
  BY <1>1, <1>3, HalvesTypes, CellFacts
<1>5. o = N
  <2>1. o + 1 \in Nat \ {0}
    OBVIOUS
  <2>2. s.p = At(L, o + 1)
    BY <1>3, Zenon
  <2>3. N = Size
    BY <1>3, Zenon
  <2>4. o + 1 > N
    BY <1>1, <1>4, <2>1, <2>2, <2>3, AtFacts
  <2> QED BY <1>4, <2>4
<1>6. s.tail = O[N] /\ s.list = O[1] /\ O[N] \in Cells /\ O[N] \in DOMAIN heap.next
  <2>1. o # 0 /\ O[N] \in Cells
    BY <1>4, <1>5
  <2>2. Halves(L, O, o, (o + 1)..N)
    BY <1>3, Zenon
  <2> QED BY <1>1, <1>5, <2>1, <2>2, CellFacts DEF Halves
<1>7. heap'.next = [heap.next EXCEPT ![O[N]] = NIL] /\ heap' \in Heaps(DOMAIN heap.next, DOMAIN heap.data)
      /\ heap'.info = heap.info /\ heap'.data = heap.data
  <2>1. heap \in Heaps(DOMAIN heap.next, DOMAIN heap.data)
    BY <1>1 DEF HeapOK
  <2> QED BY <1>1, <1>6, <2>1 DEF Heaps
<1>8. LocalsOK' /\ s'.by = s.by /\ s'.list = s.list
      /\ IF s.nmerges <= 1 THEN pc' \in Returns
         ELSE pc' = "sort" /\ s'.phase = "pass" /\ s'.insize = 2 * s.insize
  <2>1. CASE s.nmerges <= 1
    BY <1>1, <2>1 DEF SortPassEnds, LocalsOK
  <2>2. CASE ~(s.nmerges <= 1)
    <3>1. PICK w : w = s.insize * 2
      OBVIOUS
    <3>2. w \in Nat \ {0} /\ w = 2 * s.insize
      BY <1>1, <3>1 DEF LocalsOK
    <3>3. s' = [s EXCEPT !.phase = "pass", !.insize = w] /\ pc' = pc
      BY <2>2, <3>1 DEF SortPassEnds
    <3> QED BY <1>1, <2>2, <3>2, <3>3 DEF LocalsOK
  <2> QED BY <2>1, <2>2
<1>9. DataKept
  BY <1>1, <1>7, <1>8 DEF DataKept
<1>10. HeapOK' /\ Size' = N /\ Cells' = Cells /\ (\A i : At(O, i)' = At(O, i)) /\ (Order(O)' <=> Order(O))
  <2>1. N = Size
    BY <1>3, Zenon
  <2> QED BY <1>1, <1>9, <2>1, OrderKept
<1>11. /\ \A i \in 1..(N - 1) : heap.next[O[i]] = O[i + 1]
       /\ \A i, j \in 1..N : O[i] = O[j] => i = j
       /\ \A c \in Cells : \E i \in 1..N : O[i] = c
  <2>1. Halves(L, O, N, (N + 1)..N) /\ (N + 1)..N = {}
    <3>1. Halves(L, O, o, (o + 1)..N)
      BY <1>3, Zenon
    <3> QED BY <1>4, <1>5, <3>1
  <2> QED BY <2>1 DEF Halves
<1>12. Whole(O)'
  <2>1. Order(O)
    <3>1. N = Size
      BY <1>3, Zenon
    <3> QED BY <1>4, <1>11, <3>1 DEF Order
  <2>2. ASSUME NEW i \in 1..N
        PROVE  heap'.next[O[i]] = At(O, i + 1)'
    <3>1. O[i] \in Cells /\ O[i] \in DOMAIN heap.next
      BY <1>1, <1>4, CellFacts
    <3>2. heap.next \in [DOMAIN heap.next -> DOMAIN heap.next \cup {NIL}]
      BY <1>1 DEF HeapOK, Heaps
    <3>3. CASE i = N
      BY <1>4, <1>6, <1>7, <1>10, <3>2, <3>3 DEF At
    <3>4. CASE i # N
      <4>1. i \in 1..(N - 1) /\ N \in 1..N /\ i + 1 <= N
        BY <1>4, <3>4
      <4>2. O[i] # O[N]
        BY <1>11, <3>4, <4>1
      <4>3. heap'.next[O[i]] = O[i + 1]
        BY <1>7, <1>11, <3>1, <3>2, <4>1, <4>2
      <4> QED BY <1>10, <4>1, <4>3 DEF At
    <3> QED BY <3>3, <3>4
  <2> QED BY <1>6, <1>8, <1>10, <2>1, <2>2 DEF Whole
<1>13. PICK W \in Nat \ {0} : W = 2 * s.insize
  BY <1>1 DEF LocalsOK
<1>14. Runs(O, N, W)
  BY <1>3, <1>5, <1>13, Zenon DEF Merged
<1>15. CASE s.nmerges <= 1
  <2>1. N <= W
    <3>1. s.nmerges = 0 \/ s.nmerges = 1
      BY <1>1, <1>15 DEF LocalsOK
    <3>2. N <= W * s.nmerges
      <4>1. N = W * s.nmerges \/ N <= W * s.nmerges
        BY <1>3, <1>5, <1>13, Zenon
      <4> QED BY <1>1, <3>1, <4>1 DEF LocalsOK
    <3>3. CASE s.nmerges = 0
      <4>1. W * 0 = 0
        BY <1>13
      <4> QED BY <1>4, <3>2, <3>3, <4>1
    <3>4. CASE s.nmerges = 1
      <4>1. W * 1 = W
        BY <1>13
      <4> QED BY <1>4, <3>2, <3>4, <4>1
    <3> QED BY <3>1, <3>3, <3>4
  <2>2. Aligned(0, W)
    <3>1. W * 0 = 0 /\ 0 \in Nat
      BY <1>13
    <3> QED BY <1>13, <3>1, Multiples, Zenon
  <2>3. ASSUME NEW i \in 1..N, NEW j \in 1..N, i < j
        PROVE  Ord(O[i], O[j])'
    <3>1. ~Boundary(i, j, W)
      <4>1. i \in Int /\ j \in Int /\ 0 < i /\ j <= 0 + W /\ 0 \in Int
        BY <1>4, <1>13, <2>1
      <4> QED BY <2>2, <4>1 DEF Aligned
    <3>2. Ord(O[i], O[j])
      BY <1>14, <2>3, <3>1 DEF Runs
    <3>3. O[i] \in Cells /\ O[j] \in Cells
      BY <1>4
    <3> QED BY <1>1, <1>9, <3>2, <3>3, OrderKept
  <2>4. EndInv'
    BY <1>10, <1>12, <2>3 DEF EndInv
  <2>5. PassInv'
    BY <1>8, <1>15 DEF PassInv, Returns
  <2> QED BY <1>8, <1>10, <2>4, <2>5 DEF SortInv
<1>16. CASE ~(s.nmerges <= 1)
  <2>1. Runs(O, N, W)'
    <3>1. N \in 0..Size /\ O \in [1..Size -> Cells]
      <4>1. N = Size
        BY <1>3, Zenon
      <4> QED BY <1>4, <4>1
    <3> QED BY <1>1, <1>9, <1>14, <3>1, RunsKept
  <2>2. Runs(O, Size, s.insize)'
    BY <1>8, <1>10, <1>13, <1>16, <2>1
  <2>3. PassInv'
    BY <1>8, <1>12, <1>16, <2>2 DEF PassInv
  <2>4. EndInv'
    BY <1>8, <1>16 DEF EndInv, Returns
  <2> QED BY <1>8, <1>10, <2>3, <2>4 DEF SortInv
<1> QED BY <1>15, <1>16

(* A value that was not there is computed: nothing that is sorted moves.   *)
LEMMA ComputedStep ==
  ASSUME SortInv, NEW retval \in ee_u16, Computed(retval)
  PROVE  SortInv'
<1> DEFINE cells == DOMAIN heap.next
           items == DOMAIN heap.data
<1>1. /\ Comparing /\ s.by = "complex" /\ ~Cached(heap.data[Uncached]) /\ UNCHANGED <<pc, s, chain>>
      /\ heap' = [heap EXCEPT !.data[Uncached] = WithResult(heap.data[Uncached], retval)]
  BY DEF Computed, Pending
<1>2. s.p \in Cells /\ s.q \in Cells /\ HeapOK /\ LocalsOK
  BY <1>1, Compared
<1>3. PICK x \in items : x = Uncached
  BY <1>2, CellData DEF Uncached
<1>4. /\ heap.next \in [cells -> cells \cup {NIL}] /\ heap.info \in [cells -> items]
      /\ heap.data \in [items -> [data16 : Nat, idx : Int]] /\ heap.free \in Nat
      /\ heap = [next |-> heap.next, info |-> heap.info, data |-> heap.data, free |-> heap.free]
  BY <1>2 DEF HeapOK, Heaps
<1>5. PICK d \in [data16 : Nat, idx : Int] : d = WithResult(heap.data[x], retval)
  <2>1. PICK b \in [data16 : Nat, idx : Int] : b = heap.data[x]
    BY <1>4
  <2>2. (256 * (b.data16 \div 256)) + 128 + (retval % 128) \in Nat
    <3>1. b.data16 \div 256 \in Nat /\ retval % 128 \in Nat
      BY DEF ee_u16
    <3> QED BY <3>1
  <2>3. WithResult(b, retval) \in [data16 : Nat, idx : Int]
    BY <2>2 DEF WithResult
  <2> QED BY <2>1, <2>3
<1> DEFINE fresh == [heap.data EXCEPT ![x] = d]
<1> HIDE DEF cells, items
<1>6. fresh \in [items -> [data16 : Nat, idx : Int]] /\ \A y \in items : y # x => fresh[y] = heap.data[y]
  BY <1>3, <1>4, <1>5
<1>7. /\ heap'.next = heap.next /\ heap'.info = heap.info /\ heap'.data = fresh /\ heap'.free = heap.free
      /\ heap' = [next |-> heap'.next, info |-> heap'.info, data |-> heap'.data, free |-> heap'.free]
  BY <1>1, <1>3, <1>4, <1>5
<1> HIDE DEF fresh
<1>8. DataKept
  <2>1. heap' \in Heaps(cells, items)
    BY <1>4, <1>6, <1>7 DEF Heaps
  <2>2. \A y \in items : Cached(heap.data[y]) => heap'.data[y] = heap.data[y]
    BY <1>1, <1>3, <1>6, <1>7
  <2> QED BY <1>1, <1>7, <2>1, <2>2 DEF DataKept, cells, items
<1>9. pc = "sort" /\ s.phase = "merge"
  BY <1>1 DEF Comparing
<1>10. PICK L, O : \E base, ip, ep, iq, N \in Nat : InMerge(L, O, base, ip, ep, iq, N)
  BY <1>9, InTheMerge, Zenon
<1>11. PICK base \in Nat, ip \in Nat, ep \in Nat, iq \in Nat, N \in Nat : InMerge(L, O, base, ip, ep, iq, N)
  BY <1>10, Zenon
<1>12. HeapOK' /\ Size' = Size /\ \A i : At(L, i)' = At(L, i)
  BY <1>2, <1>8, OrderKept
<1>13. /\ Halves(L, O, Taken(ip, ep, iq), Waiting(ip, ep, iq, N))
       /\ Merged(L, O, Taken(ip, ep, iq), Waiting(ip, ep, iq, N), base)
  BY <1>11, Zenon DEF InMerge
<1>14. /\ Halves(L, O, Taken(ip, ep, iq), Waiting(ip, ep, iq, N))'
       /\ Merged(L, O, Taken(ip, ep, iq), Waiting(ip, ep, iq, N), base)'
  BY <1>1, <1>2, <1>7, <1>8, <1>13, HalvesSame, MergedSame
<1>15. InMerge(L, O, base, ip, ep, iq, N)'
  BY <1>1, <1>11, <1>12, <1>14, Zenon DEF InMerge
<1>16. PassInv' /\ EndInv'
  BY <1>1, <1>9, <1>15 DEF PassInv, EndInv, Returns
<1>17. LocalsOK'
  BY <1>1, <1>2 DEF LocalsOK
<1> QED BY <1>12, <1>16, <1>17 DEF SortInv

(* Before the sort every cell is a run of its own.                         *)
LEMMA SortBegins ==
  ASSUME SortInit
  PROVE  SortInv
<1>1. HeapOK
  BY DEF SortInit, Sortable, HeapOK, Heaps, Size
<1>2. PICK N \in Nat \ {0} : N = Size
  BY <1>1, CellFacts
<1>3. /\ chain \in [1..N -> Cells] /\ \A i \in 1..N : chain[i] \in Cells /\ Rank(chain[i]) = i
      /\ 1 \in 1..N /\ chain[1] \in Int
  <2>1. \A i \in 1..N : chain[i] \in Cells /\ Rank(chain[i]) = i
    BY <1>1, <1>2, CellFacts
  <2>2. chain \in [1..N -> DOMAIN heap.next]
    BY <1>1, <1>2 DEF HeapOK, Size
  <2>3. 1 \in 1..N
    BY <1>2
  <2> QED BY <1>1, <2>1, <2>2, <2>3, CellData
<1>4. PICK by \in {"idx", "complex"}, back \in Returns : s = Locals(by, chain[1], back)
  BY DEF SortInit
<1>5. LocalsOK /\ s.phase = "pass" /\ s.list = chain[1] /\ s.insize = 1 /\ pc = "sort"
  BY <1>3, <1>4 DEF Locals, LocalsOK, SortInit, NIL
<1>6. Whole(chain)
  <2>1. Order(chain)
    BY <1>1, <1>2, <1>3 DEF Order, HeapOK, Cells
  <2>2. ASSUME NEW i \in 1..N
        PROVE  heap.next[chain[i]] = At(chain, i + 1)
    <3>1. heap.next[chain[i]] = IF i < N THEN chain[i + 1] ELSE NIL
      BY <1>2 DEF SortInit, Sortable, Size
    <3>2. i < N <=> i + 1 <= N
      BY <1>2
    <3> QED BY <1>2, <3>1, <3>2 DEF At
  <2> QED BY <1>2, <1>5, <2>1, <2>2 DEF Whole
<1>7. Runs(chain, Size, 1)
  <2> SUFFICES ASSUME NEW i \in 1..N, NEW j \in 1..N, i < j
               PROVE  Boundary(i, j, 1) /\ Rank(chain[i]) < Rank(chain[j])
    BY <1>2 DEF Runs
  <2>1. i <= i * 1 /\ i * 1 < j /\ i \in Nat
    OBVIOUS
  <2> QED BY <1>3, <2>1 DEF Boundary
<1>8. PassInv /\ EndInv
  BY <1>5, <1>6, <1>7 DEF PassInv, EndInv, Returns
<1> QED BY <1>1, <1>5, <1>8 DEF SortInv

(* A step that changes nothing.                                            *)
LEMMA SortStutters ==
  ASSUME SortInv, pc' = pc, heap' = heap, s' = s, chain' = chain
  PROVE  SortInv'
<1>1. HeapOK /\ LocalsOK
  BY DEF SortInv
<1>2. DataKept
  BY <1>1, SameHeap
<1>3. HeapOK' /\ Size' = Size /\ \A L, i : At(L, i)' = At(L, i)
  BY <1>1, <1>2, OrderKept
<1>4. LocalsOK'
  BY <1>1 DEF LocalsOK
<1>5. ASSUME NEW L, Whole(L)
      PROVE  /\ Whole(L)' /\ (Runs(L, Size, s.insize) => Runs(L, Size, s.insize)')
             /\ ((\A i, j \in 1..Size : i < j => Ord(L[i], L[j])) => \A i, j \in 1..Size : i < j => Ord(L[i], L[j])')
  <2>1. Order(L) /\ L \in [1..Size -> Cells] /\ Size \in 0..Size
    BY <1>1, <1>5, CellFacts DEF Whole, Order
  <2>2. Order(L)'
    BY <1>1, <1>2, <2>1, OrderKept
  <2>3. Whole(L)'
    BY <1>3, <1>5, <2>2 DEF Whole
  <2>4. Runs(L, Size, s.insize) => Runs(L, Size, s.insize)'
    BY <1>1, <1>2, <1>3, <2>1, RunsKept
  <2>5. \A i, j \in 1..Size : Ord(L[i], L[j]) => Ord(L[i], L[j])'
    BY <1>1, <1>2, <2>1, OrderKept
  <2> QED BY <2>3, <2>4, <2>5
<1>6. ASSUME NEW L, NEW O, NEW o, NEW U, NEW base, Halves(L, O, o, U), Merged(L, O, o, U, base)
      PROVE  Halves(L, O, o, U)' /\ Merged(L, O, o, U, base)'
  BY <1>1, <1>2, <1>6, HalvesSame, MergedSame
<1>7. EndInv'
  <2> SUFFICES ASSUME pc \in Returns
               PROVE  \E L : Whole(L)' /\ \A i, j \in 1..Size : i < j => Ord(L[i], L[j])'
    BY <1>3 DEF EndInv
  <2>1. PICK L : Whole(L) /\ \A i, j \in 1..Size : i < j => Ord(L[i], L[j])
    BY DEF SortInv, EndInv
  <2> QED BY <1>5, <2>1
<1>8. ASSUME pc = "sort"
      PROVE  PassInv'
  <2>1. CASE s.phase = "pass" /\ \E L : Whole(L) /\ Runs(L, Size, s.insize)
    BY <1>5, <2>1 DEF PassInv
  <2>2. CASE s.phase = "runs" /\ \E L, O : \E o, N \in Nat : InRuns(L, O, o, N)
    <3>1. ASSUME NEW L, NEW O, NEW o \in Nat, NEW N \in Nat, InRuns(L, O, o, N)
          PROVE  InRuns(L, O, o, N)'
      <4>1. Halves(L, O, o, (o + 1)..N) /\ Merged(L, O, o, (o + 1)..N, o)
        BY <3>1, Zenon DEF InRuns
      <4>2. Halves(L, O, o, (o + 1)..N)' /\ Merged(L, O, o, (o + 1)..N, o)'
        BY <1>6, <4>1, Zenon
      <4> QED BY <1>3, <3>1, <4>2, Zenon DEF InRuns
    <3> QED BY <2>2, <3>1 DEF PassInv
  <2>3. CASE s.phase = "count" /\ \E L, O : \E o, N \in Nat : InCount(L, O, o, N)
    <3>1. ASSUME NEW L, NEW O, NEW o \in Nat, NEW N \in Nat, InCount(L, O, o, N)
          PROVE  InCount(L, O, o, N)'
      <4>1. Halves(L, O, o, (o + 1)..N) /\ Merged(L, O, o, (o + 1)..N, o)
        BY <3>1, Zenon DEF InCount
      <4>2. Halves(L, O, o, (o + 1)..N)' /\ Merged(L, O, o, (o + 1)..N, o)'
        BY <1>6, <4>1, Zenon
      <4>3. At(L, o + 1)' = At(L, o + 1) /\ At(L, o + 1 + s.psize)' = At(L, o + 1 + s.psize)
        BY <1>3 DEF At
      <4> QED BY <1>3, <3>1, <4>2, <4>3, Zenon DEF InCount
    <3> QED BY <2>3, <3>1 DEF PassInv
  <2>4. CASE s.phase = "merge" /\ \E L, O : \E base, ip, ep, iq, N \in Nat : InMerge(L, O, base, ip, ep, iq, N)
    <3>1. ASSUME NEW L, NEW O, NEW base \in Nat, NEW ip \in Nat, NEW ep \in Nat, NEW iq \in Nat,
                 NEW N \in Nat, InMerge(L, O, base, ip, ep, iq, N)
          PROVE  InMerge(L, O, base, ip, ep, iq, N)'
      <4>1. /\ Halves(L, O, Taken(ip, ep, iq), Waiting(ip, ep, iq, N))
            /\ Merged(L, O, Taken(ip, ep, iq), Waiting(ip, ep, iq, N), base)
        BY <3>1, Zenon DEF InMerge
      <4>2. /\ Halves(L, O, Taken(ip, ep, iq), Waiting(ip, ep, iq, N))'
            /\ Merged(L, O, Taken(ip, ep, iq), Waiting(ip, ep, iq, N), base)'
        BY <1>6, <4>1, Zenon
      <4> QED BY <1>3, <3>1, <4>2, Zenon DEF InMerge
    <3> QED BY <2>4, <3>1 DEF PassInv
  <2> QED BY <1>8, <2>1, <2>2, <2>3, <2>4 DEF SortInv, PassInv
<1>9. PassInv'
  BY <1>8 DEF PassInv
<1> QED BY <1>3, <1>4, <1>7, <1>9 DEF SortInv

(* Every step keeps the invariant; once the sort has returned none is left. *)
LEMMA SortInvKept ==
  ASSUME SortInv, [SortNext]_sortvars
  PROVE  SortInv'
<1>1. CASE SortPass
  BY <1>1, PassStep
<1>2. CASE SortRun
  BY <1>2, RunStep
<1>3. CASE SortCount
  BY <1>3, CountStep
<1>4. CASE SortTakeRest
  BY <1>4, RestStep
<1>5. CASE SortTakeByIdx
  BY <1>5, IdxStep
<1>6. CASE SortTakeComplex
  BY <1>6, ComplexStep
<1>7. CASE SortNextRun
  BY <1>7, NextRunStep
<1>8. CASE SortPassEnds
  BY <1>8, PassEndsStep
<1>9. CASE \E retval \in ee_u16 : Computed(retval)
  BY <1>9, ComputedStep
<1>10. CASE UNCHANGED sortvars
  <2>1. pc' = pc /\ heap' = heap /\ s' = s /\ chain' = chain
    BY <1>10 DEF sortvars
  <2> QED BY <2>1, SortStutters
<1> QED BY <1>1, <1>2, <1>3, <1>4, <1>5, <1>6, <1>7, <1>8, <1>9, <1>10 DEF SortNext, SortStep

(* A list that is whole and in order is what SortIsStable asks for.        *)
LEMMA SortEnds ==
  ASSUME SortInv
  PROVE  SortIsStable
<1> SUFFICES ASSUME pc \in Returns
             PROVE  /\ s.list \in Cells
                    /\ {heap.next[c] : c \in Cells} = (Cells \ {s.list}) \cup {NIL}
                    /\ \A c \in Cells : heap.next[c] # NIL =>
                         \/ Key(c) < Key(heap.next[c])
                         \/ Key(c) = Key(heap.next[c]) /\ Earlier(c, heap.next[c])
  BY DEF SortIsStable, Cells, Size
<1>1. HeapOK
  BY DEF SortInv
<1>2. PICK L : Whole(L) /\ \A i, j \in 1..Size : i < j => Ord(L[i], L[j])
  BY DEF SortInv, EndInv
<1>3. Size \in Nat /\ 1 \in 1..Size /\ Size \in 1..Size
  BY <1>1, CellFacts
<1>4. /\ L \in [1..Size -> Cells] /\ \A i, j \in 1..Size : L[i] = L[j] => i = j
      /\ \A c \in Cells : \E i \in 1..Size : L[i] = c
      /\ s.list = L[1] /\ \A i \in 1..Size : heap.next[L[i]] = IF i + 1 <= Size THEN L[i + 1] ELSE NIL
  BY <1>2 DEF Whole, Order, At
<1>5. \A c \in Cells : c # NIL
  BY <1>1, CellData
<1>6. s.list \in Cells
  BY <1>3, <1>4
<1>7. ASSUME NEW c \in Cells
      PROVE  heap.next[c] \in (Cells \ {s.list}) \cup {NIL}
  <2>1. PICK i \in 1..Size : L[i] = c
    BY <1>4
  <2>2. CASE i + 1 <= Size
    <3>1. i + 1 \in 1..Size /\ i + 1 # 1
      BY <1>3, <2>2
    <3> QED BY <1>3, <1>4, <2>1, <2>2, <3>1
  <2>3. CASE ~(i + 1 <= Size)
    BY <1>4, <2>1, <2>3
  <2> QED BY <2>2, <2>3
<1>8. ASSUME NEW d \in (Cells \ {s.list}) \cup {NIL}
      PROVE  \E c \in Cells : heap.next[c] = d
  <2>1. CASE d = NIL
    <3>1. ~(Size + 1 <= Size) /\ L[Size] \in Cells
      BY <1>3, <1>4
    <3> QED BY <1>3, <1>4, <2>1, <3>1
  <2>2. CASE d \in Cells /\ d # s.list
    <3>1. PICK j \in 1..Size : L[j] = d
      BY <1>4, <2>2
    <3>2. j # 1
      BY <1>4, <2>2, <3>1
    <3>3. PICK i \in 1..Size : i + 1 = j
      <4>1. j - 1 \in 1..Size /\ (j - 1) + 1 = j
        BY <1>3, <3>2
      <4> QED BY <4>1
    <3>4. i + 1 <= Size
      BY <1>3, <3>3
    <3> QED BY <1>4, <3>1, <3>3, <3>4
  <2> QED BY <2>1, <2>2
<1>9. {heap.next[c] : c \in Cells} = (Cells \ {s.list}) \cup {NIL}
  BY <1>7, <1>8
<1>10. ASSUME NEW c \in Cells, heap.next[c] # NIL
       PROVE  \/ Key(c) < Key(heap.next[c])
              \/ Key(c) = Key(heap.next[c]) /\ Earlier(c, heap.next[c])
  <2>1. PICK i \in 1..Size : L[i] = c
    BY <1>4
  <2>2. i + 1 <= Size /\ heap.next[c] = L[i + 1]
    BY <1>4, <1>10, <2>1
  <2>3. PICK d \in Cells : d = heap.next[c] /\ d = L[i + 1]
    <3>1. i + 1 \in 1..Size
      BY <1>3, <2>2
    <3> QED BY <1>4, <2>2, <3>1
  <2>4. Ord(c, d)
    <3>1. i + 1 \in 1..Size /\ i < i + 1
      BY <1>3, <2>2
    <3> QED BY <1>2, <2>1, <2>3, <3>1
  <2>5. CASE Rank(c) < Rank(d)
    <3>1. /\ Rank(c) \in 1..Size /\ Rank(d) \in 1..Size /\ chain[Rank(c)] = c /\ chain[Rank(d)] = d
      BY <1>1, CellFacts
    <3>2. Rank(c) \in 1..(Rank(d) - 1)
      BY <1>3, <2>5, <3>1
    <3>3. Earlier(c, d)
      BY <3>1, <3>2 DEF Earlier, Size
    <3> QED BY <2>3, <2>4, <3>3 DEF Ord
  <2> QED BY <2>3, <2>4, <2>5 DEF Ord
<1> QED BY <1>6, <1>9, <1>10

(* core_list_mergesort sorts any list, stably, whatever the data and       *)
(* whatever calc_func computes: the list it returns leads through all the  *)
(* cells, each before the next by its key or, with the same key, as it did *)
(* before. The comparisons regenerate the data they look at, or fill in    *)
(* the values they are missing, while the list is being sorted.            *)
THEOREM SortStable == SortSpec => []SortIsStable
<1>1. SortInit => SortInv
  BY SortBegins
<1>2. SortInv /\ [SortNext]_sortvars => SortInv'
  BY SortInvKept
<1>3. SortInv => SortIsStable
  BY SortEnds
<1> QED BY <1>1, <1>2, <1>3, PTL DEF SortSpec

=============================================================================
