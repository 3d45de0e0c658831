------------------------------ MODULE CoreSort -----------------------------
(* core_list_mergesort (core_list_join.c), with its comparisons: the list  *)
(* is sorted in place, and the data change under the sort. A heap holds    *)
(* cells and data items; info gives each cell its item.                    *)
EXTENDS Integers, Sequences

VARIABLES
  pc,     \* where the program is
  heap,   \* the list's memory block
  s,      \* the locals of core_list_mergesort
  chain   \* ghost: the cells in the order before the sort

sortvars == <<pc, heap, s, chain>>

NIL == -1

Datum(h, cell) == h.data[h.info[cell]]

(* calc_func's cache: bit 7 says that the low seven bits are the result.   *)
Cached(d) == (d.data16 \div 128) % 2 = 1
CachedValue(d) == d.data16 % 128

(* MUTANT: the cached result is kept.                                      *)
Regenerated_not(d) == d

(* The datum with its result cached, and with its data regenerated from    *)
(* the backup in the high byte, as cmp_idx does.                           *)
WithResult(d, retval) == [d EXCEPT !.data16 = (256 * (@ \div 256)) + 128 + (retval % 128)]

Regenerated(d) == [d EXCEPT !.data16 = 257 * (@ \div 256)]

(* A call of the sort: what to compare, the list, and where to go on.      *)
Locals(by, list, back) ==
  [phase |-> "pass", by |-> by, list |-> list, p |-> NIL, q |-> NIL, tail |-> NIL,
   psize |-> 0, qsize |-> 0, insize |-> 1, nmerges |-> 0, back |-> back]

(* Next, a pass of the sort: runs of insize cells are merged in pairs.     *)
SortPass ==
  /\ pc = "sort" /\ s.phase = "pass"
  /\ s' = [s EXCEPT !.phase = "runs", !.p = s.list, !.list = NIL, !.tail = NIL, !.nmerges = 0]
  /\ UNCHANGED <<pc, heap, chain>>

SortRun ==
  /\ pc = "sort" /\ s.phase = "runs" /\ s.p # NIL
  /\ s' = [s EXCEPT !.phase = "count", !.nmerges = @ + 1, !.q = s.p, !.psize = 0]
  /\ UNCHANGED <<pc, heap, chain>>

(* One place along from p: a run is over after insize cells or at the end. *)
SortCount ==
  /\ pc = "sort" /\ s.phase = "count"
  /\ LET q == heap.next[s.q]
         over == q = NIL \/ s.psize + 1 = s.insize
     IN s' = [s EXCEPT !.psize = @ + 1, !.q = q, !.phase = IF over THEN "merge" ELSE @,
                       !.qsize = IF over THEN s.insize ELSE @]
  /\ UNCHANGED <<pc, heap, chain>>

PEmpty == s.psize = 0
QEmpty == s.qsize = 0 \/ s.q = NIL

(* The next element e of the merged list, taken from run p or from run q   *)
(* of heap h.                                                              *)
Take(h, fromP) ==
  LET e == IF fromP THEN s.p ELSE s.q
  IN /\ heap' = IF s.tail = NIL THEN h ELSE [h EXCEPT !.next[s.tail] = e]
     /\ s' = [s EXCEPT !.p = IF fromP THEN h.next[s.p] ELSE @,
                       !.q = IF fromP THEN @ ELSE h.next[s.q],
                       !.psize = IF fromP THEN @ - 1 ELSE @,
                       !.qsize = IF fromP THEN @ ELSE @ - 1,
                       !.list = IF s.tail = NIL THEN e ELSE @,
                       !.tail = e]
     /\ UNCHANGED <<pc, chain>>

Comparing == pc = "sort" /\ s.phase = "merge" /\ ~PEmpty /\ ~QEmpty

(* One run is empty: no comparison.                                        *)
SortTakeRest ==
  /\ pc = "sort" /\ s.phase = "merge" /\ PEmpty # QEmpty
  /\ Take(heap, ~PEmpty)

(* cmp_idx regenerates the data of the two items it compares.              *)
SortTakeByIdx ==
  /\ Comparing /\ s.by = "idx"
  /\ LET two == {heap.info[s.p], heap.info[s.q]}
         h == [heap EXCEPT !.data = [x \in DOMAIN heap.data |->
                 IF x \in two THEN Regenerated(heap.data[x]) ELSE heap.data[x]]]
     IN Take(h, Datum(h, s.p).idx <= Datum(h, s.q).idx)

(* MUTANT: on equal values the second run goes first.                      *)
SortTakeComplex_strict ==
  /\ Comparing /\ s.by = "complex"
  /\ Cached(Datum(heap, s.p)) /\ Cached(Datum(heap, s.q))
  /\ Take(heap, CachedValue(Datum(heap, s.p)) < CachedValue(Datum(heap, s.q)))

(* cmp_complex needs the values of both; Computed below supplies them.     *)
SortTakeComplex ==
  /\ Comparing /\ s.by = "complex"
  /\ Cached(Datum(heap, s.p)) /\ Cached(Datum(heap, s.q))
  /\ Take(heap, CachedValue(Datum(heap, s.p)) <= CachedValue(Datum(heap, s.q)))

SortNextRun ==
  /\ pc = "sort" /\ s.phase = "merge" /\ PEmpty /\ QEmpty
  /\ s' = [s EXCEPT !.phase = "runs", !.p = s.q]
  /\ UNCHANGED <<pc, heap, chain>>

(* MUTANT: the runs are not doubled.                                       *)
SortPassEnds_same ==
  /\ pc = "sort" /\ s.phase = "runs" /\ s.p = NIL
  /\ heap' = [heap EXCEPT !.next[s.tail] = NIL]
  /\ IF s.nmerges <= 1 THEN pc' = s.back /\ s' = s
     ELSE pc' = pc /\ s' = [s EXCEPT !.phase = "pass"]
  /\ UNCHANGED chain

SortPassEnds ==
  /\ pc = "sort" /\ s.phase = "runs" /\ s.p = NIL
  /\ heap' = [heap EXCEPT !.next[s.tail] = NIL]
  /\ IF s.nmerges <= 1 THEN pc' = s.back /\ s' = s
     ELSE pc' = pc /\ s' = [s EXCEPT !.phase = "pass", !.insize = @ * 2]
  /\ UNCHANGED chain

(* calc_func works on the first uncached item of the comparison; when it   *)
(* returns, its result is in the item.                                     *)
Uncached == heap.info[IF Cached(Datum(heap, s.p)) THEN s.q ELSE s.p]

Pending == Comparing /\ s.by = "complex" /\ ~Cached(heap.data[Uncached])

Computed(retval) ==
  /\ Pending
  /\ heap' = [heap EXCEPT !.data[Uncached] = WithResult(@, retval)]
  /\ UNCHANGED <<pc, s, chain>>

SortStep ==
  \/ SortPass \/ SortRun \/ SortCount \/ SortTakeRest \/ SortTakeByIdx \/ SortTakeComplex
  \/ SortNextRun \/ SortPassEnds

(* The sort by itself: any list, any data, any results of calc_func.       *)
Returns == {"inited", "sorted", "returned"}

(* The heap holds a list whose cells, all different, chain names in order. *)
Sortable ==
  LET cells == DOMAIN heap.next
      items == DOMAIN heap.data
  IN /\ cells \subseteq Nat
     /\ heap \in [next : [cells -> cells \cup {NIL}], info : [cells -> items],
                  data : [items -> [data16 : Nat, idx : Int]], free : Nat]
     /\ chain \in Seq(cells) /\ chain # << >>
     /\ \A i, j \in 1..Len(chain) : chain[i] = chain[j] => i = j
     /\ \A i \in 1..Len(chain) : heap.next[chain[i]] = IF i < Len(chain) THEN chain[i + 1] ELSE NIL

SortInit ==
  /\ pc = "sort" /\ Sortable
  /\ \E by \in {"idx", "complex"}, back \in Returns : s = Locals(by, chain[1], back)

ee_u16 == 0..(2^16 - 1)

SortNext == SortStep \/ \E retval \in ee_u16 : Computed(retval)

SortSpec == SortInit /\ [][SortNext]_sortvars

(***************************************************************************)
(* Properties.                                                             *)
(***************************************************************************)
(* What a sort compares by, and who was first before it.                   *)
Key(cell) == IF s.by = "idx" THEN Datum(heap, cell).idx ELSE CachedValue(Datum(heap, cell))

Earlier(c, d) == \E j \in 1..Len(chain) : chain[j] = d /\ \E i \in 1..(j - 1) : chain[i] = c

(* core_list_mergesort sorts, stably, whether the comparison regenerates   *)
(* the items it looks at or runs a kernel to learn their values: the list  *)
(* it returns leads through all the cells it was given, and each goes      *)
(* before the next by its key or, with the same key, as it did before.     *)
SortIsStable ==
  pc \in Returns =>
    LET cells == {chain[i] : i \in 1..Len(chain)}
    IN /\ s.list \in cells
       /\ {heap.next[c] : c \in cells} = (cells \ {s.list}) \cup {NIL}
       /\ \A c \in cells : LET d == heap.next[c] IN
            d # NIL => Key(c) < Key(d) \/ (Key(c) = Key(d) /\ Earlier(c, d))

=============================================================================
