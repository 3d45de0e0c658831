------------------------------- MODULE Blocks ------------------------------
(* The memory that main of core_main.c lays out: an area for each context, *)
(* static, from the heap or on the stack, cut into one block for each      *)
(* algorithm that execs selects. The kernels write all over their blocks.  *)
EXTENDS Integers, FiniteSets, Sequences

CONSTANT Layouts   \* [method, multithread, execs, override, total]

ASSUME LayoutsAssumption ==
  Layouts \subseteq [method : {"MEM_STATIC", "MEM_MALLOC", "MEM_STACK"}, multithread : Nat,
                     execs : SUBSET {1, 2, 3}, override : Nat, total : Nat]

VARIABLE mem       \* the layout and what main has stored in results, or IdleMem

IdleMem == << >>

Spans(at, size) == at..(at + size - 1)

(* A static area is for one context only. execs with none of its three     *)
(* bits, which makes main divide by zero, is no input here.                *)
MemInit ==
  \E x \in Layouts :
    /\ x.method = "MEM_STATIC" => x.multithread = 1
    /\ x.execs # {}
    /\ mem = [in |-> x, area |-> << >>, size |-> 0, i |-> 1, j |-> 0, memblock |-> << >>]

TOTAL_DATA_SIZE == mem.in.total

AreaSize ==
  IF mem.in.method = "MEM_MALLOC" /\ mem.in.override # 0 THEN mem.in.override ELSE TOTAL_DATA_SIZE

(* Addresses of free memory: behind the areas that there are, or far off.  *)
portable_malloc ==
  {at \in {0, 5 * TOTAL_DATA_SIZE} \cup {mem.area[c] + AreaSize : c \in DOMAIN mem.area} :
     \A c \in DOMAIN mem.area : Spans(at, AreaSize) \cap Spans(mem.area[c], AreaSize) = {}}

(* A turn of the loop over the contexts: memblock[0] and size.             *)
AssignArea ==
  /\ Len(mem.area) < mem.in.multithread
  /\ \E at \in CASE mem.in.method = "MEM_STATIC" -> {0}
                 [] mem.in.method = "MEM_MALLOC" -> portable_malloc
                 [] mem.in.method = "MEM_STACK" -> {Len(mem.area) * TOTAL_DATA_SIZE} :
       mem' = [mem EXCEPT !.area = Append(@, at), !.size = AreaSize]

num_algorithms == Cardinality(mem.in.execs)

(* The areas are there and cut: results[0].size is each block's.           *)
CutAreas ==
  /\ Len(mem.area) = mem.in.multithread /\ mem.j = 0 /\ mem.i = 1
  /\ mem.memblock = << >>
  /\ mem' = [mem EXCEPT !.size = @ \div num_algorithms, !.memblock = [c \in DOMAIN mem.area |-> << >>]]

(* MUTANT: a block's place is its number, not how many are before it.      *)
AssignPointers_number ==
  /\ mem.memblock # << >> /\ mem.i <= 3
  /\ mem' = [mem EXCEPT !.i = @ + 1,
               !.memblock = [c \in DOMAIN mem.area |->
                               Append(@[c], IF mem.i \in mem.in.execs
                                            THEN {mem.area[c] + mem.size * (mem.i - 1)} ELSE {})]]

(* A turn of the loop over the algorithms: memblock[i] of every context,   *)
(* as the set of its value; empty when nothing is assigned.                *)
AssignPointers ==
  /\ mem.memblock # << >> /\ mem.i <= 3
  /\ mem' = [mem EXCEPT !.i = @ + 1,
               !.j = IF mem.i \in mem.in.execs THEN @ + 1 ELSE @,
               !.memblock = [c \in DOMAIN mem.area |->
                               Append(@[c], IF mem.i \in mem.in.execs
                                            THEN {mem.area[c] + mem.size * mem.j} ELSE {})]]

MemNext == AssignArea \/ CutAreas \/ AssignPointers

(* The layout on its own.                                                  *)
MemSpec == MemInit /\ [][MemNext]_mem

(* Whatever subset of the algorithms is selected, no byte is in two blocks *)
(* of any contexts, and each block is within its own context's area.       *)
BlocksApart ==
  mem # IdleMem /\ mem.memblock # << >> =>
    \A c \in DOMAIN mem.memblock : \A a \in DOMAIN mem.memblock[c] : \A at \in mem.memblock[c][a] :
      /\ Spans(at, mem.size) \subseteq Spans(mem.area[c], AreaSize)
      /\ \A d \in DOMAIN mem.memblock : \A b \in DOMAIN mem.memblock[d] : \A other \in mem.memblock[d][b] :
           <<c, a>> # <<d, b>> => Spans(at, mem.size) \cap Spans(other, mem.size) = {}

=============================================================================
