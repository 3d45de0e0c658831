------------------------------ MODULE CoreMark -----------------------------
(* One context of the CoreMark benchmark, from main's seeds to main's      *)
(* validation (core_main.c), with the list kernel step by step             *)
(* (core_list_join.c) and, inside its comparisons, the matrix and state    *)
(* kernels. The data are the program's own: the CRCs of the model are the  *)
(* CRCs of the program.                                                    *)
EXTENDS CoreList, CoreState, CoreMatrix

CONSTANTS
  Args,    \* the command lines: records of three seeds, size and iterations
  Builds   \* the builds with seeds of their own: records of port, size and iterations

VARIABLES
  arg,    \* the command line, with main's defaults put in
  text,   \* the state kernel's memory block
  mat,    \* the matrix kernel's parameters
  res,    \* core_results: the list and the CRCs
  b,      \* the locals of iterate and core_bench_list
  kernel, \* the locals of core_bench_state or matrix_test while it runs
  past    \* ghost: the blocks as initialised

bench == <<arg, text, mat, res, b, kernel, past>>

vars == <<sortvars, bench>>

None == << >>

(* Which run is built for a size: the rule of the processor's port and of  *)
(* the hosted ones, and the rule of the simple and the barebones port.     *)
RunTypeHosted(total) == IF total = 1200 THEN "PROFILE_RUN" ELSE "PERFORMANCE_RUN"

RunTypeSimple(total) ==
  CASE total = 1200 -> "PROFILE_RUN"
    [] total = 2000 -> "PERFORMANCE_RUN"
    [] OTHER        -> "VALIDATION_RUN"

RunType(port, total) == IF port = "riscv" THEN RunTypeHosted(total) ELSE RunTypeSimple(total)

(* seed1_volatile to seed3_volatile.                                       *)
seed_volatile ==
  [VALIDATION_RUN |-> <<13333, 13333, 102>>, PERFORMANCE_RUN |-> <<0, 0, 102>>, PROFILE_RUN |-> <<8, 8, 8>>]

get_seed_32(build, i) ==
  CASE i \in 1..3 -> seed_volatile[RunType(build.port, build.total)][i]
    [] i = 4      -> build.iterations
    [] OTHER      -> 0

(* What main makes of a build's seeds.                                     *)
Built(build) ==
  [seed1 |-> get_seed_32(build, 1), seed2 |-> get_seed_32(build, 2), seed3 |-> get_seed_32(build, 3),
   total |-> build.total, iterations |-> get_seed_32(build, 4)]

(* main's defaults for the seeds "for easy testing".                       *)
DefaultSeeds(a) ==
  CASE a.seed1 = 0 /\ a.seed2 = 0 /\ a.seed3 = 0 -> [a EXCEPT !.seed3 = 102]
    [] a.seed1 = 1 /\ a.seed2 = 0 /\ a.seed3 = 0 ->
         [a EXCEPT !.seed1 = 13333, !.seed2 = 13333, !.seed3 = 102]
    [] OTHER -> a

(* All three algorithms run: a third of the memory block for each.         *)
BlockSize == arg.total \div 3

StartSort(by, list, back) ==
  /\ pc' = "sort"
  /\ s' = Locals(by, list, back)
  /\ chain' = Chain(heap'.next, list, heap'.free)

Init ==
  /\ pc = "main"
  /\ arg \in {DefaultSeeds(a) : a \in Args \cup {Built(build) : build \in Builds}}
  /\ heap = None /\ text = None /\ mat = None /\ s = None /\ kernel = None
  /\ res = [list |-> NIL, crc |-> 0, crclist |-> 0, crcmatrix |-> 0, crcstate |-> 0, err |-> 0]
  /\ b = [n |-> 0]
  /\ chain = << >> /\ past = [heap |-> None, text |-> None, mat |-> None]

(* "call inits": the matrix and the text, and the list's two ends.         *)
CallInits ==
  /\ pc = "main"
  /\ heap' = HeadAndTail(ListSize(BlockSize))
  /\ mat' = core_init_matrix(BlockSize, arg.seed1 + 65536 * arg.seed2)
  /\ text' = core_init_state(BlockSize, arg.seed1)
  /\ b' = [i |-> 0]
  /\ pc' = "insert"
  /\ UNCHANGED <<arg, res, s, chain, kernel, past>>

(* core_list_init inserts items after the head until no cell is free.      *)
InitInsert ==
  /\ pc = "insert"
  /\ IF b.i < ListSize(BlockSize)
     THEN /\ heap' = InsertItem(heap, ListSize(BlockSize), arg.seed1, b.i)
          /\ b' = [i |-> b.i + 1]
          /\ pc' = pc
     ELSE /\ b' = [i |-> 1, finder |-> heap.next[0]]
          /\ pc' = "index"
          /\ heap' = heap
  /\ UNCHANGED <<arg, text, mat, res, s, chain, kernel, past>>

(* It gives every item but the head and the tail its index, and sorts.     *)
InitIndex ==
  /\ pc = "index"
  /\ IF heap.next[b.finder] # NIL
     THEN /\ heap' = [heap EXCEPT !.data[heap.info[b.finder]].idx =
                         ItemIndex(ListSize(BlockSize), arg.seed1, b.i)]
          /\ b' = [i |-> b.i + 1, finder |-> heap.next[b.finder]]
          /\ UNCHANGED <<pc, s, chain>>
     ELSE heap' = heap /\ b' = b /\ StartSort("idx", 0, "inited")
  /\ UNCHANGED <<arg, text, mat, res, kernel, past>>

(* The list is ready; iterate clears the CRCs.                             *)
Inited ==
  /\ pc = "inited"
  /\ res' = [list |-> s.list, crc |-> 0, crclist |-> 0, crcmatrix |-> 0, crcstate |-> 0, err |-> 0]
  /\ past' = [past EXCEPT !.heap = heap, !.text = text, !.mat = mat]
  /\ b' = [n |-> 0]
  /\ pc' = "iterate"
  /\ UNCHANGED <<arg, heap, text, mat, s, chain, kernel>>

(* core_bench_list is entered with finder_idx.                             *)
CallBenchList(finder_idx) ==
  /\ pc' = "find"
  /\ b' = [n |-> b.n, finder_idx |-> finder_idx, i |-> 0, idx |-> finder_idx, list |-> res.list,
           found |-> 0, missed |-> 0, retval |-> 0, remover |-> NIL]

Iterate ==
  /\ pc = "iterate"
  /\ \/ b.n < arg.iterations /\ CallBenchList(1)
     \/ b.n = arg.iterations /\ pc' = "validate" /\ UNCHANGED b
  /\ UNCHANGED <<arg, heap, text, mat, res, s, chain, kernel, past>>

(* One turn of the find loop: look for the item, reverse the list, and     *)
(* move the item after the one found to the front.                         *)
Find ==
  /\ pc = "find" /\ b.i < arg.seed3
  /\ LET found == core_list_find(heap, b.list, b.idx, U8(b.i))
         r == core_list_reverse(heap.next, b.list)
         first == Datum(heap, r.next[r.list]).data16
         datum == Datum(heap, found).data16
         finder == r.next[found]
         cut == [r.next EXCEPT ![found] = r.next[finder]]
     IN IF found = NIL
        THEN /\ heap' = [heap EXCEPT !.next = r.next]
             /\ b' = [b EXCEPT !.i = @ + 1, !.list = r.list, !.missed = @ + 1,
                               !.idx = IF @ >= 0 THEN @ + 1 ELSE @,
                               !.retval = U16(@ + Bit(first, 8))]
        ELSE /\ heap' = [heap EXCEPT !.next =
                  IF finder = NIL THEN r.next
                  ELSE [cut EXCEPT ![finder] = cut[r.list], ![r.list] = finder]]
             /\ b' = [b EXCEPT !.i = @ + 1, !.list = r.list, !.found = @ + 1,
                               !.idx = IF @ >= 0 THEN @ + 1 ELSE @,
                               !.retval = U16(@ + (IF datum % 2 = 1 THEN Bit(datum, 9) ELSE 0))]
  /\ UNCHANGED <<pc, arg, text, mat, res, s, chain, kernel, past>>

(* After the finds: the list is sorted by value, in the first call only.   *)
Found ==
  /\ pc = "find" /\ b.i >= arg.seed3
  /\ b' = [b EXCEPT !.retval = U16(@ + 4 * b.found - b.missed)]
  /\ heap' = heap
  /\ IF b.finder_idx > 0 THEN StartSort("complex", b.list, "sorted")
     ELSE pc' = "remove" /\ UNCHANGED <<s, chain>>
  /\ UNCHANGED <<arg, text, mat, res, kernel, past>>

Sorted ==
  /\ pc = "sorted"
  /\ b' = [b EXCEPT !.list = s.list]
  /\ pc' = "remove"
  /\ UNCHANGED <<arg, heap, text, mat, res, s, chain, kernel, past>>

Remove ==
  /\ pc = "remove"
  /\ heap' = core_list_remove(heap, heap.next[b.list])
  /\ b' = [b EXCEPT !.remover = heap.next[heap.next[b.list]]]
  /\ pc' = "removed"
  /\ UNCHANGED <<arg, text, mat, res, s, chain, kernel, past>>

(* The first CRC, the removal undone, and the sort back by index.          *)
Undo ==
  /\ pc = "removed"
  /\ LET f == core_list_find(heap, b.list, b.idx, U8(arg.seed3 - 1))
         finder == IF f = NIL THEN heap.next[b.list] ELSE f
     IN b' = [b EXCEPT !.retval = CrcWalk(heap, b.list, finder, @)]
  /\ heap' = core_list_undo_remove(heap, b.remover, heap.next[b.list])
  /\ StartSort("idx", b.list, "returned")
  /\ UNCHANGED <<arg, text, mat, res, kernel, past>>

(* core_bench_list returns to iterate, which calls it again with -1 or     *)
(* ends the turn.                                                          *)
BenchListReturns ==
  /\ pc = "returned"
  /\ LET crc == crcu16(CrcWalk(heap, s.list, heap.next[s.list], b.retval), res.crc)
     IN IF b.finder_idx > 0
        THEN res' = [res EXCEPT !.crc = crc] /\ CallBenchList(-1)
        ELSE /\ res' = [res EXCEPT !.crc = crc, !.crclist = IF b.n = 0 THEN crc ELSE @]
             /\ b' = [n |-> b.n + 1]
             /\ pc' = "iterate"
  /\ UNCHANGED <<arg, heap, text, mat, s, chain, kernel, past>>

(***************************************************************************)
(* calc_func, in the comparisons of core_list_mergesort.                   *)
(***************************************************************************)
CalcPending(op) == Pending /\ Operation(heap.data[Uncached]) \in op

CalcReturns(retval, r) == Computed(retval) /\ res' = [r EXCEPT !.crc = crcu16(retval, res.crc)]

(* The smallest step for the corruption, hexadecimal 22.                   *)
CorruptStep == IF Parameter(heap.data[Uncached]) < 34 THEN 34 ELSE Parameter(heap.data[Uncached])

InKernel(of) == kernel # None /\ kernel.of = of

(* core_bench_state is entered: counters cleared, first pass from the      *)
(* start of the block.                                                     *)
CalcState ==
  /\ CalcPending({0}) /\ kernel = None
  /\ kernel' = [of |-> "state", pass |-> 1, p |-> 0, final |-> ZeroCounts, track |-> ZeroCounts]
  /\ UNCHANGED <<pc, arg, heap, text, mat, res, b, s, chain, past>>

(* One token of a pass.                                                    *)
CalcStateScan ==
  /\ InKernel("state") /\ text[kernel.p] # 0
  /\ LET t == core_state_transition(text, kernel.p, kernel.track)
     IN kernel' = [kernel EXCEPT !.p = t.p, !.track = t.track, !.final[t.state] = @ + 1]
  /\ UNCHANGED <<pc, arg, heap, text, mat, res, b, s, chain, past>>

CalcStateCorrupt ==
  /\ InKernel("state") /\ text[kernel.p] = 0 /\ kernel.pass = 1
  /\ text' = Corrupt(text, arg.seed1, CorruptStep)
  /\ kernel' = [kernel EXCEPT !.pass = 2, !.p = 0]
  /\ UNCHANGED <<pc, arg, heap, mat, res, b, s, chain, past>>

CalcStateReturns ==
  /\ InKernel("state") /\ text[kernel.p] = 0 /\ kernel.pass = 2
  /\ text' = Corrupt(text, arg.seed2, CorruptStep)
  /\ LET crc == CrcCounts(kernel.final, kernel.track, res.crc)
     IN CalcReturns(crc, [res EXCEPT !.crcstate = IF @ = 0 THEN crc ELSE @])
  /\ kernel' = None
  /\ UNCHANGED <<arg, mat, b, past>>

(* core_bench_matrix calls matrix_test, which first changes A by val.      *)
CalcMatrix ==
  /\ CalcPending({1}) /\ kernel = None
  /\ LET val == Parameter(heap.data[Uncached])
     IN /\ mat' = [mat EXCEPT !.A = matrix_add_const(mat.N, @, val)]
        /\ kernel' = [of |-> "matrix", val |-> val, k |-> 1, C |-> None, crc |-> 0]
  /\ UNCHANGED <<pc, arg, heap, text, res, b, s, chain, past>>

(* One operation of matrix_test into C, and the sum of C into the CRC.     *)
CalcMatrixOperation ==
  /\ InKernel("matrix") /\ kernel.k <= 4
  /\ LET C == MatrixOperation(kernel.k, mat, kernel.C, kernel.val)
     IN kernel' = [kernel EXCEPT !.k = @ + 1, !.C = C,
          !.crc = crc16(matrix_sum(mat.N, C, matrix_big(kernel.val)), @)]
  /\ UNCHANGED <<pc, arg, heap, text, mat, res, b, s, chain, past>>

(* A is changed back, and the test's CRC folded into the caller's.         *)
CalcMatrixReturns ==
  /\ InKernel("matrix") /\ kernel.k = 5
  /\ mat' = [mat EXCEPT !.A = matrix_add_const(mat.N, @, -kernel.val)]
  /\ LET crc == crc16(kernel.crc, res.crc)
     IN CalcReturns(crc, [res EXCEPT !.crcmatrix = IF @ = 0 THEN crc ELSE @])
  /\ kernel' = None
  /\ UNCHANGED <<arg, text, b, past>>

CalcData ==
  /\ CalcPending(2..7)
  /\ CalcReturns(heap.data[Uncached].data16, res)
  /\ UNCHANGED <<arg, text, mat, b, kernel, past>>

(***************************************************************************)
(* main's validation.                                                      *)
(***************************************************************************)
list_known_crc == <<54448, 13120, 27257, 59156, 58305>>
matrix_known_crc == <<48722, 4505, 22024, 8151, 1863>>
state_known_crc == <<24135, 14783, 58788, 36410, 36228>>

(* The CRC of the seeds and of the size, by which main knows a run.        *)
seedcrc == crc16(BlockSize, crc16(arg.seed3, crc16(arg.seed2, crc16(arg.seed1, 0))))

known_id ==
  CASE seedcrc = 35330 -> 1
    [] seedcrc = 31493 -> 2
    [] seedcrc = 20143 -> 3
    [] seedcrc = 59893 -> 4
    [] seedcrc = 6386  -> 5
    [] OTHER           -> 0

One(cond) == IF cond THEN 1 ELSE 0

Validate ==
  /\ pc = "validate"
  /\ res' = [res EXCEPT !.err =
       IF known_id = 0 THEN -1
       ELSE One(res.crclist # list_known_crc[known_id])
            + One(res.crcmatrix # matrix_known_crc[known_id])
            + One(res.crcstate # state_known_crc[known_id])]
  /\ pc' = "done"
  /\ UNCHANGED <<arg, heap, text, mat, b, s, chain, kernel, past>>

Next ==
  \/ CallInits \/ InitInsert \/ InitIndex \/ Inited \/ Iterate \/ Find \/ Found \/ Sorted \/ Remove \/ Undo
  \/ BenchListReturns
  \/ (SortStep /\ UNCHANGED bench)
  \/ CalcState \/ CalcStateScan \/ CalcStateCorrupt \/ CalcStateReturns
  \/ CalcMatrix \/ CalcMatrixOperation \/ CalcMatrixReturns \/ CalcData
  \/ Validate

(* The processor runs the program until it ends.                           *)
Terminated == pc = "done" /\ UNCHANGED vars

(* Weak fairness of Next, written without ENABLED: Next is enabled just    *)
(* until the program has ended, which the check for deadlock confirms.     *)
Running == []<>(pc = "done") \/ []<><<TRUE>>_vars

Spec == Init /\ [][Next \/ Terminated]_vars /\ Running

(***************************************************************************)
(* Properties.                                                             *)
(***************************************************************************)
(* The list where the program holds it: in core_bench_list's local while   *)
(* it runs, in core_results between calls.                                 *)
CurrentList ==
  CASE pc \in {"inited", "sorted", "returned"}      -> s.list
    [] pc \in {"find", "remove"}                    -> b.list
    [] pc \in {"iterate", "validate", "done"}       -> res.list

(* Finding, reversing, moving to the front, sorting, removing and putting  *)
(* back never lose or duplicate a cell or a data item: wherever the list   *)
(* is whole, it visits every cell once and its items are all different.    *)
ListWhole ==
  pc \notin {"main", "insert", "index", "sort", "removed"} =>
    LET list == Chain(heap.next, CurrentList, heap.free + 1)
        used == 0..(heap.free - 1)
    IN /\ Len(list) = heap.free
       /\ {list[k] : k \in 1..Len(list)} = used
       /\ {heap.info[c] : c \in used} = used

(* Between two calls of core_bench_list the list is back to its original   *)
(* state, head included: the CRC of every turn depends on it.              *)
ListRestored ==
  pc = "iterate" => res.list = s.list /\ heap = past.heap

(* Outside its kernel's run each of the other two blocks is as it was      *)
(* initialised: the matrix is changed back, the corruption undone.         *)
KernelDataRestored ==
  past.text # None /\ kernel = None => text = past.text /\ mat = past.mat

(* core_list_mergesort is called with what it expects.                     *)
SortsCalledRight == pc = "sort" /\ s = Locals(s.by, chain[1], s.back) => Sortable

(* Nothing that an iteration does outlives it: ListWhole wherever the list *)
(* is whole, SortsCalledRight when a sort begins, ListRestored between     *)
(* calls and KernelDataRestored outside the kernels. Every CRC of the      *)
(* later iterations depends on it.                                         *)
Restored == ListWhole /\ SortsCalledRight /\ ListRestored /\ KernelDataRestored

(* The scan of the corrupted text always meets a terminator within the     *)
(* block: the corruption never reaches all the zeroes at its end.          *)
ScanStaysInBlock ==
  kernel # None /\ kernel.of = "state" => kernel.p \in DOMAIN text

(* The matrices A, B and C, each aligned, end before the state block.      *)
MatrixFits ==
  mat # None =>
    LET A == align_mem(BlockSize)
        C == align_mem(A + 4 * mat.N * mat.N)
    IN C + 4 * mat.N * mat.N <= 2 * BlockSize

(* No kernel leaves the block that main gave it: ScanStaysInBlock and      *)
(* MatrixFits.                                                             *)
KernelsStayInBlocks == ScanStaysInBlock /\ MatrixFits

(* The runs main knows end with the CRCs main knows.                       *)
KnownRunsValidate == pc = "done" /\ known_id # 0 => res.err = 0

(* The benchmark ends.                                                     *)
Ends == <>(pc = "done")

=============================================================================
