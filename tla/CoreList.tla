------------------------------ MODULE CoreList -----------------------------
(* The linked list of CoreMark (core_list_join.c) but for its sort. Cell   *)
(* and data item k of the heap are the k-th of their arrays. Both arrays   *)
(* are filled in step, so one index is the free pointer of both.           *)
EXTENDS Crc, CoreSort

(* core_list_init's bound on the number of cells, 20 bytes for each.       *)
ListSize(blksize) == (blksize \div 20) - 2

core_list_insert_new(h, size, at, item) ==
  IF h.free + 1 >= size THEN h
  ELSE [next |-> [h.next EXCEPT ![h.free] = h.next[at], ![at] = h.free],
        info |-> [h.info EXCEPT ![h.free] = h.free],
        data |-> [h.data EXCEPT ![h.free] = item],
        free |-> h.free + 1]

(* The data of the i-th item: the byte to compute with, and its backup.    *)
ItemData(seed, i) == 257 * ((8 * ((seed ^^ i) % 16)) + (i % 8))

InsertItem(h, size, seed, i) ==
  core_list_insert_new(h, size, 0, [data16 |-> ItemData(seed, i), idx |-> 32767])

(* MUTANT: one index more in order.                                        *)
ItemIndex_late(size, seed, i) ==
  IF i <= size \div 5 THEN i ELSE (((((i + 1) % 8) * 256) | (i ^^ seed)) & 16383)

(* The index of the i-th cell: the first fifth in order, the rest mixed.   *)
ItemIndex(size, seed, i) ==
  IF i < size \div 5 THEN i ELSE (((((i + 1) % 8) * 256) | (i ^^ seed)) & 16383)

(* core_list_init before its loops: the head, and the tail after it.       *)
HeadAndTail(size) ==
  LET cells == 0..(size - 1)
      head == [next |-> [c \in cells |-> NIL], info |-> [c \in cells |-> c],
               data |-> [c \in cells |-> [data16 |-> 32896, idx |-> 0]], free |-> 1]
  IN core_list_insert_new(head, size, 0, [data16 |-> 65535, idx |-> 32767])

(* core_list_find: by index when idx is not negative, else by low byte.    *)
RECURSIVE core_list_find(_, _, _, _)
core_list_find(h, list, idx, data16) ==
  IF list = NIL THEN NIL
  ELSE IF (idx >= 0 /\ Datum(h, list).idx = idx) \/ (idx < 0 /\ Datum(h, list).data16 % 256 = data16)
  THEN list
  ELSE core_list_find(h, h.next[list], idx, data16)

(* core_list_reverse: the links turned round from list on, done before it. *)
RECURSIVE ReverseOnto(_, _, _)
ReverseOnto(next, list, done) ==
  IF list = NIL THEN [next |-> next, list |-> done]
  ELSE ReverseOnto([next EXCEPT ![list] = done], next[list], list)

core_list_reverse(next, list) == ReverseOnto(next, list, NIL)

(* core_list_remove: the item after the given one leaves the list, and     *)
(* takes the given one's data with it.                                     *)
core_list_remove(h, item) ==
  LET ret == h.next[item]
  IN [h EXCEPT !.info[item] = h.info[ret], !.info[ret] = h.info[item],
               !.next[item] = h.next[ret], !.next[ret] = NIL]

core_list_undo_remove(h, removed, modified) ==
  [h EXCEPT !.info[removed] = h.info[modified], !.info[modified] = h.info[removed],
            !.next[removed] = h.next[modified], !.next[modified] = removed]

(* The CRC loops of core_bench_list: they walk from finder to the end, and *)
(* at every cell take the datum of the list head.                          *)
CrcWalk(h, list, finder, crc) ==
  LET walk[c \in DOMAIN h.next \cup {NIL}, r \in 0..65535] ==
        IF c = NIL THEN r ELSE walk[h.next[c], crc16(Datum(h, list).data16, r)]
  IN walk[finder, crc]

(* The operation calc_func does on an uncached datum, and its parameter.   *)
Operation(d) == d.data16 % 8
Parameter(d) == 17 * ((d.data16 \div 8) % 16)

(* The cells from list on, at most fuel of them.                           *)
RECURSIVE Chain(_, _, _)
Chain(next, list, fuel) ==
  IF list = NIL \/ fuel = 0 THEN << >> ELSE <<list>> \o Chain(next, next[list], fuel - 1)

=============================================================================
