---------------------------- MODULE ParamCache ----------------------------
(***************************************************************************)
(* The parameterised set-associative write-back cache of                   *)
(* hdl/cache/param_cache: the two-state controller (param_cache_control),  *)
(* the tag/valid/dirty/LRU/data arrays and their selection logic           *)
(* (param_cache_datapath) and the word/line adapter of the L1 wrapper      *)
(* (line_adapter, l1_param_cache).                                         *)
(*                                                                         *)
(* One step of Clock is one rising edge of clk with rst low.  The first    *)
(* six variables are the module's registers.  The others are the input     *)
(* ports that its outputs depend on in the same cycle; a module that uses  *)
(* the cache substitutes state expressions for them.  The inputs that are  *)
(* only sampled at the edge, pmem_resp and pmem_rdata, are parameters of   *)
(* Clock.                                                                  *)
(*                                                                         *)
(* Data abstraction: an address is a record [tag, index, word] (the two    *)
(* byte-select bits never reach the cache), a line is a function from the  *)
(* cells <<word, byte lane>> to bytes.                                     *)
(***************************************************************************)
EXTENDS Naturals

CONSTANTS
  Ways,    \* number of ways (parameter Ways)
  Index,   \* the set indices, 0 .. Sets-1 in the source
  Tag,     \* values of the tag field of an address
  Word,    \* word offsets in a line, 0 .. 7 in the source
  Lane,    \* byte lanes of a word, 0 .. 3 in the source
  Byte     \* byte values

VARIABLES
  state,         \* param_cache_control.state
  DM_cache,      \* DM_cache[i][s]: the line in way i of set s
  tag_array,     \* tag_array[i][s]
  valid_array,   \* valid_array[i][s]
  dirty_array,   \* dirty_array[i][s]
  lru_array      \* lru_array[i][s]: 0 for the way used last

VARIABLES        \* input ports
  mem_read, mem_write, mem_address, mem_byte_enable, mem_wdata

cacheRegs == <<state, DM_cache, tag_array, valid_array, dirty_array, lru_array>>

Way     == 0 .. (Ways - 1)
Cell    == Word \X Lane
Line    == [Cell -> Byte]
WordVal == [Lane -> Byte]
Address == [tag : Tag, index : Index, word : Word]

ZeroLine == [c \in Cell |-> 0]

(* The types of the arrays, one function from sets to contents for each    *)
(* way.                                                                    *)
CacheTypeOK ==
  /\ state \in {"check_hit", "read_mem"}
  /\ DM_cache    \in [Way -> [Index -> Line]]
  /\ tag_array   \in [Way -> [Index -> Tag]]
  /\ valid_array \in [Way -> [Index -> BOOLEAN]]
  /\ dirty_array \in [Way -> [Index -> BOOLEAN]]
  /\ lru_array   \in [Way -> [Index -> Way]]

(* MUTANT: LRU counters reset to Ways.                                     *)
CacheInit_LruReset ==
  /\ state = "check_hit"
  /\ DM_cache    = [i \in Way |-> [s \in Index |-> ZeroLine]]
  /\ \E t \in Tag : tag_array = [i \in Way |-> [s \in Index |-> t]]
  /\ valid_array = [i \in Way |-> [s \in Index |-> FALSE]]
  /\ dirty_array = [i \in Way |-> [s \in Index |-> FALSE]]
  /\ lru_array   = [i \in Way |-> [s \in Index |-> Ways]]

(* The arrays after rst: everything zero, every LRU counter at Ways - 1.   *)
(* The tag that the all-zero pattern denotes is some member of Tag.        *)
CacheInit ==
  /\ state = "check_hit"
  /\ DM_cache    = [i \in Way |-> [s \in Index |-> ZeroLine]]
  /\ \E t \in Tag : tag_array = [i \in Way |-> [s \in Index |-> t]]
  /\ valid_array = [i \in Way |-> [s \in Index |-> FALSE]]
  /\ dirty_array = [i \in Way |-> [s \in Index |-> FALSE]]
  /\ lru_array   = [i \in Way |-> [s \in Index |-> Ways - 1]]

-----------------------------------------------------------------------------
(* Line adapter: the word port of the CPU seen as a line port.             *)

mem_wdata_line == [c \in Cell |-> mem_wdata[c[2]]]

mem_byte_enable_line == {c \in Cell : c[1] = mem_address.word /\ c[2] \in mem_byte_enable}

WordOf(line, w) == [l \in Lane |-> line[<<w, l>>]]

-----------------------------------------------------------------------------
(* Way selection: the way that hits, else the first invalid way, else the  *)
(* way whose LRU counter is at its maximum.                                *)

address_tag == mem_address.tag
index       == mem_address.index

First(S) == CHOOSE i \in S : \A j \in S : i <= j

HitWays     == {i \in Way : valid_array[i][index] /\ tag_array[i][index] = address_tag}
InvalidWays == {i \in Way : ~valid_array[i][index]}
OldestWays  == {i \in Way : lru_array[i][index] + 1 = Ways}

(* MUTANT: the loop over invalid ways comes before the one over hits.      *)
lru_idx_InvalidFirst ==
  IF InvalidWays # {} THEN First(InvalidWays)
  ELSE IF HitWays # {} THEN First(HitWays)
  ELSE IF OldestWays # {} THEN First(OldestWays)
  ELSE 0

lru_idx ==
  IF HitWays # {} THEN First(HitWays)
  ELSE IF InvalidWays # {} THEN First(InvalidWays)
  ELSE IF OldestWays # {} THEN First(OldestWays)
  ELSE 0

hit       == valid_array[lru_idx][index] /\ tag_array[lru_idx][index] = address_tag
dirty_out == dirty_array[lru_idx][index]

request == mem_read \/ mem_write

-----------------------------------------------------------------------------
(* Output ports.                                                           *)

mem_resp   == state = "check_hit" /\ request /\ hit
pmem_write == state = "check_hit" /\ request /\ ~hit /\ dirty_out
pmem_read  == state = "read_mem"

(* While the selected way is dirty the address port carries the victim's   *)
(* address, whatever the controller is doing.                              *)
pmem_address ==
  IF dirty_out
  THEN [tag |-> tag_array[lru_idx][index], index |-> index, word |-> mem_address.word]
  ELSE mem_address

(* The byte mask of the selected way.                                      *)
storing == mem_resp /\ mem_write
mask    == IF storing THEN mem_byte_enable_line ELSE {}

(* The data array forwards the bytes being written to its read port.  (In  *)
(* read_mem that port shows pmem_rdata, but neither of the two outputs     *)
(* below is sampled then.)                                                 *)
line_out == [c \in Cell |-> IF c \in mask THEN mem_wdata_line[c]
                            ELSE DM_cache[lru_idx][index][c]]

mem_rdata_cpu == WordOf(line_out, mem_address.word)
pmem_wdata    == line_out

-----------------------------------------------------------------------------
(* The clock edge, one action per branch of the controller.                *)

Idle ==
  /\ state = "check_hit"
  /\ ~request
  /\ UNCHANGED cacheRegs

(* MUTANT: every valid way ages, not only the younger ones.                *)
LruAfterHit_AllAge(i) ==
  IF i = lru_idx THEN 0
  ELSE IF valid_array[i][index] THEN (lru_array[i][index] + 1) % Ways
       ELSE lru_array[i][index]

(* A hit answers the CPU, makes the way the most recently used one and, on *)
(* a store, merges the enabled bytes and marks the line dirty.             *)
LruAfterHit(i) ==
  IF i = lru_idx THEN 0
  ELSE IF lru_array[i][index] < lru_array[lru_idx][index] /\ valid_array[i][index]
       THEN (lru_array[i][index] + 1) % Ways
       ELSE lru_array[i][index]

Hit ==
  /\ mem_resp
  /\ lru_array'   = [i \in Way |-> [lru_array[i] EXCEPT ![index] = LruAfterHit(i)]]
  /\ DM_cache'    = [DM_cache EXCEPT ![lru_idx][index] = line_out]
  /\ dirty_array' = [dirty_array EXCEPT ![lru_idx][index] = @ \/ mem_write]
  /\ UNCHANGED <<state, tag_array, valid_array>>

(* MUTANT: does not wait for the write-back's answer.                      *)
WriteBack_NoWait(pmem_resp) ==
  /\ pmem_write
  /\ state' = "read_mem"
  /\ UNCHANGED <<DM_cache, tag_array, valid_array, dirty_array, lru_array>>

(* A miss on a dirty way holds pmem_write until the lower level answers.   *)
WriteBack(pmem_resp) ==
  /\ pmem_write
  /\ state' = IF pmem_resp THEN "read_mem" ELSE "check_hit"
  /\ UNCHANGED <<DM_cache, tag_array, valid_array, dirty_array, lru_array>>

CleanMiss ==
  /\ state = "check_hit" /\ request /\ ~hit /\ ~dirty_out
  /\ state' = "read_mem"
  /\ UNCHANGED <<DM_cache, tag_array, valid_array, dirty_array, lru_array>>

(* MUTANT: dirty is cleared with the answer, not in every cycle.           *)
Fill_DirtyOnResp(pmem_resp, pmem_rdata) ==
  /\ pmem_read
  /\ DM_cache'    = [DM_cache EXCEPT ![lru_idx][index] = pmem_rdata]
  /\ dirty_array' = [dirty_array EXCEPT ![lru_idx][index] = @ /\ ~pmem_resp]
  /\ tag_array'   = [tag_array EXCEPT ![lru_idx][index] = IF pmem_resp THEN address_tag ELSE @]
  /\ valid_array' = [valid_array EXCEPT ![lru_idx][index] = @ \/ pmem_resp]
  /\ state' = IF pmem_resp THEN "check_hit" ELSE "read_mem"
  /\ UNCHANGED lru_array

(* MUTANT: valid_load is missing.                                          *)
Fill_NoValid(pmem_resp, pmem_rdata) ==
  /\ pmem_read
  /\ DM_cache'    = [DM_cache EXCEPT ![lru_idx][index] = pmem_rdata]
  /\ dirty_array' = [dirty_array EXCEPT ![lru_idx][index] = FALSE]
  /\ tag_array'   = [tag_array EXCEPT ![lru_idx][index] = IF pmem_resp THEN address_tag ELSE @]
  /\ valid_array' = [valid_array EXCEPT ![lru_idx][index] = @]
  /\ state' = IF pmem_resp THEN "check_hit" ELSE "read_mem"
  /\ UNCHANGED lru_array

(* MUTANT: tag_load is missing.                                            *)
Fill_NoTag(pmem_resp, pmem_rdata) ==
  /\ pmem_read
  /\ DM_cache'    = [DM_cache EXCEPT ![lru_idx][index] = pmem_rdata]
  /\ dirty_array' = [dirty_array EXCEPT ![lru_idx][index] = FALSE]
  /\ tag_array'   = [tag_array EXCEPT ![lru_idx][index] = IF FALSE THEN address_tag ELSE @]
  /\ valid_array' = [valid_array EXCEPT ![lru_idx][index] = @ \/ pmem_resp]
  /\ state' = IF pmem_resp THEN "check_hit" ELSE "read_mem"
  /\ UNCHANGED lru_array

(* Every cycle of read_mem writes whatever pmem_rdata carries into the     *)
(* selected way and clears its dirty bit; the answer also sets tag and     *)
(* valid and returns to check_hit.                                         *)
Fill(pmem_resp, pmem_rdata) ==
  /\ pmem_read
  /\ DM_cache'    = [DM_cache EXCEPT ![lru_idx][index] = pmem_rdata]
  /\ dirty_array' = [dirty_array EXCEPT ![lru_idx][index] = FALSE]
  /\ tag_array'   = [tag_array EXCEPT ![lru_idx][index] = IF pmem_resp THEN address_tag ELSE @]
  /\ valid_array' = [valid_array EXCEPT ![lru_idx][index] = @ \/ pmem_resp]
  /\ state' = IF pmem_resp THEN "check_hit" ELSE "read_mem"
  /\ UNCHANGED lru_array

Clock(pmem_resp, pmem_rdata) ==
  Idle \/ Hit \/ WriteBack(pmem_resp) \/ CleanMiss \/ Fill(pmem_resp, pmem_rdata)

=============================================================================
