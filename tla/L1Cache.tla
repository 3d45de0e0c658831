------------------------------ MODULE L1Cache ------------------------------
(***************************************************************************)
(* One L1 cache between its CPU port and the shared path to memory.        *)
(*                                                                         *)
(* The CPU side is what the pipeline does to either of its ports: a        *)
(* request, which may be there in the first cycle, is held until it is     *)
(* answered and may be held longer (a miss of the other port stalls the    *)
(* pipeline too).                                                          *)
(*                                                                         *)
(* The memory side abstracts arbiter, cacheline_adaptor and physical       *)
(* memory to what one cache can see of them: a request waits while the     *)
(* arbiter decodes or serves the other cache ("decode"), then the adaptor  *)
(* latches it ("grant"), the beats of the burst arrive in any grouping     *)
(* ("busy"), and one cycle of response follows ("done").  MemSystem has    *)
(* the same components in full.                                            *)
(*                                                                         *)
(* Two history variables: shadow is the reference memory of                *)
(* hvl/shadow_memory.sv, newer the order in which ways were last used.     *)
(***************************************************************************)
EXTENDS Naturals

CONSTANTS Ways, Index, Tag, Word, Lane, Byte

ASSUME WaysAssumption == Ways \in Nat \ {0}
ASSUME ByteAssumption == 0 \in Byte

VARIABLES
  state, DM_cache, tag_array, valid_array, dirty_array, lru_array,
  req,         \* the CPU port: [op, addr, be, wdata]
  phase,       \* progress of this cache's turn on the path to memory
  addressbuf,  \* line address in cacheline_adaptor.addressbuf, once latched
  linebuf,     \* cacheline_adaptor.linebuf while the arbiter serves this cache
  writing,     \* the latched operation is a write
  memory,      \* physical memory
  shadow,      \* history: every store applied at once, in CPU order
  newer        \* history: newer[s] has <<i, j>> when i was used after j

INSTANCE ParamCache WITH
  mem_read        <- req.op = "load",
  mem_write       <- req.op = "store",
  mem_address     <- req.addr,
  mem_byte_enable <- req.be,
  mem_wdata       <- req.wdata

lowerVars == <<phase, addressbuf, linebuf, writing, memory>>
vars == <<cacheRegs, req, lowerVars, shadow, newer>>

LineAddr  == Tag \X Index
LineOf(a) == <<a.tag, a.index>>

NoLine == <<>>      \* nothing latched for this cache

ZeroWord == [l \in Lane |-> 0]

(* What a port may ask for: nothing, a load, or a store of some bytes of a *)
(* word.  The instruction port only loads.                                 *)
Request ==
  [op : {"none", "load"}, addr : Address, be : {{}}, wdata : {ZeroWord}]
    \cup [op : {"store"}, addr : Address, be : SUBSET Lane \ {{}}, wdata : WordVal]

(* Arrays, request and path are well typed, and the adaptor holds a line   *)
(* address exactly during a transfer.                                      *)
TypeOK ==
  /\ CacheTypeOK
  /\ req \in Request
  /\ phase \in {"decode", "grant", "busy", "done"}
  /\ addressbuf \in IF phase \in {"busy", "done"} THEN LineAddr ELSE {NoLine}
  /\ linebuf \in Line
  /\ writing \in BOOLEAN
  /\ memory \in [LineAddr -> Line]
  /\ shadow \in [LineAddr -> Line]
  /\ newer \in [Index -> SUBSET (Way \X Way)]

Init ==
  /\ CacheInit
  /\ req \in Request
  /\ phase = "decode"
  /\ addressbuf = NoLine
  /\ linebuf = ZeroLine
  /\ writing = FALSE
  /\ memory \in [LineAddr -> Line]
  /\ shadow = memory
  /\ newer = [s \in Index |-> {}]

-----------------------------------------------------------------------------
(* CPU port.                                                               *)

Hold    == UNCHANGED req
Advance == (req.op = "none" \/ mem_resp) /\ req' \in Request

CpuStep == Hold \/ Advance

-----------------------------------------------------------------------------
(* Path to memory.                                                         *)

Pending == pmem_read \/ pmem_write

(* Some of the cells of a line moved from one side to the other.           *)
Moved(from, to, S) == [c \in Cell |-> IF c \in S THEN from[c] ELSE to[c]]

Wait ==
  /\ phase = "decode"
  /\ UNCHANGED lowerVars

(* The buffer still holds whatever the last transfer left in it.           *)
Grant ==
  /\ phase = "decode" /\ Pending
  /\ phase' = "grant"
  /\ linebuf' \in Line
  /\ UNCHANGED <<addressbuf, writing, memory>>

Latch ==
  /\ phase = "grant"
  /\ phase' = "busy"
  /\ addressbuf' = LineOf(pmem_address)
  /\ writing' = ~pmem_read
  /\ linebuf' = IF pmem_read THEN linebuf ELSE pmem_wdata
  /\ UNCHANGED memory

ReadBeats(S) ==
  /\ phase = "busy" /\ ~writing
  /\ linebuf' = Moved(memory[addressbuf], linebuf, S)
  /\ phase' \in (IF linebuf' = memory[addressbuf] THEN {"busy", "done"} ELSE {"busy"})
  /\ UNCHANGED <<addressbuf, writing, memory>>

WriteBeats(S) ==
  /\ phase = "busy" /\ writing
  /\ memory' = [memory EXCEPT ![addressbuf] = Moved(linebuf, @, S)]
  /\ phase' \in (IF memory'[addressbuf] = linebuf THEN {"busy", "done"} ELSE {"busy"})
  /\ UNCHANGED <<addressbuf, writing, linebuf>>

Done ==
  /\ phase = "done"
  /\ phase' = "decode"
  /\ addressbuf' = NoLine
  /\ linebuf' = ZeroLine
  /\ writing' = FALSE
  /\ UNCHANGED memory

LowerStep ==
  \/ Wait \/ Grant \/ Latch \/ Done
  \/ \E S \in SUBSET Cell : ReadBeats(S) \/ WriteBeats(S)

-----------------------------------------------------------------------------
(* History.                                                                *)

Stored(line) ==
  [c \in Cell |-> IF c[1] = req.addr.word /\ c[2] \in req.be
                  THEN req.wdata[c[2]] ELSE line[c]]

ShadowStep ==
  shadow' = IF storing THEN [shadow EXCEPT ![LineOf(req.addr)] = Stored(@)]
            ELSE shadow

UseOf(i, R) == {p \in R : p[2] # i} \cup ({i} \X (Way \ {i}))

NewerStep ==
  newer' = IF mem_resp THEN [newer EXCEPT ![index] = UseOf(lru_idx, @)]
           ELSE newer

-----------------------------------------------------------------------------
(* One clock cycle: every part takes its edge at once.                     *)

(* The arbiter drives its line output only while it serves this cache and  *)
(* the cache reads; otherwise the cache sees zeros.                        *)
pmem_resp  == phase = "done"
pmem_rdata == IF phase # "decode" /\ pmem_read THEN linebuf ELSE ZeroLine

Next ==
  /\ Clock(pmem_resp, pmem_rdata)
  /\ CpuStep
  /\ LowerStep
  /\ ShadowStep
  /\ NewerStep

Spec == Init /\ [][Next]_vars

-----------------------------------------------------------------------------
(* Properties.                                                             *)

(* A load the cache answers returns the bytes the stores before it left,   *)
(* whatever was evicted, written back and refetched in between: the check  *)
(* of shadow_memory's data thread.                                         *)
ReadsMatchShadow ==
  (mem_resp /\ req.op = "load") =>
    mem_rdata_cpu = WordOf(shadow[LineOf(req.addr)], req.addr.word)

(* Two ways of a set never both hold a line: get_index returns the first   *)
(* match, so a second copy would be a stale line nothing ever updates.     *)
UniqueTag ==
  \A s \in Index : \A i, j \in Way :
    (valid_array[i][s] /\ valid_array[j][s] /\ tag_array[i][s] = tag_array[j][s]) => i = j

(* Where memory is behind the program's stores, some way still holds the   *)
(* line dirty and up to date.  Every cycle of read_mem overwrites the      *)
(* victim with the line port, so the victim must be in memory before the   *)
(* first of them ends.                                                     *)
NoLostStore ==
  \A l \in LineAddr :
    \/ memory[l] = shadow[l]
    \/ \E i \in Way : /\ valid_array[i][l[2]] /\ dirty_array[i][l[2]]
                      /\ tag_array[i][l[2]] = l[1]
                      /\ DM_cache[i][l[2]] = shadow[l]

(* The adaptor never refetches the victim: the address latched for a fill  *)
(* is the request's although pmem_address still shows the victim's in the  *)
(* first cycle of read_mem, when the dirty bit is not yet clear.           *)
FillsRequestedLine ==
  (state = "read_mem" /\ phase \in {"busy", "done"}) =>
    ~writing /\ addressbuf = LineOf(req.addr)

(* A replaced line is the least recently used one of its set: the LRU      *)
(* counters order the ways as their uses did.                              *)
VictimIsLeastRecent ==
  (request /\ ~hit /\ InvalidWays = {}) =>
    \A i \in Way \ {lru_idx} : <<i, lru_idx>> \in newer[index]

(* The access that missed hits in the cycle after its refill: nothing can  *)
(* take the line away first, so a miss costs at most two transfers.        *)
FillThenHit == [][(state = "read_mem" /\ phase = "done") => mem_resp']_vars

=============================================================================
