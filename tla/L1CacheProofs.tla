--------------------------- MODULE L1CacheProofs ---------------------------
(***************************************************************************)
(* Proofs about L1Cache, for every number of ways, every set of indices,   *)
(* tags, words, lanes and bytes.                                           *)
(***************************************************************************)
EXTENDS L1Cache, FiniteSetTheorems, NaturalsInduction, WellFoundedInduction, TLAPS

-----------------------------------------------------------------------------
(* The inductive invariant.                                                *)

(* The way whose contents read_mem is overwriting.                         *)
Refilling(i, s) == state = "read_mem" /\ s = index /\ i = lru_idx

DirtyIsValid ==
  \A i \in Way : \A s \in Index : dirty_array[i][s] => valid_array[i][s]

HeldLinesCurrent ==
  \A i \in Way : \A s \in Index :
    (valid_array[i][s] /\ ~Refilling(i, s)) => DM_cache[i][s] = shadow[<<tag_array[i][s], s>>]

(* Way i is the dirty copy of line <<t, s>>.                               *)
DirtyCopy(i, t, s) ==
  valid_array[i][s] /\ dirty_array[i][s] /\ tag_array[i][s] = t /\ ~Refilling(i, s)

MemoryCurrent ==
  \A t \in Tag : \A s \in Index :
    memory[<<t, s>>] = shadow[<<t, s>>] \/ \E i \in Way : DirtyCopy(i, t, s)

FillIsMiss == state = "read_mem" => (request /\ ~hit)

(* What the path to memory holds for this cache.                           *)
PathInv ==
  /\ phase # "decode" => Pending
  /\ (phase # "decode" /\ pmem_read) => ~dirty_out
  /\ phase \in {"busy", "done"} =>
       /\ writing <=> pmem_write
       /\ addressbuf = LineOf(pmem_address)
       /\ writing => linebuf = DM_cache[lru_idx][index]
  /\ phase = "done" => memory[addressbuf] = linebuf

IndInv ==
  /\ TypeOK
  /\ UniqueTag
  /\ DirtyIsValid
  /\ HeldLinesCurrent
  /\ MemoryCurrent
  /\ FillIsMiss
  /\ PathInv

-----------------------------------------------------------------------------
(* Way selection.                                                          *)

(* A nonempty set of numbers has a first element, so the loops of          *)
(* get_index return a member of the set they search.                       *)
LEMMA FirstIn ==
  ASSUME NEW S \in SUBSET Nat, S # {}
  PROVE  First(S) \in S
<1> DEFINE R == {p \in Nat \X Nat : p[1] < p[2]}
<1>1. OpToRel(<, Nat) = R
  BY Zenon DEF OpToRel
<1>2. IsWellFoundedOn(R, Nat)
  BY <1>1, NatLessThanWellFounded, Zenon
<1> HIDE DEF R
<1>3. PICK i \in S : \A j \in S : ~(<<j, i>> \in R)
  BY <1>2, WFMin, Zenon
<1>4. \A j \in S : ~(j < i)
  BY <1>3 DEF R
<1>5. \E k \in S : \A j \in S : k <= j
  BY <1>4
<1> QED
  BY <1>5 DEF First

(* Ways are natural numbers, and there is a first one.                     *)
LEMMA WaySubset == Way \subseteq Nat /\ 0 \in Way
BY WaysAssumption DEF Way

(* The selected way exists, and it hits exactly when some way holds the    *)
(* requested line.                                                         *)
LEMMA Selection ==
  lru_idx \in Way /\ (hit <=> HitWays # {})
<1>1. /\ HitWays \in SUBSET Nat /\ HitWays \subseteq Way
      /\ InvalidWays \in SUBSET Nat /\ InvalidWays \subseteq Way
      /\ OldestWays \in SUBSET Nat /\ OldestWays \subseteq Way
  BY WaySubset DEF HitWays, InvalidWays, OldestWays
<1>2. lru_idx \in Way
  BY <1>1, FirstIn, WaySubset DEF lru_idx
<1>3. ASSUME HitWays # {} PROVE hit
  <2>1. lru_idx \in HitWays
    BY <1>1, <1>3, FirstIn DEF lru_idx
  <2> QED
    BY <2>1 DEF HitWays, hit
<1>4. ASSUME hit PROVE HitWays # {}
  BY <1>2, <1>4 DEF HitWays, hit
<1> QED
  BY <1>2, <1>3, <1>4

(* The same, in the next state.                                            *)
LEMMA SelectionNext ==
  (lru_idx \in Way /\ (hit <=> HitWays # {}))'
BY Selection, PTL

(* A step that keeps the request and the arrays the selection reads keeps  *)
(* the selection.                                                          *)
LEMMA SelectionStable ==
  ASSUME UNCHANGED <<req, tag_array, valid_array, lru_array>>
  PROVE  lru_idx' = lru_idx /\ hit' = hit /\ index' = index /\ request' = request
<1>1. index' = index /\ address_tag' = address_tag /\ request' = request
  BY DEF index, address_tag, request
<1>2. HitWays' = HitWays /\ InvalidWays' = InvalidWays /\ OldestWays' = OldestWays
  BY <1>1 DEF HitWays, InvalidWays, OldestWays
<1>3. lru_idx' = lru_idx
  BY <1>2 DEF lru_idx
<1> QED
  BY <1>1, <1>3 DEF hit

-----------------------------------------------------------------------------
(* Type correctness.                                                       *)

(* The fields of the request on the CPU port, and the selection made for   *)
(* it, have their types.                                                   *)
LEMMA RequestType ==
  ASSUME TypeOK
  PROVE  /\ req.addr \in Address /\ index \in Index /\ address_tag \in Tag
         /\ req.wdata \in WordVal /\ req.op \in {"none", "load", "store"}
         /\ lru_idx \in Way
<1>1. req \in Request
  BY DEF TypeOK
<1>2. ZeroWord \in WordVal
  BY ByteAssumption DEF ZeroWord, WordVal
<1>3. req.addr \in Address /\ req.wdata \in WordVal /\ req.op \in {"none", "load", "store"}
  BY <1>1, <1>2 DEF Request
<1> QED
  BY <1>3, Selection DEF index, address_tag, Address

(* What the cache puts on its line ports has the type of a line.           *)
LEMMA PortTypes ==
  ASSUME TypeOK
  PROVE  /\ ZeroLine \in Line /\ line_out \in Line /\ pmem_wdata \in Line
         /\ pmem_rdata \in Line
         /\ LineOf(pmem_address) \in LineAddr
         /\ LineOf(req.addr) \in LineAddr
<1>1. ZeroLine \in Line
  BY ByteAssumption DEF ZeroLine, Line
<1>2. DM_cache[lru_idx][index] \in Line /\ tag_array[lru_idx][index] \in Tag
  BY RequestType DEF TypeOK, CacheTypeOK
<1>3. mem_wdata_line \in Line
  BY RequestType DEF mem_wdata_line, WordVal, Line, Cell
<1>4. line_out \in Line
  BY <1>2, <1>3 DEF line_out, Line
<1>5. pmem_rdata \in Line
  BY <1>1 DEF pmem_rdata, TypeOK
<1>6. LineOf(pmem_address) \in LineAddr
  BY <1>2, RequestType DEF pmem_address, LineOf, LineAddr, Address
<1>7. LineOf(req.addr) \in LineAddr
  BY RequestType DEF LineOf, LineAddr, Address
<1> QED
  BY <1>1, <1>4, <1>5, <1>6, <1>7 DEF pmem_wdata

(* The reset state of cache, path and memory is well typed.                *)
LEMMA InitTypeOK == Init => TypeOK
<1> SUFFICES ASSUME Init PROVE TypeOK
  OBVIOUS
<1>1. ZeroLine \in Line
  BY ByteAssumption DEF ZeroLine, Line
<1>2. Ways - 1 \in Way
  BY WaysAssumption DEF Way
<1>3. CacheTypeOK
  BY <1>1, <1>2 DEF Init, CacheInit, CacheTypeOK
<1> QED
  BY <1>1, <1>3 DEF Init, TypeOK

(* An edge of the cache keeps the types of its arrays.                     *)
LEMMA ClockTypeOK ==
  ASSUME TypeOK, Clock(pmem_resp, pmem_rdata)
  PROVE  CacheTypeOK'
<1> USE DEF CacheTypeOK
<1>0. CacheTypeOK
  BY DEF TypeOK
<1>1. CASE Idle
  BY <1>0, <1>1 DEF Idle, cacheRegs
<1>2. CASE Hit
  <2>1. \A i \in Way : LruAfterHit(i) \in Way
    <3>1. \A n \in Nat : n % Ways \in Way
      BY WaysAssumption DEF Way
    <3>2. \A i \in Way : lru_array[i][index] \in Way
      BY <1>0, RequestType
    <3>3. \A i \in Way : (lru_array[i][index] + 1) % Ways \in Way
      BY <3>1, <3>2, WaySubset
    <3> QED
      BY <3>2, <3>3, WaySubset DEF LruAfterHit
  <2>2. lru_array' \in [Way -> [Index -> Way]]
    BY <1>0, <1>2, <2>1 DEF Hit
  <2>3. DM_cache' \in [Way -> [Index -> Line]]
    BY <1>0, <1>2, PortTypes DEF Hit
  <2>4. dirty_array' \in [Way -> [Index -> BOOLEAN]]
    BY <1>0, <1>2 DEF Hit
  <2> QED
    BY <1>0, <1>2, <2>2, <2>3, <2>4 DEF Hit
<1>3. CASE WriteBack(pmem_resp)
  BY <1>0, <1>3 DEF WriteBack
<1>4. CASE CleanMiss
  BY <1>0, <1>4 DEF CleanMiss
<1>5. CASE Fill(pmem_resp, pmem_rdata)
  <2>1. DM_cache' \in [Way -> [Index -> Line]]
    BY <1>0, <1>5, PortTypes DEF Fill
  <2>2. tag_array' \in [Way -> [Index -> Tag]]
    BY <1>0, <1>5, RequestType DEF Fill
  <2>3. dirty_array' \in [Way -> [Index -> BOOLEAN]]
    BY <1>0, <1>5 DEF Fill
  <2>4. valid_array' \in [Way -> [Index -> BOOLEAN]]
    BY <1>0, <1>5 DEF Fill, pmem_resp
  <2> QED
    BY <1>0, <1>5, <2>1, <2>2, <2>3, <2>4 DEF Fill
<1> QED
  BY <1>1, <1>2, <1>3, <1>4, <1>5 DEF Clock

(* The path to memory keeps its types.                                     *)
LEMMA LowerTypeOK ==
  ASSUME TypeOK, LowerStep
  PROVE  /\ phase' \in {"decode", "grant", "busy", "done"}
         /\ addressbuf' \in IF phase' \in {"busy", "done"} THEN LineAddr ELSE {NoLine}
         /\ linebuf' \in Line
         /\ writing' \in BOOLEAN
         /\ memory' \in [LineAddr -> Line]
<1> USE DEF TypeOK
<1>0. \A from, to \in Line : \A S : Moved(from, to, S) \in Line
  BY DEF Moved, Line
<1>1. CASE Wait
  BY <1>1 DEF Wait, lowerVars
<1>2. CASE Grant
  BY <1>2 DEF Grant
<1>3. CASE Latch
  BY <1>3, PortTypes DEF Latch, pmem_read
<1>4. CASE Done
  BY <1>4, PortTypes DEF Done
<1>5. CASE \E S \in SUBSET Cell : ReadBeats(S)
  BY <1>0, <1>5 DEF ReadBeats
<1>6. CASE \E S \in SUBSET Cell : WriteBeats(S)
  BY <1>0, <1>6 DEF WriteBeats
<1> QED
  BY <1>1, <1>2, <1>3, <1>4, <1>5, <1>6 DEF LowerStep

(* TypeOK is inductive by itself.                                          *)
LEMMA NextTypeOK ==
  ASSUME TypeOK, [Next]_vars
  PROVE  TypeOK'
<1>1. CASE Next
  <2>1. CacheTypeOK'
    BY <1>1, ClockTypeOK DEF Next
  <2>2. req' \in Request
    BY <1>1 DEF Next, CpuStep, Hold, Advance, TypeOK
  <2>3. shadow' \in [LineAddr -> Line]
    <3>1. \A line \in Line : Stored(line) \in Line
      BY RequestType DEF Stored, WordVal, Line, Cell
    <3> QED
      BY <1>1, <3>1, PortTypes DEF Next, ShadowStep, TypeOK
  <2>4. newer' \in [Index -> SUBSET (Way \X Way)]
    <3>1. \A R \in SUBSET (Way \X Way) : UseOf(lru_idx, R) \in SUBSET (Way \X Way)
      BY RequestType DEF UseOf
    <3> QED
      BY <1>1, <3>1, RequestType DEF Next, NewerStep, TypeOK
  <2>5. LowerStep
    BY <1>1 DEF Next
  <2> QED
    BY <2>1, <2>2, <2>3, <2>4, <2>5, LowerTypeOK DEF TypeOK
<1>2. CASE UNCHANGED vars
  BY <1>2 DEF vars, cacheRegs, lowerVars, TypeOK, CacheTypeOK
<1> QED
  BY <1>1, <1>2

(* Every register, buffer and memory keeps its type, and the adaptor holds *)
(* an address whenever a transfer runs.                                    *)
THEOREM TypeCorrect == Spec => []TypeOK
<1>1. Init => TypeOK
  BY InitTypeOK
<1>2. TypeOK /\ [Next]_vars => TypeOK'
  BY NextTypeOK
<1> QED
  BY <1>1, <1>2, PTL DEF Spec

-----------------------------------------------------------------------------
(* The inductive invariant holds initially and is kept by every edge, one  *)
(* lemma per action of the cache.                                          *)

(* IndInv without the types, which NextTypeOK has dealt with.              *)
CoherenceInv ==
  UniqueTag /\ DirtyIsValid /\ HeldLinesCurrent /\ MemoryCurrent /\ FillIsMiss /\ PathInv

(* The reset state, with every way invalid, satisfies the invariant.       *)
LEMMA InitIndInv == Init => IndInv
<1> SUFFICES ASSUME Init PROVE IndInv
  OBVIOUS
<1>1. TypeOK
  BY InitTypeOK
<1>2. \A i \in Way : \A s \in Index : ~valid_array[i][s] /\ ~dirty_array[i][s]
  BY DEF Init, CacheInit
<1>3. state = "check_hit" /\ phase = "decode" /\ shadow = memory
  BY DEF Init, CacheInit
<1> QED
  BY <1>1, <1>2, <1>3
     DEF IndInv, UniqueTag, DirtyIsValid, HeldLinesCurrent, MemoryCurrent, FillIsMiss, PathInv

(* Without a request to the path, the path rests.                          *)
LEMMA PathRests ==
  ASSUME IndInv, LowerStep, ~Pending
  PROVE  phase = "decode" /\ UNCHANGED lowerVars
<1>1. phase = "decode"
  BY DEF IndInv, PathInv
<1> QED
  BY <1>1 DEF LowerStep, Wait, Grant, Latch, Done, ReadBeats, WriteBeats

(* A request that is not answered stays.                                   *)
LEMMA RequestStays ==
  ASSUME IndInv, CpuStep, request, ~mem_resp
  PROVE  UNCHANGED req
BY DEF CpuStep, Hold, Advance, request

(* A cycle without a request changes nothing the invariant speaks of.      *)
LEMMA IdleKeeps ==
  ASSUME IndInv, Next, Idle
  PROVE  CoherenceInv'
<1>1. ~Pending /\ ~mem_resp /\ state = "check_hit" /\ UNCHANGED cacheRegs
  BY DEF Idle, Pending, pmem_read, pmem_write, mem_resp
<1>2. phase = "decode" /\ UNCHANGED lowerVars
  BY <1>1, PathRests DEF Next
<1>3. shadow' = shadow
  BY <1>1 DEF Next, ShadowStep, storing
<1>4. UniqueTag' /\ DirtyIsValid'
  BY <1>1 DEF IndInv, UniqueTag, DirtyIsValid, cacheRegs
<1>5. HeldLinesCurrent'
  BY <1>1, <1>3 DEF IndInv, HeldLinesCurrent, Refilling, cacheRegs
<1>6. MemoryCurrent'
  BY <1>1, <1>2, <1>3 DEF IndInv, MemoryCurrent, DirtyCopy, Refilling, cacheRegs, lowerVars
<1>7. FillIsMiss' /\ PathInv'
  BY <1>1, <1>2 DEF FillIsMiss, PathInv, cacheRegs, lowerVars
<1> QED
  BY <1>4, <1>5, <1>6, <1>7 DEF CoherenceInv

(* A store reaches the shadow and the only way that holds the line.        *)
LEMMA HitKeeps ==
  ASSUME IndInv, Next, Hit
  PROVE  CoherenceInv'
<1>1. /\ ~Pending /\ mem_resp /\ state = "check_hit" /\ state' = "check_hit"
      /\ request /\ hit
      /\ UNCHANGED <<tag_array, valid_array>>
  BY DEF Hit, Pending, pmem_read, pmem_write, mem_resp
<1>2. phase = "decode" /\ UNCHANGED lowerVars
  BY <1>1, PathRests DEF Next
<1>3. TypeOK /\ CacheTypeOK
  BY DEF IndInv, TypeOK
<1>4. /\ valid_array[lru_idx][index]
      /\ <<tag_array[lru_idx][index], index>> = LineOf(req.addr)
  BY <1>1 DEF hit, LineOf, index, address_tag
<1>5. DM_cache[lru_idx][index] = shadow[LineOf(req.addr)]
  BY <1>1, <1>3, <1>4, RequestType DEF IndInv, HeldLinesCurrent, Refilling
<1>6. line_out = IF storing THEN Stored(shadow[LineOf(req.addr)]) ELSE shadow[LineOf(req.addr)]
  <2>1. shadow[LineOf(req.addr)] \in Line
    BY <1>3, PortTypes DEF TypeOK
  <2>2. CASE storing
    BY <1>5, <2>2 DEF line_out, mask, Stored, mem_byte_enable_line, mem_wdata_line
  <2>3. CASE ~storing
    BY <1>5, <2>1, <2>3 DEF line_out, mask, Line
  <2> QED
    BY <2>2, <2>3
<1>7. shadow' = [shadow EXCEPT ![LineOf(req.addr)] = line_out]
  BY <1>3, <1>6 DEF Next, ShadowStep, TypeOK
<1>8. DM_cache' = [DM_cache EXCEPT ![lru_idx][index] = line_out]
  BY DEF Hit
<1>9. \A i \in Way : \A s \in Index :
        dirty_array'[i][s] = (dirty_array[i][s] \/ (i = lru_idx /\ s = index /\ req.op = "store"))
  BY <1>3, RequestType DEF Hit, CacheTypeOK
<1>10. UniqueTag'
  BY <1>1 DEF IndInv, UniqueTag
<1>11. DirtyIsValid'
  BY <1>1, <1>4, <1>9 DEF IndInv, DirtyIsValid
<1>12. HeldLinesCurrent'
  <2> SUFFICES ASSUME NEW i \in Way, NEW s \in Index, valid_array[i][s]
               PROVE  DM_cache'[i][s] = shadow'[<<tag_array[i][s], s>>]
    BY <1>1 DEF HeldLinesCurrent
  <2>1. <<tag_array[i][s], s>> \in LineAddr
    BY <1>3 DEF CacheTypeOK, LineAddr
  <2>2. CASE i = lru_idx /\ s = index
    BY <1>3, <1>4, <1>7, <1>8, <2>1, <2>2 DEF CacheTypeOK, TypeOK
  <2>3. CASE ~(i = lru_idx /\ s = index)
    <3>1. DM_cache'[i][s] = DM_cache[i][s]
      BY <1>3, <1>8, <2>3, RequestType DEF CacheTypeOK
    <3>2. <<tag_array[i][s], s>> # LineOf(req.addr)
      BY <1>4, <2>3, RequestType DEF IndInv, UniqueTag
    <3>3. DM_cache[i][s] = shadow[<<tag_array[i][s], s>>]
      BY <1>1 DEF IndInv, HeldLinesCurrent, Refilling
    <3> QED
      BY <1>3, <1>7, <2>1, <3>1, <3>2, <3>3 DEF TypeOK
  <2> QED
    BY <2>2, <2>3
<1>13. MemoryCurrent'
  <2> SUFFICES ASSUME NEW t \in Tag, NEW s \in Index
               PROVE  \/ memory[<<t, s>>] = shadow'[<<t, s>>]
                      \/ \E i \in Way : DirtyCopy(i, t, s)'
    BY <1>2 DEF MemoryCurrent, lowerVars
  <2>1. \A i \in Way : DirtyCopy(i, t, s) => DirtyCopy(i, t, s)'
    BY <1>1, <1>9 DEF DirtyCopy, Refilling
  <2>2. CASE <<t, s>> = LineOf(req.addr) /\ req.op = "store"
    <3>1. PICK w \in Way : w = lru_idx
      BY <1>3, RequestType
    <3>2. s = index /\ tag_array[w][s] = t
      BY <1>4, <2>2, <3>1
    <3>3. DirtyCopy(w, t, s)'
      BY <1>1, <1>4, <1>9, <2>2, <3>1, <3>2 DEF DirtyCopy, Refilling
    <3> QED
      BY <3>3
  <2>3. CASE ~(<<t, s>> = LineOf(req.addr) /\ req.op = "store")
    <3>1. shadow'[<<t, s>>] = shadow[<<t, s>>]
      BY <1>3, <1>6, <1>7, <2>3 DEF storing, TypeOK
    <3> QED
      BY <2>1, <3>1 DEF IndInv, MemoryCurrent
  <2> QED
    BY <2>2, <2>3
<1>14. FillIsMiss' /\ PathInv'
  BY <1>1, <1>2 DEF FillIsMiss, PathInv, lowerVars
<1> QED
  BY <1>10, <1>11, <1>12, <1>13, <1>14 DEF CoherenceInv

(* While a dirty victim is written back nothing of the cache changes; when *)
(* the answer comes memory has the victim.                                 *)
LEMMA WriteBackKeeps ==
  ASSUME IndInv, Next, WriteBack(pmem_resp)
  PROVE  CoherenceInv'
<1> DEFINE victim == <<tag_array[lru_idx][index], index>>
<1>1. /\ state = "check_hit" /\ request /\ ~hit /\ dirty_out /\ ~mem_resp
      /\ pmem_write /\ ~pmem_read
      /\ state' = IF phase = "done" THEN "read_mem" ELSE "check_hit"
      /\ UNCHANGED <<DM_cache, tag_array, valid_array, dirty_array, lru_array>>
  BY DEF WriteBack, pmem_write, pmem_read, mem_resp, pmem_resp
<1>2. UNCHANGED req
  BY <1>1, RequestStays DEF Next
<1>3. shadow' = shadow
  BY <1>1 DEF Next, ShadowStep, storing
<1>4. lru_idx' = lru_idx /\ hit' = hit /\ index' = index /\ request' = request
  BY <1>1, <1>2, SelectionStable
<1>5. TypeOK /\ CacheTypeOK /\ lru_idx \in Way /\ index \in Index
  BY RequestType DEF IndInv, TypeOK
<1>6. valid_array[lru_idx][index] /\ DM_cache[lru_idx][index] = shadow[victim]
  BY <1>1, <1>5 DEF IndInv, DirtyIsValid, dirty_out, HeldLinesCurrent, Refilling
<1>7. LineOf(pmem_address) = victim /\ pmem_wdata = DM_cache[lru_idx][index]
  <2>1. DM_cache[lru_idx][index] \in Line
    BY <1>5 DEF CacheTypeOK
  <2> QED
    BY <1>1, <2>1 DEF pmem_address, LineOf, pmem_wdata, line_out, mask, storing, Line
<1>8. dirty_out' = dirty_out /\ LineOf(pmem_address)' = victim
  BY <1>1, <1>2, <1>4 DEF dirty_out, pmem_address, LineOf
<1>9. UniqueTag' /\ DirtyIsValid'
  BY <1>1 DEF IndInv, UniqueTag, DirtyIsValid
<1>10. HeldLinesCurrent'
  BY <1>1, <1>3 DEF IndInv, HeldLinesCurrent, Refilling
<1>11. phase \in {"busy", "done"} =>
         writing /\ addressbuf = victim /\ linebuf = DM_cache[lru_idx][index]
  BY <1>1, <1>7 DEF IndInv, PathInv
<1>12. /\ \A l \in LineAddr : l # victim => memory'[l] = memory[l]
       /\ phase = "done" => memory' = memory /\ memory[victim] = shadow[victim]
  <2>1. CASE \E S \in SUBSET Cell : WriteBeats(S)
    BY <1>5, <1>11, <2>1 DEF WriteBeats, TypeOK
  <2>2. CASE Wait \/ Grant \/ Latch \/ Done
    BY <1>6, <1>11, <2>2 DEF Wait, Grant, Latch, Done, lowerVars, IndInv, PathInv
  <2>3. CASE \E S \in SUBSET Cell : ReadBeats(S)
    BY <1>11, <2>3 DEF ReadBeats
  <2> QED
    BY <2>1, <2>2, <2>3 DEF Next, LowerStep
<1>13. MemoryCurrent'
  <2> SUFFICES ASSUME NEW t \in Tag, NEW s \in Index
               PROVE  \/ memory'[<<t, s>>] = shadow[<<t, s>>]
                      \/ \E i \in Way : DirtyCopy(i, t, s)'
    BY <1>3 DEF MemoryCurrent
  <2>1. <<t, s>> \in LineAddr
    BY DEF LineAddr
  <2>2. CASE <<t, s>> = victim
    <3>1. CASE phase = "done"
      BY <1>12, <2>2, <3>1
    <3>2. CASE phase # "done"
      <4>1. PICK w \in Way : w = lru_idx
        BY <1>5
      <4>2. DirtyCopy(w, t, s)'
        BY <1>1, <1>6, <2>2, <3>2, <4>1 DEF DirtyCopy, Refilling, dirty_out
      <4> QED
        BY <4>2
    <3> QED
      BY <3>1, <3>2
  <2>3. CASE <<t, s>> # victim
    <3>1. \A i \in Way : DirtyCopy(i, t, s) => DirtyCopy(i, t, s)'
      BY <1>1, <1>4, <2>3 DEF DirtyCopy, Refilling
    <3> QED
      BY <1>12, <2>1, <2>3, <3>1 DEF IndInv, MemoryCurrent
  <2> QED
    BY <2>2, <2>3
<1>14. FillIsMiss'
  BY <1>1, <1>4 DEF FillIsMiss
<1>15. PathInv'
  <2>1. CASE Wait \/ Done
    BY <2>1 DEF Wait, Done, PathInv, lowerVars
  <2>2. ASSUME phase # "done"
        PROVE  Pending' /\ pmem_write' /\ ~pmem_read'
    BY <1>1, <1>4, <1>8, <2>2 DEF Pending, pmem_write, pmem_read
  <2>3. CASE Grant
    BY <2>2, <2>3 DEF Grant, PathInv
  <2>4. CASE Latch
    BY <1>1, <1>4, <1>7, <1>8, <2>2, <2>4 DEF Latch, PathInv
  <2>5. CASE \E S \in SUBSET Cell : WriteBeats(S)
    BY <1>1, <1>4, <1>8, <1>11, <2>2, <2>5 DEF WriteBeats, PathInv
  <2>6. CASE \E S \in SUBSET Cell : ReadBeats(S)
    BY <1>11, <2>6 DEF ReadBeats
  <2> QED
    BY <2>1, <2>3, <2>4, <2>5, <2>6 DEF Next, LowerStep
<1> QED
  BY <1>9, <1>10, <1>13, <1>14, <1>15 DEF CoherenceInv

(* A miss on a clean way only turns to read_mem.                           *)
LEMMA CleanMissKeeps ==
  ASSUME IndInv, Next, CleanMiss
  PROVE  CoherenceInv'
<1>1. /\ state = "check_hit" /\ request /\ ~hit /\ ~dirty_out /\ ~mem_resp /\ ~Pending
      /\ state' = "read_mem"
      /\ UNCHANGED <<DM_cache, tag_array, valid_array, dirty_array, lru_array>>
  BY DEF CleanMiss, Pending, pmem_read, pmem_write, mem_resp
<1>2. UNCHANGED req
  BY <1>1, RequestStays DEF Next
<1>3. shadow' = shadow
  BY <1>1 DEF Next, ShadowStep, storing
<1>4. lru_idx' = lru_idx /\ hit' = hit /\ index' = index /\ request' = request
  BY <1>1, <1>2, SelectionStable
<1>5. phase = "decode" /\ UNCHANGED lowerVars
  BY <1>1, PathRests DEF Next
<1>6. UniqueTag' /\ DirtyIsValid'
  BY <1>1 DEF IndInv, UniqueTag, DirtyIsValid
<1>7. HeldLinesCurrent'
  BY <1>1, <1>3 DEF IndInv, HeldLinesCurrent, Refilling
<1>8. MemoryCurrent'
  <2>1. \A i \in Way, t \in Tag, s \in Index : DirtyCopy(i, t, s) => DirtyCopy(i, t, s)'
    BY <1>1, <1>4 DEF DirtyCopy, Refilling, dirty_out
  <2> QED
    BY <1>3, <1>5, <2>1 DEF IndInv, MemoryCurrent, lowerVars
<1>9. FillIsMiss' /\ PathInv'
  BY <1>1, <1>4, <1>5 DEF FillIsMiss, PathInv, lowerVars
<1> QED
  BY <1>6, <1>7, <1>8, <1>9 DEF CoherenceInv

(* A cycle of read_mem before the answer: only the victim's data and dirty *)
(* bit change, and no obligation rests on the victim any more.             *)
LEMMA FillingKeeps ==
  ASSUME IndInv, Next, Fill(pmem_resp, pmem_rdata), phase # "done"
  PROVE  CoherenceInv'
<1>1. /\ state = "read_mem" /\ state' = "read_mem" /\ pmem_read /\ ~pmem_write /\ ~mem_resp
      /\ request /\ ~hit
      /\ UNCHANGED lru_array
  BY DEF Fill, pmem_read, pmem_write, mem_resp, pmem_resp, IndInv, FillIsMiss
<1>2. UNCHANGED req
  BY <1>1, RequestStays DEF Next
<1>3. shadow' = shadow
  BY <1>1 DEF Next, ShadowStep, storing
<1>4. TypeOK /\ CacheTypeOK /\ lru_idx \in Way /\ index \in Index
  BY RequestType DEF IndInv, TypeOK
<1>5. UNCHANGED <<tag_array, valid_array>>
  BY <1>4 DEF Fill, pmem_resp, CacheTypeOK
<1>6. lru_idx' = lru_idx /\ hit' = hit /\ index' = index /\ request' = request
  BY <1>1, <1>2, <1>5, SelectionStable
<1>7. \A i \in Way : \A s \in Index :
        IF i = lru_idx /\ s = index THEN ~dirty_array'[i][s]
        ELSE dirty_array'[i][s] = dirty_array[i][s] /\ DM_cache'[i][s] = DM_cache[i][s]
  BY <1>4 DEF Fill, CacheTypeOK
<1>8. ~dirty_out'
  BY <1>4, <1>6, <1>7 DEF dirty_out
<1>9. UniqueTag' /\ DirtyIsValid'
  BY <1>5, <1>7 DEF IndInv, UniqueTag, DirtyIsValid
<1>10. HeldLinesCurrent'
  BY <1>1, <1>3, <1>5, <1>6, <1>7 DEF IndInv, HeldLinesCurrent, Refilling
<1>11. phase \in {"busy", "done"} => ~writing /\ addressbuf = LineOf(req.addr)
  BY <1>1 DEF IndInv, PathInv, pmem_address
<1>12. memory' = memory
  BY <1>11 DEF Next, LowerStep, Wait, Grant, Latch, Done, ReadBeats, WriteBeats, lowerVars
<1>13. MemoryCurrent'
  <2>1. \A i \in Way, t \in Tag, s \in Index : DirtyCopy(i, t, s) => DirtyCopy(i, t, s)'
    BY <1>1, <1>5, <1>6, <1>7 DEF DirtyCopy, Refilling
  <2> QED
    BY <1>3, <1>12, <2>1 DEF IndInv, MemoryCurrent
<1>14. FillIsMiss'
  BY <1>1, <1>6 DEF FillIsMiss
<1>15. PathInv'
  <2>1. Pending' /\ ~pmem_write' /\ ~dirty_out'
    BY <1>1, <1>8 DEF Pending, pmem_read, pmem_write
  <2>2. LineOf(pmem_address)' = LineOf(req.addr)
    BY <1>2, <1>8 DEF pmem_address, LineOf
  <2>3. CASE Wait \/ Grant
    BY <2>1, <2>3 DEF Wait, Grant, PathInv, lowerVars
  <2>4. CASE Latch
    <3>1. LineOf(pmem_address) = LineOf(req.addr)
      BY <1>1, <2>4 DEF Latch, IndInv, PathInv, pmem_address
    <3> QED
      BY <1>1, <2>1, <2>2, <2>4, <3>1 DEF Latch, PathInv
  <2>5. CASE \E S \in SUBSET Cell : ReadBeats(S)
    BY <1>11, <1>12, <2>1, <2>2, <2>5 DEF ReadBeats, PathInv
  <2>6. CASE \E S \in SUBSET Cell : WriteBeats(S)
    BY <1>11, <2>6 DEF WriteBeats
  <2> QED
    BY <2>3, <2>4, <2>5, <2>6 DEF Next, LowerStep, Done
<1> QED
  BY <1>9, <1>10, <1>13, <1>14, <1>15 DEF CoherenceInv

(* The answer: no way holds the requested line, so memory is up to date    *)
(* for it and the refilled way becomes a clean copy.                       *)
LEMMA FilledKeeps ==
  ASSUME IndInv, Next, Fill(pmem_resp, pmem_rdata), phase = "done"
  PROVE  CoherenceInv'
<1> DEFINE line == LineOf(req.addr)
<1>1. /\ state = "read_mem" /\ state' = "check_hit" /\ pmem_read /\ ~pmem_write /\ ~mem_resp
      /\ request /\ ~hit
  BY DEF Fill, pmem_read, pmem_write, mem_resp, pmem_resp, IndInv, FillIsMiss
<1>2. shadow' = shadow
  BY <1>1 DEF Next, ShadowStep, storing
<1>3. TypeOK /\ CacheTypeOK /\ lru_idx \in Way /\ index \in Index /\ address_tag \in Tag
  BY RequestType DEF IndInv, TypeOK
<1>4. line = <<address_tag, index>>
  BY DEF LineOf, address_tag, index
<1>5. \A i \in Way : valid_array[i][index] => tag_array[i][index] # address_tag
  BY <1>1, Selection DEF HitWays
<1>6. memory[line] = shadow[line]
  BY <1>3, <1>4, <1>5 DEF IndInv, MemoryCurrent, DirtyCopy
<1>7. pmem_rdata = shadow[line]
  <2>1. addressbuf = line
    BY <1>1 DEF IndInv, PathInv, pmem_address
  <2> QED
    BY <1>1, <1>6, <2>1 DEF IndInv, PathInv, pmem_rdata
<1>8. \A i \in Way : \A s \in Index :
        IF i = lru_idx /\ s = index
        THEN /\ DM_cache'[i][s] = shadow[line] /\ ~dirty_array'[i][s]
             /\ tag_array'[i][s] = address_tag /\ valid_array'[i][s]
        ELSE /\ DM_cache'[i][s] = DM_cache[i][s] /\ dirty_array'[i][s] = dirty_array[i][s]
             /\ tag_array'[i][s] = tag_array[i][s] /\ valid_array'[i][s] = valid_array[i][s]
  BY <1>3, <1>7 DEF Fill, pmem_resp, CacheTypeOK
<1>9. phase' = "decode" /\ memory' = memory
  BY DEF Next, LowerStep, Wait, Grant, Latch, Done, ReadBeats, WriteBeats
<1>10. UniqueTag'
  BY <1>5, <1>8 DEF IndInv, UniqueTag
<1>11. DirtyIsValid'
  BY <1>8 DEF IndInv, DirtyIsValid
<1>12. HeldLinesCurrent'
  BY <1>1, <1>2, <1>4, <1>8 DEF IndInv, HeldLinesCurrent, Refilling
<1>13. MemoryCurrent'
  <2>1. \A i \in Way, t \in Tag, s \in Index : DirtyCopy(i, t, s) => DirtyCopy(i, t, s)'
    BY <1>1, <1>8 DEF DirtyCopy, Refilling
  <2> QED
    BY <1>2, <1>9, <2>1 DEF IndInv, MemoryCurrent
<1>14. FillIsMiss' /\ PathInv'
  BY <1>1, <1>9 DEF FillIsMiss, PathInv
<1> QED
  BY <1>10, <1>11, <1>12, <1>13, <1>14 DEF CoherenceInv

(* The invariant is inductive: each cycle of check_hit and read_mem keeps  *)
(* it.                                                                     *)
LEMMA NextIndInv ==
  ASSUME IndInv, [Next]_vars
  PROVE  IndInv'
<1>1. TypeOK'
  BY NextTypeOK DEF IndInv
<1>2. CASE Next
  <2>1. Clock(pmem_resp, pmem_rdata)
    BY <1>2 DEF Next
  <2>2. CoherenceInv'
    BY <1>2, <2>1, IdleKeeps, HitKeeps, WriteBackKeeps, CleanMissKeeps, FillingKeeps,
       FilledKeeps DEF Clock
  <2> QED
    BY <1>1, <2>2 DEF IndInv, CoherenceInv
<1>3. CASE UNCHANGED vars
  <2>1. /\ lru_idx' = lru_idx /\ hit' = hit /\ index' = index /\ request' = request
        /\ UNCHANGED <<state, DM_cache, tag_array, valid_array, dirty_array>>
        /\ UNCHANGED <<phase, addressbuf, linebuf, writing, memory, shadow, req>>
    BY <1>3, SelectionStable DEF vars, cacheRegs, lowerVars
  <2>2. UniqueTag' /\ DirtyIsValid' /\ HeldLinesCurrent' /\ FillIsMiss'
    BY <2>1 DEF IndInv, UniqueTag, DirtyIsValid, HeldLinesCurrent, Refilling, FillIsMiss
  <2>3. MemoryCurrent'
    <3>1. \A i \in Way, t \in Tag, s \in Index : DirtyCopy(i, t, s) => DirtyCopy(i, t, s)'
      BY <2>1 DEF DirtyCopy, Refilling
    <3> QED
      BY <2>1, <3>1 DEF IndInv, MemoryCurrent
  <2>4. PathInv'
    BY <2>1 DEF IndInv, PathInv, Pending, pmem_read, pmem_write, pmem_address, dirty_out, LineOf
  <2> QED
    BY <1>1, <2>2, <2>3, <2>4 DEF IndInv
<1> QED
  BY <1>2, <1>3

(* The inductive invariant holds in every reachable state of the cache and *)
(* its path to memory.                                                     *)
THEOREM Invariance == Spec => []IndInv
<1>1. Init => IndInv
  BY InitIndInv
<1>2. IndInv /\ [Next]_vars => IndInv'
  BY NextIndInv
<1> QED
  BY <1>1, <1>2, PTL DEF Spec

-----------------------------------------------------------------------------
(* What follows from it.                                                   *)

(* The way that hits holds what the stores left.                           *)
LEMMA ReadsCurrent == ASSUME IndInv PROVE ReadsMatchShadow
<1> SUFFICES ASSUME mem_resp, req.op = "load"
             PROVE  mem_rdata_cpu = WordOf(shadow[LineOf(req.addr)], req.addr.word)
  BY DEF ReadsMatchShadow
<1>1. TypeOK /\ CacheTypeOK /\ lru_idx \in Way /\ index \in Index
  BY RequestType DEF IndInv, TypeOK
<1>2. /\ valid_array[lru_idx][index] /\ state = "check_hit"
      /\ <<tag_array[lru_idx][index], index>> = LineOf(req.addr)
  BY DEF mem_resp, hit, LineOf, index, address_tag
<1>3. DM_cache[lru_idx][index] = shadow[LineOf(req.addr)]
  BY <1>1, <1>2 DEF IndInv, HeldLinesCurrent, Refilling
<1>4. line_out = DM_cache[lru_idx][index]
  <2>1. DM_cache[lru_idx][index] \in Line /\ mask = {}
    BY <1>1 DEF CacheTypeOK, mask, storing
  <2> QED
    BY <2>1 DEF line_out, Line
<1> QED
  BY <1>3, <1>4 DEF mem_rdata_cpu

(* Every load answered returns what the stores before it left.             *)
THEOREM ReadsCorrect == Spec => []ReadsMatchShadow
<1>1. IndInv => ReadsMatchShadow
  BY ReadsCurrent
<1> QED
  BY <1>1, Invariance, PTL

(* A line is in at most one way of its set.                                *)
THEOREM OneWayPerLine == Spec => []UniqueTag
<1>1. IndInv => UniqueTag
  BY DEF IndInv
<1> QED
  BY <1>1, Invariance, PTL

(* A store is never only in a way that is being overwritten.               *)
THEOREM StoresSurvive == Spec => []NoLostStore
<1>1. ASSUME IndInv PROVE NoLostStore
  <2> SUFFICES ASSUME NEW l \in LineAddr, memory[l] # shadow[l]
               PROVE  \E i \in Way : /\ valid_array[i][l[2]] /\ dirty_array[i][l[2]]
                                     /\ tag_array[i][l[2]] = l[1]
                                     /\ DM_cache[i][l[2]] = shadow[l]
    BY DEF NoLostStore
  <2>1. l[1] \in Tag /\ l[2] \in Index /\ l = <<l[1], l[2]>>
    BY DEF LineAddr
  <2>2. PICK i \in Way : DirtyCopy(i, l[1], l[2])
    BY <1>1, <2>1 DEF IndInv, MemoryCurrent
  <2> QED
    BY <1>1, <2>1, <2>2 DEF IndInv, HeldLinesCurrent, DirtyCopy
<1> QED
  BY <1>1, Invariance, PTL

(* A fill reads the requested line, never the victim again.                *)
THEOREM FillsAreOfTheRequest == Spec => []FillsRequestedLine
<1>1. ASSUME IndInv PROVE FillsRequestedLine
  BY <1>1 DEF IndInv, PathInv, FillsRequestedLine, pmem_read, pmem_write, pmem_address
<1> QED
  BY <1>1, Invariance, PTL

(* The access that missed hits in the cycle after its refill.              *)
THEOREM MissEndsInHit == Spec => FillThenHit
<1>1. ASSUME IndInv, [Next]_vars
      PROVE  [(state = "read_mem" /\ phase = "done") => mem_resp']_vars
  <2> SUFFICES ASSUME Next, state = "read_mem", phase = "done"
               PROVE  mem_resp'
    BY <1>1
  <2>1. Fill(pmem_resp, pmem_rdata)
    BY DEF Next, Clock, Idle, Hit, WriteBack, CleanMiss, mem_resp, pmem_write
  <2>2. TypeOK /\ CacheTypeOK /\ lru_idx \in Way /\ index \in Index
    BY <1>1, RequestType DEF IndInv, TypeOK
  <2>3. state' = "check_hit" /\ request /\ ~mem_resp
    BY <1>1, <2>1 DEF Fill, pmem_resp, IndInv, FillIsMiss, mem_resp
  <2>4. UNCHANGED req
    BY <1>1, <2>3, RequestStays DEF Next
  <2>5. index' = index /\ address_tag' = address_tag /\ request'
    BY <2>3, <2>4 DEF index, address_tag, request
  <2>6. valid_array'[lru_idx][index] /\ tag_array'[lru_idx][index] = address_tag
    BY <2>1, <2>2 DEF Fill, pmem_resp, CacheTypeOK
  <2>7. HitWays' # {}
    BY <2>2, <2>5, <2>6 DEF HitWays
  <2> QED
    BY <2>3, <2>5, <2>7, SelectionNext DEF mem_resp
<1> QED
  BY <1>1, Invariance, PTL DEF Spec, FillThenHit

(* The line transfers between now and the answer to the request: the       *)
(* write-back of a dirty victim and the fill.                              *)
TransfersLeft ==
  IF state = "read_mem" THEN 1
  ELSE IF request /\ ~hit THEN (IF dirty_out THEN 2 ELSE 1) ELSE 0

(* While the request stays, each answer of the path makes it one less, and *)
(* nothing makes it more.                                                  *)
LEMMA TransfersCountDown ==
  ASSUME IndInv, Next, UNCHANGED req
  PROVE  TransfersLeft' = IF phase = "done" THEN TransfersLeft - 1 ELSE TransfersLeft
<1>1. TypeOK /\ CacheTypeOK /\ lru_idx \in Way /\ index \in Index
  BY RequestType DEF IndInv, TypeOK
<1>2. index' = index /\ address_tag' = address_tag /\ request' = request
  BY DEF index, address_tag, request
<1>3. phase = "done" => pmem_read \/ pmem_write
  BY DEF IndInv, PathInv, Pending
<1>4. Clock(pmem_resp, pmem_rdata)
  BY DEF Next
<1>5. CASE Idle
  <2>1. state = "check_hit" /\ state' = "check_hit" /\ ~request /\ ~request' /\ phase # "done"
    BY <1>2, <1>3, <1>5 DEF Idle, cacheRegs, pmem_read, pmem_write
  <2>2. TransfersLeft = 0 /\ TransfersLeft' = 0
    BY <2>1 DEF TransfersLeft
  <2> QED BY <2>1, <2>2
<1>6. CASE Hit
  <2>1. /\ state = "check_hit" /\ state' = "check_hit" /\ hit /\ phase # "done"
        /\ UNCHANGED <<tag_array, valid_array>>
    BY <1>3, <1>6 DEF Hit, mem_resp, pmem_read, pmem_write
  <2>2. HitWays' = HitWays
    BY <1>2, <2>1 DEF HitWays
  <2>3. hit'
    BY <2>1, <2>2, Selection, SelectionNext
  <2>4. TransfersLeft = 0 /\ TransfersLeft' = 0
    BY <2>1, <2>3 DEF TransfersLeft
  <2> QED BY <2>1, <2>4
<1>7. CASE WriteBack(pmem_resp)
  <2>1. /\ state = "check_hit" /\ request /\ ~hit /\ dirty_out
        /\ state' = IF phase = "done" THEN "read_mem" ELSE "check_hit"
        /\ UNCHANGED <<tag_array, valid_array, lru_array, dirty_array>>
    BY <1>7 DEF WriteBack, pmem_write, pmem_resp
  <2>2. lru_idx' = lru_idx /\ hit' = hit
    BY <2>1, SelectionStable
  <2>3. dirty_out' = dirty_out
    BY <1>2, <2>1, <2>2 DEF dirty_out
  <2>4. TransfersLeft = 2
    BY <2>1 DEF TransfersLeft
  <2>5. CASE phase = "done"
    <3>1. TransfersLeft' = 1
      BY <2>1, <2>5 DEF TransfersLeft
    <3> QED BY <2>4, <2>5, <3>1
  <2>6. CASE phase # "done"
    <3>1. state' = "check_hit" /\ request' /\ ~hit' /\ dirty_out'
      BY <1>2, <2>1, <2>2, <2>3, <2>6
    <3>2. TransfersLeft' = 2
      BY <3>1 DEF TransfersLeft
    <3> QED BY <2>4, <2>6, <3>2
  <2> QED BY <2>5, <2>6
<1>8. CASE CleanMiss
  <2>1. /\ state = "check_hit" /\ request /\ ~hit /\ ~dirty_out /\ state' = "read_mem"
        /\ phase # "done"
    BY <1>3, <1>8 DEF CleanMiss, pmem_read, pmem_write
  <2>2. TransfersLeft = 1 /\ TransfersLeft' = 1
    BY <2>1 DEF TransfersLeft
  <2> QED BY <2>1, <2>2
<1>9. CASE Fill(pmem_resp, pmem_rdata)
  <2>1. state = "read_mem" /\ state' = IF phase = "done" THEN "check_hit" ELSE "read_mem"
    BY <1>9 DEF Fill, pmem_read, pmem_resp
  <2>2. TransfersLeft = 1
    BY <2>1 DEF TransfersLeft
  <2>3. CASE phase # "done"
    <3>1. TransfersLeft' = 1
      BY <2>1, <2>3 DEF TransfersLeft
    <3> QED BY <2>2, <2>3, <3>1
  <2>4. CASE phase = "done"
    <3>1. valid_array'[lru_idx][index] /\ tag_array'[lru_idx][index] = address_tag
      BY <1>1, <1>9, <2>4 DEF Fill, pmem_resp, CacheTypeOK
    <3>2. HitWays' # {}
      BY <1>1, <1>2, <3>1 DEF HitWays
    <3>3. hit' /\ state' = "check_hit"
      BY <2>1, <2>4, <3>2, SelectionNext
    <3>4. TransfersLeft' = 0
      BY <3>3 DEF TransfersLeft
    <3> QED BY <2>2, <2>4, <3>4
  <2> QED BY <2>3, <2>4
<1> QED
  BY <1>4, <1>5, <1>6, <1>7, <1>8, <1>9 DEF Clock

-----------------------------------------------------------------------------
(* Replacement.                                                            *)

(* Ages of the ways of a set: two differ unless both are the oldest there  *)
(* is, and any other age counts the younger ways.                          *)
Younger(f, i) == {j \in Way : f[j] < f[i]}

Ages(f) ==
  /\ \A i, j \in Way : (i # j /\ f[i] = f[j]) => f[i] = Ways - 1
  /\ \A i \in Way : f[i] # Ways - 1 => Cardinality(Younger(f, i)) = f[i]

AgesIn(s) == [i \in Way |-> lru_array[i][s]]

(* The way that was filled and will hit in this cycle.                     *)
Fresh(i, s) == state = "check_hit" /\ request /\ hit /\ s = index /\ i = lru_idx

(* The counters order the ways of a set as their uses did.                 *)
AgesFollowUse ==
  \A s \in Index :
    /\ Ages(AgesIn(s))
    /\ \A i, j \in Way : <<i, j>> \in newer[s] <=> lru_array[i][s] < lru_array[j][s]

(* A way that was used is valid, and only ways that were not share the     *)
(* oldest age.                                                             *)
UsedIsValid ==
  \A s \in Index : \A i \in Way : lru_array[i][s] # Ways - 1 => valid_array[i][s]

TwinsUnused ==
  \A s \in Index : \A i, j \in Way :
    (i # j /\ lru_array[i][s] = lru_array[j][s] /\ valid_array[i][s]) => Fresh(i, s)

LruInv == AgesFollowUse /\ UsedIsValid /\ TwinsUnused

(* There are Ways ways, and a set of them has no more.                     *)
LEMMA WaysFinite ==
  /\ IsFiniteSet(Way) /\ Cardinality(Way) = Ways
  /\ \A S \in SUBSET Way : /\ IsFiniteSet(S) /\ Cardinality(S) \in Nat
                           /\ Cardinality(S) <= Ways
<1>1. Ways \in Nat \ {0} /\ 0 \in Int /\ Ways - 1 \in Int
  BY WaysAssumption
<1>2. IsFiniteSet(Way) /\ Cardinality(Way) = Ways
  BY <1>1, FS_Interval DEF Way
<1>3. ASSUME NEW S \in SUBSET Way
      PROVE  IsFiniteSet(S) /\ Cardinality(S) \in Nat /\ Cardinality(S) <= Ways
  BY <1>2, FS_Subset, FS_CardinalityType
<1> QED BY <1>2, <1>3

(* Where two ways have the oldest age, no way has the second oldest: its   *)
(* age would count more ways than there are.                               *)
LEMMA NoSecondOldest ==
  ASSUME NEW f \in [Way -> Way], Ages(f), NEW i \in Way, NEW j \in Way, NEW w \in Way,
         j # w, f[j] = Ways - 1, f[w] = Ways - 1
  PROVE  f[i] + 1 # Ways - 1
<1> SUFFICES ASSUME f[i] + 1 = Ways - 1
             PROVE  FALSE
  OBVIOUS
<1>1. Ways \in Nat \ {0} /\ \A k \in Way : f[k] \in Nat
  BY WaysAssumption, WaySubset
<1>2. f[i] # Ways - 1 /\ i # j /\ i # w
  BY <1>1
<1> DEFINE S == Younger(f, i)  S1 == S \cup {i}  S2 == S1 \cup {j}  S3 == S2 \cup {w}
<1>3. i \notin S /\ j \notin S1 /\ w \notin S2
  <2>1. i \notin S /\ j \notin S /\ w \notin S
    BY <1>1 DEF Younger
  <2> QED BY <1>2, <2>1
<1>4. S \in SUBSET Way /\ S3 \in SUBSET Way
  BY DEF Younger
<1>5. Cardinality(S) = f[i] /\ IsFiniteSet(S)
  BY <1>2, <1>4, WaysFinite DEF Ages
<1> HIDE DEF S
<1>6. IsFiniteSet(S1) /\ Cardinality(S1) = f[i] + 1
  BY <1>3, <1>5, FS_AddElement
<1> HIDE DEF S1
<1>7. IsFiniteSet(S2) /\ Cardinality(S2) = (f[i] + 1) + 1
  BY <1>3, <1>6, FS_AddElement
<1> HIDE DEF S2
<1>8. Cardinality(S3) = ((f[i] + 1) + 1) + 1
  BY <1>3, <1>7, FS_AddElement
<1>9. Cardinality(S3) <= Ways
  BY <1>4, WaysFinite
<1> QED BY <1>1, <1>8, <1>9

(* The ages after a use of way w: it is the youngest, the ways that were   *)
(* younger are one older, and the others keep their order.                 *)
Used(f, w) == [i \in Way |-> IF i = w THEN 0 ELSE IF f[i] < f[w] THEN f[i] + 1 ELSE f[i]]

(* An age is a number below Ways.                                          *)
LEMMA AgeType ==
  ASSUME NEW f \in [Way -> Way], NEW k \in Way
  PROVE  f[k] \in Nat /\ f[k] <= Ways - 1 /\ Ways \in Nat \ {0}
<1>1. f[k] \in Way
  OBVIOUS
<1> QED BY <1>1, WaysAssumption DEF Way

(* The age of each way after a use.                                        *)
LEMMA UsedAge ==
  ASSUME NEW f \in [Way -> Way], NEW w \in Way
  PROVE  /\ Used(f, w) \in [Way -> Way] /\ Used(f, w)[w] = 0
         /\ \A i \in Way \ {w} : Used(f, w)[i] = IF f[i] < f[w] THEN f[i] + 1 ELSE f[i]
<1>1. ASSUME NEW i \in Way
      PROVE  (IF i = w THEN 0 ELSE IF f[i] < f[w] THEN f[i] + 1 ELSE f[i]) \in Way
  <2>1. /\ f[i] \in Nat /\ f[i] <= Ways - 1 /\ f[w] \in Nat /\ f[w] <= Ways - 1
        /\ Ways \in Nat \ {0}
    BY AgeType
  <2>2. f[i] < f[w] => f[i] + 1 \in 0 .. (Ways - 1)
    BY <2>1
  <2>3. f[i] \in Way /\ 0 \in Way
    BY WaySubset
  <2> QED BY <2>2, <2>3 DEF Way
<1> QED BY <1>1 DEF Used

(* A use keeps the order of the other ways.                                *)
LEMMA UseKeepsOrder ==
  ASSUME NEW f \in [Way -> Way], Ages(f), NEW w \in Way, NEW i \in Way \ {w}
  PROVE  /\ 0 < Used(f, w)[i]
         /\ \A j \in Way \ {w} :
              /\ f[i] < f[j] <=> Used(f, w)[i] < Used(f, w)[j]
              /\ f[i] = f[j] <=> Used(f, w)[i] = Used(f, w)[j]
<1> DEFINE g == Used(f, w)
<1>1. \A k \in Way \ {w} : g[k] = IF f[k] < f[w] THEN f[k] + 1 ELSE f[k]
  BY UsedAge
<1>2. /\ f[i] \in Nat /\ f[i] <= Ways - 1 /\ f[w] \in Nat /\ f[w] <= Ways - 1
      /\ Ways \in Nat \ {0}
  BY AgeType
<1>3. g[i] = IF f[i] < f[w] THEN f[i] + 1 ELSE f[i]
  BY <1>1
<1> HIDE DEF g
<1>4. 0 < g[i]
  <2>1. (f[i] = 0 /\ f[w] = 0) => Ways - 1 = 0
    BY DEF Ages
  <2>2. Ways - 1 # 0
    <3>1. i \in 0 .. (Ways - 1) /\ w \in 0 .. (Ways - 1) /\ i # w
      BY DEF Way
    <3> QED BY <1>2, <3>1
  <2> QED BY <1>2, <1>3, <2>1, <2>2
<1>5. ASSUME NEW j \in Way \ {w}
      PROVE  (f[i] < f[j] <=> g[i] < g[j]) /\ (f[i] = f[j] <=> g[i] = g[j])
  <2>1. f[j] \in Nat /\ f[j] <= Ways - 1
    BY AgeType
  <2>2. g[j] = IF f[j] < f[w] THEN f[j] + 1 ELSE f[j]
    BY <1>1
  <2>3. f[j] = f[w] => f[i] + 1 # f[j]
    <3> SUFFICES ASSUME f[j] = f[w]
                 PROVE  f[i] + 1 # f[j]
      OBVIOUS
    <3>1. f[j] = Ways - 1 /\ f[w] = Ways - 1
      BY DEF Ages
    <3> QED BY <3>1, NoSecondOldest
  <2>4. f[i] = f[w] => f[j] + 1 # f[i]
    <3> SUFFICES ASSUME f[i] = f[w]
                 PROVE  f[j] + 1 # f[i]
      OBVIOUS
    <3>1. f[i] = Ways - 1 /\ f[w] = Ways - 1
      BY DEF Ages
    <3> QED BY <3>1, NoSecondOldest
  <2>5. PICK a \in Nat, b \in Nat, c \in Nat : a = f[i] /\ b = f[j] /\ c = f[w]
    BY <1>2, <2>1
  <2>6. g[i] = (IF a < c THEN a + 1 ELSE a) /\ g[j] = (IF b < c THEN b + 1 ELSE b)
    BY <1>3, <2>2, <2>5
  <2>7. (b = c => a + 1 # b) /\ (a = c => b + 1 # a)
    BY <2>3, <2>4, <2>5
  <2>8. (a < b <=> g[i] < g[j]) /\ (a = b <=> g[i] = g[j])
    BY <2>6, <2>7
  <2> QED BY <2>5, <2>8
<1> QED BY <1>4, <1>5 DEF g

(* A use keeps the ages apart, and each the number of the younger ways.    *)
LEMMA UseKeepsAges ==
  ASSUME NEW f \in [Way -> Way], Ages(f), NEW w \in Way
  PROVE  Ages(Used(f, w))
<1> DEFINE g == Used(f, w)
<1>1. /\ g \in [Way -> Way] /\ g[w] = 0
      /\ \A i \in Way \ {w} : g[i] = IF f[i] < f[w] THEN f[i] + 1 ELSE f[i]
  BY UsedAge
<1>2. ASSUME NEW i \in Way \ {w}
      PROVE  /\ 0 < g[i]
             /\ \A j \in Way \ {w} : (f[i] < f[j] <=> g[i] < g[j]) /\ (f[i] = f[j] <=> g[i] = g[j])
  BY UseKeepsOrder
<1> HIDE DEF g
<1>3. ASSUME NEW i \in Way, NEW j \in Way, i # j, g[i] = g[j]
      PROVE  g[i] = Ways - 1
  <2>1. i # w
    <3>1. j # w => 0 < g[j]
      BY <1>2
    <3> QED BY <1>1, <1>3, <3>1
  <2>2. j # w
    <3>1. 0 < g[i]
      BY <1>2, <2>1
    <3> QED BY <1>1, <1>3, <3>1
  <2>3. f[i] = f[j]
    BY <1>2, <1>3, <2>1, <2>2
  <2>4. f[i] = Ways - 1
    BY <1>3, <2>3 DEF Ages
  <2>5. g[i] = IF f[i] < f[w] THEN f[i] + 1 ELSE f[i]
    BY <1>1, <2>1
  <2>6. f[w] \in Nat /\ f[w] <= Ways - 1 /\ Ways \in Nat
    BY AgeType
  <2> QED BY <2>4, <2>5, <2>6
<1>4. ASSUME NEW i \in Way, g[i] # Ways - 1
      PROVE  Cardinality(Younger(g, i)) = g[i]
  <2>1. CASE i = w
    <3>1. ASSUME NEW j \in Way PROVE ~(g[j] < g[w])
      BY <1>1, AgeType
    <3>2. Younger(g, i) = {}
      BY <2>1, <3>1 DEF Younger
    <3> QED BY <1>1, <2>1, <3>2, FS_EmptySet
  <2>2. ASSUME i # w PROVE g[w] < g[i] /\ \A j \in Way \ {w} : f[j] < f[i] <=> g[j] < g[i]
    BY <1>1, <1>2, <2>2
  <2>3. CASE i # w /\ f[i] < f[w]
    <3>1. f[i] \in Nat /\ f[w] \in Nat /\ f[w] <= Ways - 1 /\ Ways \in Nat
      BY AgeType
    <3>2. g[i] = f[i] + 1 /\ f[i] # Ways - 1 /\ ~(f[w] < f[i])
      BY <1>1, <2>3, <3>1
    <3>3. Younger(g, i) = Younger(f, i) \cup {w}
      BY <2>2, <2>3 DEF Younger
    <3>4. w \notin Younger(f, i)
      BY <3>2 DEF Younger
    <3>5. IsFiniteSet(Younger(f, i)) /\ Cardinality(Younger(f, i)) = f[i]
      <4>1. Younger(f, i) \in SUBSET Way
        BY DEF Younger
      <4> QED BY <3>2, <4>1, WaysFinite DEF Ages
    <3>6. Cardinality(Younger(f, i) \cup {w}) = f[i] + 1
      BY <3>4, <3>5, FS_AddElement
    <3> QED BY <3>2, <3>3, <3>6
  <2>4. CASE i # w /\ ~(f[i] < f[w])
    <3>1. g[i] = f[i]
      BY <1>1, <2>4
    <3>2. f[i] \in Nat /\ f[w] \in Nat
      BY AgeType
    <3>3. f[w] < f[i]
      <4>1. f[w] # f[i]
        BY <1>4, <2>4, <3>1 DEF Ages
      <4> QED BY <2>4, <3>2, <4>1
    <3>4. Younger(g, i) = Younger(f, i)
      BY <2>2, <2>4, <3>3 DEF Younger
    <3> QED BY <1>4, <3>1, <3>4 DEF Ages
  <2> QED BY <2>1, <2>3, <2>4
<1> QED BY <1>3, <1>4 DEF Ages, g

(* After reset every way has the oldest age and none was used.             *)
LEMMA InitLruInv == Init => LruInv
<1> SUFFICES ASSUME Init PROVE LruInv
  OBVIOUS
<1>1. \A s \in Index : /\ newer[s] = {}
                       /\ \A i \in Way : lru_array[i][s] = Ways - 1 /\ ~valid_array[i][s]
  BY DEF Init, CacheInit
<1>2. AgesFollowUse
  <2> SUFFICES ASSUME NEW s \in Index
               PROVE  /\ Ages(AgesIn(s))
                      /\ \A i, j \in Way : <<i, j>> \in newer[s]
                                             <=> lru_array[i][s] < lru_array[j][s]
    BY DEF AgesFollowUse
  <2>1. \A i \in Way : AgesIn(s)[i] = Ways - 1
    BY <1>1 DEF AgesIn
  <2>2. Ages(AgesIn(s))
    BY <2>1 DEF Ages
  <2>3. \A i, j \in Way : ~(lru_array[i][s] < lru_array[j][s])
    BY <1>1, WaysAssumption
  <2> QED BY <1>1, <2>2, <2>3
<1>3. UsedIsValid /\ TwinsUnused
  BY <1>1 DEF UsedIsValid, TwinsUnused
<1> QED BY <1>2, <1>3 DEF LruInv

(* What a hit does to the ages of the ways and to the history of a set.    *)
LEMMA HitUses ==
  ASSUME IndInv, LruInv, Next, Hit, NEW s \in Index
  PROVE  /\ lru_idx \in Way /\ index \in Index /\ AgesIn(s) \in [Way -> Way]
         /\ s = index => /\ AgesIn(s)' = Used(AgesIn(s), lru_idx)
                         /\ newer'[s] = UseOf(lru_idx, newer[s])
         /\ s # index => AgesIn(s)' = AgesIn(s) /\ newer'[s] = newer[s]
<1>1. TypeOK /\ CacheTypeOK /\ lru_idx \in Way /\ index \in Index
  BY RequestType DEF IndInv, TypeOK
<1>2. AgesIn(s) \in [Way -> Way]
  BY <1>1 DEF AgesIn, CacheTypeOK
<1>3. /\ newer' = [newer EXCEPT ![index] = UseOf(lru_idx, @)]
      /\ lru_array' = [i \in Way |-> [lru_array[i] EXCEPT ![index] = LruAfterHit(i)]]
  BY DEF Next, NewerStep, Hit
<1>4. s = index => newer'[s] = UseOf(lru_idx, newer[s])
  BY <1>1, <1>3 DEF TypeOK
<1>5. s # index => newer'[s] = newer[s]
  BY <1>1, <1>3 DEF TypeOK
<1>6. ASSUME NEW i \in Way
      PROVE  lru_array'[i][s] = IF s = index THEN LruAfterHit(i) ELSE lru_array[i][s]
  <2>1. lru_array[i] \in [Index -> Way]
    BY <1>1 DEF CacheTypeOK
  <2>2. lru_array'[i] = [lru_array[i] EXCEPT ![index] = LruAfterHit(i)]
    BY <1>3
  <2> QED BY <2>1, <2>2
<1>7. ASSUME s = index, NEW i \in Way
      PROVE  LruAfterHit(i) = Used(AgesIn(s), lru_idx)[i]
  <2>1. lru_array[i][s] \in Nat /\ lru_array[lru_idx][s] \in Nat /\ Ways \in Nat \ {0}
        /\ lru_array[i][s] <= Ways - 1 /\ lru_array[lru_idx][s] <= Ways - 1
    BY <1>1, <1>2, AgeType DEF AgesIn
  <2>2. (lru_array[i][s] < lru_array[lru_idx][s]) => valid_array[i][s]
    BY <2>1 DEF LruInv, UsedIsValid
  <2>3. ASSUME lru_array[i][s] < lru_array[lru_idx][s]
        PROVE  (lru_array[i][s] + 1) % Ways = lru_array[i][s] + 1
    <3>1. PICK a \in Nat : a = lru_array[i][s]
      BY <2>1
    <3>2. a + 1 \in Nat /\ a + 1 < Ways
      BY <2>1, <2>3, <3>1
    <3>3. (a + 1) % Ways = a + 1
      BY <2>1, <3>2
    <3> QED BY <3>1, <3>3
  <2> QED BY <1>1, <1>7, <2>2, <2>3 DEF LruAfterHit, Used, AgesIn
<1>8. s = index => AgesIn(s)' = Used(AgesIn(s), lru_idx)
  <2> SUFFICES ASSUME s = index
               PROVE  AgesIn(s)' = Used(AgesIn(s), lru_idx)
    OBVIOUS
  <2>1. AgesIn(s)' = [i \in Way |-> lru_array'[i][s]]
    BY DEF AgesIn
  <2>2. \A i \in Way : lru_array'[i][s] = Used(AgesIn(s), lru_idx)[i]
    BY <1>6, <1>7
  <2>3. Used(AgesIn(s), lru_idx) \in [Way -> Way]
    BY <1>1, <1>2, UsedAge
  <2> QED BY <2>1, <2>2, <2>3
<1>9. s # index => AgesIn(s)' = AgesIn(s)
  BY <1>6 DEF AgesIn
<1> QED BY <1>1, <1>2, <1>4, <1>5, <1>8, <1>9

(* A hit ages the younger ways, and history records the use.               *)
LEMMA HitKeepsLru ==
  ASSUME IndInv, LruInv, Next, Hit
  PROVE  LruInv'
<1>1. /\ mem_resp /\ valid_array[lru_idx][index] /\ UNCHANGED valid_array
  BY DEF Hit, mem_resp, hit
<1> SUFFICES ASSUME NEW s \in Index
             PROVE  /\ Ages(AgesIn(s))'
                    /\ \A i, j \in Way : <<i, j>> \in newer'[s]
                                           <=> lru_array'[i][s] < lru_array'[j][s]
                    /\ \A i \in Way : lru_array'[i][s] # Ways - 1 => valid_array[i][s]
                    /\ \A i, j \in Way :
                         (i # j /\ lru_array'[i][s] = lru_array'[j][s]) => ~valid_array[i][s]
  BY <1>1 DEF LruInv, AgesFollowUse, UsedIsValid, TwinsUnused
<1> DEFINE f == AgesIn(s)  w == lru_idx
<1>2. w \in Way /\ f \in [Way -> Way] /\ Ages(f)
  BY HitUses DEF LruInv, AgesFollowUse
<1>3. \A i \in Way : f[i] = lru_array[i][s] /\ f'[i] = lru_array'[i][s]
  BY DEF AgesIn
<1>4. /\ \A i, j \in Way : <<i, j>> \in newer[s] <=> f[i] < f[j]
      /\ \A i \in Way : f[i] # Ways - 1 => valid_array[i][s]
      /\ \A i, j \in Way : (i # j /\ f[i] = f[j] /\ valid_array[i][s]) => (s = index /\ i = w)
  BY <1>3 DEF LruInv, AgesFollowUse, UsedIsValid, TwinsUnused, Fresh
<1>5. CASE s # index
  <2>1. f' = f /\ newer'[s] = newer[s]
    BY <1>5, HitUses
  <2>2. Ages(AgesIn(s))'
    BY <1>2, <2>1 DEF Ages, Younger
  <2> QED BY <1>3, <1>4, <1>5, <2>1, <2>2
<1>6. CASE s = index
  <2>1. f' = Used(f, w) /\ newer'[s] = UseOf(w, newer[s])
    BY <1>6, HitUses
  <2> DEFINE g == Used(f, w)
  <2>2. Ages(AgesIn(s))'
    <3>1. Ages(g)
      BY <1>2, UseKeepsAges
    <3> QED BY <2>1, <3>1 DEF Ages, Younger
  <2>3. /\ g[w] = 0 /\ g \in [Way -> Way]
        /\ \A i \in Way \ {w} : g[i] = IF f[i] < f[w] THEN f[i] + 1 ELSE f[i]
    BY <1>2, UsedAge
  <2>4. ASSUME NEW i \in Way \ {w}
        PROVE  /\ 0 < g[i]
               /\ \A j \in Way \ {w} : /\ f[i] < f[j] <=> g[i] < g[j]
                                       /\ f[i] = f[j] <=> g[i] = g[j]
    BY <1>2, UseKeepsOrder
  <2>5. \A i \in Way : g[i] = lru_array'[i][s]
    BY <1>3, <2>1
  <2> HIDE DEF g, f, w
  <2>6. ASSUME NEW i \in Way, NEW j \in Way
        PROVE  <<i, j>> \in newer'[s] <=> g[i] < g[j]
    <3>1. <<i, j>> \in newer'[s] <=> (j # w /\ (<<i, j>> \in newer[s] \/ i = w))
      BY <2>1 DEF UseOf
    <3>2. CASE j = w
      <4>1. ~(g[i] < 0)
        BY <2>3, AgeType
      <4> QED BY <2>3, <3>1, <3>2, <4>1
    <3>3. CASE j # w /\ i = w
      BY <2>3, <2>4, <3>1, <3>3
    <3>4. CASE j # w /\ i # w
      BY <1>4, <2>4, <3>1, <3>4
    <3> QED BY <3>2, <3>3, <3>4
  <2>7. ASSUME NEW i \in Way, g[i] # Ways - 1
        PROVE  valid_array[i][s]
    <3>1. CASE i = w
      BY <1>1, <1>6, <3>1 DEF w
    <3>2. CASE i # w
      <4>1. g[i] = IF f[i] < f[w] THEN f[i] + 1 ELSE f[i]
        BY <2>3, <3>2
      <4>2. f[i] \in Nat /\ f[w] \in Nat /\ f[w] <= Ways - 1 /\ Ways \in Nat
        BY <1>2, AgeType
      <4>3. f[i] # Ways - 1
        BY <2>7, <4>1, <4>2
      <4> QED BY <1>4, <4>3
    <3> QED BY <3>1, <3>2
  <2>8. ASSUME NEW i \in Way, NEW j \in Way, i # j, g[i] = g[j]
        PROVE  ~valid_array[i][s]
    <3>1. i # w
      <4>1. j # w => 0 < g[j]
        BY <2>4
      <4> QED BY <2>3, <2>8, <4>1
    <3>2. j # w
      <4>1. 0 < g[i]
        BY <2>4, <3>1
      <4> QED BY <2>3, <2>8, <4>1
    <3>3. f[i] = f[j]
      BY <2>4, <2>8, <3>1, <3>2
    <3> QED BY <1>4, <2>8, <3>1, <3>3
  <2> QED BY <2>2, <2>5, <2>6, <2>7, <2>8
<1> QED BY <1>5, <1>6

(* The other cycles use no way; the last one of a fill makes the selected  *)
(* way valid, and the next cycle uses it.                                  *)
LEMMA NextLruInv ==
  ASSUME IndInv, LruInv, [Next]_vars
  PROVE  LruInv'
<1>1. CASE Next /\ Hit
  BY <1>1, HitKeepsLru
<1>2. CASE Next /\ ~Hit
  <2>1. ~mem_resp /\ UNCHANGED <<lru_array, newer>>
    BY <1>2 DEF Next, NewerStep, Clock, Idle, Hit, WriteBack, CleanMiss, Fill, cacheRegs,
                mem_resp, pmem_write, pmem_read
  <2>2. TypeOK /\ CacheTypeOK /\ lru_idx \in Way /\ index \in Index
    BY RequestType DEF IndInv, TypeOK
  <2>3. \A s \in Index : \A i \in Way :
          /\ valid_array[i][s] => valid_array'[i][s]
          /\ valid_array'[i][s] => \/ valid_array[i][s]
                                   \/ /\ i = lru_idx /\ s = index
                                      /\ Fill(pmem_resp, pmem_rdata) /\ phase = "done"
    <3>1. CASE UNCHANGED valid_array
      BY <3>1
    <3>2. CASE Fill(pmem_resp, pmem_rdata)
      <4>1. valid_array' = [valid_array EXCEPT ![lru_idx][index] = @ \/ phase = "done"]
        BY <3>2 DEF Fill, pmem_resp
      <4> QED BY <2>2, <3>2, <4>1 DEF CacheTypeOK
    <3> QED
      BY <1>2, <3>1, <3>2 DEF Next, Clock, Idle, WriteBack, CleanMiss, cacheRegs
  <2>4. \A s \in Index : \A i, j \in Way :
          (i # j /\ lru_array[i][s] = lru_array[j][s]) => ~valid_array[i][s]
    BY <2>1 DEF LruInv, TwinsUnused, Fresh, mem_resp
  <2>5. AgesFollowUse'
    BY <2>1 DEF LruInv, AgesFollowUse, AgesIn, Ages, Younger
  <2>6. UsedIsValid'
    BY <2>1, <2>3 DEF LruInv, UsedIsValid
  <2>7. ASSUME Fill(pmem_resp, pmem_rdata), phase = "done"
        PROVE  /\ state' = "check_hit" /\ request' /\ hit' /\ index' = index
               /\ lru_idx' = lru_idx
    <3>1. Next /\ request /\ state' = "check_hit"
      BY <1>2, <2>7 DEF Fill, pmem_resp, pmem_read, IndInv, FillIsMiss
    <3>2. UNCHANGED req
      BY <2>1, <3>1, RequestStays DEF Next
    <3>3. index' = index /\ address_tag' = address_tag /\ request'
      BY <3>1, <3>2 DEF index, address_tag, request
    <3>4. valid_array'[lru_idx][index] /\ tag_array'[lru_idx][index] = address_tag
      BY <2>2, <2>7 DEF Fill, pmem_resp, CacheTypeOK
    <3>5. HitWays' # {}
      BY <2>2, <3>3, <3>4 DEF HitWays
    <3>6. hit' /\ lru_idx' \in Way
      BY <3>5, SelectionNext
    <3>7. UniqueTag'
      BY <3>1, NextIndInv DEF IndInv
    <3>8. valid_array'[lru_idx'][index] /\ tag_array'[lru_idx'][index] = address_tag
      BY <3>3, <3>6 DEF hit
    <3>9. lru_idx' = lru_idx
      BY <2>2, <3>4, <3>6, <3>7, <3>8 DEF UniqueTag
    <3> QED BY <3>1, <3>3, <3>6, <3>9
  <2>8. TwinsUnused'
    <3> SUFFICES ASSUME NEW s \in Index, NEW i \in Way, NEW j \in Way,
                        i # j, lru_array[i][s] = lru_array[j][s], valid_array'[i][s]
                 PROVE  Fresh(i, s)'
      BY <2>1 DEF TwinsUnused
    <3>1. i = lru_idx /\ s = index /\ Fill(pmem_resp, pmem_rdata) /\ phase = "done"
      BY <2>3, <2>4
    <3> QED BY <2>7, <3>1 DEF Fresh
  <2> QED BY <2>5, <2>6, <2>8 DEF LruInv
<1>3. CASE UNCHANGED vars
  <2>1. UNCHANGED <<req, tag_array, valid_array, lru_array, newer, state>>
    BY <1>3 DEF vars, cacheRegs
  <2>2. lru_idx' = lru_idx /\ hit' = hit /\ index' = index /\ request' = request
    BY <2>1, SelectionStable
  <2>3. AgesFollowUse' /\ UsedIsValid'
    BY <2>1 DEF LruInv, AgesFollowUse, UsedIsValid, AgesIn, Ages, Younger
  <2>4. TwinsUnused'
    BY <2>1, <2>2 DEF LruInv, TwinsUnused, Fresh
  <2> QED BY <2>3, <2>4 DEF LruInv
<1> QED BY <1>1, <1>2, <1>3

(* Where every way of a set is valid and no hit is under way, the ages are *)
(* all different, so one way has the oldest: it is the one selected, and   *)
(* every other way was used after it.                                      *)
LEMMA LruInvVictim ==
  ASSUME IndInv, LruInv
  PROVE  VictimIsLeastRecent
<1> SUFFICES ASSUME request, ~hit, InvalidWays = {}, NEW k \in Way \ {lru_idx}
             PROVE  <<k, lru_idx>> \in newer[index]
  BY DEF VictimIsLeastRecent
<1>1. TypeOK /\ CacheTypeOK /\ lru_idx \in Way /\ index \in Index
  BY RequestType DEF IndInv, TypeOK
<1> DEFINE f == AgesIn(index)
<1>2. f \in [Way -> Way] /\ \A i \in Way : f[i] = lru_array[i][index]
  BY <1>1 DEF AgesIn, CacheTypeOK
<1>3. \A i, j \in Way : i # j => f[i] # f[j]
  BY <1>1, <1>2 DEF LruInv, TwinsUnused, Fresh, InvalidWays
<1>4. /\ OldestWays = {i \in Way : f[i] + 1 = Ways}
      /\ \A i, j \in Way : <<i, j>> \in newer[index] <=> f[i] < f[j]
  BY <1>1, <1>2 DEF OldestWays, LruInv, AgesFollowUse
<1> HIDE DEF f
<1>5. OldestWays # {}
  <2> SUFFICES ASSUME OldestWays = {}
               PROVE  FALSE
    OBVIOUS
  <2> DEFINE T == Way \ {Ways - 1}
  <2>1. Ways \in Nat \ {0} /\ Ways - 1 \in Way
    BY WaysAssumption DEF Way
  <2>2. f \in [Way -> T]
    <3>1. \A i \in Way : f[i] \in T
      BY <1>2, <1>4, <2>1
    <3> QED BY <1>2, <3>1
  <2>3. IsFiniteSet(Way) /\ Cardinality(Way) = Ways
    BY WaysFinite
  <2>4. IsFiniteSet(T) /\ Cardinality(T) = Ways - 1
    BY <2>1, <2>3, FS_RemoveElement
  <2> HIDE DEF T
  <2>5. Cardinality(T) < Cardinality(Way)
    BY <2>1, <2>3, <2>4
  <2>6. \E i, j \in Way : i # j /\ f[i] = f[j]
    BY <2>2, <2>3, <2>4, <2>5, FS_PigeonHole
  <2> QED BY <1>3, <2>6
<1>6. lru_idx \in OldestWays
  <2>1. HitWays = {} /\ OldestWays \in SUBSET Nat
    BY Selection, WaySubset DEF OldestWays
  <2>2. lru_idx = First(OldestWays)
    BY <1>5, <2>1 DEF lru_idx
  <2> QED BY <1>5, <2>1, <2>2, FirstIn
<1>7. f[k] < f[lru_idx]
  <2>1. f[lru_idx] + 1 = Ways /\ f[k] # f[lru_idx]
    BY <1>1, <1>3, <1>4, <1>6
  <2>2. f[k] \in Nat /\ f[k] <= Ways - 1 /\ f[lru_idx] \in Nat /\ Ways \in Nat
    BY <1>1, <1>2, AgeType
  <2> QED BY <2>1, <2>2
<1> QED BY <1>1, <1>4, <1>7

(* A replaced line is the least recently used one of its set, for every    *)
(* number of ways: the increments modulo Ways never wrap, the counters     *)
(* never leave the set without an oldest way, and none but the oldest is   *)
(* selected.                                                               *)
THEOREM VictimIsOldest == Spec => []VictimIsLeastRecent
<1>1. Init => LruInv
  BY InitLruInv
<1>2. IndInv /\ LruInv /\ [Next]_vars => LruInv'
  BY NextLruInv
<1>3. IndInv /\ LruInv => VictimIsLeastRecent
  BY LruInvVictim
<1> QED
  BY <1>1, <1>2, <1>3, Invariance, PTL DEF Spec

=============================================================================
