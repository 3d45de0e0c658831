----------------------------- MODULE MemSystem -----------------------------
(***************************************************************************)
(* mp4.sv without the CPU: the two L1 caches, the arbiter, the adaptor and *)
(* the burst memory, wired as in mp4.sv and clocked together, under the    *)
(* stall rule of hazard_control.  The shadow memory of the testbench       *)
(* watches both CPU ports.                                                 *)
(*                                                                         *)
(* The CPU is free to ask for anything at every cycle in which the         *)
(* pipeline advances, and keeps both requests otherwise.                   *)
(***************************************************************************)
EXTENDS Naturals

CONSTANTS
  Ways, Index, Tag, Word, Lane, Byte,
  WordsPerBeat,               \* words of one burst beat (2 in the source)
  MaxCount,                   \* number of the last beat (3 in the source)
  DELAY_MEM, DELAY_PAGE_HIT,
  InstTag,                    \* tags of the lines the program fetches
  StoreTag,                   \* tags of the lines it stores to
  Images                      \* initial memory images

(* Programs do not store to their own code: shadow_memory keeps a separate *)
(* instruction image that stores never reach.                              *)
ASSUME NoSelfModification == InstTag \subseteq Tag /\ InstTag \cap StoreTag = {}
ASSUME LineIsBurst == Word = 0 .. (WordsPerBeat * (MaxCount + 1) - 1)
ASSUME MemoryIsNotInstant == DELAY_MEM \in Nat \ {0} /\ DELAY_PAGE_HIT \in Nat \ {0}

(* A burst has more than one beat: the adaptor goes on to a second one     *)
(* whatever the count.                                                     *)
ASSUME SizesAssumption ==
  /\ Ways \in Nat \ {0} /\ WordsPerBeat \in Nat \ {0} /\ MaxCount \in Nat \ {0}
  /\ 0 \in Byte

VARIABLES
  i_state, i_DM_cache, i_tag_array, i_valid_array, i_dirty_array, i_lru_array,
  d_state, d_DM_cache, d_tag_array, d_valid_array, d_dirty_array, d_lru_array,
  a_state,
  macro, count, linebuf, addressbuf,
  mem, pageno, task, addr, left, beat, rdata, resp, error,
  i_addr,        \* CPU instruction port: i_read is always high
  req,           \* CPU data port: [op, addr, be, wdata]
  _imem, _mem,   \* shadow_memory's two images
  newer,         \* history: order of last use of the data cache's ways
  i_newer,       \* history: the same for the instruction cache
  transfers      \* history: line transfers since the pipeline last advanced

-----------------------------------------------------------------------------
(* Wiring.                                                                 *)

ZeroWord == [l \in Lane |-> 0]

I == INSTANCE ParamCache WITH
  state <- i_state, DM_cache <- i_DM_cache, tag_array <- i_tag_array,
  valid_array <- i_valid_array, dirty_array <- i_dirty_array, lru_array <- i_lru_array,
  mem_read <- TRUE, mem_write <- FALSE, mem_address <- i_addr,
  mem_byte_enable <- req.be, mem_wdata <- ZeroWord

D == INSTANCE ParamCache WITH
  state <- d_state, DM_cache <- d_DM_cache, tag_array <- d_tag_array,
  valid_array <- d_valid_array, dirty_array <- d_dirty_array, lru_array <- d_lru_array,
  mem_read <- req.op = "load", mem_write <- req.op = "store",
  mem_address <- req.addr, mem_byte_enable <- req.be, mem_wdata <- req.wdata

LineAddr  == Tag \X Index
LineOf(a) == <<a.tag, a.index>>
PageOf(a) == <<a.tag>>

(* A line as the cells of a cache and as the beats of a burst.             *)
Beats  == 0 .. MaxCount
Offset == (0 .. (WordsPerBeat - 1)) \X Lane
Burst  == [Offset -> Byte]

ToBeats(line) == [b \in Beats |-> [o \in Offset |-> line[<<WordsPerBeat * b + o[1], o[2]>>]]]
ToLine(beats) == [c \in D!Cell |-> beats[c[1] \div WordsPerBeat][<<c[1] % WordsPerBeat, c[2]>>]]

L == INSTANCE CachelineAdaptor WITH Addr <- D!Address

M == INSTANCE ParamMemory WITH
  BURST_LEN <- MaxCount + 1, Page <- PageOf, Loc <- LineOf, NoPage <- <<>>

A == INSTANCE Arbiter WITH
  state <- a_state, NoAddr <- CHOOSE a \in D!Address : TRUE, NoLine <- D!ZeroLine,
  data_read <- D!pmem_read, data_write <- D!pmem_write,
  data_addr <- D!pmem_address, data_wdata <- D!pmem_wdata,
  i_read <- I!pmem_read, i_addr <- I!pmem_address,
  cache_resp <- L!resp_o, cache_data <- ToLine(L!line_o)

ASSUME ImagesAssumption == Images \subseteq [LineAddr -> D!Line]

iVars == <<i_state, i_DM_cache, i_tag_array, i_valid_array, i_dirty_array, i_lru_array>>
dVars == <<d_state, d_DM_cache, d_tag_array, d_valid_array, d_dirty_array, d_lru_array>>
vars == <<iVars, dVars, a_state, L!adaptorRegs, M!memRegs, i_addr, req, _imem, _mem, newer, i_newer, transfers>>

-----------------------------------------------------------------------------
(* hazard_control and the CPU ports.                                       *)

data_resp     == D!mem_resp
i_resp        == I!mem_resp
stall_pc      == i_resp
stall_datamem == req.op = "none" \/ data_resp
all_stall     == stall_pc /\ stall_datamem     \* high when the pipeline advances

Fetch == [tag : InstTag, index : Index, word : Word]

DataRequest ==
  [op : {"none", "load"}, addr : D!Address, be : {{}}, wdata : {ZeroWord}]
    \cup [op : {"store"}, addr : {a \in D!Address : a.tag \in StoreTag},
          be : SUBSET Lane \ {{}}, wdata : D!WordVal]

Stall ==
  /\ ~all_stall
  /\ UNCHANGED <<i_addr, req>>

Advance ==
  /\ all_stall
  /\ i_addr' \in Fetch
  /\ req' \in DataRequest

-----------------------------------------------------------------------------
(* History: the shadow memory, use order, transfer count.                  *)

Stored(line) ==
  [c \in D!Cell |-> IF c[1] = req.addr.word /\ c[2] \in req.be
                    THEN req.wdata[c[2]] ELSE line[c]]

ShadowStep ==
  /\ _mem' = IF data_resp /\ req.op = "store"
             THEN [_mem EXCEPT ![LineOf(req.addr)] = Stored(@)] ELSE _mem
  /\ UNCHANGED _imem

UseOf(i, R) == {p \in R : p[2] # i} \cup ({i} \X (D!Way \ {i}))

NewerStep ==
  /\ newer' = IF data_resp THEN [newer EXCEPT ![req.addr.index] = UseOf(D!lru_idx, @)] ELSE newer
  /\ i_newer' = IF i_resp THEN [i_newer EXCEPT ![i_addr.index] = UseOf(I!lru_idx, @)] ELSE i_newer

CountStep ==
  transfers' = IF all_stall THEN 0 ELSE IF L!resp_o THEN transfers + 1 ELSE transfers

-----------------------------------------------------------------------------

Init ==
  \E image \in Images, a \in Fetch :
    /\ I!CacheInit /\ D!CacheInit /\ A!ArbiterInit
    /\ L!AdaptorInit(ToBeats(D!ZeroLine), a)
    /\ M!MemInit([l \in LineAddr |-> ToBeats(image[l])], a, [o \in Offset |-> 0])
    /\ i_addr = a
    /\ req = [op |-> "none", addr |-> a, be |-> {}, wdata |-> ZeroWord]
    /\ _imem = image /\ _mem = image
    /\ newer = [s \in Index |-> {}] /\ i_newer = [s \in Index |-> {}]
    /\ transfers = 0

(* One edge of the clock that every part shares.                           *)
Tick ==
  /\ I!Clock(A!i_resp, A!i_data)
  /\ D!Clock(A!data_resp, A!data_out)
  /\ A!Clock
  /\ L!Clock(A!cache_read, A!cache_write, A!cache_addr, ToBeats(A!cache_wdata), resp, rdata)
  /\ M!Clock(L!read_o, L!write_o, L!address_o, L!burst_o)
  /\ Stall \/ Advance
  /\ ShadowStep
  /\ NewerStep
  /\ CountStep

Spec == Init /\ [][Tick]_vars /\ WF_vars(Tick)

-----------------------------------------------------------------------------
(* Properties.                                                             *)

(* Every register of caches, arbiter, adaptor and memory is well typed;    *)
(* the beat counter wraps with the burst.                                  *)
TypeOK ==
  /\ I!CacheTypeOK /\ D!CacheTypeOK /\ A!ArbiterTypeOK /\ L!AdaptorTypeOK
  /\ mem \in [LineAddr -> [Beats -> Burst]]
  /\ task \in {"none", "memread", "memwrite"}
  /\ addr \in D!Address
  /\ beat \in Beats /\ rdata \in Burst /\ resp \in BOOLEAN
  /\ i_addr \in Fetch /\ req \in DataRequest
  /\ _mem \in [LineAddr -> D!Line] /\ _imem \in [LineAddr -> D!Line]

(* An instruction the I-cache delivers is the one of the program image,    *)
(* whatever the data cache does to memory meanwhile: the check of          *)
(* shadow_memory's instruction thread.                                     *)
InstReadsMatch ==
  i_resp => I!mem_rdata_cpu = I!WordOf(_imem[LineOf(i_addr)], i_addr.word)

(* A load the D-cache answers returns what the stores before it left: the  *)
(* check of shadow_memory's data thread.                                   *)
DataReadsMatch ==
  (data_resp /\ req.op = "load") =>
    D!mem_rdata_cpu = D!WordOf(_mem[LineOf(req.addr)], req.addr.word)

(* Both ports together, with every register of caches, arbiter, adaptor    *)
(* and memory in its type: TypeOK, InstReadsMatch and DataReadsMatch,      *)
(* through every order in which the two caches miss, write back and refill *)
(* over the one path to memory.                                            *)
ReadsMatch == TypeOK /\ InstReadsMatch /\ DataReadsMatch

(* None of param_memory's assertions fails: the adaptor keeps its request  *)
(* and address steady for a whole burst and never asks to read and write.  *)
PmemProtocol == ~error

(* When the adaptor answers, the answer belongs to the request the         *)
(* arbiter's client is making in that cycle: same line, same direction.    *)
AnswerBelongsToClient ==
  /\ A!i_resp => /\ LineOf(addressbuf) = LineOf(i_addr)
                 /\ ToLine(linebuf) = _imem[LineOf(i_addr)]
  /\ A!data_resp =>
       IF D!pmem_read THEN LineOf(addressbuf) = LineOf(req.addr)
       ELSE /\ D!pmem_write
            /\ addressbuf = D!pmem_address
            /\ ToLine(linebuf) = D!pmem_wdata
            /\ mem[LineOf(addressbuf)] = linebuf

(* One pipeline step costs at most three transfers, a data write-back, a   *)
(* data fill and an instruction fill: neither cache can make the other     *)
(* lose its line or its turn while the pipeline waits for both.            *)
AtMostThreeTransfers == transfers <= 3

(* The data cache has priority in the arbiter and yet the pipeline always  *)
(* advances again.                                                         *)
PipelineAdvances == []<>all_stall

(* Each cache's view of arbiter, adaptor and memory. The instruction cache *)
(* loads only, and only the lines of the program, which nothing writes.    *)
Phase(client) ==
  IF a_state # client THEN "decode"
  ELSE CASE macro = "IDLE" -> "grant"
         [] macro = "DONE" -> "done"
         [] OTHER -> "busy"

Latched(client) == Phase(client) \in {"busy", "done"}

LineBuf(client) == IF Phase(client) = "decode" THEN D!ZeroLine ELSE ToLine(linebuf)
LineAddrBuf(client) == IF Latched(client) THEN LineOf(addressbuf) ELSE <<>>

DView == INSTANCE L1Cache WITH
  state <- d_state, DM_cache <- d_DM_cache, tag_array <- d_tag_array,
  valid_array <- d_valid_array, dirty_array <- d_dirty_array, lru_array <- d_lru_array,
  phase <- Phase("d_cache"), addressbuf <- LineAddrBuf("d_cache"), linebuf <- LineBuf("d_cache"),
  writing <- Latched("d_cache") /\ D!pmem_write,
  memory  <- [l \in LineAddr |-> ToLine(mem[l])],
  shadow  <- _mem

IView == INSTANCE L1Cache WITH
  state <- i_state, DM_cache <- i_DM_cache, tag_array <- i_tag_array,
  valid_array <- i_valid_array, dirty_array <- i_dirty_array, lru_array <- i_lru_array,
  req <- [op |-> "load", addr |-> i_addr, be |-> {}, wdata |-> ZeroWord],
  phase <- Phase("i_cache"), addressbuf <- LineAddrBuf("i_cache"), linebuf <- LineBuf("i_cache"),
  writing <- FALSE,
  memory  <- [l \in LineAddr |-> IF l[1] \in InstTag THEN ToLine(mem[l]) ELSE _imem[l]],
  shadow  <- _imem, newer <- i_newer

(* What L1Cache assumes of the path to memory is what arbiter, adaptor and *)
(* memory do: every step of the whole is a step of L1Cache for the data    *)
(* cache and, at once, one for the instruction cache.                      *)
ImplementsL1Cache == DView!Spec /\ IView!Spec

=============================================================================
