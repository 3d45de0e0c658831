-------------------------- MODULE MemSystemProofs --------------------------
(* Proofs about MemSystem: arbiter, adaptor and burst memory give each of  *)
(* the two caches the path to memory that L1Cache assumes, so that what    *)
(* L1CacheProofs proves of one cache holds of both, at once and for every  *)
(* size of cache, line and burst.                                          *)
EXTENDS MemSystem, TLAPS

DP == INSTANCE L1CacheProofs WITH
  state <- d_state, DM_cache <- d_DM_cache, tag_array <- d_tag_array,
  valid_array <- d_valid_array, dirty_array <- d_dirty_array, lru_array <- d_lru_array,
  phase <- Phase("d_cache"), addressbuf <- LineAddrBuf("d_cache"), linebuf <- LineBuf("d_cache"),
  writing <- Latched("d_cache") /\ D!pmem_write,
  memory  <- [l \in LineAddr |-> ToLine(mem[l])],
  shadow  <- _mem

IP == INSTANCE L1CacheProofs WITH
  state <- i_state, DM_cache <- i_DM_cache, tag_array <- i_tag_array,
  valid_array <- i_valid_array, dirty_array <- i_dirty_array, lru_array <- i_lru_array,
  req <- [op |-> "load", addr |-> i_addr, be |-> {}, wdata |-> ZeroWord],
  phase <- Phase("i_cache"), addressbuf <- LineAddrBuf("i_cache"), linebuf <- LineBuf("i_cache"),
  writing <- FALSE,
  memory  <- [l \in LineAddr |-> IF l[1] \in InstTag THEN ToLine(mem[l]) ELSE _imem[l]],
  shadow  <- _imem, newer <- i_newer

-----------------------------------------------------------------------------
(* Lines and beats.                                                        *)

(* The beat a word travels in, and its place in it.                        *)
LEMMA WordInBeat ==
  ASSUME NEW w \in Word
  PROVE  /\ w \in Nat /\ w \div WordsPerBeat \in Beats /\ w % WordsPerBeat \in 0 .. (WordsPerBeat - 1)
         /\ WordsPerBeat * (w \div WordsPerBeat) + (w % WordsPerBeat) = w
<1> DEFINE k == WordsPerBeat  q == w \div k  r == w % k
<1>1. k \in Nat \ {0} /\ MaxCount \in Nat /\ w \in Nat /\ w <= k * (MaxCount + 1) - 1
  BY SizesAssumption, LineIsBurst
<1>2. q \in Nat /\ r \in 0 .. (k - 1) /\ k * q + r = w
  BY <1>1
<1>3. q <= MaxCount
  <2> SUFFICES ASSUME q >= MaxCount + 1
               PROVE  FALSE
    BY <1>1, <1>2
  <2> HIDE DEF q, r, k
  <2>1. PICK d \in Nat : q = (MaxCount + 1) + d
    BY <1>1, <1>2, q - (MaxCount + 1) \in Nat
  <2>2. k * q = k * (MaxCount + 1) + k * d
    BY <1>1, <2>1
  <2>3. k * d \in Nat /\ k * (MaxCount + 1) \in Nat
    BY <1>1
  <2>4. k * q >= k * (MaxCount + 1)
    BY <2>2, <2>3
  <2> QED BY <1>1, <1>2, <2>3, <2>4
<1> QED BY <1>1, <1>2, <1>3 DEF Beats

(* A word of a beat is a word of the line.                                 *)
LEMMA BeatInLine ==
  ASSUME NEW b \in Beats, NEW o \in Offset
  PROVE  <<WordsPerBeat * b + o[1], o[2]>> \in D!Cell
<1>1. WordsPerBeat \in Nat /\ MaxCount \in Nat /\ b \in Nat /\ b + 1 <= MaxCount + 1
  BY SizesAssumption DEF Beats
<1>2. o[1] \in Nat /\ o[1] + 1 <= WordsPerBeat /\ o[2] \in Lane
  BY <1>1 DEF Offset
<1>3. WordsPerBeat * b + WordsPerBeat <= WordsPerBeat * (MaxCount + 1)
  <2>1. PICK d \in Nat : MaxCount = b + d
    BY <1>1, MaxCount - b \in Nat
  <2>2. WordsPerBeat * (MaxCount + 1) = WordsPerBeat * b + WordsPerBeat + WordsPerBeat * d
    BY <1>1, <2>1
  <2>3. WordsPerBeat * d \in Nat
    BY <1>1
  <2> QED BY <1>1, <2>2, <2>3
<1>4. WordsPerBeat * b + o[1] \in Word
  <2>1. WordsPerBeat * b \in Nat /\ WordsPerBeat * (MaxCount + 1) \in Nat
    BY <1>1
  <2> QED BY <1>1, <1>2, <1>3, <2>1, LineIsBurst
<1> QED BY <1>2, <1>4 DEF D!Cell

(* Beats make a line and a line makes beats, whatever their sizes.         *)
LEMMA LineTypes ==
  /\ \A x \in [Beats -> Burst] : ToLine(x) \in D!Line
  /\ \A line \in D!Line : ToBeats(line) \in [Beats -> Burst]
<1>1. ASSUME NEW x \in [Beats -> Burst], NEW c \in D!Cell
      PROVE  x[c[1] \div WordsPerBeat][<<c[1] % WordsPerBeat, c[2]>>] \in Byte
  <2>1. c[1] \in Word /\ c[2] \in Lane
    BY DEF D!Cell
  <2>2. c[1] \div WordsPerBeat \in Beats /\ <<c[1] % WordsPerBeat, c[2]>> \in Offset
    BY <2>1, WordInBeat DEF Offset
  <2> QED BY <2>2 DEF Burst
<1>2. ASSUME NEW line \in D!Line, NEW b \in Beats, NEW o \in Offset
      PROVE  line[<<WordsPerBeat * b + o[1], o[2]>>] \in Byte
  BY BeatInLine DEF D!Line
<1>3. ASSUME NEW x \in [Beats -> Burst]
      PROVE  ToLine(x) \in D!Line
  BY <1>1 DEF ToLine, D!Line
<1>4. ASSUME NEW line \in D!Line
      PROVE  ToBeats(line) \in [Beats -> Burst]
  BY <1>2 DEF ToBeats, Burst
<1> QED BY <1>3, <1>4

(* Cutting a line into beats loses nothing.                                *)
LEMMA RoundTrip ==
  ASSUME NEW line \in D!Line
  PROVE  ToLine(ToBeats(line)) = line
<1>1. ASSUME NEW c \in D!Cell
      PROVE  ToBeats(line)[c[1] \div WordsPerBeat][<<c[1] % WordsPerBeat, c[2]>>] = line[c]
  <2>1. c[1] \in Word /\ c[2] \in Lane /\ c = <<c[1], c[2]>>
    BY DEF D!Cell
  <2>2. PICK b \in Beats : b = c[1] \div WordsPerBeat
    BY <2>1, WordInBeat
  <2>3. PICK o \in Offset : o = <<c[1] % WordsPerBeat, c[2]>>
    BY <2>1, WordInBeat DEF Offset
  <2>4. ToBeats(line)[b][o] = line[<<WordsPerBeat * b + o[1], o[2]>>]
    BY DEF ToBeats
  <2>5. o[1] = c[1] % WordsPerBeat /\ o[2] = c[2]
    BY <2>3
  <2>6. WordsPerBeat * b + o[1] = c[1]
    BY <2>1, <2>2, <2>5, WordInBeat
  <2> QED BY <2>1, <2>2, <2>3, <2>4, <2>5, <2>6
<1>2. ToLine(ToBeats(line)) = [c \in D!Cell |-> line[c]]
  BY <1>1 DEF ToLine
<1> QED BY <1>2 DEF D!Line

(* The cells of one beat; a line in which one beat is replaced.            *)
CellsOf(b) == {c \in D!Cell : c[1] \div WordsPerBeat = b}

(* Replacing one beat of a buffer replaces exactly the cells of that beat  *)
(* in the line.                                                            *)
LEMMA OneBeatMoved ==
  ASSUME NEW from \in [Beats -> Burst], NEW to \in [Beats -> Burst], NEW b \in Beats
  PROVE  ToLine([to EXCEPT ![b] = from[b]])
           = [c \in D!Cell |-> IF c \in CellsOf(b) THEN ToLine(from)[c] ELSE ToLine(to)[c]]
<1> DEFINE x == [to EXCEPT ![b] = from[b]]
<1>1. ASSUME NEW c \in D!Cell
      PROVE  x[c[1] \div WordsPerBeat][<<c[1] % WordsPerBeat, c[2]>>]
               = IF c \in CellsOf(b) THEN ToLine(from)[c] ELSE ToLine(to)[c]
  <2>1. PICK a \in Beats : a = c[1] \div WordsPerBeat
    BY WordInBeat DEF D!Cell
  <2>2. x[a] = IF a = b THEN from[a] ELSE to[a]
    OBVIOUS
  <2>3. c \in CellsOf(b) <=> a = b
    BY <2>1 DEF CellsOf
  <2>4. /\ ToLine(from)[c] = from[a][<<c[1] % WordsPerBeat, c[2]>>]
        /\ ToLine(to)[c] = to[a][<<c[1] % WordsPerBeat, c[2]>>]
    BY <2>1 DEF ToLine
  <2> HIDE DEF x
  <2> QED BY <2>1, <2>2, <2>3, <2>4
<1> HIDE DEF x
<1>2. ToLine(x) = [c \in D!Cell |-> IF c \in CellsOf(b) THEN ToLine(from)[c] ELSE ToLine(to)[c]]
  BY <1>1, Zenon DEF ToLine
<1> QED BY <1>2 DEF x

-----------------------------------------------------------------------------
(* Adaptor and burst memory.                                               *)

(* One edge of both, for what the arbiter gives the adaptor.               *)
PathEdge(read_i, write_i, address_i, line_i) ==
  /\ L!Clock(read_i, write_i, address_i, line_i, resp, rdata)
  /\ M!Clock(L!read_o, L!write_o, L!address_o, L!burst_o)

PathTypeOK ==
  /\ L!AdaptorTypeOK
  /\ mem \in [LineAddr -> [Beats -> Burst]]
  /\ task \in {"none", "memread", "memwrite"} /\ addr \in D!Address
  /\ left \in Nat /\ beat \in Beats /\ rdata \in Burst /\ resp \in BOOLEAN

(* The memory has not seen the request, counts its delay, or drives beat 0.*)
Waiting(t) ==
  \/ task = "none" /\ ~resp
  \/ task = t /\ addr = addressbuf /\ left > 0 /\ ~resp
  \/ task = t /\ addr = addressbuf /\ left = 0 /\ resp /\ beat = 0

(* Adaptor and memory are at the same beat.                                *)
Bursting(t) ==
  task = t /\ addr = addressbuf /\ left = 0 /\ resp /\ beat = count /\ count > 0

Handshake ==
  /\ ~error
  /\ macro \in {"IDLE", "DONE"} => task = "none" /\ ~resp
  /\ macro = "WAITR" => Waiting("memread")
  /\ macro = "WAITW" => Waiting("memwrite") /\ count = 0
  /\ macro = "R" => Bursting("memread")
  /\ macro = "W" => Bursting("memwrite")

(* The beats that have passed are the same in the buffer and in memory.    *)
Passed == \A b \in Beats : b < count => linebuf[b] = mem[LineOf(addressbuf)][b]

Buffered ==
  /\ macro = "WAITR" /\ resp => rdata = mem[LineOf(addressbuf)][0]
  /\ macro = "R" => rdata = mem[LineOf(addressbuf)][count] /\ Passed
  /\ macro = "W" => Passed
  /\ macro = "DONE" => linebuf = mem[LineOf(addressbuf)]

PathOK == PathTypeOK /\ Handshake /\ Buffered

(* The types of the registers, with what follows about the line that the   *)
(* buffered address names and about the number of beats.                   *)
LEMMA PathFacts ==
  ASSUME PathTypeOK
  PROVE  /\ macro \in {"IDLE", "WAITR", "WAITW", "R", "W", "DONE"} /\ count \in Beats
         /\ linebuf \in [Beats -> Burst] /\ addressbuf \in D!Address
         /\ LineOf(addressbuf) \in LineAddr /\ mem[LineOf(addressbuf)] \in [Beats -> Burst]
         /\ MaxCount \in Nat \ {0} /\ Beats = 0 .. MaxCount /\ Beats \subseteq Nat /\ 0 \in Beats
         /\ 1 \in Beats
<1>1. /\ macro \in {"IDLE", "WAITR", "WAITW", "R", "W", "DONE"} /\ count \in Beats
      /\ linebuf \in [Beats -> Burst] /\ addressbuf \in D!Address
  BY DEF PathTypeOK, L!AdaptorTypeOK, L!Beat, Beats
<1>2. LineOf(addressbuf) \in LineAddr
  BY <1>1 DEF LineOf, LineAddr, D!Address
<1>3. /\ MaxCount \in Nat \ {0} /\ Beats = 0 .. MaxCount /\ Beats \subseteq Nat /\ 0 \in Beats
      /\ 1 \in Beats
  BY SizesAssumption DEF Beats
<1> QED BY <1>1, <1>2, <1>3 DEF PathTypeOK

(* Nothing is asked of the memory; the adaptor takes a request or not.     *)
LEMMA PathIdle ==
  ASSUME PathOK, macro = "IDLE", NEW r \in BOOLEAN, NEW w \in BOOLEAN, NEW a \in D!Address,
         NEW line \in [Beats -> Burst], PathEdge(r, w, a, line)
  PROVE  /\ PathOK' /\ mem' = mem
         /\ r => macro' = "WAITR" /\ addressbuf' = a /\ linebuf' = linebuf
         /\ ~r /\ w => macro' = "WAITW" /\ addressbuf' = a /\ linebuf' = line
         /\ ~r /\ ~w => macro' = "IDLE" /\ addressbuf' = addressbuf /\ linebuf' = linebuf
<1>1. task = "none" /\ ~resp /\ ~error
  BY DEF PathOK, Handshake
<1>2. UNCHANGED <<mem, task, addr, left, beat, rdata, resp, error>>
  BY <1>1 DEF PathEdge, M!Clock, M!Quiet, M!Both, M!Start, M!ErrorCheck, M!Delay, M!BurstBeat,
     M!memRegs, L!read_o, L!write_o
<1>3. CASE r
  <2>1. macro' = "WAITR" /\ addressbuf' = a /\ linebuf' = linebuf /\ count' = count
    BY <1>3 DEF PathEdge, L!Clock, L!AcceptRead, L!AcceptWrite, L!NoOp, L!FirstBeatIn, L!FirstBeatOut,
       L!BeatIn, L!BeatOut, L!Respond
  <2>2. PathTypeOK'
    BY <1>2, <2>1 DEF PathOK, PathTypeOK, L!AdaptorTypeOK
  <2>3. Handshake' /\ Buffered'
    BY <1>1, <1>2, <2>1 DEF Handshake, Buffered, Waiting
  <2> QED BY <1>2, <1>3, <2>1, <2>2, <2>3 DEF PathOK
<1>4. CASE ~r /\ w
  <2>1. macro' = "WAITW" /\ addressbuf' = a /\ linebuf' = line /\ count' = 0
    BY <1>4 DEF PathEdge, L!Clock, L!AcceptRead, L!AcceptWrite, L!NoOp, L!FirstBeatIn, L!FirstBeatOut,
       L!BeatIn, L!BeatOut, L!Respond
  <2>2. 0 \in Beats
    BY PathFacts DEF PathOK
  <2>3. PathTypeOK'
    BY <1>2, <2>1, <2>2 DEF PathOK, PathTypeOK, L!AdaptorTypeOK, L!Beat, Beats
  <2>4. Handshake' /\ Buffered'
    BY <1>1, <1>2, <2>1 DEF Handshake, Buffered, Waiting
  <2> QED BY <1>2, <1>4, <2>1, <2>3, <2>4 DEF PathOK
<1>5. CASE ~r /\ ~w
  <2>1. UNCHANGED <<macro, addressbuf, linebuf, count>>
    BY <1>5 DEF PathEdge, L!Clock, L!AcceptRead, L!AcceptWrite, L!NoOp, L!FirstBeatIn, L!FirstBeatOut,
       L!BeatIn, L!BeatOut, L!Respond, L!adaptorRegs
  <2>2. PathTypeOK'
    BY <1>2, <2>1 DEF PathOK, PathTypeOK, L!AdaptorTypeOK
  <2>3. Handshake' /\ Buffered'
    BY <1>1, <1>2, <2>1 DEF Handshake, Buffered
  <2> QED BY <1>2, <1>5, <2>1, <2>2, <2>3 DEF PathOK
<1> QED BY <1>3, <1>4, <1>5

(* The cycle of the answer.                                                *)
LEMMA PathDone ==
  ASSUME PathOK, macro = "DONE", NEW r, NEW w, NEW a, NEW line, PathEdge(r, w, a, line)
  PROVE  /\ PathOK' /\ mem' = mem
         /\ macro' = "IDLE" /\ addressbuf' = addressbuf /\ linebuf' = linebuf
<1>1. task = "none" /\ ~resp /\ ~error
  BY DEF PathOK, Handshake
<1>2. UNCHANGED <<mem, task, addr, left, beat, rdata, resp, error>>
  BY <1>1 DEF PathEdge, M!Clock, M!Quiet, M!Both, M!Start, M!ErrorCheck, M!Delay, M!BurstBeat,
     M!memRegs, L!read_o, L!write_o
<1>3. macro' = "IDLE" /\ UNCHANGED <<addressbuf, linebuf, count>>
  BY DEF PathEdge, L!Clock, L!AcceptRead, L!AcceptWrite, L!NoOp, L!FirstBeatIn, L!FirstBeatOut,
     L!BeatIn, L!BeatOut, L!Respond, L!adaptorRegs
<1>4. PathTypeOK'
  BY <1>2, <1>3 DEF PathOK, PathTypeOK, L!AdaptorTypeOK
<1>5. Handshake' /\ Buffered'
  BY <1>1, <1>2, <1>3 DEF Handshake, Buffered
<1> QED BY <1>2, <1>3, <1>4, <1>5 DEF PathOK

(* A request waits for the memory's first beat.                            *)
LEMMA PathWaits ==
  ASSUME PathOK, macro \in {"WAITR", "WAITW"}, ~resp, NEW r, NEW w, NEW a, NEW line,
         PathEdge(r, w, a, line)
  PROVE  PathOK' /\ mem' = mem /\ macro' = macro /\ addressbuf' = addressbuf /\ linebuf' = linebuf
<1> DEFINE t == IF macro = "WAITR" THEN "memread" ELSE "memwrite"
<1>1. UNCHANGED <<macro, addressbuf, linebuf, count>>
  BY DEF PathEdge, L!Clock, L!AcceptRead, L!AcceptWrite, L!NoOp, L!FirstBeatIn, L!FirstBeatOut,
     L!BeatIn, L!BeatOut, L!Respond, L!adaptorRegs
<1>2. L!read_o = (macro = "WAITR") /\ L!write_o = (macro = "WAITW") /\ L!address_o = addressbuf
  BY DEF L!read_o, L!write_o, L!address_o
<1>3. /\ ~error /\ (macro = "WAITW" => count = 0)
      /\ task = "none" \/ (task = t /\ addr = addressbuf /\ left > 0)
  <2>1. ~error /\ (macro = "WAITW" => count = 0) /\ Waiting(t)
    BY DEF PathOK, Handshake
  <2> HIDE DEF t
  <2> QED BY <2>1, Zenon DEF Waiting
<1>4. CASE task = "none"
  <2>1. /\ task' = t /\ addr' = addressbuf /\ left' \in {DELAY_PAGE_HIT, DELAY_MEM}
        /\ UNCHANGED <<mem, beat, rdata, resp, error>>
    BY <1>2, <1>4 DEF PathEdge, M!Clock, M!Quiet, M!Both, M!Start, M!ErrorCheck, M!Delay, M!BurstBeat
  <2>2. left' \in Nat /\ left' > 0
    BY <2>1, MemoryIsNotInstant
  <2>3. PathTypeOK'
    BY <1>1, <2>1, <2>2 DEF PathOK, PathTypeOK, L!AdaptorTypeOK
  <2>4. Handshake' /\ Buffered'
    BY <1>1, <1>3, <2>1, <2>2 DEF Handshake, Buffered, Waiting
  <2> QED BY <1>1, <2>1, <2>3, <2>4 DEF PathOK
<1>5. CASE task = t /\ addr = addressbuf /\ left > 0
  <2>1. M!Steady(L!read_o, L!write_o, L!address_o)
    BY <1>2, <1>5 DEF M!Steady
  <2>2. M!Delay(L!read_o, L!write_o, L!address_o)
    BY <1>5, <2>1 DEF PathEdge, M!Clock, M!Quiet, M!Both, M!Start, M!ErrorCheck, M!BurstBeat
  <2>3. left' = left - 1 /\ UNCHANGED <<mem, task, addr, error>>
    BY <2>2 DEF M!Delay
  <2>4. left \in Nat /\ left' \in Nat
    BY <1>5, <2>3 DEF PathOK, PathTypeOK
  <2>5. CASE left # 1
    <3>1. UNCHANGED <<beat, rdata, resp>>
      BY <2>2, <2>5 DEF M!Delay
    <3>2. left' > 0
      BY <1>5, <2>3, <2>4, <2>5
    <3>3. PathTypeOK'
      BY <1>1, <2>3, <2>4, <3>1 DEF PathOK, PathTypeOK, L!AdaptorTypeOK
    <3>4. Handshake' /\ Buffered'
      BY <1>1, <1>3, <1>5, <2>3, <3>1, <3>2 DEF Handshake, Buffered, Waiting
    <3> QED BY <1>1, <2>3, <3>3, <3>4 DEF PathOK
  <2>6. CASE left = 1
    <3>1. /\ beat' = 0 /\ resp' = TRUE /\ left' = 0
          /\ rdata' = IF task = "memread" THEN mem[LineOf(addr)][0] ELSE rdata
      BY <2>2, <2>3, <2>6 DEF M!Delay, M!Drive
    <3>2. 0 \in Beats /\ mem[LineOf(addressbuf)] \in [Beats -> Burst]
      BY PathFacts DEF PathOK
    <3>3. PathTypeOK'
      BY <1>1, <1>5, <2>3, <2>4, <3>1, <3>2 DEF PathOK, PathTypeOK, L!AdaptorTypeOK
    <3>4. Handshake' /\ Buffered'
      BY <1>1, <1>3, <1>5, <2>3, <3>1 DEF Handshake, Buffered, Waiting
    <3> QED BY <1>1, <2>3, <3>3, <3>4 DEF PathOK
  <2> QED BY <2>5, <2>6
<1> QED BY <1>3, <1>4, <1>5

(* The counter goes on to the next beat, and wraps after the last.         *)
LEMMA CountWraps ==
  ASSUME PathTypeOK
  PROVE  L!NextCount \in Beats /\ (count # MaxCount => L!NextCount = count + 1)
<1>1. count \in Nat /\ MaxCount \in Nat /\ count <= MaxCount /\ Beats = 0 .. MaxCount
  BY PathFacts
<1>2. (count + 1) % (MaxCount + 1) \in 0 .. MaxCount
  <2>1. PICK n \in Nat, m \in Nat \ {0} : n = count + 1 /\ m = MaxCount + 1
    BY <1>1
  <2>2. n % m \in 0 .. (m - 1) /\ m - 1 = MaxCount
    BY <1>1, <2>1
  <2> QED BY <2>1, <2>2
<1>3. count # MaxCount => (count + 1) % (MaxCount + 1) = count + 1
  BY <1>1
<1> QED BY <1>1, <1>2, <1>3 DEF L!NextCount

(* The memory's edge in a burst, where both are at beat.                   *)
LEMMA BurstEdge ==
  ASSUME PathOK, NEW t \in {"memread", "memwrite"}, NEW r, NEW w, NEW a, NEW line,
         PathEdge(r, w, a, line), L!read_o = (t = "memread"), L!write_o = (t = "memwrite"),
         task = t, addr = addressbuf, left = 0
  PROVE  /\ mem' = IF t = "memwrite"
                   THEN [mem EXCEPT ![LineOf(addressbuf)][beat] = linebuf[count]] ELSE mem
         /\ beat # MaxCount => /\ beat' = beat + 1 /\ resp' = TRUE /\ task' = t
                               /\ rdata' = IF t = "memread" THEN mem[LineOf(addressbuf)][beat + 1]
                                           ELSE rdata
         /\ beat = MaxCount => resp' = FALSE /\ task' = "none" /\ UNCHANGED <<beat, rdata>>
         /\ UNCHANGED <<addr, left, error>>
<1>1. M!Steady(L!read_o, L!write_o, L!address_o)
  BY DEF M!Steady, L!address_o
<1>2. M!BurstBeat(L!read_o, L!write_o, L!address_o, L!burst_o)
  BY <1>1 DEF PathEdge, M!Clock, M!Quiet, M!Both, M!Start, M!ErrorCheck, M!Delay
<1>3. beat \in Nat /\ MaxCount \in Nat /\ beat <= MaxCount
  BY PathFacts DEF PathOK, PathTypeOK
<1>4. (beat + 1 < MaxCount + 1) <=> beat # MaxCount
  BY <1>3
<1>5. /\ mem' = IF t = "memwrite"
                THEN [mem EXCEPT ![LineOf(addressbuf)][beat] = linebuf[count]] ELSE mem
      /\ UNCHANGED <<addr, left, error>>
  BY <1>2 DEF M!BurstBeat, L!burst_o
<1>6. CASE beat # MaxCount
  BY <1>2, <1>4, <1>5, <1>6 DEF M!BurstBeat, M!Drive
<1>7. CASE beat = MaxCount
  BY <1>2, <1>4, <1>5, <1>7 DEF M!BurstBeat
<1> QED BY <1>6, <1>7

(* A beat of a read: the buffer takes what the memory drives.              *)
LEMMA PathReads ==
  ASSUME PathOK, macro = "R" \/ (macro = "WAITR" /\ resp), NEW r, NEW w, NEW a, NEW line,
         PathEdge(r, w, a, line)
  PROVE  /\ PathOK' /\ mem' = mem /\ macro' \in {"R", "DONE"} /\ addressbuf' = addressbuf
         /\ \E b \in Beats : linebuf' = [linebuf EXCEPT ![b] = mem[LineOf(addressbuf)][b]]
<1> DEFINE at == IF macro = "R" THEN count ELSE 0  l == LineOf(addressbuf)
<1>1. /\ count \in Beats /\ linebuf \in [Beats -> Burst] /\ mem[l] \in [Beats -> Burst]
      /\ MaxCount \in Nat \ {0} /\ Beats = 0 .. MaxCount /\ 0 \in Beats /\ 1 \in Beats
      /\ addressbuf \in D!Address
  BY PathFacts DEF PathOK
<1>2. /\ task = "memread" /\ addr = addressbuf /\ left = 0 /\ resp /\ ~error
      /\ beat = at /\ rdata = mem[l][at] /\ at \in Beats
      /\ \A b \in Beats : b < at => linebuf[b] = mem[l][b]
  <2>1. CASE macro = "R"
    BY <1>1, <2>1 DEF PathOK, Handshake, Bursting, Buffered, Passed
  <2>2. CASE macro = "WAITR" /\ resp
    <3>1. /\ task = "memread" /\ addr = addressbuf /\ left = 0 /\ ~error /\ beat = 0
          /\ rdata = mem[l][0]
      BY <2>2 DEF PathOK, Handshake, Waiting, Buffered
    <3>2. \A b \in Beats : ~(b < 0)
      BY <1>1
    <3> QED BY <1>1, <2>2, <3>1, <3>2
  <2> QED BY <2>1, <2>2
<1>3. /\ linebuf' = [linebuf EXCEPT ![at] = mem[l][at]] /\ addressbuf' = addressbuf
      /\ at # MaxCount => macro' = "R" /\ count' = at + 1
      /\ at = MaxCount => macro' = "DONE" /\ count' \in Beats
  <2>1. CASE macro = "R"
    <3>1. L!BeatIn(rdata)
      BY <2>1 DEF PathEdge, L!Clock, L!AcceptRead, L!AcceptWrite, L!NoOp, L!FirstBeatIn, L!FirstBeatOut,
         L!BeatOut, L!Respond
    <3>2. L!NextCount \in Beats /\ (count # MaxCount => L!NextCount = count + 1)
      BY CountWraps DEF PathOK
    <3> QED BY <1>2, <2>1, <3>1, <3>2 DEF L!BeatIn
  <2>2. CASE macro = "WAITR" /\ resp
    <3>1. L!FirstBeatIn(resp, rdata)
      BY <2>2 DEF PathEdge, L!Clock, L!AcceptRead, L!AcceptWrite, L!NoOp, L!BeatIn, L!FirstBeatOut,
         L!BeatOut, L!Respond
    <3>2. macro' = "R" /\ count' = 1 /\ linebuf' = [linebuf EXCEPT ![0] = rdata]
          /\ addressbuf' = addressbuf
      BY <2>2, <3>1 DEF L!FirstBeatIn
    <3>3. 0 # MaxCount /\ 0 + 1 = 1
      BY <1>1
    <3> QED BY <1>2, <2>2, <3>2, <3>3
  <2> QED BY <2>1, <2>2
<1>4. L!read_o = TRUE /\ L!write_o = FALSE
  BY DEF L!read_o, L!write_o
<1> HIDE DEF at, l
<1>5. /\ mem' = mem /\ UNCHANGED <<addr, left, error>>
      /\ at # MaxCount => /\ beat' = at + 1 /\ resp' = TRUE /\ task' = "memread"
                          /\ rdata' = mem[l][at + 1]
      /\ at = MaxCount => resp' = FALSE /\ task' = "none" /\ UNCHANGED <<beat, rdata>>
  <2>1. "memread" \in {"memread", "memwrite"} /\ L!read_o = ("memread" = "memread")
        /\ L!write_o = ("memread" = "memwrite")
    BY <1>4
  <2> QED BY <1>2, <2>1, BurstEdge DEF l
<1>6. linebuf' \in [Beats -> Burst] /\ \A b \in Beats : b <= at => linebuf'[b] = mem[l][b]
  <2>1. ASSUME NEW b \in Beats, b <= at
        PROVE  linebuf'[b] = mem[l][b]
    <3>1. CASE b = at
      BY <1>1, <1>2, <1>3, <3>1
    <3>2. CASE b # at
      <4>1. b < at
        BY <1>1, <1>2, <2>1, <3>2
      <4> QED BY <1>1, <1>2, <1>3, <3>2, <4>1
    <3> QED BY <3>1, <3>2
  <2> QED BY <1>1, <1>2, <1>3, <2>1
<1>7. l' = l
  BY <1>3 DEF l
<1>8. CASE at # MaxCount
  <2>1. at + 1 \in Beats
    BY <1>1, <1>2, <1>8
  <2>2. PathTypeOK'
    BY <1>1, <1>3, <1>5, <1>6, <1>8, <2>1 DEF PathOK, PathTypeOK, L!AdaptorTypeOK, L!Beat, Beats
  <2>3. Handshake'
    <3>1. at + 1 > 0
      BY <1>1, <1>2
    <3> QED BY <1>2, <1>3, <1>5, <1>8, <3>1 DEF Handshake, Bursting
  <2>4. Buffered'
    <3>1. \A b \in Beats : b < at + 1 => b <= at
      BY <1>1, <1>2
    <3> QED BY <1>3, <1>5, <1>6, <1>8, <3>1 DEF Buffered, Passed, l
  <2> QED BY <1>2, <1>3, <1>5, <1>8, <2>2, <2>3, <2>4 DEF PathOK, l
<1>9. CASE at = MaxCount
  <2>1. PathTypeOK'
    BY <1>1, <1>3, <1>5, <1>6, <1>9 DEF PathOK, PathTypeOK, L!AdaptorTypeOK, L!Beat, Beats
  <2>2. Handshake'
    BY <1>2, <1>3, <1>5, <1>9 DEF Handshake
  <2>3. linebuf' = mem[l]
    <3>1. \A b \in Beats : b <= at
      BY <1>1, <1>9
    <3> QED BY <1>1, <1>6, <3>1
  <2>4. Buffered'
    BY <1>3, <1>5, <1>9, <2>3 DEF Buffered, l
  <2> QED BY <1>2, <1>3, <1>5, <1>9, <2>1, <2>2, <2>4 DEF PathOK, l
<1> QED BY <1>8, <1>9

(* A beat of a write: the memory takes what the buffer has.                *)
LEMMA PathWrites ==
  ASSUME PathOK, macro = "W" \/ (macro = "WAITW" /\ resp), NEW r, NEW w, NEW a, NEW line,
         PathEdge(r, w, a, line)
  PROVE  /\ PathOK' /\ linebuf' = linebuf /\ macro' \in {"W", "DONE"} /\ addressbuf' = addressbuf
         /\ \E b \in Beats : mem' = [mem EXCEPT ![LineOf(addressbuf)] = [@ EXCEPT ![b] = linebuf[b]]]
<1> DEFINE l == LineOf(addressbuf)
<1>1. /\ count \in Beats /\ linebuf \in [Beats -> Burst] /\ mem[l] \in [Beats -> Burst]
      /\ l \in LineAddr /\ mem \in [LineAddr -> [Beats -> Burst]]
      /\ MaxCount \in Nat \ {0} /\ Beats = 0 .. MaxCount /\ 0 \in Beats /\ 1 \in Beats
      /\ addressbuf \in D!Address
  BY PathFacts DEF PathOK, PathTypeOK
<1>2. /\ task = "memwrite" /\ addr = addressbuf /\ left = 0 /\ resp /\ ~error /\ beat = count
      /\ \A b \in Beats : b < count => linebuf[b] = mem[l][b]
  <2>1. CASE macro = "W"
    BY <1>1, <2>1 DEF PathOK, Handshake, Bursting, Buffered, Passed
  <2>2. CASE macro = "WAITW" /\ resp
    <3>1. task = "memwrite" /\ addr = addressbuf /\ left = 0 /\ ~error /\ beat = 0 /\ count = 0
      BY <2>2 DEF PathOK, Handshake, Waiting
    <3>2. \A b \in Beats : ~(b < 0)
      BY <1>1
    <3> QED BY <1>1, <2>2, <3>1, <3>2
  <2> QED BY <2>1, <2>2
<1>3. /\ linebuf' = linebuf /\ addressbuf' = addressbuf
      /\ count # MaxCount => macro' = "W" /\ count' = count + 1
      /\ count = MaxCount => macro' = "DONE" /\ count' \in Beats
  <2>1. CASE macro = "W"
    <3>1. L!BeatOut
      BY <2>1 DEF PathEdge, L!Clock, L!AcceptRead, L!AcceptWrite, L!NoOp, L!FirstBeatIn, L!FirstBeatOut,
         L!BeatIn, L!Respond
    <3>2. L!NextCount \in Beats /\ (count # MaxCount => L!NextCount = count + 1)
      BY CountWraps DEF PathOK
    <3> QED BY <1>2, <2>1, <3>1, <3>2 DEF L!BeatOut
  <2>2. CASE macro = "WAITW" /\ resp
    <3>1. L!FirstBeatOut(resp)
      BY <2>2 DEF PathEdge, L!Clock, L!AcceptRead, L!AcceptWrite, L!NoOp, L!BeatIn, L!FirstBeatIn,
         L!BeatOut, L!Respond
    <3>2. macro' = "W" /\ count' = 1 /\ linebuf' = linebuf /\ addressbuf' = addressbuf
      BY <2>2, <3>1 DEF L!FirstBeatOut
    <3>3. count = 0
      BY <2>2 DEF PathOK, Handshake
    <3>4. 0 # MaxCount /\ 0 + 1 = 1
      BY <1>1
    <3> QED BY <3>2, <3>3, <3>4
  <2> QED BY <2>1, <2>2
<1>4. L!read_o = FALSE /\ L!write_o = TRUE
  BY DEF L!read_o, L!write_o
<1> HIDE DEF l
<1>5. /\ mem' = [mem EXCEPT ![l][count] = linebuf[count]] /\ UNCHANGED <<addr, left, error, rdata>>
      /\ count # MaxCount => beat' = count + 1 /\ resp' = TRUE /\ task' = "memwrite"
      /\ count = MaxCount => resp' = FALSE /\ task' = "none" /\ UNCHANGED beat
  <2>1. "memwrite" \in {"memread", "memwrite"} /\ L!read_o = ("memwrite" = "memread")
        /\ L!write_o = ("memwrite" = "memwrite")
    BY <1>4
  <2> QED BY <1>2, <2>1, BurstEdge DEF l
<1>6. /\ mem' = [mem EXCEPT ![l] = [@ EXCEPT ![count] = linebuf[count]]]
      /\ mem' \in [LineAddr -> [Beats -> Burst]]
      /\ mem'[l] = [mem[l] EXCEPT ![count] = linebuf[count]]
  BY <1>1, <1>5
<1>7. mem'[l] \in [Beats -> Burst] /\ \A b \in Beats : b <= count => linebuf[b] = mem'[l][b]
  <2>1. ASSUME NEW b \in Beats, b <= count
        PROVE  linebuf[b] = mem'[l][b]
    <3>1. CASE b = count
      BY <1>1, <1>6, <3>1
    <3>2. CASE b # count
      <4>1. b < count
        BY <1>1, <2>1, <3>2
      <4> QED BY <1>1, <1>2, <1>6, <3>2, <4>1
    <3> QED BY <3>1, <3>2
  <2> QED BY <1>1, <1>6, <2>1
<1>8. l' = l
  BY <1>3 DEF l
<1>9. CASE count # MaxCount
  <2>1. count + 1 \in Beats
    BY <1>1, <1>9
  <2>2. PathTypeOK'
    BY <1>1, <1>3, <1>5, <1>6, <1>9, <2>1 DEF PathOK, PathTypeOK, L!AdaptorTypeOK, L!Beat, Beats
  <2>3. Handshake'
    <3>1. count + 1 > 0
      BY <1>1
    <3> QED BY <1>2, <1>3, <1>5, <1>9, <3>1 DEF Handshake, Bursting
  <2>4. Buffered'
    <3>1. \A b \in Beats : b < count + 1 => b <= count
      BY <1>1
    <3>2. \A b \in Beats : b < count' => linebuf'[b] = mem'[l'][b]
      BY <1>3, <1>7, <1>8, <1>9, <3>1
    <3> QED BY <1>3, <1>9, <3>2 DEF Buffered, Passed, l
  <2> QED BY <1>1, <1>3, <1>6, <1>9, <2>2, <2>3, <2>4 DEF PathOK, l
<1>10. CASE count = MaxCount
  <2>1. PathTypeOK'
    BY <1>1, <1>3, <1>5, <1>6, <1>10 DEF PathOK, PathTypeOK, L!AdaptorTypeOK, L!Beat, Beats
  <2>2. Handshake'
    BY <1>2, <1>3, <1>5, <1>10 DEF Handshake
  <2>3. linebuf = mem'[l]
    <3>1. \A b \in Beats : b <= count
      BY <1>1, <1>10
    <3>2. PICK x : x = mem'[l]
      OBVIOUS
    <3>3. x \in [Beats -> Burst] /\ \A b \in Beats : linebuf[b] = x[b]
      BY <1>7, <3>1, <3>2
    <3>4. linebuf = x
      BY <1>1, <3>3
    <3> QED BY <3>2, <3>4
  <2>4. Buffered'
    BY <1>3, <1>10, <2>3 DEF Buffered, l
  <2> QED BY <1>1, <1>3, <1>6, <1>10, <2>1, <2>2, <2>4 DEF PathOK, l
<1> QED BY <1>9, <1>10

-----------------------------------------------------------------------------
(* DP and IP have the definitions of ParamCache another time.              *)

(* The data cache: selection, outputs and requests to memory.              *)
LEMMA SameData ==
  /\ DP!lru_idx = D!lru_idx /\ DP!index = D!index /\ DP!hit = D!hit /\ DP!dirty_out = D!dirty_out
  /\ DP!request = D!request /\ DP!mem_resp = D!mem_resp
  /\ DP!pmem_read = D!pmem_read /\ DP!pmem_write = D!pmem_write
  /\ DP!pmem_address = D!pmem_address /\ DP!pmem_wdata = D!pmem_wdata
  /\ DP!storing = D!storing /\ DP!line_out = D!line_out
<1>1. DP!lru_idx = D!lru_idx /\ DP!index = D!index /\ DP!address_tag = D!address_tag
  BY DEF DP!lru_idx, DP!HitWays, DP!InvalidWays, DP!OldestWays, DP!First, DP!Way, DP!index,
     DP!address_tag, D!lru_idx, D!HitWays, D!InvalidWays, D!OldestWays, D!First, D!Way, D!index,
     D!address_tag
<1>2. /\ DP!hit = D!hit /\ DP!dirty_out = D!dirty_out /\ DP!request = D!request
      /\ DP!mem_resp = D!mem_resp /\ DP!storing = D!storing
  BY <1>1 DEF DP!hit, DP!dirty_out, DP!request, DP!mem_resp, DP!storing,
     D!hit, D!dirty_out, D!request, D!mem_resp, D!storing
<1>3. DP!line_out = D!line_out
  BY <1>1, <1>2 DEF DP!line_out, DP!mask, DP!mem_byte_enable_line, DP!mem_wdata_line, DP!Cell,
     D!line_out, D!mask, D!mem_byte_enable_line, D!mem_wdata_line, D!Cell
<1> QED BY <1>1, <1>2, <1>3 DEF DP!pmem_read, DP!pmem_write, DP!pmem_address, DP!pmem_wdata,
     D!pmem_read, D!pmem_write, D!pmem_address, D!pmem_wdata

(* The instruction cache, whose request is always a load.                  *)
LEMMA SameInst ==
  /\ IP!lru_idx = I!lru_idx /\ IP!index = I!index /\ IP!hit = I!hit /\ IP!dirty_out = I!dirty_out
  /\ IP!request = TRUE /\ I!request = TRUE /\ IP!mem_resp = I!mem_resp
  /\ IP!pmem_read = I!pmem_read /\ IP!pmem_write = I!pmem_write
  /\ IP!pmem_address = I!pmem_address
  /\ IP!storing = FALSE /\ I!storing = FALSE /\ IP!line_out = I!line_out
<1>1. IP!lru_idx = I!lru_idx /\ IP!index = I!index /\ IP!address_tag = I!address_tag
  BY DEF IP!lru_idx, IP!HitWays, IP!InvalidWays, IP!OldestWays, IP!First, IP!Way, IP!index,
     IP!address_tag, I!lru_idx, I!HitWays, I!InvalidWays, I!OldestWays, I!First, I!Way, I!index,
     I!address_tag
<1>2. IP!request = TRUE /\ I!request = TRUE
  BY DEF IP!request, I!request
<1>3. /\ IP!hit = I!hit /\ IP!dirty_out = I!dirty_out
      /\ IP!mem_resp = I!mem_resp /\ IP!storing = FALSE /\ I!storing = FALSE
  BY <1>1, <1>2 DEF IP!hit, IP!dirty_out, IP!mem_resp, IP!storing,
     I!hit, I!dirty_out, I!mem_resp, I!storing
<1>4. IP!line_out = I!line_out
  BY <1>1, <1>3 DEF IP!line_out, IP!mask, IP!Cell, I!line_out, I!mask, I!Cell
<1> QED BY <1>1, <1>2, <1>3, <1>4 DEF IP!pmem_read, IP!pmem_write, IP!pmem_address,
     I!pmem_read, I!pmem_write, I!pmem_address

(* An edge of the data cache as MemSystem has it is one as L1Cache has it. *)
LEMMA SameDataClock ==
  ASSUME NEW x, NEW y, D!Clock(x, y)
  PROVE  DP!Clock(x, y)
<1>1. D!Idle => DP!Idle
  BY SameData DEF D!Idle, D!cacheRegs, DP!Idle, DP!cacheRegs
<1>2. D!Hit => DP!Hit
  <2>1. \A i : D!LruAfterHit(i) = DP!LruAfterHit(i)
    BY SameData DEF D!LruAfterHit, DP!LruAfterHit
  <2> QED BY SameData, <2>1, Zenon DEF D!Hit, D!Way, DP!Hit, DP!Way
<1>3. D!WriteBack(x) => DP!WriteBack(x)
  BY SameData DEF D!WriteBack, DP!WriteBack
<1>4. D!CleanMiss => DP!CleanMiss
  BY SameData DEF D!CleanMiss, DP!CleanMiss
<1>5. D!Fill(x, y) => DP!Fill(x, y)
  BY SameData, Zenon DEF D!Fill, D!address_tag, DP!Fill, DP!address_tag
<1> QED BY <1>1, <1>2, <1>3, <1>4, <1>5 DEF D!Clock, DP!Clock

(* The same for the instruction cache.                                     *)
LEMMA SameInstClock ==
  ASSUME NEW x, NEW y, I!Clock(x, y)
  PROVE  IP!Clock(x, y)
<1>1. I!Idle => IP!Idle
  BY SameInst DEF I!Idle, I!cacheRegs, IP!Idle, IP!cacheRegs
<1>2. I!Hit => IP!Hit
  <2>1. \A i : I!LruAfterHit(i) = IP!LruAfterHit(i)
    BY SameInst DEF I!LruAfterHit, IP!LruAfterHit
  <2>2. FALSE = ("load" = "store")
    OBVIOUS
  <2> QED BY SameInst, <2>1, <2>2, Zenon DEF I!Hit, I!Way, IP!Hit, IP!Way
<1>3. I!WriteBack(x) => IP!WriteBack(x)
  BY SameInst DEF I!WriteBack, IP!WriteBack
<1>4. I!CleanMiss => IP!CleanMiss
  BY SameInst DEF I!CleanMiss, IP!CleanMiss
<1>5. I!Fill(x, y) => IP!Fill(x, y)
  BY SameInst, Zenon DEF I!Fill, I!address_tag, IP!Fill, IP!address_tag
<1> QED BY <1>1, <1>2, <1>3, <1>4, <1>5 DEF I!Clock, IP!Clock

-----------------------------------------------------------------------------
(* The inductive invariant.                                                *)

(* The transfer under way is the one that the arbiter's client asks for.   *)
ClientOK ==
  /\ a_state = "decode" => macro = "IDLE"
  /\ a_state = "i_cache" => macro \notin {"WAITW", "W"}
  /\ a_state = "d_cache" =>
       /\ macro \in {"WAITR", "R"} => D!pmem_read
       /\ macro \in {"WAITW", "W"} => D!pmem_write
       /\ macro # "IDLE" => addressbuf = D!pmem_address

(* The instruction cache never writes; what the data cache writes back are *)
(* lines the program stores to.                                            *)
InstClean == \A i \in I!Way : \A s \in Index : ~i_dirty_array[i][s]

DirtyStored == \A i \in D!Way : \A s \in Index : d_dirty_array[i][s] => d_tag_array[i][s] \in StoreTag

PortsOK == A!ArbiterTypeOK /\ i_addr \in Fetch /\ req \in DataRequest

(* The transfers made since the pipeline last advanced and those that the  *)
(* two requests still need.                                                *)
Budget == transfers \in Nat /\ transfers + (DP!TransfersLeft + IP!TransfersLeft) <= 3

SysInv ==
  /\ PathOK /\ PortsOK /\ ClientOK /\ InstClean /\ DirtyStored /\ Budget
  /\ DP!IndInv /\ IP!IndInv

(* What a client sees of the path.                                         *)
Seen(client) ==
  /\ a_state # client =>
       /\ Phase(client) = "decode" /\ Latched(client) = FALSE /\ LineAddrBuf(client) = << >>
       /\ LineBuf(client) = D!ZeroLine
  /\ a_state = client =>
       /\ LineBuf(client) = ToLine(linebuf)
       /\ macro = "IDLE" =>
            Phase(client) = "grant" /\ Latched(client) = FALSE /\ LineAddrBuf(client) = << >>
       /\ macro = "DONE" =>
            /\ Phase(client) = "done" /\ Latched(client) = TRUE
            /\ LineAddrBuf(client) = LineOf(addressbuf)
       /\ macro \notin {"IDLE", "DONE"} =>
            /\ Phase(client) = "busy" /\ Latched(client) = TRUE
            /\ LineAddrBuf(client) = LineOf(addressbuf)

(* The phase and the buffers of a client, by state of arbiter and adaptor. *)
LEMMA PhaseIs == ASSUME NEW CONSTANT client PROVE Seen(client)
<1>1. /\ a_state # client => Phase(client) = "decode"
      /\ a_state = client /\ macro = "IDLE" => Phase(client) = "grant"
      /\ a_state = client /\ macro = "DONE" => Phase(client) = "done"
      /\ a_state = client /\ macro \notin {"IDLE", "DONE"} => Phase(client) = "busy"
  BY DEF Phase
<1>2. /\ Phase(client) \in {"busy", "done"} => Latched(client) = TRUE
      /\ Phase(client) \in {"decode", "grant"} => Latched(client) = FALSE
  BY DEF Latched
<1>3. CASE a_state # client
  <2>1. Phase(client) = "decode" /\ Latched(client) = FALSE
    BY <1>1, <1>2, <1>3
  <2>2. LineAddrBuf(client) = << >> /\ LineBuf(client) = D!ZeroLine
    BY <2>1, Zenon DEF LineAddrBuf, LineBuf
  <2> QED BY <1>3, <2>1, <2>2 DEF Seen
<1>4. CASE a_state = client /\ macro = "IDLE"
  <2>1. Phase(client) = "grant" /\ Latched(client) = FALSE /\ Phase(client) # "decode"
    BY <1>1, <1>2, <1>4
  <2>2. LineAddrBuf(client) = << >> /\ LineBuf(client) = ToLine(linebuf)
    BY <2>1, Zenon DEF LineAddrBuf, LineBuf
  <2> QED BY <1>4, <2>1, <2>2 DEF Seen
<1>5. CASE a_state = client /\ macro = "DONE"
  BY <1>1, <1>2, <1>5 DEF Seen, LineAddrBuf, LineBuf
<1>6. CASE a_state = client /\ macro \notin {"IDLE", "DONE"}
  BY <1>1, <1>2, <1>6 DEF Seen, LineAddrBuf, LineBuf
<1> QED BY <1>3, <1>4, <1>5, <1>6

(* The same in the next state.                                             *)
LEMMA PhaseIsNext == ASSUME NEW CONSTANT client PROVE Seen(client)'
BY PhaseIs, PTL

(* SameData in the next state.                                             *)
LEMMA SameDataNext ==
  (/\ DP!lru_idx = D!lru_idx /\ DP!index = D!index /\ DP!hit = D!hit /\ DP!dirty_out = D!dirty_out
   /\ DP!request = D!request /\ DP!mem_resp = D!mem_resp
   /\ DP!pmem_read = D!pmem_read /\ DP!pmem_write = D!pmem_write
   /\ DP!pmem_address = D!pmem_address /\ DP!pmem_wdata = D!pmem_wdata)'
BY SameData, PTL

(* SameInst in the next state.                                             *)
LEMMA SameInstNext ==
  (/\ IP!lru_idx = I!lru_idx /\ IP!index = I!index /\ IP!hit = I!hit /\ IP!dirty_out = I!dirty_out
   /\ IP!mem_resp = I!mem_resp /\ IP!pmem_read = I!pmem_read /\ IP!pmem_write = I!pmem_write
   /\ IP!pmem_address = I!pmem_address)'
BY SameInst, PTL

(* The constants of L1Cache.                                               *)
LEMMA CacheAssumptions == Ways \in Nat \ {0} /\ 0 \in Byte
BY SizesAssumption

(* A request of the data cache to memory stays until it is answered.       *)
LEMMA DataHolds ==
  ASSUME DP!IndInv, NEW y, D!Clock(FALSE, y), UNCHANGED req, D!pmem_read \/ D!pmem_write
  PROVE  /\ D!pmem_read' = D!pmem_read /\ D!pmem_write' = D!pmem_write
         /\ ~D!pmem_read \/ ~D!dirty_out => D!pmem_address' = D!pmem_address
<1>1. /\ D!pmem_read <=> d_state = "read_mem"
      /\ D!pmem_write => d_state = "check_hit" /\ D!request /\ ~D!hit /\ D!dirty_out
  BY DEF D!pmem_read, D!pmem_write
<1>2. CASE D!pmem_write
  <2>1. D!WriteBack(FALSE)
    BY <1>1, <1>2 DEF D!Clock, D!Idle, D!Hit, D!CleanMiss, D!Fill, D!mem_resp
  <2>2. UNCHANGED <<d_state, d_DM_cache, d_tag_array, d_valid_array, d_dirty_array, d_lru_array>>
    BY <1>1, <1>2, <2>1 DEF D!WriteBack
  <2>3. UNCHANGED <<D!lru_idx, D!index>>
    BY <2>2, CacheAssumptions, SameData, SameDataNext, DP!SelectionStable
  <2> QED BY <2>2, <2>3 DEF D!pmem_read, D!pmem_write, D!pmem_address, D!dirty_out, D!hit, D!request,
         D!address_tag
<1>3. CASE D!pmem_read
  <2>1. D!Fill(FALSE, y)
    BY <1>1, <1>3 DEF D!Clock, D!Idle, D!Hit, D!CleanMiss, D!WriteBack, D!mem_resp, D!pmem_write
  <2>2. DP!TypeOK /\ DP!CacheTypeOK /\ DP!lru_idx \in DP!Way /\ DP!index \in Index
    BY CacheAssumptions, DP!RequestType DEF DP!IndInv, DP!TypeOK
  <2>3. D!lru_idx \in DP!Way /\ D!index \in Index
    BY <2>2, SameData
  <2>4. /\ d_tag_array' = [d_tag_array EXCEPT ![D!lru_idx][D!index] = @]
        /\ d_valid_array' = [d_valid_array EXCEPT ![D!lru_idx][D!index] = @ \/ FALSE]
        /\ d_dirty_array' = [d_dirty_array EXCEPT ![D!lru_idx][D!index] = FALSE]
        /\ d_lru_array' = d_lru_array /\ d_state' = "read_mem"
    BY <2>1, Zenon DEF D!Fill
  <2>5. UNCHANGED <<d_tag_array, d_valid_array>>
    BY <2>2, <2>3, <2>4 DEF DP!CacheTypeOK
  <2>6. UNCHANGED <<D!lru_idx, D!index>>
    BY <2>4, <2>5, CacheAssumptions, SameData, SameDataNext, DP!SelectionStable
  <2>7. ~D!dirty_out'
    BY <2>2, <2>3, <2>4, <2>6 DEF D!dirty_out, DP!CacheTypeOK
  <2>8. D!pmem_read' = D!pmem_read /\ D!pmem_write' = D!pmem_write
    <3>1. d_state = "read_mem" /\ d_state' = "read_mem"
      BY <1>1, <1>3, <2>4
    <3>2. D!pmem_read = TRUE /\ D!pmem_read' = TRUE
      BY <3>1 DEF D!pmem_read
    <3>3. D!pmem_write = FALSE /\ D!pmem_write' = FALSE
      BY <3>1 DEF D!pmem_write
    <3> QED BY <3>2, <3>3
  <2>9. ~D!dirty_out => D!pmem_address' = D!pmem_address
    BY <2>7 DEF D!pmem_address
  <2> QED BY <1>3, <2>8, <2>9
<1> QED BY <1>2, <1>3

-----------------------------------------------------------------------------
(* Ports.                                                                  *)

(* Each cache selects a way and a set that it has.                         *)
LEMMA Selections ==
  ASSUME SysInv
  PROVE  /\ D!lru_idx \in D!Way /\ D!index \in Index /\ req.addr \in D!Address
         /\ I!lru_idx \in I!Way /\ I!index \in Index /\ i_addr \in D!Address
         /\ D!CacheTypeOK /\ I!CacheTypeOK
<1>1. DP!TypeOK /\ IP!TypeOK
  BY DEF SysInv, DP!IndInv, IP!IndInv
<1>2. DP!lru_idx \in DP!Way /\ DP!index \in Index /\ req.addr \in DP!Address
  BY <1>1, CacheAssumptions, DP!RequestType
<1>3. IP!lru_idx \in IP!Way /\ IP!index \in Index
  BY <1>1, CacheAssumptions, IP!RequestType
<1>4. D!CacheTypeOK /\ I!CacheTypeOK
  BY <1>1 DEF DP!TypeOK, IP!TypeOK, DP!CacheTypeOK, IP!CacheTypeOK, D!CacheTypeOK, I!CacheTypeOK,
     DP!Way, IP!Way, D!Way, I!Way, DP!Line, IP!Line, D!Line, I!Line, DP!Cell, IP!Cell, D!Cell, I!Cell
<1>5. i_addr \in D!Address
  BY NoSelfModification DEF SysInv, PortsOK, Fetch, D!Address
<1> QED BY <1>2, <1>3, <1>4, <1>5, SameData, SameInst DEF DP!Way, IP!Way, D!Way, I!Way, DP!Address, D!Address

(* The instruction cache only reads, and reads the line it is asked for.   *)
LEMMA InstPorts ==
  ASSUME SysInv
  PROVE  I!pmem_write = FALSE /\ I!pmem_address = i_addr /\ I!dirty_out = FALSE
<1>1. I!lru_idx \in I!Way /\ I!index \in Index /\ I!CacheTypeOK
  BY Selections
<1>2. I!dirty_out = FALSE
  BY <1>1 DEF SysInv, InstClean, I!dirty_out, I!CacheTypeOK
<1> QED BY <1>2 DEF I!pmem_write, I!pmem_address

(* What the arbiter passes on to the adaptor is well typed, and comes from *)
(* the cache that it serves.                                               *)
LEMMA Wiring ==
  ASSUME SysInv
  PROVE  /\ A!cache_read \in BOOLEAN /\ A!cache_write \in BOOLEAN /\ A!cache_addr \in D!Address
         /\ ToBeats(A!cache_wdata) \in [Beats -> Burst]
         /\ D!pmem_address \in D!Address /\ D!pmem_wdata \in D!Line /\ D!ZeroLine \in D!Line
         /\ a_state = "decode" => ~A!cache_read /\ ~A!cache_write
         /\ a_state = "i_cache" => A!cache_read = TRUE /\ A!cache_addr = i_addr
         /\ a_state = "d_cache" =>
              /\ A!cache_read = D!pmem_read /\ A!cache_write = (~D!pmem_read /\ D!pmem_write)
              /\ A!cache_addr = D!pmem_address
              /\ A!cache_write => A!cache_wdata = D!pmem_wdata
<1>1. /\ D!lru_idx \in D!Way /\ D!index \in Index /\ req.addr \in D!Address /\ D!CacheTypeOK
      /\ i_addr \in D!Address
  BY Selections
<1>2. D!pmem_address \in D!Address
  <2>1. d_tag_array[D!lru_idx][D!index] \in Tag /\ req.addr.word \in Word
    BY <1>1 DEF D!CacheTypeOK, D!Address
  <2>2. [tag |-> d_tag_array[D!lru_idx][D!index], index |-> D!index, word |-> req.addr.word] \in D!Address
    BY <1>1, <2>1 DEF D!Address
  <2> QED BY <1>1, <2>2, Zenon DEF D!pmem_address
<1>3. D!pmem_wdata \in D!Line /\ D!ZeroLine \in D!Line
  <2>1. DP!pmem_wdata \in DP!Line /\ DP!ZeroLine \in DP!Line
    BY CacheAssumptions, DP!PortTypes DEF SysInv, DP!IndInv
  <2> QED BY <2>1, SameData DEF DP!Line, D!Line, DP!Cell, D!Cell, DP!ZeroLine, D!ZeroLine
<1>4. I!pmem_address = i_addr
  BY InstPorts
<1>5. A!cache_read \in BOOLEAN /\ A!cache_write \in BOOLEAN
  BY DEF A!cache_read, A!cache_write, D!pmem_read, D!pmem_write
<1>6. a_state \in {"decode", "i_cache", "d_cache"}
  BY DEF SysInv, PortsOK, A!ArbiterTypeOK
<1>7. A!cache_wdata \in D!Line
  BY <1>3 DEF A!cache_wdata
<1>8. ToBeats(A!cache_wdata) \in [Beats -> Burst]
  BY <1>7, LineTypes
<1>9. CASE a_state = "decode"
  <2>1. A!cache_addr = CHOOSE a \in D!Address : TRUE
    BY <1>9 DEF A!cache_addr
  <2>2. A!cache_addr \in D!Address
    BY <1>1, <2>1, Zenon
  <2>3. ~A!cache_read /\ ~A!cache_write
    BY <1>9 DEF A!cache_read, A!cache_write
  <2> QED BY <1>2, <1>3, <1>5, <1>8, <1>9, <2>2, <2>3
<1>10. CASE a_state = "i_cache"
  <2>1. A!cache_read = TRUE /\ A!cache_addr = i_addr
    BY <1>4, <1>10 DEF A!cache_read, A!cache_addr
  <2> QED BY <1>1, <1>2, <1>3, <1>5, <1>8, <1>10, <2>1
<1>11. CASE a_state = "d_cache"
  <2>1. A!cache_read = D!pmem_read /\ A!cache_write = (~D!pmem_read /\ D!pmem_write)
    BY <1>11 DEF A!cache_read, A!cache_write, D!pmem_read, D!pmem_write
  <2>2. A!cache_addr = D!pmem_address /\ (A!cache_write => A!cache_wdata = D!pmem_wdata)
    BY <1>11 DEF A!cache_addr, A!cache_wdata
  <2> QED BY <1>2, <1>3, <1>5, <1>8, <1>11, <2>1, <2>2
<1> QED BY <1>6, <1>9, <1>10, <1>11

(* While a cache waits for memory the pipeline does not advance.           *)
LEMMA Stalled ==
  ASSUME SysInv, Tick, D!pmem_read \/ D!pmem_write \/ I!pmem_read
  PROVE  UNCHANGED <<i_addr, req>> /\ ~all_stall
<1>1. CASE I!pmem_read
  <2>1. ~all_stall
    BY <1>1 DEF all_stall, stall_pc, i_resp, I!mem_resp, I!pmem_read
  <2> QED BY <2>1 DEF Tick, Stall, Advance
<1>2. CASE D!pmem_read \/ D!pmem_write
  <2>1. D!request /\ ~D!mem_resp
    <3>1. D!pmem_read => D!request
      BY SameData DEF SysInv, DP!IndInv, DP!FillIsMiss, D!pmem_read
    <3> QED BY <1>2, <3>1 DEF D!pmem_read, D!pmem_write, D!mem_resp
  <2>2. ~all_stall
    BY <2>1 DEF all_stall, stall_datamem, data_resp, D!request
  <2> QED BY <2>2 DEF Tick, Stall, Advance
<1> QED BY <1>1, <1>2

(* The edge of adaptor and memory in a step of the whole.                  *)
LEMMA TickPath ==
  ASSUME Tick
  PROVE  PathEdge(A!cache_read, A!cache_write, A!cache_addr, ToBeats(A!cache_wdata))
BY Zenon DEF Tick, PathEdge

-----------------------------------------------------------------------------
(* Every cycle of the path is a step that each client may see.             *)

(* The arbiter gives the path to the data cache first and keeps it there   *)
(* until the answer.                                                       *)
LEMMA ArbiterEdge ==
  ASSUME SysInv, Tick
  PROVE  /\ a_state = "decode" =>
              a_state' = IF D!pmem_read \/ D!pmem_write THEN "d_cache"
                         ELSE IF I!pmem_read THEN "i_cache" ELSE "decode"
         /\ a_state # "decode" => a_state' = IF macro = "DONE" THEN "decode" ELSE a_state
<1>1. A!Clock
  BY DEF Tick
<1> QED BY <1>1 DEF A!Clock, A!ServeData, A!ServeInst, A!Undecided, A!Serving, L!resp_o

(* Some cells of a line that come from another one.                        *)
Moved(from, to, S) == [c \in D!Cell |-> IF c \in S THEN from[c] ELSE to[c]]

(* The cycles of a read.                                                   *)
LEMMA PathReading ==
  ASSUME PathOK, macro \in {"WAITR", "R"}, NEW r, NEW w, NEW a, NEW line, PathEdge(r, w, a, line)
  PROVE  /\ PathOK' /\ mem' = mem /\ addressbuf' = addressbuf /\ macro' \in {"WAITR", "R", "DONE"}
         /\ \E S \in SUBSET D!Cell :
              ToLine(linebuf') = Moved(ToLine(mem[LineOf(addressbuf)]), ToLine(linebuf), S)
         /\ macro' = "DONE" => ToLine(linebuf') = ToLine(mem[LineOf(addressbuf)])
<1>1. /\ linebuf \in [Beats -> Burst] /\ mem[LineOf(addressbuf)] \in [Beats -> Burst]
      /\ resp \in BOOLEAN
  BY PathFacts DEF PathOK, PathTypeOK
<1>2. ToLine(linebuf) = Moved(ToLine(mem[LineOf(addressbuf)]), ToLine(linebuf), {})
  BY DEF ToLine, Moved
<1>3. CASE macro = "WAITR" /\ ~resp
  <2>1. /\ PathOK' /\ mem' = mem /\ addressbuf' = addressbuf /\ macro' = "WAITR"
        /\ linebuf' = linebuf
    BY <1>3, PathWaits
  <2> QED BY <1>2, <2>1
<1>4. CASE macro = "R" \/ (macro = "WAITR" /\ resp)
  <2>1. /\ PathOK' /\ mem' = mem /\ macro' \in {"R", "DONE"} /\ addressbuf' = addressbuf
        /\ \E b \in Beats : linebuf' = [linebuf EXCEPT ![b] = mem[LineOf(addressbuf)][b]]
    BY <1>4, PathReads
  <2>2. PICK b \in Beats : linebuf' = [linebuf EXCEPT ![b] = mem[LineOf(addressbuf)][b]]
    BY <2>1
  <2>3. ToLine(linebuf') = Moved(ToLine(mem[LineOf(addressbuf)]), ToLine(linebuf), CellsOf(b))
    BY <1>1, <2>2, OneBeatMoved DEF Moved
  <2>4. CellsOf(b) \in SUBSET D!Cell
    BY DEF CellsOf
  <2>5. macro' = "DONE" => linebuf' = mem[LineOf(addressbuf)]
    BY <2>1 DEF PathOK, Buffered
  <2> QED BY <2>1, <2>3, <2>4, <2>5
<1> QED BY <1>1, <1>3, <1>4

(* The cycles of a write.                                                  *)
LEMMA PathWriting ==
  ASSUME PathOK, macro \in {"WAITW", "W"}, NEW r, NEW w, NEW a, NEW line, PathEdge(r, w, a, line)
  PROVE  /\ PathOK' /\ linebuf' = linebuf /\ addressbuf' = addressbuf
         /\ macro' \in {"WAITW", "W", "DONE"}
         /\ \A k \in LineAddr : k # LineOf(addressbuf) => mem'[k] = mem[k]
         /\ \E S \in SUBSET D!Cell :
              ToLine(mem'[LineOf(addressbuf)])
                = Moved(ToLine(linebuf), ToLine(mem[LineOf(addressbuf)]), S)
         /\ macro' = "DONE" => ToLine(mem'[LineOf(addressbuf)]) = ToLine(linebuf)
<1> DEFINE l == LineOf(addressbuf)
<1>1. /\ linebuf \in [Beats -> Burst] /\ mem[l] \in [Beats -> Burst] /\ l \in LineAddr
      /\ resp \in BOOLEAN /\ mem \in [LineAddr -> [Beats -> Burst]]
  BY PathFacts DEF PathOK, PathTypeOK
<1>2. ToLine(mem[l]) = Moved(ToLine(linebuf), ToLine(mem[l]), {})
  BY DEF ToLine, Moved
<1>3. CASE macro = "WAITW" /\ ~resp
  <2>1. /\ PathOK' /\ mem' = mem /\ addressbuf' = addressbuf /\ macro' = "WAITW"
        /\ linebuf' = linebuf
    BY <1>3, PathWaits
  <2> QED BY <1>2, <2>1
<1>4. CASE macro = "W" \/ (macro = "WAITW" /\ resp)
  <2>1. /\ PathOK' /\ linebuf' = linebuf /\ macro' \in {"W", "DONE"} /\ addressbuf' = addressbuf
        /\ \E b \in Beats : mem' = [mem EXCEPT ![l] = [@ EXCEPT ![b] = linebuf[b]]]
    BY <1>4, PathWrites
  <2>2. PICK b \in Beats : mem' = [mem EXCEPT ![l] = [mem[l] EXCEPT ![b] = linebuf[b]]]
    BY <2>1
  <2>3. /\ mem'[l] = [mem[l] EXCEPT ![b] = linebuf[b]]
        /\ \A k \in LineAddr : k # l => mem'[k] = mem[k]
    BY <1>1, <2>2
  <2>4. ToLine(mem'[l]) = Moved(ToLine(linebuf), ToLine(mem[l]), CellsOf(b))
    <3>1. PICK to \in [Beats -> Burst] : to = mem[l]
      BY <1>1
    <3>2. ToLine([to EXCEPT ![b] = linebuf[b]])
            = [c \in D!Cell |-> IF c \in CellsOf(b) THEN ToLine(linebuf)[c] ELSE ToLine(to)[c]]
      <4>1. linebuf \in [Beats -> Burst]
        BY <1>1
      <4> QED BY <4>1, OneBeatMoved
    <3> QED BY <2>3, <3>1, <3>2 DEF Moved
  <2>5. CellsOf(b) \in SUBSET D!Cell
    BY DEF CellsOf
  <2>6. macro' = "DONE" => linebuf = mem'[l]
    BY <2>1 DEF PathOK, Buffered
  <2> QED BY <2>1, <2>3, <2>4, <2>5, <2>6
<1> QED BY <1>1, <1>3, <1>4

(* What the two caches have of memory.                                     *)
LEMMA DataMemoryStays ==
  ASSUME mem' = mem
  PROVE  [k \in LineAddr |-> ToLine(mem[k])]' = [k \in LineAddr |-> ToLine(mem[k])]
BY DEF ToLine

(* For the instruction cache only the lines of the program matter.         *)
LEMMA InstMemoryStays ==
  ASSUME _imem' = _imem, \A k \in LineAddr : k[1] \in InstTag => mem'[k] = mem[k]
  PROVE  [k \in LineAddr |-> IF k[1] \in InstTag THEN ToLine(mem[k]) ELSE _imem[k]]'
           = [k \in LineAddr |-> IF k[1] \in InstTag THEN ToLine(mem[k]) ELSE _imem[k]]
<1>1. ASSUME NEW k \in LineAddr
      PROVE  (IF k[1] \in InstTag THEN ToLine(mem'[k]) ELSE _imem'[k])
               = (IF k[1] \in InstTag THEN ToLine(mem[k]) ELSE _imem[k])
  BY Zenon
<1> QED BY <1>1, Zenon

(* A cycle in which the path is not this cache's.                          *)
LEMMA DataWaits ==
  ASSUME a_state # "d_cache", a_state' # "d_cache", mem' = mem
  PROVE  DP!LowerStep
<1>1. /\ Phase("d_cache") = "decode" /\ Latched("d_cache") = FALSE
      /\ LineAddrBuf("d_cache") = << >> /\ LineBuf("d_cache") = D!ZeroLine
  BY PhaseIs DEF Seen
<1>2. /\ Phase("d_cache")' = "decode" /\ Latched("d_cache")' = FALSE
      /\ LineAddrBuf("d_cache")' = << >> /\ LineBuf("d_cache")' = D!ZeroLine
  BY PhaseIsNext DEF Seen
<1>3. /\ Phase("d_cache")' = Phase("d_cache") /\ LineAddrBuf("d_cache")' = LineAddrBuf("d_cache")
      /\ LineBuf("d_cache")' = LineBuf("d_cache")
  BY <1>1, <1>2
<1>4. (Latched("d_cache") /\ D!pmem_write)' = (Latched("d_cache") /\ D!pmem_write)
  BY <1>1, <1>2
<1>5. [k \in LineAddr |-> ToLine(mem[k])]' = [k \in LineAddr |-> ToLine(mem[k])]
  BY DataMemoryStays
<1> QED BY <1>1, <1>3, <1>4, <1>5 DEF DP!LowerStep, DP!Wait, DP!lowerVars

(* The same for the instruction cache, while nothing writes the program.   *)
LEMMA InstWaits ==
  ASSUME a_state # "i_cache", a_state' # "i_cache", _imem' = _imem,
         \A k \in LineAddr : k[1] \in InstTag => mem'[k] = mem[k]
  PROVE  IP!LowerStep
<1>1. /\ Phase("i_cache") = "decode" /\ LineAddrBuf("i_cache") = << >>
      /\ LineBuf("i_cache") = D!ZeroLine
  BY PhaseIs DEF Seen
<1>2. /\ Phase("i_cache")' = "decode" /\ LineAddrBuf("i_cache")' = << >>
      /\ LineBuf("i_cache")' = D!ZeroLine
  BY PhaseIsNext DEF Seen
<1>3. /\ Phase("i_cache")' = Phase("i_cache") /\ LineAddrBuf("i_cache")' = LineAddrBuf("i_cache")
      /\ LineBuf("i_cache")' = LineBuf("i_cache")
  BY <1>1, <1>2
<1>4. [k \in LineAddr |-> IF k[1] \in InstTag THEN ToLine(mem[k]) ELSE _imem[k]]'
        = [k \in LineAddr |-> IF k[1] \in InstTag THEN ToLine(mem[k]) ELSE _imem[k]]
  BY InstMemoryStays
<1> QED BY <1>1, <1>3, <1>4 DEF IP!LowerStep, IP!Wait, IP!lowerVars

(* The arbiter decodes: the data cache, the instruction cache or nobody    *)
(* gets the path.                                                          *)
LEMMA DecodeCycle ==
  ASSUME SysInv, Tick, a_state = "decode"
  PROVE  PathOK' /\ ClientOK' /\ DP!LowerStep /\ IP!LowerStep
<1>1. macro = "IDLE" /\ PathOK
  BY DEF SysInv, ClientOK
<1>2. /\ ~A!cache_read /\ ~A!cache_write /\ A!cache_read \in BOOLEAN /\ A!cache_write \in BOOLEAN
      /\ A!cache_addr \in D!Address /\ ToBeats(A!cache_wdata) \in [Beats -> Burst]
  BY Wiring
<1>3. PathOK' /\ mem' = mem /\ macro' = "IDLE" /\ addressbuf' = addressbuf /\ linebuf' = linebuf
  BY <1>1, <1>2, TickPath, PathIdle
<1>4. a_state' = IF D!pmem_read \/ D!pmem_write THEN "d_cache"
                 ELSE IF I!pmem_read THEN "i_cache" ELSE "decode"
  BY ArbiterEdge
<1>5. ClientOK'
  BY <1>3, <1>4 DEF ClientOK
<1>6. _imem' = _imem
  BY DEF Tick, ShadowStep
<1>7. ToLine(linebuf') \in D!Line
  <2>1. linebuf \in [Beats -> Burst]
    BY <1>1, PathFacts DEF PathOK
  <2> QED BY <1>3, <2>1, LineTypes
<1>8. CASE D!pmem_read \/ D!pmem_write
  <2>1. a_state' = "d_cache"
    BY <1>4, <1>8
  <2>2. IP!LowerStep
    BY <1>3, <1>6, <2>1, InstWaits
  <2>3. /\ Phase("d_cache") = "decode" /\ Latched("d_cache") = FALSE
        /\ LineAddrBuf("d_cache") = << >> /\ LineBuf("d_cache") = D!ZeroLine
    BY PhaseIs DEF Seen
  <2>4. /\ Phase("d_cache")' = "grant" /\ Latched("d_cache")' = FALSE
        /\ LineAddrBuf("d_cache")' = << >> /\ LineBuf("d_cache")' = ToLine(linebuf')
    BY <1>3, <2>1, PhaseIsNext DEF Seen
  <2>5. DP!Pending
    BY <1>8, SameData DEF DP!Pending
  <2>6. LineBuf("d_cache")' \in DP!Line
    BY <1>7, <2>4 DEF DP!Line, D!Line, DP!Cell, D!Cell
  <2>7. [k \in LineAddr |-> ToLine(mem[k])]' = [k \in LineAddr |-> ToLine(mem[k])]
    BY <1>3, DataMemoryStays
  <2>8. (Latched("d_cache") /\ D!pmem_write)' = (Latched("d_cache") /\ D!pmem_write)
    BY <2>3, <2>4
  <2>9. DP!Grant
    BY <2>3, <2>4, <2>5, <2>6, <2>7, <2>8 DEF DP!Grant
  <2> QED BY <1>3, <1>5, <2>2, <2>9 DEF DP!LowerStep
<1>9. CASE ~(D!pmem_read \/ D!pmem_write) /\ I!pmem_read
  <2>1. a_state' = "i_cache"
    BY <1>4, <1>9
  <2>2. DP!LowerStep
    BY <1>3, <2>1, DataWaits
  <2>3. /\ Phase("i_cache") = "decode" /\ LineAddrBuf("i_cache") = << >>
    BY PhaseIs DEF Seen
  <2>4. /\ Phase("i_cache")' = "grant"
        /\ LineAddrBuf("i_cache")' = << >> /\ LineBuf("i_cache")' = ToLine(linebuf')
    BY <1>3, <2>1, PhaseIsNext DEF Seen
  <2>5. IP!Pending
    BY <1>9, SameInst DEF IP!Pending
  <2>6. LineBuf("i_cache")' \in IP!Line
    BY <1>7, <2>4 DEF IP!Line, D!Line, IP!Cell, D!Cell
  <2>7. [k \in LineAddr |-> IF k[1] \in InstTag THEN ToLine(mem[k]) ELSE _imem[k]]'
          = [k \in LineAddr |-> IF k[1] \in InstTag THEN ToLine(mem[k]) ELSE _imem[k]]
    BY <1>3, <1>6, InstMemoryStays
  <2>8. IP!Grant
    BY <2>3, <2>4, <2>5, <2>6, <2>7 DEF IP!Grant
  <2> QED BY <1>3, <1>5, <2>2, <2>8 DEF IP!LowerStep
<1>10. CASE ~(D!pmem_read \/ D!pmem_write) /\ ~I!pmem_read
  <2>1. a_state' = "decode"
    BY <1>4, <1>10
  <2> QED BY <1>3, <1>5, <1>6, <2>1, DataWaits, InstWaits
<1> QED BY <1>8, <1>9, <1>10

(* The instruction cache has the path.                                     *)
LEMMA InstCycle ==
  ASSUME SysInv, Tick, a_state = "i_cache"
  PROVE  PathOK' /\ ClientOK' /\ DP!LowerStep /\ IP!LowerStep
<1> DEFINE Lines == [k \in LineAddr |-> IF k[1] \in InstTag THEN ToLine(mem[k]) ELSE _imem[k]]
<1>1. /\ PathOK /\ macro \in {"IDLE", "WAITR", "R", "DONE"} /\ i_addr \in Fetch
      /\ addressbuf \in D!Address
  BY PathFacts DEF SysInv, ClientOK, PathOK, PortsOK
<1>2. /\ A!cache_read = TRUE /\ A!cache_addr = i_addr /\ A!cache_read \in BOOLEAN
      /\ A!cache_write \in BOOLEAN
      /\ A!cache_addr \in D!Address /\ ToBeats(A!cache_wdata) \in [Beats -> Burst]
  BY Wiring
<1>3. PathEdge(A!cache_read, A!cache_write, A!cache_addr, ToBeats(A!cache_wdata))
  BY TickPath
<1>4. a_state' = IF macro = "DONE" THEN "decode" ELSE "i_cache"
  BY ArbiterEdge
<1>5. _imem' = _imem
  BY DEF Tick, ShadowStep
<1>6. /\ I!pmem_read /\ IP!pmem_read /\ I!pmem_address = i_addr /\ IP!pmem_address = i_addr
      /\ macro # "IDLE" => LineOf(addressbuf) = LineOf(i_addr)
  <2>1. I!pmem_write = FALSE /\ I!pmem_address = i_addr
    BY InstPorts
  <2>2. Phase("i_cache") # "decode"
        /\ (macro # "IDLE" => /\ Phase("i_cache") \in {"busy", "done"}
                              /\ LineAddrBuf("i_cache") = LineOf(addressbuf))
    BY <1>1, PhaseIs DEF Seen
  <2>3. IP!Pending /\ (macro # "IDLE" => LineAddrBuf("i_cache") = IP!LineOf(IP!pmem_address))
    BY <2>2 DEF SysInv, IP!IndInv, IP!PathInv
  <2>4. I!pmem_read /\ IP!pmem_read
    BY <2>1, <2>3, SameInst DEF IP!Pending
  <2> QED BY <2>1, <2>2, <2>3, <2>4, SameInst DEF IP!LineOf, LineOf
<1>7. CASE macro = "IDLE"
  <2>1. /\ PathOK' /\ mem' = mem /\ macro' = "WAITR" /\ addressbuf' = i_addr
        /\ linebuf' = linebuf
    BY <1>1, <1>2, <1>3, <1>7, PathIdle
  <2>2. a_state' = "i_cache"
    BY <1>4, <1>7
  <2>3. ClientOK'
    BY <2>1, <2>2 DEF ClientOK
  <2>4. DP!LowerStep
    BY <2>1, <2>2, DataWaits
  <2>5. Phase("i_cache") = "grant" /\ LineBuf("i_cache") = ToLine(linebuf)
    BY <1>7, PhaseIs DEF Seen
  <2>6. /\ Phase("i_cache")' = "busy" /\ LineAddrBuf("i_cache")' = LineOf(i_addr)
        /\ LineBuf("i_cache")' = ToLine(linebuf)
    BY <2>1, <2>2, PhaseIsNext DEF Seen, LineOf
  <2>7. Lines' = Lines
    BY <1>5, <2>1, InstMemoryStays
  <2>8. IP!Latch
    BY <1>6, <2>5, <2>6, <2>7 DEF IP!Latch, IP!LineOf, LineOf
  <2> QED BY <2>1, <2>3, <2>4, <2>8 DEF IP!LowerStep
<1>8. CASE macro \in {"WAITR", "R"}
  <2>1. /\ PathOK' /\ mem' = mem /\ addressbuf' = addressbuf /\ macro' \in {"WAITR", "R", "DONE"}
        /\ \E S \in SUBSET D!Cell :
             ToLine(linebuf') = Moved(ToLine(mem[LineOf(addressbuf)]), ToLine(linebuf), S)
        /\ macro' = "DONE" => ToLine(linebuf') = ToLine(mem[LineOf(addressbuf)])
    BY <1>1, <1>3, <1>8, PathReading
  <2>2. a_state' = "i_cache"
    BY <1>4, <1>8
  <2>3. ClientOK'
    BY <2>1, <2>2 DEF ClientOK
  <2>4. DP!LowerStep
    BY <2>1, <2>2, DataWaits
  <2>5. /\ Phase("i_cache") = "busy" /\ LineBuf("i_cache") = ToLine(linebuf)
        /\ LineAddrBuf("i_cache") = LineOf(addressbuf)
    BY <1>8, PhaseIs DEF Seen
  <2>6. /\ Phase("i_cache")' = (IF macro' = "DONE" THEN "done" ELSE "busy")
        /\ LineAddrBuf("i_cache")' = LineOf(addressbuf)
        /\ LineBuf("i_cache")' = ToLine(linebuf')
    BY <2>1, <2>2, PhaseIsNext DEF Seen, LineOf
  <2>7. Lines' = Lines
    BY <1>5, <2>1, InstMemoryStays
  <2>8. Lines[LineOf(addressbuf)] = ToLine(mem[LineOf(addressbuf)])
    <3>1. LineOf(addressbuf) \in LineAddr /\ LineOf(addressbuf)[1] \in InstTag
      BY <1>1, <1>6, <1>8 DEF LineOf, LineAddr, D!Address, Fetch
    <3> QED BY <3>1, Zenon
  <2> HIDE DEF Lines
  <2>9. PICK S \in SUBSET D!Cell :
          ToLine(linebuf') = Moved(Lines[LineOf(addressbuf)], ToLine(linebuf), S)
    BY <2>1, <2>8
  <2>10. /\ S \in SUBSET IP!Cell
         /\ LineBuf("i_cache")' = IP!Moved(Lines[LineAddrBuf("i_cache")], LineBuf("i_cache"), S)
    BY <2>5, <2>6, <2>9 DEF IP!Moved, Moved, IP!Cell, D!Cell
  <2>11. Phase("i_cache")' \in (IF LineBuf("i_cache")' = Lines[LineAddrBuf("i_cache")]
                                THEN {"busy", "done"} ELSE {"busy"})
    BY <2>1, <2>5, <2>6, <2>8
  <2>12. LineAddrBuf("i_cache")' = LineAddrBuf("i_cache")
    BY <2>5, <2>6
  <2>13. IP!ReadBeats(S)
    BY <2>5, <2>7, <2>10, <2>11, <2>12 DEF IP!ReadBeats, Lines
  <2> QED BY <2>1, <2>3, <2>4, <2>10, <2>13 DEF IP!LowerStep
<1>9. CASE macro = "DONE"
  <2>1. PathOK' /\ mem' = mem /\ macro' = "IDLE"
    BY <1>1, <1>3, <1>9, PathDone
  <2>2. a_state' = "decode"
    BY <1>4, <1>9
  <2>3. ClientOK'
    BY <2>1, <2>2 DEF ClientOK
  <2>4. DP!LowerStep
    BY <2>1, <2>2, DataWaits
  <2>5. Phase("i_cache") = "done"
    BY <1>9, PhaseIs DEF Seen
  <2>6. /\ Phase("i_cache")' = "decode" /\ LineAddrBuf("i_cache")' = << >>
        /\ LineBuf("i_cache")' = D!ZeroLine
    BY <2>2, PhaseIsNext DEF Seen
  <2>7. Lines' = Lines
    BY <1>5, <2>1, InstMemoryStays
  <2>8. IP!Done
    BY <2>5, <2>6, <2>7 DEF IP!Done, IP!NoLine, IP!ZeroLine, D!ZeroLine, IP!Cell, D!Cell
  <2> QED BY <2>1, <2>3, <2>4, <2>8 DEF IP!LowerStep
<1> QED BY <1>1, <1>7, <1>8, <1>9

(* The data cache has the path, for a fill or for a write-back.            *)
LEMMA DataClient ==
  ASSUME SysInv, a_state = "d_cache"
  PROVE  /\ PathOK /\ addressbuf \in D!Address /\ LineOf(addressbuf) \in LineAddr
         /\ D!pmem_read \/ (D!pmem_write /\ ~D!pmem_read)
         /\ D!pmem_read => ~D!pmem_write /\ ~D!dirty_out
         /\ macro \in {"WAITR", "R"} => D!pmem_read /\ ~D!pmem_write
         /\ macro \in {"WAITW", "W"} => D!pmem_write /\ ~D!pmem_read
         /\ macro # "IDLE" => addressbuf = D!pmem_address
<1>1. PathOK /\ addressbuf \in D!Address /\ LineOf(addressbuf) \in LineAddr
  BY PathFacts DEF SysInv, PathOK
<1>2. Phase("d_cache") # "decode"
  BY PhaseIs DEF Seen
<1>3. DP!Pending /\ (DP!pmem_read => ~DP!dirty_out)
  BY <1>2 DEF SysInv, DP!IndInv, DP!PathInv
<1>4. (D!pmem_read \/ D!pmem_write) /\ (D!pmem_read => ~D!dirty_out)
  BY <1>3, SameData DEF DP!Pending
<1>5. ~D!pmem_read \/ ~D!pmem_write
  BY DEF D!pmem_read, D!pmem_write
<1> QED BY <1>1, <1>4, <1>5 DEF SysInv, ClientOK

(* Its request stays until the answer.                                     *)
LEMMA DataClientHolds ==
  ASSUME SysInv, Tick, a_state = "d_cache", macro # "DONE"
  PROVE  /\ D!pmem_read' = D!pmem_read /\ D!pmem_write' = D!pmem_write
         /\ D!pmem_address' = D!pmem_address /\ a_state' = "d_cache"
<1>1. (D!pmem_read \/ D!pmem_write) /\ (D!pmem_read => ~D!dirty_out)
  BY DataClient
<1>2. UNCHANGED req
  BY <1>1, Stalled
<1>3. A!data_resp = FALSE
  BY DEF A!data_resp, L!resp_o
<1>4. D!Clock(FALSE, A!data_out)
  BY <1>3 DEF Tick
<1>5. DP!IndInv
  BY DEF SysInv
<1>6. /\ D!pmem_read' = D!pmem_read /\ D!pmem_write' = D!pmem_write
      /\ ~D!pmem_read \/ ~D!dirty_out => D!pmem_address' = D!pmem_address
  BY <1>1, <1>2, <1>4, <1>5, DataHolds
<1> QED BY <1>1, <1>6, ArbiterEdge

(* The first cycle: the adaptor takes the request.                         *)
LEMMA DataLatches ==
  ASSUME SysInv, Tick, a_state = "d_cache", macro = "IDLE"
  PROVE  PathOK' /\ ClientOK' /\ DP!LowerStep /\ IP!LowerStep
<1>1. /\ PathOK
      /\ D!pmem_read \/ (D!pmem_write /\ ~D!pmem_read)
      /\ D!pmem_read => ~D!pmem_write
  BY DataClient
<1>2. /\ A!cache_read = D!pmem_read /\ A!cache_write = (~D!pmem_read /\ D!pmem_write)
      /\ A!cache_read \in BOOLEAN /\ A!cache_write \in BOOLEAN
      /\ A!cache_addr = D!pmem_address /\ (A!cache_write => A!cache_wdata = D!pmem_wdata)
      /\ A!cache_addr \in D!Address /\ ToBeats(A!cache_wdata) \in [Beats -> Burst]
      /\ D!pmem_wdata \in D!Line
  BY Wiring
<1>3. PathEdge(A!cache_read, A!cache_write, A!cache_addr, ToBeats(A!cache_wdata))
  BY TickPath
<1>4. _imem' = _imem
  BY DEF Tick, ShadowStep
<1>5. /\ D!pmem_read' = D!pmem_read /\ D!pmem_write' = D!pmem_write
      /\ D!pmem_address' = D!pmem_address /\ a_state' = "d_cache"
  BY DataClientHolds
<1>6. /\ PathOK' /\ mem' = mem /\ addressbuf' = D!pmem_address
      /\ D!pmem_read => macro' = "WAITR" /\ linebuf' = linebuf
      /\ ~D!pmem_read => macro' = "WAITW" /\ linebuf' = ToBeats(D!pmem_wdata)
  <2>1. /\ PathOK' /\ mem' = mem
        /\ A!cache_read => /\ macro' = "WAITR" /\ addressbuf' = A!cache_addr
                           /\ linebuf' = linebuf
        /\ ~A!cache_read /\ A!cache_write =>
             /\ macro' = "WAITW" /\ addressbuf' = A!cache_addr
             /\ linebuf' = ToBeats(A!cache_wdata)
    BY <1>1, <1>2, <1>3, PathIdle
  <2>2. CASE D!pmem_read
    BY <1>2, <2>1, <2>2
  <2>3. CASE ~D!pmem_read
    <3>1. D!pmem_write /\ A!cache_write /\ ~A!cache_read
      BY <1>1, <1>2, <2>3
    <3>2. A!cache_wdata = D!pmem_wdata /\ A!cache_addr = D!pmem_address
      BY <1>2, <3>1
    <3> QED BY <2>1, <2>3, <3>1, <3>2
  <2> QED BY <2>2, <2>3
<1>7. ClientOK'
  BY <1>1, <1>5, <1>6 DEF ClientOK
<1>8. IP!LowerStep
  BY <1>4, <1>5, <1>6, InstWaits
<1>9. /\ Phase("d_cache") = "grant" /\ Latched("d_cache") = FALSE
      /\ LineBuf("d_cache") = ToLine(linebuf)
  BY PhaseIs DEF Seen
<1>10. /\ Phase("d_cache")' = "busy" /\ Latched("d_cache")' = TRUE
       /\ LineAddrBuf("d_cache")' = LineOf(D!pmem_address)
       /\ LineBuf("d_cache")' = ToLine(linebuf')
  <2>1. macro' \notin {"IDLE", "DONE"}
    BY <1>6
  <2> QED BY <1>5, <1>6, <2>1, PhaseIsNext DEF Seen, LineOf
<1>11. LineBuf("d_cache")' = IF D!pmem_read THEN LineBuf("d_cache") ELSE D!pmem_wdata
  BY <1>2, <1>6, <1>9, <1>10, RoundTrip
<1>12. (Latched("d_cache") /\ D!pmem_write)' = ~D!pmem_read
  BY <1>1, <1>5, <1>10
<1>13. [k \in LineAddr |-> ToLine(mem[k])]' = [k \in LineAddr |-> ToLine(mem[k])]
  BY <1>6, DataMemoryStays
<1>14. DP!Latch
  BY <1>9, <1>10, <1>11, <1>12, <1>13, SameData DEF DP!Latch, DP!LineOf, LineOf
<1> QED BY <1>6, <1>7, <1>8, <1>14 DEF DP!LowerStep

(* The beats of a fill.                                                    *)
LEMMA DataFills ==
  ASSUME SysInv, Tick, a_state = "d_cache", macro \in {"WAITR", "R"}
  PROVE  PathOK' /\ ClientOK' /\ DP!LowerStep /\ IP!LowerStep
<1> DEFINE Lines == [k \in LineAddr |-> ToLine(mem[k])]
<1>1. /\ PathOK /\ D!pmem_read /\ ~D!pmem_write /\ addressbuf = D!pmem_address
      /\ LineOf(addressbuf) \in LineAddr
  BY DataClient
<1>2. PathEdge(A!cache_read, A!cache_write, A!cache_addr, ToBeats(A!cache_wdata))
  BY TickPath
<1>3. _imem' = _imem
  BY DEF Tick, ShadowStep
<1>4. /\ D!pmem_read' = D!pmem_read /\ D!pmem_write' = D!pmem_write
      /\ D!pmem_address' = D!pmem_address /\ a_state' = "d_cache"
  BY DataClientHolds
<1>5. /\ PathOK' /\ mem' = mem /\ addressbuf' = addressbuf /\ macro' \in {"WAITR", "R", "DONE"}
      /\ \E S \in SUBSET D!Cell :
           ToLine(linebuf') = Moved(ToLine(mem[LineOf(addressbuf)]), ToLine(linebuf), S)
      /\ macro' = "DONE" => ToLine(linebuf') = ToLine(mem[LineOf(addressbuf)])
  BY <1>1, <1>2, PathReading
<1>6. ClientOK'
  BY <1>1, <1>4, <1>5 DEF ClientOK
<1>7. IP!LowerStep
  BY <1>3, <1>4, <1>5, InstWaits
<1>8. /\ Phase("d_cache") = "busy" /\ LineBuf("d_cache") = ToLine(linebuf)
      /\ LineAddrBuf("d_cache") = LineOf(addressbuf)
  BY PhaseIs DEF Seen
<1>9. /\ Phase("d_cache")' = (IF macro' = "DONE" THEN "done" ELSE "busy")
      /\ LineAddrBuf("d_cache")' = LineOf(addressbuf)
      /\ LineBuf("d_cache")' = ToLine(linebuf')
  BY <1>4, <1>5, PhaseIsNext DEF Seen, LineOf
<1>10. Lines' = Lines
  BY <1>5, DataMemoryStays
<1>11. Lines[LineOf(addressbuf)] = ToLine(mem[LineOf(addressbuf)])
  BY <1>1, Zenon
<1> HIDE DEF Lines
<1>12. PICK S \in SUBSET D!Cell :
        ToLine(linebuf') = Moved(Lines[LineOf(addressbuf)], ToLine(linebuf), S)
  BY <1>5, <1>11
<1>13. /\ S \in SUBSET DP!Cell
       /\ LineBuf("d_cache")' = DP!Moved(Lines[LineAddrBuf("d_cache")], LineBuf("d_cache"), S)
  BY <1>8, <1>9, <1>12 DEF DP!Moved, Moved, DP!Cell, D!Cell
<1>14. Phase("d_cache")' \in (IF LineBuf("d_cache")' = Lines[LineAddrBuf("d_cache")]
                              THEN {"busy", "done"} ELSE {"busy"})
  BY <1>5, <1>8, <1>9, <1>11
<1>15. LineAddrBuf("d_cache")' = LineAddrBuf("d_cache")
  BY <1>8, <1>9
<1>16. /\ (Latched("d_cache") /\ D!pmem_write) = FALSE
       /\ (Latched("d_cache") /\ D!pmem_write)' = FALSE
  BY <1>1, <1>4
<1>17. DP!ReadBeats(S)
  BY <1>8, <1>10, <1>13, <1>14, <1>15, <1>16 DEF DP!ReadBeats, Lines
<1> QED BY <1>5, <1>6, <1>7, <1>13, <1>17 DEF DP!LowerStep

(* The beats of a write-back: no line of the program is written.           *)
LEMMA DataWrites ==
  ASSUME SysInv, Tick, a_state = "d_cache", macro \in {"WAITW", "W"}
  PROVE  PathOK' /\ ClientOK' /\ DP!LowerStep /\ IP!LowerStep
<1> DEFINE Lines == [k \in LineAddr |-> ToLine(mem[k])]
           at == LineOf(addressbuf)
<1>1. /\ PathOK /\ ~D!pmem_read /\ D!pmem_write /\ addressbuf = D!pmem_address
      /\ at \in LineAddr
  BY DataClient
<1>2. PathEdge(A!cache_read, A!cache_write, A!cache_addr, ToBeats(A!cache_wdata))
  BY TickPath
<1>3. _imem' = _imem
  BY DEF Tick, ShadowStep
<1>4. /\ D!pmem_read' = D!pmem_read /\ D!pmem_write' = D!pmem_write
      /\ D!pmem_address' = D!pmem_address /\ a_state' = "d_cache"
  BY DataClientHolds
<1>5. /\ PathOK' /\ linebuf' = linebuf /\ addressbuf' = addressbuf
      /\ macro' \in {"WAITW", "W", "DONE"}
      /\ \A k \in LineAddr : k # at => mem'[k] = mem[k]
      /\ \E S \in SUBSET D!Cell : ToLine(mem'[at]) = Moved(ToLine(linebuf), ToLine(mem[at]), S)
      /\ macro' = "DONE" => ToLine(mem'[at]) = ToLine(linebuf)
  BY <1>1, <1>2, PathWriting
<1>6. ClientOK'
  BY <1>1, <1>4, <1>5 DEF ClientOK
<1>7. IP!LowerStep
  <2>1. D!dirty_out /\ D!lru_idx \in D!Way /\ D!index \in Index
    BY <1>1, Selections DEF D!pmem_write
  <2>2. d_tag_array[D!lru_idx][D!index] \in StoreTag
    BY <2>1 DEF SysInv, DirtyStored, D!dirty_out
  <2>3. D!pmem_address.tag = d_tag_array[D!lru_idx][D!index]
    BY <2>1 DEF D!pmem_address
  <2>4. at[1] \in StoreTag
    BY <1>1, <2>2, <2>3 DEF LineOf
  <2>5. \A k \in LineAddr : k[1] \in InstTag => mem'[k] = mem[k]
    BY <1>5, <2>4, NoSelfModification
  <2> QED BY <1>3, <1>4, <2>5, InstWaits
<1>8. /\ Phase("d_cache") = "busy" /\ LineBuf("d_cache") = ToLine(linebuf)
      /\ LineAddrBuf("d_cache") = at /\ Latched("d_cache") = TRUE
  BY PhaseIs DEF Seen
<1>9. /\ Phase("d_cache")' = (IF macro' = "DONE" THEN "done" ELSE "busy")
      /\ LineAddrBuf("d_cache")' = at /\ LineBuf("d_cache")' = ToLine(linebuf)
      /\ Latched("d_cache")' = TRUE
  BY <1>4, <1>5, PhaseIsNext DEF Seen, LineOf
<1> HIDE DEF at
<1>10. PICK S \in SUBSET D!Cell : ToLine(mem'[at]) = Moved(ToLine(linebuf), ToLine(mem[at]), S)
  BY <1>5
<1>11. Lines[at] = ToLine(mem[at]) /\ Lines'[at] = ToLine(mem'[at])
  <2>1. Lines' = [k \in LineAddr |-> ToLine(mem'[k])]
    BY DEF ToLine
  <2>2. Lines'[at] = ToLine(mem'[at])
    BY <1>1, <2>1, Zenon
  <2> QED BY <1>1, <2>2, Zenon
<1>12. Lines' = [Lines EXCEPT ![at] = DP!Moved(ToLine(linebuf), @, S)]
  <2>1. Lines' = [k \in LineAddr |-> ToLine(mem'[k])]
    BY DEF ToLine
  <2>2. DP!Moved(ToLine(linebuf), Lines[at], S) = ToLine(mem'[at])
    BY <1>10, <1>11 DEF DP!Moved, Moved, DP!Cell, D!Cell
  <2>3. PICK x : x = ToLine(mem'[at])
    OBVIOUS
  <2>4. ASSUME NEW k \in LineAddr
        PROVE  ToLine(mem'[k]) = IF k = at THEN x ELSE Lines[k]
    <3>1. k # at => mem'[k] = mem[k]
      BY <1>5
    <3>2. Lines[k] = ToLine(mem[k])
      BY Zenon
    <3> QED BY <2>3, <3>1, <3>2
  <2>5. DOMAIN Lines = LineAddr
    OBVIOUS
  <2>6. Lines' = [k \in LineAddr |-> IF k = at THEN x ELSE Lines[k]]
    BY <2>1, <2>4, Zenon
  <2> HIDE DEF Lines
  <2>7. [Lines EXCEPT ![at] = x] = [k \in DOMAIN Lines |-> IF k = at THEN x ELSE Lines[k]]
    OBVIOUS
  <2>8. Lines' = [Lines EXCEPT ![at] = x]
    BY <2>5, <2>6, <2>7, Zenon
  <2> QED BY <2>2, <2>3, <2>8
<1> HIDE DEF Lines
<1>13. Phase("d_cache")' \in (IF Lines'[at] = ToLine(linebuf) THEN {"busy", "done"} ELSE {"busy"})
  BY <1>5, <1>9, <1>11
<1>14. /\ (Latched("d_cache") /\ D!pmem_write) = TRUE
       /\ (Latched("d_cache") /\ D!pmem_write)' = TRUE
  BY <1>1, <1>4, <1>8, <1>9
<1>15. S \in SUBSET DP!Cell
  BY DEF DP!Cell, D!Cell
<1>16. /\ LineBuf("d_cache")' = LineBuf("d_cache") /\ LineAddrBuf("d_cache")' = LineAddrBuf("d_cache")
       /\ Lines' = [Lines EXCEPT ![LineAddrBuf("d_cache")] = DP!Moved(LineBuf("d_cache"), @, S)]
       /\ Phase("d_cache")' \in (IF Lines'[LineAddrBuf("d_cache")] = LineBuf("d_cache")
                                  THEN {"busy", "done"} ELSE {"busy"})
  BY <1>8, <1>9, <1>12, <1>13
<1>17. DP!WriteBeats(S)
  BY <1>8, <1>14, <1>16, Zenon DEF DP!WriteBeats, Lines
<1> QED BY <1>5, <1>6, <1>7, <1>15, <1>17 DEF DP!LowerStep

(* The answer.                                                             *)
LEMMA DataAnswered ==
  ASSUME SysInv, Tick, a_state = "d_cache", macro = "DONE"
  PROVE  PathOK' /\ ClientOK' /\ DP!LowerStep /\ IP!LowerStep
<1>1. PathOK
  BY DataClient
<1>2. PathEdge(A!cache_read, A!cache_write, A!cache_addr, ToBeats(A!cache_wdata))
  BY TickPath
<1>3. _imem' = _imem
  BY DEF Tick, ShadowStep
<1>4. PathOK' /\ mem' = mem /\ macro' = "IDLE"
  BY <1>1, <1>2, PathDone
<1>5. a_state' = "decode"
  BY ArbiterEdge
<1>6. ClientOK'
  BY <1>4, <1>5 DEF ClientOK
<1>7. IP!LowerStep
  BY <1>3, <1>4, <1>5, InstWaits
<1>8. Phase("d_cache") = "done"
  BY PhaseIs DEF Seen
<1>9. /\ Phase("d_cache")' = "decode" /\ LineAddrBuf("d_cache")' = << >>
      /\ LineBuf("d_cache")' = D!ZeroLine /\ Latched("d_cache")' = FALSE
  BY <1>5, PhaseIsNext DEF Seen
<1>10. [k \in LineAddr |-> ToLine(mem[k])]' = [k \in LineAddr |-> ToLine(mem[k])]
  BY <1>4, DataMemoryStays
<1>11. (Latched("d_cache") /\ D!pmem_write)' = FALSE
  BY <1>9
<1>12. DP!Done
  BY <1>8, <1>9, <1>10, <1>11 DEF DP!Done, DP!NoLine, DP!ZeroLine, D!ZeroLine, DP!Cell, D!Cell
<1> QED BY <1>4, <1>6, <1>7, <1>12 DEF DP!LowerStep

(* One cycle of arbiter, adaptor and memory is one step of the path, as    *)
(* each of the two caches sees it.                                         *)
LEMMA PathStep ==
  ASSUME SysInv, Tick
  PROVE  PathOK' /\ ClientOK' /\ DP!LowerStep /\ IP!LowerStep
<1>1. a_state \in {"decode", "i_cache", "d_cache"}
  BY DEF SysInv, PortsOK, A!ArbiterTypeOK
<1>2. macro \in {"IDLE", "WAITR", "WAITW", "R", "W", "DONE"}
  BY PathFacts DEF SysInv, PathOK
<1> QED BY <1>1, <1>2, DecodeCycle, InstCycle, DataLatches, DataFills, DataWrites, DataAnswered

-----------------------------------------------------------------------------
(* Every cycle of the whole is a step of L1Cache for each of the caches.   *)

(* The arbiter serves the instruction cache only while it reads.           *)
LEMMA InstClient ==
  ASSUME SysInv, a_state = "i_cache"
  PROVE  I!pmem_read /\ IP!pmem_read
<1>1. I!pmem_write = FALSE
  BY InstPorts
<1>2. Phase("i_cache") # "decode"
  BY PhaseIs DEF Seen
<1>3. IP!Pending
  BY <1>2 DEF SysInv, IP!IndInv, IP!PathInv
<1> QED BY <1>1, <1>3, SameInst DEF IP!Pending

(* What the arbiter gives a cache is what L1Cache lets it see.             *)
LEMMA DataEdge ==
  ASSUME SysInv, Tick
  PROVE  DP!Clock(DP!pmem_resp, DP!pmem_rdata)
<1>1. A!data_resp = DP!pmem_resp
  BY PhaseIs DEF Seen, A!data_resp, L!resp_o, DP!pmem_resp
<1>2. A!data_out = DP!pmem_rdata
  <2>1. (Phase("d_cache") # "decode") <=> (a_state = "d_cache")
    BY PhaseIs DEF Seen
  <2>2. a_state = "d_cache" => LineBuf("d_cache") = ToLine(linebuf)
    BY PhaseIs DEF Seen
  <2>3. DP!ZeroLine = D!ZeroLine
    BY DEF DP!ZeroLine, D!ZeroLine, DP!Cell, D!Cell
  <2> QED BY <2>1, <2>2, <2>3, SameData DEF A!data_out, L!line_o, DP!pmem_rdata
<1>3. D!Clock(A!data_resp, A!data_out)
  BY DEF Tick
<1>4. DP!Clock(A!data_resp, A!data_out)
  BY <1>3, SameDataClock
<1> QED BY <1>1, <1>2, <1>4

(* The same for the instruction cache.                                     *)
LEMMA InstEdge ==
  ASSUME SysInv, Tick
  PROVE  IP!Clock(IP!pmem_resp, IP!pmem_rdata)
<1>1. A!i_resp = IP!pmem_resp
  BY PhaseIs DEF Seen, A!i_resp, L!resp_o, IP!pmem_resp
<1>2. A!i_data = IP!pmem_rdata
  <2>1. (Phase("i_cache") # "decode") <=> (a_state = "i_cache")
    BY PhaseIs DEF Seen
  <2>2. a_state = "i_cache" => LineBuf("i_cache") = ToLine(linebuf)
    BY PhaseIs DEF Seen
  <2>3. IP!ZeroLine = D!ZeroLine
    BY DEF IP!ZeroLine, D!ZeroLine, IP!Cell, D!Cell
  <2>4. a_state = "i_cache" => IP!pmem_read
    BY InstClient
  <2> QED BY <2>1, <2>2, <2>3, <2>4 DEF A!i_data, L!line_o, IP!pmem_rdata
<1>3. I!Clock(A!i_resp, A!i_data)
  BY DEF Tick
<1>4. IP!Clock(A!i_resp, A!i_data)
  BY <1>3, SameInstClock
<1> QED BY <1>1, <1>2, <1>4

(* The ports ask for what L1Cache lets a CPU ask for.                      *)
LEMMA PortTypes ==
  /\ DataRequest \subseteq DP!Request
  /\ \A a \in Fetch : [op |-> "load", addr |-> a, be |-> {}, wdata |-> ZeroWord] \in IP!Request
<1>1. \A a \in Fetch : a \in IP!Address
  BY NoSelfModification DEF Fetch, IP!Address
<1>2. ZeroWord = IP!ZeroWord /\ ZeroWord = DP!ZeroWord
  BY DEF ZeroWord, IP!ZeroWord, DP!ZeroWord
<1>3. ASSUME NEW a \in Fetch
      PROVE  [op |-> "load", addr |-> a, be |-> {}, wdata |-> ZeroWord] \in IP!Request
  BY <1>1, <1>2 DEF IP!Request
<1>4. ASSUME NEW r \in DataRequest
      PROVE  r \in DP!Request
  <2>1. CASE r \in [op : {"none", "load"}, addr : D!Address, be : {{}}, wdata : {ZeroWord}]
    BY <1>2, <2>1 DEF DP!Request, DP!Address, D!Address
  <2>2. CASE r \in [op : {"store"}, addr : {a \in D!Address : a.tag \in StoreTag},
                    be : SUBSET Lane \ {{}}, wdata : D!WordVal]
    BY <2>2 DEF DP!Request, DP!Address, D!Address, DP!WordVal, D!WordVal
  <2> QED BY <2>1, <2>2 DEF DataRequest
<1> QED BY <1>3, <1>4

(* A cycle of the whole is a step of L1Cache for the data cache.           *)
LEMMA DataStep ==
  ASSUME SysInv, Tick
  PROVE  DP!Next
<1>1. DP!Clock(DP!pmem_resp, DP!pmem_rdata) /\ DP!LowerStep
  BY DataEdge, PathStep
<1>2. DP!CpuStep
  <2>1. CASE Stall
    BY <2>1 DEF Stall, DP!CpuStep, DP!Hold
  <2>2. CASE Advance
    <3>1. req.op = "none" \/ DP!mem_resp
      BY <2>2, SameData DEF Advance, all_stall, stall_datamem, data_resp
    <3>2. req' \in DP!Request
      BY <2>2, PortTypes DEF Advance
    <3> QED BY <3>1, <3>2 DEF DP!CpuStep, DP!Advance
  <2> QED BY <2>1, <2>2 DEF Tick
<1>3. DP!ShadowStep
  <2>1. ShadowStep
    BY DEF Tick
  <2>2. DP!storing <=> (data_resp /\ req.op = "store")
    BY SameData DEF D!storing, data_resp
  <2>3. \A line : DP!Stored(line) = Stored(line)
    BY DEF DP!Stored, Stored, DP!Cell, D!Cell
  <2>4. DP!LineOf(req.addr) = LineOf(req.addr)
    BY DEF DP!LineOf, LineOf
  <2> QED BY <2>1, <2>2, <2>3, <2>4, Zenon DEF ShadowStep, DP!ShadowStep
<1>4. DP!NewerStep
  <2>1. NewerStep
    BY DEF Tick
  <2>2. \A i, R : DP!UseOf(i, R) = UseOf(i, R)
    BY DEF DP!UseOf, UseOf, DP!Way, D!Way
  <2>3. DP!index = req.addr.index
    BY DEF DP!index
  <2> QED BY <2>1, <2>2, <2>3, SameData, Zenon DEF NewerStep, DP!NewerStep, data_resp
<1> QED BY <1>1, <1>2, <1>3, <1>4 DEF DP!Next

(* And, at once, one for the instruction cache.                            *)
LEMMA InstStep ==
  ASSUME SysInv, Tick
  PROVE  IP!Next
<1>1. IP!Clock(IP!pmem_resp, IP!pmem_rdata) /\ IP!LowerStep
  BY InstEdge, PathStep
<1>2. IP!CpuStep
  <2>1. CASE Stall
    BY <2>1 DEF Stall, IP!CpuStep, IP!Hold
  <2>2. CASE Advance
    <3>1. IP!mem_resp
      BY <2>2, SameInst DEF Advance, all_stall, stall_pc, i_resp
    <3>2. [op |-> "load", addr |-> i_addr', be |-> {}, wdata |-> ZeroWord] \in IP!Request
      BY <2>2, PortTypes DEF Advance
    <3>3. [op |-> "load", addr |-> i_addr, be |-> {}, wdata |-> ZeroWord]' \in IP!Request
      BY <3>2 DEF ZeroWord
    <3> QED BY <3>1, <3>3 DEF IP!CpuStep, IP!Advance
  <2> QED BY <2>1, <2>2 DEF Tick
<1>3. IP!ShadowStep
  <2>1. _imem' = _imem
    BY DEF Tick, ShadowStep
  <2> QED BY <2>1, SameInst DEF IP!ShadowStep
<1>4. IP!NewerStep
  <2>1. NewerStep
    BY DEF Tick
  <2>2. \A i, R : IP!UseOf(i, R) = UseOf(i, R)
    BY DEF IP!UseOf, UseOf, IP!Way, D!Way
  <2>3. IP!index = i_addr.index
    BY DEF IP!index
  <2> QED BY <2>1, <2>2, <2>3, SameInst, Zenon DEF NewerStep, IP!NewerStep, i_resp
<1> QED BY <1>1, <1>2, <1>3, <1>4 DEF IP!Next

-----------------------------------------------------------------------------
(* The other parts of the invariant.                                       *)

(* The CPU only makes requests of its ports' types.                        *)
LEMMA PortsKept ==
  ASSUME SysInv, Tick
  PROVE  PortsOK'
<1>1. a_state' \in {"decode", "i_cache", "d_cache"}
  BY ArbiterEdge DEF SysInv, PortsOK, A!ArbiterTypeOK
<1>2. i_addr' \in Fetch /\ req' \in DataRequest
  <2>1. i_addr \in Fetch /\ req \in DataRequest
    BY DEF SysInv, PortsOK
  <2>2. Stall \/ Advance
    BY DEF Tick
  <2> QED BY <2>1, <2>2 DEF Stall, Advance
<1> QED BY <1>1, <1>2 DEF PortsOK, A!ArbiterTypeOK

(* No hit of the instruction cache stores.                                 *)
LEMMA InstCleanKept ==
  ASSUME SysInv, Tick
  PROVE  InstClean'
<1>1. I!lru_idx \in I!Way /\ I!index \in Index /\ I!CacheTypeOK
  BY Selections
<1>2. i_dirty_array \in [I!Way -> [Index -> BOOLEAN]]
  BY <1>1 DEF I!CacheTypeOK
<1>3. \/ i_dirty_array' = i_dirty_array
      \/ i_dirty_array' = [i_dirty_array EXCEPT ![I!lru_idx][I!index] = @ \/ FALSE]
      \/ i_dirty_array' = [i_dirty_array EXCEPT ![I!lru_idx][I!index] = FALSE]
  <2>1. I!Clock(A!i_resp, A!i_data)
    BY DEF Tick
  <2> QED BY <2>1, Zenon DEF I!Clock, I!Idle, I!cacheRegs, I!Hit, I!WriteBack, I!CleanMiss, I!Fill
<1>4. \A i \in I!Way : \A s \in Index : ~i_dirty_array[i][s]
  BY DEF SysInv, InstClean
<1>5. \A i \in I!Way : \A s \in Index : ~i_dirty_array'[i][s]
  BY <1>1, <1>2, <1>3, <1>4
<1> QED BY <1>5 DEF InstClean, I!Way

(* Only a store makes a line dirty, and it hits the line it stores to.     *)
LEMMA DirtyStoredKept ==
  ASSUME SysInv, Tick
  PROVE  DirtyStored'
<1>1. D!lru_idx \in D!Way /\ D!index \in Index /\ D!CacheTypeOK
  BY Selections
<1>2. /\ d_dirty_array \in [D!Way -> [Index -> BOOLEAN]]
      /\ d_tag_array \in [D!Way -> [Index -> Tag]]
  BY <1>1 DEF D!CacheTypeOK
<1>3. \A i \in D!Way : \A s \in Index : d_dirty_array[i][s] => d_tag_array[i][s] \in StoreTag
  BY DEF SysInv, DirtyStored
<1>4. D!Clock(A!data_resp, A!data_out)
  BY DEF Tick
<1>5. CASE D!Hit
  <2>1. /\ d_dirty_array' = [d_dirty_array EXCEPT ![D!lru_idx][D!index] = @ \/ req.op = "store"]
        /\ d_tag_array' = d_tag_array /\ D!hit
    BY <1>5, Zenon DEF D!Hit, D!mem_resp
  <2>2. req.op = "store" => d_tag_array[D!lru_idx][D!index] \in StoreTag
    <3>1. req \in DataRequest
      BY DEF SysInv, PortsOK
    <3>2. req.op = "store" => req.addr.tag \in StoreTag
      BY <3>1 DEF DataRequest
    <3> QED BY <2>1, <3>2 DEF D!hit, D!address_tag
  <2>3. \A i \in D!Way : \A s \in Index : d_dirty_array'[i][s] => d_tag_array'[i][s] \in StoreTag
    BY <1>1, <1>2, <1>3, <2>1, <2>2
  <2> QED BY <2>3 DEF DirtyStored, D!Way
<1>6. CASE D!Fill(A!data_resp, A!data_out)
  <2>1. PICK t : /\ d_dirty_array' = [d_dirty_array EXCEPT ![D!lru_idx][D!index] = FALSE]
                 /\ d_tag_array' = [d_tag_array EXCEPT ![D!lru_idx][D!index] = t]
    BY <1>6, Zenon DEF D!Fill
  <2>2. \A i \in D!Way : \A s \in Index : d_dirty_array'[i][s] => d_tag_array'[i][s] \in StoreTag
    BY <1>1, <1>2, <1>3, <2>1
  <2> QED BY <2>2 DEF DirtyStored, D!Way
<1>7. CASE D!Idle \/ D!WriteBack(A!data_resp) \/ D!CleanMiss
  <2>1. d_dirty_array' = d_dirty_array /\ d_tag_array' = d_tag_array
    BY <1>7 DEF D!Idle, D!cacheRegs, D!WriteBack, D!CleanMiss
  <2> QED BY <1>3, <2>1 DEF DirtyStored, D!Way
<1> QED BY <1>4, <1>5, <1>6, <1>7 DEF D!Clock

(* What a cache may still need.                                            *)
LEMMA TransfersBounded ==
  /\ DP!TransfersLeft \in 0 .. 2 /\ IP!TransfersLeft \in 0 .. 2
  /\ IP!dirty_out = FALSE => IP!TransfersLeft \in 0 .. 1
BY DEF DP!TransfersLeft, IP!TransfersLeft

(* The same in the next state.                                             *)
LEMMA TransfersBoundedNext ==
  (/\ DP!TransfersLeft \in 0 .. 2 /\ IP!TransfersLeft \in 0 .. 2
   /\ IP!dirty_out = FALSE => IP!TransfersLeft \in 0 .. 1)'
BY TransfersBounded, PTL

(* An answer pays for one transfer of the cache that it goes to.           *)
LEMMA BudgetKept ==
  ASSUME SysInv, Tick, IP!dirty_out' = FALSE
  PROVE  Budget'
<1>1. transfers \in Nat /\ transfers + (DP!TransfersLeft + IP!TransfersLeft) <= 3
  BY DEF SysInv, Budget
<1>2. transfers' = IF all_stall THEN 0 ELSE IF macro = "DONE" THEN transfers + 1 ELSE transfers
  BY DEF Tick, CountStep, L!resp_o
<1>3. DP!TransfersLeft \in 0 .. 2 /\ IP!TransfersLeft \in 0 .. 2
  BY TransfersBounded
<1>4. DP!TransfersLeft' \in 0 .. 2 /\ IP!TransfersLeft' \in 0 .. 1
  BY TransfersBoundedNext
<1>5. CASE all_stall
  <2>1. transfers' = 0
    BY <1>2, <1>5
  <2>2. PICK x \in 0 .. 2, y \in 0 .. 1 : x = DP!TransfersLeft' /\ y = IP!TransfersLeft'
    BY <1>4
  <2>3. transfers' \in Nat /\ transfers' + (x + y) <= 3
    BY <2>1
  <2> QED BY <2>2, <2>3 DEF Budget
<1>6. CASE ~all_stall
  <2>1. UNCHANGED <<i_addr, req>>
    BY <1>6 DEF Tick, Stall, Advance
  <2>2. DP!Next /\ IP!Next
    BY DataStep, InstStep
  <2>3. DP!TransfersLeft' = IF Phase("d_cache") = "done" THEN DP!TransfersLeft - 1
                            ELSE DP!TransfersLeft
    BY <2>1, <2>2, CacheAssumptions, DP!TransfersCountDown DEF SysInv
  <2>4. IP!TransfersLeft' = IF Phase("i_cache") = "done" THEN IP!TransfersLeft - 1
                            ELSE IP!TransfersLeft
    BY <2>1, <2>2, CacheAssumptions, IP!TransfersCountDown DEF SysInv
  <2>5. /\ (Phase("d_cache") = "done") <=> (a_state = "d_cache" /\ macro = "DONE")
        /\ (Phase("i_cache") = "done") <=> (a_state = "i_cache" /\ macro = "DONE")
    BY PhaseIs DEF Seen
  <2>6. macro = "DONE" => a_state \in {"d_cache", "i_cache"}
    BY DEF SysInv, ClientOK, PortsOK, A!ArbiterTypeOK
  <2> QED BY <1>1, <1>2, <1>3, <1>4, <1>6, <2>3, <2>4, <2>5, <2>6 DEF Budget
<1> QED BY <1>5, <1>6

(* Every cycle keeps the invariant.                                        *)
LEMMA TickSysInv ==
  ASSUME SysInv, Tick
  PROVE  SysInv'
<1>1. PathOK' /\ ClientOK'
  BY PathStep
<1>2. PortsOK' /\ InstClean' /\ DirtyStored'
  BY PortsKept, InstCleanKept, DirtyStoredKept
<1>3. DP!IndInv'
  BY DataStep, CacheAssumptions, DP!NextIndInv DEF SysInv
<1>4. IP!IndInv'
  BY InstStep, CacheAssumptions, IP!NextIndInv DEF SysInv
<1>5. IP!dirty_out' = FALSE
  <2>1. IP!lru_idx' \in IP!Way
    BY CacheAssumptions, IP!SelectionNext DEF IP!Way
  <2>2. i_addr' \in Fetch
    BY <1>2 DEF PortsOK
  <2>3. IP!lru_idx' \in IP!Way /\ IP!index' \in Index
    BY <2>1, <2>2 DEF IP!index, Fetch
  <2>4. i_dirty_array' \in [IP!Way -> [Index -> BOOLEAN]]
    BY <1>4 DEF IP!IndInv, IP!TypeOK, IP!CacheTypeOK, IP!Way
  <2>5. \A i \in IP!Way : \A s \in Index : ~i_dirty_array'[i][s]
    BY <1>2 DEF InstClean, I!Way, IP!Way
  <2> QED BY <2>3, <2>4, <2>5 DEF IP!dirty_out
<1>6. Budget'
  BY <1>5, BudgetKept
<1> QED BY <1>1, <1>2, <1>3, <1>4, <1>6 DEF SysInv

-----------------------------------------------------------------------------
(* The reset state.                                                        *)

(* After reset both caches see an initial state of L1Cache.                *)
LEMMA InitViews ==
  ASSUME Init
  PROVE  DP!Init /\ IP!Init /\ PathOK /\ PortsOK /\ ClientOK /\ InstClean /\ DirtyStored
<1>1. PICK image \in Images, a \in Fetch :
        /\ I!CacheInit /\ D!CacheInit /\ A!ArbiterInit
        /\ L!AdaptorInit(ToBeats(D!ZeroLine), a)
        /\ M!MemInit([l \in LineAddr |-> ToBeats(image[l])], a, [o \in Offset |-> 0])
        /\ i_addr = a
        /\ req = [op |-> "none", addr |-> a, be |-> {}, wdata |-> ZeroWord]
        /\ _imem = image /\ _mem = image
        /\ newer = [s \in Index |-> {}] /\ i_newer = [s \in Index |-> {}]
        /\ transfers = 0
  BY Zenon DEF Init
<1>2. image \in [LineAddr -> D!Line]
  BY ImagesAssumption
<1>3. /\ macro = "IDLE" /\ count = 0 /\ linebuf = ToBeats(D!ZeroLine) /\ addressbuf = a
      /\ a_state = "decode"
  BY <1>1 DEF L!AdaptorInit, A!ArbiterInit
<1>4. /\ mem = [l \in LineAddr |-> ToBeats(image[l])] /\ task = "none" /\ addr = a /\ left = 0
      /\ beat = 0 /\ rdata = [o \in Offset |-> 0] /\ resp = FALSE /\ error = FALSE
  BY <1>1 DEF M!MemInit
<1>5. a \in D!Address /\ D!ZeroLine \in D!Line
  BY CacheAssumptions, NoSelfModification DEF Fetch, D!Address, D!ZeroLine, D!Line
<1>6. PathOK
  <2>1. 0 \in Beats /\ linebuf \in [Beats -> Burst]
    BY <1>3, <1>5, LineTypes, SizesAssumption DEF Beats
  <2>2. rdata \in Burst
    BY <1>4, CacheAssumptions DEF Burst
  <2>3. mem \in [LineAddr -> [Beats -> Burst]]
    <3>1. \A l \in LineAddr : ToBeats(image[l]) \in [Beats -> Burst]
      BY <1>2, LineTypes
    <3> QED BY <1>4, <3>1
  <2>4. PathTypeOK
    BY <1>3, <1>4, <1>5, <2>1, <2>2, <2>3 DEF PathTypeOK, L!AdaptorTypeOK, L!Beat, Beats
  <2>5. Handshake /\ Buffered
    BY <1>3, <1>4 DEF Handshake, Buffered
  <2> QED BY <2>4, <2>5 DEF PathOK
<1>7. PortsOK
  <2>1. req \in DataRequest
    BY <1>1, <1>5 DEF DataRequest
  <2> QED BY <1>1, <1>3, <2>1 DEF PortsOK, A!ArbiterTypeOK
<1>8. ClientOK
  BY <1>3 DEF ClientOK
<1>9. InstClean /\ DirtyStored
  BY <1>1 DEF InstClean, DirtyStored, I!CacheInit, D!CacheInit
<1>10. ASSUME NEW l \in LineAddr
       PROVE  ToLine(mem[l]) = image[l]
  <2>1. mem[l] = ToBeats(image[l]) /\ image[l] \in D!Line
    BY <1>2, <1>4
  <2> QED BY <2>1, RoundTrip
<1>11. [l \in LineAddr |-> image[l]] = image
  BY <1>2
<1>12. DP!Init
  <2>1. DP!CacheInit
    BY <1>1, Zenon DEF D!CacheInit, DP!CacheInit, D!Way, DP!Way, D!ZeroLine, DP!ZeroLine, D!Cell, DP!Cell
  <2>2. req \in DP!Request
    BY <1>7, PortTypes DEF PortsOK
  <2>3. /\ Phase("d_cache") = "decode" /\ Latched("d_cache") = FALSE
        /\ LineAddrBuf("d_cache") = << >> /\ LineBuf("d_cache") = D!ZeroLine
    BY <1>3, PhaseIs DEF Seen
  <2>4. [l \in LineAddr |-> ToLine(mem[l])] = image
    BY <1>10, <1>11, Zenon
  <2>5. image \in [DP!LineAddr -> DP!Line]
    BY <1>2 DEF DP!LineAddr, LineAddr, DP!Line, D!Line, DP!Cell, D!Cell
  <2>6. D!ZeroLine = DP!ZeroLine
    BY DEF D!ZeroLine, DP!ZeroLine, D!Cell, DP!Cell
  <2> QED BY <1>1, <2>1, <2>2, <2>3, <2>4, <2>5, <2>6 DEF DP!Init, DP!NoLine
<1>13. IP!Init
  <2>1. IP!CacheInit
    BY <1>1, Zenon DEF I!CacheInit, IP!CacheInit, I!Way, IP!Way, I!ZeroLine, IP!ZeroLine, I!Cell, IP!Cell
  <2>2. [op |-> "load", addr |-> i_addr, be |-> {}, wdata |-> ZeroWord] \in IP!Request
    BY <1>1, PortTypes
  <2>3. /\ Phase("i_cache") = "decode" /\ LineAddrBuf("i_cache") = << >>
        /\ LineBuf("i_cache") = D!ZeroLine
    BY <1>3, PhaseIs DEF Seen
  <2>4. [l \in LineAddr |-> IF l[1] \in InstTag THEN ToLine(mem[l]) ELSE _imem[l]] = image
    <3>1. ASSUME NEW l \in LineAddr
          PROVE  (IF l[1] \in InstTag THEN ToLine(mem[l]) ELSE _imem[l]) = image[l]
      BY <1>1, <1>10
    <3> QED BY <1>11, <3>1, Zenon
  <2>5. image \in [IP!LineAddr -> IP!Line]
    BY <1>2 DEF IP!LineAddr, LineAddr, IP!Line, D!Line, IP!Cell, D!Cell
  <2>6. D!ZeroLine = IP!ZeroLine
    BY DEF D!ZeroLine, IP!ZeroLine, D!Cell, IP!Cell
  <2> QED BY <1>1, <2>1, <2>2, <2>3, <2>4, <2>5, <2>6 DEF IP!Init, IP!NoLine
<1> QED BY <1>6, <1>7, <1>8, <1>9, <1>12, <1>13

(* After reset the invariant holds.                                        *)
LEMMA InitSysInv ==
  ASSUME Init
  PROVE  SysInv
<1>1. DP!Init /\ IP!Init /\ PathOK /\ PortsOK /\ ClientOK /\ InstClean /\ DirtyStored
  BY InitViews
<1>2. DP!IndInv
  BY <1>1, CacheAssumptions, DP!InitIndInv
<1>3. IP!IndInv
  BY <1>1, CacheAssumptions, IP!InitIndInv
<1>4. Budget
  <2>1. transfers = 0
    BY DEF Init
  <2>2. IP!lru_idx \in IP!Way /\ IP!index \in Index
    BY <1>3, CacheAssumptions, IP!RequestType DEF IP!IndInv
  <2>3. i_dirty_array \in [IP!Way -> [Index -> BOOLEAN]]
    BY <1>3 DEF IP!IndInv, IP!TypeOK, IP!CacheTypeOK
  <2>4. IP!dirty_out = FALSE
    BY <1>1, <2>2, <2>3 DEF InstClean, I!Way, IP!Way, IP!dirty_out
  <2>5. DP!TransfersLeft \in 0 .. 2 /\ IP!TransfersLeft \in 0 .. 1
    BY <2>4, TransfersBounded
  <2> QED BY <2>1, <2>5 DEF Budget
<1> QED BY <1>1, <1>2, <1>3, <1>4 DEF SysInv

(* A step that changes nothing changes nothing for either cache.           *)
LEMMA StutterViews ==
  ASSUME UNCHANGED vars
  PROVE  UNCHANGED DP!vars /\ UNCHANGED IP!vars
<1>1. /\ UNCHANGED <<i_state, i_DM_cache, i_tag_array, i_valid_array, i_dirty_array, i_lru_array>>
      /\ UNCHANGED <<d_state, d_DM_cache, d_tag_array, d_valid_array, d_dirty_array, d_lru_array>>
      /\ UNCHANGED <<a_state, macro, count, linebuf, addressbuf>>
      /\ UNCHANGED <<mem, pageno, task, addr, left, beat, rdata, resp, error>>
      /\ UNCHANGED <<i_addr, req, _imem, _mem, newer, i_newer, transfers>>
  BY DEF vars, iVars, dVars, L!adaptorRegs, M!memRegs
<1>2. /\ UNCHANGED <<Phase("d_cache"), Phase("i_cache"), LineAddrBuf("d_cache"), LineAddrBuf("i_cache")>>
      /\ UNCHANGED <<LineBuf("d_cache"), LineBuf("i_cache"), Latched("d_cache")>>
  BY <1>1 DEF Phase, Latched, LineAddrBuf, LineBuf, LineOf, ToLine
<1>3. UNCHANGED DP!vars
  <2>1. [k \in LineAddr |-> ToLine(mem[k])]' = [k \in LineAddr |-> ToLine(mem[k])]
    BY <1>1, DataMemoryStays
  <2>2. DP!pmem_write' = DP!pmem_write
    BY <1>1, CacheAssumptions, DP!SelectionStable DEF DP!pmem_write, DP!dirty_out
  <2>3. D!pmem_write' = D!pmem_write
    BY <2>2, SameData, SameDataNext
  <2>4. (Latched("d_cache") /\ D!pmem_write)' = (Latched("d_cache") /\ D!pmem_write)
    BY <1>2, <2>3
  <2> QED BY <1>1, <1>2, <2>1, <2>4 DEF DP!vars, DP!cacheRegs, DP!lowerVars
<1>4. UNCHANGED IP!vars
  <2>1. [k \in LineAddr |-> IF k[1] \in InstTag THEN ToLine(mem[k]) ELSE _imem[k]]'
          = [k \in LineAddr |-> IF k[1] \in InstTag THEN ToLine(mem[k]) ELSE _imem[k]]
    BY <1>1, InstMemoryStays
  <2> QED BY <1>1, <1>2, <2>1 DEF IP!vars, IP!cacheRegs, IP!lowerVars, ZeroWord
<1> QED BY <1>3, <1>4

(* A step that changes nothing keeps the invariant.                        *)
LEMMA StutterSysInv ==
  ASSUME SysInv, UNCHANGED vars
  PROVE  SysInv'
<1>1. /\ UNCHANGED <<i_state, i_DM_cache, i_tag_array, i_valid_array, i_dirty_array, i_lru_array>>
      /\ UNCHANGED <<d_state, d_DM_cache, d_tag_array, d_valid_array, d_dirty_array, d_lru_array>>
      /\ UNCHANGED <<a_state, macro, count, linebuf, addressbuf>>
      /\ UNCHANGED <<mem, pageno, task, addr, left, beat, rdata, resp, error>>
      /\ UNCHANGED <<i_addr, req, _imem, _mem, newer, i_newer, transfers>>
  BY DEF vars, iVars, dVars, L!adaptorRegs, M!memRegs
<1>2. UNCHANGED DP!vars /\ UNCHANGED IP!vars
  BY StutterViews
<1>5. DP!IndInv'
  BY <1>2, CacheAssumptions, DP!NextIndInv DEF SysInv
<1>6. IP!IndInv'
  BY <1>2, CacheAssumptions, IP!NextIndInv DEF SysInv
<1>7. PathOK' /\ PortsOK' /\ InstClean' /\ DirtyStored'
  BY <1>1 DEF SysInv, PathOK, PathTypeOK, L!AdaptorTypeOK, Handshake, Waiting, Bursting, Buffered,
     Passed, PortsOK, A!ArbiterTypeOK, InstClean, DirtyStored
<1>8. UNCHANGED <<D!pmem_read, D!pmem_write, D!pmem_address, DP!TransfersLeft, IP!TransfersLeft>>
  <2>1. UNCHANGED <<DP!lru_idx, DP!hit, DP!index, DP!request>>
    BY <1>1, CacheAssumptions, DP!SelectionStable
  <2>2. UNCHANGED <<IP!lru_idx, IP!hit, IP!index, IP!request>>
    BY <1>1, CacheAssumptions, IP!SelectionStable
  <2>3. UNCHANGED <<DP!dirty_out, IP!dirty_out>>
    BY <1>1, <2>1, <2>2 DEF DP!dirty_out, IP!dirty_out
  <2>4. UNCHANGED <<DP!pmem_read, DP!pmem_write, DP!pmem_address>>
    BY <1>1, <2>1, <2>3 DEF DP!pmem_read, DP!pmem_write, DP!pmem_address
  <2>5. UNCHANGED <<DP!TransfersLeft, IP!TransfersLeft>>
    BY <1>1, <2>1, <2>2, <2>3 DEF DP!TransfersLeft, IP!TransfersLeft
  <2> QED BY <2>4, <2>5, SameData, SameDataNext
<1>9. ClientOK' /\ Budget'
  BY <1>1, <1>8 DEF SysInv, ClientOK, Budget
<1> QED BY <1>5, <1>6, <1>7, <1>9 DEF SysInv

-----------------------------------------------------------------------------
(* The theorems.                                                           *)

(* The inductive invariant holds in every cycle, for every size of caches, *)
(* lines and bursts, every delay of the memory and every program that does *)
(* not store to its own code.                                              *)
THEOREM Invariance == Spec => []SysInv
<1>1. Init => SysInv
  BY InitSysInv
<1>2. SysInv /\ [Tick]_vars => SysInv'
  BY TickSysInv, StutterSysInv
<1> QED BY <1>1, <1>2, PTL DEF Spec

(* None of param_memory's assertions fails.                                *)
THEOREM NoAssertionFails == Spec => []PmemProtocol
<1>1. SysInv => PmemProtocol
  BY DEF SysInv, PathOK, Handshake, PmemProtocol
<1> QED BY <1>1, Invariance, PTL

(* One step of the pipeline costs at most three line transfers.            *)
THEOREM ThreeTransfersSuffice == Spec => []AtMostThreeTransfers
<1>1. ASSUME SysInv PROVE AtMostThreeTransfers
  <2>1. PICK x \in 0 .. 2, y \in 0 .. 2 : x = DP!TransfersLeft /\ y = IP!TransfersLeft
    BY TransfersBounded
  <2>2. transfers \in Nat /\ transfers + (x + y) <= 3
    BY <1>1, <2>1 DEF SysInv, Budget
  <2> QED BY <2>2 DEF AtMostThreeTransfers
<1> QED BY <1>1, Invariance, PTL

(* An answer of the adaptor is the answer to its client's request.         *)
THEOREM AnswersGoToTheirClient == Spec => []AnswerBelongsToClient
<1>1. ASSUME SysInv, A!i_resp
      PROVE  /\ LineOf(addressbuf) = LineOf(i_addr)
             /\ ToLine(linebuf) = _imem[LineOf(i_addr)]
  <2>1. a_state = "i_cache" /\ macro = "DONE"
    BY <1>1 DEF A!i_resp, L!resp_o
  <2>2. /\ Phase("i_cache") = "done" /\ LineAddrBuf("i_cache") = LineOf(addressbuf)
        /\ LineBuf("i_cache") = ToLine(linebuf)
    BY <2>1, PhaseIs DEF Seen
  <2>3. LineOf(addressbuf) = LineOf(i_addr)
    <3>1. LineAddrBuf("i_cache") = IP!LineOf(IP!pmem_address)
      BY <1>1, <2>2 DEF SysInv, IP!IndInv, IP!PathInv
    <3>2. IP!pmem_address = i_addr
      BY <1>1, InstPorts, SameInst
    <3> QED BY <2>2, <3>1, <3>2 DEF IP!LineOf, LineOf
  <2> DEFINE Lines == [l \in LineAddr |-> IF l[1] \in InstTag THEN ToLine(mem[l]) ELSE _imem[l]]
  <2>4. Lines[LineOf(addressbuf)] = ToLine(linebuf)
    <3>1. Lines[LineAddrBuf("i_cache")] = LineBuf("i_cache")
      BY <1>1, <2>2 DEF SysInv, IP!IndInv, IP!PathInv
    <3> HIDE DEF Lines
    <3> QED BY <2>2, <3>1
  <2>5. i_addr.tag \in Tag /\ i_addr.index \in Index
    BY <1>1, NoSelfModification DEF SysInv, PortsOK, Fetch
  <2>6. ~ \E i \in IP!Way : IP!DirtyCopy(i, i_addr.tag, i_addr.index)
    BY <1>1, <2>5 DEF SysInv, InstClean, I!Way, IP!Way, IP!DirtyCopy
  <2>7. Lines[<<i_addr.tag, i_addr.index>>] = _imem[<<i_addr.tag, i_addr.index>>]
    BY <1>1, <2>5, <2>6 DEF SysInv, IP!IndInv, IP!MemoryCurrent
  <2> HIDE DEF Lines
  <2> QED BY <2>3, <2>4, <2>7 DEF LineOf
<1>2. ASSUME SysInv, A!data_resp
      PROVE  IF D!pmem_read THEN LineOf(addressbuf) = LineOf(req.addr)
             ELSE /\ D!pmem_write
                  /\ addressbuf = D!pmem_address
                  /\ ToLine(linebuf) = D!pmem_wdata
                  /\ mem[LineOf(addressbuf)] = linebuf
  <2>1. a_state = "d_cache" /\ macro = "DONE"
    BY <1>2 DEF A!data_resp, L!resp_o
  <2>2. /\ addressbuf = D!pmem_address /\ (D!pmem_read => ~D!dirty_out)
        /\ ~D!pmem_read => D!pmem_write
    BY <1>2, <2>1, DataClient
  <2>3. D!pmem_read => addressbuf = req.addr
    BY <2>2 DEF D!pmem_address
  <2>4. mem[LineOf(addressbuf)] = linebuf
    BY <1>2, <2>1 DEF SysInv, PathOK, Buffered
  <2>5. ASSUME D!pmem_write PROVE ToLine(linebuf) = D!pmem_wdata
    <3>1. /\ Phase("d_cache") = "done" /\ Latched("d_cache") = TRUE
          /\ LineBuf("d_cache") = ToLine(linebuf)
      BY <2>1, PhaseIs DEF Seen
    <3>2. LineBuf("d_cache") = d_DM_cache[DP!lru_idx][DP!index]
      BY <1>2, <2>5, <3>1 DEF SysInv, DP!IndInv, DP!PathInv
    <3>3. d_DM_cache[D!lru_idx][D!index] \in D!Line
      BY <1>2, Selections DEF D!CacheTypeOK
    <3>4. D!mask = {}
      BY <2>5 DEF D!mask, D!storing, D!mem_resp, D!pmem_write
    <3>5. D!pmem_wdata = d_DM_cache[D!lru_idx][D!index]
      BY <3>3, <3>4 DEF D!pmem_wdata, D!line_out, D!Line
    <3> QED BY <3>1, <3>2, <3>5, SameData
  <2> QED BY <2>2, <2>3, <2>4, <2>5
<1>3. SysInv => AnswerBelongsToClient
  BY <1>1, <1>2 DEF AnswerBelongsToClient
<1> QED BY <1>3, Invariance, PTL

(* Every register keeps its type, every instruction fetched is the one of  *)
(* the program's image, and every load returns what the stores before it   *)
(* left, although the two caches share one path to memory.                 *)
THEOREM BothPortsRead == Spec => []ReadsMatch
<1>1. ASSUME SysInv PROVE TypeOK
  <2>1. D!CacheTypeOK /\ I!CacheTypeOK
    BY <1>1, Selections
  <2>2. /\ A!ArbiterTypeOK /\ i_addr \in Fetch /\ req \in DataRequest
    BY <1>1 DEF SysInv, PortsOK
  <2>3. PathTypeOK
    BY <1>1 DEF SysInv, PathOK
  <2>4. _mem \in [LineAddr -> D!Line]
    BY <1>1 DEF SysInv, DP!IndInv, DP!TypeOK, DP!LineAddr, LineAddr, DP!Line, D!Line, DP!Cell, D!Cell
  <2>5. _imem \in [LineAddr -> D!Line]
    BY <1>1 DEF SysInv, IP!IndInv, IP!TypeOK, IP!LineAddr, LineAddr, IP!Line, D!Line, IP!Cell, D!Cell
  <2> QED BY <2>1, <2>2, <2>3, <2>4, <2>5 DEF TypeOK, PathTypeOK
<1>2. ASSUME SysInv PROVE InstReadsMatch
  <2>1. IP!ReadsMatchShadow
    BY <1>2, CacheAssumptions, IP!ReadsCurrent DEF SysInv
  <2>2. IP!mem_resp => IP!mem_rdata_cpu = IP!WordOf(_imem[LineOf(i_addr)], i_addr.word)
    BY <2>1 DEF IP!ReadsMatchShadow, IP!LineOf, LineOf
  <2> QED BY <2>2, SameInst DEF InstReadsMatch, i_resp, IP!mem_rdata_cpu, I!mem_rdata_cpu, IP!WordOf,
          I!WordOf
<1>3. ASSUME SysInv PROVE DataReadsMatch
  <2>1. DP!ReadsMatchShadow
    BY <1>3, CacheAssumptions, DP!ReadsCurrent DEF SysInv
  <2>2. DP!mem_resp /\ req.op = "load" =>
          DP!mem_rdata_cpu = DP!WordOf(_mem[LineOf(req.addr)], req.addr.word)
    BY <2>1 DEF DP!ReadsMatchShadow, DP!LineOf, LineOf
  <2> QED BY <2>2, SameData DEF DataReadsMatch, data_resp, DP!mem_rdata_cpu, D!mem_rdata_cpu, DP!WordOf,
          D!WordOf
<1>4. SysInv => ReadsMatch
  BY <1>1, <1>2, <1>3 DEF ReadsMatch
<1> QED BY <1>4, Invariance, PTL

(* DView and IView are the specifications that DP and IP prove about: all  *)
(* their definitions are the same, expanded.                               *)
LEMMA SameDataView ==
  /\ DP!Init => DView!Init
  /\ DP!Next => DView!Next
  /\ UNCHANGED DP!vars => UNCHANGED DView!vars
BY Zenon DEF
  DP!Init, DP!CacheInit, DP!Request, DP!Next, DP!Clock, DP!Idle, DP!Hit, DP!WriteBack,
  DP!CleanMiss, DP!Fill, DP!LruAfterHit, DP!CpuStep, DP!Hold, DP!Advance, DP!LowerStep,
  DP!Wait, DP!Grant, DP!Latch, DP!ReadBeats, DP!WriteBeats, DP!Done, DP!Moved, DP!Pending,
  DP!ShadowStep, DP!Stored, DP!NewerStep, DP!UseOf, DP!pmem_resp, DP!pmem_rdata,
  DP!pmem_read, DP!pmem_write, DP!pmem_address, DP!pmem_wdata, DP!line_out, DP!mask,
  DP!storing, DP!mem_resp, DP!request, DP!hit, DP!dirty_out, DP!lru_idx, DP!HitWays,
  DP!InvalidWays, DP!OldestWays, DP!First, DP!address_tag, DP!index,
  DP!mem_byte_enable_line, DP!mem_wdata_line, DP!LineOf, DP!LineAddr, DP!NoLine,
  DP!ZeroWord, DP!ZeroLine, DP!Address, DP!WordVal, DP!Line, DP!Cell, DP!Way,
  DP!cacheRegs, DP!lowerVars, DP!vars, DView!Init, DView!CacheInit, DView!Request,
  DView!Next, DView!Clock, DView!Idle, DView!Hit, DView!WriteBack, DView!CleanMiss,
  DView!Fill, DView!LruAfterHit, DView!CpuStep, DView!Hold, DView!Advance,
  DView!LowerStep, DView!Wait, DView!Grant, DView!Latch, DView!ReadBeats,
  DView!WriteBeats, DView!Done, DView!Moved, DView!Pending, DView!ShadowStep,
  DView!Stored, DView!NewerStep, DView!UseOf, DView!pmem_resp, DView!pmem_rdata,
  DView!pmem_read, DView!pmem_write, DView!pmem_address, DView!pmem_wdata, DView!line_out,
  DView!mask, DView!storing, DView!mem_resp, DView!request, DView!hit, DView!dirty_out,
  DView!lru_idx, DView!HitWays, DView!InvalidWays, DView!OldestWays, DView!First,
  DView!address_tag, DView!index, DView!mem_byte_enable_line, DView!mem_wdata_line,
  DView!LineOf, DView!LineAddr, DView!NoLine, DView!ZeroWord, DView!ZeroLine,
  DView!Address, DView!WordVal, DView!Line, DView!Cell, DView!Way, DView!cacheRegs,
  DView!lowerVars, DView!vars

(* The same for the instruction cache.                                     *)
LEMMA SameInstView ==
  /\ IP!Init => IView!Init
  /\ IP!Next => IView!Next
  /\ UNCHANGED IP!vars => UNCHANGED IView!vars
BY Zenon DEF
  IP!Init, IP!CacheInit, IP!Request, IP!Next, IP!Clock, IP!Idle, IP!Hit, IP!WriteBack,
  IP!CleanMiss, IP!Fill, IP!LruAfterHit, IP!CpuStep, IP!Hold, IP!Advance, IP!LowerStep,
  IP!Wait, IP!Grant, IP!Latch, IP!ReadBeats, IP!WriteBeats, IP!Done, IP!Moved, IP!Pending,
  IP!ShadowStep, IP!Stored, IP!NewerStep, IP!UseOf, IP!pmem_resp, IP!pmem_rdata,
  IP!pmem_read, IP!pmem_write, IP!pmem_address, IP!pmem_wdata, IP!line_out, IP!mask,
  IP!storing, IP!mem_resp, IP!request, IP!hit, IP!dirty_out, IP!lru_idx, IP!HitWays,
  IP!InvalidWays, IP!OldestWays, IP!First, IP!address_tag, IP!index,
  IP!mem_byte_enable_line, IP!mem_wdata_line, IP!LineOf, IP!LineAddr, IP!NoLine,
  IP!ZeroWord, IP!ZeroLine, IP!Address, IP!WordVal, IP!Line, IP!Cell, IP!Way,
  IP!cacheRegs, IP!lowerVars, IP!vars, IView!Init, IView!CacheInit, IView!Request,
  IView!Next, IView!Clock, IView!Idle, IView!Hit, IView!WriteBack, IView!CleanMiss,
  IView!Fill, IView!LruAfterHit, IView!CpuStep, IView!Hold, IView!Advance,
  IView!LowerStep, IView!Wait, IView!Grant, IView!Latch, IView!ReadBeats,
  IView!WriteBeats, IView!Done, IView!Moved, IView!Pending, IView!ShadowStep,
  IView!Stored, IView!NewerStep, IView!UseOf, IView!pmem_resp, IView!pmem_rdata,
  IView!pmem_read, IView!pmem_write, IView!pmem_address, IView!pmem_wdata, IView!line_out,
  IView!mask, IView!storing, IView!mem_resp, IView!request, IView!hit, IView!dirty_out,
  IView!lru_idx, IView!HitWays, IView!InvalidWays, IView!OldestWays, IView!First,
  IView!address_tag, IView!index, IView!mem_byte_enable_line, IView!mem_wdata_line,
  IView!LineOf, IView!LineAddr, IView!NoLine, IView!ZeroWord, IView!ZeroLine,
  IView!Address, IView!WordVal, IView!Line, IView!Cell, IView!Way, IView!cacheRegs,
  IView!lowerVars, IView!vars

(* Arbiter, adaptor and burst memory do what L1Cache assumes of the path:  *)
(* the whole implements L1Cache for the data cache and for the instruction *)
(* cache at once.                                                          *)
THEOREM ImplementsBothCaches == Spec => ImplementsL1Cache
<1>1. Init => DView!Init /\ IView!Init
  BY InitViews, SameDataView, SameInstView
<1>2. ASSUME SysInv, [Tick]_vars
      PROVE  [DView!Next]_(DView!vars) /\ [IView!Next]_(IView!vars)
  <2>1. CASE Tick
    BY <1>2, <2>1, DataStep, InstStep, SameDataView, SameInstView
  <2>2. CASE UNCHANGED vars
    BY <2>2, StutterViews, SameDataView, SameInstView
  <2> QED BY <1>2, <2>1, <2>2
<1> QED BY <1>1, <1>2, Invariance, PTL DEF Spec, ImplementsL1Cache, DView!Spec, IView!Spec

=============================================================================
