-------------------------- MODULE CachelineAdaptor --------------------------
(***************************************************************************)
(* hdl/cache/cacheline_adaptor.sv: turns a line request into a burst of    *)
(* MaxCount + 1 beats and a burst back into a line.  A line is a function  *)
(* from beat numbers to beats.                                             *)
(*                                                                         *)
(* All outputs are functions of the registers; the inputs are sampled at   *)
(* the edge and are parameters of Clock.                                   *)
(***************************************************************************)
EXTENDS Naturals

CONSTANTS
  MaxCount,   \* number of the last beat (localparam maxcount)
  Burst,      \* the values of one beat
  Addr        \* addresses

VARIABLES macro, count, linebuf, addressbuf

adaptorRegs == <<macro, count, linebuf, addressbuf>>

Beat == 0 .. MaxCount

(* The types of the adaptor's registers; the count has two bits.           *)
AdaptorTypeOK ==
  /\ macro \in {"IDLE", "WAITR", "WAITW", "R", "W", "DONE"}
  /\ count \in Beat
  /\ linebuf \in [Beat -> Burst]
  /\ addressbuf \in Addr

(* Reset only sets macro: the other registers start with any contents.     *)
AdaptorInit(someLine, someAddr) ==
  /\ macro = "IDLE"
  /\ count = 0
  /\ linebuf = someLine
  /\ addressbuf = someAddr

-----------------------------------------------------------------------------

line_o    == linebuf
address_o == addressbuf
burst_o   == linebuf[count]
(* MUTANT: read_o drops with the first beat.                               *)
read_o_Early == macro = "WAITR"

read_o    == macro \in {"WAITR", "R"}
write_o   == macro \in {"WAITW", "W"}
resp_o    == macro = "DONE"

(* The counter has just enough bits for MaxCount and wraps.                *)
NextCount == (count + 1) % (MaxCount + 1)

-----------------------------------------------------------------------------

AcceptRead(read_i, address_i) ==
  /\ macro = "IDLE" /\ read_i
  /\ macro' = "WAITR"
  /\ addressbuf' = address_i
  /\ UNCHANGED <<count, linebuf>>

AcceptWrite(read_i, write_i, address_i, line_i) ==
  /\ macro = "IDLE" /\ ~read_i /\ write_i
  /\ macro' = "WAITW"
  /\ linebuf' = line_i
  /\ addressbuf' = address_i
  /\ count' = 0

NoOp(read_i, write_i) ==
  /\ macro = "IDLE" /\ ~read_i /\ ~write_i
  /\ UNCHANGED adaptorRegs

(* MUTANT: the beat that comes with the first resp_i is not stored.        *)
FirstBeatIn_Lost(resp_i, burst_i) ==
  /\ macro = "WAITR"
  /\ IF resp_i THEN macro' = "R" /\ count' = 1
               ELSE UNCHANGED <<macro, count>>
  /\ UNCHANGED <<linebuf, addressbuf>>

(* The first beat arrives with the first cycle of resp_i.                  *)
FirstBeatIn(resp_i, burst_i) ==
  /\ macro = "WAITR"
  /\ IF resp_i THEN /\ macro' = "R"
                    /\ count' = 1
                    /\ linebuf' = [linebuf EXCEPT ![0] = burst_i]
               ELSE UNCHANGED <<macro, count, linebuf>>
  /\ UNCHANGED addressbuf

FirstBeatOut(resp_i) ==
  /\ macro = "WAITW"
  /\ IF resp_i THEN macro' = "W" /\ count' = 1
               ELSE UNCHANGED <<macro, count>>
  /\ UNCHANGED <<linebuf, addressbuf>>

(* Later beats are taken and given without looking at resp_i.              *)
BeatIn(burst_i) ==
  /\ macro = "R"
  /\ macro' = IF count = MaxCount THEN "DONE" ELSE "R"
  /\ linebuf' = [linebuf EXCEPT ![count] = burst_i]
  /\ count' = NextCount
  /\ UNCHANGED addressbuf

BeatOut ==
  /\ macro = "W"
  /\ macro' = IF count = MaxCount THEN "DONE" ELSE "W"
  /\ count' = NextCount
  /\ UNCHANGED <<linebuf, addressbuf>>

Respond ==
  /\ macro = "DONE"
  /\ macro' = "IDLE"
  /\ UNCHANGED <<count, linebuf, addressbuf>>

Clock(read_i, write_i, address_i, line_i, resp_i, burst_i) ==
  \/ AcceptRead(read_i, address_i)
  \/ AcceptWrite(read_i, write_i, address_i, line_i)
  \/ NoOp(read_i, write_i)
  \/ FirstBeatIn(resp_i, burst_i)
  \/ FirstBeatOut(resp_i)
  \/ BeatIn(burst_i)
  \/ BeatOut
  \/ Respond

=============================================================================
