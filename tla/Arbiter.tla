------------------------------ MODULE Arbiter ------------------------------
(***************************************************************************)
(* hdl/cache/arbiter.sv: gives the path to memory to one of the two L1     *)
(* caches, the data cache first, and holds it until the line transfer is   *)
(* answered.  Between two transfers there is always one cycle of decode.   *)
(***************************************************************************)
CONSTANTS
  NoAddr,    \* what the address output carries when no cache is served
  NoLine     \* what the line outputs carry then

VARIABLE state     \* "decode", "i_cache" or "d_cache"

VARIABLES          \* input ports
  data_read, data_write, data_addr, data_wdata,
  i_read, i_addr,
  cache_resp, cache_data

(* The arbiter's three states.                                             *)
ArbiterTypeOK == state \in {"decode", "i_cache", "d_cache"}

ArbiterInit == state = "decode"

-----------------------------------------------------------------------------
(* Outputs to the adaptor.                                                 *)

cache_read == \/ state = "i_cache"
              \/ state = "d_cache" /\ data_read

cache_write == state = "d_cache" /\ ~data_read /\ data_write

(* MUTANT: a waiting instruction miss drives the address of any transfer.  *)
cache_addr_InstFirst == CASE i_read /\ state # "decode" -> i_addr
                          [] state = "d_cache" -> data_addr
                          [] OTHER -> NoAddr

cache_addr == CASE state = "i_cache" -> i_addr
                [] state = "d_cache" -> data_addr
                [] OTHER -> NoAddr

cache_wdata == IF cache_write THEN data_wdata ELSE NoLine

(* Outputs to the caches.                                                  *)

i_resp    == state = "i_cache" /\ cache_resp
i_data    == IF state = "i_cache" THEN cache_data ELSE NoLine
data_resp == state = "d_cache" /\ cache_resp
data_out  == IF state = "d_cache" /\ data_read THEN cache_data ELSE NoLine

-----------------------------------------------------------------------------
(* The clock edge.                                                         *)

ServeData ==
  /\ state = "decode" /\ (data_read \/ data_write)
  /\ state' = "d_cache"

(* MUTANT: the arc to i_cache is missing.                                  *)
ServeInst_NoArc ==
  /\ state = "decode" /\ ~(data_read \/ data_write) /\ i_read
  /\ state' = "decode"

ServeInst ==
  /\ state = "decode" /\ ~(data_read \/ data_write) /\ i_read
  /\ state' = "i_cache"

Undecided ==
  /\ state = "decode" /\ ~(data_read \/ data_write) /\ ~i_read
  /\ UNCHANGED state

(* MUTANT: a waiting data request is served without a decode cycle.        *)
Serving_BackToBack ==
  /\ state # "decode"
  /\ state' = IF ~cache_resp THEN state
              ELSE IF data_read \/ data_write THEN "d_cache" ELSE "decode"

Serving ==
  /\ state # "decode"
  /\ state' = IF cache_resp THEN "decode" ELSE state

Clock == ServeData \/ ServeInst \/ Undecided \/ Serving

=============================================================================
