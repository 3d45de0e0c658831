------------------------------- MODULE Comp3 -------------------------------
(* comp3.c: execution notifications, read from an array of messages with   *)
(* their fields in network byte order, update counters and are judged by   *)
(* their risk. The contents of the array are any messages of Messages.     *)
EXTENDS Integers, Sequences

CONSTANTS
  Messages,                  \* the notifications that may be in raw_data
  CheckEvery, CheckStride,   \* CHECK_EVERY, CHECK_STRIDE: turns of main's two loops
  Stride                     \* STRIDE, in messages

Byte == 0..255

(* The packed fields that are read, numbers as their bytes on the wire.    *)
exec_notification ==
  [type : {"N", "X"}, subtype : {"E", "X"}, trade_type : {"P", "C"}, side : {"B", "S"},
   price : [1..4 -> Byte], contracts : [1..2 -> Byte], liquidity : Byte, strike : [1..2 -> Byte],
   expiration : [1..2 -> Byte], message_id : Seq(Byte)]

ASSUME Comp3Assumption ==
  Messages \subseteq exec_notification /\ {CheckEvery, CheckStride, Stride} \subseteq Nat

VARIABLE c3   \* the globals and main's locals, or Idle3

Idle3 == << >>

RISK_THRESHOLD == 100

(* __builtin_bswap16 and the others: a field's bytes, first the highest.   *)
bswap(bytes) ==
  LET value[n \in 0..Len(bytes)] == IF n = 0 THEN 0 ELSE 256 * value[n - 1] + bytes[n]
  IN value[Len(bytes)]

(* MUTANT: a message with the old message's id is taken again.             *)
Accepts_again(trade, old_message_id) ==
  /\ trade.type = "N" \/ trade.subtype = "E"
  /\ bswap(trade.message_id) >= old_message_id

(* The early returns of process_execution: a message is left out when both *)
(* its type and its subtype are others, or when it is out of order.        *)
Accepts(trade, old_message_id) ==
  /\ trade.type = "N" \/ trade.subtype = "E"
  /\ bswap(trade.message_id) > old_message_id

Abs(x) == IF x < 0 THEN -x ELSE x

INT_MAX == 2147483647

(* What an int is given of an unsigned difference, modulo 2^32.            *)
ToInt(x) == IF x <= INT_MAX THEN x ELSE x - INT_MAX - INT_MAX - 2

Vol(trade) == Abs(ToInt(bswap(trade.price) - bswap(trade.strike)))

(* By what vol is shifted and doubled.                                     *)
Weight(trade) == IF bswap(trade.expiration) > 10 THEN 8 ELSE 4

Risk(trade) == Vol(trade) * Weight(trade) - (IF trade.liquidity = 1 THEN 2 ELSE 0)

(* Whether process_execution returns 1. Beyond the range of int the result *)
(* is undefined: the product may wrap, to a large or a small risk, or the  *)
(* compiler may compare vol itself.                                        *)
Uhoh(trade) ==
  IF Vol(trade) <= INT_MAX \div Weight(trade) THEN {Risk(trade) > RISK_THRESHOLD} ELSE BOOLEAN

(* The signed change of the count of puts, and of the count of calls.      *)
Puts(trade) ==
  IF trade.trade_type # "P" THEN 0
  ELSE IF trade.side = "B" THEN bswap(trade.contracts) ELSE -bswap(trade.contracts)

Calls(trade) ==
  IF trade.trade_type # "C" THEN 0
  ELSE IF trade.side = "S" THEN -bswap(trade.contracts) ELSE bswap(trade.contracts)

Comp3Init ==
  c3 = [turn |-> 0, message_start |-> 0, status |-> "FEFEFEFE", old_message_id |-> 0,
        contracts_processed |-> 0, puts_count |-> 0, calls_count |-> 0, accepted |-> << >>]

(* One turn of a loop of main, with process_execution of its message; an   *)
(* accepted message is remembered in the ghost accepted.                   *)
process_execution(trade, step) ==
  IF Accepts(trade, c3.old_message_id)
  THEN \E ret_val \in Uhoh(trade) :
         c3' = [c3 EXCEPT !.turn = @ + 1, !.message_start = @ + step,
                          !.old_message_id = bswap(trade.message_id),
                          !.contracts_processed = @ + bswap(trade.contracts),
                          !.puts_count = @ + Puts(trade), !.calls_count = @ + Calls(trade),
                          !.status = IF ret_val THEN "00BADBAD" ELSE @,
                          !.accepted = Append(@, trade)]
  ELSE c3' = [c3 EXCEPT !.turn = @ + 1, !.message_start = @ + step]

CheckEveryTurn ==
  /\ c3.turn < CheckEvery
  /\ \E trade \in Messages : process_execution(trade, 1)

CheckStrideTurn ==
  /\ c3.turn \in CheckEvery..(CheckEvery + CheckStride - 1)
  /\ \E trade \in Messages : process_execution(trade, Stride)

Comp3Ends ==
  /\ c3.turn = CheckEvery + CheckStride /\ c3.status = "FEFEFEFE"
  /\ c3' = [c3 EXCEPT !.status = "600D600D"]

Comp3Next == CheckEveryTurn \/ CheckStrideTurn \/ Comp3Ends

Comp3Spec == Comp3Init /\ [][Comp3Next]_c3

(* A notification that arrives out of order, or again, changes nothing:    *)
(* the ids of the accepted ones increase.                                  *)
AcceptedInOrder ==
  c3 # Idle3 => \A m, n \in DOMAIN c3.accepted :
                  m < n => bswap(c3.accepted[m].message_id) < bswap(c3.accepted[n].message_id)

Distance(trade) == Abs(bswap(trade.price) - bswap(trade.strike))

(* 2^28: a shorter distance, times its weight, is in the range of int.     *)
IN_RANGE == 268435456

(* Within what distance from the strike the comments call it no risk: the  *)
(* rebate of two for makers never tips the balance.                        *)
Safe(trade) == Distance(trade) <= IF bswap(trade.expiration) > 10 THEN 12 ELSE 25

(* No notification close to its strike, above or below it, is judged bad,  *)
(* whatever else was accepted; one that is not close is bad for ever, if   *)
(* its distance keeps the risk in the range of int.                        *)
VerdictOnRisk ==
  c3 # Idle3 =>
    /\ c3.status = "00BADBAD" => \E m \in DOMAIN c3.accepted : ~Safe(c3.accepted[m])
    /\ \A m \in DOMAIN c3.accepted :
         ~Safe(c3.accepted[m]) /\ Distance(c3.accepted[m]) < IN_RANGE => c3.status = "00BADBAD"

=============================================================================
