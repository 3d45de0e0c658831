----------------------------- MODULE MCTestcode ----------------------------
(* Testcode for model checking.                                            *)
EXTENDS Testcode

CONSTANTS t1, t2, t3

MCThreads == {t1, t2, t3}

(* Notifications at the edges: the first price with a risk on each side of *)
(* the strike, near and far from expiration, for makers and takers; ids    *)
(* out of order, and one above 2^16; prices 2^28 - 1, 2^28 and nearly 2^30 *)
(* above the strike, where the risk leaves the range of int.               *)
Message(type, subtype, trade_type, side, price, expiration, liquidity, id) ==
  [type |-> type, subtype |-> subtype, trade_type |-> trade_type, side |-> side,
   price |-> price, strike |-> <<1, 30>>, expiration |-> <<0, expiration>>,
   liquidity |-> liquidity, contracts |-> <<0, 3>>, message_id |-> id]

Ids == {<<0, 0, 0, 1>>, <<0, 0, 1, 0>>, <<0, 1, 0, 0>>}

Near(low) == <<0, 0, 1, low>>

MCMessages ==
  {Message("N", "E", "P", "B", Near(low), 10, liquidity, id) :
     low \in {4, 5, 55, 56}, liquidity \in {1, 2}, id \in Ids}
  \cup {Message("N", "E", "C", "S", Near(low), 11, liquidity, id) :
          low \in {17, 18, 42, 43}, liquidity \in {1, 2}, id \in Ids}
  \cup {Message(type, subtype, "P", "S", Near(30), 10, 2, id) :
          type \in {"N", "X"}, subtype \in {"E", "X"}, id \in Ids}
  \cup {Message("N", "E", "C", "B", price, expiration, 1, id) :
          price \in {<<16, 0, 1, 29>>, <<16, 0, 1, 30>>, <<64, 0, 0, 0>>}, expiration \in {10, 11}, id \in Ids}

(* Arrays of up to four elements, even and odd in number, and longer ones  *)
(* with a NaN.                                                             *)
MCVectors ==
  UNION {[test : [1..len -> {1, 2}], verify : [1..len -> {1, 2}]] : len \in 0..4}
  \cup {[test |-> <<1, NaN, 2, 2, 1>>, verify |-> <<1, NaN, 2, 2, 1>>],
        [test |-> <<1, 2, 1, 2, NaN>>, verify |-> <<1, 2, 1, 2, 2>>]}

(* Every combination of flags, width and precision with every conversion.  *)
FlagTexts ==
  {<< >>, <<"-">>, <<"0">>, <<"+">>, <<" ">>, <<"#">>, <<"-", "0">>, <<"+", "0">>, <<" ", "0">>,
   <<"#", "0">>, <<"#", "-">>, <<"+", " ">>}

Widths == {<< >>, <<"7">>, <<"1", "0">>, <<"*">>}

Precisions == {<< >>, <<".">>, <<".", "3">>, <<".", "*">>}

Conversions == {<<"d">>, <<"u">>, <<"l", "x">>, <<"X">>, <<"o">>, <<"p">>, <<"c">>, <<"s">>, <<"f">>,
                <<"a">>, <<"l", "A">>}

MCFormats ==
  {<<"%">> \o f \o w \o p \o c : f \in FlagTexts, w \in Widths, p \in Precisions, c \in Conversions}
  \cup {<<"[", "%", "u", "]", "E", " ", "0", "x", "%", "0", "4", "x">>,
        <<"5", "%", "%">>, <<"%", "q">>, <<"%", "-", "5">>, <<"%", "i", "%", "f">>}

MCNumbers == {0, 1, 9, 10, 255, 4660, 32767, 32768, 65535}

Double(neg, int, frac) == [neg |-> neg, int |-> int, frac |-> frac]

(* Exact in binary, around the carries: 0, 0.5, 9.5, 99.96875, 0.09375,    *)
(* 0.00390625, 0.998046875, -12.125, 0.0625.                               *)
MCDoubles ==
  {Double(FALSE, 0, << >>), Double(FALSE, 0, <<5>>), Double(FALSE, 9, <<5>>),
   Double(FALSE, 99, <<9, 6, 8, 7, 5>>), Double(FALSE, 0, <<0, 9, 3, 7, 5>>),
   Double(FALSE, 0, <<0, 0, 3, 9, 0, 6, 2, 5>>), Double(FALSE, 0, <<9, 9, 8, 0, 4, 6, 8, 7, 5>>),
   Double(TRUE, 12, <<1, 2, 5>>), Double(FALSE, 0, <<0, 6, 2, 5>>)}

MCStrings == {<< >>, <<"M", "E", "M">>, <<"S", "T", "A", "C", "K", "E", "D", "!", "?">>}

MCAddresses == {<<192, 168, 0, 1, 10, 255>>, <<9, 10, 99, 100, 0, 16>>, <<105, 255, 200, 110, 7, 1>>}

MCStars == {-8, 0, 7}

MCChars == {"k"}

(* Sizes that three does not divide, and one that leaves a byte each.      *)
MCLayouts ==
  [method : {"MEM_STATIC", "MEM_MALLOC", "MEM_STACK"}, multithread : 1..3,
   execs : SUBSET {1, 2, 3}, override : {0, 5}, total : {3, 20}]

=============================================================================
