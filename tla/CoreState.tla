----------------------------- MODULE CoreState -----------------------------
(* The state-machine kernel of CoreMark (core_state.c): a block of         *)
(* characters, zero-terminated, holds comma-separated numbers; the kernel  *)
(* classifies them, corrupts the block, classifies again and undoes the    *)
(* corruption. Characters are their ASCII codes, the block is a function   *)
(* on 0..size-1.                                                           *)
EXTENDS Crc, Sequences

Comma == 44

(* The enumeration CORE_STATE, in its order: the counters are folded into  *)
(* the CRC in that order.                                                  *)
CORE_STATE == <<"START", "INVALID", "S1", "S2", "INT", "FLOAT", "EXPONENT", "SCIENTIFIC">>

StateNames == {CORE_STATE[k] : k \in 1..8}

ZeroCounts == [s \in StateNames |-> 0]

(* "5012" "1234" "-874" "+122"                                             *)
intpat == << <<53, 48, 49, 50>>, <<49, 50, 51, 52>>, <<45, 56, 55, 52>>, <<43, 49, 50, 50>> >>

(* "35.54400" ".1234500" "-110.700" "+0.64400"                             *)
floatpat == << <<51, 53, 46, 53, 52, 52, 48, 48>>, <<46, 49, 50, 51, 52, 53, 48, 48>>,
               <<45, 49, 49, 48, 46, 55, 48, 48>>, <<43, 48, 46, 54, 52, 52, 48, 48>> >>

(* "5.500e+3" "-.123e-2" "-87e+832" "+0.6e-12"                             *)
scipat == << <<53, 46, 53, 48, 48, 101, 43, 51>>, <<45, 46, 49, 50, 51, 101, 45, 50>>,
             <<45, 56, 55, 101, 43, 56, 51, 50>>, <<43, 48, 46, 54, 101, 45, 49, 50>> >>

(* "T0.3e-1F" "-T.T++Tq" "1T3.4e4z" "34.0e-T^"                             *)
errpat == << <<84, 48, 46, 51, 101, 45, 49, 70>>, <<45, 84, 46, 84, 43, 43, 84, 113>>,
             <<49, 84, 51, 46, 52, 101, 52, 122>>, <<51, 52, 46, 48, 101, 45, 84, 94>> >>

(* The pattern core_init_state chooses for a value of its seed.            *)
Pattern(seed) ==
  LET row == ((seed \div 8) % 4) + 1
  IN CASE seed % 8 \in 0..2 -> intpat[row]
       [] seed % 8 \in 3..4 -> floatpat[row]
       [] seed % 8 \in 5..6 -> scipat[row]
       [] seed % 8 = 7      -> errpat[row]

(* The text core_init_state writes, while a pattern and its comma leave    *)
(* two bytes, then zeroes: text is what is written, buf what comes next.   *)
core_init_state(size, seed0) ==
  LET write[text \in Seq(0..255), buf \in Seq(0..255), seed \in Int] ==
        IF Len(text) + Len(buf) + 1 < size - 1
        THEN write[IF buf = << >> THEN text ELSE text \o Append(buf, Comma),
                   Pattern(S16(seed + 1)), S16(seed + 1)]
        ELSE text
      written == write[<< >>, << >>, seed0]
  IN [k \in 0..(size - 1) |-> IF k < Len(written) THEN written[k + 1] ELSE 0]

ee_isdigit(c) == c \in 48..57

(* The switch of core_state_transition: the state after symbol c.          *)
NextState(state, c) ==
  CASE state = "START" /\ ee_isdigit(c)       -> "INT"
    [] state = "START" /\ c \in {43, 45}      -> "S1"
    [] state \in {"START", "S1", "INT"} /\ c = 46 -> "FLOAT"
    [] state = "S1" /\ ee_isdigit(c)          -> "INT"
    [] state \in {"INT", "FLOAT", "SCIENTIFIC"} /\ ee_isdigit(c) -> state
    [] state = "FLOAT" /\ c \in {69, 101}     -> "S2"
    [] state = "S2" /\ c \in {43, 45}         -> "EXPONENT"
    [] state = "EXPONENT" /\ ee_isdigit(c)    -> "SCIENTIFIC"
    [] OTHER                                  -> "INVALID"

(* The counters the switch bumps on the way from state to next.            *)
Bumped(state, next) ==
  (IF state \in {"START", "S1", "S2", "EXPONENT"} \/ (state \in {"INT", "FLOAT"} /\ next # state)
   THEN {state} ELSE {})
  \cup (IF next = "INVALID" /\ state \in {"START", "SCIENTIFIC"} THEN {"INVALID"} ELSE {})

(* core_state_transition from symbol p on: where it stops, in which state, *)
(* with which transition counts. A comma ends the token, an invalid symbol *)
(* ends it early; a scan that leaves the block has lost its terminator.    *)
core_state_transition(mem, start, counts) ==
  LET scan[p \in Nat, state \in StateNames, track \in [StateNames -> Nat]] ==
        IF p \notin DOMAIN mem \/ state = "INVALID" THEN [p |-> p, state |-> state, track |-> track]
        ELSE IF mem[p] \in {0, Comma}
        THEN [p |-> IF mem[p] = 0 THEN p ELSE p + 1, state |-> state, track |-> track]
        ELSE LET next == NextState(state, mem[p])
                 hit == Bumped(state, next)
             IN scan[p + 1, next, [k \in StateNames |-> track[k] + (IF k \in hit THEN 1 ELSE 0)]]
  IN scan[start, "START", counts]

(* The corruption loop and, with seed2, the loop that undoes it.           *)
Corrupt(mem, seed, step) ==
  [k \in DOMAIN mem |-> IF k % step = 0 /\ mem[k] # Comma THEN mem[k] ^^ U8(seed) ELSE mem[k]]

(* The counters folded into the CRC, final before track for each state.    *)
CrcCounts(final, track, crc) ==
  LET fold[n \in 1..9, c \in 0..65535] ==
        IF n = 9 THEN c
        ELSE fold[n + 1, crcu32(track[CORE_STATE[n]], crcu32(final[CORE_STATE[n]], c))]
  IN fold[1, crc]

=============================================================================
