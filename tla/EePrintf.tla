------------------------------ MODULE EePrintf -----------------------------
(* ee_printf of the barebones port (ee_printf.c, cvt.c), and parseval of   *)
(* core_util.c, which reads numbers back from a command line. A character  *)
(* is a string of one, a text a sequence of characters. A double is its    *)
(* exact decimal value: [neg, int, frac], frac its digits after the point. *)
EXTENDS Crc, Sequences

CONSTANTS
  Formats,     \* format strings
  Numbers,     \* integer arguments, as bit patterns of a long of sixteen bits
  Doubles, Strings, Chars, Addresses,   \* the other arguments
  Stars        \* arguments for a width or precision given as *

VARIABLE io    \* what ee_printf has done so far, or IdleIo

IdleIo == << >>
NoText == << >>

Digit == <<"0", "1", "2", "3", "4", "5", "6", "7", "8", "9", "a", "b", "c", "d", "e", "f">>
UpperDigit == <<"0", "1", "2", "3", "4", "5", "6", "7", "8", "9", "A", "B", "C", "D", "E", "F">>

Rep(c, n) == [k \in 1..n |-> c]
Larger(a, b) == IF a > b THEN a ELSE b

(* The digits of a positive number, the least significant last.            *)
InBase(num, base, dig) ==
  LET text[n \in Nat] == IF n = 0 THEN NoText ELSE Append(text[n \div base], dig[(n % base) + 1])
  IN text[num]

(* The room that sign and prefix leave in a field.                         *)
Room(size, sign, prefix) == size - Len(sign) - Len(prefix)

(* num = -num, as an unsigned long of sixteen bits.                        *)
Magnitude(num, negative) == IF negative THEN 65536 - num ELSE num

(* number: sign or prefix, at least precision digits, filled up to size    *)
(* with blanks before, zeroes between or blanks after.                     *)
number(num, base, size, precision, type) ==
  LET negative == "SIGN" \in type /\ num >= 32768
      sign == CASE negative -> <<"-">>
                [] ~negative /\ {"SIGN", "PLUS"} \subseteq type -> <<"+">>
                [] ~negative /\ "SIGN" \in type /\ "PLUS" \notin type /\ "SPACE" \in type -> <<" ">>
                [] OTHER -> NoText
      prefix == CASE "HEX_PREP" \in type /\ base = 16 -> <<"0", "x">>
                  [] "HEX_PREP" \in type /\ base = 8  -> <<"0">>
                  [] OTHER -> NoText
      digits == IF num = 0 THEN <<"0">>
                ELSE InBase(Magnitude(num, negative), base,
                            IF "UPPERCASE" \in type THEN UpperDigit ELSE Digit)
      least == Larger(precision, Len(digits))
      fill == Room(size, sign, prefix) - least
      body == Rep("0", least - Len(digits)) \o digits
  IN CASE "LEFT" \in type -> sign \o prefix \o body \o Rep(" ", fill)
       [] "LEFT" \notin type /\ "ZEROPAD" \in type -> sign \o prefix \o Rep("0", fill) \o body
       [] OTHER -> Rep(" ", fill) \o sign \o prefix \o body

(* The blanks around a text that %s, %c, eaddr and iaddr write.            *)
InField(text, size, type) ==
  IF "LEFT" \in type THEN text \o Rep(" ", size - Len(text)) ELSE Rep(" ", size - Len(text)) \o text

(* eaddr: six bytes, two digits each, with colons.                         *)
eaddr(addr, size, type) ==
  LET dig == IF "UPPERCASE" \in type THEN UpperDigit ELSE Digit
      tmp[n \in 0..6] ==
        IF n = 0 THEN NoText
        ELSE tmp[n - 1] \o (IF n = 1 THEN NoText ELSE <<":">>)
             \o <<dig[(addr[n] \div 16) + 1], dig[(addr[n] % 16) + 1]>>
  IN InField(tmp[6], size, type)

(* A byte of iaddr, by its hundreds and tens.                              *)
iaddr_byte(n) ==
  CASE n >= 100        -> <<Digit[(n \div 100) + 1], Digit[((n % 100) \div 10) + 1], Digit[(n % 10) + 1]>>
    [] n \in 10..99    -> <<Digit[(n \div 10) + 1], Digit[(n % 10) + 1]>>
    [] n \in 0..9      -> <<Digit[n + 1]>>

iaddr(addr, size, type) ==
  LET tmp[n \in 0..4] ==
        IF n = 0 THEN NoText
        ELSE tmp[n - 1] \o (IF n = 1 THEN NoText ELSE <<".">>) \o iaddr_byte(addr[n])
  IN InField(tmp[4], size, type)

(***************************************************************************)
(* cvt.c, as fcvtbuf calls it.                                             *)
(***************************************************************************)
IntDigits(n) ==
  LET ds[m \in Nat] == IF m = 0 THEN << >> ELSE Append(ds[m \div 10], m % 10) IN ds[n]

LeadingZeros(frac) ==
  IF \A j \in DOMAIN frac : frac[j] = 0 THEN 0
  ELSE (CHOOSE j \in DOMAIN frac : frac[j] # 0 /\ \A i \in 1..(j - 1) : frac[i] = 0) - 1

(* The number written by the first n digits of d, which goes on with 0s.   *)
DigitAt(d, j) == IF j \in DOMAIN d THEN d[j] ELSE 0

FirstDigits(d, n) ==
  LET value[j \in 0..n] == IF j = 0 THEN 0 ELSE 10 * value[j - 1] + DigitAt(d, j) IN value[n]

(* n as exactly len digits.                                                *)
Padded(n, len) == [j \in 1..len |-> (n \div 10^(len - j)) % 10]

(* MUTANT: the point does not move when the rounding adds a digit.         *)
fcvt_unmoved(arg, ndigits) ==
  LET fi == IntDigits(arg.int)
      d == IF fi # << >> THEN fi \o arg.frac
           ELSE SubSeq(arg.frac, LeadingZeros(arg.frac) + 1, Len(arg.frac))
      r2 == IF fi # << >> THEN Len(fi) ELSE -LeadingZeros(arg.frac)
      p1 == ndigits + r2
      rounded == FirstDigits(d, p1) + (IF DigitAt(d, p1 + 1) >= 5 THEN 1 ELSE 0)
  IN IF p1 < 0 THEN [digits |-> << >>, decpt |-> r2]
     ELSE IF rounded = 10^p1 THEN [digits |-> Padded(rounded, p1 + 1), decpt |-> r2]
     ELSE [digits |-> Padded(rounded, p1), decpt |-> r2]

(* cvt with eflag 0: the digits of the integral part, or none and the      *)
(* zeroes after the point skipped, then ndigits after the point; the next  *)
(* one rounds, and a carry out of the first digit makes one digit more.    *)
fcvt(arg, ndigits) ==
  LET fi == IntDigits(arg.int)
      d == IF fi # << >> THEN fi \o arg.frac
           ELSE SubSeq(arg.frac, LeadingZeros(arg.frac) + 1, Len(arg.frac))
      r2 == IF fi # << >> THEN Len(fi) ELSE -LeadingZeros(arg.frac)
      p1 == ndigits + r2
      rounded == FirstDigits(d, p1) + (IF DigitAt(d, p1 + 1) >= 5 THEN 1 ELSE 0)
  IN IF p1 < 0 THEN [digits |-> << >>, decpt |-> r2]
     ELSE IF rounded = 10^p1 THEN [digits |-> Padded(rounded, p1 + 1), decpt |-> r2 + 1]
     ELSE [digits |-> Padded(rounded, p1), decpt |-> r2]

AsText(ds) == [j \in DOMAIN ds |-> Digit[ds[j] + 1]]

(* parse_float with format f, the only one ee_vsprintf asks for.           *)
parse_float(value, precision) ==
  LET cv == fcvt(value, precision)
      n == Len(cv.digits)
  IN CASE n > 0 /\ cv.decpt <= 0 -> <<"0", ".">> \o Rep("0", -cv.decpt) \o AsText(cv.digits)
       [] n > 0 /\ cv.decpt > 0  -> AsText(SubSeq(cv.digits, 1, cv.decpt))
                                    \o (IF n > cv.decpt THEN <<".">> ELSE NoText)
                                    \o AsText(SubSeq(cv.digits, cv.decpt + 1, n))
       [] n = 0 -> <<"0">> \o (IF precision > 0 THEN <<".">> ELSE NoText) \o Rep("0", precision)

(* decimal_point: a text of %f without a point gets one at its end.        *)
decimal_point(text) ==
  IF \E j \in DOMAIN text : text[j] = "." THEN text ELSE Append(text, ".")

flt(num, size, prec, flags) ==
  LET precision == IF prec < 0 THEN 6 ELSE prec
      sign == CASE num.neg -> <<"-">>
                [] ~num.neg /\ "PLUS" \in flags -> <<"+">>
                [] ~num.neg /\ "PLUS" \notin flags /\ "SPACE" \in flags -> <<" ">>
                [] OTHER -> NoText
      raw == parse_float(num, precision)
      tmp == IF "HEX_PREP" \in flags /\ precision = 0 THEN decimal_point(raw) ELSE raw
      fill == Room(size, sign, NoText) - Len(tmp)
  IN CASE "LEFT" \in flags -> sign \o tmp \o Rep(" ", fill)
       [] "LEFT" \notin flags /\ "ZEROPAD" \in flags -> sign \o Rep("0", fill) \o tmp
       [] OTHER -> Rep(" ", fill) \o sign \o tmp

(***************************************************************************)
(* ee_vsprintf: the directives of a format.                                *)
(***************************************************************************)
NUL == "NUL"
At(text, j) == IF j \in DOMAIN text THEN text[j] ELSE NUL

DecimalDigits == {Digit[j] : j \in 1..10}
is_digit(c) == c \in DecimalDigits

DigitValue(c) == (CHOOSE j \in 1..16 : Digit[j] = c) - 1

(* The first place from j on where the text has no character of S.         *)
SkipOver(text, j, S) ==
  CHOOSE n \in j..(Len(text) + 1) : At(text, n) \notin S /\ \A i \in j..(n - 1) : text[i] \in S

(* skip_atoi's value of the digits from place j to before place n.         *)
skip_atoi(text, j, n) ==
  LET value[m \in j..n] == IF m = j THEN 0 ELSE 10 * value[m - 1] + DigitValue(text[m - 1])
  IN value[n]

FlagOf == [c \in {"-", "+", " ", "#", "0"} |->
             CASE c = "-" -> "LEFT" [] c = "+" -> "PLUS" [] c = " " -> "SPACE"
               [] c = "#" -> "HEX_PREP" [] c = "0" -> "ZEROPAD"]

(* The directive that starts with the % at place pos, with star for every  *)
(* star: flags, width, precision, qualifier and conversion, and the place  *)
(* of the conversion.                                                      *)
Directive(fmt, pos, star) ==
  LET f == SkipOver(fmt, pos + 1, DOMAIN FlagOf)
      w == IF At(fmt, f) = "*" THEN f + 1 ELSE SkipOver(fmt, f, DecimalDigits)
      width == IF At(fmt, f) = "*" THEN star ELSE IF w > f THEN skip_atoi(fmt, f, w) ELSE -1
      p == IF At(fmt, w) # "." THEN w
           ELSE IF At(fmt, w + 1) = "*" THEN w + 2 ELSE SkipOver(fmt, w + 1, DecimalDigits)
      precision == IF At(fmt, w) # "." THEN -1
                   ELSE IF At(fmt, w + 1) = "*" THEN Larger(star, 0) ELSE skip_atoi(fmt, w + 1, p)
      q == IF At(fmt, p) \in {"l", "L"} THEN p + 1 ELSE p
  IN [flags |-> {FlagOf[fmt[j]] : j \in (pos + 1)..(f - 1)}
                \cup (IF At(fmt, f) = "*" /\ star < 0 THEN {"LEFT"} ELSE {}),
      width |-> IF At(fmt, f) = "*" /\ star < 0 THEN -star ELSE width,
      precision |-> precision, long |-> At(fmt, p) = "l", conv |-> At(fmt, q), at |-> q]

IoInit ==
  \E fmt \in Formats : io = [pc |-> "format", fmt |-> fmt, pos |-> 1, str |-> NoText, last |-> NoText]

Formatting == io.pc = "format" /\ At(io.fmt, io.pos) # NUL

Literal ==
  /\ Formatting /\ At(io.fmt, io.pos) # "%"
  /\ io' = [io EXCEPT !.str = Append(@, io.fmt[io.pos]), !.pos = @ + 1, !.last = NoText]

(* A directive d writes text for arg.                                      *)
Write(d, arg, text) ==
  io' = [io EXCEPT !.str = @ \o text, !.pos = d.at + 1,
                   !.last = [d |-> d, arg |-> arg, text |-> text]]

Converting(star, convs) ==
  Formatting /\ At(io.fmt, io.pos) = "%" /\ Directive(io.fmt, io.pos, star).conv \in convs

ConvertChar ==
  \E star \in Stars, c \in Chars :
    /\ Converting(star, {"c"})
    /\ LET d == Directive(io.fmt, io.pos, star) IN Write(d, c, InField(<<c>>, d.width, d.flags))

(* At most precision characters of the string, when one is given.          *)
ConvertString ==
  \E star \in Stars, str \in Strings :
    /\ Converting(star, {"s"})
    /\ LET d == Directive(io.fmt, io.pos, star)
           len == IF d.precision >= 0 /\ d.precision < Len(str) THEN d.precision ELSE Len(str)
       IN Write(d, str, InField(SubSeq(str, 1, len), d.width, d.flags))

ConvertAddress ==
  \E star \in Stars, addr \in Addresses :
    /\ Converting(star, {"a", "A"})
    /\ LET d == Directive(io.fmt, io.pos, star)
           type == d.flags \cup (IF d.conv = "A" THEN {"UPPERCASE"} ELSE {})
       IN Write(d, addr, IF d.long THEN eaddr(addr, d.width, type) ELSE iaddr(addr, d.width, type))

Base(conv) == CASE conv = "o" -> 8 [] conv \in {"x", "X", "p"} -> 16 [] conv \in {"d", "i", "u"} -> 10

(* Integers, and pointers, which are four digits wide when a long has      *)
(* sixteen bits, unless the format says otherwise.                         *)
ConvertNumber ==
  \E star \in Stars, num \in Numbers :
    /\ Converting(star, {"o", "x", "X", "d", "i", "u", "p"})
    /\ LET d == Directive(io.fmt, io.pos, star)
           bare == d.conv = "p" /\ d.width = -1
           type == d.flags \cup (IF d.conv = "X" THEN {"UPPERCASE"} ELSE {})
                   \cup (IF d.conv \in {"d", "i"} THEN {"SIGN"} ELSE {})
                   \cup (IF bare THEN {"ZEROPAD"} ELSE {})
       IN Write(d, num, number(num, Base(d.conv), IF bare THEN 4 ELSE d.width, d.precision, type))

ConvertFloat ==
  \E star \in Stars, num \in Doubles :
    /\ Converting(star, {"f"})
    /\ LET d == Directive(io.fmt, io.pos, star)
       IN Write(d, num, flt(num, d.width, d.precision, d.flags))

(* Anything else is copied after its %, %% is one %, and a % at the end    *)
(* stays.                                                                  *)
ConvertOther ==
  \E star \in Stars :
    /\ Formatting /\ At(io.fmt, io.pos) = "%"
    /\ LET d == Directive(io.fmt, io.pos, star)
       IN /\ d.conv \notin {"c", "s", "p", "A", "a", "o", "X", "x", "d", "i", "u", "f"}
          /\ io' = [io EXCEPT !.pos = d.at + 1, !.last = NoText,
                    !.str = @ \o (IF d.conv = "%" THEN NoText ELSE <<"%">>)
                              \o (IF d.conv = NUL THEN NoText ELSE <<d.conv>>)]

(* ee_printf sends the text to the UART.                                   *)
ee_printf ==
  /\ io.pc = "format" /\ At(io.fmt, io.pos) = NUL
  /\ io' = [io EXCEPT !.pc = "sent"]

IoNext ==
  \/ Literal \/ ConvertChar \/ ConvertString \/ ConvertAddress \/ ConvertNumber \/ ConvertFloat
  \/ ConvertOther \/ ee_printf

(***************************************************************************)
(* parseval and get_seed_args of core_util.c, modulo 2^16: get_seed keeps  *)
(* the low half of what they return.                                       *)
(***************************************************************************)
HexDigits == {Digit[j] : j \in 1..16}

(* The digits of valstring from place j on, in base, with the qualifier    *)
(* that may follow.                                                        *)
Qualified(valstring, j, base) ==
  LET n == SkipOver(valstring, j, IF base = 16 THEN HexDigits ELSE DecimalDigits)
      retval[m \in j..n] ==
        IF m = j THEN 0 ELSE (base * retval[m - 1] + DigitValue(valstring[m - 1])) % 65536
  IN CASE At(valstring, n) = "K" -> (retval[n] * 1024) % 65536
       [] At(valstring, n) = "M" -> 0   \* 1024 * 1024 is a multiple of 2^16
       [] OTHER -> retval[n]

parseval(valstring) ==
  LET neg == At(valstring, 1) = "-"
      j == IF neg THEN 2 ELSE 1
      hexmode == At(valstring, j) = "0" /\ At(valstring, j + 1) = "x"
      retval == IF hexmode THEN Qualified(valstring, j + 2, 16) ELSE Qualified(valstring, j, 10)
  IN IF neg THEN (65536 - retval) % 65536 ELSE retval

(* argv with the program's name at 0.                                      *)
get_seed_args(i, argv) == IF i < Len(argv) THEN parseval(argv[i + 1]) ELSE 0

(* portable_init with more than one context built in: a first argument     *)
(* M<n> is taken off the command line, and its number is the contexts'.    *)
HasContexts(argv) == Len(argv) > 1 /\ At(argv[2], 1) = "M"

ContextsAsked(argv, multithread) ==
  IF HasContexts(argv) /\ parseval(Tail(argv[2])) <= multithread THEN parseval(Tail(argv[2])) ELSE multithread

ShiftArgs(argv) == IF HasContexts(argv) THEN <<argv[1]>> \o SubSeq(argv, 3, Len(argv)) ELSE argv

(***************************************************************************)
(* Properties of the last directive and its text.                          *)
(***************************************************************************)
Written(convs) == io # IdleIo /\ io.last # NoText /\ io.last.d.conv \in convs

NumberConvs == {"o", "x", "X", "d", "i", "u", "p"}

Matching(text, S) == SelectSeq(text, LAMBDA c : c \in S)

(* The number that a text with digits and other characters writes in base. *)
Reads(text, base) ==
  LET ds == Matching(text, HexDigits \cup {UpperDigit[j] : j \in 1..16})
      digit(c) == CHOOSE v \in 0..15 : c \in {Digit[v + 1], UpperDigit[v + 1]}
      value[n \in 0..Len(ds)] == IF n = 0 THEN 0 ELSE base * value[n - 1] + digit(ds[n])
  IN value[Len(ds)]

(* A field is never shorter than its width, whatever sign, prefix and      *)
(* precision take of it, and a longer one has no padding.                  *)
FieldWidthKept ==
  Written(NumberConvs \cup {"c", "s", "a", "A", "f"}) =>
    LET text == io.last.text  d == io.last.d
        width == IF d.conv = "p" /\ d.width = -1 THEN 4 ELSE d.width
    IN /\ Len(text) >= width
       /\ Len(text) > width /\ text # NoText =>
            IF "LEFT" \in d.flags THEN text[Len(text)] # " "
            ELSE "SPACE" \in d.flags \/ text[1] # " "

(* What number writes, padded with blanks or zeroes, signed or prefixed,   *)
(* means its argument: the sign is the sign and the digits, a prefix's     *)
(* zero included, are the magnitude.                                       *)
NumbersReadBack ==
  Written(NumberConvs) =>
    LET text == io.last.text
        value == Reads(text, Base(io.last.d.conv))
        negative == Matching(text, {"-"}) # NoText
    IN IF negative THEN io.last.d.conv \in {"d", "i"} /\ value \in 1..32768 /\ io.last.arg = 65536 - value
       ELSE io.last.arg = value

(* A seed that ee_printf wrote is the seed that parseval reads from a      *)
(* command line, in decimal, or in hexadecimal with its prefix, also when  *)
(* portable_init takes the number of contexts off first; a K behind it     *)
(* multiplies by 1024, and without an argument the seed is 0.              *)
SeedsReadBack ==
  Written(NumberConvs) =>
    LET text == io.last.text  d == io.last.d
        readable == /\ text[1] \notin {" ", "+"}
                    /\ \/ d.conv \in {"d", "i", "u"}
                       \/ d.conv \in {"x", "p"} /\ "HEX_PREP" \in d.flags
    IN readable =>
         /\ text[Len(text)] # " " =>
              get_seed_args(1, <<NoText, Append(text, "K")>>) = (io.last.arg * 1024) % 65536
         /\ \A argv \in {<<NoText, text>>, <<NoText, <<"M">> \o text, text>>} :
              /\ get_seed_args(1, ShiftArgs(argv)) = io.last.arg
              /\ get_seed_args(2, ShiftArgs(argv)) = 0
              /\ ContextsAsked(argv, 9) = IF Len(argv) = 3 /\ io.last.arg < 9 THEN io.last.arg ELSE 9

(* The argument times 10^p, rounded half away from zero.                   *)
Rounded(arg, p) ==
  arg.int * 10^p + FirstDigits(arg.frac, p) + (IF DigitAt(arg.frac, p + 1) >= 5 THEN 1 ELSE 0)

(* %f writes its argument rounded to the precision, with as many digits    *)
(* after the point, also where rounding carries into a new first digit and *)
(* where all digits asked for are zeroes before the first one.             *)
FloatIsRounded ==
  Written({"f"}) =>
    LET d == io.last.d
        p == IF d.precision < 0 THEN 6 ELSE d.precision
        text == Matching(io.last.text, DecimalDigits \cup {"."})
        points == {j \in DOMAIN text : text[j] = "."}
    IN /\ Reads(text, 10) = Rounded(io.last.arg, p)
       /\ points = IF p > 0 \/ "HEX_PREP" \in d.flags THEN {Len(text) - p} ELSE {}
       /\ Matching(io.last.text, {"-"}) # NoText <=> io.last.arg.neg

(* iaddr writes its four bytes as decimal numbers without leading zeroes,  *)
(* though it never divides by ten more than it must.                       *)
AddressesRead ==
  Written({"a", "A"}) /\ ~io.last.d.long =>
    LET decimal(n) == IF n = 0 THEN <<"0">> ELSE InBase(n, 10, Digit)
        addr == io.last.arg
    IN Matching(io.last.text, DecimalDigits \cup {"."}) =
         decimal(addr[1]) \o <<".">> \o decimal(addr[2]) \o <<".">> \o decimal(addr[3])
         \o <<".">> \o decimal(addr[4])

(* What ee_printf writes is what it was asked to write, whatever flags,    *)
(* width and precision a directive has: FieldWidthKept, NumbersReadBack,   *)
(* SeedsReadBack, FloatIsRounded and AddressesRead.                        *)
PrintsRight ==
  FieldWidthKept /\ NumbersReadBack /\ SeedsReadBack /\ FloatIsRounded /\ AddressesRead

=============================================================================
