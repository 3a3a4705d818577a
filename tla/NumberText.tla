----------------------------- MODULE NumberText -----------------------------
(***************************************************************************)
(* amount_to_string and value_to_string of utils.c, which write a number   *)
(* into a buffer from the right: the length is worked out first, the end   *)
(* is placed, and the loop must come to the first byte of the buffer       *)
(* exactly when it runs out of digits.                                     *)
(***************************************************************************)
EXTENDS Integers, Sequences, FiniteSetsExt, Powers

CONSTANTS
    Decimals,   \* 9 in the code: COIN is 10^Decimals
    Length,     \* bytes of the buffer (32 for a review page, 16 in the path)
    Inputs      \* the numbers to write

ASSUME LengthAssumption ==
    Decimals \in Nat \ {0, 1} /\ Length \in Nat \ {0} /\ Inputs \subseteq Nat

VARIABLES
    format,   \* "amount" or "value": which of the two functions runs
    input,    \* the number it was called with
    pc,       \* "measure", "write", "done" or "refused"
    rest,     \* what is left of the number
    i,        \* loop counter
    end,      \* the byte written last, as an index of buf
    show,     \* show_digit
    buf       \* the buffer: digits, the point, the null byte and junk

vars == <<format, input, pc, rest, i, end, show, buf>>

Pow10  == Power(10)
COIN   == Pow10[Decimals]
Point  == "."
Null   == "null"
Junk   == "junk"
Glyph(d) == <<"0", "1", "2", "3", "4", "5", "6", "7", "8", "9">>[d + 1]

\* The counting loops: how often n is divided by ten until nothing is left.
DigitCount(n) ==
    CHOOSE k \in 0 .. n : n \div Pow10[k] = 0 /\ (k = 0 \/ n \div Pow10[k - 1] # 0)

Digit(n, k) == (n \div Pow10[k]) % 10

\* The length of the fraction: up to its last digit that is not zero.
NonZero(n) == {k \in 0 .. Decimals - 1 : Digit(n, k) # 0}
\* Slip: the fraction is a digit short.
mantissa_len_short(n) == IF NonZero(n) = {} THEN 1 ELSE Decimals - Min(NonZero(n)) - 1
mantissa_len(n) == IF NonZero(n) = {} THEN 1 ELSE Decimals - Min(NonZero(n))

AtLeastOne(n)   == IF n = 0 THEN 1 ELSE n

total_len ==
    IF format = "amount"
       THEN AtLeastOne(DigitCount(input \div COIN)) + 1 + mantissa_len(input) + 1
       ELSE AtLeastOne(DigitCount(input)) + 1

Init ==
    /\ format \in {"amount", "value"}
    /\ input \in Inputs
    /\ pc = "measure"
    /\ rest = input
    /\ i = 0
    /\ end = 0
    /\ show = FALSE
    /\ buf = [k \in 0 .. Length - 1 |-> Junk]

\* A number that does not fit leaves an empty text, or no text at all.
TooLong ==
    /\ pc = "measure"
    /\ total_len > Length
    /\ pc' = "refused"
    /\ buf' = IF format = "amount" THEN [buf EXCEPT ![0] = Null] ELSE buf
    /\ UNCHANGED <<format, input, rest, i, end, show>>

Terminate ==
    /\ pc = "measure"
    /\ total_len <= Length
    /\ pc' = "write"
    /\ end' = total_len - 1
    /\ buf' = [buf EXCEPT ![end'] = Null]
    /\ UNCHANGED <<format, input, rest, i, show>>

Write(glyph) ==
    /\ end' = end - 1
    /\ buf' = [k \in DOMAIN buf \union {end'} |-> IF k = end' THEN glyph ELSE buf[k]]

More == IF format = "amount" THEN rest # 0 \/ i < Decimals + 2 ELSE rest # 0 \/ i < 1

PutPoint ==
    /\ pc = "write" /\ More
    /\ format = "amount" /\ i = Decimals
    /\ Write(Point)
    /\ i' = i + 1
    /\ UNCHANGED <<format, input, pc, rest, show>>

\* Slip: the digit after the point is dropped when the fraction is zero.
Shown_bare(digit) == format = "value" \/ i > Decimals - 1 \/ digit # 0 \/ show
Shown(digit) ==
    format = "value" \/ i > Decimals - 2 \/ (digit # 0 /\ i < Decimals - 1) \/ show

PutDigit ==
    /\ pc = "write" /\ More
    /\ ~ (format = "amount" /\ i = Decimals)
    /\ LET digit == rest % 10
       IN  IF Shown(digit)
              THEN Write(Glyph(digit)) /\ show' = TRUE
              ELSE UNCHANGED <<end, buf, show>>
    /\ rest' = rest \div 10
    /\ i' = i + 1
    /\ UNCHANGED <<format, input, pc>>

Return ==
    /\ pc = "write" /\ ~ More
    /\ pc' = "done"
    /\ UNCHANGED <<format, input, rest, i, end, show, buf>>

Next == TooLong \/ Terminate \/ PutPoint \/ PutDigit \/ Return

Spec == Init /\ [][Next]_vars

----------------------------------------------------------------------------
(* What the screen shows: the bytes up to the null byte.                   *)
TextLength == CHOOSE k \in DOMAIN buf : buf[k] = Null /\ \A j \in 0 .. k - 1 : buf[j] # Null
Text == [k \in 1 .. TextLength |-> buf[k - 1]]

(* The number in decimal, written down directly: the units, a point and    *)
(* the fraction up to its last non-zero digit, one digit at least.         *)
Digits(n, count) == [k \in 1 .. count |-> Glyph(Digit(n, count - k))]
Fraction(n) == LET digits == Digits(n, Decimals)
                   last == {k \in 1 .. Decimals : digits[k] # "0"}
               IN  SubSeq(digits, 1, Max(last \union {1}))
Units(n) == Digits(n, AtLeastOne(DigitCount(n)))
Decimal(fmt, n) ==
    IF fmt = "amount" THEN Units(n \div COIN) \o <<Point>> \o Fraction(n) ELSE Units(n)

(* The loop never writes before the buffer or past its end, and every byte *)
(* from end on is written.                                                 *)
WithinBuffer ==
    /\ DOMAIN buf = 0 .. Length - 1
    /\ pc = "write" => \A k \in end .. total_len - 1 : buf[k] # Junk

(* The text returned is the number in decimal, to the last digit, and      *)
(* starts at the first byte of the buffer.                                 *)
ShowsTheNumber ==
    /\ pc = "done" => end = 0 /\ Text = Decimal(format, input)
    /\ pc = "refused" => Len(Decimal(format, input)) >= Length
=============================================================================
