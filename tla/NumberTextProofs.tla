-------------------------- MODULE NumberTextProofs --------------------------
(***************************************************************************)
(* Theorems about NumberText: for every number, however long, every number *)
(* of decimals and every buffer.                                           *)
(***************************************************************************)
EXTENDS NumberText, NatLemmas

----------------------------------------------------------------------------
(* Digits and how many there are.                                          *)

LEMMA Tens ==
    /\ \A k \in Nat : Pow10[k] \in Nat \ {0}
    /\ \A k \in Nat : k < Pow10[k]
    /\ \A j, k \in Nat : j <= k => Pow10[j] <= Pow10[k]
    /\ \A k \in Nat : Pow10[k + 1] = 10 * Pow10[k]
    /\ Pow10[0] = 1
BY PowerPositive, PowerLarge, PowerGrows, PowerUnfolds DEF Pow10

LEMMA Shifted ==
    ASSUME NEW n \in Nat, NEW k \in Nat
    PROVE  /\ n \div Pow10[k] \in Nat
           /\ n \div Pow10[k] = 0 <=> n < Pow10[k]
           /\ (n \div Pow10[k]) \div 10 = n \div Pow10[k + 1]
           /\ Digit(n, k) \in 0 .. 9
<1>1. Pow10[k] \in Nat \ {0} /\ Pow10[k + 1] = Pow10[k] * 10
    BY Tens
<1>2. n \div Pow10[k] \in Nat /\ (n \div Pow10[k] = 0 <=> n < Pow10[k])
    BY <1>1, QuotientBounds
<1>3. (n \div Pow10[k]) \div 10 = n \div Pow10[k + 1]
    BY <1>1, DivideTwice
<1>4. \A q \in Nat : q % 10 \in 0 .. 9
    OBVIOUS
<1>5. Digit(n, k) \in 0 .. 9
    BY <1>2, <1>4 DEF Digit
<1> QED BY <1>2, <1>3, <1>5

(* The counting loops stop, and what they count is the number of digits.   *)
LEMMA DigitsCounted ==
    ASSUME NEW n \in Nat
    PROVE  /\ DigitCount(n) \in Nat
           /\ \A k \in Nat : n \div Pow10[k] = 0 <=> DigitCount(n) <= k
<1> DEFINE S == {k \in Nat : n \div Pow10[k] = 0}
<1>1. n \in S
    BY Tens, Shifted
<1>2. PICK least \in S : \A k \in S : least <= k
    BY <1>1, LeastOfSet
<1>3. least \in 0 .. n /\ n \div Pow10[least] = 0
    BY <1>1, <1>2
<1>4. least = 0 \/ n \div Pow10[least - 1] # 0
  <2> SUFFICES ASSUME least # 0 PROVE least - 1 \notin S
      BY <1>3
  <2> QED BY <1>2, <1>3
<1> DEFINE c == DigitCount(n)
<1>5. c \in 0 .. n /\ n \div Pow10[c] = 0 /\ (c = 0 \/ n \div Pow10[c - 1] # 0)
    BY <1>3, <1>4 DEF DigitCount
<1> HIDE DEF c
<1>8. c \in Nat
    BY <1>5
<1>6. ASSUME NEW k \in Nat, c <= k PROVE n \div Pow10[k] = 0
  <2>1. Pow10[c] <= Pow10[k] /\ Pow10[c] \in Nat /\ Pow10[k] \in Nat /\ n < Pow10[c]
      BY <1>5, <1>6, <1>8, Shifted, Tens
  <2>2. n < Pow10[k]
      BY <2>1
  <2> QED BY <2>2, Shifted
<1>7. ASSUME NEW k \in Nat, k < c PROVE n \div Pow10[k] # 0
  <2>1. c - 1 \in Nat /\ k <= c - 1 /\ n \div Pow10[c - 1] # 0
      BY <1>5, <1>7
  <2>2. ~ (n < Pow10[c - 1]) /\ Pow10[k] <= Pow10[c - 1] /\ Pow10[k] \in Nat /\ Pow10[c - 1] \in Nat
      BY <2>1, Shifted, Tens
  <2>3. ~ (n < Pow10[k])
      BY <2>2
  <2> QED BY <2>3, Shifted
<1> QED BY <1>6, <1>7, <1>8 DEF c

(* Of the fraction, all digits before the first one that is shown are      *)
(* zeros, and that one is not, unless it is the digit after the point.     *)
Lowest(n) == Decimals - mantissa_len(n)

LEMMA FractionShown ==
    ASSUME NEW n \in Nat
    PROVE  /\ mantissa_len(n) \in 1 .. Decimals
           /\ Lowest(n) \in 0 .. Decimals - 1
           /\ \A k \in 0 .. Lowest(n) - 1 : Digit(n, k) = 0
           /\ Lowest(n) < Decimals - 1 => Digit(n, Lowest(n)) # 0
<1>1. Decimals \in Nat /\ Decimals >= 2
    BY LengthAssumption
<1>2. CASE NonZero(n) = {}
  <2>1. mantissa_len(n) = 1 /\ Lowest(n) = Decimals - 1
      BY <1>2 DEF mantissa_len, Lowest
  <2> QED BY <1>1, <1>2, <2>1 DEF NonZero
<1>3. CASE NonZero(n) # {}
  <2>1. NonZero(n) \subseteq Nat
      BY <1>1 DEF NonZero
  <2>2. \E x \in NonZero(n) : \A y \in NonZero(n) : x <= y
      BY <1>3, <2>1, LeastOfSet
  <2>3. Min(NonZero(n)) \in NonZero(n) /\ \A y \in NonZero(n) : Min(NonZero(n)) <= y
      BY <2>2 DEF Min
  <2> DEFINE low == Min(NonZero(n))
  <2>4. mantissa_len(n) = Decimals - low
      BY <1>3 DEF mantissa_len
  <2> HIDE DEF low
  <2>5. low \in 0 .. Decimals - 1 /\ Digit(n, low) # 0
      BY <2>3 DEF NonZero, low
  <2>6. \A y \in NonZero(n) : low <= y
      BY <2>3 DEF low
  <2>7. Lowest(n) = low
      BY <1>1, <2>4, <2>5 DEF Lowest
  <2>8. \A k \in 0 .. low - 1 : k \notin NonZero(n) /\ k \in 0 .. Decimals - 1
      BY <1>1, <2>5, <2>6
  <2>9. \A k \in 0 .. low - 1 : Digit(n, k) = 0
      BY <2>8 DEF NonZero
  <2> QED BY <1>1, <2>4, <2>5, <2>7, <2>9
<1> QED BY <1>2, <1>3

----------------------------------------------------------------------------
(* The state of the loop, by the number of its turns.                      *)

IsAmount == format = "amount"

\* Digits before the point.
Whole == AtLeastOne(DigitCount(IF IsAmount THEN input \div COIN ELSE input))

\* The next digit, the first that is shown, and the bytes they go to.
NextDigit  == IF IsAmount /\ i > Decimals THEN i - 1 ELSE i
FirstShown == IF IsAmount THEN Lowest(input) ELSE 0
Place(k)   == IF ~ IsAmount THEN Whole - 1 - k
              ELSE IF k < Decimals THEN Whole + Decimals - k
              ELSE Whole - 1 - (k - Decimals)
Turns      == IF IsAmount THEN Whole + Decimals + 1 ELSE Whole

Typed ==
    /\ format \in {"amount", "value"} /\ input \in Nat /\ i \in Nat /\ show \in BOOLEAN
    /\ pc \in {"measure", "write", "done", "refused"}
    /\ DOMAIN buf = 0 .. Length - 1
    /\ pc = "measure" => rest = input /\ i = 0 /\ show = FALSE
    /\ pc = "refused" => total_len > Length

Written ==
    /\ total_len <= Length
    /\ i <= Turns
    /\ rest = input \div Pow10[NextDigit]
    /\ end = Turns - (IF i < FirstShown THEN FirstShown ELSE i)
    /\ IsAmount => (show <=> i > FirstShown)
    /\ buf[total_len - 1] = Null
    /\ \A k \in FirstShown .. NextDigit - 1 : buf[Place(k)] = Glyph(Digit(input, k))
    /\ IsAmount /\ i > Decimals => buf[Whole] = Point

LoopInv ==
    /\ Typed
    /\ pc \in {"write", "done"} => Written
    /\ pc = "done" => i = Turns

LEMMA Measures ==
    ASSUME Typed
    PROVE  /\ Whole \in Nat \ {0} /\ FirstShown \in Nat /\ Turns \in Nat /\ FirstShown < Turns
           /\ total_len = Turns - FirstShown + 1
           /\ IsAmount => FirstShown \in 0 .. Decimals - 1 /\ Turns = Whole + Decimals + 1
           /\ ~ IsAmount => FirstShown = 0 /\ Turns = Whole
<1>1. Decimals \in Nat /\ Decimals >= 2
    BY LengthAssumption
<1>2. input \in Nat /\ input \div COIN \in Nat
    BY <1>1, Shifted DEF Typed, COIN
<1>3. \A n \in Nat : AtLeastOne(DigitCount(n)) \in Nat \ {0}
    BY DigitsCounted DEF AtLeastOne
<1>4. Whole \in Nat \ {0}
    BY <1>2, <1>3 DEF Whole
<1>5. CASE IsAmount
  <2>1. total_len = Whole + 1 + mantissa_len(input) + 1
      BY <1>5 DEF total_len, Whole, IsAmount
  <2>2. FirstShown = Decimals - mantissa_len(input) /\ Turns = Whole + Decimals + 1
      BY <1>5 DEF FirstShown, Turns, Lowest
  <2>3. mantissa_len(input) \in 1 .. Decimals
      BY <1>2, FractionShown
  <2> QED BY <1>1, <1>4, <1>5, <2>1, <2>2, <2>3
<1>6. CASE ~ IsAmount
  <2>1. total_len = Whole + 1 /\ FirstShown = 0 /\ Turns = Whole
      BY <1>6 DEF total_len, Whole, IsAmount, FirstShown, Turns
  <2> QED BY <1>4, <1>6, <2>1
<1> QED BY <1>5, <1>6

(* The loop runs exactly as often as there are bytes to write: its         *)
(* condition, over what is left of the number, counts them down.           *)
LEMMA TurnsLeft ==
    ASSUME Typed, Written
    PROVE  More <=> i < Turns
<1>1. Decimals \in Nat /\ Decimals >= 2 /\ input \in Nat /\ i \in Nat
    BY LengthAssumption DEF Typed
<1>2. \A n \in Nat, k \in Nat : n \div Pow10[k] = 0 <=> DigitCount(n) <= k
    BY DigitsCounted
<1>3. \A n \in Nat : DigitCount(n) \in Nat
    BY DigitsCounted
<1>4. CASE ~ IsAmount
  <2>1. rest = input \div Pow10[i]
      BY <1>4 DEF Written, NextDigit
  <2>2. rest # 0 <=> i < DigitCount(input)
      BY <1>1, <1>2, <1>3, <2>1
  <2>3. Turns = IF DigitCount(input) = 0 THEN 1 ELSE DigitCount(input)
      BY <1>4 DEF Turns, Whole, AtLeastOne
  <2>4. More <=> rest # 0 \/ i < 1
      BY <1>4 DEF More, IsAmount
  <2> QED BY <1>1, <1>3, <2>2, <2>3, <2>4
<1>5. CASE IsAmount /\ i <= Decimals
  <2>1. More
      BY <1>1, <1>5 DEF More, IsAmount
  <2>2. i < Turns
      BY <1>1, <1>5, Measures
  <2> QED BY <2>1, <2>2
<1>6. CASE IsAmount /\ i > Decimals
  <2> DEFINE j == i - 1 - Decimals
             whole == input \div COIN
  <2>1. j \in Nat /\ i - 1 = Decimals + j
      BY <1>1, <1>6
  <2>2. rest = input \div Pow10[Decimals + j]
      BY <1>1, <1>6, <2>1 DEF Written, NextDigit
  <2> HIDE DEF j
  <2>a. Power(10)[Decimals + j] = Power(10)[Decimals] * Power(10)[j]
      BY <1>1, <2>1, PowerOfSum
  <2>b. Pow10[Decimals + j] = COIN * Pow10[j]
      BY <2>a DEF COIN, Pow10
  <2>3. Pow10[Decimals + j] = COIN * Pow10[j] /\ COIN \in Nat \ {0} /\ Pow10[j] \in Nat \ {0}
      BY <1>1, <2>1, <2>b, Tens DEF COIN
  <2>4. rest = whole \div Pow10[j]
      BY <1>1, <2>2, <2>3, DivideTwice
  <2>5. whole \in Nat
      BY <1>1, Shifted DEF COIN
  <2>6. rest # 0 <=> j < DigitCount(whole)
      BY <1>2, <1>3, <2>1, <2>4, <2>5
  <2>7. Turns = Decimals + 1 + (IF DigitCount(whole) = 0 THEN 1 ELSE DigitCount(whole))
      BY <1>1, <1>3, <1>6, <2>5 DEF Turns, Whole, AtLeastOne
  <2>8. More <=> rest # 0 \/ i < Decimals + 2
      BY <1>6 DEF More, IsAmount
  <2>9. DigitCount(whole) \in Nat
      BY <1>3, <2>5
  <2> HIDE DEF whole
  <2> QED BY <1>1, <2>1, <2>6, <2>7, <2>8, <2>9
<1> QED BY <1>1, <1>4, <1>5, <1>6

(* What is written lies between end and the null byte, and the next digit  *)
(* goes to the byte before end.                                            *)
LEMMA Placed ==
    ASSUME Typed, Written
    PROVE  /\ end \in 0 .. total_len - 1
           /\ i < Turns => end > 0
           /\ NextDigit \in Nat
           /\ \A k \in FirstShown .. NextDigit - 1 : Place(k) \in end .. total_len - 2
           /\ IsAmount /\ i > Decimals => Whole \in end .. total_len - 2
           /\ i < Turns /\ i >= FirstShown /\ ~ (IsAmount /\ i = Decimals) =>
                  Place(NextDigit) = end - 1
           /\ IsAmount /\ i = Decimals => end - 1 = Whole
<1>1. Decimals \in Nat /\ Decimals >= 2 /\ i \in Nat /\ i <= Turns
    BY LengthAssumption DEF Typed, Written
<1>2. /\ Whole \in Nat \ {0} /\ FirstShown \in Nat /\ Turns \in Nat /\ FirstShown < Turns
      /\ total_len = Turns - FirstShown + 1
      /\ IsAmount => FirstShown \in 0 .. Decimals - 1 /\ Turns = Whole + Decimals + 1
      /\ ~ IsAmount => FirstShown = 0 /\ Turns = Whole
    BY Measures
<1>3. end = Turns - (IF i < FirstShown THEN FirstShown ELSE i)
    BY DEF Written
<1>4. NextDigit \in Nat
    BY <1>1 DEF NextDigit
<1>5. end \in 0 .. total_len - 1 /\ (i < Turns => end > 0)
    BY <1>1, <1>2, <1>3
<1>6. ASSUME NEW k \in FirstShown .. NextDigit - 1 PROVE Place(k) \in end .. total_len - 2
    BY <1>1, <1>2, <1>3, <1>4 DEF Place, NextDigit
<1>7. IsAmount /\ i > Decimals => Whole \in end .. total_len - 2
    BY <1>1, <1>2, <1>3
<1>8. i < Turns /\ i >= FirstShown /\ ~ (IsAmount /\ i = Decimals) => Place(NextDigit) = end - 1
    BY <1>1, <1>2, <1>3, <1>4 DEF Place, NextDigit
<1>9. IsAmount /\ i = Decimals => end - 1 = Whole
    BY <1>1, <1>2, <1>3
<1> QED BY <1>4, <1>5, <1>6, <1>7, <1>8, <1>9

----------------------------------------------------------------------------
(* What does not change while a number is written.                         *)
LEMMA SameNumber ==
    ASSUME UNCHANGED <<format, input>>
    PROVE  /\ Whole' = Whole /\ FirstShown' = FirstShown /\ Turns' = Turns
           /\ total_len' = total_len /\ (IsAmount' <=> IsAmount)
           /\ \A k : Place(k)' = Place(k)
BY DEF Whole, FirstShown, Turns, total_len, IsAmount, Place

LEMMA Starts ==
    ASSUME Init
    PROVE  LoopInv
BY LengthAssumption DEF Init, LoopInv, Typed

LEMMA Measured ==
    ASSUME LoopInv, TooLong \/ Terminate
    PROVE  LoopInv'
<1>1. Typed /\ pc = "measure" /\ Length \in Nat \ {0} /\ UNCHANGED <<format, input, rest, i, show>>
    BY LengthAssumption DEF LoopInv, TooLong, Terminate
<1>2. /\ Whole' = Whole /\ FirstShown' = FirstShown /\ Turns' = Turns
      /\ total_len' = total_len /\ (IsAmount' <=> IsAmount)
    BY <1>1, SameNumber
<1>3. CASE TooLong
  <2>1. Typed'
      BY <1>1, <1>2, <1>3 DEF TooLong, Typed
  <2> QED BY <1>3, <2>1 DEF TooLong, LoopInv
<1>4. CASE Terminate
  <2>1. total_len \in Nat /\ total_len - 1 \in 0 .. Length - 1
      BY <1>1, <1>4, Measures DEF Terminate
  <2>2. DOMAIN buf' = 0 .. Length - 1 /\ buf'[total_len - 1] = Null /\ end' = total_len - 1
      BY <1>1, <1>4, <2>1 DEF Terminate, Typed
  <2>3. Typed' /\ pc' = "write"
      BY <1>1, <1>2, <1>4, <2>2 DEF Terminate, Typed
  <2>4. i = 0 /\ rest = input /\ show = FALSE /\ input \in Nat
      BY <1>1 DEF Typed
  <2>5. /\ Whole \in Nat \ {0} /\ FirstShown \in Nat /\ Turns \in Nat /\ FirstShown < Turns
        /\ total_len = Turns - FirstShown + 1
      BY <1>1, Measures
  <2>6. NextDigit' = 0
      BY <1>1, <2>4, LengthAssumption DEF NextDigit
  <2>7. input = input \div Pow10[0]
      BY <2>4, Tens
  <2>8. rest' = input' \div Pow10[NextDigit']
      BY <1>1, <2>4, <2>6, <2>7
  <2>9. end' = Turns' - (IF i' < FirstShown' THEN FirstShown' ELSE i')
      BY <1>1, <1>2, <2>2, <2>4, <2>5
  <2>10. IsAmount' => (show' <=> i' > FirstShown')
      BY <1>1, <1>2, <2>4, <2>5
  <2>11. total_len' <= Length /\ i' <= Turns'
      BY <1>1, <1>2, <1>4, <2>4, <2>5 DEF Terminate
  <2>12. FirstShown' .. NextDigit' - 1 = {}
      BY <1>2, <2>5, <2>6
  <2>13. ~ (i' > Decimals)
      BY <1>1, <2>4, LengthAssumption
  <2>14. Written'
      BY <1>2, <2>2, <2>8, <2>9, <2>10, <2>11, <2>12, <2>13 DEF Written
  <2> QED BY <2>3, <2>14 DEF LoopInv
<1> QED BY <1>3, <1>4

LEMMA Pointed ==
    ASSUME LoopInv, PutPoint
    PROVE  LoopInv'
<1>1. /\ Typed /\ Written /\ pc = "write" /\ More /\ format = "amount" /\ i = Decimals
      /\ i' = i + 1 /\ UNCHANGED <<format, input, pc, rest, show>>
      /\ end' = end - 1
      /\ buf' = [k \in DOMAIN buf \union {end'} |-> IF k = end' THEN Point ELSE buf[k]]
    BY DEF PutPoint, Write, LoopInv
<1>2. /\ Whole' = Whole /\ FirstShown' = FirstShown /\ Turns' = Turns
      /\ total_len' = total_len /\ (IsAmount' <=> IsAmount)
      /\ \A k : Place(k)' = Place(k)
    BY <1>1, SameNumber
<1>3. IsAmount /\ Decimals \in Nat /\ Decimals >= 2
    BY <1>1, LengthAssumption DEF IsAmount
<1>4. /\ Whole \in Nat \ {0} /\ FirstShown \in 0 .. Decimals - 1 /\ Turns = Whole + Decimals + 1
      /\ total_len = Turns - FirstShown + 1
    BY <1>1, <1>3, Measures
<1>5. /\ end \in 0 .. total_len - 1 /\ end' = Whole
      /\ \A k \in FirstShown .. NextDigit - 1 : Place(k) \in end .. total_len - 2
    BY <1>1, <1>3, Placed
<1>6. end = Turns - i /\ total_len <= Length /\ (show <=> i > FirstShown)
    BY <1>1, <1>3, <1>4 DEF Written
<1>7. DOMAIN buf = 0 .. Length - 1 /\ Length \in Nat
    BY <1>1, LengthAssumption DEF Typed
<1>8. end' \in 0 .. Length - 1
    BY <1>1, <1>3, <1>4, <1>5, <1>6, <1>7
<1>9. /\ DOMAIN buf' = 0 .. Length - 1 /\ buf'[end'] = Point
      /\ \A k \in 0 .. Length - 1 : k # end' => buf'[k] = buf[k]
    BY <1>1, <1>7, <1>8
<1>10. Typed'
    BY <1>1, <1>2, <1>3, <1>9 DEF Typed
<1>11. NextDigit' = Decimals /\ NextDigit = Decimals
    BY <1>1, <1>2, <1>3 DEF NextDigit
<1>12. rest' = input' \div Pow10[NextDigit']
    BY <1>1, <1>11 DEF Written
<1>13. end' = Turns' - (IF i' < FirstShown' THEN FirstShown' ELSE i')
    BY <1>1, <1>2, <1>3, <1>4, <1>6
<1>14. show' <=> i' > FirstShown'
    BY <1>1, <1>2, <1>3, <1>4, <1>6
<1>15. total_len' <= Length /\ i' <= Turns'
    BY <1>1, <1>2, <1>3, <1>4, <1>6
<1>16. buf'[total_len' - 1] = Null
  <2>1. total_len - 1 \in 0 .. Length - 1 /\ total_len - 1 # end'
      BY <1>1, <1>3, <1>4, <1>6, <1>7, <1>5
  <2> QED BY <1>1, <1>2, <1>9, <2>1 DEF Written
<1>17. ASSUME NEW k \in FirstShown' .. NextDigit' - 1 PROVE buf'[Place(k)'] = Glyph(Digit(input, k))'
  <2>1. k \in FirstShown .. NextDigit - 1
      BY <1>2, <1>11
  <2>2. Place(k)' = Place(k) /\ Place(k) \in end .. total_len - 2
      BY <1>2, <1>5, <2>1
  <2>3. Place(k) \in 0 .. Length - 1 /\ Place(k) # end'
      BY <1>1, <1>4, <1>5, <1>6, <1>7, <2>2, SMTT(30)
  <2>4. buf[Place(k)] = Glyph(Digit(input, k))
      BY <1>1, <2>1 DEF Written
  <2> QED BY <1>1, <1>9, <2>2, <2>3, <2>4 DEF Glyph, Digit
<1>18. buf'[Whole'] = Point
    BY <1>2, <1>5, <1>9
<1>19. Written'
    BY <1>2, <1>12, <1>13, <1>14, <1>15, <1>16, <1>17, <1>18 DEF Written
<1> QED BY <1>1, <1>10, <1>19 DEF LoopInv

(* Digits are shown from the first to show on.                             *)
LEMMA DigitShown ==
    ASSUME Typed, Written, ~ (IsAmount /\ i = Decimals)
    PROVE  /\ rest % 10 = Digit(input, NextDigit)
           /\ Shown(rest % 10) <=> i >= FirstShown
<1>1. Decimals \in Nat /\ Decimals >= 2 /\ i \in Nat /\ input \in Nat /\ rest = input \div Pow10[NextDigit]
    BY LengthAssumption DEF Typed, Written
<1>2. rest % 10 = Digit(input, NextDigit)
    BY <1>1 DEF Digit
<1>3. CASE ~ IsAmount
  <2>1. Shown(rest % 10)
      BY <1>1, <1>3 DEF Shown, IsAmount, Typed
  <2>2. FirstShown = 0
      BY <1>3, Measures
  <2> QED BY <1>1, <1>2, <2>1, <2>2
<1>4. CASE IsAmount
  <2>1. /\ FirstShown = Lowest(input) /\ FirstShown \in 0 .. Decimals - 1
        /\ show <=> i > FirstShown
      BY <1>4, Measures DEF FirstShown, Written
  <2>2. Shown(rest % 10) <=>
            \/ i > Decimals - 2
            \/ rest % 10 # 0 /\ i < Decimals - 1
            \/ show
      BY <1>4 DEF Shown, IsAmount
  <2>3. CASE i < FirstShown
    <3>1. NextDigit = i /\ i <= Decimals - 2
        BY <1>1, <2>1, <2>3 DEF NextDigit
    <3>2. rest % 10 = 0
        BY <1>1, <1>2, <2>1, <2>3, <3>1, FractionShown
    <3> QED BY <1>1, <1>2, <2>1, <2>2, <2>3, <3>1, <3>2
  <2>4. CASE i = FirstShown
    <3>1. NextDigit = i
        BY <1>1, <2>1, <2>4 DEF NextDigit
    <3>2. i < Decimals - 1 => rest % 10 # 0
        BY <1>1, <1>2, <2>1, <2>4, <3>1, FractionShown
    <3> QED BY <1>1, <1>2, <2>1, <2>2, <2>4, <3>2
  <2>5. CASE i > FirstShown
      BY <1>1, <1>2, <2>1, <2>2, <2>5
  <2> QED BY <1>1, <2>1, <2>3, <2>4, <2>5
<1> QED BY <1>3, <1>4

LEMMA DigitPut ==
    ASSUME LoopInv, PutDigit
    PROVE  LoopInv'
<1>1. /\ Typed /\ Written /\ pc = "write" /\ More /\ ~ (IsAmount /\ i = Decimals)
      /\ rest' = rest \div 10 /\ i' = i + 1 /\ UNCHANGED <<format, input, pc>>
    BY DEF PutDigit, LoopInv, IsAmount
<1>2. /\ Whole' = Whole /\ FirstShown' = FirstShown /\ Turns' = Turns
      /\ total_len' = total_len /\ (IsAmount' <=> IsAmount)
      /\ \A k : Place(k)' = Place(k)
    BY <1>1, SameNumber
<1>3. /\ Decimals \in Nat /\ Decimals >= 2 /\ i \in Nat /\ input \in Nat /\ Length \in Nat
      /\ DOMAIN buf = 0 .. Length - 1 /\ show \in BOOLEAN
    BY <1>1, LengthAssumption DEF Typed
<1>4. /\ Whole \in Nat \ {0} /\ FirstShown \in Nat /\ Turns \in Nat /\ FirstShown < Turns
      /\ total_len = Turns - FirstShown + 1
      /\ IsAmount => FirstShown \in 0 .. Decimals - 1 /\ Turns = Whole + Decimals + 1
      /\ ~ IsAmount => FirstShown = 0 /\ Turns = Whole
    BY <1>1, Measures
<1>5. i < Turns
    BY <1>1, TurnsLeft
<1>6. /\ end \in 0 .. total_len - 1 /\ end > 0 /\ NextDigit \in Nat
      /\ \A k \in FirstShown .. NextDigit - 1 : Place(k) \in end .. total_len - 2
      /\ IsAmount /\ i > Decimals => Whole \in end .. total_len - 2
      /\ i >= FirstShown => Place(NextDigit) = end - 1
    BY <1>1, <1>5, Placed
<1>7. /\ total_len <= Length /\ end = Turns - (IF i < FirstShown THEN FirstShown ELSE i)
      /\ rest = input \div Pow10[NextDigit]
      /\ IsAmount => (show <=> i > FirstShown)
      /\ buf[total_len - 1] = Null
      /\ \A k \in FirstShown .. NextDigit - 1 : buf[Place(k)] = Glyph(Digit(input, k))
      /\ IsAmount /\ i > Decimals => buf[Whole] = Point
    BY <1>1 DEF Written
<1>8. NextDigit' = NextDigit + 1
    BY <1>1, <1>2, <1>3 DEF NextDigit
<1>9. rest' = input' \div Pow10[NextDigit']
    BY <1>1, <1>3, <1>6, <1>7, <1>8, Shifted
<1>10. rest % 10 = Digit(input, NextDigit) /\ (Shown(rest % 10) <=> i >= FirstShown)
    BY <1>1, DigitShown
<1>11. total_len' <= Length /\ i' <= Turns'
    BY <1>1, <1>2, <1>3, <1>4, <1>5, <1>7
<1>12. CASE i < FirstShown
  <2>1. UNCHANGED <<end, buf, show>>
      BY <1>3, <1>4, <1>10, <1>12 DEF PutDigit
  <2>2. Typed'
      BY <1>1, <1>2, <1>3, <2>1 DEF Typed
  <2>3. end' = Turns' - (IF i' < FirstShown' THEN FirstShown' ELSE i')
      BY <1>1, <1>2, <1>3, <1>4, <1>7, <1>12, <2>1
  <2>4. IsAmount' => (show' <=> i' > FirstShown')
      BY <1>1, <1>2, <1>3, <1>4, <1>7, <1>12, <2>1
  <2>5. buf'[total_len' - 1] = Null
      BY <1>2, <1>7, <2>1
  <2>6. NextDigit' <= FirstShown' /\ ~ (IsAmount' /\ i' > Decimals)
      BY <1>1, <1>2, <1>3, <1>4, <1>12 DEF NextDigit
  <2>7. \A k \in FirstShown' .. NextDigit' - 1 : FALSE
      BY <1>2, <1>4, <1>6, <1>8, <2>6
  <2>8. Written'
      BY <1>9, <1>11, <2>3, <2>4, <2>5, <2>6, <2>7 DEF Written
  <2> QED BY <1>1, <2>2, <2>8 DEF LoopInv
<1>13. CASE i >= FirstShown
  <2> DEFINE glyph == Glyph(rest % 10)
  <2>1. /\ end' = end - 1 /\ show' = TRUE
        /\ buf' = [k \in DOMAIN buf \union {end'} |-> IF k = end' THEN glyph ELSE buf[k]]
      BY <1>10, <1>13 DEF PutDigit, Write
  <2>2. glyph = Glyph(Digit(input, NextDigit))
      BY <1>10
  <2> HIDE DEF glyph
  <2>3. end' \in 0 .. Length - 1
      BY <1>3, <1>4, <1>6, <1>7, <2>1
  <2>4. /\ DOMAIN buf' = 0 .. Length - 1 /\ buf'[end'] = glyph
        /\ \A k \in 0 .. Length - 1 : k # end' => buf'[k] = buf[k]
      BY <1>3, <2>1, <2>3
  <2>5. Typed'
      BY <1>1, <1>2, <1>3, <2>1, <2>4 DEF Typed
  <2>6. end' = Turns' - (IF i' < FirstShown' THEN FirstShown' ELSE i')
      BY <1>1, <1>2, <1>3, <1>4, <1>7, <1>13, <2>1
  <2>7. IsAmount' => (show' <=> i' > FirstShown')
      BY <1>1, <1>2, <1>3, <1>4, <1>13, <2>1
  <2>8. buf'[total_len' - 1] = Null
    <3>1. total_len - 1 \in 0 .. Length - 1 /\ total_len - 1 # end'
        BY <1>3, <1>4, <1>6, <1>7, <2>1
    <3> QED BY <1>2, <1>7, <2>4, <3>1
  <2>9. ASSUME NEW k \in FirstShown' .. NextDigit' - 1 PROVE buf'[Place(k)'] = Glyph(Digit(input, k))'
    <3>1. Glyph(Digit(input, k))' = Glyph(Digit(input, k))
        BY <1>1 DEF Glyph, Digit
    <3>2. CASE k = NextDigit
      <4>1. Place(k)' = end'
          BY <1>2, <1>6, <1>13, <2>1, <3>2
      <4> QED BY <2>2, <2>4, <3>1, <3>2, <4>1
    <3>3. CASE k # NextDigit
      <4>1. k \in FirstShown .. NextDigit - 1
          BY <1>2, <1>4, <1>6, <1>8, <3>3
      <4>2. Place(k)' = Place(k) /\ Place(k) \in end .. total_len - 2
          BY <1>2, <1>6, <4>1
      <4>3. Place(k) \in 0 .. Length - 1 /\ Place(k) # end'
          BY <1>3, <1>4, <1>6, <1>7, <2>1, <4>2
      <4> QED BY <1>7, <2>4, <3>1, <4>1, <4>2, <4>3
    <3> QED BY <3>2, <3>3
  <2>10. IsAmount' /\ i' > Decimals => buf'[Whole'] = Point
    <3> SUFFICES ASSUME IsAmount, i' > Decimals PROVE buf'[Whole] = Point
        BY <1>2
    <3>1. i > Decimals
        BY <1>1, <1>3
    <3>2. Whole \in 0 .. Length - 1 /\ Whole # end' /\ buf[Whole] = Point
        BY <1>3, <1>4, <1>6, <1>7, <2>1, <3>1
    <3> QED BY <2>4, <3>2
  <2>11. Written'
      BY <1>2, <1>9, <1>11, <2>6, <2>7, <2>8, <2>9, <2>10 DEF Written
  <2> QED BY <1>1, <2>5, <2>11 DEF LoopInv
<1> QED BY <1>3, <1>4, <1>12, <1>13

LEMMA Returned ==
    ASSUME LoopInv, Return \/ UNCHANGED vars
    PROVE  LoopInv'
<1>1. LoopInv /\ UNCHANGED <<format, input, rest, i, end, show, buf>>
    BY DEF Return, vars
<1>2. /\ Whole' = Whole /\ FirstShown' = FirstShown /\ Turns' = Turns
      /\ total_len' = total_len /\ (IsAmount' <=> IsAmount)
      /\ \A k : Place(k)' = Place(k)
    BY <1>1, SameNumber
<1>3. NextDigit' = NextDigit
    BY <1>1, <1>2 DEF NextDigit
<1>4. Written => Written'
  <2> SUFFICES ASSUME Written PROVE Written'
      OBVIOUS
  <2>1. \A k \in FirstShown' .. NextDigit' - 1 : buf'[Place(k)'] = Glyph(Digit(input', k))
      BY <1>1, <1>2, <1>3 DEF Written
  <2>2. \A k : Glyph(Digit(input, k))' = Glyph(Digit(input', k))
      BY DEF Glyph, Digit
  <2> QED BY <1>1, <1>2, <1>3, <2>1, <2>2 DEF Written
<1>5. CASE Return
  <2>1. pc = "write" /\ pc' = "done" /\ ~ More /\ Typed /\ Written
      BY <1>5 DEF Return, LoopInv
  <2>2. i' = Turns'
    <3>1. i \in Nat /\ Turns \in Nat /\ i <= Turns /\ ~ (i < Turns)
        BY <2>1, TurnsLeft, Measures DEF Typed, Written
    <3> QED BY <1>1, <1>2, <3>1
  <2>3. Typed'
      BY <1>1, <2>1 DEF Typed
  <2> QED BY <1>4, <2>1, <2>2, <2>3 DEF LoopInv
<1>6. CASE UNCHANGED vars
  <2>1. pc' = pc /\ Typed
      BY <1>6 DEF vars, LoopInv
  <2>2. Typed'
      BY <1>1, <1>2, <2>1 DEF Typed
  <2> QED BY <1>1, <1>2, <1>4, <2>1, <2>2 DEF LoopInv
<1> QED BY <1>5, <1>6

LEMMA LoopInductive == LoopInv /\ [Next]_vars => LoopInv'
BY Measured, Pointed, DigitPut, Returned DEF Next

----------------------------------------------------------------------------
(* What is in the buffer.                                                  *)

DigitAt(k) == IF ~ IsAmount THEN Whole - 1 - k
              ELSE IF k > Whole THEN Whole + Decimals - k
              ELSE Whole - 1 - k + Decimals

LEMMA BytesWritten ==
    ASSUME Typed, Written, NEW k \in end .. total_len - 2
    PROVE  \/ IsAmount /\ k = Whole /\ buf[k] = Point
           \/ /\ ~ (IsAmount /\ k = Whole)
              /\ DigitAt(k) \in Nat /\ buf[k] = Glyph(Digit(input, DigitAt(k)))
<1>0. end \in 0 .. total_len - 1
    BY Placed
<1>1. Decimals \in Nat /\ Decimals >= 2 /\ i \in Nat /\ end \in 0 .. total_len - 1
    BY <1>0, LengthAssumption DEF Typed
<1>2. /\ Whole \in Nat \ {0} /\ FirstShown \in Nat /\ Turns \in Nat /\ FirstShown < Turns
      /\ total_len = Turns - FirstShown + 1
      /\ IsAmount => FirstShown \in 0 .. Decimals - 1 /\ Turns = Whole + Decimals + 1
      /\ ~ IsAmount => FirstShown = 0 /\ Turns = Whole
    BY Measures
<1>3. /\ end = Turns - (IF i < FirstShown THEN FirstShown ELSE i)
      /\ i <= Turns
      /\ \A j \in FirstShown .. NextDigit - 1 : buf[Place(j)] = Glyph(Digit(input, j))
      /\ IsAmount /\ i > Decimals => buf[Whole] = Point
    BY DEF Written
<1>4. CASE IsAmount /\ k = Whole
  <2>1. i > Decimals
      BY <1>1, <1>2, <1>3, <1>4
  <2> QED BY <1>3, <1>4, <2>1
<1>5. CASE ~ (IsAmount /\ k = Whole)
  <2>1. DigitAt(k) \in FirstShown .. NextDigit - 1
      BY <1>1, <1>2, <1>3, <1>5 DEF DigitAt, NextDigit
  <2>2. Place(DigitAt(k)) = k
      BY <1>1, <1>2, <1>3, <1>5 DEF DigitAt, Place
  <2>3. DigitAt(k) \in Nat
      BY <1>2, <2>1
  <2> QED BY <1>3, <1>5, <2>1, <2>2, <2>3
<1> QED BY <1>4, <1>5

LEMMA GlyphsApart ==
    ASSUME NEW d \in 0 .. 9
    PROVE  Glyph(d) # Null /\ Glyph(d) # Junk /\ (Glyph(d) = "0" <=> d = 0)
<1>1. d \in {0, 1, 2, 3, 4, 5, 6, 7, 8, 9}
    OBVIOUS
<1> QED BY <1>1 DEF Glyph, Null, Junk

LEMMA NoJunk ==
    ASSUME Typed, Written, NEW k \in end .. total_len - 2
    PROVE  buf[k] # Null /\ buf[k] # Junk
<1>1. Point # Null /\ Point # Junk
    BY DEF Point, Null, Junk
<1>2. CASE IsAmount /\ k = Whole /\ buf[k] = Point
    BY <1>1, <1>2
<1>3. CASE DigitAt(k) \in Nat /\ buf[k] = Glyph(Digit(input, DigitAt(k)))
  <2>1. Digit(input, DigitAt(k)) \in 0 .. 9
      BY <1>3, Shifted DEF Typed
  <2> QED BY <1>3, <2>1, GlyphsApart
<1> QED BY <1>2, <1>3, BytesWritten

LEMMA InvWithin == LoopInv => WithinBuffer
<1> SUFFICES ASSUME LoopInv PROVE WithinBuffer
    OBVIOUS
<1>1. Typed /\ DOMAIN buf = 0 .. Length - 1
    BY DEF LoopInv, Typed
<1>2. ASSUME pc = "write", NEW k \in end .. total_len - 1 PROVE buf[k] # Junk
  <2>1. Written
      BY <1>2 DEF LoopInv
  <2>2. end \in 0 .. total_len - 1 /\ total_len \in Int
      BY <1>1, <2>1, Placed, Measures
  <2>3. CASE k = total_len - 1
      BY <2>1, <2>3 DEF Written, Null, Junk
  <2>4. CASE k # total_len - 1
    <3>1. k \in end .. total_len - 2
        BY <2>2, <2>4
    <3> QED BY <1>1, <2>1, <3>1, NoJunk
  <2> QED BY <2>3, <2>4
<1> QED BY <1>1, <1>2 DEF WithinBuffer

----------------------------------------------------------------------------
(* The text is the number.                                                 *)

LEMMA FractionText ==
    ASSUME NEW n \in Nat
    PROVE  /\ Len(Fraction(n)) = mantissa_len(n)
           /\ Fraction(n) = [k \in 1 .. mantissa_len(n) |-> Glyph(Digit(n, Decimals - k))]
<1> DEFINE digits == Digits(n, Decimals)
           S == {k \in 1 .. Decimals : digits[k] # "0"} \union {1}
           m == mantissa_len(n)
<1>1. Decimals \in Nat /\ Decimals >= 2
    BY LengthAssumption
<1>2. /\ m \in 1 .. Decimals /\ Lowest(n) \in 0 .. Decimals - 1 /\ Lowest(n) = Decimals - m
      /\ \A k \in 0 .. Lowest(n) - 1 : Digit(n, k) = 0
      /\ Lowest(n) < Decimals - 1 => Digit(n, Lowest(n)) # 0
    BY FractionShown DEF Lowest
<1>3. ASSUME NEW k \in 1 .. Decimals
      PROVE  digits[k] = Glyph(Digit(n, Decimals - k)) /\ (digits[k] = "0" <=> Digit(n, Decimals - k) = 0)
  <2>1. Decimals - k \in Nat
      BY <1>1
  <2>2. Digit(n, Decimals - k) \in 0 .. 9
      BY <2>1, Shifted
  <2>3. digits[k] = Glyph(Digit(n, Decimals - k))
      BY DEF Digits
  <2> QED BY <2>2, <2>3, GlyphsApart
<1>4. DOMAIN digits = 1 .. Decimals
    BY DEF Digits
<1>5. digits = [k \in 1 .. Decimals |-> Glyph(Digit(n, Decimals - k))]
    BY DEF Digits
<1> HIDE DEF digits, m
<1>6. m \in S
  <2>1. CASE m = 1
      BY <2>1
  <2>2. CASE m # 1
    <3>1. Digit(n, Decimals - m) # 0
        BY <1>1, <1>2, <2>2
    <3> QED BY <1>2, <1>3, <3>1
  <2> QED BY <2>1, <2>2
<1>7. ASSUME NEW k \in S PROVE m >= k
  <2>1. CASE k = 1
      BY <1>2, <2>1
  <2>2. CASE k \in 1 .. Decimals /\ digits[k] # "0"
    <3>1. Digit(n, Decimals - k) # 0 /\ Decimals - k \in Nat
        BY <1>1, <1>3, <2>2
    <3>2. ~ (Decimals - k < Lowest(n))
        BY <1>1, <1>2, <2>2, <3>1
    <3> QED BY <1>1, <1>2, <2>2, <3>2
  <2> QED BY <2>1, <2>2
<1>8. S \subseteq Int
    BY <1>1
<1> HIDE DEF S
<1>9. Max(S) = m
  <2>1. \A x \in S : (\A y \in S : x >= y) => x = m
      BY <1>2, <1>6, <1>7, <1>8
  <2> QED BY <1>6, <1>7, <2>1 DEF Max
<1>10. Fraction(n) = SubSeq(digits, 1, m)
    BY <1>9 DEF Fraction, digits, S
<1>11. SubSeq(digits, 1, m) = [k \in 1 .. m |-> digits[k]]
    BY <1>1, <1>2, <1>4, SMTT(30)
<1>12. \A k \in 1 .. m : digits[k] = Glyph(Digit(n, Decimals - k))
    BY <1>1, <1>2, <1>3
<1>13. Fraction(n) = [k \in 1 .. m |-> Glyph(Digit(n, Decimals - k))]
    BY <1>10, <1>11, <1>12
<1>14. Len(Fraction(n)) = m
    BY <1>2, <1>13
<1> QED BY <1>13, <1>14 DEF m

LEMMA UnitsText ==
    ASSUME NEW n \in Nat
    PROVE  /\ AtLeastOne(DigitCount(n)) \in Nat \ {0}
           /\ Len(Units(n)) = AtLeastOne(DigitCount(n))
           /\ Units(n) = [k \in 1 .. AtLeastOne(DigitCount(n)) |->
                              Glyph(Digit(n, AtLeastOne(DigitCount(n)) - k))]
<1>1. AtLeastOne(DigitCount(n)) \in Nat \ {0}
    BY DigitsCounted DEF AtLeastOne
<1>2. Units(n) = [k \in 1 .. AtLeastOne(DigitCount(n)) |->
                      Glyph(Digit(n, AtLeastOne(DigitCount(n)) - k))]
    BY DEF Units, Digits
<1> QED BY <1>1, <1>2

(* The digits of the whole amount are digits of the amount.                *)
LEMMA WholeDigits ==
    ASSUME NEW n \in Nat, NEW k \in Nat
    PROVE  Digit(n \div COIN, k) = Digit(n, Decimals + k)
<1>1. Decimals \in Nat
    BY LengthAssumption
<1>2. Power(10)[Decimals + k] = Power(10)[Decimals] * Power(10)[k]
    BY <1>1, PowerOfSum
<1>3. Pow10[Decimals + k] = COIN * Pow10[k]
    BY <1>2 DEF COIN, Pow10
<1>4. COIN \in Nat \ {0} /\ Pow10[k] \in Nat \ {0}
    BY <1>1, Tens DEF COIN
<1>5. (n \div COIN) \div Pow10[k] = n \div Pow10[Decimals + k]
    BY <1>3, <1>4, DivideTwice
<1> QED BY <1>5 DEF Digit

(* The reference: as long as what was measured, byte by byte.              *)
LEMMA DecimalText ==
    ASSUME Typed
    PROVE  /\ Len(Decimal(format, input)) = total_len - 1
           /\ Decimal(format, input) =
                 [k \in 1 .. total_len - 1 |->
                     IF IsAmount /\ k - 1 = Whole THEN Point ELSE Glyph(Digit(input, DigitAt(k - 1)))]
<1>1. input \in Nat /\ input \div COIN \in Nat /\ Decimals \in Nat
    BY Shifted, LengthAssumption DEF Typed, COIN
<1>2. CASE ~ IsAmount
  <2>1. Decimal(format, input) = Units(input) /\ Whole = AtLeastOne(DigitCount(input)) /\ total_len - 1 = Whole
    <3>1. Decimal(format, input) = Units(input) /\ Whole = AtLeastOne(DigitCount(input))
        BY <1>2 DEF Decimal, IsAmount, Whole
    <3>2. total_len = Whole + 1 /\ Whole \in Nat
        BY <1>2, Measures
    <3> QED BY <3>1, <3>2
  <2>2. Whole \in Nat /\ Len(Units(input)) = Whole /\ Units(input) = [k \in 1 .. Whole |-> Glyph(Digit(input, Whole - k))]
      BY <1>1, <2>1, UnitsText
  <2>3. \A k \in 1 .. Whole : Whole - k = DigitAt(k - 1)
      BY <1>2, <2>2 DEF DigitAt
  <2> QED BY <1>2, <2>1, <2>2, <2>3
<1>3. CASE IsAmount
  <2> DEFINE w == input \div COIN
             m == mantissa_len(input)
  <2>1. Decimal(format, input) = Units(w) \o <<Point>> \o Fraction(input) /\ Whole = AtLeastOne(DigitCount(w))
      BY <1>3 DEF Decimal, IsAmount, Whole
  <2>2. Whole \in Nat \ {0} /\ Units(w) = [k \in 1 .. Whole |-> Glyph(Digit(w, Whole - k))]
      BY <1>1, <2>1, UnitsText
  <2>3. m \in Nat /\ m >= 1 /\ m <= Decimals /\ Fraction(input) = [k \in 1 .. m |-> Glyph(Digit(input, Decimals - k))]
    <3>1. m \in 1 .. Decimals
        BY <1>1, FractionShown
    <3>2. Fraction(input) = [k \in 1 .. m |-> Glyph(Digit(input, Decimals - k))]
        BY <1>1, FractionText
    <3> QED BY <1>1, <3>1, <3>2
  <2>4. total_len - 1 = Whole + 1 + m
    <3>1. total_len = Whole + 1 + m + 1
        BY <1>3 DEF total_len, Whole, IsAmount
    <3> QED BY <2>2, <2>3, <3>1
  <2> DEFINE whole(k) == Glyph(Digit(w, Whole - k))
             part(k)  == Glyph(Digit(input, Decimals - k))
  <2>5. Units(w) = [k \in 1 .. Whole |-> whole(k)] /\ Fraction(input) = [k \in 1 .. m |-> part(k)]
      BY <2>2, <2>3
  <2>6. ASSUME NEW k \in 1 .. Whole PROVE whole(k) = Glyph(Digit(input, DigitAt(k - 1)))
    <3>1. Whole - k \in Nat /\ DigitAt(k - 1) = Decimals + (Whole - k)
        BY <1>1, <1>3, <2>2 DEF DigitAt
    <3>2. Digit(w, Whole - k) = Digit(input, Decimals + (Whole - k))
        BY <1>1, <3>1, WholeDigits
    <3> QED BY <3>1, <3>2
  <2>7. ASSUME NEW k \in Whole + 2 .. Whole + 1 + m PROVE part(k - Whole - 1) = Glyph(Digit(input, DigitAt(k - 1)))
    <3>1. DigitAt(k - 1) = Decimals - (k - Whole - 1)
        BY <1>1, <1>3, <2>2, <2>3 DEF DigitAt
    <3> QED BY <3>1
  <2> HIDE DEF whole, part, w, m
  <2>8. /\ Len(Units(w) \o <<Point>> \o Fraction(input)) = Whole + 1 + m
        /\ Units(w) \o <<Point>> \o Fraction(input) =
              [k \in 1 .. Whole + 1 + m |->
                  IF k <= Whole THEN whole(k) ELSE IF k = Whole + 1 THEN Point ELSE part(k - Whole - 1)]
      BY <2>2, <2>3, <2>5
  <2>9. ASSUME NEW k \in 1 .. Whole + 1 + m
        PROVE  (IF k <= Whole THEN whole(k) ELSE IF k = Whole + 1 THEN Point ELSE part(k - Whole - 1))
                  = IF k - 1 = Whole THEN Point ELSE Glyph(Digit(input, DigitAt(k - 1)))
    <3>1. CASE k <= Whole
        BY <2>2, <2>6, <3>1
    <3>2. CASE k = Whole + 1
        BY <2>2, <3>2
    <3>3. CASE k > Whole + 1
        BY <2>2, <2>3, <2>7, <3>3
    <3> QED BY <2>2, <3>1, <3>2, <3>3
  <2>10. Decimal(format, input) =
             [k \in 1 .. Whole + 1 + m |-> IF k - 1 = Whole THEN Point ELSE Glyph(Digit(input, DigitAt(k - 1)))]
      BY <2>1, <2>8, <2>9
  <2> QED BY <1>3, <2>1, <2>4, <2>8, <2>10
<1> QED BY <1>2, <1>3

LEMMA InvShows == LoopInv => ShowsTheNumber
<1> SUFFICES ASSUME LoopInv PROVE ShowsTheNumber
    OBVIOUS
<1>1. Typed /\ total_len \in Nat /\ total_len >= 2 /\ Length \in Nat
    BY Measures, LengthAssumption DEF LoopInv
<1>2. CASE pc = "done"
  <2>1. Written /\ i = Turns
      BY <1>2 DEF LoopInv
  <2>2. end = 0
      BY <1>1, <2>1, Measures DEF Written
  <2> DEFINE T == total_len - 1
  <2>3. T \in DOMAIN buf /\ buf[T] = Null /\ \A k \in 0 .. T - 1 : buf[k] # Null
    <3>1. T \in 0 .. Length - 1 /\ buf[T] = Null
        BY <1>1, <2>1 DEF Written
    <3>2. \A k \in 0 .. T - 1 : k \in end .. total_len - 2
        BY <1>1, <2>2
    <3> QED BY <1>1, <2>1, <3>1, <3>2, NoJunk DEF Typed
  <2>4. DOMAIN buf \subseteq Nat
      BY <1>1 DEF Typed
  <2> HIDE DEF T
  <2>5. TextLength = T
    <3>1. ASSUME NEW k \in DOMAIN buf, buf[k] = Null, \A j \in 0 .. k - 1 : buf[j] # Null PROVE k = T
        BY <2>3, <2>4, <3>1
    <3> QED BY <2>3, <3>1 DEF TextLength
  <2>6. ASSUME NEW k \in 1 .. T
        PROVE  buf[k - 1] = IF IsAmount /\ k - 1 = Whole THEN Point ELSE Glyph(Digit(input, DigitAt(k - 1)))
    <3>1. k - 1 \in end .. total_len - 2
        BY <1>1, <2>2 DEF T
    <3> QED BY <1>1, <2>1, <3>1, BytesWritten
  <2>7. Text = [k \in 1 .. T |-> buf[k - 1]]
      BY <2>5 DEF Text
  <2>8. Text = Decimal(format, input)
      BY <1>1, <2>6, <2>7, DecimalText DEF T
  <2> QED BY <1>2, <2>2, <2>8 DEF ShowsTheNumber
<1>3. CASE pc = "refused"
  <2>1. total_len > Length
      BY <1>3 DEF LoopInv, Typed
  <2>2. Len(Decimal(format, input)) = total_len - 1
      BY <1>1, DecimalText
  <2> QED BY <1>1, <1>3, <2>1, <2>2 DEF ShowsTheNumber
<1>4. CASE pc \notin {"done", "refused"}
    BY <1>4 DEF ShowsTheNumber
<1> QED BY <1>2, <1>3, <1>4

----------------------------------------------------------------------------
(* The loops of amount_to_string and value_to_string write inside the      *)
(* buffer they were given and leave no byte of the text out: for every     *)
(* number, every coin and every buffer, so for the 64 bits of an amount    *)
(* and the 32 bytes of a page.                                             *)
THEOREM WritesWithinBuffer == Spec => []WithinBuffer
<1>1. Init => LoopInv
    BY Starts
<1>2. LoopInv /\ [Next]_vars => LoopInv'
    BY LoopInductive
<1>3. LoopInv => WithinBuffer
    BY InvWithin
<1> QED BY <1>1, <1>2, <1>3, PTL DEF Spec

(* The text they return is the number, written in decimal to the last      *)
(* digit, from the first byte of the buffer on; it is refused only when    *)
(* it does not fit.  Two numbers never have one text: what the review      *)
(* pages show tells every two amounts apart.                               *)
THEOREM ShowsEveryNumber == Spec => []ShowsTheNumber
<1>1. Init => LoopInv
    BY Starts
<1>2. LoopInv /\ [Next]_vars => LoopInv'
    BY LoopInductive
<1>3. LoopInv => ShowsTheNumber
    BY InvShows
<1> QED BY <1>1, <1>2, <1>3, PTL DEF Spec

----------------------------------------------------------------------------
(* Two numbers never have one text.                                        *)

LEMMA SameDigits ==
    ASSUME NEW m \in Nat, NEW n \in Nat, \A k \in Nat : Digit(m, k) = Digit(n, k)
    PROVE  m = n
<1> DEFINE S == {k \in Nat : m \div Pow10[k] = n \div Pow10[k] => m = n}
<1>1. 0 \in S
  <2>1. m \div 1 = m /\ n \div 1 = n
      OBVIOUS
  <2> QED BY <2>1, Tens
<1>2. ASSUME NEW k \in Nat, k \in S PROVE k + 1 \in S
  <2> DEFINE q(x) == x \div Pow10[k]
  <2>1. q(m) \in Nat /\ q(n) \in Nat /\ q(m) % 10 = q(n) % 10
      BY Shifted DEF Digit
  <2>2. m \div Pow10[k + 1] = q(m) \div 10 /\ n \div Pow10[k + 1] = q(n) \div 10
      BY Shifted
  <2>3. k \in S <=> (q(m) = q(n) => m = n)
      OBVIOUS
  <2>4. \A x, y \in Nat : x % 10 = y % 10 /\ x \div 10 = y \div 10 => x = y
      OBVIOUS
  <2> HIDE DEF q
  <2>5. m \div Pow10[k + 1] = n \div Pow10[k + 1] => q(m) = q(n)
      BY <2>1, <2>2, <2>4
  <2> QED BY <1>2, <2>3, <2>5
<1> HIDE DEF S
<1>3. m + n \in S
    BY <1>1, <1>2, InductionBySet
<1>4. m < Pow10[m + n] /\ n < Pow10[m + n]
  <2>1. m + n < Pow10[m + n] /\ Pow10[m + n] \in Nat
      BY Tens
  <2> QED BY <2>1
<1>5. m + n \in Nat
    OBVIOUS
<1>6. m \div Pow10[m + n] = 0 /\ n \div Pow10[m + n] = 0
    BY <1>4, <1>5, Shifted
<1> QED BY <1>3, <1>6 DEF S

LEMMA GlyphsDiffer ==
    ASSUME NEW c \in 0 .. 9, NEW d \in 0 .. 9, Glyph(c) = Glyph(d)
    PROVE  c = d
<1>1. c \in {0, 1, 2, 3, 4, 5, 6, 7, 8, 9} /\ d \in {0, 1, 2, 3, 4, 5, 6, 7, 8, 9}
    OBVIOUS
<1> QED BY <1>1 DEF Glyph

LEMMA UnitsDiffer ==
    ASSUME NEW m \in Nat, NEW n \in Nat, Units(m) = Units(n)
    PROVE  m = n
<1> DEFINE w == AtLeastOne(DigitCount(m))
<1>1. /\ w \in Nat \ {0} /\ w = AtLeastOne(DigitCount(n))
      /\ Units(m) = [k \in 1 .. w |-> Glyph(Digit(m, w - k))]
      /\ Units(n) = [k \in 1 .. w |-> Glyph(Digit(n, w - k))]
    BY UnitsText
<1>2. DigitCount(m) \in Nat /\ DigitCount(n) \in Nat /\ DigitCount(m) <= w /\ DigitCount(n) <= w
    BY <1>1, DigitsCounted, SMTT(30) DEF AtLeastOne
<1> HIDE DEF w
<1>3. ASSUME NEW k \in Nat PROVE Digit(m, k) = Digit(n, k)
  <2>1. CASE k < w
    <3>1. w - k \in 1 .. w /\ w - (w - k) = k
        BY <1>1, <2>1
    <3>2. Units(m)[w - k] = Glyph(Digit(m, k)) /\ Units(n)[w - k] = Glyph(Digit(n, k))
        BY <1>1, <3>1
    <3>3. Digit(m, k) \in 0 .. 9 /\ Digit(n, k) \in 0 .. 9
        BY Shifted
    <3> QED BY <3>2, <3>3, GlyphsDiffer
  <2>2. CASE w <= k
    <3>1. DigitCount(m) <= k /\ DigitCount(n) <= k
        BY <1>1, <1>2, <2>2
    <3>2. m \div Pow10[k] = 0 /\ n \div Pow10[k] = 0
        BY <3>1, DigitsCounted
    <3> QED BY <3>2 DEF Digit
  <2> QED BY <1>1, <2>1, <2>2
<1> QED BY <1>3, SameDigits

LEMMA Separated ==
    ASSUME NEW S, NEW a \in Seq(S), NEW c \in S, NEW t \in Seq(S)
    PROVE  /\ Len(a \o <<c>> \o t) = Len(a) + 1 + Len(t)
           /\ (a \o <<c>> \o t)[Len(a) + 1] = c
           /\ \A k \in 1 .. Len(a) : (a \o <<c>> \o t)[k] = a[k]
           /\ \A k \in 1 .. Len(t) : (a \o <<c>> \o t)[Len(a) + 1 + k] = t[k]
<1>1. a \o <<c>> \in Seq(S) /\ Len(a \o <<c>>) = Len(a) + 1
    OBVIOUS
<1>2. (a \o <<c>>)[Len(a) + 1] = c /\ \A k \in 1 .. Len(a) : (a \o <<c>>)[k] = a[k]
    OBVIOUS
<1> DEFINE b == a \o <<c>>
<1> HIDE DEF b
<1>3. b \in Seq(S) /\ Len(b) = Len(a) + 1
    BY <1>1 DEF b
<1>4. Len(b \o t) = Len(b) + Len(t) /\ (\A k \in 1 .. Len(b) : (b \o t)[k] = b[k])
      /\ \A k \in 1 .. Len(t) : (b \o t)[Len(b) + k] = t[k]
    BY <1>3
<1>5. Len(a) \in Nat /\ Len(t) \in Nat
    OBVIOUS
<1>6. \A k \in 1 .. Len(a) : k \in 1 .. Len(b)
    BY <1>3, <1>5
<1>7. Len(a) + 1 \in 1 .. Len(b)
    BY <1>3, <1>5
<1> QED BY <1>2, <1>3, <1>4, <1>6, <1>7 DEF b

LEMMA FractionsDiffer ==
    ASSUME NEW m \in Nat, NEW n \in Nat, Fraction(m) = Fraction(n),
           NEW k \in 0 .. Decimals - 1
    PROVE  Digit(m, k) = Digit(n, k)
<1> DEFINE f == mantissa_len(m)
<1>1. /\ f \in 1 .. Decimals /\ f = mantissa_len(n) /\ Decimals \in Nat
      /\ Fraction(m) = [j \in 1 .. f |-> Glyph(Digit(m, Decimals - j))]
      /\ Fraction(n) = [j \in 1 .. f |-> Glyph(Digit(n, Decimals - j))]
    BY FractionText, FractionShown, LengthAssumption
<1>2. Lowest(m) = Decimals - f /\ Lowest(n) = Decimals - f
    BY <1>1 DEF Lowest
<1> HIDE DEF f
<1>3. CASE k < Decimals - f
  <2>1. k \in 0 .. Lowest(m) - 1 /\ k \in 0 .. Lowest(n) - 1
      BY <1>1, <1>2, <1>3
  <2> QED BY <2>1, FractionShown
<1>4. CASE k >= Decimals - f
  <2>1. Decimals - k \in 1 .. f /\ Decimals - (Decimals - k) = k /\ k \in Nat
      BY <1>1, <1>4
  <2>2. Fraction(m)[Decimals - k] = Glyph(Digit(m, k)) /\ Fraction(n)[Decimals - k] = Glyph(Digit(n, k))
      BY <1>1, <2>1
  <2>3. Digit(m, k) \in 0 .. 9 /\ Digit(n, k) \in 0 .. 9
      BY <2>1, Shifted
  <2> QED BY <1>1, <2>2, <2>3, GlyphsDiffer
<1> QED BY <1>1, <1>3, <1>4

(* What the screen shows of two amounts, or of two nonces or expiries, is  *)
(* the same only if they are: the assumption ParseTx makes of its texts.   *)
THEOREM TextsDiffer ==
    ASSUME NEW fmt \in {"amount", "value"}, NEW m \in Nat, NEW n \in Nat,
           Decimal(fmt, m) = Decimal(fmt, n)
    PROVE  m = n
<1>1. CASE fmt = "value"
    BY <1>1, UnitsDiffer DEF Decimal
<1>2. CASE fmt = "amount"
  <2> DEFINE u == m \div COIN
             v == n \div COIN
             lu == AtLeastOne(DigitCount(u))
             lv == AtLeastOne(DigitCount(v))
             fu == mantissa_len(m)
             fv == mantissa_len(n)
             text == Decimal("amount", m)
  <2>1. Decimals \in Nat /\ u \in Nat /\ v \in Nat
      BY Shifted, LengthAssumption DEF COIN
  <2>2. lu \in Nat /\ lv \in Nat /\ fu \in Nat /\ fv \in Nat
    <3>1. lu \in Nat /\ lv \in Nat
        BY <2>1, UnitsText
    <3>2. fu \in 1 .. Decimals /\ fv \in 1 .. Decimals
        BY FractionShown
    <3> QED BY <2>1, <3>1, <3>2
  <2>3. /\ Units(u) = [k \in 1 .. lu |-> Glyph(Digit(u, lu - k))]
        /\ Units(v) = [k \in 1 .. lv |-> Glyph(Digit(v, lv - k))]
        /\ Fraction(m) = [k \in 1 .. fu |-> Glyph(Digit(m, Decimals - k))]
        /\ Fraction(n) = [k \in 1 .. fv |-> Glyph(Digit(n, Decimals - k))]
      BY <2>1, UnitsText, FractionText
  <2>4. text = Units(u) \o <<Point>> \o Fraction(m) /\ text = Units(v) \o <<Point>> \o Fraction(n)
      BY <1>2 DEF Decimal
  <2> DEFINE Chars == {Point} \union {Glyph(d) : d \in 0 .. 9}
  <2>5. \A d \in 0 .. 9 : Glyph(d) # Point /\ Glyph(d) \in Chars
    <3>1. \A d \in {0, 1, 2, 3, 4, 5, 6, 7, 8, 9} : Glyph(d) # Point
        BY DEF Glyph, Point
    <3> QED BY <3>1
  <2>b. Point \in Chars
      OBVIOUS
  <2> HIDE DEF u, v, lu, lv, fu, fv, text, Chars
  <2>6. ASSUME NEW k \in 1 .. lu PROVE Units(u)[k] # Point /\ Units(u)[k] \in Chars
    <3>1. lu - k \in Nat
        BY <2>2
    <3>2. Digit(u, lu - k) \in 0 .. 9
        BY <2>1, <3>1, Shifted
    <3> QED BY <2>3, <2>5, <3>2
  <2>7. ASSUME NEW k \in 1 .. lv PROVE Units(v)[k] # Point /\ Units(v)[k] \in Chars
    <3>1. lv - k \in Nat
        BY <2>2
    <3>2. Digit(v, lv - k) \in 0 .. 9
        BY <2>1, <3>1, Shifted
    <3> QED BY <2>3, <2>5, <3>2
  <2>a. ASSUME NEW x \in Nat
        PROVE  Fraction(x) \in Seq(Chars) /\ Len(Fraction(x)) = mantissa_len(x)
    <3>1. /\ mantissa_len(x) \in 1 .. Decimals
          /\ Fraction(x) = [k \in 1 .. mantissa_len(x) |-> Glyph(Digit(x, Decimals - k))]
        BY FractionShown, FractionText
    <3>2. ASSUME NEW k \in 1 .. mantissa_len(x) PROVE Glyph(Digit(x, Decimals - k)) \in Chars
      <4>1. Decimals - k \in Nat
          BY <2>1, <3>1
      <4>2. Digit(x, Decimals - k) \in 0 .. 9
          BY <4>1, Shifted
      <4> QED BY <2>5, <4>2
    <3> QED BY <2>1, <3>1, <3>2
  <2>8. /\ Units(u) \in Seq(Chars) /\ Len(Units(u)) = lu
        /\ Units(v) \in Seq(Chars) /\ Len(Units(v)) = lv
        /\ Fraction(m) \in Seq(Chars) /\ Len(Fraction(m)) = fu
        /\ Fraction(n) \in Seq(Chars) /\ Len(Fraction(n)) = fv
        /\ Point \in Chars
    <3>1. Units(u) \in Seq(Chars) /\ Len(Units(u)) = lu
        BY <2>2, <2>3, <2>6
    <3>2. Units(v) \in Seq(Chars) /\ Len(Units(v)) = lv
        BY <2>2, <2>3, <2>7
    <3> QED BY <2>a, <2>b, <3>1, <3>2 DEF fu, fv
  <2>9. /\ Len(text) = lu + 1 + fu /\ text[lu + 1] = Point
        /\ \A k \in 1 .. lu : text[k] = Units(u)[k]
        /\ \A k \in 1 .. fu : text[lu + 1 + k] = Fraction(m)[k]
    <3> DEFINE s == Units(u) \o <<Point>> \o Fraction(m)
    <3>0. Units(u) \in Seq(Chars) /\ Point \in Chars /\ Fraction(m) \in Seq(Chars)
        BY <2>8
    <3>1. /\ Len(s) = Len(Units(u)) + 1 + Len(Fraction(m)) /\ s[Len(Units(u)) + 1] = Point
          /\ \A k \in 1 .. Len(Units(u)) : s[k] = Units(u)[k]
          /\ \A k \in 1 .. Len(Fraction(m)) : s[Len(Units(u)) + 1 + k] = Fraction(m)[k]
        BY <3>0, Separated
    <3> QED BY <2>4, <2>8, <3>1
  <2>10. /\ Len(text) = lv + 1 + fv /\ text[lv + 1] = Point
         /\ \A k \in 1 .. lv : text[k] = Units(v)[k]
         /\ \A k \in 1 .. fv : text[lv + 1 + k] = Fraction(n)[k]
    <3> DEFINE s == Units(v) \o <<Point>> \o Fraction(n)
    <3>0. Units(v) \in Seq(Chars) /\ Point \in Chars /\ Fraction(n) \in Seq(Chars)
        BY <2>8
    <3>1. /\ Len(s) = Len(Units(v)) + 1 + Len(Fraction(n)) /\ s[Len(Units(v)) + 1] = Point
          /\ \A k \in 1 .. Len(Units(v)) : s[k] = Units(v)[k]
          /\ \A k \in 1 .. Len(Fraction(n)) : s[Len(Units(v)) + 1 + k] = Fraction(n)[k]
        BY <3>0, Separated
    <3> QED BY <2>4, <2>8, <3>1
  <2>11. lu = lv
    <3>1. lu < lv => lu + 1 \in 1 .. lv
        BY <2>2
    <3>2. lv < lu => lv + 1 \in 1 .. lu
        BY <2>2
    <3>3. ~ (lu < lv)
        BY <2>7, <2>9, <2>10, <3>1
    <3>4. ~ (lv < lu)
        BY <2>6, <2>9, <2>10, <3>2
    <3> QED BY <2>2, <3>3, <3>4
  <2>12. fu = fv
      BY <2>2, <2>9, <2>10, <2>11
  <2>13. Units(u) = Units(v)
    <3>1. \A k \in 1 .. lu : Units(u)[k] = Units(v)[k]
        BY <2>9, <2>10, <2>11
    <3> QED BY <2>8, <2>11, <3>1
  <2>14. Fraction(m) = Fraction(n)
    <3>1. \A k \in 1 .. fu : Fraction(m)[k] = Fraction(n)[k]
        BY <2>9, <2>10, <2>11, <2>12
    <3> QED BY <2>8, <2>12, <3>1
  <2>15. u = v
      BY <2>1, <2>13, UnitsDiffer
  <2>16. ASSUME NEW k \in Nat PROVE Digit(m, k) = Digit(n, k)
    <3>1. CASE k < Decimals
        BY <2>1, <2>14, <3>1, FractionsDiffer
    <3>2. CASE k >= Decimals
      <4>1. k - Decimals \in Nat /\ Decimals + (k - Decimals) = k
          BY <2>1, <3>2
      <4>2. Digit(u, k - Decimals) = Digit(m, k) /\ Digit(v, k - Decimals) = Digit(n, k)
          BY <4>1, WholeDigits DEF u, v
      <4> QED BY <2>15, <4>2
    <3> QED BY <2>1, <3>1, <3>2
  <2> QED BY <2>16, SameDigits
<1> QED BY <1>1, <1>2
=============================================================================
