------------------------- MODULE NumberFormatProofs -------------------------
(***************************************************************************)
(* Proofs that the text of a number is the number, for every width of the  *)
(* word and every value in it.                                             *)
(*                                                                         *)
(* The argument for decimals: the magnitude to be printed is, at any time, *)
(* what has been read so far, shifted by the digits still to come, and the *)
(* rest (DecimalInv).  That the divisor comes down to 1 and not past it is *)
(* because it went up from 1 by the same factor (PowerOfTen).  For         *)
(* hexadecimals it is what the higher digits say (HexInv).                 *)
(*                                                                         *)
(* That the printed digits are the number read back (FoldInv) needs what a *)
(* fold does with one digit more: its table of partial results exists for  *)
(* any sequence, and agrees with that of any longer one (FoldTable).       *)
(***************************************************************************)
EXTENDS NumberFormat, WellFoundedInduction, TLAPS

(* d is reached from 1 by multiplying by 10, without a bound on how often. *)
PowerOfTen(d) == \E k \in Nat : \E e \in [0 .. k -> Nat \ {0}] :
  e[0] = 1 /\ e[k] = d /\ \A i \in 1 .. k : e[i] = 10 * e[i - 1]

(* The magnitude as a number, and the text before any digit.               *)
Absolute == IF value < 0 THEN -value ELSE value
SignText == IF value < 0 THEN <<MINUS>> ELSE <<>>

(* What has been printed behind the sign, if anything has.                 *)
NoDigits == text = SignText
SomeDigits ==
  /\ Len(text) > Len(SignText) /\ (value < 0 => text[1] = MINUS)
  /\ \A i \in Len(SignText) + 1 .. Len(text) : text[i] \in 0 .. Base - 1
  /\ kind \in Decimals =>
       text[Len(SignText) + 1] # 0 \/ (value = 0 /\ text = <<0>> /\ divisor \in {0, 1})

(* The value that is missing behind what has been read, while the divisor  *)
(* is the weight of the next digit.                                        *)
DecimalInv ==
  /\ pc = "grow" =>
       /\ kind \in Decimals /\ magnitude = Absolute /\ read = 0 /\ NoDigits
       /\ PowerOfTen(divisor) /\ (divisor = 1 \/ divisor <= magnitude)
  /\ pc = "digits" /\ divisor # 0 =>
       /\ kind \in Decimals /\ PowerOfTen(divisor) /\ magnitude < 10 * divisor
       /\ \E w \in Nat : w = read * (10 * divisor) /\ Absolute = w + magnitude
       /\ \/ NoDigits /\ read = 0 /\ (divisor = 1 \/ divisor <= magnitude)
          \/ SomeDigits /\ value # 0
  /\ pc = "digits" /\ divisor = 0 => kind \in Decimals /\ read = Absolute /\ SomeDigits

HexInv == pc = "hex" =>
  /\ kind \notin Decimals /\ magnitude = value % WORD
  /\ read = magnitude \div Weight[digit] /\ Weight[digit] # 0
  /\ Len(text) = DIGITS - digit /\ \A i \in 1 .. Len(text) : text[i] \in 0 .. 15

Started == pc = "start" =>
  magnitude = 0 /\ divisor = 1 /\ digit = DIGITS /\ text = <<>> /\ read = 0

NumInv == TypeOK /\ DecimalInv /\ HexInv /\ Started /\ ReadsBack /\ (pc = "done" => OneForm)
-----------------------------------------------------------------------------
(* Arithmetic.                                                             *)

(* A number is divided in one way only.                                    *)
LEMMA DivUnique ==
  ASSUME NEW d \in Nat \ {0}, NEW r \in 0 .. d - 1, NEW a \in Int, NEW m \in Int,
         m = a * d + r
  PROVE  m \div d = a /\ m % d = r
<1>1. /\ m \div d \in Int /\ m % d \in 0 .. d - 1 /\ m = d * (m \div d) + (m % d)
  OBVIOUS
<1>2. PICK b \in Int, s \in 0 .. d - 1 : b = m \div d /\ s = m % d /\ m = d * b + s
  BY <1>1
<1>3. CASE a < b
  <2>1. d * b >= d * (a + 1)
    BY <1>2, <1>3
  <2> QED BY <1>2, <2>1
<1>4. CASE b < a
  <2>1. d * a >= d * (b + 1)
    BY <1>2, <1>4
  <2> QED BY <1>2, <2>1
<1>5. CASE a = b
  BY <1>2, <1>5
<1> QED BY <1>2, <1>3, <1>4, <1>5

(* A remainder is one.                                                     *)
LEMMA Remainder ==
  ASSUME NEW d \in Nat \ {0}, NEW m \in Int
  PROVE  m % d \in 0 .. d - 1
OBVIOUS

(* One digit: quotient, rest, and what the quotient stands for.            *)
LEMMA OneDigit ==
  ASSUME NEW d \in Nat \ {0}, NEW m \in Nat
  PROVE  /\ m \div d \in Nat /\ m % d \in 0 .. d - 1
         /\ m < 10 * d => m \div d \in 0 .. 9
         /\ m >= d => m \div d >= 1
         /\ m \div d > 9 => 10 * d <= m
         /\ \E w \in Nat : w = (m \div d) * d /\ m = w + (m % d)
<1>1. /\ m \div d \in Int /\ m % d \in 0 .. d - 1 /\ m = d * (m \div d) + (m % d)
  OBVIOUS
<1>2. PICK q \in Int, r \in 0 .. d - 1 : q = m \div d /\ r = m % d /\ m = d * q + r
  BY <1>1
<1>3. q >= 0
  <2> SUFFICES ASSUME q <= -1 PROVE FALSE
    BY <1>2
  <2>1. d * q <= d * (-1)
    BY <1>2
  <2> QED BY <1>2, <2>1
<1>4. ASSUME m < 10 * d PROVE q <= 9
  <2> SUFFICES ASSUME q >= 10 PROVE FALSE
    BY <1>2
  <2>1. d * q >= d * 10
    BY <1>2
  <2> QED BY <1>2, <1>4, <2>1
<1>5. ASSUME m >= d PROVE q >= 1
  <2> SUFFICES ASSUME q = 0 PROVE FALSE
    BY <1>2, <1>3
  <2>1. d * q = 0
    BY <1>2
  <2> QED BY <1>2, <1>5, <2>1
<1>6. ASSUME q > 9 PROVE 10 * d <= m
  <2>1. d * q >= d * 10
    BY <1>2, <1>6
  <2> QED BY <1>2, <2>1
<1>7. d * q \in Nat /\ d * q = q * d
  BY <1>2, <1>3
<1> QED BY <1>2, <1>3, <1>4, <1>5, <1>6, <1>7

(* Dividing by a weight is dividing by the next one, and one digit more.   *)
LEMMA OneNibble ==
  ASSUME NEW k \in Nat \ {0}, NEW m \in Nat
  PROVE  m \div k = 16 * (m \div (16 * k)) + ((m \div k) % 16)
<1>1. PICK q \in Nat, r \in 0 .. k - 1 : q = m \div k /\ m = q * k + r
  <2>1. m \div k \in Nat /\ m % k \in 0 .. k - 1 /\ m = (m \div k) * k + (m % k)
    BY OneDigit
  <2> QED BY <2>1
<1>2. PICK a \in Nat, b \in 0 .. 15 : q = 16 * a + b /\ b = q % 16
  <2>1. q \div 16 \in Nat /\ q % 16 \in 0 .. 15 /\ q = 16 * (q \div 16) + (q % 16)
    OBVIOUS
  <2> QED BY <2>1
<1>3. b * k <= 15 * k /\ b * k \in Nat
  BY <1>2
<1>4. 16 * k \in Nat \ {0} /\ b * k + r \in 0 .. 16 * k - 1
  BY <1>1, <1>3
<1>5. m = a * (16 * k) + (b * k + r)
  BY <1>1, <1>2
<1>6. m \div (16 * k) = a
  BY <1>4, <1>5, DivUnique
<1> QED BY <1>1, <1>2, <1>6

(* Shifting a number by a digit.                                           *)
LEMMA OneDigitFurther ==
  ASSUME NEW a \in Nat, NEW q \in Nat, NEW c \in Nat
  PROVE  (10 * a + q) * (10 * c) = a * (10 * (10 * c)) + q * (10 * c)
<1> DEFINE x == 10 * c
<1>1. x \in Nat
  OBVIOUS
<1> HIDE DEF x
<1>2. (10 * a + q) * x = a * (10 * x) + q * x
  BY <1>1
<1> QED BY <1>2 DEF x

(* A sequence of one element.                                              *)
LEMMA OneElement ==
  ASSUME NEW S, NEW x \in S
  PROVE  <<x>> \in Seq(S)
OBVIOUS

(* The constants.                                                          *)
LEMMA NumberConstants ==
  /\ HALF \in Nat \ {0} /\ WORD \in Nat \ {0} /\ WORD = 2 * HALF
  /\ DIGITS \in Nat \ {0} /\ Weight \in [0 .. DIGITS -> Nat] /\ Weight[0] = 1
  /\ WORD = Weight[DIGITS]
  /\ \A i \in 1 .. DIGITS : Weight[i] = 16 * Weight[i - 1]
  /\ Decimals = {"print_signed", "print_decimal"} /\ MINUS = -1
BY NumberAssumption DEF WORD, Decimals, MINUS

(* A word is its own remainder, and a negative one is that far below WORD. *)
LEMMA InOneWord ==
  /\ \A x \in 0 .. WORD - 1 : x % WORD = x /\ x \div WORD = 0
  /\ \A x \in -WORD .. -1 : x % WORD = x + WORD
<1>1. ASSUME NEW x \in 0 .. WORD - 1 PROVE x % WORD = x /\ x \div WORD = 0
  <2>1. PICK a \in Int : a = 0
    OBVIOUS
  <2>2. x = a * WORD + x /\ x \in Int /\ WORD \in Nat \ {0}
    BY <2>1, NumberConstants
  <2> QED BY <2>1, <2>2, DivUnique
<1>2. ASSUME NEW x \in -WORD .. -1 PROVE x % WORD = x + WORD
  <2>1. PICK a \in Int, r \in 0 .. WORD - 1 : a = -1 /\ r = x + WORD
    BY NumberConstants
  <2>2. x = a * WORD + r /\ x \in Int /\ WORD \in Nat \ {0}
    BY <2>1, NumberConstants
  <2> QED BY <2>1, <2>2, DivUnique
<1> QED BY <1>1, <1>2

(* The negated word is the magnitude, for the least value too.             *)
LEMMA MagnitudeIsAbsolute ==
  ASSUME value \in Words
  PROVE  Magnitude(value) = Absolute /\ Absolute \in 0 .. WORD - 1
<1>1. value \in Int /\ value >= -HALF /\ value <= HALF - 1
  BY NumberConstants DEF Words
<1>2. CASE value < 0
  <2>1. value % WORD = value + WORD
    BY <1>1, <1>2, InOneWord, NumberConstants
  <2>2. WORD - (value % WORD) = -value /\ -value \in 0 .. WORD - 1
    BY <1>1, <1>2, <2>1, NumberConstants
  <2> QED BY <1>2, <2>2, InOneWord DEF Magnitude, Absolute
<1>3. CASE ~ (value < 0)
  BY <1>1, <1>3, NumberConstants DEF Magnitude, Absolute
<1> QED BY <1>2, <1>3

(* The powers of ten start with 1, go on by ten, and come back.            *)
LEMMA PowersOfTen ==
  /\ PowerOfTen(1)
  /\ \A d : PowerOfTen(d) => d \in Nat \ {0} /\ PowerOfTen(10 * d)
  /\ \A d : PowerOfTen(d) => \/ d = 1
                             \/ \E c \in Nat \ {0} : PowerOfTen(c) /\ d = 10 * c
<1>1. PowerOfTen(1)
  <2> DEFINE f == [i \in 0 .. 0 |-> 1]
  <2>1. f \in [0 .. 0 -> Nat \ {0}] /\ f[0] = 1 /\ \A i \in 1 .. 0 : f[i] = 10 * f[i - 1]
    OBVIOUS
  <2> HIDE DEF f
  <2>2. 0 \in Nat
    OBVIOUS
  <2> QED BY <2>1, <2>2 DEF PowerOfTen
<1>2. ASSUME NEW d, PowerOfTen(d) PROVE d \in Nat \ {0} /\ PowerOfTen(10 * d)
  <2>0. PICK k \in Nat : \E e \in [0 .. k -> Nat \ {0}] :
          e[0] = 1 /\ e[k] = d /\ \A i \in 1 .. k : e[i] = 10 * e[i - 1]
    BY <1>2 DEF PowerOfTen
  <2>1. PICK e \in [0 .. k -> Nat \ {0}] :
          e[0] = 1 /\ e[k] = d /\ \A i \in 1 .. k : e[i] = 10 * e[i - 1]
    BY <2>0
  <2>2. d \in Nat \ {0}
    BY <2>1
  <2> DEFINE f == [i \in 0 .. k + 1 |-> IF i = k + 1 THEN 10 * d ELSE e[i]]
  <2>3. f \in [0 .. k + 1 -> Nat \ {0}] /\ f[0] = 1 /\ f[k + 1] = 10 * d
    BY <2>1, <2>2
  <2>4. \A i \in 1 .. k + 1 : f[i] = 10 * f[i - 1]
    BY <2>1, <2>2
  <2> HIDE DEF f
  <2>5. PICK n \in Nat : n = k + 1
    OBVIOUS
  <2> QED BY <2>2, <2>3, <2>4, <2>5 DEF PowerOfTen
<1>3. ASSUME NEW d, PowerOfTen(d), d # 1
      PROVE  \E c \in Nat \ {0} : PowerOfTen(c) /\ d = 10 * c
  <2>0. PICK k \in Nat : \E e \in [0 .. k -> Nat \ {0}] :
          e[0] = 1 /\ e[k] = d /\ \A i \in 1 .. k : e[i] = 10 * e[i - 1]
    BY <1>3 DEF PowerOfTen
  <2>1. PICK e \in [0 .. k -> Nat \ {0}] :
          e[0] = 1 /\ e[k] = d /\ \A i \in 1 .. k : e[i] = 10 * e[i - 1]
    BY <2>0
  <2>2. k # 0 /\ k - 1 \in Nat
    BY <1>3, <2>1
  <2> DEFINE f == [i \in 0 .. k - 1 |-> e[i]]
  <2>3. /\ f \in [0 .. k - 1 -> Nat \ {0}] /\ f[0] = 1 /\ f[k - 1] = e[k - 1]
        /\ \A i \in 1 .. k - 1 : f[i] = 10 * f[i - 1]
    BY <2>1, <2>2
  <2>4. d = 10 * e[k - 1] /\ e[k - 1] \in Nat \ {0}
    BY <2>1, <2>2
  <2> HIDE DEF f
  <2>5. PowerOfTen(e[k - 1])
    BY <2>2, <2>3 DEF PowerOfTen
  <2> QED BY <2>4, <2>5
<1> QED BY <1>1, <1>2, <1>3
-----------------------------------------------------------------------------
(* What has been printed.                                                  *)

SignAndDigits ==
  /\ value \in Int /\ text \in Seq({MINUS} \cup 0 .. 15) /\ Base \in {10, 16}
  /\ NoDigits \/ SomeDigits

WellFormed ==
  /\ \A i \in 1 .. Len(Digits) : Digits[i] \in 0 .. Base - 1
  /\ Negative <=> value < 0
  /\ SomeDigits => Digits # <<>> /\ Digits[1] = text[Len(SignText) + 1]

(* A text that is a sign and digits is well formed, and tells the sign.    *)
LEMMA TextFacts == SignAndDigits => WellFormed
<1> SUFFICES ASSUME SignAndDigits PROVE WellFormed
  OBVIOUS
<1>0. /\ value \in Int /\ text \in Seq({MINUS} \cup 0 .. 15) /\ Base \in {10, 16}
      /\ NoDigits \/ SomeDigits
  BY DEF SignAndDigits
<1>1. CASE value < 0
  <2>1. SignText = <<MINUS>> /\ Len(SignText) = 1
    BY <1>1 DEF SignText
  <2>2. text # <<>> /\ text[1] = MINUS
    BY <1>0, <1>1, <2>1 DEF NoDigits, SomeDigits
  <2>3. Negative /\ Digits = Tail(text)
    BY <2>2 DEF Negative, Digits
  <2>4. /\ Len(Digits) = Len(text) - 1
        /\ \A i \in 1 .. Len(text) - 1 : Digits[i] = text[i + 1]
    BY <1>0, <2>2, <2>3
  <2>5. Len(text) \in Nat \ {0} /\ \A i \in 2 .. Len(text) : text[i] \in 0 .. Base - 1
    BY <1>0, <2>1, <2>2 DEF NoDigits, SomeDigits
  <2>6. \A i \in 1 .. Len(Digits) : Digits[i] \in 0 .. Base - 1
    <3> TAKE i \in 1 .. Len(Digits)
    <3>1. i \in 1 .. Len(text) - 1 /\ i + 1 \in 2 .. Len(text)
      BY <2>4, <2>5
    <3> QED BY <2>4, <2>5, <3>1
  <2>7. ASSUME SomeDigits PROVE Digits # <<>> /\ Digits[1] = text[Len(SignText) + 1]
    <3>1. Len(text) - 1 > 0
      BY <2>1, <2>5, <2>7 DEF SomeDigits
    <3> QED BY <2>1, <2>4, <2>5, <3>1
  <2> QED BY <1>1, <2>3, <2>6, <2>7 DEF WellFormed
<1>2. CASE ~ (value < 0)
  <2>1. SignText = <<>> /\ Len(SignText) = 0
    BY <1>2 DEF SignText
  <2>2. ~ Negative
    BY <1>0, <1>2, <2>1 DEF Negative, NoDigits, SomeDigits, MINUS
  <2>3. Digits = text
    BY <2>2 DEF Digits
  <2> QED BY <1>0, <1>2, <2>1, <2>2, <2>3 DEF WellFormed, NoDigits, SomeDigits
<1> QED BY <1>1, <1>2

(* So it is after a step.                                                  *)
LEMMA TextFactsNext == SignAndDigits' => WellFormed'
BY TextFacts, PTL

(* One more digit.                                                         *)
LEMMA OneDigitMore ==
  ASSUME NEW d \in 0 .. 15, text \in Seq({MINUS} \cup 0 .. 15), text' = Append(text, d),
         value \in Int, value' = value
  PROVE  /\ text' \in Seq({MINUS} \cup 0 .. 15) /\ Len(text') = Len(text) + 1
         /\ text'[Len(text) + 1] = d /\ \A i \in 1 .. Len(text) : text'[i] = text[i]
         /\ SignText' = SignText /\ Len(SignText) \in {0, 1}
         /\ value < 0 => Len(SignText) = 1 /\ SignText[1] = MINUS
         /\ ~ (value < 0) => SignText = <<>>
<1>1. d \in {MINUS} \cup 0 .. 15
  OBVIOUS
<1> QED BY <1>1 DEF SignText

(* The bases of the two kinds.                                             *)
LEMMA Bases ==
  /\ kind \in Decimals => Base = 10
  /\ kind \notin Decimals => Base = 16
  /\ Base \in {10, 16}
BY DEF Base
-----------------------------------------------------------------------------
(* The steps.                                                              *)

(* Before the call anything may be printed next, and nothing has been.     *)
LEMMA NumberInit == Init => NumInv
<1> SUFFICES ASSUME Init PROVE NumInv
  OBVIOUS
<1>1. /\ kind \in Kinds /\ value \in Words /\ pc = "start" /\ magnitude = 0 /\ divisor = 1
      /\ digit = DIGITS /\ text = <<>> /\ read = 0
  BY DEF Init
<1>2. Digits = <<>>
  BY <1>1 DEF Digits, Negative
<1>3. TypeOK
  <2>1. text \in Seq({MINUS} \cup 0 .. 15) /\ \A i \in 1 .. Len(Digits) : Digits[i] \in 0 .. Base - 1
    BY <1>1, <1>2
  <2>2. 1 \in 0 .. WORD - 1 /\ 0 \in 0 .. WORD - 1 /\ DIGITS \in 0 .. DIGITS
    BY NumberConstants
  <2> QED BY <1>1, <2>1, <2>2 DEF TypeOK
<1> QED BY <1>1, <1>3 DEF NumInv, DecimalInv, HexInv, Started, ReadsBack

(* The types, from what the invariant knows of the text.                   *)
LEMMA NumberTypes ==
  ASSUME TypeOK
  PROVE  /\ value \in Int /\ value \in Words /\ kind \in Kinds
         /\ magnitude \in Nat /\ magnitude < WORD /\ divisor \in Nat /\ divisor < WORD
         /\ digit \in 0 .. DIGITS /\ read \in Nat /\ text \in Seq({MINUS} \cup 0 .. 15)
BY NumberConstants DEF TypeOK, Words

(* The sign.                                                               *)
LEMMA SignInv == NumInv /\ Sign => NumInv'
<1> SUFFICES ASSUME NumInv, Sign PROVE NumInv'
  OBVIOUS
<1>1. /\ pc = "start" /\ kind \in Decimals /\ magnitude' = Magnitude(value)
      /\ text' = SignText /\ pc' = "grow"
      /\ UNCHANGED <<kind, value, divisor, digit, read>>
      /\ divisor = 1 /\ digit = DIGITS /\ read = 0 /\ TypeOK
  BY DEF Sign, NumInv, Started, SignText
<1>2. Absolute' = Absolute /\ SignText' = SignText /\ Base' = Base /\ WORD' = WORD
  BY <1>1 DEF Absolute, SignText, Base, WORD
<1>3. magnitude' = Absolute /\ Absolute \in 0 .. WORD - 1
  BY <1>1, MagnitudeIsAbsolute, NumberTypes
<1>4. NoDigits'
  BY <1>1, <1>2 DEF NoDigits
<1>5. text' \in Seq({MINUS} \cup 0 .. 15)
  <2> DEFINE S == {MINUS} \cup 0 .. 15
  <2>1. MINUS \in S
    OBVIOUS
  <2> HIDE DEF S
  <2>2. <<MINUS>> \in Seq(S) /\ <<>> \in Seq(S)
    BY <2>1, OneElement
  <2> QED BY <1>1, <2>2 DEF SignText, S
<1>6. \A i \in 1 .. Len(Digits') : Digits'[i] \in 0 .. Base' - 1
  <2>1. Digits' = <<>>
    BY <1>1, <1>2, <1>5 DEF SignText, Digits, Negative, MINUS
  <2> QED BY <2>1
<1>7. TypeOK'
  BY <1>1, <1>2, <1>3, <1>5, <1>6 DEF TypeOK
<1>8. DecimalInv'
  BY <1>1, <1>2, <1>3, <1>4, PowersOfTen DEF DecimalInv
<1> QED BY <1>1, <1>7, <1>8 DEF NumInv, HexInv, Started, ReadsBack

(* Zero, as the user library prints it.                                    *)
LEMMA ZeroInv == NumInv /\ Zero => NumInv'
<1> SUFFICES ASSUME NumInv, Zero PROVE NumInv'
  OBVIOUS
<1>1. /\ pc = "start" /\ kind = "print_decimal" /\ value = 0 /\ text' = Append(text, 0)
      /\ read' = 10 * read + 0 /\ pc' = "done"
      /\ UNCHANGED <<kind, value, magnitude, divisor, digit>>
      /\ text = <<>> /\ read = 0 /\ TypeOK
  BY DEF Zero, Putchar, NumInv, Started
<1>2. text' = <<0>> /\ read' = 0 /\ Base' = 10 /\ kind \in Decimals
  BY <1>1, NumberConstants DEF Base
<1>3. Digits' = <<0>> /\ ~ Negative'
  BY <1>2 DEF Digits, Negative, MINUS
<1>4. TypeOK'
  <2>1. text' \in Seq({MINUS} \cup 0 .. 15)
    <3> DEFINE S == {MINUS} \cup 0 .. 15
    <3>1. 0 \in S
      OBVIOUS
    <3> HIDE DEF S
    <3>2. <<0>> \in Seq(S)
      BY <3>1, OneElement
    <3> QED BY <1>2, <3>2 DEF S
  <2>2. \A i \in 1 .. Len(Digits') : Digits'[i] \in 0 .. Base' - 1
    BY <1>2, <1>3
  <2> QED BY <1>1, <1>2, <2>1, <2>2 DEF TypeOK, WORD
<1>5. ReadsBack' /\ OneForm'
  BY <1>1, <1>2, <1>3 DEF ReadsBack, OneForm
<1> QED BY <1>1, <1>4, <1>5 DEF NumInv, DecimalInv, HexInv, Started

(* The divisor grows while it is not the weight of the first digit.        *)
LEMMA GrowInv == NumInv /\ Grow => NumInv'
<1> SUFFICES ASSUME NumInv, Grow PROVE NumInv'
  OBVIOUS
<1>1. /\ pc = "grow" /\ kind \in Decimals /\ magnitude = Absolute /\ read = 0 /\ NoDigits
      /\ PowerOfTen(divisor) /\ (divisor = 1 \/ divisor <= magnitude)
      /\ UNCHANGED <<kind, value, magnitude, digit, text, read>> /\ TypeOK
  BY DEF Grow, NumInv, DecimalInv
<1>2. /\ Absolute' = Absolute /\ NoDigits' /\ Digits' = Digits /\ Base' = Base /\ WORD' = WORD
  BY <1>1 DEF Absolute, NoDigits, SignText, Digits, Negative, Base, WORD
<1>3. divisor \in Nat \ {0} /\ magnitude \in Nat
  BY <1>1, PowersOfTen, NumberTypes
<1>4. CASE TooSmall(divisor)
  <2>1. divisor' = NextDivisor /\ pc' = "grow"
    BY <1>1, <1>4 DEF Grow
  <2>2. 10 * divisor <= magnitude
    BY <1>3, <1>4, OneDigit DEF TooSmall
  <2>3. divisor' = 10 * divisor
    <3>1. divisor * 10 \in 0 .. WORD - 1
      BY <1>1, <1>3, <2>2, NumberTypes, NumberConstants
    <3> QED BY <1>3, <2>1, <3>1, InOneWord DEF NextDivisor
  <2>4. divisor' \in 0 .. WORD - 1 /\ divisor' # 0 /\ divisor' <= magnitude
    BY <1>1, <1>3, <2>2, <2>3, NumberTypes, NumberConstants
  <2>5. PowerOfTen(divisor')
    BY <1>1, <2>3, PowersOfTen
  <2>6. TypeOK'
    BY <1>1, <1>2, <2>1, <2>4 DEF TypeOK
  <2>7. DecimalInv'
    BY <1>1, <1>2, <2>1, <2>4, <2>5 DEF DecimalInv
  <2> QED BY <2>1, <2>6, <2>7 DEF NumInv, HexInv, Started, ReadsBack
<1>5. CASE ~ TooSmall(divisor)
  <2>1. divisor' = divisor /\ pc' = "digits"
    BY <1>1, <1>5 DEF Grow
  <2>2. magnitude < 10 * divisor
    <3>1. PICK q \in Nat, r \in 0 .. divisor - 1, w \in Nat :
             /\ q = magnitude \div divisor /\ w = q * divisor /\ magnitude = w + r
      BY <1>3, OneDigit
    <3>2. q <= 9
      BY <1>5, <3>1 DEF TooSmall
    <3>3. q * divisor <= 9 * divisor
      BY <1>3, <3>2
    <3> QED BY <1>3, <3>1, <3>3
  <2>3. TypeOK'
    BY <1>1, <1>2, <2>1 DEF TypeOK
  <2>4. \E w \in Nat : w = read' * (10 * divisor') /\ Absolute' = w + magnitude'
    <3>1. PICK z \in Nat : z = 0 /\ z = 0 * (10 * divisor)
      BY <1>3
    <3> QED BY <1>1, <1>2, <1>3, <2>1, <3>1
  <2>5. DecimalInv'
    BY <1>1, <1>2, <1>3, <2>1, <2>2, <2>4 DEF DecimalInv
  <2> QED BY <2>1, <2>3, <2>5 DEF NumInv, HexInv, Started, ReadsBack
<1> QED BY <1>4, <1>5

(* A digit of a decimal: what has been read and what is missing still make *)
(* up the magnitude.                                                       *)
LEMMA DigitInv == NumInv /\ Digit => NumInv'
<1> SUFFICES ASSUME NumInv, Digit PROVE NumInv'
  OBVIOUS
<1>1. /\ pc = "digits" /\ divisor # 0 /\ kind \in Decimals /\ PowerOfTen(divisor)
      /\ magnitude < 10 * divisor /\ TypeOK
      /\ \/ NoDigits /\ read = 0 /\ (divisor = 1 \/ divisor <= magnitude)
         \/ SomeDigits /\ value # 0
  BY NumberTypes DEF Digit, NumInv, DecimalInv
<1>2. /\ text' = Append(text, magnitude \div divisor)
      /\ read' = 10 * read + (magnitude \div divisor)
      /\ magnitude' = magnitude % divisor /\ divisor' = divisor \div 10
      /\ UNCHANGED <<kind, value, pc, digit>>
  BY DEF Digit, Putchar
<1>3. /\ divisor \in Nat \ {0} /\ divisor < WORD /\ magnitude \in Nat /\ magnitude < WORD
      /\ read \in Nat /\ value \in Int /\ text \in Seq({MINUS} \cup 0 .. 15)
  BY <1>1, NumberTypes
<1>4. Absolute' = Absolute /\ SignText' = SignText /\ Base' = Base /\ WORD' = WORD /\ Base = 10
  BY <1>1, <1>2 DEF Absolute, SignText, Base, WORD
<1>5. PICK q \in 0 .. 9, r \in 0 .. divisor - 1, u \in Nat :
        /\ q = magnitude \div divisor /\ r = magnitude % divisor
        /\ u = q * divisor /\ magnitude = u + r /\ (magnitude >= divisor => q >= 1)
  BY <1>1, <1>3, OneDigit
<1>6. PICK w \in Nat : w = read * (10 * divisor) /\ Absolute = w + magnitude
  BY <1>1 DEF NumInv, DecimalInv
<1>7. text' = Append(text, q) /\ read' = 10 * read + q /\ magnitude' = r /\ q \in 0 .. 15
  BY <1>2, <1>5
<1>8. SomeDigits' /\ (value = 0 => divisor = 1)
  <2>1. /\ Len(text') = Len(text) + 1 /\ Len(text) \in Nat
        /\ text'[Len(text) + 1] = q /\ \A i \in 1 .. Len(text) : text'[i] = text[i]
        /\ Len(SignText) \in {0, 1}
        /\ value < 0 => Len(SignText) = 1 /\ SignText[1] = MINUS
        /\ ~ (value < 0) => SignText = <<>>
    BY <1>2, <1>3, <1>7, OneDigitMore
  <2>2. CASE NoDigits /\ read = 0 /\ (divisor = 1 \/ divisor <= magnitude)
    <3>1. w = 0 /\ Absolute = magnitude
      BY <1>3, <1>6, <2>2
    <3>2. q # 0 \/ (value = 0 /\ divisor = 1)
      <4>1. CASE divisor <= magnitude
        BY <1>3, <1>5, <4>1
      <4>2. CASE divisor = 1
        <5>1. q = magnitude
          BY <1>3, <1>5, <4>2
        <5> QED BY <1>3, <3>1, <4>2, <5>1 DEF Absolute
      <4> QED BY <2>2, <4>1, <4>2
    <3>3. value = 0 => divisor = 1
      BY <1>3, <2>2, <3>1 DEF Absolute
    <3>4. value = 0 => text' = <<q>>
      BY <1>7, <2>1, <2>2 DEF NoDigits
    <3>5. value = 0 => q = 0 /\ divisor' = 0
      <4> SUFFICES ASSUME value = 0 PROVE q = 0 /\ divisor' = 0
        OBVIOUS
      <4>1. magnitude = 0 /\ divisor = 1
        BY <3>1, <3>3 DEF Absolute
      <4> QED BY <1>2, <1>5, <4>1
    <3>6. Len(text) = Len(SignText)
      BY <2>2 DEF NoDigits
    <3>7. value < 0 => text'[1] = MINUS
      BY <2>1, <2>2 DEF NoDigits
    <3>8. \A i \in Len(SignText) + 1 .. Len(text') : text'[i] \in 0 .. 9
      BY <2>1, <3>6
    <3>9. text'[Len(SignText) + 1] # 0 \/ (value = 0 /\ text' = <<0>> /\ divisor' \in {0, 1})
      BY <2>1, <3>2, <3>4, <3>5, <3>6
    <3>10. Len(text') > Len(SignText)
      BY <2>1, <3>6
    <3>11. Len(text') > Len(SignText') /\ (value' < 0 => text'[1] = MINUS')
      BY <1>2, <1>4, <3>7, <3>10 DEF MINUS
    <3>12. \A i \in Len(SignText') + 1 .. Len(text') : text'[i] \in 0 .. Base' - 1
      BY <1>4, <3>8
    <3>13. text'[Len(SignText') + 1] # 0 \/ (value' = 0 /\ text' = <<0>> /\ divisor' \in {0, 1})
      BY <1>2, <1>4, <3>9
    <3> QED BY <3>3, <3>11, <3>12, <3>13 DEF SomeDigits
  <2>3. CASE SomeDigits /\ value # 0
    <3>1. value < 0 => text'[1] = MINUS
      BY <2>1, <2>3 DEF SomeDigits
    <3>2. \A i \in Len(SignText) + 1 .. Len(text') : text'[i] \in 0 .. 9
      <4> TAKE i \in Len(SignText) + 1 .. Len(text')
      <4>1. CASE i = Len(text) + 1
        BY <2>1, <4>1
      <4>2. CASE i # Len(text) + 1
        <5>1. i \in 1 .. Len(text) /\ i \in Len(SignText) + 1 .. Len(text)
          BY <2>1, <4>2
        <5> QED BY <1>4, <2>1, <2>3, <5>1 DEF SomeDigits
      <4> QED BY <4>1, <4>2
    <3>3. text'[Len(SignText) + 1] # 0
      BY <1>1, <2>1, <2>3 DEF SomeDigits
    <3>4. Len(text') > Len(SignText)
      BY <2>1, <2>3 DEF SomeDigits
    <3>5. Len(text') > Len(SignText') /\ (value' < 0 => text'[1] = MINUS')
      BY <1>2, <1>4, <3>1, <3>4 DEF MINUS
    <3>6. \A i \in Len(SignText') + 1 .. Len(text') : text'[i] \in 0 .. Base' - 1
      BY <1>4, <3>2
    <3>7. text'[Len(SignText') + 1] # 0
      BY <1>4, <3>3
    <3> QED BY <2>3, <3>5, <3>6, <3>7 DEF SomeDigits
  <2> QED BY <1>1, <2>2, <2>3
<1>9. TypeOK'
  <2>1. text' \in Seq({MINUS} \cup 0 .. 15)
    BY <1>2, <1>3, <1>7, OneDigitMore
  <2>2. \A i \in 1 .. Len(Digits') : Digits'[i] \in 0 .. Base' - 1
    <3>1. SignAndDigits'
      BY <1>2, <1>3, <1>4, <1>8, <2>1 DEF SignAndDigits
    <3> QED BY <3>1, TextFactsNext DEF WellFormed
  <2>3. magnitude' \in 0 .. WORD - 1 /\ divisor' \in 0 .. WORD - 1 /\ read' \in Nat
    <3>1. divisor \div 10 \in Nat /\ divisor \div 10 <= divisor
      BY <1>3
    <3>2. WORD \in Nat /\ r \in Nat /\ r < WORD /\ 10 * read + q \in Nat
      BY <1>3, NumberConstants
    <3> QED BY <1>2, <1>3, <1>7, <3>1, <3>2
  <2> QED BY <1>1, <1>2, <1>4, <2>1, <2>2, <2>3 DEF TypeOK
<1>10. DecimalInv' /\ ReadsBack'
  <2>1. CASE divisor = 1
    <3>1. divisor' = 0 /\ r = 0 /\ q = magnitude
      BY <1>2, <1>3, <1>5, <2>1
    <3>2. read' = Absolute
      BY <1>3, <1>6, <1>7, <2>1, <3>1
    <3> QED BY <1>1, <1>2, <1>4, <1>8, <3>1, <3>2 DEF DecimalInv, ReadsBack
  <2>2. CASE divisor # 1
    <3>1. PICK c \in Nat \ {0} : PowerOfTen(c) /\ divisor = 10 * c
      BY <1>1, <2>2, PowersOfTen
    <3>2. divisor' = c
      BY <1>2, <3>1
    <3>3. PICK v \in Nat : v = read' * (10 * c) /\ v = w + u
      <4>1. (10 * read + q) * (10 * c) = read * (10 * (10 * c)) + q * (10 * c)
        BY <1>3, <3>1, OneDigitFurther
      <4>2. w = read * (10 * (10 * c)) /\ u = q * (10 * c)
        BY <1>5, <1>6, <3>1
      <4>3. read' * (10 * c) = w + u
        BY <1>7, <4>1, <4>2
      <4> QED BY <4>3
    <3>4. Absolute' = v + magnitude' /\ magnitude' < 10 * divisor'
      <4>1. Absolute = w + (u + r) /\ v = w + u /\ r < 10 * c
        BY <1>3, <1>5, <1>6, <3>1, <3>3
      <4> QED BY <1>4, <1>7, <3>2, <4>1
    <3>5. SomeDigits' /\ value' # 0 /\ divisor' # 0 /\ PowerOfTen(divisor')
      BY <1>2, <1>8, <2>2, <3>1, <3>2
    <3> QED BY <1>1, <1>2, <3>2, <3>3, <3>4, <3>5 DEF DecimalInv, ReadsBack
  <2> QED BY <2>1, <2>2
<1> QED BY <1>1, <1>2, <1>9, <1>10 DEF NumInv, HexInv, Started

(* Hexadecimals start with the word as it is.                              *)
LEMMA StartHexInv == NumInv /\ StartHex => NumInv'
<1> SUFFICES ASSUME NumInv, StartHex PROVE NumInv'
  OBVIOUS
<1>1. /\ pc = "start" /\ kind \notin Decimals /\ magnitude' = value % WORD /\ pc' = "hex"
      /\ UNCHANGED <<kind, value, divisor, digit, text, read>>
      /\ digit = DIGITS /\ text = <<>> /\ read = 0 /\ TypeOK
  BY DEF StartHex, NumInv, Started
<1>2. WORD' = WORD /\ Digits' = Digits /\ Base' = Base
  BY <1>1 DEF WORD, Digits, Negative, Base
<1>3. magnitude' \in 0 .. WORD - 1
  <2>1. value \in Int /\ WORD \in Nat \ {0}
    BY <1>1, NumberTypes, NumberConstants
  <2> QED BY <1>1, <2>1, Remainder
<1>4. magnitude' \div Weight[DIGITS] = 0
  BY <1>3, InOneWord, NumberConstants
<1>5. TypeOK'
  BY <1>1, <1>2, <1>3 DEF TypeOK
<1>6. HexInv'
  BY <1>1, <1>2, <1>4, NumberConstants DEF HexInv
<1> QED BY <1>1, <1>5, <1>6 DEF NumInv, DecimalInv, Started, ReadsBack

(* A digit of a hexadecimal.                                               *)
LEMMA HexDigitInv == NumInv /\ HexDigit => NumInv'
<1> SUFFICES ASSUME NumInv, HexDigit PROVE NumInv'
  OBVIOUS
<1>1. /\ pc = "hex" /\ kind \notin Decimals /\ magnitude = value % WORD
      /\ read = magnitude \div Weight[digit] /\ Weight[digit] # 0
      /\ Len(text) = DIGITS - digit
      /\ \A i \in 1 .. Len(text) : text[i] \in 0 .. 15
      /\ TypeOK
  BY DEF HexDigit, NumInv, HexInv
<1>2. /\ digit > 0 /\ text' = Append(text, Nibble(magnitude, digit - 1))
      /\ read' = 16 * read + Nibble(magnitude, digit - 1) /\ digit' = digit - 1
      /\ UNCHANGED <<kind, value, pc, magnitude, divisor>>
  BY DEF HexDigit, Putchar
<1>3. /\ digit \in 1 .. DIGITS /\ digit - 1 \in 0 .. DIGITS /\ magnitude \in Nat /\ read \in Nat
      /\ text \in Seq({MINUS} \cup 0 .. 15) /\ value \in Int
  <2>1. /\ digit \in 0 .. DIGITS /\ magnitude \in Nat /\ read \in Nat
        /\ text \in Seq({MINUS} \cup 0 .. 15) /\ value \in Int
    BY <1>1, NumberTypes
  <2>2. digit \in 1 .. DIGITS /\ digit - 1 \in 0 .. DIGITS
    BY <1>2, <2>1, NumberConstants
  <2> QED BY <2>1, <2>2
<1>4. PICK k \in Nat \ {0} : k = Weight[digit - 1] /\ Weight[digit] = 16 * k
  <2>1. Weight[digit - 1] \in Nat /\ Weight[digit] = 16 * Weight[digit - 1]
    BY <1>3, NumberConstants
  <2>2. Weight[digit - 1] # 0
    BY <1>1, <2>1
  <2> QED BY <2>1, <2>2
<1>5. PICK q \in 0 .. 15 : q = Nibble(magnitude, digit - 1) /\ magnitude \div k = 16 * read + q
  <2>1. magnitude \div k \in Nat
    BY <1>3, <1>4, OneDigit
  <2>2. (magnitude \div k) % 16 \in 0 .. 15
    BY <2>1
  <2>3. magnitude \div k = 16 * read + ((magnitude \div k) % 16)
    BY <1>1, <1>3, <1>4, OneNibble
  <2> QED BY <1>4, <2>2, <2>3 DEF Nibble
<1>6. /\ text' \in Seq({MINUS} \cup 0 .. 15) /\ Len(text') = Len(text) + 1
      /\ \A i \in 1 .. Len(text') : text'[i] \in 0 .. 15
  <2>1. /\ text' \in Seq({MINUS} \cup 0 .. 15) /\ Len(text') = Len(text) + 1
        /\ text'[Len(text) + 1] = q /\ \A i \in 1 .. Len(text) : text'[i] = text[i]
    <3>1. text' = Append(text, q)
      BY <1>2, <1>5
    <3> QED BY <1>2, <1>3, <3>1, OneDigitMore
  <2>2. Len(text) \in Nat
    BY <1>3
  <2>3. ASSUME NEW i \in 1 .. Len(text') PROVE text'[i] \in 0 .. 15
    <3>1. CASE i = Len(text) + 1
      BY <1>5, <2>1, <3>1
    <3>2. CASE i # Len(text) + 1
      <4>1. i \in 1 .. Len(text)
        BY <2>1, <2>2, <3>2
      <4> QED BY <1>1, <2>1, <4>1
    <3> QED BY <3>1, <3>2
  <2> QED BY <2>1, <2>3
<1>7. HexInv'
  <2>1. read' = magnitude \div Weight[digit'] /\ Weight[digit'] # 0
    BY <1>2, <1>4, <1>5
  <2>2. Len(text') = DIGITS - digit'
    BY <1>1, <1>2, <1>3, <1>6, NumberConstants
  <2> QED BY <1>1, <1>2, <1>6, <2>1, <2>2 DEF HexInv, WORD
<1>8. TypeOK'
  <2>1. Base' = 16 /\ read' \in Nat
    <3>1. read' = 16 * read + q
      BY <1>2, <1>5
    <3>2. 16 * read + q \in Nat
      BY <1>3
    <3> QED BY <1>1, <1>2, <3>1, <3>2 DEF Base
  <2>2. ~ Negative'
    <3>1. text'[1] \in 0 .. 15
      BY <1>1, <1>3, <1>6
    <3> QED BY <3>1 DEF Negative, MINUS
  <2>3. Digits' = text'
    BY <2>2 DEF Digits
  <2>4. \A i \in 1 .. Len(Digits') : Digits'[i] \in 0 .. Base' - 1
    BY <1>6, <2>1, <2>3
  <2> QED BY <1>1, <1>2, <1>3, <1>6, <2>1, <2>4 DEF TypeOK, WORD
<1> QED BY <1>1, <1>2, <1>7, <1>8 DEF NumInv, DecimalInv, Started, ReadsBack

(* When a loop has ended the number has been printed.                      *)
LEMMA ReturnInv == NumInv /\ Return => NumInv'
<1> SUFFICES ASSUME NumInv, Return PROVE NumInv'
  OBVIOUS
<1>1. /\ pc' = "done" /\ UNCHANGED <<kind, value, magnitude, divisor, digit, text, read>>
      /\ TypeOK
  BY DEF Return, NumInv
<1>2. /\ Digits' = Digits /\ (Negative' <=> Negative)
      /\ Base' = Base /\ WORD' = WORD
  BY <1>1 DEF Digits, Negative, Base, WORD
<1>3. TypeOK'
  BY <1>1, <1>2 DEF TypeOK
<1>4. value \in Int /\ read \in Nat /\ magnitude \in Nat /\ text \in Seq({MINUS} \cup 0 .. 15)
  BY <1>1, NumberTypes
<1>5. CASE pc = "digits" /\ divisor = 0
  <2>1. kind \in Decimals /\ read = Absolute /\ SomeDigits /\ Base = 10
    BY <1>5, Bases DEF NumInv, DecimalInv
  <2>2. Negative <=> value < 0
    BY <1>4, <2>1, TextFacts DEF SignAndDigits, WellFormed
  <2>3. Digits[1] = text[Len(SignText) + 1]
    BY <1>4, <2>1, TextFacts DEF SignAndDigits, WellFormed
  <2>4. value = IF Negative THEN -read ELSE read
    BY <1>4, <2>1, <2>2 DEF Absolute
  <2>5. Digits[1] # 0 \/ (Digits = <<0>> /\ ~ Negative)
    <3>1. CASE text[Len(SignText) + 1] # 0
      BY <2>3, <3>1
    <3>2. CASE value = 0 /\ text = <<0>>
      BY <2>2, <3>2 DEF Digits
    <3> QED BY <2>1, <3>1, <3>2 DEF SomeDigits
  <2>6. ReadsBack' /\ OneForm'
    BY <1>1, <1>2, <2>1, <2>4, <2>5 DEF ReadsBack, OneForm
  <2> QED BY <1>1, <1>3, <2>6 DEF NumInv, DecimalInv, HexInv, Started
<1>6. CASE pc = "hex" /\ digit = 0
  <2>1. /\ kind \notin Decimals /\ magnitude = value % WORD
        /\ read = magnitude \div Weight[0] /\ Len(text) = DIGITS
    BY <1>6, NumberConstants DEF NumInv, HexInv
  <2>2. read = magnitude
    BY <1>4, <2>1, NumberConstants
  <2>3. ReadsBack' /\ OneForm'
    BY <1>1, <1>2, <2>1, <2>2 DEF ReadsBack, OneForm
  <2> QED BY <1>1, <1>3, <2>3 DEF NumInv, DecimalInv, HexInv, Started
<1> QED BY <1>5, <1>6 DEF Return

(* A step that changes nothing keeps the invariant.                        *)
LEMMA NumberStutter == NumInv /\ UNCHANGED vars => NumInv'
<1> SUFFICES ASSUME NumInv, UNCHANGED vars PROVE NumInv'
  OBVIOUS
<1>1. UNCHANGED <<kind, value, pc, magnitude, divisor, digit, text, read>>
  BY DEF vars
<1>2. /\ Digits' = Digits /\ (Negative' <=> Negative)
      /\ Base' = Base /\ WORD' = WORD /\ Absolute' = Absolute /\ SignText' = SignText
  BY <1>1 DEF Digits, Negative, Base, WORD, Absolute, SignText
<1>3. TypeOK'
  BY <1>1, <1>2 DEF NumInv, TypeOK
<1>4. NoDigits' <=> NoDigits
  BY <1>1, <1>2 DEF NoDigits
<1>5. SomeDigits' <=> SomeDigits
  BY <1>1, <1>2 DEF SomeDigits, MINUS
<1>6. DecimalInv'
  BY <1>1, <1>2, <1>4, <1>5 DEF NumInv, DecimalInv
<1>7. HexInv' /\ Started'
  BY <1>1, <1>2 DEF NumInv, HexInv, Started
<1>8. ReadsBack' /\ (pc' = "done" => OneForm')
  BY <1>1, <1>2 DEF NumInv, ReadsBack, OneForm
<1> QED BY <1>3, <1>6, <1>7, <1>8 DEF NumInv
-----------------------------------------------------------------------------
(* The invariant holds for every number.                                   *)
THEOREM NumberInvariance == Spec => []NumInv
<1>1. NumInv /\ [Next]_vars => NumInv'
  BY SignInv, ZeroInv, GrowInv, DigitInv, StartHexInv, HexDigitInv, ReturnInv, NumberStutter
     DEF Next
<1> QED BY <1>1, NumberInit, PTL DEF Spec

(* Every digit is one of its base, and the divisor stays within its word,  *)
(* also for the magnitude of the least value (common.c:14-22).             *)
THEOREM NumbersTyped == Spec => []TypeOK
<1>1. NumInv => TypeOK
  BY DEF NumInv
<1> QED BY <1>1, NumberInvariance, PTL

(* What has been printed is the number, in words of any width              *)
(* (common.c:5-31, ulib.c:155-187).                                        *)
THEOREM NumbersReadBack == Spec => []ReadsBack
<1>1. NumInv => ReadsBack
  BY DEF NumInv
<1> QED BY <1>1, NumberInvariance, PTL

(* Nothing has a zero in front, a minus zero is never printed, and a       *)
(* hexadecimal has all its digits (common.c:14-31).                        *)
THEOREM NumbersHaveOneForm == Spec => [](pc = "done" => OneForm)
<1>1. NumInv => (pc = "done" => OneForm)
  BY DEF NumInv
<1> QED BY <1>1, NumberInvariance, PTL
-----------------------------------------------------------------------------
(* The number that digits stand for.                                       *)

(* The digits read from left to right, and the table of all the partial    *)
(* results that the fold is the last of.                                   *)
Fold(b, ds) == FoldLeft(LAMBDA n, d : b * n + d, 0, ds)
FoldTable(b, ds, n, g) == g = [s \in SUBSET (1 .. n) |->
  IF s = {} THEN 0 ELSE b * g[s \ {Max(s)}] + ds[Max(s)]]
Shifted(b, ds, g, k) == g[1 .. k + 1] = b * g[1 .. k] + ds[k + 1]
SameDigits(ds, es, n) == \A i \in 1 .. n : ds[i] = es[i]

(* What each number hands to the next holds up to any of them.             *)
LEMMA UpTo ==
  ASSUME NEW n \in Nat, NEW G, 0 \in G,
         \A k \in 0 .. n - 1 : k \in G => k + 1 \in G
  PROVE  n \in G
<1> DEFINE missing == {k \in 0 .. n : k \notin G}
<1>1. CASE missing = {}
  <2>1. n \in 0 .. n
    OBVIOUS
  <2> QED BY <1>1, <2>1
<1>2. CASE missing # {}
  <2>1. missing \subseteq Nat
    OBVIOUS
  <2>2. PICK d \in missing : \A e \in missing : ~ (<<e, d>> \in OpToRel(<, Nat))
    BY <1>2, <2>1, WFMin, NatLessThanWellFounded
  <2>3. d \in 0 .. n /\ d \notin G
    BY <2>2
  <2>4. \A e \in missing : ~ (e < d)
    BY <2>1, <2>2, <2>3 DEF OpToRel
  <2>5. d # 0
    BY <2>3
  <2>6. PICK e \in 0 .. n - 1 : d = e + 1
    BY <2>3, <2>5
  <2>7. e \in 0 .. n /\ e < d
    BY <2>3, <2>6
  <2>8. e \in G
    BY <2>4, <2>7
  <2> QED BY <2>3, <2>6, <2>8
<1> QED BY <1>1, <1>2

(* The greatest of numbers up to n, when n is among them.                  *)
LEMMA Greatest ==
  ASSUME NEW n \in Nat, NEW s \in SUBSET (1 .. n), n \in s
  PROVE  Max(s) = n
<1>1. \A y \in s : n >= y
  OBVIOUS
<1>2. \E x \in s : \A y \in s : x >= y
  BY <1>1
<1>3. Max(s) \in s /\ \A y \in s : Max(s) >= y
  BY <1>2 DEF Max
<1>4. PICK m \in 1 .. n : m = Max(s)
  BY <1>3
<1>5. m >= n /\ n >= m
  BY <1>3, <1>4
<1> QED BY <1>4, <1>5

(* There is such a table.                                                  *)
LEMMA TableExists ==
  ASSUME NEW b, NEW ds, NEW n \in Nat
  PROVE  \E g : FoldTable(b, ds, n, g)
<1> DEFINE G == {k \in Nat : \E g : FoldTable(b, ds, k, g)}
<1>1. 0 \in G
  <2> DEFINE g == [s \in SUBSET (1 .. 0) |-> 0]
  <2>1. \A s \in SUBSET (1 .. 0) : s = {}
    OBVIOUS
  <2>2. g = [s \in SUBSET (1 .. 0) |->
               IF s = {} THEN 0 ELSE b * g[s \ {Max(s)}] + ds[Max(s)]]
    BY <2>1
  <2>3. FoldTable(b, ds, 0, g)
    BY <2>2 DEF FoldTable
  <2> QED BY <2>3
<1>2. ASSUME NEW k \in 0 .. n - 1, k \in G PROVE k + 1 \in G
  <2>1. PICK g : FoldTable(b, ds, k, g)
    BY <1>2
  <2> DEFINE body(s, f) == IF s = {} THEN 0 ELSE b * f[s \ {Max(s)}] + ds[Max(s)]
             h == [s \in SUBSET (1 .. k + 1) |->
                     IF k + 1 \in s THEN b * g[s \ {k + 1}] + ds[k + 1] ELSE g[s]]
  <2>2. k \in Nat /\ k + 1 \in Nat
    OBVIOUS
  <2>3. \A s \in SUBSET (1 .. k) : s \in SUBSET (1 .. k + 1) /\ k + 1 \notin s
    BY <2>2
  <2>4. \A s \in SUBSET (1 .. k) : h[s] = g[s]
    BY <2>3
  <2>5. ASSUME NEW s \in SUBSET (1 .. k + 1) PROVE h[s] = body(s, h)
    <3>1. CASE k + 1 \in s
      <4>1. Max(s) = k + 1
        BY <2>2, <3>1, Greatest
      <4>2. s \ {k + 1} \in SUBSET (1 .. k) /\ s # {}
        BY <2>2, <3>1
      <4>3. h[s \ {k + 1}] = g[s \ {k + 1}]
        BY <2>4, <4>2
      <4>4. h[s] = b * g[s \ {k + 1}] + ds[k + 1]
        BY <3>1
      <4> QED BY <4>1, <4>2, <4>3, <4>4
    <3>2. CASE k + 1 \notin s
      <4>0. s \subseteq 1 .. k
        <5>1. \A i \in 1 .. k + 1 : i # k + 1 => i \in 1 .. k
          BY <2>2
        <5> QED BY <3>2, <5>1
      <4>1. s \in SUBSET (1 .. k) /\ s \ {Max(s)} \in SUBSET (1 .. k)
        BY <4>0, Zenon
      <4>2. h[s] = g[s] /\ h[s \ {Max(s)}] = g[s \ {Max(s)}]
        BY <2>4, <4>1
      <4>3. g[s] = body(s, g)
        BY <2>1, <4>1 DEF FoldTable
      <4> QED BY <4>2, <4>3
    <3> QED BY <3>1, <3>2
  <2>6. h = [s \in SUBSET (1 .. k + 1) |-> h[s]]
    OBVIOUS
  <2> HIDE DEF h
  <2>7. h = [s \in SUBSET (1 .. k + 1) |-> body(s, h)]
    BY <2>5, <2>6
  <2>8. FoldTable(b, ds, k + 1, h)
    BY <2>7 DEF FoldTable
  <2> QED BY <2>2, <2>8
<1> HIDE DEF G
<1>3. n \in G
  BY <1>1, <1>2, UpTo
<1> QED BY <1>3 DEF G

(* The fold is the last entry of its table.                                *)
LEMMA FoldIsEntry ==
  ASSUME NEW b, NEW S, NEW ds \in Seq(S)
  PROVE  \E g : FoldTable(b, ds, Len(ds), g) /\ Fold(b, ds) = g[1 .. Len(ds)]
<1> DEFINE I == CHOOSE g : g = [s \in SUBSET (DOMAIN ds) |->
              IF s = {} THEN 0 ELSE b * g[s \ {Max(s)}] + ds[Max(s)]]
<1>1. Len(ds) \in Nat /\ DOMAIN ds = 1 .. Len(ds)
  OBVIOUS
<1>2. PICK g : FoldTable(b, ds, Len(ds), g)
  BY <1>1, TableExists
<1>3. \E f : f = [s \in SUBSET (DOMAIN ds) |->
              IF s = {} THEN 0 ELSE b * f[s \ {Max(s)}] + ds[Max(s)]]
  BY <1>1, <1>2 DEF FoldTable
<1>4. I = [s \in SUBSET (DOMAIN ds) |->
              IF s = {} THEN 0 ELSE b * I[s \ {Max(s)}] + ds[Max(s)]]
  BY <1>3, Zenon
<1>5. Fold(b, ds) = I[DOMAIN ds]
  BY DEF Fold, FoldLeft, MapThenFoldSet
<1> HIDE DEF I
<1> QED BY <1>1, <1>4, <1>5 DEF FoldTable

(* The next entry of a table shifts the one before, and adds a digit.      *)
LEMMA NextEntry ==
  ASSUME NEW b, NEW ds, NEW n \in Nat, NEW g, FoldTable(b, ds, n, g),
         NEW k \in Nat, k < n
  PROVE  Shifted(b, ds, g, k)
<1>1. 1 .. k + 1 \in SUBSET (1 .. n) /\ 1 .. k + 1 # {} /\ k + 1 \in 1 .. k + 1
  OBVIOUS
<1>2. Max(1 .. k + 1) = k + 1
  <2>1. k + 1 \in Nat /\ 1 .. k + 1 \in SUBSET (1 .. k + 1)
    OBVIOUS
  <2> QED BY <1>1, <2>1, Greatest
<1>3. (1 .. k + 1) \ {k + 1} = 1 .. k
  OBVIOUS
<1>4. PICK s \in SUBSET (1 .. n) : s = 1 .. k + 1
  BY <1>1
<1>5. g[s] = IF s = {} THEN 0 ELSE b * g[s \ {Max(s)}] + ds[Max(s)]
  BY <1>4 DEF FoldTable
<1> QED BY <1>1, <1>2, <1>3, <1>4, <1>5 DEF Shifted

(* Tables agree as far as the digits do.                                   *)
LEMMA TablesAgree ==
  ASSUME NEW b, NEW ds, NEW es, NEW n \in Nat, NEW m \in Nat, n <= m,
         NEW g, NEW h, FoldTable(b, ds, n, g), FoldTable(b, es, m, h),
         SameDigits(ds, es, n)
  PROVE  g[1 .. n] = h[1 .. n]
<1> DEFINE G == {k \in 0 .. n : g[1 .. k] = h[1 .. k]}
<1>1. 0 \in G
  <2>1. 1 .. 0 = {} /\ {} \in SUBSET (1 .. n) /\ {} \in SUBSET (1 .. m)
    OBVIOUS
  <2>2. g[{}] = 0 /\ h[{}] = 0
    BY <2>1 DEF FoldTable
  <2> QED BY <2>1, <2>2
<1>2. ASSUME NEW k \in 0 .. n - 1, k \in G PROVE k + 1 \in G
  <2>1. k \in Nat /\ k < n /\ k < m /\ k + 1 \in 1 .. n /\ k + 1 \in 0 .. n
    OBVIOUS
  <2>2. g[1 .. k + 1] = b * g[1 .. k] + ds[k + 1]
    <3>1. Shifted(b, ds, g, k)
      BY <2>1, NextEntry
    <3> QED BY <3>1 DEF Shifted
  <2>3. h[1 .. k + 1] = b * h[1 .. k] + es[k + 1]
    <3>1. Shifted(b, es, h, k)
      BY <2>1, NextEntry
    <3> QED BY <3>1 DEF Shifted
  <2>4. ds[k + 1] = es[k + 1]
    BY <2>1 DEF SameDigits
  <2>5. g[1 .. k] = h[1 .. k]
    BY <1>2
  <2> QED BY <2>1, <2>2, <2>3, <2>4, <2>5
<1> HIDE DEF G
<1>3. n \in G
  BY <1>1, <1>2, UpTo
<1> QED BY <1>3 DEF G

(* No digits stand for zero.                                               *)
LEMMA FoldOfNone == ASSUME NEW b PROVE Fold(b, <<>>) = 0
<1>1. <<>> \in Seq({0}) /\ Len(<<>>) = 0
  OBVIOUS
<1>2. PICK g : FoldTable(b, <<>>, 0, g) /\ Fold(b, <<>>) = g[1 .. 0]
  BY <1>1, FoldIsEntry
<1>3. 1 .. 0 = {} /\ {} \in SUBSET (1 .. 0)
  OBVIOUS
<1>4. g[{}] = 0
  BY <1>2, <1>3 DEF FoldTable
<1> QED BY <1>2, <1>3, <1>4

(* One more digit shifts the number by the base.                           *)
LEMMA FoldOfMore ==
  ASSUME NEW b, NEW S, NEW ds \in Seq(S), NEW d \in S
  PROVE  Fold(b, Append(ds, d)) = b * Fold(b, ds) + d
<1>1. PICK n \in Nat : n = Len(ds)
  OBVIOUS
<1>2. PICK es \in Seq(S) : es = Append(ds, d)
  <2>1. Append(ds, d) \in Seq(S)
    OBVIOUS
  <2> QED BY <2>1
<1>3. Len(es) = n + 1 /\ es[n + 1] = d /\ SameDigits(ds, es, n) /\ n + 1 \in Nat /\ n <= n + 1
  BY <1>1, <1>2 DEF SameDigits
<1>4. PICK g : FoldTable(b, ds, n, g) /\ Fold(b, ds) = g[1 .. n]
  BY <1>1, FoldIsEntry
<1>5. PICK h : FoldTable(b, es, n + 1, h) /\ Fold(b, es) = h[1 .. n + 1]
  BY <1>3, FoldIsEntry
<1>6. g[1 .. n] = h[1 .. n]
  BY <1>3, <1>4, <1>5, TablesAgree
<1>7. h[1 .. n + 1] = b * h[1 .. n] + es[n + 1]
  <2>1. PICK m \in Nat : m = n + 1 /\ n < m
    BY <1>3
  <2>2. h[1 .. n + 1] = b * h[1 .. n] + es[n + 1]
    <3>1. FoldTable(b, es, m, h) /\ n < m
      BY <1>5, <2>1
    <3>2. Shifted(b, es, h, n)
      BY <3>1, NextEntry
    <3> QED BY <3>2 DEF Shifted
  <2> QED BY <2>2
<1> QED BY <1>2, <1>3, <1>4, <1>5, <1>6, <1>7
-----------------------------------------------------------------------------
(* What has been read is what the digits printed so far stand for.         *)
FoldInv == read = Fold(Base, Digits)

(* A character put out is one more digit.                                  *)
LEMMA PutcharFolds ==
  ASSUME FoldInv, NEW d \in 0 .. 15, text \in Seq({MINUS} \cup 0 .. 15), kind' = kind,
         Putchar(d, Base)
  PROVE  FoldInv'
<1>1. text' = Append(text, d) /\ read' = Base * read + d /\ Base' = Base
  BY DEF Putchar, Base
<1>2. PICK S : S = {MINUS} \cup 0 .. 15
  OBVIOUS
<1>3. d \in S /\ text \in Seq(S) /\ d # MINUS
  BY <1>2 DEF MINUS
<1>4. Digits \in Seq(S) /\ Digits' = Append(Digits, d)
  <2>1. CASE text = <<>>
    <3>1. text' = <<d>> /\ Len(text') = 1 /\ text'[1] = d
      BY <1>1, <2>1
    <3>2. ~ Negative /\ ~ Negative'
      BY <1>3, <2>1, <3>1 DEF Negative, MINUS
    <3> QED BY <1>1, <1>3, <3>2 DEF Digits
  <2>2. CASE text # <<>>
    <3>1. Len(text) >= 1 /\ text' # <<>> /\ text'[1] = text[1]
      BY <1>1, <1>3, <2>2
    <3>2. Negative' <=> Negative
      BY <2>2, <3>1 DEF Negative, MINUS
    <3>3. Tail(text) \in Seq(S) /\ Tail(Append(text, d)) = Append(Tail(text), d)
      BY <1>3, <2>2
    <3> QED BY <1>1, <1>3, <3>2, <3>3 DEF Digits
  <2> QED BY <2>1, <2>2
<1>5. Fold(Base, Append(Digits, d)) = Base * Fold(Base, Digits) + d
  BY <1>3, <1>4, FoldOfMore
<1>6. Fold(Base', Digits') = Fold(Base, Append(Digits, d))
  BY <1>1, <1>4
<1> QED BY <1>1, <1>5, <1>6 DEF FoldInv

(* A step that prints no digit.                                            *)
LEMMA NothingFolds ==
  ASSUME FoldInv, UNCHANGED <<kind, text, read>> PROVE FoldInv'
<1>1. Base' = Base /\ Digits' = Digits
  BY DEF Base, Digits, Negative, MINUS
<1> QED BY <1>1 DEF FoldInv

(* Every step, with what the invariant says of its digit.                  *)
LEMMA FoldStep == NumInv /\ FoldInv /\ [Next]_vars => FoldInv'
<1> SUFFICES ASSUME NumInv, FoldInv, [Next]_vars PROVE FoldInv'
  OBVIOUS
<1>1. text \in Seq({MINUS} \cup 0 .. 15) /\ magnitude \in Nat /\ divisor \in Nat
  BY NumberTypes DEF NumInv
<1>2. CASE Sign
  <2>1. text = <<>> /\ read = 0 /\ read' = 0 /\ kind' = kind
    BY <1>2 DEF Sign, NumInv, Started
  <2>2. text' = <<MINUS>> \/ text' = <<>>
    BY <1>2 DEF Sign
  <2>3. Digits' = <<>>
    <3>1. CASE text' = <<MINUS>>
      <4>1. text' # <<>> /\ text'[1] = MINUS /\ Tail(text') = <<>>
        BY <3>1
      <4> QED BY <4>1 DEF Digits, Negative, MINUS
    <3>2. CASE text' = <<>>
      BY <3>2 DEF Digits, Negative
    <3> QED BY <2>2, <3>1, <3>2
  <2>4. Fold(Base', <<>>) = 0
    BY FoldOfNone
  <2> QED BY <2>1, <2>3, <2>4 DEF FoldInv
<1>3. CASE Zero
  <2>1. Base = 10 /\ Putchar(0, 10) /\ kind' = kind
    BY <1>3 DEF Zero, Base, Decimals
  <2>2. 0 \in 0 .. 15
    OBVIOUS
  <2> QED BY <1>1, <2>1, <2>2, PutcharFolds
<1>4. CASE Digit
  <2>1. kind \in Decimals /\ magnitude < 10 * divisor /\ divisor \in Nat \ {0}
    BY <1>1, <1>4 DEF Digit, NumInv, DecimalInv
  <2>2. PICK q \in 0 .. 9 : q = magnitude \div divisor
    BY <1>1, <2>1, OneDigit
  <2>3. Base = 10 /\ Putchar(q, 10) /\ kind' = kind /\ q \in 0 .. 15
    BY <1>4, <2>1, <2>2 DEF Digit, Base
  <2> QED BY <1>1, <2>3, PutcharFolds
<1>5. CASE HexDigit
  <2>1. kind \notin Decimals /\ kind' = kind /\ digit \in 1 .. DIGITS
    BY <1>5, NumberTypes DEF HexDigit, NumInv, HexInv
  <2>2. PICK q : q = Nibble(magnitude, digit - 1)
    OBVIOUS
  <2>3. q \in 0 .. 15
    <3>1. digit - 1 \in 0 .. DIGITS /\ digit \in 1 .. DIGITS
      BY <2>1, NumberConstants
    <3>2. Weight[digit - 1] \in Nat /\ Weight[digit] = 16 * Weight[digit - 1]
      BY <3>1, NumberConstants
    <3>3. Weight[digit] # 0
      BY <1>5 DEF HexDigit, NumInv, HexInv
    <3>4. PICK k \in Nat \ {0} : k = Weight[digit - 1]
      BY <3>2, <3>3
    <3>5. PICK v \in Nat : v = magnitude \div k
      BY <1>1, <3>4, OneDigit
    <3>6. v % 16 \in 0 .. 15
      OBVIOUS
    <3> QED BY <2>2, <3>4, <3>5, <3>6 DEF Nibble
  <2>4. Base = 16 /\ Putchar(q, 16)
    BY <1>5, <2>1, <2>2 DEF HexDigit, Base
  <2> QED BY <1>1, <2>1, <2>3, <2>4, PutcharFolds
<1>6. CASE Grow \/ StartHex \/ Return \/ UNCHANGED vars
  <2>1. UNCHANGED <<kind, text, read>>
    BY <1>6 DEF Grow, StartHex, Return, vars
  <2> QED BY <2>1, NothingFolds
<1> QED BY <1>2, <1>3, <1>4, <1>5, <1>6 DEF Next

(* At first nothing has been read.                                         *)
LEMMA FoldInit == Init => FoldInv
<1> SUFFICES ASSUME Init PROVE FoldInv
  OBVIOUS
<1>1. read = 0 /\ text = <<>>
  BY DEF Init
<1>2. Digits = <<>>
  BY <1>1 DEF Digits, Negative
<1> QED BY <1>1, <1>2, FoldOfNone DEF FoldInv

(* When a number has been printed, its digits stand for what was read back *)
(* in no other form than the one (ulib.c:75, common.c:37-38).              *)
THEOREM NumbersCanonical == Spec => []Canonical
<1>1. NumInv /\ FoldInv => Canonical
  BY DEF NumInv, FoldInv, Fold, Canonical
<1>2. NumInv /\ FoldInv /\ [Next]_vars => FoldInv'
  BY FoldStep
<1> QED BY <1>1, <1>2, FoldInit, NumberInvariance, PTL DEF Spec
=============================================================================
