---------------------------- MODULE NumberFormat ----------------------------
(***************************************************************************)
(* The loops that print numbers, in the kernel (print_signed, print_hex)   *)
(* and in the user library (print_decimal, print_hexadecimal): one call,   *)
(* one step per iteration.  A word holds -HALF..HALF-1; unsigned           *)
(* arithmetic is modulo 2 * HALF.  A character is the value of its digit.  *)
(***************************************************************************)
EXTENDS Integers, Sequences, SequencesExt

CONSTANTS
  HALF,     \* 2^31 or 2^63
  DIGITS,   \* hexadecimal digits of a word: 8 or 16
  Weight    \* Weight[i]: the weight of a hexadecimal digit with i others behind it

WORD == 2 * HALF
MINUS == -1

ASSUME NumberAssumption ==
  /\ HALF \in Nat \ {0}
  /\ DIGITS \in Nat \ {0}
  /\ Weight \in [0..DIGITS -> Nat]
  /\ Weight[0] = 1 /\ \A i \in 1..DIGITS : Weight[i] = 16 * Weight[i - 1]
  /\ WORD = Weight[DIGITS]

Decimals == {"print_signed", "print_decimal"}
Kinds == Decimals \cup {"print_hex", "print_hexadecimal"}
Words == -HALF..HALF - 1

VARIABLES
  kind, value,   \* the call
  pc,            \* the loop that runs, or done
  magnitude, divisor,
  digit,         \* print_hex: the number of the next digit
  text,          \* what has been printed
  read           \* history: the number that the digits in text stand for

vars == <<kind, value, pc, magnitude, divisor, digit, text, read>>

Init ==
  /\ kind \in Kinds /\ value \in Words
  /\ pc = "start" /\ magnitude = 0 /\ divisor = 1
  /\ digit = DIGITS /\ text = <<>> /\ read = 0

Putchar(d, base) ==
  /\ text' = Append(text, d)
  /\ read' = base * read + d

(* A faulty variant of Magnitude: the result is kept in a signed word.     *)
SignedMagnitude(v) == IF v = -HALF THEN HALF - 1 ELSE IF v < 0 THEN -v ELSE v

(* print_signed negates the unsigned word; print_decimal negates the int,  *)
(* which for its least value gives the same word on this hardware.         *)
Magnitude(v) == IF v < 0 THEN (WORD - (v % WORD)) % WORD ELSE v

Sign ==
  /\ pc = "start" /\ kind \in Decimals
  /\ ~ (kind = "print_decimal" /\ value = 0)
  /\ magnitude' = Magnitude(value)
  /\ text' = IF value < 0 THEN <<MINUS>> ELSE <<>>
  /\ pc' = "grow"
  /\ UNCHANGED <<kind, value, divisor, digit, read>>

(* Only the user library has a case for zero.                              *)
Zero ==
  /\ pc = "start" /\ kind = "print_decimal" /\ value = 0
  /\ Putchar(0, 10)
  /\ pc' = "done"
  /\ UNCHANGED <<kind, value, magnitude, divisor, digit>>

(* Faulty variants of TooSmall: off by one, one way and the other.         *)
TooSmallByOne(d) == magnitude \div d > 10
TooSmallAtNine(d) == magnitude \div d >= 9

TooSmall(d) == magnitude \div d > 9

(* A faulty variant of NextDivisor: it does not grow.                      *)
SameDivisor == divisor

NextDivisor == (divisor * 10) % WORD

Grow ==
  /\ pc = "grow"
  /\ IF TooSmall(divisor)
       THEN divisor' = NextDivisor /\ UNCHANGED pc
       ELSE pc' = "digits" /\ UNCHANGED divisor
  /\ UNCHANGED <<kind, value, magnitude, digit, text, read>>

Digit ==
  /\ pc = "digits" /\ divisor > 0
  /\ Putchar(magnitude \div divisor, 10)
  /\ magnitude' = magnitude % divisor
  /\ divisor' = divisor \div 10
  /\ UNCHANGED <<kind, value, pc, digit>>

Return ==
  /\ \/ pc = "digits" /\ divisor = 0
     \/ pc = "hex" /\ digit = 0
  /\ pc' = "done"
  /\ UNCHANGED <<kind, value, magnitude, divisor, digit, text, read>>

StartHex ==
  /\ pc = "start" /\ kind \notin Decimals
  /\ magnitude' = value % WORD
  /\ pc' = "hex"
  /\ UNCHANGED <<kind, value, divisor, digit, text, read>>

Nibble(w, i) == (w \div Weight[i]) % 16

HexDigit ==
  /\ pc = "hex" /\ digit > 0
  /\ Putchar(Nibble(magnitude, digit - 1), 16)
  /\ digit' = digit - 1
  /\ UNCHANGED <<kind, value, pc, magnitude, divisor>>

Next == Sign \/ Zero \/ Grow \/ Digit \/ StartHex \/ HexDigit \/ Return

Spec == Init /\ [][Next]_vars /\ WF_vars(Next)

----------------------------------------------------------------------------
Negative == text # <<>> /\ text[1] = MINUS
Digits == IF Negative THEN Tail(text) ELSE text
Base == IF kind \in Decimals THEN 10 ELSE 16

(* Every digit is one, and the divisor stays within its word although it   *)
(* grows while the magnitude is up to HALF (common.c:14-22).               *)
TypeOK ==
  /\ kind \in Kinds /\ value \in Words
  /\ pc \in {"start", "grow", "digits", "hex", "done"}
  /\ magnitude \in 0..WORD - 1
  /\ divisor \in 0..WORD - 1
  /\ divisor = 0 => pc \in {"digits", "done"}
  /\ digit \in 0..DIGITS
  /\ text \in Seq({MINUS} \cup 0..15)
  /\ \A i \in 1..Len(Digits) : Digits[i] \in 0..Base - 1
  /\ read \in Nat

(* What is printed is read back as the value that was to be printed, for   *)
(* the least value too (common.c:5-7).                                     *)
ReadsBack == pc = "done" =>
  IF kind \in Decimals
    THEN value = IF Negative THEN -read ELSE read
    ELSE value % WORD = read

OneForm ==
  /\ kind \in Decimals => Digits[1] # 0 \/ (Digits = <<0>> /\ ~ Negative)
  /\ kind \notin Decimals => Len(text) = DIGITS

(* In one way only: a decimal has no zero in front and no minus zero, and  *)
(* a hexadecimal has all its digits (ulib.c:75, common.c:37-38).           *)
Canonical == pc = "done" =>
  /\ read = FoldLeft(LAMBDA n, d : Base * n + d, 0, Digits)
  /\ OneForm

(* Both loops end.                                                         *)
Terminates == <>(pc = "done")
=============================================================================
