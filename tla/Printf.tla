------------------------------- MODULE Printf -------------------------------
(***************************************************************************)
(* The two printf functions, the kernel's and the user library's, side by  *)
(* side on one format: each step is one iteration of the loop over it.     *)
(* How numbers are printed is in NumberFormat; here a conversion prints    *)
(* the argument it has fetched, with the way it is shown.                  *)
(*                                                                         *)
(* A format is made of directives, and what they mean is what the comments *)
(* say (common.c:33-42, ulib.c:64-77); the loops see only the characters.  *)
(***************************************************************************)
EXTENDS Naturals, Sequences, SequencesExt

CONSTANTS
  Letters,      \* the characters of formats and strings
  Directives,   \* what formats are made of
  Endings,      \* with what they may end
  MaxLen,       \* number of directives
  Strings       \* the string arguments, NULL included

NUL == "NUL"
NULL == <<"null pointer">>

Libraries == {"kernel", "user"}

(* A percent sign that ends a directive of the kernel (%l%) would begin    *)
(* one of the user library, so formats have none.                          *)
ASSUME PrintfAssumption ==
  /\ {"%", "l"} \subseteq Letters /\ NUL \notin Letters /\ MaxLen \in Nat
  /\ \A d \in Directives :
       \E c \in Letters :
         \/ d = <<c>> /\ c # "%"
         \/ d = <<"%", c>> /\ c # "l"
         \/ d = <<"%", "l", c>> /\ c # "%"
  /\ Endings \subseteq {<<>>, <<"%">>, <<"%", "l">>}
  /\ Strings \subseteq Seq(Letters) \cup {NULL}

VARIABLES
  format, str,   \* the call: the directives, and every string argument
  at,            \* at[k]: the place of fmt, 0 when printf has returned
  taken,         \* taken[k]: the types of the arguments fetched
  out            \* out[k]: what is printed

vars == <<format, str, at, taken, out>>

Init ==
  /\ \E ds \in BoundedSeq(Directives, MaxLen), e \in Endings : format = Append(ds, e)
  /\ str \in Strings
  /\ at = [k \in Libraries |-> 1]
  /\ taken = [k \in Libraries |-> <<>>]
  /\ out = [k \in Libraries |-> <<>>]

fmt == FlattenSeq(format)
Char(i) == IF i <= Len(fmt) THEN fmt[i] ELSE NUL

Move(k, n)  == at' = [at EXCEPT ![k] = IF n = 0 THEN 0 ELSE @ + n]
Put(k, s)   == out' = [out EXCEPT ![k] = @ \o s]
Fetch(k, t) == taken' = [taken EXCEPT ![k] = Append(@, t)]

(* print_string, and the same in the kernel.                               *)
String == IF str = NULL THEN <<"(null)">> ELSE str

(* The nth argument, shown as a number of its type.                        *)
Number(k, t) == << <<t, Len(taken[k]) + 1>> >>

Convert(k, t, n) ==
  /\ Fetch(k, t)
  /\ Put(k, IF t = "string" THEN String ELSE Number(k, t))
  /\ Move(k, n)

Literal(k, s, n) == Put(k, s) /\ Move(k, n) /\ UNCHANGED taken

Plain(k) ==
  /\ at[k] # 0 /\ Char(at[k]) \notin {"%", NUL}
  /\ Literal(k, <<Char(at[k])>>, 1)

End(k) ==
  /\ at[k] # 0 /\ Char(at[k]) = NUL
  /\ Literal(k, <<>>, 0)

(* What both do after a percent sign.                                      *)
Conversion(k, c) ==
  \/ c = NUL /\ Literal(k, <<"%">>, 0)
  \/ c = "%" /\ Literal(k, <<"%">>, 2)
  \/ c = "s" /\ Convert(k, "string", 2)
  \/ c = "d" /\ Convert(k, "int", 2)
  \/ c = "x" /\ Convert(k, "unsigned", 2)

(* Faulty variants: the end of the format is not looked for; a long is     *)
(* fetched as an int.                                                      *)
NeverEnds(c) == FALSE
AsInt == "int"

Ends(c) == c = NUL
LongType == "long"

(* After an l the kernel moves on before it looks at the next character.   *)
Long(k, c) ==
  \/ c = "d" /\ Convert(k, LongType, 3)
  \/ c = "x" /\ Convert(k, "unsigned long", 3)
  \/ Ends(c) /\ Literal(k, <<"%", "l">>, 0)
  \/ c \notin {"d", "x"} /\ ~ Ends(c) /\ Literal(k, <<>>, 3)

KernelPercent ==
  LET k == "kernel"
      c == Char(at[k] + 1)
  IN  /\ at[k] # 0 /\ Char(at[k]) = "%"
      /\ \/ Conversion(k, c)
         \/ c = "l" /\ Long(k, Char(at[k] + 2))
         \/ c \notin {NUL, "%", "s", "d", "x", "l"} /\ Literal(k, <<>>, 2)

UserPercent ==
  LET k == "user"
      c == Char(at[k] + 1)
  IN  /\ at[k] # 0 /\ Char(at[k]) = "%"
      /\ \/ Conversion(k, c)
         \/ c \notin {NUL, "%", "s", "d", "x"} /\ Literal(k, <<"%", c>>, 2)

Next ==
  /\ UNCHANGED <<format, str>>
  /\ \/ \E k \in Libraries : Plain(k) \/ End(k)
     \/ KernelPercent
     \/ UserPercent

Spec == Init /\ [][Next]_vars

----------------------------------------------------------------------------
(* fmt never passes the terminator of the format, however it ends.         *)
TypeOK ==
  /\ at \in [Libraries -> 0..Len(fmt) + 1]
  /\ \A k \in Libraries :
       taken[k] \in Seq({"string", "int", "unsigned", "long", "unsigned long"})

(* The meaning of a directive: the type of the argument it takes, if any,  *)
(* and the characters it prints otherwise.                                 *)
Takes(k, d) ==
  CASE d = <<"%", "s">>      -> <<"string">>
    [] d = <<"%", "d">>      -> <<"int">>
    [] d = <<"%", "x">>      -> <<"unsigned">>
    [] k = "kernel" /\ d = <<"%", "l", "d">> -> <<"long">>
    [] k = "kernel" /\ d = <<"%", "l", "x">> -> <<"unsigned long">>
    [] OTHER                 -> <<>>

Shows(k, d) ==
  IF d = <<"%", "%">> THEN <<"%">>
  ELSE IF k = "kernel" /\ d \notin Endings /\ Len(d) > 1 THEN <<>>
  ELSE d

(* Both print what the directives mean, in their order, and fetch just the *)
(* arguments these take, each with its own type (common.c:33-42,           *)
(* ulib.c:64-77): one argument too many or of another type would be read   *)
(* from registers or a stack that hold something else.                     *)
DecodesTheFormat == \A k \in Libraries : at[k] = 0 =>
  LET needs == [i \in 1..Len(format) |-> Takes(k, format[i])]
      args  == FlattenSeq(needs)
      nth(i) == Len(FlattenSeq(SubSeq(needs, 1, i)))
      text(i) == IF needs[i] = <<>> THEN Shows(k, format[i])
                 ELSE IF needs[i] = <<"string">> THEN String
                 ELSE << <<needs[i][1], nth(i)>> >>
  IN  /\ taken[k] = args
      /\ out[k] = FlattenSeq([i \in 1..Len(format) |-> text(i)])
=============================================================================
