------------------------------ MODULE Strings ------------------------------
(***************************************************************************)
(* memset, memcpy, strcpy and strcmp of the kernel and str_eq of the user  *)
(* program: one call on a memory of bytes, one step per iteration of its   *)
(* loop.  Pointers are indices.                                            *)
(***************************************************************************)
EXTENDS Integers

CONSTANTS
  SIZE,     \* bytes of memory
  Bytes,    \* some values of a byte, 0 and one above 127 among them
  WORD      \* size_t is modulo WORD

NUL == 0
NONE == SIZE + 256                      \* no address and no difference
Addresses == 0..SIZE - 1

ASSUME StringsAssumption ==
  /\ SIZE \in Nat \ {0} /\ WORD \in Nat /\ WORD > SIZE
  /\ NUL \in Bytes /\ Bytes \subseteq 0..255

VARIABLES
  call,        \* the function, with its arguments
  before,      \* memory when it was called
  mem,         \* memory
  p, q, n,     \* its pointers, into the first and the second argument, and count
  result       \* what it returns, or NONE

vars == <<call, before, mem, p, q, n, result>>

Counted == {"memset", "memcpy"}
Compares == {"strcmp", "str_eq"}

(* The string at a ends at the first NUL behind it.                        *)
IsEnd(a, i) == before[i] = NUL /\ \A j \in a..i - 1 : before[j] # NUL
Terminated(a) == \E i \in a..SIZE - 1 : IsEnd(a, i)
EndOf(a) == CHOOSE i \in a..SIZE - 1 : IsEnd(a, i)
Size(a) == EndOf(a) + 1 - a

(* Calls that C allows: strings have an end, copies do not overlap, and    *)
(* everything is within memory.                                            *)
MayCopy(c, bytes) ==
  /\ c.a + bytes <= SIZE /\ c.b + bytes <= SIZE
  /\ c.a + bytes <= c.b \/ c.b + bytes <= c.a

Legal(c) ==
  /\ c.f = "memset" => c.a + c.n <= SIZE
  /\ c.f = "memcpy" => MayCopy(c, c.n)
  /\ c.f \notin Counted => c.n = 0 /\ Terminated(c.b)
  /\ c.f = "strcpy" => MayCopy(c, Size(c.b))
  /\ c.f \in Compares => Terminated(c.a)

Init ==
  /\ before \in [Addresses -> Bytes]
  /\ call \in [f : Counted \cup Compares \cup {"strcpy"},
               a : Addresses, b : Addresses, n : 0..SIZE]
  /\ Legal(call)
  /\ mem = before
  /\ p = call.a /\ q = call.b /\ n = call.n /\ result = NONE

(* Faulty variants: the ends of the strings are not looked for; the byte   *)
(* that ends a string is not copied; characters are signed; a comparison   *)
(* stays where it is.                                                      *)
GoesOnToTheEnd == p < SIZE - 1 /\ q < SIZE - 1 /\ mem[p] = mem[q]
StopsBeforeNul == mem
SignedDifference == (IF mem[p] > 127 THEN mem[p] - 256 ELSE mem[p]) - mem[q]
ComparisonStays(i) == IF call.f \in Compares THEN i ELSE i + 1

(* Whether the loop makes another round.  str_eq looks for the end of the  *)
(* first string only.                                                      *)
GoesOn ==
  \/ call.f \in Counted /\ n # 0
  \/ call.f = "strcpy" /\ mem[q] # NUL
  \/ call.f = "strcmp" /\ mem[p] # NUL /\ mem[q] # NUL /\ mem[p] = mem[q]
  \/ call.f = "str_eq" /\ mem[p] # NUL /\ mem[p] = mem[q]

Written == IF call.f = "memset" THEN call.b % 256 ELSE mem[q]
Round == IF call.f \in Compares THEN mem ELSE [mem EXCEPT ![p] = Written]

(* strcpy ends with the terminator.                                        *)
Ending == IF call.f = "strcpy" THEN [mem EXCEPT ![p] = NUL] ELSE mem

Difference == mem[p] - mem[q]
Advance(i) == i + 1

Returned ==
  IF call.f = "strcmp" THEN Difference
  ELSE IF call.f = "str_eq" THEN IF mem[p] = mem[q] THEN 1 ELSE 0
  ELSE call.a

Loop ==
  /\ result = NONE /\ GoesOn
  /\ mem' = Round
  /\ p' = Advance(p) /\ q' = Advance(q) /\ n' = (n - 1) % WORD
  /\ UNCHANGED <<call, before, result>>

(* n-- is done after the test that ends the loop, too.                     *)
Return ==
  /\ result = NONE /\ ~ GoesOn
  /\ mem' = Ending /\ result' = Returned /\ n' = (n - 1) % WORD
  /\ UNCHANGED <<call, before, p, q>>

Spec == Init /\ [][Loop \/ Return]_vars /\ WF_vars(Loop \/ Return)

----------------------------------------------------------------------------
(* A call reads and writes within its arguments only: a string is not      *)
(* followed past its terminator (common.c:113-123, user.c:17).             *)
TypeOK ==
  /\ mem \in [Addresses -> 0..255] /\ n \in 0..WORD - 1
  /\ result \in -255..NONE
  /\ result = NONE /\ call.f \notin Counted => q \in call.b..EndOf(call.b)
  /\ result = NONE /\ call.f \in Compares => p \in call.a..EndOf(call.a)

(* Memory in which the first bytes at the first argument are replaced.     *)
Filled(bytes, Byte(_)) == [i \in Addresses |->
  IF i \in call.a..call.a + bytes - 1 THEN Byte(i - call.a) ELSE before[i]]
Set(bytes)    == Filled(bytes, LAMBDA i : call.b % 256)
Copied(bytes) == Filled(bytes, LAMBDA i : before[call.b + i])

(* When it returns, memory is what the function is for, everywhere.        *)
LeavesMemoryRight == result # NONE =>
  /\ call.f = "memset" => mem = Set(call.n)
  /\ call.f = "memcpy" => mem = Copied(call.n)
  /\ call.f = "strcpy" => mem = Copied(Size(call.b))
  /\ call.f \in Compares => mem = before

StringAt(a) == [i \in 0..Size(a) - 1 |-> before[a + i]]
Less(s, t) == \E i \in DOMAIN s \cap DOMAIN t :
  s[i] < t[i] /\ \A j \in 0..i - 1 : s[j] = t[j]

(* Strings are equal if they have the same characters, and are ordered by  *)
(* the first in which they differ, as unsigned bytes (common.c:127).       *)
ComparesStrings == result # NONE /\ call.f \in Compares =>
  LET s == StringAt(call.a)
      t == StringAt(call.b)
  IN  IF call.f = "str_eq" THEN result = IF s = t THEN 1 ELSE 0
      ELSE ((result = 0) <=> (s = t)) /\ ((result < 0) <=> Less(s, t))

(* Every call returns: the count does not wrap before it is 0.             *)
Returns == <>(result # NONE)
=============================================================================
