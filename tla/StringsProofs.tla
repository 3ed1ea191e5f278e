---------------------------- MODULE StringsProofs ----------------------------
(***************************************************************************)
(* Proofs that the memory and string functions do what they are for, for   *)
(* every size of memory, every content of it and every call that C allows. *)
(*                                                                         *)
(* The argument is the invariant of each loop: the pointers have gone as   *)
(* far as one another, what lies behind them is done (Prefix), and no      *)
(* string has been followed past its end (InStrings).                      *)
(***************************************************************************)
EXTENDS Strings, TLAPS

Functions == Counted \cup Compares \cup {"strcpy"}
Calls == [f : Functions, a : Addresses, b : Addresses, n : 0 .. SIZE]

(* How far the loop has come.                                              *)
Done == p - call.a

Pointers ==
  /\ p \in Int /\ q \in Int /\ n \in Int
  /\ Done >= 0 /\ q = call.b + Done
  /\ result = NONE /\ call.f \in Counted => n = call.n - Done /\ n >= 0

InStrings ==
  /\ result = NONE /\ call.f \notin Counted => q \in call.b .. EndOf(call.b)
  /\ result = NONE /\ call.f \in Compares => p \in call.a .. EndOf(call.a)

Prefix == result = NONE =>
  /\ call.f = "memset" => mem = Set(Done)
  /\ call.f \in {"memcpy", "strcpy"} => mem = Copied(Done)
  /\ call.f \in Compares =>
       mem = before /\ \A j \in 0 .. Done - 1 : before[call.a + j] = before[call.b + j]

StrInv ==
  /\ before \in [Addresses -> Bytes] /\ call \in Calls /\ Legal(call)
  /\ Pointers /\ InStrings /\ Prefix
  /\ TypeOK /\ LeavesMemoryRight /\ ComparesStrings
-----------------------------------------------------------------------------
(* The strings in memory.                                                  *)

(* The end of a string is where its first NUL is.                          *)
LEMMA EndFacts ==
  ASSUME NEW a \in Addresses, Terminated(a)
  PROVE  /\ EndOf(a) \in a .. SIZE - 1 /\ EndOf(a) \in Nat /\ EndOf(a) \in Addresses
         /\ before[EndOf(a)] = NUL
         /\ \A j \in a .. EndOf(a) - 1 : before[j] # NUL
<1>1. EndOf(a) \in a .. SIZE - 1 /\ IsEnd(a, EndOf(a))
  BY DEF Terminated, EndOf
<1> QED BY <1>1, StringsAssumption DEF IsEnd, Addresses

(* The constants.                                                          *)
LEMMA StringsConstants ==
  /\ SIZE \in Nat \ {0} /\ WORD \in Nat \ {0} /\ SIZE < WORD
  /\ NUL = 0 /\ Bytes \subseteq 0 .. 255 /\ NONE = SIZE + 256
  /\ Addresses = 0 .. SIZE - 1
  BY StringsAssumption DEF NUL, NONE, Addresses

(* What a legal call touches is memory.                                    *)
LEMMA CallFacts ==
  ASSUME StrInv
  PROVE  /\ call.a \in Nat /\ call.a < SIZE /\ call.b \in Nat /\ call.b < SIZE
         /\ call.a \in Addresses /\ call.b \in Addresses
         /\ call.n \in 0 .. SIZE
         /\ call.f \in {"memset", "memcpy", "strcpy", "strcmp", "str_eq"}
         /\ call.f \notin Counted => Terminated(call.b)
         /\ call.f \in Compares => Terminated(call.a)
         /\ before \in [Addresses -> 0 .. 255] /\ mem \in [Addresses -> 0 .. 255]
<1>1. call \in Calls /\ Legal(call) /\ before \in [Addresses -> Bytes]
      /\ mem \in [Addresses -> 0 .. 255]
  BY DEF StrInv, TypeOK
<1>2. /\ call.a \in Addresses /\ call.b \in Addresses /\ call.n \in 0 .. SIZE
      /\ call.f \in {"memset", "memcpy", "strcpy", "strcmp", "str_eq"}
  BY <1>1 DEF Calls, Functions, Counted, Compares
<1>3. call.a \in Nat /\ call.a < SIZE /\ call.b \in Nat /\ call.b < SIZE
  BY <1>2, StringsConstants
<1>4. before \in [Addresses -> 0 .. 255]
  BY <1>1, StringsConstants
<1>5. /\ call.f \notin Counted => Terminated(call.b)
      /\ call.f \in Compares => Terminated(call.a)
  BY <1>1 DEF Legal
<1> QED BY <1>1, <1>2, <1>3, <1>4, <1>5

(* Before the first round nothing is done.                                 *)
LEMMA StringsInit == Init => StrInv
<1> SUFFICES ASSUME Init PROVE StrInv
  OBVIOUS
<1>1. /\ before \in [Addresses -> Bytes] /\ call \in Calls /\ Legal(call)
      /\ mem = before /\ p = call.a /\ q = call.b /\ n = call.n /\ result = NONE
      /\ call.a \in Addresses /\ call.b \in Addresses /\ call.n \in 0 .. SIZE
  BY DEF Init, Calls, Functions
<1>2. Pointers
  BY <1>1, StringsConstants DEF Pointers, Done
<1>3. InStrings
  BY <1>1, StringsConstants, EndFacts DEF InStrings, Legal, Compares, Counted
<1>4. Set(0) = before /\ Copied(0) = before
  BY <1>1, StringsConstants DEF Set, Copied, Filled
<1>5. Prefix
  BY <1>1, <1>4, StringsConstants DEF Prefix, Done
<1>6. LeavesMemoryRight /\ ComparesStrings
  BY <1>1 DEF LeavesMemoryRight, ComparesStrings
<1>7. TypeOK
  <2>1. mem \in [Addresses -> 0 .. 255]
    BY <1>1, StringsConstants
  <2>2. n \in 0 .. WORD - 1 /\ result \in -255 .. NONE
    BY <1>1, StringsConstants
  <2> QED BY <1>3, <2>1, <2>2 DEF TypeOK, InStrings
<1> QED BY <1>1, <1>2, <1>3, <1>5, <1>6, <1>7 DEF StrInv
-----------------------------------------------------------------------------
(* One round.                                                              *)

(* Replacing the next byte fills one byte more.                            *)
LEMMA OneMore ==
  ASSUME call.a \in Nat, call.b \in Nat, NEW d \in Nat, call.a + d < SIZE
  PROVE  /\ [Set(d) EXCEPT ![call.a + d] = call.b % 256] = Set(d + 1)
         /\ [Copied(d) EXCEPT ![call.a + d] = before[call.b + d]] = Copied(d + 1)
<1>1. \A i \in Addresses : i \in call.a .. call.a + (d + 1) - 1
                             <=> i \in call.a .. call.a + d - 1 \/ i = call.a + d
  BY StringsConstants
<1>2. call.a + d - call.a = d /\ call.a + d \in Addresses
  BY StringsConstants
<1>3. [Set(d) EXCEPT ![call.a + d] = call.b % 256] = Set(d + 1)
  BY <1>1, <1>2 DEF Set, Filled
<1>4. [Copied(d) EXCEPT ![call.a + d] = before[call.b + d]] = Copied(d + 1)
  <2> DEFINE at(i) == before[call.b + (i - call.a)]
  <2>1. at(call.a + d) = before[call.b + d]
    BY <1>2
  <2>2. \A e : Copied(e) = [i \in Addresses |-> IF i \in call.a .. call.a + e - 1
                                                THEN at(i) ELSE before[i]]
    BY DEF Copied, Filled
  <2> HIDE DEF at
  <2> QED BY <1>1, <1>2, <2>1, <2>2
<1> QED BY <1>3, <1>4

(* What a copy reads has not been written by it, and it writes within      *)
(* memory, the terminator of a string included.                            *)
LEMMA CopyFacts ==
  ASSUME StrInv, result = NONE, call.f = "strcpy" \/ (call.f = "memcpy" /\ n # 0)
  PROVE  /\ p \in Addresses /\ q \in Addresses /\ mem[q] = before[q]
         /\ Done \in Nat /\ p = call.a + Done /\ q = call.b + Done
<1>1. /\ Done \in Nat /\ p = call.a + Done /\ q = call.b + Done /\ p \in Int
      /\ call.f = "memcpy" => Done < call.n
      /\ mem = Copied(Done)
  BY CallFacts DEF StrInv, Pointers, Prefix, Done, Counted
<1> DEFINE k == IF call.f = "memcpy" THEN call.n ELSE Size(call.b)
<1>2. k \in Nat /\ Done < k /\ MayCopy(call, k)
  <2>1. CASE call.f = "memcpy"
    BY <1>1, <2>1, CallFacts DEF StrInv, Legal
  <2>2. CASE call.f = "strcpy"
    <3>1. q \in call.b .. EndOf(call.b) /\ EndOf(call.b) \in Nat
      BY <2>2, CallFacts, EndFacts DEF StrInv, InStrings, Counted
    <3>2. MayCopy(call, Size(call.b))
      BY <2>2 DEF StrInv, Legal
    <3> QED BY <1>1, <2>2, <3>1, <3>2, CallFacts DEF Size
  <2> QED BY <2>1, <2>2
<1> HIDE DEF k
<1>3. /\ call.a + Done < SIZE /\ call.b + Done < SIZE
      /\ call.a + Done < call.b \/ call.b + k <= call.a
  BY <1>1, <1>2, CallFacts, StringsConstants DEF MayCopy
<1>4. p \in Addresses /\ q \in Addresses
  BY <1>1, <1>3, CallFacts, StringsConstants
<1>5. q \notin call.a .. call.a + Done - 1
  BY <1>1, <1>2, <1>3, CallFacts
<1> QED BY <1>1, <1>4, <1>5 DEF Copied, Filled

(* The count is a size_t.                                                  *)
LEMMA CountFacts ==
  ASSUME NEW m \in 0 .. WORD - 1
  PROVE  (m - 1) % WORD \in 0 .. WORD - 1 /\ (m > 0 => (m - 1) % WORD = m - 1)
<1>1. WORD \in Nat \ {0}
  BY StringsConstants
<1>2. CASE m > 0
  <2>1. m - 1 \in 0 .. WORD - 1
    BY <1>1, <1>2
  <2> QED BY <1>1, <2>1
<1>3. CASE m = 0
  BY <1>1, <1>3
<1> QED BY <1>2, <1>3

(* A string that goes on does so behind its pointer.                       *)
LEMMA BeforeTheEnd ==
  ASSUME NEW a \in Addresses, Terminated(a), NEW i \in a .. EndOf(a), before[i] # NUL
  PROVE  i + 1 \in a .. EndOf(a)
<1>1. i # EndOf(a) /\ EndOf(a) \in Nat /\ a \in Nat
  BY EndFacts, StringsConstants
<1> QED BY <1>1

(* What comparing reads is memory, as it was.                              *)
LEMMA CompareFacts ==
  ASSUME StrInv, result = NONE, call.f \in Compares
  PROVE  /\ mem = before /\ p \in call.a .. EndOf(call.a) /\ q \in call.b .. EndOf(call.b)
         /\ p \in Addresses /\ q \in Addresses
         /\ Done \in Nat /\ p = call.a + Done /\ q = call.b + Done
<1>1. /\ mem = before /\ p \in call.a .. EndOf(call.a) /\ q \in call.b .. EndOf(call.b)
      /\ Done \in Nat /\ p = call.a + Done /\ q = call.b + Done
  BY CallFacts DEF StrInv, Pointers, InStrings, Prefix, Done, Counted, Compares
<1>2. EndOf(call.a) \in Addresses /\ EndOf(call.b) \in Addresses
  BY CallFacts, EndFacts DEF Compares, Counted
<1>3. call.a \in Nat /\ call.b \in Nat /\ SIZE \in Nat /\ Addresses = 0 .. SIZE - 1
  BY CallFacts, StringsConstants
<1>4. p \in Addresses
  BY <1>1, <1>2, <1>3
<1>5. q \in Addresses
  BY <1>1, <1>2, <1>3
<1> QED BY <1>1, <1>4, <1>5

(* The strings, the filled memories and what is legal stay during a call.  *)
LEMMA CallStays ==
  ASSUME UNCHANGED <<call, before>>
  PROVE  /\ \A a : /\ Terminated(a)' <=> Terminated(a)
                   /\ EndOf(a)' = EndOf(a) /\ Size(a)' = Size(a)
                   /\ StringAt(a)' = StringAt(a)
         /\ \A d : Set(d)' = Set(d) /\ Copied(d)' = Copied(d)
         /\ Legal(call)' <=> Legal(call)
         /\ NONE' = NONE /\ Addresses' = Addresses /\ Calls' = Calls
         /\ Compares' = Compares /\ Counted' = Counted
<1>1. \A a : Terminated(a)' <=> Terminated(a)
  BY DEF Terminated, IsEnd, NUL
<1>2. \A a : EndOf(a)' = EndOf(a)
  BY DEF EndOf, IsEnd, NUL
<1>3. \A a : Size(a)' = Size(a)
  BY <1>2 DEF Size
<1>4. \A a : StringAt(a)' = StringAt(a)
  BY <1>3 DEF StringAt
<1>5. \A d : Set(d)' = Set(d) /\ Copied(d)' = Copied(d)
  BY DEF Set, Copied, Filled, Addresses
<1>6. \A c, m : MayCopy(c, m)' <=> MayCopy(c, m)
  BY DEF MayCopy
<1>7. \A c : Legal(c)' <=> Legal(c)
  BY <1>1, <1>3, <1>6 DEF Legal, Counted, Compares
<1>8. /\ NONE' = NONE /\ Addresses' = Addresses /\ Calls' = Calls
      /\ Compares' = Compares /\ Counted' = Counted
  BY DEF NONE, Addresses, Calls, Functions, Counted, Compares
<1> QED BY <1>1, <1>2, <1>3, <1>4, <1>5, <1>7, <1>8

(* What a round has to keep.                                               *)
LEMMA LoopKeeps ==
  ASSUME StrInv, UNCHANGED <<call, before, result>>, result = NONE,
         n' \in 0 .. WORD - 1, mem' \in [Addresses -> 0 .. 255],
         Pointers', InStrings', Prefix'
  PROVE  StrInv'
<1>1. TypeOK'
  BY CallStays DEF TypeOK, StrInv, InStrings
<1> QED BY <1>1, CallStays DEF StrInv, LeavesMemoryRight, ComparesStrings

(* Every round keeps the invariant.                                        *)
LEMMA LoopInv == StrInv /\ Loop => StrInv'
<1> SUFFICES ASSUME StrInv, Loop PROVE StrInv'
  OBVIOUS
<1>1. /\ result = NONE /\ GoesOn /\ result' = NONE /\ mem' = Round
      /\ p' = p + 1 /\ q' = q + 1 /\ n' = (n - 1) % WORD
      /\ UNCHANGED <<call, before>>
  BY DEF Loop, Advance
<1>2. /\ p \in Int /\ q \in Int /\ n \in 0 .. WORD - 1 /\ Done \in Nat
      /\ q = call.b + Done /\ p = call.a + Done /\ Done' = Done + 1
  BY <1>1, CallFacts DEF StrInv, Pointers, Done, TypeOK
<1>3. n' \in 0 .. WORD - 1 /\ (n > 0 => n' = n - 1)
  BY <1>1, <1>2, CountFacts
<1>4. \A d : Set(d)' = Set(d) /\ Copied(d)' = Copied(d)
  BY <1>1, CallStays
<1>5. CASE call.f = "memset"
  <2>1. n # 0 /\ n = call.n - Done /\ Done < call.n /\ n > 0
    BY <1>1, <1>2, <1>5, CallFacts DEF GoesOn, StrInv, Pointers, Counted
  <2>2. call.a + Done < SIZE
    <3>1. call.a + call.n <= SIZE
      BY <1>5 DEF StrInv, Legal
    <3>2. call.a \in Nat /\ call.n \in Nat /\ SIZE \in Nat
      BY CallFacts, StringsConstants
    <3> QED BY <1>2, <2>1, <3>1, <3>2
  <2>3. mem' = [mem EXCEPT ![p] = call.b % 256] /\ mem = Set(Done)
    BY <1>1, <1>5 DEF Round, Written, Compares, StrInv, Prefix
  <2>4. mem' = Set(Done + 1)
    BY <1>2, <2>2, <2>3, OneMore, CallFacts
  <2>5. mem' \in [Addresses -> 0 .. 255]
    <3>1. call.b % 256 \in 0 .. 255
      BY CallFacts
    <3> QED BY <2>3, <3>1, CallFacts
  <2>6. Pointers' /\ InStrings'
    BY <1>1, <1>2, <1>3, <1>5, <2>1, CallFacts DEF Pointers, InStrings, Counted, Compares
  <2>7. Prefix'
    BY <1>1, <1>2, <1>4, <1>5, <2>4 DEF Prefix, Compares
  <2> QED BY <1>1, <1>3, <2>5, <2>6, <2>7, LoopKeeps
<1>6. CASE call.f \in {"memcpy", "strcpy"}
  <2>1. /\ call.f = "memcpy" => n # 0 /\ n = call.n - Done /\ n > 0
        /\ call.f = "strcpy" => mem[q] # NUL
    BY <1>1, <1>2, <1>6, CallFacts DEF GoesOn, StrInv, Pointers, Counted
  <2>2. p \in Addresses /\ q \in Addresses /\ mem[q] = before[q]
    BY <1>1, <1>6, <2>1, CopyFacts
  <2>3. mem' = [mem EXCEPT ![p] = before[q]] /\ mem = Copied(Done)
    BY <1>1, <1>6, <2>2 DEF Round, Written, Compares, StrInv, Prefix
  <2>4. mem' = Copied(Done + 1)
    <3>1. /\ call.a + Done < SIZE /\ before[q] = before[call.b + Done]
          /\ call.a \in Nat /\ call.b \in Nat
      BY <1>2, <2>2, CallFacts, StringsConstants
    <3> QED BY <1>2, <2>3, <3>1, OneMore
  <2>5. mem' \in [Addresses -> 0 .. 255]
    BY <2>2, <2>3, CallFacts
  <2>6. Pointers'
    BY <1>1, <1>2, <1>3, <1>6, <2>1, CallFacts DEF Pointers, Counted
  <2>7. InStrings'
    <3>1. CASE call.f = "memcpy"
      BY <1>1, <3>1 DEF InStrings, Counted, Compares
    <3>2. CASE call.f = "strcpy"
      <4>1. q \in call.b .. EndOf(call.b) /\ Terminated(call.b)
        BY <1>1, <3>2, CallFacts DEF StrInv, InStrings, Counted
      <4>2. q + 1 \in call.b .. EndOf(call.b)
        BY <2>1, <2>2, <3>2, <4>1, BeforeTheEnd, CallFacts
      <4>3. EndOf(call.b)' = EndOf(call.b)
        BY <1>1, CallStays
      <4> QED BY <1>1, <3>2, <4>2, <4>3 DEF InStrings, Compares
    <3> QED BY <1>6, <3>1, <3>2
  <2>8. Prefix' 
    BY <1>1, <1>2, <1>4, <1>6, <2>4 DEF Prefix, Compares
  <2> QED BY <1>1, <1>3, <2>5, <2>6, <2>7, <2>8, LoopKeeps
<1>7. CASE call.f \in Compares
  <2>1. /\ mem = before /\ p \in call.a .. EndOf(call.a) /\ q \in call.b .. EndOf(call.b)
        /\ Terminated(call.a) /\ Terminated(call.b)
    BY <1>1, <1>7, CompareFacts, CallFacts DEF Compares, Counted
  <2>2. before[p] = before[q] /\ before[p] # NUL /\ before[q] # NUL
    BY <1>1, <1>7, <2>1 DEF GoesOn, Counted, Compares
  <2>3. p + 1 \in call.a .. EndOf(call.a) /\ q + 1 \in call.b .. EndOf(call.b)
    BY <2>1, <2>2, BeforeTheEnd, CallFacts
  <2>4. mem' = before /\ mem' \in [Addresses -> 0 .. 255]
    BY <1>1, <1>7, <2>1, CallFacts DEF Round
  <2>5. Pointers'
    BY <1>1, <1>2, <1>7, CallFacts DEF Pointers, Counted, Compares
  <2>6. InStrings'
    <3>1. EndOf(call.a)' = EndOf(call.a) /\ EndOf(call.b)' = EndOf(call.b)
      BY <1>1, CallStays
    <3> QED BY <1>1, <2>3, <3>1 DEF InStrings
  <2>7. Prefix'
    <3>1. \A j \in 0 .. Done - 1 : before[call.a + j] = before[call.b + j]
      BY <1>1, <1>7 DEF StrInv, Prefix
    <3>2. \A j \in 0 .. (Done + 1) - 1 : before[call.a + j] = before[call.b + j]
      BY <1>2, <2>2, <3>1
    <3> QED BY <1>1, <1>2, <1>7, <2>4, <3>2 DEF Prefix, Compares
  <2> QED BY <1>1, <1>3, <2>4, <2>5, <2>6, <2>7, LoopKeeps
<1> QED BY <1>5, <1>6, <1>7, CallFacts DEF Compares
-----------------------------------------------------------------------------
(* The last round.                                                         *)

(* A string has ended where its pointer finds NUL.                         *)
LEMMA AtTheEnd ==
  ASSUME NEW a \in Addresses, Terminated(a), NEW i \in a .. EndOf(a), before[i] = NUL
  PROVE  i = EndOf(a)
<1>1. /\ EndOf(a) \in Nat /\ a \in Nat
      /\ \A j \in a .. EndOf(a) - 1 : before[j] # NUL
  BY EndFacts, StringsConstants
<1>2. CASE i < EndOf(a)
  <2>1. i \in a .. EndOf(a) - 1
    BY <1>1, <1>2
  <2> QED BY <1>1, <2>1
<1> QED BY <1>1, <1>2

(* Where a comparison ends, the strings are the same so far, and end both  *)
(* or differ.                                                              *)
LEMMA ComparisonEnds ==
  ASSUME StrInv, result = NONE, call.f \in Compares, ~ GoesOn
  PROVE  LET s == StringAt(call.a)
             t == StringAt(call.b)
         IN  /\ before[p] = before[q] => s = t /\ ~ Less(s, t)
             /\ before[p] # before[q] => s # t /\ (before[p] < before[q] <=> Less(s, t))
<1> DEFINE s == StringAt(call.a)
           t == StringAt(call.b)
<1>1. /\ mem = before /\ p \in call.a .. EndOf(call.a) /\ q \in call.b .. EndOf(call.b)
      /\ Done \in Nat /\ p = call.a + Done /\ q = call.b + Done
      /\ p \in Addresses /\ q \in Addresses
      /\ Terminated(call.a) /\ Terminated(call.b)
      /\ call.a \in Addresses /\ call.b \in Addresses /\ call.a \in Nat /\ call.b \in Nat
      /\ before \in [Addresses -> 0 .. 255]
  BY CompareFacts, CallFacts DEF Compares, Counted
<1>2. \A j \in 0 .. Done - 1 : before[call.a + j] = before[call.b + j]
  BY DEF StrInv, Prefix
<1>3. EndOf(call.a) \in Nat /\ EndOf(call.b) \in Nat
  BY <1>1, EndFacts
<1>4. /\ Size(call.a) \in Nat /\ Size(call.b) \in Nat
      /\ Done < Size(call.a) /\ Done < Size(call.b)
  BY <1>1, <1>3 DEF Size
<1>5. /\ DOMAIN s = 0 .. Size(call.a) - 1 /\ DOMAIN t = 0 .. Size(call.b) - 1
      /\ \A j \in 0 .. Size(call.a) - 1 : s[j] = before[call.a + j]
      /\ \A j \in 0 .. Size(call.b) - 1 : t[j] = before[call.b + j]
  BY DEF StringAt
<1>6. /\ \A j \in 0 .. Done - 1 : s[j] = t[j]
      /\ s[Done] = before[p] /\ t[Done] = before[q]
      /\ Done \in DOMAIN s \cap DOMAIN t
  <2>1. \A j \in 0 .. Done : j \in 0 .. Size(call.a) - 1 /\ j \in 0 .. Size(call.b) - 1
    BY <1>1, <1>4
  <2> QED BY <1>1, <1>2, <1>5, <2>1
<1>7. \A j \in DOMAIN s : s[j] \in Int
  <2> SUFFICES ASSUME NEW j \in 0 .. Size(call.a) - 1 PROVE s[j] \in Int
    BY <1>5
  <2>1. EndOf(call.a) \in call.a .. SIZE - 1
    BY <1>1, EndFacts
  <2>2. s[j] = before[call.a + j]
    BY <1>5
  <2>3. call.a + j \in Addresses
    <3>1. call.a \in Nat /\ SIZE \in Nat /\ Addresses = 0 .. SIZE - 1
      BY <1>1, StringsConstants
    <3>2. Size(call.a) = EndOf(call.a) + 1 - call.a
      BY DEF Size
    <3> HIDE DEF s, t
    <3> QED BY <1>3, <2>1, <3>1, <3>2
  <2> QED BY <1>1, <2>2, <2>3
<1>8. CASE before[p] = before[q]
  <2>1. before[p] = NUL /\ before[q] = NUL
    BY <1>1, <1>8 DEF GoesOn, Compares
  <2>2. p = EndOf(call.a) /\ q = EndOf(call.b)
    BY <1>1, <2>1, AtTheEnd
  <2>3. Size(call.a) = Done + 1 /\ Size(call.b) = Done + 1
    BY <1>1, <2>2 DEF Size
  <2>4. \A j \in 0 .. Done : s[j] = t[j]
    BY <1>1, <1>6, <1>8
  <2>5. s = t
    BY <1>1, <2>3, <2>4, <1>5 DEF StringAt
  <2>6. ~ Less(s, t)
    BY <1>7, <2>5 DEF Less
  <2> QED BY <1>8, <2>5, <2>6
<1>9. CASE before[p] # before[q]
  <2>1. s # t
    BY <1>6, <1>9
  <2>2. ASSUME before[p] < before[q] PROVE Less(s, t)
    BY <1>6, <2>2 DEF Less
  <2>3. ASSUME Less(s, t) PROVE before[p] < before[q]
    <3>1. PICK i \in DOMAIN s \cap DOMAIN t :
            s[i] < t[i] /\ \A j \in 0 .. i - 1 : s[j] = t[j]
      BY <2>3 DEF Less
    <3>2. i \in Nat /\ i < Size(call.a)
      BY <1>4, <1>5, <3>1
    <3>3. CASE i < Done
      <4>1. i \in 0 .. Done - 1
        BY <1>1, <3>2, <3>3
      <4> QED BY <1>6, <3>1, <4>1, <1>7
    <3>4. CASE Done < i
      <4>1. Done \in 0 .. i - 1
        BY <1>1, <3>2, <3>4
      <4> QED BY <1>6, <1>9, <3>1, <4>1
    <3>5. CASE i = Done
      BY <1>6, <3>1, <3>5
    <3> QED BY <1>1, <3>2, <3>3, <3>4, <3>5
  <2> QED BY <1>9, <2>1, <2>2, <2>3
<1> QED BY <1>8, <1>9

(* What the last round leaves in memory.                                   *)
LEMMA EndingFacts ==
  ASSUME StrInv, result = NONE, ~ GoesOn
  PROVE  /\ Ending \in [Addresses -> 0 .. 255]
         /\ call.f = "memset" => Ending = Set(call.n)
         /\ call.f = "memcpy" => Ending = Copied(call.n)
         /\ call.f = "strcpy" => Ending = Copied(Size(call.b))
         /\ call.f \in Compares => Ending = before
<1>1. CASE call.f \in Counted
  <2>1. n = 0 /\ n = call.n - Done
    BY <1>1 DEF GoesOn, StrInv, Pointers
  <2>2. Done = call.n
    BY <2>1, CallFacts DEF StrInv, Pointers, Done
  <2>3. Ending = mem /\ call.f # "strcpy" /\ call.f \notin Compares
    BY <1>1 DEF Ending, Counted, Compares
  <2>4. /\ call.f = "memset" => mem = Set(Done)
        /\ call.f = "memcpy" => mem = Copied(Done)
    BY DEF StrInv, Prefix
  <2> QED BY <2>2, <2>3, <2>4, CallFacts
<1>2. CASE call.f = "strcpy"
  <2>1. /\ p \in Addresses /\ q \in Addresses /\ mem[q] = before[q]
        /\ Done \in Nat /\ p = call.a + Done /\ q = call.b + Done
    BY <1>2, CopyFacts
  <2>2. q \in call.b .. EndOf(call.b) /\ Terminated(call.b) /\ mem = Copied(Done)
    BY <1>2, CallFacts DEF StrInv, InStrings, Prefix, Counted
  <2>3. before[q] = NUL
    BY <1>2, <2>1 DEF GoesOn
  <2>4. q = EndOf(call.b)
    BY <2>2, <2>3, AtTheEnd, CallFacts
  <2>5. Size(call.b) = Done + 1
    BY <2>1, <2>4, CallFacts DEF Size
  <2>6. Ending = [mem EXCEPT ![call.a + Done] = before[call.b + Done]]
    BY <1>2, <2>1, <2>3 DEF Ending
  <2>7. Ending = Copied(Done + 1)
    <3>1. call.a + Done < SIZE /\ call.a \in Nat /\ call.b \in Nat
      BY <2>1, CallFacts, StringsConstants
    <3> QED BY <2>1, <2>2, <2>6, <3>1, OneMore
  <2>8. Ending \in [Addresses -> 0 .. 255]
    <3>1. mem \in [Addresses -> 0 .. 255] /\ NUL \in 0 .. 255
      BY StringsConstants, CallFacts
    <3> QED BY <1>2, <3>1 DEF Ending
  <2> QED BY <1>2, <2>5, <2>7, <2>8 DEF Compares
<1>3. CASE call.f \in Compares
  BY <1>3, CompareFacts, CallFacts DEF Ending, Compares
<1> QED BY <1>1, <1>2, <1>3, CallFacts DEF Counted, Compares

(* Returning keeps the invariant.                                          *)
LEMMA ReturnInv == StrInv /\ Return => StrInv'
<1> SUFFICES ASSUME StrInv, Return PROVE StrInv'
  OBVIOUS
<1>1. /\ result = NONE /\ ~ GoesOn /\ mem' = Ending /\ result' = Returned
      /\ n' = (n - 1) % WORD /\ UNCHANGED <<call, before, p, q>>
  BY DEF Return
<1>2. /\ call.f = "strcmp" => result' = before[p] - before[q]
      /\ call.f = "str_eq" => result' = IF before[p] = before[q] THEN 1 ELSE 0
      /\ call.f \notin Compares => result' = call.a
  BY <1>1, CompareFacts DEF Returned, Difference, Compares
<1>3. call.f \in Compares => before[p] \in 0 .. 255 /\ before[q] \in 0 .. 255
  BY <1>1, CompareFacts, CallFacts
<1>4. result' \in -255 .. NONE /\ result' # NONE
  <2>1. CASE call.f \in Compares
    <3>1. PICK x \in 0 .. 255, y \in 0 .. 255 : x = before[p] /\ y = before[q]
      BY <1>3, <2>1
    <3>2. result' = x - y \/ result' \in {0, 1}
      BY <1>2, <2>1, <3>1 DEF Compares
    <3> QED BY <3>2, StringsConstants
  <2>2. CASE call.f \notin Compares
    BY <1>2, <2>2, CallFacts, StringsConstants
  <2> QED BY <2>1, <2>2
<1>5. NONE' = NONE /\ Addresses' = Addresses /\ Calls' = Calls /\ Compares' = Compares
  BY <1>1, CallStays
<1>6. n' \in 0 .. WORD - 1
  BY <1>1, CountFacts DEF StrInv, TypeOK
<1>7. Pointers'
  BY <1>1, <1>4, <1>5, <1>6, StringsConstants DEF StrInv, Pointers, Done
<1>8. InStrings' /\ Prefix'
  BY <1>4, <1>5 DEF InStrings, Prefix
<1>9. TypeOK'
  BY <1>1, <1>4, <1>5, <1>6, EndingFacts DEF TypeOK
<1>10. /\ \A a : Size(a)' = Size(a) /\ StringAt(a)' = StringAt(a)
       /\ \A d : Set(d)' = Set(d) /\ Copied(d)' = Copied(d)
  BY <1>1, CallStays
<1>11. Legal(call)'
  BY <1>1, CallStays DEF StrInv
<1>12. LeavesMemoryRight'
  BY <1>1, <1>5, <1>10, EndingFacts DEF LeavesMemoryRight
<1>13. ComparesStrings'
  <2> DEFINE s == StringAt(call.a)
             t == StringAt(call.b)
  <2> SUFFICES ASSUME call.f \in Compares
               PROVE  IF call.f = "str_eq" THEN result' = IF s = t THEN 1 ELSE 0
                      ELSE ((result' = 0) <=> (s = t)) /\ ((result' < 0) <=> Less(s, t))
    BY <1>1, <1>5, <1>10 DEF ComparesStrings, Less
  <2>1. /\ before[p] = before[q] => s = t /\ ~ Less(s, t)
        /\ before[p] # before[q] => s # t /\ (before[p] < before[q] <=> Less(s, t))
    BY <1>1, ComparisonEnds
  <2> HIDE DEF s, t
  <2>2. CASE call.f = "str_eq"
    BY <1>2, <2>1, <2>2
  <2>3. CASE call.f = "strcmp"
    <3>1. PICK x \in 0 .. 255, y \in 0 .. 255 : x = before[p] /\ y = before[q]
      BY <1>3
    <3>2. result' = x - y /\ call.f # "str_eq"
      BY <1>2, <2>3, <3>1
    <3>3. CASE x = y
      <4>1. result' = 0
        BY <3>2, <3>3
      <4> QED BY <2>1, <3>1, <3>2, <3>3, <4>1
    <3>4. CASE x < y
      <4>1. result' # 0 /\ result' < 0 /\ x # y
        BY <3>2, <3>4
      <4> QED BY <2>1, <3>1, <3>2, <3>4, <4>1
    <3>5. CASE y < x
      <4>1. result' # 0 /\ ~ (result' < 0) /\ x # y /\ ~ (x < y)
        BY <3>2, <3>5
      <4> QED BY <2>1, <3>1, <3>2, <3>5, <4>1
    <3> QED BY <3>3, <3>4, <3>5
  <2> QED BY <2>2, <2>3 DEF Compares
<1> QED BY <1>1, <1>5, <1>7, <1>8, <1>9, <1>11, <1>12, <1>13 DEF StrInv

(* A step that changes nothing keeps the invariant.                        *)
LEMMA StringsStutter == StrInv /\ UNCHANGED vars => StrInv'
<1> SUFFICES ASSUME StrInv, UNCHANGED vars PROVE StrInv'
  OBVIOUS
<1>1. UNCHANGED <<call, before>> /\ UNCHANGED <<mem, p, q, n, result>>
  BY DEF vars
<1>2. /\ \A a : EndOf(a)' = EndOf(a) /\ Size(a)' = Size(a) /\ StringAt(a)' = StringAt(a)
      /\ \A d : Set(d)' = Set(d) /\ Copied(d)' = Copied(d)
      /\ Legal(call)' <=> Legal(call)
      /\ NONE' = NONE /\ Addresses' = Addresses /\ Calls' = Calls
      /\ Compares' = Compares /\ Counted' = Counted
  BY <1>1, CallStays
<1>3. Pointers' /\ InStrings' /\ Prefix'
  BY <1>1, <1>2 DEF StrInv, Pointers, InStrings, Prefix, Done
<1>4. TypeOK' /\ LeavesMemoryRight'
  BY <1>1, <1>2 DEF StrInv, TypeOK, LeavesMemoryRight
<1>5. ComparesStrings'
  BY <1>1, <1>2 DEF StrInv, ComparesStrings, Less
<1> QED BY <1>1, <1>2, <1>3, <1>4, <1>5 DEF StrInv
-----------------------------------------------------------------------------
(* The invariant holds in every run, for every memory and every call.      *)
THEOREM StringsInvariance == Spec => []StrInv
<1>1. Init => StrInv
  BY StringsInit
<1>2. StrInv /\ [Loop \/ Return]_vars => StrInv'
  BY LoopInv, ReturnInv, StringsStutter
<1> QED BY <1>1, <1>2, PTL DEF Spec

(* No function follows a string past its terminator or writes outside of   *)
(* memory (common.c:104-129, user.c:17).                                   *)
THEOREM StringsTyped == Spec => []TypeOK
<1>1. StrInv => TypeOK
  BY DEF StrInv
<1> QED BY <1>1, StringsInvariance, PTL

(* A function that has returned has changed the bytes it is for, and no    *)
(* others.                                                                 *)
THEOREM MemoryIsRight == Spec => []LeavesMemoryRight
<1>1. StrInv => LeavesMemoryRight
  BY DEF StrInv
<1> QED BY <1>1, StringsInvariance, PTL

(* strcmp orders strings by their first difference, as unsigned bytes, and *)
(* str_eq is true of equal strings only.                                   *)
THEOREM StringsAreCompared == Spec => []ComparesStrings
<1>1. StrInv => ComparesStrings
  BY DEF StrInv
<1> QED BY <1>1, StringsInvariance, PTL
=============================================================================
