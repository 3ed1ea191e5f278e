---------------------------- MODULE PrintfProofs ----------------------------
(***************************************************************************)
(* Proofs about Printf, for formats of any length in any characters: both  *)
(* libraries find the directives a format is made of, and stay within it.  *)
(*                                                                         *)
(* Between two directives each library has fetched the arguments and has   *)
(* printed the texts of those before (Before); the user's library may also *)
(* stand behind the %l it does not know (Halfway).  What is before the jth *)
(* directive is the flattening of the first j - 1 (Up), which is a prefix  *)
(* of the format (Ahead), so the characters read are those of the jth.     *)
(***************************************************************************)
EXTENDS Printf, WellFoundedInduction, TLAPS

----------------------------------------------------------------------------
(* Sequences and their flattening.                                         *)

(* What a process takes from each number to the next it takes to the end.  *)
LEMMA UpTo ==
  ASSUME NEW n \in Nat, NEW G, 0 \in G, \A i \in 0..n - 1 : i \in G => i + 1 \in G
  PROVE  n \in G
<1> DEFINE missing == {i \in Nat : i <= n /\ i \notin G}
<1>1. CASE missing = {}
  <2>1. n \notin missing
    BY <1>1
  <2> QED BY <2>1
<1>2. CASE missing # {}
  <2>0. missing \subseteq Nat
    OBVIOUS
  <2>1. PICK i \in missing : \A j \in missing : ~ (<<j, i>> \in OpToRel(<, Nat))
    <3> HIDE DEF missing
    <3> QED BY <1>2, <2>0, WFMin, NatLessThanWellFounded
  <2>2. i \in Nat /\ i <= n /\ i \notin G
    BY <2>1
  <2>3. \A j \in missing : ~ (j < i)
    BY <2>1, <2>2 DEF OpToRel
  <2>4. i # 0
    BY <2>2
  <2>5. PICK j \in Nat : j = i - 1
    BY <2>2, <2>4
  <2>6. j \in 0..n - 1 /\ j < i /\ i = j + 1
    BY <2>2, <2>5
  <2>7. j \in G
    BY <2>3, <2>6
  <2> QED BY <2>2, <2>6, <2>7
<1> QED BY <1>1, <1>2

(* g[i] is the flattening of the first i of x, up to the nth.              *)
Folding(x, n, g) == g = [i \in 1..n |-> IF i = 1 THEN x[i] ELSE g[i - 1] \o x[i]]

(* The recursion of FlattenSeq has a solution.                             *)
LEMMA FoldingExists ==
  ASSUME NEW x, NEW n \in Nat
  PROVE  \E g : Folding(x, n, g)
<1> DEFINE G == {k \in 0..n : \E g : Folding(x, k, g)}
<1>1. 0 \in G
  <2>1. PICK g : g = [i \in 1..0 |-> x]
    OBVIOUS
  <2>2. g = [i \in 1..0 |-> IF i = 1 THEN x[i] ELSE g[i - 1] \o x[i]]
    BY <2>1
  <2>3. Folding(x, 0, g)
    BY <2>2 DEF Folding
  <2> QED BY <2>3
<1>2. ASSUME NEW k \in 0..n - 1, k \in G PROVE k + 1 \in G
  <2>1. PICK g : Folding(x, k, g)
    BY <1>2
  <2>2. PICK m \in 1..n : m = k + 1
    OBVIOUS
  <2>3. PICK next : next = IF m = 1 THEN x[m] ELSE g[k] \o x[m]
    OBVIOUS
  <2>4. PICK h : h = [i \in 1..m |-> IF i = m THEN next ELSE g[i]]
    OBVIOUS
  <2>5. \A i \in 1..k : g[i] = IF i = 1 THEN x[i] ELSE g[i - 1] \o x[i]
    BY <2>1 DEF Folding
  <2>6. ASSUME NEW i \in 1..m PROVE h[i] = IF i = 1 THEN x[i] ELSE h[i - 1] \o x[i]
    <3>1. CASE i = m
      <4>1. i # 1 => i - 1 \in 1..m /\ i - 1 = k /\ i - 1 # m
        BY <3>1, <2>2
      <4>2. i # 1 => h[i - 1] = g[k]
        BY <4>1, <2>4
      <4> QED BY <3>1, <4>2, <2>3, <2>4
    <3>2. CASE i # m
      <4>1. i \in 1..k /\ (i # 1 => i - 1 \in 1..m /\ i - 1 # m)
        BY <3>2, <2>2
      <4>2. h[i] = g[i] /\ (i # 1 => h[i - 1] = g[i - 1])
        BY <3>2, <4>1, <2>4
      <4> QED BY <4>1, <4>2, <2>5
    <3> QED BY <3>1, <3>2
  <2>7. Folding(x, m, h)
    <3>1. h = [i \in 1..m |-> h[i]]
      BY <2>4
    <3>2. h = [i \in 1..m |-> IF i = 1 THEN x[i] ELSE h[i - 1] \o x[i]]
      BY <2>6, <3>1, Zenon
    <3> QED BY <3>2 DEF Folding
  <2> QED BY <2>2, <2>7
<1>3. n \in G
  <2> HIDE DEF G
  <2> QED BY <1>1, <1>2, UpTo
<1> QED BY <1>3

(* FlattenSeq is the last of these.                                        *)
LEMMA FlattenIs ==
  ASSUME NEW x, NEW n \in Nat, n = Len(x), n # 0
  PROVE  \E g : Folding(x, n, g) /\ FlattenSeq(x) = g[n]
<1> DEFINE flatten[i \in 1..Len(x)] == IF i = 1 THEN x[i] ELSE flatten[i - 1] \o x[i]
<1>1. FlattenSeq(x) = flatten[Len(x)]
  BY DEF FlattenSeq
<1>2. PICK g : Folding(x, n, g)
  BY FoldingExists
<1>3. g = [i \in 1..Len(x) |-> IF i = 1 THEN x[i] ELSE g[i - 1] \o x[i]]
  BY <1>2 DEF Folding
<1>4. flatten = [i \in 1..Len(x) |-> IF i = 1 THEN x[i] ELSE flatten[i - 1] \o x[i]]
  BY <1>3
<1> HIDE DEF flatten
<1>5. Folding(x, n, flatten)
  BY <1>4 DEF Folding
<1> QED BY <1>1, <1>5

(* Sequences that begin alike flatten alike.                               *)
LEMMA FoldingAgrees ==
  ASSUME NEW x, NEW y, NEW m \in Nat, NEW n \in Nat, m <= n, m # 0,
         NEW g, NEW h, Folding(x, m, g), Folding(y, n, h), \A i \in 1..m : x[i] = y[i]
  PROVE  g[m] = h[m]
<1> DEFINE G == {i \in 0..m : i # 0 => g[i] = h[i]}
<1>1. 0 \in G
  OBVIOUS
<1>2. ASSUME NEW i \in 0..m - 1, i \in G PROVE i + 1 \in G
  <2>1. PICK j \in 1..m : j = i + 1
    OBVIOUS
  <2>2. j \in 1..n /\ x[j] = y[j] /\ j - 1 = i
    BY <2>1
  <2>3. g[j] = IF j = 1 THEN x[j] ELSE g[j - 1] \o x[j]
    BY DEF Folding
  <2>4. h[j] = IF j = 1 THEN y[j] ELSE h[j - 1] \o y[j]
    BY <2>2 DEF Folding
  <2>5. g[j] = h[j]
    <3>1. j # 1 => g[j - 1] = h[j - 1]
      BY <1>2, <2>1, <2>2
    <3> QED BY <3>1, <2>2, <2>3, <2>4
  <2> QED BY <2>1, <2>5
<1>3. m \in G
  <2> HIDE DEF G
  <2> QED BY <1>1, <1>2, UpTo
<1> QED BY <1>3

(* The flattening of the first j of x.                                     *)
Up(x, j) == FlattenSeq(SubSeq(x, 1, j))

LEMMA UpStarts == ASSUME NEW x PROVE Up(x, 0) = <<>>
<1>1. SubSeq(x, 1, 0) = <<>> /\ Len(<<>>) = 0
  OBVIOUS
<1> QED BY <1>1 DEF Up, FlattenSeq

LEMMA UpEnds ==
  ASSUME NEW C, NEW x \in Seq(C)
  PROVE  Up(x, Len(x)) = FlattenSeq(x)
<1>1. SubSeq(x, 1, Len(x)) = x
  OBVIOUS
<1> QED BY <1>1 DEF Up

\* Each of x is joined to those before it.
LEMMA UpJoins ==
  ASSUME NEW C, NEW x \in Seq(Seq(C)), NEW j \in 1..Len(x)
  PROVE  Up(x, j) = Up(x, j - 1) \o x[j]
<1>1. PICK s : s = SubSeq(x, 1, j)
  OBVIOUS
<1>2. PICK r : r = SubSeq(x, 1, j - 1)
  OBVIOUS
<1>3. PICK n \in Nat : n = j /\ n # 0
  OBVIOUS
<1>4. Len(s) = n /\ \A i \in 1..n : s[i] = x[i]
  BY <1>1, <1>3
<1>5. Len(r) = n - 1 /\ \A i \in 1..n - 1 : r[i] = x[i]
  BY <1>2, <1>3
<1>6. PICK g : Folding(s, n, g) /\ FlattenSeq(s) = g[n]
  BY <1>3, <1>4, FlattenIs
<1>7. g[n] = IF n = 1 THEN s[n] ELSE g[n - 1] \o s[n]
  <2>1. n \in 1..n
    BY <1>3
  <2> QED BY <2>1, <1>6 DEF Folding
<1>10. Up(x, j) = FlattenSeq(s) /\ Up(x, j - 1) = FlattenSeq(r) /\ s[n] = x[j]
  BY <1>1, <1>2, <1>3, <1>4 DEF Up
<1>8. CASE n = 1
  <2>1. Up(x, j - 1) = <<>>
    BY <1>3, <1>8, UpStarts
  <2>2. x[j] \in Seq(C)
    OBVIOUS
  <2>3. <<>> \o x[j] = x[j]
    BY <2>2
  <2> QED BY <2>1, <2>3, <1>6, <1>7, <1>8, <1>10
<1>9. CASE n # 1
  <2>1. PICK m \in Nat : m = n - 1 /\ m # 0 /\ m <= n
    BY <1>3, <1>9
  <2>2. PICK h : Folding(r, m, h) /\ FlattenSeq(r) = h[m]
    BY <1>5, <2>1, FlattenIs
  <2>3. h[m] = g[m]
    <3>1. ASSUME NEW i \in 1..m PROVE r[i] = s[i]
      <4>1. i \in 1..n - 1 /\ i \in 1..n
        BY <1>3, <2>1
      <4>2. r[i] = x[i] /\ s[i] = x[i]
        BY <4>1, <1>4, <1>5
      <4> QED BY <4>2
    <3> QED BY <3>1, <2>1, <2>2, <1>6, FoldingAgrees
  <2> QED BY <2>1, <2>2, <2>3, <1>6, <1>7, <1>9, <1>10
<1> QED BY <1>8, <1>9

\* Flattening keeps to the elements.
LEMMA UpTyped ==
  ASSUME NEW C, NEW x \in Seq(Seq(C)), NEW j \in 0..Len(x)
  PROVE  Up(x, j) \in Seq(C)
<1> DEFINE G == {i \in 0..j : Up(x, i) \in Seq(C)}
<1>1. 0 \in G
  <2>1. <<>> \in Seq(C) /\ 0 \in 0..j
    OBVIOUS
  <2>2. Up(x, 0) = <<>>
    BY UpStarts
  <2> QED BY <2>1, <2>2
<1>2. ASSUME NEW i \in 0..j - 1, i \in G PROVE i + 1 \in G
  <2>1. PICK k \in 1..Len(x) : k = i + 1 /\ k \in 0..j
    OBVIOUS
  <2>2. Up(x, k) = Up(x, i) \o x[k]
    <3>1. k - 1 = i
      BY <2>1
    <3> QED BY <3>1, UpJoins
  <2>3. Up(x, i) \in Seq(C) /\ x[k] \in Seq(C)
    BY <1>2
  <2>4. Up(x, i) \o x[k] \in Seq(C)
    BY <2>3
  <2> QED BY <2>1, <2>2, <2>4
<1>3. j \in G
  <2>1. j \in Nat
    OBVIOUS
  <2> HIDE DEF G
  <2> QED BY <1>1, <1>2, <2>1, UpTo
<1> QED BY <1>3

\* y begins with x.
Ahead(x, y) == Len(x) <= Len(y) /\ \A i \in 1..Len(x) : y[i] = x[i]

LEMMA JoinAhead ==
  ASSUME NEW C, NEW x \in Seq(C), NEW y \in Seq(C)
  PROVE  /\ x \o y \in Seq(C) /\ Ahead(x, x \o y) /\ Len(x \o y) = Len(x) + Len(y)
         /\ \A i \in 1..Len(y) : (x \o y)[Len(x) + i] = y[i]
BY DEF Ahead

(* What is before an element of x is at the beginning of all of x.         *)
LEMMA UpIsAhead ==
  ASSUME NEW C, NEW x \in Seq(Seq(C)), NEW j \in 0..Len(x)
  PROVE  Ahead(Up(x, j), FlattenSeq(x))
<1>0. Len(x) - j \in Nat
  OBVIOUS
<1>1. PICK n \in Nat : n = Len(x) - j
  BY <1>0
<1> DEFINE G == {d \in 0..n : Ahead(Up(x, j), Up(x, j + d))}
<1>2. 0 \in G
  BY DEF Ahead
<1>3. ASSUME NEW d \in 0..n - 1, d \in G PROVE d + 1 \in G
  <2>1. PICK k \in 1..Len(x) : k = j + d + 1 /\ k - 1 = j + d
    BY <1>1
  <2>2. PICK u \in Seq(C) : u = Up(x, j)
    BY UpTyped
  <2>3. PICK v \in Seq(C) : v = Up(x, k - 1)
    BY <2>1, UpTyped
  <2>4. PICK w \in Seq(C) : w = x[k]
    OBVIOUS
  <2>5. Up(x, k) = v \o w
    BY <2>3, <2>4, UpJoins
  <2>6. Ahead(u, v)
    BY <1>3, <2>1, <2>2, <2>3
  <2>7. Ahead(u, v \o w)
    <3>1. PICK z \in Seq(C) : z = v \o w /\ Ahead(v, z)
      BY JoinAhead
    <3>2. Len(u) \in Nat /\ Len(v) \in Nat /\ Len(z) \in Nat
      OBVIOUS
    <3>3. \A i \in 1..Len(u) : i \in 1..Len(v) /\ z[i] = u[i]
      BY <3>1, <3>2, <2>6 DEF Ahead
    <3> QED BY <3>1, <3>2, <3>3, <2>6 DEF Ahead
  <2>8. j + (d + 1) = k /\ d + 1 \in 0..n
    BY <2>1
  <2> QED BY <2>2, <2>5, <2>7, <2>8
<1>4. n \in G
  <2> HIDE DEF G
  <2> QED BY <1>2, <1>3, UpTo
<1>5. j + n = Len(x)
  BY <1>1
<1> QED BY <1>4, <1>5, UpEnds

(* The jth of x stands behind those before it.                             *)
Stands(x, j, z, d, b) ==
  /\ b \in Nat /\ Len(d) \in Nat /\ Len(z) \in Nat
  /\ b + Len(d) = Len(Up(x, j)) /\ b + Len(d) <= Len(z)
  /\ \A i \in 1..Len(d) : z[b + i] = d[i]
  /\ j = Len(x) => b + Len(d) = Len(z)

LEMMA Standing ==
  ASSUME NEW C, NEW x \in Seq(Seq(C)), NEW j \in 1..Len(x)
  PROVE  Stands(x, j, FlattenSeq(x), x[j], Len(Up(x, j - 1)))
<1>0. PICK d : d = x[j]
  OBVIOUS
<1>1. PICK u \in Seq(C) : u = Up(x, j - 1)
  BY UpTyped
<1>2. d \in Seq(C)
  BY <1>0
<1>3. PICK v \in Seq(C) : v = Up(x, j) /\ v = u \o d
  <2>1. Up(x, j) \in Seq(C)
    BY UpTyped
  <2> QED BY <1>0, <1>1, <2>1, UpJoins
<1>4. PICK z : z = FlattenSeq(x)
  OBVIOUS
<1>5. z \in Seq(C) /\ Ahead(v, z) /\ (j = Len(x) => z = v)
  <2>1. Up(x, Len(x)) = z /\ Len(x) \in 0..Len(x) /\ j \in 0..Len(x)
    BY <1>4, UpEnds
  <2> QED BY <2>1, <1>3, <1>4, UpTyped, UpIsAhead
<1>6. Len(v) = Len(u) + Len(d) /\ \A i \in 1..Len(d) : v[Len(u) + i] = d[i]
  BY <1>2, <1>3, JoinAhead
<1>7. Len(u) \in Nat /\ Len(d) \in Nat /\ Len(v) \in Nat /\ Len(z) \in Nat
  BY <1>2, <1>5
<1>8. ASSUME NEW i \in 1..Len(d) PROVE z[Len(u) + i] = d[i]
  <2>1. Len(u) + i \in 1..Len(v)
    BY <1>6, <1>7
  <2> QED BY <2>1, <1>5, <1>6 DEF Ahead
<1>9. Stands(x, j, z, d, Len(u))
  BY <1>3, <1>5, <1>6, <1>7, <1>8 DEF Ahead, Stands
<1> QED BY <1>0, <1>1, <1>4, <1>9

----------------------------------------------------------------------------
(* What formats mean.                                                      *)

Types == {"string", "int", "unsigned", "long", "unsigned long"}
Marks == Letters \cup {"(null)"} \cup (Types \X Nat)

(* The parts of DecodesTheFormat, for format f and string arguments st.    *)
Needs(f, k) == [i \in 1..Len(f) |-> Takes(k, f[i])]
StringOf(st) == IF st = NULL THEN <<"(null)">> ELSE st
Text(f, st, k, i) ==
  LET n == Needs(f, k)
  IN  IF n[i] = <<>> THEN Shows(k, f[i])
      ELSE IF n[i] = <<"string">> THEN StringOf(st)
      ELSE << <<n[i][1], Len(Up(n, i))>> >>
Texts(f, st, k) == [i \in 1..Len(f) |-> Text(f, st, k, i)]

(* A format: directives, and an ending.                                    *)
WellFormed(f) ==
  /\ f \in Seq(Seq(Letters)) /\ Len(f) # 0
  /\ \A i \in 1..Len(f) - 1 : f[i] \in Directives
  /\ f[Len(f)] \in Endings

(* Library k stands before the jth directive of f, at a, and has fetched t *)
(* and printed o.                                                          *)
Before(f, st, k, j, a, t, o) ==
  /\ a = Len(Up(f, j - 1)) + 1 /\ t = Up(Needs(f, k), j - 1) /\ o = Up(Texts(f, st, k), j - 1)

(* Or the user's stands behind its %l, which has been printed.             *)
Longs(d) == d = <<"%", "l">> \/ \E c \in Letters : d = <<"%", "l", c>> /\ c # "%"
Halfway(f, st, k, j, a, t, o) ==
  /\ k = "user" /\ Longs(f[j])
  /\ a = Len(Up(f, j - 1)) + 3 /\ t = Up(Needs(f, k), j - 1)
  /\ o = Up(Texts(f, st, k), j - 1) \o <<"%", "l">>

LEMMA LongsAre ==
  ASSUME NEW d, Longs(d)
  PROVE  (Len(d) = 2 \/ Len(d) = 3) /\ d[2] = "l" /\ d # <<>> /\ d # <<"%">>
<1>1. (Len(d) = 2 \/ Len(d) = 3) /\ d[2] = "l"
  BY DEF Longs
<1>2. Len(<<>>) = 0 /\ Len(<<"%">>) = 1
  OBVIOUS
<1> QED BY <1>1, <1>2

(* It has returned, or stands at one of these places.                      *)
Progress(f, st, k, a, t, o) ==
  IF a = 0 THEN t = FlattenSeq(Needs(f, k)) /\ o = FlattenSeq(Texts(f, st, k))
  ELSE \E j \in 1..Len(f) : Before(f, st, k, j, a, t, o) \/ Halfway(f, st, k, j, a, t, o)

PrintfInv ==
  /\ WellFormed(format) /\ str \in Strings
  /\ at \in [Libraries -> Nat] /\ taken \in [Libraries -> Seq(Types)]
  /\ out \in [Libraries -> Seq(Marks)]
  /\ \A k \in Libraries : Progress(format, str, k, at[k], taken[k], out[k])

(* The directives there are.                                               *)
Kind(d, c) ==
  \/ d = <<c>> /\ c # "%"
  \/ d = <<"%", c>> /\ c # "l"
  \/ d = <<"%", "l", c>> /\ c # "%"

LEMMA DirectiveKinds ==
  ASSUME NEW d \in Directives
  PROVE  \E c \in Letters : Kind(d, c)
BY PrintfAssumption DEF Kind

\* A character of its own.
LEMMA PlainMeans ==
  ASSUME NEW k, NEW c, NEW d, d = <<c>>, c # "%"
  PROVE  Takes(k, d) = <<>> /\ Shows(k, d) = d
<1>1. /\ Len(d) = 1 /\ d # <<"%", "s">> /\ d # <<"%", "d">> /\ d # <<"%", "x">> /\ d # <<"%", "%">>
      /\ d # <<"%", "l", "d">> /\ d # <<"%", "l", "x">>
  OBVIOUS
<1> QED BY <1>1 DEF Takes, Shows

\* A conversion of one letter.
Taken(c) ==
  IF c = "s" THEN <<"string">> ELSE IF c = "d" THEN <<"int">>
  ELSE IF c = "x" THEN <<"unsigned">> ELSE <<>>

LEMMA PairMeans ==
  ASSUME NEW k \in Libraries, NEW c \in Letters, NEW d, d = <<"%", c>>, c # "l"
  PROVE  /\ Takes(k, d) = Taken(c)
         /\ Taken(c) = <<>> => Shows(k, d) = IF c = "%" THEN <<"%">>
                                             ELSE IF k = "kernel" THEN <<>> ELSE d
<1>1. Len(d) = 2 /\ d \notin Endings /\ d # <<"%", "l", "d">> /\ d # <<"%", "l", "x">>
  BY PrintfAssumption
<1>2. (d = <<"%", "s">> <=> c = "s") /\ (d = <<"%", "d">> <=> c = "d")
      /\ (d = <<"%", "x">> <=> c = "x") /\ (d = <<"%", "%">> <=> c = "%")
  OBVIOUS
<1>3. Takes(k, d) = Taken(c)
  BY <1>1, <1>2 DEF Takes, Taken
<1>4. ASSUME Taken(c) = <<>>
      PROVE  Shows(k, d) = IF c = "%" THEN <<"%">> ELSE IF k = "kernel" THEN <<>> ELSE d
  <2>1. k = "kernel" \/ k = "user"
    BY DEF Libraries
  <2>2. CASE c = "%"
    <3>1. d = <<"%", "%">>
      BY <2>2
    <3>2. Shows(k, d) = <<"%">>
      BY <3>1 DEF Shows
    <3> QED BY <2>2, <3>2
  <2>3. CASE c # "%"
    <3>1. d # <<"%", "%">>
      BY <2>3, <1>2
    <3>2. Shows(k, d) = IF k = "kernel" /\ d \notin Endings /\ Len(d) > 1 THEN <<>> ELSE d
      BY <3>1 DEF Shows
    <3>3. d \notin Endings /\ Len(d) > 1
      BY <1>1
    <3>4. Shows(k, d) = IF k = "kernel" THEN <<>> ELSE d
      BY <3>2, <3>3
    <3> QED BY <2>3, <3>4
  <2> QED BY <2>2, <2>3
<1> QED BY <1>3, <1>4

\* A conversion of a long, or an unknown one.
LongTaken(k, c) ==
  IF k = "user" THEN <<>> ELSE IF c = "d" THEN <<"long">>
  ELSE IF c = "x" THEN <<"unsigned long">> ELSE <<>>

LEMMA LongMeans ==
  ASSUME NEW k \in Libraries, NEW c \in Letters, NEW d, d = <<"%", "l", c>>
  PROVE  /\ Takes(k, d) = LongTaken(k, c)
         /\ LongTaken(k, c) = <<>> => Shows(k, d) = IF k = "kernel" THEN <<>> ELSE d
<1>1. /\ Len(d) = 3 /\ d \notin Endings /\ d # <<"%", "s">> /\ d # <<"%", "d">>
      /\ d # <<"%", "x">> /\ d # <<"%", "%">>
  BY PrintfAssumption
<1>2. (d = <<"%", "l", "d">> <=> c = "d") /\ (d = <<"%", "l", "x">> <=> c = "x")
  OBVIOUS
<1>3. k = "kernel" \/ k = "user"
  BY DEF Libraries
<1>4. Takes(k, d) = LongTaken(k, c)
  BY <1>1, <1>2, <1>3 DEF Takes, LongTaken
<1> QED BY <1>1, <1>3, <1>4 DEF Shows

\* The ending is shown as it is.
LEMMA EndingMeans ==
  ASSUME NEW k, NEW d \in Endings
  PROVE  /\ d = <<>> \/ d = <<"%">> \/ d = <<"%", "l">>
         /\ Takes(k, d) = <<>> /\ Shows(k, d) = d
<1>1. d = <<>> \/ d = <<"%">> \/ d = <<"%", "l">>
  BY PrintfAssumption
<1>2. /\ d # <<"%", "s">> /\ d # <<"%", "d">> /\ d # <<"%", "x">> /\ d # <<"%", "%">>
      /\ d # <<"%", "l", "d">> /\ d # <<"%", "l", "x">>
  BY <1>1
<1> QED BY <1>1, <1>2 DEF Takes, Shows

(* A directive takes one argument at most, and shows characters.           *)
LEMMA MeansTyped ==
  ASSUME NEW f, WellFormed(f), NEW k \in Libraries, NEW i \in 1..Len(f), NEW d, d = f[i]
  PROVE  /\ Takes(k, d) = <<>> \/ \E t \in Types : Takes(k, d) = <<t>>
         /\ Takes(k, d) = <<>> => Shows(k, d) \in Seq(Letters)
<1>0. Len(f) \in Nat /\ d \in Seq(Letters) /\ "%" \in Letters
  BY PrintfAssumption DEF WellFormed
<1>1. <<>> \in Seq(Letters) /\ <<"%">> \in Seq(Letters)
  BY <1>0
<1>2. CASE i = Len(f)
  BY <1>0, <1>2, EndingMeans DEF WellFormed
<1>3. CASE i # Len(f)
  <2>1. d \in Directives
    BY <1>0, <1>3 DEF WellFormed
  <2>2. PICK c \in Letters : Kind(d, c)
    BY <2>1, DirectiveKinds
  <2>3. CASE d = <<c>> /\ c # "%"
    BY <2>3, <1>0, PlainMeans
  <2>4. CASE d = <<"%", c>> /\ c # "l"
    <3>1. Taken(c) = <<>> \/ \E t \in Types : Taken(c) = <<t>>
      BY DEF Taken, Types
    <3>2. /\ Takes(k, d) = Taken(c)
          /\ Taken(c) = <<>> => Shows(k, d) = IF c = "%" THEN <<"%">> ELSE IF k = "kernel" THEN <<>> ELSE d
      BY <2>4, PairMeans
    <3> QED BY <3>1, <3>2, <1>0, <1>1
  <2>5. CASE d = <<"%", "l", c>>
    <3>1. LongTaken(k, c) = <<>> \/ \E t \in Types : LongTaken(k, c) = <<t>>
      BY DEF LongTaken, Types
    <3>2. /\ Takes(k, d) = LongTaken(k, c)
          /\ LongTaken(k, c) = <<>> => Shows(k, d) = IF k = "kernel" THEN <<>> ELSE d
      BY <2>5, LongMeans
    <3> QED BY <3>1, <3>2, <1>0, <1>1
  <2> QED BY <2>2, <2>3, <2>4, <2>5 DEF Kind
<1> QED BY <1>2, <1>3

\* So do all of them.
LEMMA FormatTyped ==
  ASSUME NEW f, WellFormed(f), NEW st \in Strings, NEW k \in Libraries
  PROVE  /\ Needs(f, k) \in Seq(Seq(Types)) /\ Len(Needs(f, k)) = Len(f)
         /\ Texts(f, st, k) \in Seq(Seq(Marks)) /\ Len(Texts(f, st, k)) = Len(f)
<1>0. Len(f) \in Nat
  BY DEF WellFormed
<1>1. Needs(f, k) \in Seq(Seq(Types)) /\ Len(Needs(f, k)) = Len(f)
  <2>1. ASSUME NEW i \in 1..Len(f) PROVE Takes(k, f[i]) \in Seq(Types)
    <3>1. Takes(k, f[i]) = <<>> \/ \E t \in Types : Takes(k, f[i]) = <<t>>
      BY MeansTyped
    <3>2. <<>> \in Seq(Types) /\ \A t \in Types : <<t>> \in Seq(Types)
      OBVIOUS
    <3> QED BY <3>1, <3>2
  <2> QED BY <1>0, <2>1 DEF Needs
<1>2. ASSUME NEW i \in 1..Len(f) PROVE Text(f, st, k, i) \in Seq(Marks)
  <2>1. PICK n \in Seq(Seq(Types)) : n = Needs(f, k)
    BY <1>1
  <2>2. n[i] = Takes(k, f[i])
    BY <2>1 DEF Needs
  <2>3. n[i] = <<>> \/ \E t \in Types : n[i] = <<t>>
    BY <2>2, MeansTyped
  <2>4. CASE n[i] = <<>>
    <3>1. Shows(k, f[i]) \in Seq(Letters)
      BY <2>2, <2>4, MeansTyped
    <3>2. Letters \subseteq Marks
      BY DEF Marks
    <3>3. PICK x \in Seq(Letters) : x = Shows(k, f[i])
      BY <3>1
    <3>4. x \in Seq(Marks)
      BY <3>2
    <3> QED BY <3>3, <3>4, <2>1, <2>4 DEF Text
  <2>5. CASE n[i] = <<"string">>
    <3>1. PICK x : x = StringOf(st)
      OBVIOUS
    <3>2. x \in Seq(Letters) \/ x = <<"(null)">>
      BY <3>1, PrintfAssumption DEF StringOf
    <3>3. Letters \subseteq Marks /\ "(null)" \in Marks
      BY DEF Marks
    <3>4. CASE x \in Seq(Letters)
      <4>1. PICK y \in Seq(Letters) : y = x
        BY <3>4
      <4>2. y \in Seq(Marks)
        BY <3>3
      <4> QED BY <4>1, <4>2, <3>1, <2>1, <2>5 DEF Text
    <3>5. CASE x = <<"(null)">>
      <4>1. x \in Seq(Marks)
        BY <3>3, <3>5
      <4> QED BY <4>1, <3>1, <2>1, <2>5 DEF Text
    <3> QED BY <3>2, <3>4, <3>5
  <2>6. CASE n[i] # <<>> /\ n[i] # <<"string">>
    <3>1. PICK t \in Types : n[i] = <<t>>
      BY <2>3, <2>6
    <3>2. Up(n, i) \in Seq(Types)
      BY <1>0, <1>1, <2>1, UpTyped
    <3>3. PICK m \in Nat : m = Len(Up(n, i))
      BY <3>2
    <3>4. <<t, m>> \in Marks
      BY DEF Marks
    <3>5. << <<t, m>> >> \in Seq(Marks)
      BY <3>4
    <3>6. n[i][1] = t
      BY <3>1
    <3> QED BY <3>3, <3>5, <3>6, <2>1, <2>6 DEF Text
  <2> QED BY <2>4, <2>5, <2>6
<1>3. Texts(f, st, k) \in Seq(Seq(Marks)) /\ Len(Texts(f, st, k)) = Len(f)
  BY <1>0, <1>2 DEF Texts
<1> QED BY <1>1, <1>3

----------------------------------------------------------------------------
(* What the loops see of a format, and what they do is right.              *)

CharOf(f, i) == IF i <= Len(FlattenSeq(f)) THEN FlattenSeq(f)[i] ELSE NUL

(* The characters of the jth directive; behind the ending there is NUL.    *)
Seen(f, j, d, b) ==
  /\ b \in Nat /\ Len(d) \in Nat /\ b + Len(d) <= Len(FlattenSeq(f))
  /\ b + Len(d) = Len(Up(f, j))
  /\ \A i \in 1..Len(d) : CharOf(f, b + i) = d[i]
  /\ j = Len(f) => CharOf(f, b + Len(d) + 1) = NUL

LEMMA CharsOf ==
  ASSUME NEW f, WellFormed(f), NEW j \in 1..Len(f)
  PROVE  Seen(f, j, f[j], Len(Up(f, j - 1)))
<1>0. PICK d : d = f[j]
  OBVIOUS
<1>9. PICK b : b = Len(Up(f, j - 1))
  OBVIOUS
<1>1. f \in Seq(Seq(Letters))
  BY DEF WellFormed
<1>2. Stands(f, j, FlattenSeq(f), d, b)
  BY <1>0, <1>1, <1>9, Standing
<1>3. PICK z : z = FlattenSeq(f)
  OBVIOUS
<1>4. PICK m \in Nat : m = Len(d)
  BY <1>2 DEF Stands
<1>5. PICK n \in Nat : n = Len(z)
  BY <1>2, <1>3 DEF Stands
<1>8. b \in Nat /\ b + m <= n /\ (j = Len(f) => b + m = n)
  BY <1>2, <1>3, <1>4, <1>5 DEF Stands
<1>6. ASSUME NEW i \in 1..m PROVE CharOf(f, b + i) = d[i]
  <2>1. b + i <= n
    BY <1>8
  <2>2. z[b + i] = d[i]
    BY <1>2, <1>3, <1>4 DEF Stands
  <2> QED BY <2>1, <2>2, <1>3, <1>5 DEF CharOf
<1>7. ASSUME j = Len(f) PROVE CharOf(f, b + m + 1) = NUL
  <2>1. ~ (b + m + 1 <= n)
    BY <1>7, <1>8
  <2> QED BY <2>1, <1>3, <1>5 DEF CharOf
<1> QED BY <1>0, <1>2, <1>4, <1>6, <1>7, <1>9 DEF Stands, Seen

(* The text of a directive, by what it takes.                              *)
LEMMA TextIs ==
  ASSUME NEW f, WellFormed(f), NEW st \in Strings, NEW k \in Libraries,
         NEW j \in 1..Len(f), NEW d, d = f[j]
  PROVE  /\ Takes(k, d) = <<>> => Text(f, st, k, j) = Shows(k, d)
         /\ Takes(k, d) = <<"string">> => Text(f, st, k, j) = StringOf(st)
         /\ \A t \in Types \ {"string"} : Takes(k, d) = <<t>> =>
              Text(f, st, k, j) = << <<t, Len(Up(Needs(f, k), j - 1)) + 1>> >>
<1>1. PICK n \in Seq(Seq(Types)) : n = Needs(f, k) /\ Len(n) = Len(f)
  BY FormatTyped
<1>2. n[j] = Takes(k, d)
  BY <1>1 DEF Needs
<1>3. <<"string">> # <<>>
  OBVIOUS
<1>4. ASSUME NEW t \in Types \ {"string"}, Takes(k, d) = <<t>>
      PROVE  Text(f, st, k, j) = << <<t, Len(Up(n, j - 1)) + 1>> >>
  <2>1. n[j] # <<>> /\ n[j] # <<"string">> /\ n[j][1] = t /\ Len(n[j]) = 1
    BY <1>2, <1>4
  <2>2. PICK u \in Seq(Types) : u = Up(n, j - 1)
    BY <1>1, UpTyped
  <2>3. PICK w \in Seq(Types) : w = n[j]
    BY <1>1
  <2>4. Up(n, j) = u \o w
    BY <1>1, <2>2, <2>3, UpJoins
  <2>5. Len(Up(n, j)) = Len(u) + 1
    <3>1. Len(u \o w) = Len(u) + Len(w)
      OBVIOUS
    <3> QED BY <3>1, <2>1, <2>3, <2>4
  <2> QED BY <2>1, <2>2, <2>5, <1>1 DEF Text
<1> QED BY <1>1, <1>2, <1>3, <1>4 DEF Text

(* Having done what the jth means, a library stands before the next, or    *)
(* has done all.                                                           *)
LEMMA Gone ==
  ASSUME NEW f, WellFormed(f), NEW st \in Strings, NEW k \in Libraries, NEW j \in 1..Len(f),
         NEW t, t = Up(Needs(f, k), j - 1) \o Takes(k, f[j]),
         NEW o, o = Up(Texts(f, st, k), j - 1) \o Text(f, st, k, j)
  PROVE  /\ j # Len(f) => Progress(f, st, k, Len(Up(f, j - 1)) + Len(f[j]) + 1, t, o)
         /\ j = Len(f) => Progress(f, st, k, 0, t, o)
<1>1. PICK n \in Seq(Seq(Types)) : n = Needs(f, k) /\ Len(n) = Len(f)
  BY FormatTyped
<1>2. PICK x \in Seq(Seq(Marks)) : x = Texts(f, st, k) /\ Len(x) = Len(f)
  BY FormatTyped
<1>3. n[j] = Takes(k, f[j]) /\ x[j] = Text(f, st, k, j)
  BY <1>1, <1>2 DEF Needs, Texts
<1>4. t = Up(n, j) /\ o = Up(x, j)
  <2>1. Up(n, j) = Up(n, j - 1) \o n[j]
    BY <1>1, UpJoins
  <2>2. Up(x, j) = Up(x, j - 1) \o x[j]
    BY <1>2, UpJoins
  <2> QED BY <2>1, <2>2, <1>1, <1>2, <1>3
<1>5. ASSUME j = Len(f) PROVE Progress(f, st, k, 0, t, o)
  <2>1. Up(n, Len(n)) = FlattenSeq(n) /\ Up(x, Len(x)) = FlattenSeq(x)
    BY <1>1, <1>2, UpEnds
  <2> QED BY <2>1, <1>1, <1>2, <1>4, <1>5 DEF Progress
<1>6. ASSUME j # Len(f)
      PROVE  Progress(f, st, k, Len(Up(f, j - 1)) + Len(f[j]) + 1, t, o)
  <2>1. PICK m \in 1..Len(f) : m = j + 1 /\ m - 1 = j
    BY <1>6 DEF WellFormed
  <2>2. PICK a \in Nat : a = Len(Up(f, j - 1)) + Len(f[j]) + 1 /\ a = Len(Up(f, j)) + 1 /\ a # 0
    <3>1. PICK b \in Nat : b = Len(Up(f, j - 1))
      BY CharsOf DEF Seen
    <3>2. PICK m1 \in Nat : m1 = Len(f[j])
      BY CharsOf DEF Seen
    <3>3. b + m1 = Len(Up(f, j))
      BY <3>1, <3>2, CharsOf DEF Seen
    <3>4. PICK a \in Nat : a = b + m1 + 1 /\ a # 0
      OBVIOUS
    <3> QED BY <3>1, <3>2, <3>3, <3>4
  <2>3. Before(f, st, k, m, a, t, o)
    BY <2>1, <2>2, <1>1, <1>2, <1>4 DEF Before
  <2> QED BY <2>2, <2>3 DEF Progress
<1> QED BY <1>5, <1>6

(* What Convert and Literal do.                                            *)
Moved(a, n) == IF n = 0 THEN 0 ELSE a + n
Converts(f, st, k, a, t, o, ty, n) ==
  Progress(f, st, k, Moved(a, n), Append(t, ty),
           o \o IF ty = "string" THEN StringOf(st) ELSE << <<ty, Len(t) + 1>> >>)
Writes(f, st, k, a, t, o, s, n) == Progress(f, st, k, Moved(a, n), t, o \o s)

LEMMA MovedBy ==
  ASSUME NEW b \in Nat, NEW a, a = b + 1, NEW m \in Nat, m # 0
  PROVE  Moved(a, m) = b + m + 1
<1>1. a + m = b + m + 1
  OBVIOUS
<1> QED BY <1>1 DEF Moved

(* Every step a library would make from here on what it reads is right:    *)
(* the cases of the actions.                                               *)
RightStart(f, st, k, a, t, o) ==
  /\ CharOf(f, a) \notin {"%", NUL} => Writes(f, st, k, a, t, o, <<CharOf(f, a)>>, 1)
  /\ CharOf(f, a) = NUL => Writes(f, st, k, a, t, o, <<>>, 0)

RightConversion(f, st, k, a, t, o, c) ==
  /\ c = NUL => Writes(f, st, k, a, t, o, <<"%">>, 0)
  /\ c = "%" => Writes(f, st, k, a, t, o, <<"%">>, 2)
  /\ c = "s" => Converts(f, st, k, a, t, o, "string", 2)
  /\ c = "d" => Converts(f, st, k, a, t, o, "int", 2)
  /\ c = "x" => Converts(f, st, k, a, t, o, "unsigned", 2)

RightLong(f, st, k, a, t, o, c) ==
  /\ c = "d" => Converts(f, st, k, a, t, o, "long", 3)
  /\ c = "x" => Converts(f, st, k, a, t, o, "unsigned long", 3)
  /\ c = NUL => Writes(f, st, k, a, t, o, <<"%", "l">>, 0)
  /\ c \notin {"d", "x", NUL} => Writes(f, st, k, a, t, o, <<>>, 3)

RightPercent(f, st, k, a, t, o, c) ==
  /\ RightConversion(f, st, k, a, t, o, c)
  /\ k = "kernel" /\ c = "l" => RightLong(f, st, k, a, t, o, CharOf(f, a + 2))
  /\ k = "kernel" /\ c \notin {NUL, "%", "s", "d", "x", "l"} =>
       Writes(f, st, k, a, t, o, <<>>, 2)
  /\ k = "user" /\ c \notin {NUL, "%", "s", "d", "x"} =>
       Writes(f, st, k, a, t, o, <<"%", c>>, 2)

Right(f, st, k, a, t, o) ==
  /\ RightStart(f, st, k, a, t, o)
  /\ CharOf(f, a) = "%" => RightPercent(f, st, k, a, t, o, CharOf(f, a + 1))

(* A directive that takes no argument is done when it has been shown.      *)
LEMMA Written ==
  ASSUME NEW f, WellFormed(f), NEW st \in Strings, NEW k \in Libraries, NEW j \in 1..Len(f),
         NEW a, NEW t, NEW o, Before(f, st, k, j, a, t, o),
         Takes(k, f[j]) = <<>>, NEW s, s = Shows(k, f[j]),
         NEW m, m = IF j = Len(f) THEN 0 ELSE Len(f[j]), j = Len(f) \/ m # 0
  PROVE  Writes(f, st, k, a, t, o, s, m)
<1>1. PICK n \in Seq(Seq(Types)) : n = Needs(f, k) /\ Len(n) = Len(f)
  BY FormatTyped
<1>2. PICK u \in Seq(Types) : u = Up(n, j - 1) /\ u = t
  <2>1. t = Up(n, j - 1)
    BY <1>1 DEF Before
  <2>2. Up(n, j - 1) \in Seq(Types)
    BY <1>1, UpTyped
  <2> QED BY <2>1, <2>2
<1>3. u \o <<>> = u
  OBVIOUS
<1>4. t = Up(Needs(f, k), j - 1) \o Takes(k, f[j])
  BY <1>1, <1>2, <1>3
<1>5. o \o s = Up(Texts(f, st, k), j - 1) \o Text(f, st, k, j)
  <2>1. Text(f, st, k, j) = s
    BY TextIs
  <2> QED BY <2>1 DEF Before
<1>6. PICK b \in Nat : b = Len(Up(f, j - 1)) /\ a = b + 1
  BY CharsOf DEF Before, Seen
<1>7. CASE j # Len(f)
  <2>0. m = Len(f[j]) /\ m # 0 /\ m \in Nat
    BY <1>7, CharsOf DEF Seen
  <2>1. Progress(f, st, k, b + m + 1, t, o \o s)
    BY <2>0, <1>4, <1>5, <1>6, <1>7, Gone
  <2>2. Moved(a, m) = b + m + 1
    BY <2>0, <1>6, MovedBy
  <2> QED BY <2>1, <2>2 DEF Writes
<1>9. CASE j = Len(f)
  <2>1. Progress(f, st, k, 0, t, o \o s)
    BY <1>4, <1>5, <1>9, Gone
  <2>2. m = 0 /\ Moved(a, m) = 0
    BY <1>9 DEF Moved
  <2> QED BY <2>1, <2>2 DEF Writes
<1> QED BY <1>7, <1>9

(* One that takes an argument is done when it has been converted.          *)
LEMMA Converted ==
  ASSUME NEW f, WellFormed(f), NEW st \in Strings, NEW k \in Libraries, NEW j \in 1..Len(f),
         NEW a, NEW t, NEW o, Before(f, st, k, j, a, t, o), j # Len(f),
         NEW ty \in Types, Takes(k, f[j]) = <<ty>>, NEW m \in Nat, m = Len(f[j]), m # 0
  PROVE  Converts(f, st, k, a, t, o, ty, m)
<1>1. PICK n \in Seq(Seq(Types)) : n = Needs(f, k) /\ Len(n) = Len(f)
  BY FormatTyped
<1>2. PICK u \in Seq(Types) : u = Up(n, j - 1) /\ u = t
  <2>1. t = Up(n, j - 1)
    BY <1>1 DEF Before
  <2>2. Up(n, j - 1) \in Seq(Types)
    BY <1>1, UpTyped
  <2> QED BY <2>1, <2>2
<1>3. Append(u, ty) = u \o <<ty>>
  OBVIOUS
<1>4. PICK t2 : t2 = Append(t, ty) /\ t2 = Up(Needs(f, k), j - 1) \o Takes(k, f[j])
  BY <1>1, <1>2, <1>3
<1>5. PICK s : s = (IF ty = "string" THEN StringOf(st) ELSE << <<ty, Len(t) + 1>> >>)
               /\ s = Text(f, st, k, j)
  <2>1. CASE ty = "string"
    BY <2>1, TextIs
  <2>2. CASE ty # "string"
    <3>1. Text(f, st, k, j) = << <<ty, Len(Up(Needs(f, k), j - 1)) + 1>> >>
      BY <2>2, TextIs
    <3> QED BY <3>1, <2>2, <1>1, <1>2
  <2> QED BY <2>1, <2>2
<1>6. o \o s = Up(Texts(f, st, k), j - 1) \o Text(f, st, k, j)
  BY <1>5 DEF Before
<1>7. PICK b \in Nat : b = Len(Up(f, j - 1)) /\ a = b + 1
  BY CharsOf DEF Before, Seen
<1>9. Progress(f, st, k, b + m + 1, t2, o \o s)
  BY <1>4, <1>6, <1>7, Gone
<1>10. Moved(a, m) = b + m + 1
  BY <1>7, MovedBy
<1> QED BY <1>4, <1>5, <1>9, <1>10 DEF Converts

(* The user's library goes behind a %l.                                    *)
LEMMA ThroughLong ==
  ASSUME NEW f, WellFormed(f), NEW st \in Strings, NEW j \in 1..Len(f),
         NEW a, NEW t, NEW o, Before(f, st, "user", j, a, t, o), Longs(f[j])
  PROVE  Writes(f, st, "user", a, t, o, <<"%", "l">>, 2)
<1>1. PICK b \in Nat : b = Len(Up(f, j - 1)) /\ a = b + 1
  BY CharsOf DEF Before, Seen
<1>2. PICK a2 : a2 = Moved(a, 2) /\ a2 = b + 3 /\ a2 # 0
  BY <1>1 DEF Moved
<1>3. Halfway(f, st, "user", j, a2, t, o \o <<"%", "l">>)
  BY <1>1, <1>2 DEF Before, Halfway
<1> QED BY <1>2, <1>3 DEF Writes, Progress

(* The characters of directives of one, two and three.                     *)
LEMMA OneSeen ==
  ASSUME NEW f, NEW j, NEW d, NEW b, Seen(f, j, d, b), NEW c, d = <<c>>
  PROVE  Len(d) = 1 /\ CharOf(f, b + 1) = c
<1>1. Len(d) = 1 /\ d[1] = c
  OBVIOUS
<1>2. 1 \in 1..Len(d)
  BY <1>1
<1> QED BY <1>1, <1>2 DEF Seen

LEMMA TwoSeen ==
  ASSUME NEW f, NEW j, NEW d, NEW b, Seen(f, j, d, b), NEW c, NEW e, d = <<c, e>>
  PROVE  Len(d) = 2 /\ CharOf(f, b + 1) = c /\ CharOf(f, b + 2) = e
<1>1. Len(d) = 2 /\ d[1] = c /\ d[2] = e
  OBVIOUS
<1>2. 1 \in 1..Len(d) /\ 2 \in 1..Len(d)
  BY <1>1
<1> QED BY <1>1, <1>2 DEF Seen

LEMMA ThreeSeen ==
  ASSUME NEW f, NEW j, NEW d, NEW b, Seen(f, j, d, b), NEW c, NEW e, NEW g, d = <<c, e, g>>
  PROVE  Len(d) = 3 /\ CharOf(f, b + 1) = c /\ CharOf(f, b + 2) = e /\ CharOf(f, b + 3) = g
<1>1. Len(d) = 3 /\ d[1] = c /\ d[2] = e /\ d[3] = g
  OBVIOUS
<1>2. 1 \in 1..Len(d) /\ 2 \in 1..Len(d) /\ 3 \in 1..Len(d)
  BY <1>1
<1> QED BY <1>1, <1>2 DEF Seen

LEMMA EndSeen ==
  ASSUME NEW f, NEW j, NEW d, NEW b, Seen(f, j, d, b), j = Len(f), NEW m, m = Len(d)
  PROVE  CharOf(f, b + m + 1) = NUL
BY DEF Seen

(* Before a character of its own, a conversion of one letter, one of a     *)
(* long, or the ending, every step is right.                               *)
LEMMA RightAtPlain ==
  ASSUME NEW f, WellFormed(f), NEW st \in Strings, NEW k \in Libraries, NEW j \in 1..Len(f),
         NEW a, NEW t, NEW o, Before(f, st, k, j, a, t, o), j # Len(f),
         NEW c \in Letters, f[j] = <<c>>, c # "%"
  PROVE  Right(f, st, k, a, t, o)
<1>1. CharOf(f, a) = c
  <2>1. PICK b \in Nat : Seen(f, j, f[j], b) /\ a = b + 1
    BY CharsOf DEF Before, Seen
  <2> QED BY <2>1, OneSeen
<1>2. Takes(k, f[j]) = <<>> /\ Shows(k, f[j]) = <<c>>
  BY PlainMeans
<1>3. Writes(f, st, k, a, t, o, <<c>>, 1)
  <2>1. Len(f[j]) = 1 /\ 1 # 0
    OBVIOUS
  <2>2. 1 = IF j = Len(f) THEN 0 ELSE Len(f[j])
    BY <2>1
  <2> QED BY <2>1, <2>2, <1>2, Written
<1>4. c # NUL
  BY PrintfAssumption
<1> QED BY <1>1, <1>3, <1>4 DEF Right, RightStart

LEMMA RightAtPair ==
  ASSUME NEW f, WellFormed(f), NEW st \in Strings, NEW k \in Libraries, NEW j \in 1..Len(f),
         NEW a, NEW t, NEW o, Before(f, st, k, j, a, t, o), j # Len(f),
         NEW c \in Letters, f[j] = <<"%", c>>, c # "l"
  PROVE  Right(f, st, k, a, t, o)
<1>1. CharOf(f, a) = "%" /\ CharOf(f, a + 1) = c
  <2>1. PICK b \in Nat : Seen(f, j, f[j], b) /\ a = b + 1
    BY CharsOf DEF Before, Seen
  <2>3. CharOf(f, b + 1) = "%" /\ CharOf(f, b + 2) = c
    BY <2>1, TwoSeen
  <2>4. a + 1 = b + 2
    BY <2>1
  <2> QED BY <2>1, <2>3, <2>4
<1>2. PICK m \in Nat : m = 2 /\ m = Len(f[j]) /\ m # 0 /\ m = IF j = Len(f) THEN 0 ELSE Len(f[j])
  <2>1. Len(f[j]) = 2
    OBVIOUS
  <2> QED BY <2>1
<1>3. /\ Takes(k, f[j]) = Taken(c)
      /\ Taken(c) = <<>> => Shows(k, f[j]) = IF c = "%" THEN <<"%">>
                                             ELSE IF k = "kernel" THEN <<>> ELSE f[j]
  BY PairMeans
<1>4. c # NUL
  BY PrintfAssumption
<1>5. ASSUME NEW ty \in Types, Taken(c) = <<ty>> PROVE Converts(f, st, k, a, t, o, ty, 2)
  <2>1. Converts(f, st, k, a, t, o, ty, m)
    BY <1>2, <1>3, <1>5, Converted
  <2> QED BY <2>1, <1>2
<1>6. ASSUME Taken(c) = <<>> PROVE Writes(f, st, k, a, t, o, Shows(k, f[j]), 2)
  <2>1. Takes(k, f[j]) = <<>>
    BY <1>3, <1>6
  <2>2. Writes(f, st, k, a, t, o, Shows(k, f[j]), m)
    BY <2>1, <1>2, Written
  <2> QED BY <2>2, <1>2
<1>7. RightConversion(f, st, k, a, t, o, c)
  <2>1. c = "%" => Writes(f, st, k, a, t, o, <<"%">>, 2)
    BY <1>3, <1>6 DEF Taken
  <2>2. /\ c = "s" => Converts(f, st, k, a, t, o, "string", 2)
        /\ c = "d" => Converts(f, st, k, a, t, o, "int", 2)
        /\ c = "x" => Converts(f, st, k, a, t, o, "unsigned", 2)
    BY <1>5 DEF Taken, Types
  <2> QED BY <2>1, <2>2, <1>4 DEF RightConversion
<1>8. c \notin {"%", "s", "d", "x"} =>
        Writes(f, st, k, a, t, o, IF k = "kernel" THEN <<>> ELSE <<"%", c>>, 2)
  BY <1>3, <1>6 DEF Taken
<1>9. RightPercent(f, st, k, a, t, o, c)
  <2>1. k = "kernel" \/ k = "user"
    BY DEF Libraries
  <2> QED BY <2>1, <1>7, <1>8 DEF RightPercent
<1> QED BY <1>1, <1>9 DEF Right, RightStart, NUL

LEMMA RightAtLong ==
  ASSUME NEW f, WellFormed(f), NEW st \in Strings, NEW k \in Libraries, NEW j \in 1..Len(f),
         NEW a, NEW t, NEW o, Before(f, st, k, j, a, t, o), j # Len(f),
         NEW c \in Letters, f[j] = <<"%", "l", c>>, c # "%"
  PROVE  Right(f, st, k, a, t, o)
<1>1. CharOf(f, a) = "%" /\ CharOf(f, a + 1) = "l" /\ CharOf(f, a + 2) = c
  <2>1. PICK b \in Nat : Seen(f, j, f[j], b) /\ a = b + 1
    BY CharsOf DEF Before, Seen
  <2>2. a + 1 = b + 2 /\ a + 2 = b + 3
    BY <2>1
  <2>3. CharOf(f, b + 1) = "%" /\ CharOf(f, b + 2) = "l" /\ CharOf(f, b + 3) = c
    BY <2>1, ThreeSeen
  <2> QED BY <2>1, <2>2, <2>3
<1>2. PICK m \in Nat : m = 3 /\ m = Len(f[j]) /\ m # 0 /\ m = IF j = Len(f) THEN 0 ELSE Len(f[j])
  <2>1. Len(f[j]) = 3
    OBVIOUS
  <2> QED BY <2>1
<1>3. /\ Takes(k, f[j]) = LongTaken(k, c)
      /\ LongTaken(k, c) = <<>> => Shows(k, f[j]) = IF k = "kernel" THEN <<>> ELSE f[j]
  BY LongMeans
<1>4. c # NUL
  BY PrintfAssumption
<1>5. ASSUME k = "kernel" PROVE RightLong(f, st, k, a, t, o, c)
  <2>1. ASSUME NEW ty \in Types, LongTaken(k, c) = <<ty>>
        PROVE  Converts(f, st, k, a, t, o, ty, 3)
    <3>1. Converts(f, st, k, a, t, o, ty, m)
      BY <1>2, <1>3, <2>1, Converted
    <3> QED BY <3>1, <1>2
  <2>2. ASSUME LongTaken(k, c) = <<>> PROVE Writes(f, st, k, a, t, o, <<>>, 3)
    <3>1. Takes(k, f[j]) = <<>> /\ Shows(k, f[j]) = <<>>
      BY <1>3, <1>5, <2>2
    <3>2. Writes(f, st, k, a, t, o, <<>>, m)
      BY <3>1, <1>2, Written
    <3> QED BY <3>2, <1>2
  <2>3. /\ c = "d" => Converts(f, st, k, a, t, o, "long", 3)
        /\ c = "x" => Converts(f, st, k, a, t, o, "unsigned long", 3)
    BY <1>5, <2>1 DEF LongTaken, Types
  <2>4. c \notin {"d", "x"} => Writes(f, st, k, a, t, o, <<>>, 3)
    BY <1>5, <2>2 DEF LongTaken
  <2> QED BY <2>3, <2>4, <1>4 DEF RightLong
<1>6. ASSUME k = "user" PROVE Writes(f, st, k, a, t, o, <<"%", "l">>, 2)
  <2>1. Longs(f[j])
    BY DEF Longs
  <2> QED BY <1>6, <2>1, ThroughLong
<1>7. RightPercent(f, st, k, a, t, o, "l")
  BY <1>1, <1>5, <1>6 DEF RightPercent, RightConversion, NUL
<1> QED BY <1>1, <1>7 DEF Right, RightStart, NUL

LEMMA RightAtEnding ==
  ASSUME NEW f, WellFormed(f), NEW st \in Strings, NEW k \in Libraries, NEW j \in 1..Len(f),
         NEW a, NEW t, NEW o, Before(f, st, k, j, a, t, o), j = Len(f)
  PROVE  Right(f, st, k, a, t, o)
<1>1. PICK d : d = f[j] /\ d \in Endings
  BY DEF WellFormed
<1>2. Writes(f, st, k, a, t, o, d, 0)
  <2>1. Takes(k, d) = <<>> /\ Shows(k, d) = d
    BY <1>1, EndingMeans
  <2> QED BY <1>1, <2>1, Written
<1>3. PICK b \in Nat : Seen(f, j, d, b) /\ a = b + 1
  BY <1>1, CharsOf DEF Before, Seen
<1>6. CASE d = <<>>
  <2>0. Len(d) = 0 /\ b + 0 + 1 = a
    BY <1>3, <1>6
  <2>1. CharOf(f, a) = NUL
    BY <2>0, <1>3, EndSeen
  <2> QED BY <2>1, <1>2, <1>6 DEF Right, RightStart, NUL
<1>7. CASE d = <<"%">>
  <2>0. Len(d) = 1 /\ CharOf(f, b + 1) = "%"
    BY <1>3, <1>7, OneSeen
  <2>1. CharOf(f, b + 1 + 1) = NUL /\ b + 1 + 1 = a + 1
    BY <2>0, <1>3, EndSeen
  <2>3. CharOf(f, a) = "%" /\ CharOf(f, a + 1) = NUL
    BY <2>0, <2>1, <1>3
  <2>2. RightPercent(f, st, k, a, t, o, NUL)
    BY <1>2, <1>7 DEF RightPercent, RightConversion, NUL
  <2> QED BY <2>2, <2>3 DEF Right, RightStart, NUL
<1>8. CASE d = <<"%", "l">>
  <2>0. Len(d) = 2 /\ CharOf(f, b + 1) = "%" /\ CharOf(f, b + 2) = "l"
    BY <1>3, <1>8, TwoSeen
  <2>5. CharOf(f, b + 2 + 1) = NUL
    BY <2>0, <1>3, EndSeen
  <2>6. b + 2 + 1 = a + 2 /\ b + 2 = a + 1
    BY <1>3
  <2>1. CharOf(f, a) = "%" /\ CharOf(f, a + 1) = "l" /\ CharOf(f, a + 2) = NUL
    BY <2>0, <2>5, <2>6, <1>3
  <2>2. ASSUME k = "kernel" PROVE RightLong(f, st, k, a, t, o, NUL)
    BY <1>2, <1>8 DEF RightLong, NUL
  <2>3. ASSUME k = "user" PROVE Writes(f, st, k, a, t, o, <<"%", "l">>, 2)
    <3>1. Longs(f[j])
      BY <1>1, <1>8 DEF Longs
    <3> QED BY <2>3, <3>1, ThroughLong
  <2>4. RightPercent(f, st, k, a, t, o, "l")
    BY <2>1, <2>2, <2>3 DEF RightPercent, RightConversion, NUL
  <2> QED BY <2>1, <2>4 DEF Right, RightStart, NUL
<1> QED BY <1>1, <1>6, <1>7, <1>8, EndingMeans

(* Behind a %l the user's library goes on with what is left of it.         *)
LEMMA RightHalfway ==
  ASSUME NEW f, WellFormed(f), NEW st \in Strings, NEW k \in Libraries, NEW j \in 1..Len(f),
         NEW a, NEW t, NEW o, Halfway(f, st, k, j, a, t, o)
  PROVE  Right(f, st, k, a, t, o)
<1>0. k = "user" /\ Longs(f[j]) /\ Len(f) \in Nat
  BY DEF Halfway, WellFormed
<1>1. PICK b \in Nat : b = Len(Up(f, j - 1)) /\ Seen(f, j, f[j], b) /\ a = b + 3
  BY CharsOf DEF Halfway, Seen
<1>2. PICK x \in Seq(Seq(Marks)) : x = Texts(f, st, k) /\ Len(x) = Len(f)
  BY FormatTyped
<1>3. PICK n \in Seq(Seq(Types)) : n = Needs(f, k) /\ Len(n) = Len(f)
  BY FormatTyped
<1>4. PICK u \in Seq(Marks) : u = Up(x, j - 1)
  BY <1>2, UpTyped
<1>5. PICK w \in Seq(Types) : w = Up(n, j - 1)
  BY <1>3, UpTyped
<1>6. t = w /\ o = u \o <<"%", "l">>
  BY <1>2, <1>3, <1>4, <1>5 DEF Halfway
<1>7. w \o <<>> = w
  OBVIOUS
<1>8. CASE j # Len(f)
  <2>1. f[j] \in Directives
    BY <1>0, <1>8 DEF WellFormed
  <2>2. PICK c \in Letters : f[j] = <<"%", "l", c>> /\ c # "%"
    <3>1. PICK c \in Letters : Kind(f[j], c)
      BY <2>1, DirectiveKinds
    <3>2. PICK d : d = f[j]
      OBVIOUS
    <3>3. (Len(d) = 2 \/ Len(d) = 3) /\ d[2] = "l"
      BY <3>2, <1>0, LongsAre
    <3>4. CASE d = <<c>>
      <4>1. Len(d) = 1
        BY <3>4
      <4> QED BY <4>1, <3>3
    <3>5. CASE d = <<"%", c>> /\ c # "l"
      <4>1. d[2] = c
        BY <3>5
      <4> QED BY <4>1, <3>3, <3>5
    <3>6. CASE d = <<"%", "l", c>> /\ c # "%"
      BY <3>2, <3>6
    <3> QED BY <3>1, <3>2, <3>4, <3>5, <3>6 DEF Kind
  <2>3. CharOf(f, a) = c /\ c # NUL
    BY <2>2, <1>1, ThreeSeen, PrintfAssumption
  <2>4. Takes(k, f[j]) = <<>> /\ Shows(k, f[j]) = f[j]
    BY <2>2, <1>0, LongMeans DEF LongTaken
  <2>5. o \o <<c>> = u \o f[j]
    <3>1. "%" \in Marks /\ "l" \in Marks /\ c \in Marks
      BY PrintfAssumption DEF Marks
    <3>2. (u \o <<"%", "l">>) \o <<c>> = u \o <<"%", "l", c>>
      BY <3>1
    <3> QED BY <3>2, <2>2, <1>6
  <2>6. Progress(f, st, k, b + 4, t, o \o <<c>>)
    <3>1. Text(f, st, k, j) = f[j]
      BY <2>4, TextIs
    <3>2. o \o <<c>> = Up(Texts(f, st, k), j - 1) \o Text(f, st, k, j)
      BY <3>1, <2>5, <1>2, <1>4
    <3>3. t = Up(Needs(f, k), j - 1) \o Takes(k, f[j])
      BY <2>4, <1>3, <1>5, <1>6, <1>7
    <3>4. Len(f[j]) = 3
      BY <2>2
    <3>5. Progress(f, st, k, b + 3 + 1, t, o \o <<c>>)
      BY <3>2, <3>3, <3>4, <1>1, <1>8, Gone
    <3>6. b + 3 + 1 = b + 4
      OBVIOUS
    <3> QED BY <3>5, <3>6
  <2>7. Writes(f, st, k, a, t, o, <<c>>, 1)
    <3>1. Moved(a, 1) = b + 4
      BY <1>1 DEF Moved
    <3> QED BY <3>1, <2>6 DEF Writes
  <2> QED BY <2>2, <2>3, <2>7 DEF Right, RightStart
<1>9. CASE j = Len(f)
  <2>1. f[j] \in Endings
    BY <1>9 DEF WellFormed
  <2>2. PICK d : d = f[j] /\ d = <<"%", "l">>
    <3>1. PICK d : d = f[j]
      OBVIOUS
    <3>2. d = <<>> \/ d = <<"%">> \/ d = <<"%", "l">>
      BY <2>1, <3>1, EndingMeans
    <3>5. d # <<>> /\ d # <<"%">>
      BY <3>1, <1>0, LongsAre
    <3> QED BY <3>1, <3>2, <3>5
  <2>3. CharOf(f, a) = NUL
    <3>1. Len(d) = 2 /\ b + 2 + 1 = a
      BY <2>2, <1>1
    <3>2. CharOf(f, b + 2 + 1) = NUL
      BY <3>1, <2>2, <1>1, <1>9, EndSeen
    <3> QED BY <3>1, <3>2
  <2>4. Takes(k, d) = <<>> /\ Shows(k, d) = d
    BY <2>1, <2>2, EndingMeans
  <2>5. Progress(f, st, k, 0, t, o)
    <3>0. Takes(k, f[j]) = <<>> /\ Shows(k, f[j]) = d
      BY <2>2, <2>4
    <3>1. Text(f, st, k, j) = d
      BY <3>0, TextIs
    <3>2. o = Up(Texts(f, st, k), j - 1) \o Text(f, st, k, j)
      BY <3>1, <2>2, <1>2, <1>4, <1>6
    <3>3. t = Up(Needs(f, k), j - 1) \o Takes(k, f[j])
      BY <2>2, <2>4, <1>3, <1>5, <1>6, <1>7
    <3> QED BY <3>2, <3>3, <1>9, Gone
  <2>6. Writes(f, st, k, a, t, o, <<>>, 0)
    <3>1. "%" \in Marks /\ "l" \in Marks
      BY PrintfAssumption DEF Marks
    <3>2. o \o <<>> = o
      BY <3>1, <1>6
    <3>3. Moved(a, 0) = 0
      BY DEF Moved
    <3> QED BY <3>2, <3>3, <2>5 DEF Writes
  <2> QED BY <2>3, <2>6 DEF Right, RightStart, NUL
<1> QED BY <1>8, <1>9

(* So they are wherever a library stands.                                  *)
LEMMA RightEverywhere ==
  ASSUME NEW f, WellFormed(f), NEW st \in Strings, NEW k \in Libraries,
         NEW a, NEW t, NEW o, a # 0, Progress(f, st, k, a, t, o)
  PROVE  Right(f, st, k, a, t, o)
<1>1. PICK j \in 1..Len(f) : Before(f, st, k, j, a, t, o) \/ Halfway(f, st, k, j, a, t, o)
  BY DEF Progress
<1>2. CASE Halfway(f, st, k, j, a, t, o)
  BY <1>2, RightHalfway
<1>3. CASE Before(f, st, k, j, a, t, o) /\ j = Len(f)
  BY <1>3, RightAtEnding
<1>4. CASE Before(f, st, k, j, a, t, o) /\ j # Len(f)
  <2>1. f[j] \in Directives
    BY <1>4 DEF WellFormed
  <2>2. PICK c \in Letters : Kind(f[j], c)
    BY <2>1, DirectiveKinds
  <2> QED BY <2>2, <1>4, RightAtPlain, RightAtPair, RightAtLong DEF Kind
<1> QED BY <1>1, <1>2, <1>3, <1>4

----------------------------------------------------------------------------
(* The loops.                                                              *)

(* What a library has fetched and printed is of the right types.           *)
LEMMA ProgressTyped ==
  ASSUME NEW f, WellFormed(f), NEW st \in Strings, NEW k \in Libraries,
         NEW a, NEW t, NEW o, Progress(f, st, k, a, t, o)
  PROVE  a \in 0..Len(FlattenSeq(f)) + 1 /\ t \in Seq(Types) /\ o \in Seq(Marks)
<1>1. PICK n \in Seq(Seq(Types)) : n = Needs(f, k) /\ Len(n) = Len(f)
  BY FormatTyped
<1>2. PICK x \in Seq(Seq(Marks)) : x = Texts(f, st, k) /\ Len(x) = Len(f)
  BY FormatTyped
<1>3. Len(FlattenSeq(f)) \in Nat
  <2>1. f \in Seq(Seq(Letters)) /\ Len(f) \in 1..Len(f)
    BY DEF WellFormed
  <2> QED BY <2>1, Standing DEF Stands
<1>4. CASE a = 0
  <2>1. FlattenSeq(n) = Up(n, Len(n)) /\ FlattenSeq(x) = Up(x, Len(x))
    BY <1>1, <1>2, UpEnds
  <2>2. Up(n, Len(n)) \in Seq(Types) /\ Up(x, Len(x)) \in Seq(Marks)
    BY <1>1, <1>2, UpTyped
  <2>3. t = FlattenSeq(n) /\ o = FlattenSeq(x)
    BY <1>1, <1>2, <1>4 DEF Progress
  <2> QED BY <2>1, <2>2, <2>3, <1>3, <1>4
<1>5. CASE a # 0
  <2>1. PICK j \in 1..Len(f) : Before(f, st, k, j, a, t, o) \/ Halfway(f, st, k, j, a, t, o)
    BY <1>5 DEF Progress
  <2>2. PICK u \in Seq(Marks) : u = Up(x, j - 1)
    BY <1>2, UpTyped
  <2>3. PICK w \in Seq(Types) : w = Up(n, j - 1)
    BY <1>1, UpTyped
  <2>4. PICK b \in Nat : b = Len(Up(f, j - 1)) /\ Seen(f, j, f[j], b)
    BY CharsOf DEF Seen
  <2>5. PICK z \in Nat : z = Len(FlattenSeq(f))
    BY <1>3
  <2>6. PICK m \in Nat : m = Len(f[j]) /\ b + m <= z
    BY <2>4, <2>5 DEF Seen
  <2>7. CASE Before(f, st, k, j, a, t, o)
    <3>1. a = b + 1 /\ t = w /\ o = u
      BY <2>2, <2>3, <2>4, <2>7, <1>1, <1>2 DEF Before
    <3>2. b + 1 \in 0..z + 1
      BY <2>6
    <3> QED BY <3>1, <3>2, <2>5
  <2>8. CASE Halfway(f, st, k, j, a, t, o)
    <3>1. a = b + 3 /\ t = w /\ o = u \o <<"%", "l">>
      BY <2>2, <2>3, <2>4, <2>8, <1>1, <1>2 DEF Halfway
    <3>2. m = 2 \/ m = 3
      BY <2>6, <2>8, LongsAre DEF Halfway
    <3>6. b + m <= z
      BY <2>6
    <3>3. b + 3 \in 0..z + 1
      BY <3>2, <3>6
    <3>4. "%" \in Marks /\ "l" \in Marks
      BY PrintfAssumption DEF Marks
    <3>5. u \o <<"%", "l">> \in Seq(Marks)
      BY <3>4
    <3> QED BY <3>1, <3>3, <3>5, <2>5
  <2> QED BY <2>1, <2>7, <2>8
<1> QED BY <1>4, <1>5

(* A call begins before the first directive.                               *)
LEMMA InitInv == Init => PrintfInv
<1> SUFFICES ASSUME Init PROVE PrintfInv
  OBVIOUS
<1>1. PICK ds \in BoundedSeq(Directives, MaxLen), e \in Endings : format = Append(ds, e)
  BY DEF Init
<1>2. ds \in Seq(Directives)
  <2>1. PICK m \in 0..MaxLen : ds \in [1..m -> Directives]
    BY DEF BoundedSeq, SeqOf
  <2>2. m \in Nat
    BY PrintfAssumption
  <2> QED BY <2>1, <2>2
<1>3. WellFormed(format)
  <2>1. Directives \subseteq Seq(Letters)
    <3>1. ASSUME NEW d \in Directives PROVE d \in Seq(Letters)
      <4>1. PICK c \in Letters : Kind(d, c)
        BY DirectiveKinds
      <4>2. "%" \in Letters /\ "l" \in Letters
        BY PrintfAssumption
      <4>3. <<c>> \in Seq(Letters) /\ <<"%", c>> \in Seq(Letters) /\ <<"%", "l", c>> \in Seq(Letters)
        BY <4>2
      <4> QED BY <4>1, <4>3 DEF Kind
    <3> QED BY <3>1
  <2>2. e \in Seq(Letters)
    <3>1. "%" \in Letters /\ "l" \in Letters
      BY PrintfAssumption
    <3>2. <<>> \in Seq(Letters) /\ <<"%">> \in Seq(Letters) /\ <<"%", "l">> \in Seq(Letters)
      BY <3>1
    <3> QED BY <3>2, EndingMeans
  <2>3. Len(format) = Len(ds) + 1 /\ format[Len(format)] = e
    BY <1>1, <1>2
  <2>4. \A i \in 1..Len(format) - 1 : format[i] = ds[i] /\ ds[i] \in Directives
    BY <1>1, <1>2, <2>3
  <2>5. format \in Seq(Seq(Letters))
    <3>1. PICK S : S = Seq(Letters) /\ Directives \subseteq S /\ e \in S
      BY <2>1, <2>2
    <3>2. ds \in Seq(S)
      BY <1>2, <3>1
    <3>3. Append(ds, e) \in Seq(S)
      BY <3>1, <3>2
    <3> QED BY <3>1, <3>3, <1>1
  <2>6. Len(format) # 0
    BY <1>2, <2>3
  <2> QED BY <2>3, <2>4, <2>5, <2>6 DEF WellFormed
<1>4. str \in Strings
  BY DEF Init
<1>5. ASSUME NEW k \in Libraries PROVE Progress(format, str, k, at[k], taken[k], out[k])
  <2>1. at[k] = 1 /\ taken[k] = <<>> /\ out[k] = <<>>
    BY DEF Init
  <2>2. Len(Up(format, 0)) + 1 = 1 /\ Up(Needs(format, k), 0) = <<>> /\ Up(Texts(format, str, k), 0) = <<>>
    BY UpStarts
  <2>3. 1 \in 1..Len(format) /\ 1 - 1 = 0
    BY <1>3 DEF WellFormed
  <2>4. Before(format, str, k, 1, 1, <<>>, <<>>)
    BY <2>2, <2>3 DEF Before
  <2> QED BY <2>1, <2>3, <2>4 DEF Progress
<1>6. at \in [Libraries -> Nat] /\ taken \in [Libraries -> Seq(Types)] /\ out \in [Libraries -> Seq(Marks)]
  <2>1. <<>> \in Seq(Types) /\ <<>> \in Seq(Marks) /\ 1 \in Nat
    OBVIOUS
  <2> QED BY <2>1 DEF Init
<1> QED BY <1>3, <1>4, <1>5, <1>6 DEF PrintfInv

(* When the kth library steps, and the other does not, the invariant is    *)
(* kept if the step is right.                                              *)
LEMMA StepKept ==
  ASSUME PrintfInv, UNCHANGED <<format, str>>, NEW k \in Libraries,
         NEW a, at' = [at EXCEPT ![k] = a], NEW t, taken' = [taken EXCEPT ![k] = t],
         NEW o, out' = [out EXCEPT ![k] = o],
         Progress(format, str, k, a, t, o)
  PROVE  PrintfInv'
<1>1. PICK f : f = format /\ f = format' /\ WellFormed(f)
  BY DEF PrintfInv
<1>2. PICK st \in Strings : st = str /\ st = str'
  BY DEF PrintfInv
<1>3. a \in Nat /\ t \in Seq(Types) /\ o \in Seq(Marks)
  BY <1>1, <1>2, ProgressTyped
<1>4. /\ at \in [Libraries -> Nat] /\ taken \in [Libraries -> Seq(Types)]
      /\ out \in [Libraries -> Seq(Marks)]
  BY DEF PrintfInv
<1>5. /\ at' \in [Libraries -> Nat] /\ taken' \in [Libraries -> Seq(Types)]
      /\ out' \in [Libraries -> Seq(Marks)]
  <2>1. at' \in [Libraries -> Nat]
    BY <1>3, <1>4
  <2>2. taken' \in [Libraries -> Seq(Types)]
    BY <1>3, <1>4, Zenon
  <2>3. out' \in [Libraries -> Seq(Marks)]
    BY <1>3, <1>4, Zenon
  <2> QED BY <2>1, <2>2, <2>3
<1>6. ASSUME NEW i \in Libraries PROVE Progress(f, st, i, at'[i], taken'[i], out'[i])
  <2>1. CASE i = k
    <3>1. at'[i] = a /\ taken'[i] = t /\ out'[i] = o
      BY <2>1, <1>4
    <3> QED BY <3>1, <2>1, <1>1, <1>2
  <2>2. CASE i # k
    <3>1. at'[i] = at[i] /\ taken'[i] = taken[i] /\ out'[i] = out[i]
      BY <2>2, <1>4
    <3> QED BY <3>1, <1>1, <1>2 DEF PrintfInv
  <2> QED BY <2>1, <2>2
<1> QED BY <1>1, <1>2, <1>5, <1>6 DEF PrintfInv

(* Convert and Literal do what they are said to.                           *)
LEMMA ConvertKept ==
  ASSUME PrintfInv, UNCHANGED <<format, str>>, NEW k \in Libraries, NEW ty, NEW n,
         Convert(k, ty, n),
         Converts(format, str, k, at[k], taken[k], out[k], ty, n)
  PROVE  PrintfInv'
<1>1. PICK a : a = Moved(at[k], n)
  OBVIOUS
<1>2. PICK t : t = Append(taken[k], ty)
  OBVIOUS
<1>3. PICK s : s = IF ty = "string" THEN StringOf(str) ELSE << <<ty, Len(taken[k]) + 1>> >>
  OBVIOUS
<1>4. Progress(format, str, k, a, t, out[k] \o s)
  BY <1>1, <1>2, <1>3 DEF Converts
<1>5. at' = [at EXCEPT ![k] = a]
  BY <1>1 DEF Convert, Move, Moved
<1>6. taken' = [taken EXCEPT ![k] = t]
  BY <1>2 DEF Convert, Fetch
<1>7. s = IF ty = "string" THEN String ELSE Number(k, ty)
  BY <1>3 DEF String, StringOf, Number
<1>8. out' = [out EXCEPT ![k] = out[k] \o s]
  BY <1>7 DEF Convert, Put
<1> QED BY <1>4, <1>5, <1>6, <1>8, StepKept

LEMMA LiteralKept ==
  ASSUME PrintfInv, UNCHANGED <<format, str>>, NEW k \in Libraries, NEW s, NEW n,
         Literal(k, s, n),
         Writes(format, str, k, at[k], taken[k], out[k], s, n)
  PROVE  PrintfInv'
<1>1. PICK a : a = Moved(at[k], n)
  OBVIOUS
<1>4. Progress(format, str, k, a, taken[k], out[k] \o s)
  BY <1>1 DEF Writes
<1>5. at' = [at EXCEPT ![k] = a]
  BY <1>1 DEF Literal, Move, Moved
<1>6. taken' = [taken EXCEPT ![k] = taken[k]]
  <2>1. taken = [taken EXCEPT ![k] = taken[k]]
    BY DEF PrintfInv
  <2> QED BY <2>1 DEF Literal
<1>8. out' = [out EXCEPT ![k] = out[k] \o s]
  BY DEF Literal, Put
<1> QED BY <1>4, <1>5, <1>6, <1>8, StepKept

(* What may be read is right wherever a library is.                        *)
LEMMA RightNow ==
  ASSUME PrintfInv, NEW k \in Libraries, at[k] # 0
  PROVE  Right(format, str, k, at[k], taken[k], out[k])
BY RightEverywhere DEF PrintfInv

LEMMA CharIs == \A i : Char(i) = CharOf(format, i)
BY DEF Char, CharOf, fmt

(* Neither library loses its place.                                        *)
LEMMA NextInv == PrintfInv /\ [Next]_vars => PrintfInv'
<1> SUFFICES ASSUME PrintfInv, [Next]_vars PROVE PrintfInv'
  OBVIOUS
<1>1. CASE UNCHANGED vars
  BY <1>1 DEF vars, PrintfInv
<1>2. CASE Next
  <2>0. UNCHANGED <<format, str>>
    BY <1>2 DEF Next
  <2>1. ASSUME NEW k \in Libraries, Plain(k) PROVE PrintfInv'
    <3>1. Literal(k, <<Char(at[k])>>, 1)
      BY <2>1 DEF Plain
    <3>2. Writes(format, str, k, at[k], taken[k], out[k], <<Char(at[k])>>, 1)
      BY <2>1, CharIs, RightNow DEF Plain, Right, RightStart
    <3> QED BY <3>1, <3>2, <2>0, LiteralKept
  <2>2. ASSUME NEW k \in Libraries, End(k) PROVE PrintfInv'
    <3>1. Literal(k, <<>>, 0)
      BY <2>2 DEF End
    <3>2. Writes(format, str, k, at[k], taken[k], out[k], <<>>, 0)
      BY <2>2, CharIs, RightNow DEF End, Right, RightStart
    <3> QED BY <3>1, <3>2, <2>0, LiteralKept
  <2>3. ASSUME NEW k \in Libraries, NEW c, Conversion(k, c),
               RightConversion(format, str, k, at[k], taken[k], out[k], c)
        PROVE  PrintfInv'
    <3>1. CASE c = NUL /\ Literal(k, <<"%">>, 0)
      BY <3>1, <2>0, <2>3, LiteralKept DEF RightConversion
    <3>2. CASE c = "%" /\ Literal(k, <<"%">>, 2)
      BY <3>2, <2>0, <2>3, LiteralKept DEF RightConversion
    <3>3. CASE c = "s" /\ Convert(k, "string", 2)
      BY <3>3, <2>0, <2>3, ConvertKept DEF RightConversion
    <3>4. CASE c = "d" /\ Convert(k, "int", 2)
      BY <3>4, <2>0, <2>3, ConvertKept DEF RightConversion
    <3>5. CASE c = "x" /\ Convert(k, "unsigned", 2)
      BY <3>5, <2>0, <2>3, ConvertKept DEF RightConversion
    <3> QED BY <3>1, <3>2, <3>3, <3>4, <3>5, <2>3 DEF Conversion
  <2>4. CASE KernelPercent
    <3>1. PICK k \in Libraries : k = "kernel"
      BY DEF Libraries
    <3>2. PICK c : c = Char(at[k] + 1)
      OBVIOUS
    <3>3. RightPercent(format, str, k, at[k], taken[k], out[k], c)
      BY <2>4, <3>1, <3>2, CharIs, RightNow DEF KernelPercent, Right
    <3>4. CASE Conversion(k, c)
      BY <3>3, <3>4, <2>3 DEF RightPercent
    <3>5. CASE c = "l" /\ Long(k, Char(at[k] + 2))
      <4>1. PICK e : e = Char(at[k] + 2)
        OBVIOUS
      <4>2. RightLong(format, str, k, at[k], taken[k], out[k], e)
        BY <3>1, <3>3, <3>5, <4>1, CharIs DEF RightPercent
      <4>3. CASE e = "d" /\ Convert(k, "long", 3)
        BY <4>2, <4>3, <2>0, ConvertKept DEF RightLong
      <4>4. CASE e = "x" /\ Convert(k, "unsigned long", 3)
        BY <4>2, <4>4, <2>0, ConvertKept DEF RightLong
      <4>5. CASE e = NUL /\ Literal(k, <<"%", "l">>, 0)
        BY <4>2, <4>5, <2>0, LiteralKept DEF RightLong
      <4>6. CASE e \notin {"d", "x", NUL} /\ Literal(k, <<>>, 3)
        BY <4>2, <4>6, <2>0, LiteralKept DEF RightLong
      <4> QED BY <4>1, <4>3, <4>4, <4>5, <4>6, <3>5 DEF Long, Ends, LongType
    <3>6. CASE c \notin {NUL, "%", "s", "d", "x", "l"} /\ Literal(k, <<>>, 2)
      BY <3>1, <3>3, <3>6, <2>0, LiteralKept DEF RightPercent
    <3> QED BY <2>4, <3>1, <3>2, <3>4, <3>5, <3>6 DEF KernelPercent
  <2>5. CASE UserPercent
    <3>1. PICK k \in Libraries : k = "user"
      BY DEF Libraries
    <3>2. PICK c : c = Char(at[k] + 1)
      OBVIOUS
    <3>3. RightPercent(format, str, k, at[k], taken[k], out[k], c)
      BY <2>5, <3>1, <3>2, CharIs, RightNow DEF UserPercent, Right
    <3>4. CASE Conversion(k, c)
      BY <3>3, <3>4, <2>3 DEF RightPercent
    <3>5. CASE c \notin {NUL, "%", "s", "d", "x"} /\ Literal(k, <<"%", c>>, 2)
      BY <3>1, <3>3, <3>5, <2>0, LiteralKept DEF RightPercent
    <3> QED BY <2>5, <3>1, <3>2, <3>4, <3>5 DEF UserPercent
  <2> QED BY <1>2, <2>1, <2>2, <2>4, <2>5 DEF Next
<1> QED BY <1>1, <1>2

LEMMA PrintfInvariant == Spec => []PrintfInv
BY InitInv, NextInv, PTL DEF Spec

(* printf never reads a character behind the terminator of its format,     *)
(* however the format ends (common.c:43-107, ulib.c:78-131).               *)
THEOREM PrintfTyped == Spec => []TypeOK
<1>1. PrintfInv => TypeOK
  <2> SUFFICES ASSUME PrintfInv PROVE TypeOK
    OBVIOUS
  <2>1. ASSUME NEW k \in Libraries PROVE at[k] \in 0..Len(fmt) + 1
    BY ProgressTyped DEF PrintfInv, fmt
  <2>2. at \in [Libraries -> 0..Len(fmt) + 1]
    <3>1. at = [k \in Libraries |-> at[k]]
      BY DEF PrintfInv
    <3>2. PICK S : S = 0..Len(fmt) + 1
      OBVIOUS
    <3>3. \A k \in Libraries : at[k] \in S
      BY <2>1, <3>2
    <3>4. at \in [Libraries -> S]
      BY <3>1, <3>3
    <3> QED BY <3>2, <3>4
  <2> QED BY <2>2 DEF PrintfInv, TypeOK, Types
<1> QED BY <1>1, PrintfInvariant, PTL

(* Both libraries print what the directives of any format mean, in their   *)
(* order, and fetch just the arguments these take, each with its own type. *)
THEOREM FormatDecoded == Spec => []DecodesTheFormat
<1>1. PrintfInv => DecodesTheFormat
  <2> SUFFICES ASSUME PrintfInv PROVE DecodesTheFormat
    OBVIOUS
  <2>1. ASSUME NEW k \in Libraries, at[k] = 0
        PROVE  taken[k] = FlattenSeq(Needs(format, k)) /\ out[k] = FlattenSeq(Texts(format, str, k))
    BY <2>1 DEF PrintfInv, Progress
  <2>2. \A k \in Libraries : Needs(format, k) = [i \in 1..Len(format) |-> Takes(k, format[i])]
    BY DEF Needs
  <2>3. \A k \in Libraries :
          LET needs == [i \in 1..Len(format) |-> Takes(k, format[i])]
              nth(i) == Len(FlattenSeq(SubSeq(needs, 1, i)))
              text(i) == IF needs[i] = <<>> THEN Shows(k, format[i])
                         ELSE IF needs[i] = <<"string">> THEN String
                         ELSE << <<needs[i][1], nth(i)>> >>
          IN  Texts(format, str, k) = [i \in 1..Len(format) |-> text(i)]
    BY DEF Texts, Text, Up, StringOf, String, Needs
  <2> QED BY <2>1, <2>2, <2>3, Zenon DEF DecodesTheFormat
<1> QED BY <1>1, PrintfInvariant, PTL
=============================================================================
