--------------------------- MODULE ConsoleProofs ---------------------------
(***************************************************************************)
(* Proofs about Console, for an array of any size, any commands and any    *)
(* keys: the row always shows the line, and a console is the terminal that *)
(* Terminal promises.                                                      *)
(*                                                                         *)
(* What is still to be written makes no difference to Settled, so the      *)
(* invariant speaks of the terminal as it will be; what a text does to it  *)
(* is a fact about Settle.                                                 *)
(***************************************************************************)
EXTENDS Console, WellFoundedInduction, TLAPS

----------------------------------------------------------------------------
(* Texts and terminals.                                                    *)

(* What a process takes from each number to the next it takes to the end.  *)
LEMMA UpTo ==
  ASSUME NEW n \in Nat, NEW G, 0 \in G, \A i \in 0..n - 1 : i \in G => i + 1 \in G
  PROVE  n \in G
<1> DEFINE missing == {i \in Nat : i <= n /\ i \notin G}
<1>1. CASE missing = {}
  <2>1. n \notin missing
    BY <1>1
  <2> QED BY <2>1
<1>2. CASE missing # {}
  <2>0. missing \subseteq Nat
    OBVIOUS
  <2>1. PICK i \in missing : \A j \in missing : ~ (<<j, i>> \in OpToRel(<, Nat))
    <3> HIDE DEF missing
    <3> QED BY <1>2, <2>0, WFMin, NatLessThanWellFounded
  <2>2. i \in Nat /\ i <= n /\ i \notin G
    BY <2>1
  <2>3. \A j \in missing : ~ (j < i)
    BY <2>1, <2>2 DEF OpToRel
  <2>4. i # 0
    BY <2>2
  <2>5. PICK j \in Nat : j = i - 1
    BY <2>2, <2>4
  <2>6. j \in 0..n - 1 /\ j < i /\ i = j + 1
    BY <2>2, <2>5
  <2>7. j \in G
    BY <2>3, <2>6
  <2> QED BY <2>2, <2>6, <2>7
<1> QED BY <1>1, <1>2

(* after[i] is the terminal when i characters of text have been written.   *)
Writing(s, text, after) ==
  after = [i \in 0..Len(text) |-> IF i = 0 THEN s ELSE Written(after[i - 1], text[i])]

(* The recursion of Settle has a solution.                                 *)
LEMMA WritingExists ==
  ASSUME NEW s, NEW C, NEW text \in Seq(C)
  PROVE  \E after : Writing(s, text, after)
<1> DEFINE Part(k, after) ==
      after = [i \in 0..k |-> IF i = 0 THEN s ELSE Written(after[i - 1], text[i])]
<1> DEFINE G == {k \in 0..Len(text) : \E after : Part(k, after)}
<1>0. Len(text) \in Nat
  OBVIOUS
<1>1. 0 \in G
  <2>1. PICK after : after = [i \in 0..0 |-> s]
    OBVIOUS
  <2>2. after = [i \in 0..0 |-> IF i = 0 THEN s ELSE Written(after[i - 1], text[i])]
    BY <2>1
  <2>3. Part(0, after)
    BY <2>2
  <2> QED BY <1>0, <2>3
<1>2. ASSUME NEW k \in 0..Len(text) - 1, k \in G PROVE k + 1 \in G
  <2>1. PICK g : Part(k, g)
    BY <1>2
  <2>2. PICK d \in Nat : d = k + 1 /\ d \in 0..Len(text)
    BY <1>0
  <2>3. PICK after : after = [i \in 0..d |-> IF i = d THEN Written(g[k], text[d]) ELSE g[i]]
    OBVIOUS
  <2>4. \A i \in 0..k : g[i] = IF i = 0 THEN s ELSE Written(g[i - 1], text[i])
    BY <2>1
  <2>5. \A i \in 0..k : after[i] = g[i]
    BY <2>2, <2>3
  <2>6. ASSUME NEW i \in 0..d
        PROVE  after[i] = IF i = 0 THEN s ELSE Written(after[i - 1], text[i])
    <3>1. CASE i = d
      <4>1. i # 0 /\ i - 1 = k /\ k \in 0..k
        BY <3>1, <2>2
      <4>2. after[i] = Written(g[k], text[i])
        BY <3>1, <2>3
      <4> QED BY <4>1, <4>2, <2>5
    <3>2. CASE i # d
      <4>1. i \in 0..k /\ (i # 0 => i - 1 \in 0..k)
        BY <3>2, <2>2
      <4> QED BY <4>1, <2>4, <2>5
    <3> QED BY <3>1, <3>2
  <2>7. Part(d, after)
    <3>1. after = [i \in 0..d |-> after[i]]
      BY <2>3
    <3> QED BY <3>1, <2>6
  <2> QED BY <2>2, <2>7
<1>3. Len(text) \in G
  <2> HIDE DEF G
  <2> QED BY <1>0, <1>1, <1>2, UpTo
<1>4. PICK after : Part(Len(text), after)
  BY <1>3
<1> QED BY <1>4 DEF Writing

(* Settle is the last of these terminals.                                  *)
LEMMA SettleIsWriting ==
  ASSUME NEW s, NEW C, NEW text \in Seq(C)
  PROVE  \E after : Writing(s, text, after) /\ Settle(s, text) = after[Len(text)]
<1> DEFINE after[i \in 0..Len(text)] ==
      IF i = 0 THEN s
      ELSE CHOOSE t \in {Written(u, text[i]) : u \in {after[i - 1]}} : TRUE
<1>1. Settle(s, text) = after[Len(text)]
  BY DEF Settle
<1>2. ASSUME NEW x PROVE (CHOOSE t \in {x} : TRUE) = x
  OBVIOUS
<1>3. ASSUME NEW f, NEW i
      PROVE  (CHOOSE t \in {Written(u, text[i]) : u \in {f[i - 1]}} : TRUE) = Written(f[i - 1], text[i])
  <2>1. {Written(u, text[i]) : u \in {f[i - 1]}} = {Written(f[i - 1], text[i])}
    OBVIOUS
  <2> QED BY <2>1, <1>2
<1>4. PICK g : Writing(s, text, g)
  BY WritingExists
<1>5. g = [i \in 0..Len(text) |->
              IF i = 0 THEN s
              ELSE CHOOSE t \in {Written(u, text[i]) : u \in {g[i - 1]}} : TRUE]
  BY <1>3, <1>4 DEF Writing
<1>6. after = [i \in 0..Len(text) |->
              IF i = 0 THEN s
              ELSE CHOOSE t \in {Written(u, text[i]) : u \in {after[i - 1]}} : TRUE]
  <2> HIDE <1>1
  <2> QED BY <1>5
<1>7. Writing(s, text, after)
  <2> HIDE DEF after
  <2> QED BY <1>3, <1>6 DEF Writing
<1> QED BY <1>1, <1>7

(* Two runs that begin alike are alike as far as both have been written.   *)
Alike(n, x, y) ==
  n <= Len(x) /\ n <= Len(y) /\ \A i \in 1..n : x[i] = y[i]

LEMMA WritingAgrees ==
  ASSUME NEW s, NEW C, NEW x \in Seq(C), NEW y \in Seq(C), NEW n \in Nat,
         Alike(n, x, y),
         NEW f, NEW g, Writing(s, x, f), Writing(s, y, g)
  PROVE  f[n] = g[n]
<1> DEFINE G == {i \in 0..n : f[i] = g[i]}
<1>1. 0 \in G
  BY DEF Writing
<1>2. ASSUME NEW i \in 0..n - 1, i \in G PROVE i + 1 \in G
  <2>1. PICK j \in 1..n : j = i + 1
    OBVIOUS
  <2>2. j \in 0..Len(x) /\ j \in 0..Len(y) /\ j # 0 /\ j - 1 = i
    BY <2>1 DEF Alike
  <2>3. f[j] = Written(f[i], x[j]) /\ g[j] = Written(g[i], y[j])
    BY <2>2 DEF Writing
  <2> QED BY <1>2, <2>1, <2>2, <2>3 DEF Alike
<1>3. n \in G
  <2> HIDE DEF G
  <2> QED BY <1>1, <1>2, UpTo
<1> QED BY <1>3

LEMMA SettleIs ==
  ASSUME NEW s, NEW C, NEW text \in Seq(C), NEW f, Writing(s, text, f)
  PROVE  Settle(s, text) = f[Len(text)]
<1>1. PICK g : Writing(s, text, g) /\ Settle(s, text) = g[Len(text)]
  BY SettleIsWriting
<1>2. PICK n \in Nat : n = Len(text)
  OBVIOUS
<1>3. Alike(n, text, text)
  BY <1>2 DEF Alike
<1>4. f[n] = g[n]
  BY <1>1, <1>3, WritingAgrees
<1> QED BY <1>1, <1>2, <1>4

(* Nothing to write changes nothing; one character is written as such.     *)
LEMMA SettleFew ==
  ASSUME NEW s
  PROVE  Settle(s, <<>>) = s /\ \A c : Settle(s, <<c>>) = Written(s, c)
<1>1. PICK f : Writing(s, <<>>, f) /\ Settle(s, <<>>) = f[Len(<<>>)]
  <2>1. <<>> \in Seq({})
    OBVIOUS
  <2> QED BY <2>1, SettleIsWriting
<1>2. Settle(s, <<>>) = s
  BY <1>1 DEF Writing
<1>3. ASSUME NEW c PROVE Settle(s, <<c>>) = Written(s, c)
  <2>1. <<c>> \in Seq({c})
    OBVIOUS
  <2>2. PICK g : Writing(s, <<c>>, g) /\ Settle(s, <<c>>) = g[Len(<<c>>)]
    BY <2>1, SettleIsWriting
  <2>3. g = [i \in 0..1 |-> IF i = 0 THEN s ELSE Written(g[i - 1], <<c>>[i])]
    BY <2>2 DEF Writing
  <2>4. g[1] = Written(g[0], c) /\ g[0] = s
    BY <2>3
  <2> QED BY <2>2, <2>4
<1> QED BY <1>2, <1>3

(* Text after text.                                                        *)
LEMMA SettleJoin ==
  ASSUME NEW s, NEW C, NEW x \in Seq(C), NEW y \in Seq(C)
  PROVE  Settle(s, x \o y) = Settle(Settle(s, x), y)
<1>1. x \o y \in Seq(C) /\ Len(x \o y) = Len(x) + Len(y) /\ Len(x) \in Nat /\ Len(y) \in Nat
  OBVIOUS
<1>2. PICK f : Writing(s, x \o y, f) /\ Settle(s, x \o y) = f[Len(x \o y)]
  BY <1>1, SettleIsWriting
<1>3. PICK g : Writing(s, x, g) /\ Settle(s, x) = g[Len(x)]
  BY SettleIsWriting
<1>4. PICK h : Writing(Settle(s, x), y, h) /\ Settle(Settle(s, x), y) = h[Len(y)]
  BY SettleIsWriting
<1>5. PICK m \in Nat : m = Len(x)
  BY <1>1
<1>6. PICK n \in Nat : n = Len(y)
  BY <1>1
<1>7. \A i \in 1..m : x[i] = (x \o y)[i]
  BY <1>5
<1>8. g[m] = f[m]
  <2>1. PICK z \in Seq(C) : z = x \o y
    BY <1>1
  <2>2. Alike(m, x, z)
    BY <1>1, <1>5, <1>7, <2>1 DEF Alike
  <2>3. Writing(s, x, g) /\ Writing(s, z, f)
    BY <1>2, <1>3, <2>1
  <2> QED BY <2>2, <2>3, WritingAgrees
<1> DEFINE G == {i \in 0..n : f[m + i] = h[i]}
<1>9. 0 \in G
  <2>1. h[0] = Settle(s, x)
    BY <1>4 DEF Writing
  <2> QED BY <1>3, <1>5, <1>8, <2>1
<1>10. ASSUME NEW i \in 0..n - 1, i \in G PROVE i + 1 \in G
  <2>1. PICK j \in 1..n : j = i + 1
    OBVIOUS
  <2>2. PICK k \in 1..m + n : k = m + j
    OBVIOUS
  <2>3. k \in 0..Len(x \o y) /\ j \in 0..Len(y) /\ j # 0 /\ k # 0 /\ j - 1 = i /\ k - 1 = m + i
    BY <1>1, <1>5, <1>6, <2>1, <2>2
  <2>4. h[j] = Written(h[i], y[j])
    BY <1>4, <2>3 DEF Writing
  <2>5. f[k] = Written(f[m + i], (x \o y)[k])
    BY <1>2, <2>3 DEF Writing
  <2>6. (x \o y)[k] = y[j]
    BY <1>5, <1>6, <2>1, <2>2
  <2> QED BY <1>10, <2>1, <2>2, <2>4, <2>5, <2>6
<1>11. n \in G
  <2> HIDE DEF G
  <2> QED BY <1>9, <1>10, UpTo
<1> QED BY <1>1, <1>2, <1>4, <1>5, <1>6, <1>11

(* The terminals there are, the row up to the cursor, and that nothing is  *)
(* left to see behind it.                                                  *)
Screens ==
  {s \in [cells : Seq(Texts), cursor : Nat, above : Seq(Seq(Texts))] : s.cursor <= Len(s.cells)}

Row(s) == SubSeq(s.cells, 1, s.cursor)
Clean(s) == \A i \in s.cursor + 1..Len(s.cells) : s.cells[i] = 32
Plain == Texts \ {NL, KEY_BACKSPACE}

LEMMA RowFacts ==
  ASSUME NEW s \in Screens
  PROVE  /\ Row(s) \in Seq(Texts) /\ Len(Row(s)) = s.cursor
         /\ \A i \in 1..s.cursor : Row(s)[i] = s.cells[i]
<1>1. s.cells \in Seq(Texts) /\ s.cursor \in Nat /\ s.cursor <= Len(s.cells)
  BY DEF Screens
<1> QED BY <1>1 DEF Row

LEMMA SameSeq ==
  ASSUME NEW C, NEW x \in Seq(C), NEW y \in Seq(C), Len(x) = Len(y),
         \A i \in 1..Len(x) : x[i] = y[i]
  PROVE  x = y
OBVIOUS

LEMMA SeqMono ==
  ASSUME NEW C, NEW D, C \subseteq D, NEW x \in Seq(C)
  PROVE  x \in Seq(D)
OBVIOUS

Joined(z, x, y) ==
  /\ Len(z) = Len(x) + Len(y)
  /\ \A i \in 1..Len(x) : z[i] = x[i]
  /\ \A i \in 1..Len(y) : z[Len(x) + i] = y[i]

LEMMA JoinFacts ==
  ASSUME NEW C, NEW x \in Seq(C), NEW y \in Seq(C)
  PROVE  x \o y \in Seq(C) /\ Joined(x \o y, x, y)
BY DEF Joined

Extends(z, x, c) ==
  Len(z) = Len(x) + 1 /\ z[Len(x) + 1] = c /\ \A i \in 1..Len(x) : z[i] = x[i]

LEMMA AppendFacts ==
  ASSUME NEW C, NEW x \in Seq(C), NEW c \in C
  PROVE  Append(x, c) \in Seq(C) /\ Extends(Append(x, c), x, c)
BY DEF Extends

LEMMA WrittenNewline ==
  ASSUME NEW s \in Screens
  PROVE  LET t == Written(s, NL) IN
         t \in Screens /\ Row(t) = <<>> /\ t.above = Append(s.above, Row(s)) /\ Clean(t)
<1>1. s.above \in Seq(Seq(Texts)) /\ Row(s) \in Seq(Texts)
  BY RowFacts DEF Screens
<1>2. Written(s, NL) = [cells |-> <<>>, cursor |-> 0, above |-> Append(s.above, Row(s))]
  BY DEF Written, Row, NL, KEY_BACKSPACE
<1>3. <<>> \in Seq(Texts) /\ Append(s.above, Row(s)) \in Seq(Seq(Texts))
  BY <1>1
<1>4. PICK t : t = Written(s, NL)
  OBVIOUS
<1>5. t.cells = <<>> /\ t.cursor = 0 /\ t.above = Append(s.above, Row(s))
  BY <1>2, <1>4
<1>6. t \in Screens
  BY <1>2, <1>3, <1>4 DEF Screens
<1> QED BY <1>4, <1>5, <1>6 DEF Row, Clean

LEMMA WrittenBackspace ==
  ASSUME NEW s \in Screens
  PROVE  LET t == Written(s, KEY_BACKSPACE) IN
         /\ t \in Screens /\ t.cells = s.cells /\ t.above = s.above
         /\ t.cursor = IF s.cursor = 0 THEN 0 ELSE s.cursor - 1
<1>1. s \in [cells : Seq(Texts), cursor : Nat, above : Seq(Seq(Texts))] /\ s.cursor <= Len(s.cells)
  BY DEF Screens
<1>2. PICK t : t = [s EXCEPT !.cursor = IF @ = 0 THEN 0 ELSE @ - 1]
  OBVIOUS
<1>3. Written(s, KEY_BACKSPACE) = t
  BY <1>2 DEF Written, KEY_BACKSPACE, NL
<1>4. /\ t \in [cells : Seq(Texts), cursor : Nat, above : Seq(Seq(Texts))]
      /\ t.cells = s.cells /\ t.above = s.above
      /\ t.cursor = IF s.cursor = 0 THEN 0 ELSE s.cursor - 1
  BY <1>1, <1>2
<1>5. t.cursor <= Len(t.cells)
  BY <1>1, <1>4
<1> QED BY <1>3, <1>4, <1>5 DEF Screens

LEMMA WrittenPlain ==
  ASSUME NEW s \in Screens, NEW c \in Plain
  PROVE  LET t == Written(s, c) IN
         /\ t \in Screens /\ t.above = s.above
         /\ t.cursor = s.cursor + 1 /\ t.cells[t.cursor] = c
         /\ \A i \in 1..Len(s.cells) : i # t.cursor => t.cells[i] = s.cells[i]
         /\ Len(t.cells) = IF s.cursor < Len(s.cells) THEN Len(s.cells) ELSE t.cursor
<1>1. /\ s \in [cells : Seq(Texts), cursor : Nat, above : Seq(Seq(Texts))]
      /\ s.cells \in Seq(Texts) /\ s.cursor \in Nat /\ s.cursor <= Len(s.cells)
  BY DEF Screens
<1>2. c \in Texts /\ c # NL /\ c # KEY_BACKSPACE
  BY DEF Plain
<1>3. PICK x : x = SubSeq(s.cells, 1, s.cursor)
  OBVIOUS
<1>4. PICK y : y = SubSeq(s.cells, s.cursor + 2, Len(s.cells))
  OBVIOUS
<1>5. PICK n \in Nat : n = s.cursor
  BY <1>1
<1>6. PICK m \in Nat : m = Len(s.cells) /\ n <= m
  BY <1>1, <1>5
<1>7. x \in Seq(Texts) /\ Len(x) = n /\ \A i \in 1..n : x[i] = s.cells[i]
  BY <1>1, <1>3, <1>5, <1>6
<1>8. /\ y \in Seq(Texts) /\ Len(y) = IF n + 2 <= m THEN m - n - 1 ELSE 0
      /\ \A i \in 1..Len(y) : y[i] = s.cells[n + 1 + i]
  <2>1. PICK q \in Seq(Texts) : q = s.cells /\ Len(q) = m
    BY <1>1, <1>6
  <2>2. y = SubSeq(q, n + 2, m) /\ n + 2 \in 1..m + 2
    BY <1>4, <1>5, <1>6, <2>1
  <2>3. CASE n + 2 <= m
    <3>1. PICK k \in Nat : k = m - n - 1
      BY <2>3
    <3>2. y \in Seq(Texts) /\ Len(y) = k /\ \A i \in 1..k : y[i] = q[n + 2 + i - 1]
      BY <2>1, <2>2, <2>3, <3>1
    <3>3. \A i \in 1..k : n + 2 + i - 1 = n + 1 + i
      OBVIOUS
    <3> QED BY <2>1, <2>3, <3>1, <3>2, <3>3
  <2>4. CASE ~ (n + 2 <= m)
    <3>1. y = <<>>
      BY <2>1, <2>2, <2>4
    <3> QED BY <3>1, <2>4
  <2> QED BY <2>3, <2>4
<1>9. PICK z : z = x \o <<c>> \o y
  OBVIOUS
<1>10. /\ z \in Seq(Texts) /\ Len(z) = n + 1 + Len(y)
       /\ \A i \in 1..n : z[i] = x[i]
       /\ z[n + 1] = c
       /\ \A i \in 1..Len(y) : z[n + 1 + i] = y[i]
  <2>1. PICK w : w = x \o <<c>>
    OBVIOUS
  <2>2. /\ w \in Seq(Texts) /\ Len(w) = n + 1 /\ w[n + 1] = c
        /\ \A i \in 1..n : w[i] = x[i]
    BY <2>1, <1>2, <1>7
  <2>3. z = w \o y
    BY <2>1, <1>9
  <2>7. y \in Seq(Texts) /\ w \in Seq(Texts)
    BY <1>8, <2>2
  <2>4. z \in Seq(Texts) /\ Len(z) = Len(w) + Len(y)
    BY <2>3, <2>7
  <2>5. \A i \in 1..n + 1 : z[i] = w[i]
    BY <2>2, <2>3, <2>7
  <2>6. \A i \in 1..Len(y) : z[n + 1 + i] = y[i]
    BY <2>2, <2>3, <2>7
  <2> QED BY <2>2, <2>4, <2>5, <2>6
<1>11. PICK t : t = [s EXCEPT !.cells = z, !.cursor = n + 1]
  OBVIOUS
<1>12. Written(s, c) = t
  BY <1>2, <1>3, <1>4, <1>5, <1>9, <1>11 DEF Written
<1>13. /\ t \in [cells : Seq(Texts), cursor : Nat, above : Seq(Seq(Texts))]
       /\ t.cells = z /\ t.cursor = n + 1 /\ t.above = s.above
  <2>1. z \in Seq(Texts) /\ n + 1 \in Nat
    BY <1>10
  <2> QED BY <1>1, <1>11, <2>1
<1>14. t \in Screens
  BY <1>8, <1>10, <1>13 DEF Screens
<1>15. ASSUME NEW i \in 1..m, i # n + 1 PROVE z[i] = s.cells[i]
  <2>1. CASE i <= n
    BY <2>1, <1>7, <1>10
  <2>2. CASE i > n
    <3>1. PICK j \in Nat : j = i - n - 1
      BY <2>2, <1>15
    <3>2. j \in 1..Len(y) /\ i = n + 1 + j
      BY <3>1, <1>8, <1>15, <2>2
    <3> QED BY <3>2, <1>8, <1>10
  <2> QED BY <2>1, <2>2
<1>16. Len(z) = IF n < m THEN m ELSE n + 1
  <2>4. y \in Seq(Texts)
    BY <1>8
  <2>1. PICK k \in Nat : k = Len(y)
    BY <2>4
  <2>2. k = IF n + 2 <= m THEN m - n - 1 ELSE 0
    BY <1>8, <2>1
  <2>3. Len(z) = n + 1 + k
    BY <1>10, <2>1
  <2>5. CASE n + 2 <= m
    <3>1. k = m - n - 1 /\ n < m
      BY <2>2, <2>5
    <3> QED BY <3>1, <2>3
  <2>6. CASE ~ (n + 2 <= m)
    <3>1. k = 0
      BY <2>2, <2>6
    <3>2. Len(z) = n + 1
      BY <2>3, <3>1
    <3>3. n < m => m = n + 1
      BY <2>6, <1>6
    <3> QED BY <3>2, <3>3
  <2> QED BY <2>5, <2>6
<1> QED BY <1>5, <1>6, <1>10, <1>12, <1>13, <1>14, <1>15, <1>16

(* A plain character is appended to the row; the space behind it stays     *)
(* clean.                                                                  *)
LEMMA RowGrows ==
  ASSUME NEW s \in Screens, NEW c \in Plain
  PROVE  LET t == Written(s, c) IN
         /\ t \in Screens /\ t.above = s.above /\ Row(t) = Append(Row(s), c)
         /\ Clean(s) => Clean(t)
<1>1. PICK t \in Screens :
         /\ t = Written(s, c) /\ t.above = s.above
         /\ t.cursor = s.cursor + 1 /\ t.cells[t.cursor] = c
         /\ \A i \in 1..Len(s.cells) : i # t.cursor => t.cells[i] = s.cells[i]
         /\ Len(t.cells) = IF s.cursor < Len(s.cells) THEN Len(s.cells) ELSE t.cursor
  BY WrittenPlain
<1>2. /\ s.cells \in Seq(Texts) /\ s.cursor \in Nat /\ s.cursor <= Len(s.cells)
      /\ t.cells \in Seq(Texts)
  BY <1>1 DEF Screens
<1>3. PICK n \in Nat : n = s.cursor
  BY <1>2
<1>4. c \in Texts
  BY DEF Plain
<1>5. /\ Row(s) \in Seq(Texts) /\ Len(Row(s)) = n /\ \A i \in 1..n : Row(s)[i] = s.cells[i]
  BY <1>3, RowFacts
<1>6. /\ Row(t) \in Seq(Texts) /\ Len(Row(t)) = n + 1 /\ \A i \in 1..n + 1 : Row(t)[i] = t.cells[i]
  BY <1>1, <1>3, RowFacts
<1>7. PICK y : y = Append(Row(s), c)
  OBVIOUS
<1>8. y \in Seq(Texts) /\ Len(y) = n + 1 /\ y[n + 1] = c /\ \A i \in 1..n : y[i] = Row(s)[i]
  BY <1>4, <1>5, <1>7
<1>9. \A i \in 1..n : t.cells[i] = s.cells[i]
  BY <1>1, <1>2, <1>3
<1>10. \A i \in 1..n + 1 : Row(t)[i] = y[i]
  BY <1>1, <1>3, <1>5, <1>6, <1>8, <1>9
<1>11. Row(t) = y
  BY <1>6, <1>8, <1>10, SameSeq
<1>12. Clean(s) => Clean(t)
  BY <1>1, <1>2 DEF Clean
<1> QED BY <1>1, <1>7, <1>11, <1>12

(* Whatever is written, the terminal is one.                               *)
LEMMA WrittenScreen ==
  ASSUME NEW s \in Screens, NEW c \in Texts
  PROVE  Written(s, c) \in Screens
BY WrittenNewline, WrittenBackspace, WrittenPlain DEF Plain

(* A backspace, a space and a backspace wipe the last character out.       *)
LEMMA RuboutErases ==
  ASSUME NEW s \in Screens, Clean(s), s.cursor > 0
  PROVE  LET t == Settle(s, Rubout) IN
         t \in Screens /\ t.above = s.above /\ Row(t) = Front(Row(s)) /\ Clean(t)
<1>1. PICK a \in Screens : /\ a = Written(s, KEY_BACKSPACE)
                           /\ a.cells = s.cells /\ a.above = s.above /\ a.cursor = s.cursor - 1
  <2>1. s.cursor # 0
    BY DEF Screens
  <2> QED BY <2>1, WrittenBackspace
<1>2. 32 \in Plain
  BY DEF Plain, Texts, NL, KEY_BACKSPACE
<1>3. PICK b \in Screens :
         /\ b = Written(a, 32) /\ b.above = a.above
         /\ b.cursor = a.cursor + 1 /\ b.cells[b.cursor] = 32
         /\ \A i \in 1..Len(a.cells) : i # b.cursor => b.cells[i] = a.cells[i]
         /\ Len(b.cells) = IF a.cursor < Len(a.cells) THEN Len(a.cells) ELSE b.cursor
  BY <1>2, WrittenPlain
<1>4. PICK n \in Nat : n = s.cursor - 1
  BY DEF Screens
<1>5. s.cells \in Seq(Texts) /\ n + 1 = s.cursor /\ n + 1 <= Len(s.cells) /\ Len(s.cells) \in Nat
  BY <1>4 DEF Screens
<1>6. a.cursor = n /\ b.cursor = n + 1 /\ Len(b.cells) = Len(s.cells)
  BY <1>1, <1>3, <1>5
<1>7. PICK t \in Screens : /\ t = Written(b, KEY_BACKSPACE)
                           /\ t.cells = b.cells /\ t.above = b.above /\ t.cursor = n
  <2>1. b.cursor # 0 /\ b.cursor - 1 = n
    BY <1>4, <1>6
  <2> QED BY <2>1, WrittenBackspace
<1>8. Settle(s, Rubout) = t
  <2>1. PICK x : x = <<KEY_BACKSPACE>>
    OBVIOUS
  <2>2. PICK y : y = <<32>>
    OBVIOUS
  <2>3. x \in Seq(Texts) /\ y \in Seq(Texts)
    BY <2>1, <2>2 DEF Texts, KEY_BACKSPACE
  <2>11. x \o y \in Seq(Texts)
    BY <2>3
  <2>4. PICK z \in Seq(Texts) : z = x \o y
    BY <2>11
  <2>10. Rubout = z \o x
    BY <2>1, <2>2, <2>4 DEF Rubout
  <2>5. Settle(s, Rubout) = Settle(Settle(s, z), x)
    BY <2>3, <2>10, SettleJoin
  <2>6. Settle(s, x \o y) = Settle(Settle(s, x), y)
    BY <2>3, SettleJoin
  <2>7. Settle(s, x) = a
    BY <2>1, <1>1, SettleFew
  <2>8. Settle(a, y) = b
    BY <2>2, <1>3, SettleFew
  <2>9. Settle(b, x) = t
    BY <2>1, <1>7, SettleFew
  <2> QED BY <2>4, <2>5, <2>6, <2>7, <2>8, <2>9
<1>9. ASSUME NEW i \in 1..n PROVE t.cells[i] = s.cells[i]
  <2>1. i \in 1..Len(a.cells) /\ i # b.cursor
    BY <1>1, <1>5, <1>6
  <2> QED BY <2>1, <1>1, <1>3, <1>7
<1>10. Clean(t)
  <2>1. ASSUME NEW i \in n + 1..Len(t.cells) PROVE t.cells[i] = 32
    <3>1. CASE i = n + 1
      BY <3>1, <1>3, <1>6, <1>7
    <3>2. CASE i # n + 1
      <4>1. i \in 1..Len(s.cells) /\ i \in s.cursor + 1..Len(s.cells)
        BY <2>1, <3>2, <1>5, <1>6, <1>7
      <4>2. t.cells[i] = s.cells[i]
        BY <4>1, <3>2, <1>1, <1>3, <1>6, <1>7
      <4> QED BY <4>1, <4>2 DEF Clean
    <3> QED BY <3>1, <3>2
  <2> QED BY <2>1, <1>7 DEF Clean
<1>11. Row(t) = Front(Row(s))
  <2>1. PICK x \in Seq(Texts) : x = Row(s) /\ Len(x) = n + 1 /\ \A i \in 1..n + 1 : x[i] = s.cells[i]
    BY <1>5, RowFacts
  <2>2. PICK y \in Seq(Texts) : y = Row(t) /\ Len(y) = n /\ \A i \in 1..n : y[i] = t.cells[i]
    BY <1>7, RowFacts
  <2>3. PICK z : z = SubSeq(x, 1, n)
    OBVIOUS
  <2>4. z \in Seq(Texts) /\ Len(z) = n /\ \A i \in 1..n : z[i] = x[i]
    BY <2>1, <2>3
  <2>5. \A i \in 1..n : y[i] = z[i]
    BY <1>9, <2>1, <2>2, <2>4
  <2>6. y = z
    BY <2>2, <2>4, <2>5, SameSeq
  <2>7. Front(x) = z
    <3>1. Len(x) - 1 = n
      BY <2>1
    <3> QED BY <3>1, <2>3 DEF Front
  <2> QED BY <2>1, <2>2, <2>6, <2>7
<1> QED BY <1>1, <1>3, <1>7, <1>8, <1>10, <1>11

(* A line of plain characters is appended to the row.                      *)
LEMMA LineSettles ==
  ASSUME NEW s \in Screens, Clean(s), NEW x \in Seq(Plain)
  PROVE  LET t == Settle(s, x) IN
         t \in Screens /\ t.above = s.above /\ Row(t) = Row(s) \o x /\ Clean(t)
<1>1. PICK f : Writing(s, x, f) /\ Settle(s, x) = f[Len(x)]
  BY SettleIsWriting
<1>2. PICK n \in Nat : n = s.cursor
  BY DEF Screens
<1>3. PICK m \in Nat : m = Len(x)
  OBVIOUS
<1>4. PICK r \in Seq(Texts) : r = Row(s) /\ Len(r) = n
  BY <1>2, RowFacts
<1> DEFINE Shows(t, i) == /\ t \in Screens /\ t.above = s.above /\ Clean(t)
                          /\ Len(Row(t)) = n + i
                          /\ \A k \in 1..n : Row(t)[k] = r[k]
                          /\ \A k \in 1..i : Row(t)[n + k] = x[k]
<1> DEFINE G == {i \in 0..m : Shows(f[i], i)}
<1>5. 0 \in G
  <2>1. f[0] = s
    BY <1>1 DEF Writing
  <2> QED BY <2>1, <1>4
<1>6. ASSUME NEW i \in 0..m - 1, i \in G PROVE i + 1 \in G
  <2>1. PICK j \in 1..m : j = i + 1
    OBVIOUS
  <2>2. j \in 0..Len(x) /\ j # 0 /\ j - 1 = i
    BY <2>1, <1>3
  <2>3. f[j] = Written(f[i], x[j])
    BY <2>2, <1>1 DEF Writing
  <2>4. x[j] \in Plain /\ x[j] \in Texts
    BY <1>3 DEF Plain
  <2>5. PICK a \in Screens : a = f[i] /\ Shows(a, i)
    BY <1>6
  <2>6. PICK b \in Screens : b = f[j] /\ b.above = a.above /\ Row(b) = Append(Row(a), x[j]) /\ Clean(b)
    BY <2>3, <2>4, <2>5, RowGrows
  <2>7. PICK y \in Seq(Texts) : y = Row(a) /\ Len(y) = n + i
    BY <2>5, RowFacts
  <2>8. PICK z : z = Append(y, x[j])
    OBVIOUS
  <2>9. Len(z) = n + j /\ z[n + j] = x[j] /\ \A k \in 1..n + i : z[k] = y[k]
    BY <2>1, <2>4, <2>7, <2>8
  <2>10. \A k \in 1..n : z[k] = r[k]
    BY <2>5, <2>7, <2>9
  <2>11. ASSUME NEW k \in 1..j PROVE z[n + k] = x[k]
    <3>1. CASE k = j
      BY <3>1, <2>9
    <3>2. CASE k # j
      <4>1. k \in 1..i /\ n + k \in 1..n + i
        BY <3>2, <2>1
      <4> QED BY <4>1, <2>5, <2>7, <2>9
    <3> QED BY <3>1, <3>2
  <2>12. Shows(b, j)
    BY <2>5, <2>6, <2>7, <2>8, <2>9, <2>10, <2>11
  <2>13. j \in 0..m
    BY <2>1
  <2> QED BY <2>1, <2>6, <2>12, <2>13
<1>7. m \in G
  <2> HIDE DEF G
  <2> QED BY <1>5, <1>6, UpTo
<1>8. PICK t \in Screens : t = Settle(s, x) /\ Shows(t, m)
  BY <1>1, <1>3, <1>7
<1>9. PICK y \in Seq(Texts) : y = Row(t) /\ Len(y) = n + m
  BY <1>8, RowFacts
<1>10. x \in Seq(Texts)
  BY DEF Plain
<1>11. PICK z : z = r \o x
  OBVIOUS
<1>12. /\ z \in Seq(Texts) /\ Len(z) = n + m
       /\ \A k \in 1..n : z[k] = r[k]
       /\ \A k \in 1..m : z[n + k] = x[k]
  <2>1. PICK u \in Seq(Texts) : u = x
    BY <1>10
  <2>2. PICK w : w = r \o u
    OBVIOUS
  <2>3. m = Len(u) /\ n = Len(r)
    BY <2>1, <1>3, <1>4
  <2>4. /\ w \in Seq(Texts) /\ Len(w) = n + m
        /\ \A k \in 1..n : w[k] = r[k]
        /\ \A k \in 1..m : w[n + k] = u[k]
    BY <2>2, <2>3, JoinFacts DEF Joined
  <2> QED BY <2>1, <2>2, <2>4, <1>11
<1>13. ASSUME NEW k \in 1..n + m PROVE y[k] = z[k]
  <2>1. CASE k <= n
    BY <2>1, <1>8, <1>9, <1>12
  <2>2. CASE k > n
    <3>1. PICK i \in 1..m : k = n + i
      <4>1. k - n \in 1..m /\ k = n + (k - n)
        BY <2>2
      <4> QED BY <4>1
    <3> QED BY <3>1, <1>8, <1>9, <1>12
  <2> QED BY <2>1, <2>2
<1>14. y = z
  BY <1>9, <1>12, <1>13, SameSeq
<1> QED BY <1>4, <1>8, <1>9, <1>11, <1>14

(* From an empty row, text leaves the rows above and an empty row again.   *)
Fresh(s) == s \in Screens /\ Row(s) = <<>> /\ Clean(s)
Says(text, rows) ==
  \A s \in Screens : Fresh(s) =>
    Fresh(Settle(s, text)) /\ Settle(s, text).above = s.above \o rows

LEMMA SaysNothing == Says(<<>>, <<>>)
<1>1. ASSUME NEW s \in Screens PROVE s.above \o <<>> = s.above
  BY DEF Screens
<1> QED BY <1>1, SettleFew DEF Says

LEMMA LineSaid ==
  ASSUME NEW s \in Screens, Clean(s), NEW x \in Seq(Plain)
  PROVE  LET t == Settle(s, x \o <<NL>>) IN
         Fresh(t) /\ t.above = Append(s.above, Row(s) \o x)
<1>1. PICK y : y = <<NL>>
  OBVIOUS
<1>2. x \in Seq(Texts) /\ y \in Seq(Texts)
  BY <1>1 DEF Plain, Texts, NL
<1>3. Settle(s, x \o y) = Settle(Settle(s, x), y)
  BY <1>2, SettleJoin
<1>4. PICK t \in Screens : t = Settle(s, x) /\ t.above = s.above /\ Row(t) = Row(s) \o x
  BY LineSettles
<1>5. Settle(t, y) = Written(t, NL)
  BY <1>1, SettleFew
<1> QED BY <1>1, <1>3, <1>4, <1>5, WrittenNewline DEF Fresh

LEMMA SaysLine ==
  ASSUME NEW x \in Seq(Plain)
  PROVE  Says(x \o <<NL>>, <<x>>)
<1>1. ASSUME NEW s \in Screens, Fresh(s)
      PROVE  Fresh(Settle(s, x \o <<NL>>)) /\ Settle(s, x \o <<NL>>).above = s.above \o <<x>>
  <2>1. Clean(s) /\ Row(s) = <<>>
    BY <1>1 DEF Fresh
  <2>2. x \in Seq(Texts) /\ Row(s) \o x = x
    BY <2>1 DEF Plain
  <2>3. Append(s.above, x) = s.above \o <<x>>
    BY <2>2 DEF Screens
  <2> QED BY <2>1, <2>2, <2>3, LineSaid
<1> QED BY <1>1 DEF Says

LEMMA SaysBoth ==
  ASSUME NEW x \in Seq(Texts), NEW y \in Seq(Texts),
         NEW q \in Seq(Seq(Texts)), NEW r \in Seq(Seq(Texts)), Says(x, q), Says(y, r)
  PROVE  Says(x \o y, q \o r)
<1>1. ASSUME NEW s \in Screens, Fresh(s)
      PROVE  Fresh(Settle(s, x \o y)) /\ Settle(s, x \o y).above = s.above \o (q \o r)
  <2>1. PICK t \in Screens : t = Settle(s, x) /\ Fresh(t) /\ t.above = s.above \o q
    BY <1>1 DEF Says, Fresh
  <2>2. PICK u : u = Settle(t, y) /\ Fresh(u) /\ u.above = t.above \o r
    BY <2>1 DEF Says
  <2>3. Settle(s, x \o y) = u
    BY <2>1, <2>2, SettleJoin
  <2>4. PICK a \in Seq(Seq(Texts)) : a = s.above
    BY DEF Screens
  <2>5. (a \o q) \o r = a \o (q \o r)
    OBVIOUS
  <2> QED BY <2>1, <2>2, <2>3, <2>4, <2>5
<1> QED BY <1>1 DEF Says

----------------------------------------------------------------------------
(* Strings and answers.                                                    *)

(* A nonempty set of numbers has a least one: where the loops over strings *)
(* stop.                                                                   *)
LEMMA LeastElement ==
  ASSUME NEW S, S \subseteq Nat, S # {}
  PROVE  \E n \in S : \A m \in S : n <= m
<1>1. PICK n \in S : \A m \in S : ~ (<<m, n>> \in OpToRel(<, Nat))
  BY WFMin, NatLessThanWellFounded
<1>2. \A m \in S : ~ (m < n)
  BY <1>1 DEF OpToRel
<1> QED BY <1>2

Names == Seq(1..255)

(* A string and its terminator.                                            *)
LEMMA Appended ==
  ASSUME NEW a \in Names, NEW n \in Nat, n = Len(a)
  PROVE  LET x == Append(a, NUL) IN
         Len(x) = n + 1 /\ x[n + 1] = 0 /\ \A j \in 1..n : x[j] = a[j] /\ a[j] # 0
<1>1. a \in Seq(1..255) /\ \A j \in 1..n : a[j] \in 1..255
  BY DEF Names
<1>2. PICK x : x = Append(a, 0)
  OBVIOUS
<1>3. Len(x) = n + 1 /\ x[n + 1] = 0 /\ \A j \in 1..n : x[j] = a[j]
  <2>1. PICK C : C = 1..255
    OBVIOUS
  <2>2. a \in Seq(C) /\ C \subseteq Int
    BY <1>1, <2>1
  <2>3. a \in Seq(Int)
    BY <2>2, SeqMono
  <2> QED BY <2>3, <1>2
<1>4. ASSUME NEW j \in 1..n PROVE a[j] # 0
  <2>1. PICK c : c = a[j]
    OBVIOUS
  <2>2. c \in 1..255
    BY <1>1, <2>1
  <2>3. c # 0
    BY <2>2
  <2> QED BY <2>1, <2>3
<1> QED BY <1>2, <1>3, <1>4 DEF NUL

(* strcmp of strings without a NUL inside.                                 *)
LEMMA StrEqIsEquality ==
  ASSUME NEW a \in Names, NEW b \in Names
  PROVE  StrEq(a, b) <=> a = b
<1> DEFINE x == Append(a, NUL)
<1> DEFINE y == Append(b, NUL)
<1> DEFINE stops == {i \in 1..Len(x) : x[i] = NUL \/ i > Len(y) \/ x[i] # y[i]}
<1> DEFINE i == CHOOSE k \in stops : \A j \in stops : k <= j
<1>0. StrEq(a, b) <=> i <= Len(y) /\ x[i] = y[i]
  BY DEF StrEq
<1>1. PICK n \in Nat : n = Len(a)
  BY DEF Names
<1>2. PICK m \in Nat : m = Len(b)
  BY DEF Names
<1>3. Len(x) = n + 1 /\ x[n + 1] = 0 /\ \A j \in 1..n : x[j] = a[j] /\ a[j] # 0
  BY <1>1, Appended
<1>4. Len(y) = m + 1 /\ y[m + 1] = 0 /\ \A j \in 1..m : y[j] = b[j] /\ b[j] # 0
  BY <1>2, Appended
<1>5. /\ stops \subseteq Nat /\ n + 1 \in stops
      /\ \A j \in stops : j \in 1..n + 1 /\ (x[j] = 0 \/ j > m + 1 \/ x[j] # y[j])
      /\ \A j \in 1..n + 1 : j \notin stops => j <= m + 1 /\ x[j] = y[j]
  BY <1>3, <1>4 DEF NUL
<1> HIDE DEF x, y, stops
<1>6. i \in stops /\ \A j \in stops : i <= j
  <2>1. \E k \in stops : \A j \in stops : k <= j
    BY <1>5, LeastElement
  <2> QED BY <2>1
<1> HIDE DEF i
<1>7. ASSUME a = b PROVE StrEq(a, b)
  BY <1>0, <1>3, <1>4, <1>5, <1>6, <1>7 DEF x, y
<1>8. ASSUME StrEq(a, b) PROVE a = b
  <2>1. i \in 1..n + 1 /\ x[i] = 0 /\ i <= m + 1 /\ y[i] = 0
    BY <1>0, <1>4, <1>5, <1>6, <1>8
  <2>2. i = n + 1 /\ i = m + 1
    BY <2>1, <1>3, <1>4
  <2>3. ASSUME NEW j \in 1..n PROVE a[j] = b[j]
    <3>1. j \notin stops
      BY <2>2, <1>5, <1>6
    <3>2. x[j] = y[j]
      BY <3>1, <1>5
    <3> QED BY <3>2, <2>2, <1>3, <1>4
  <2> QED BY <1>1, <1>2, <2>2, <2>3, SameSeq DEF Names
<1> QED BY <1>7, <1>8

(* readline's line is what it has stored, whatever else is in the array.   *)
LEMMA LineIsStored ==
  ASSUME NEW b \in [0..SIZE - 1 -> Bytes], NEW n \in 0..SIZE - 1, \A i \in 0..n - 1 : b[i] # NUL
  PROVE  /\ Terminated(b, n) \in [0..SIZE - 1 -> Bytes]
         /\ CString(Terminated(b, n)) = [i \in 1..n |-> b[i - 1]]
<1>0. PICK size \in Nat : size = SIZE /\ n \in 0..size - 1
  BY ConsoleAssumption
<1>1. PICK c : c = Terminated(b, n)
  OBVIOUS
<1>2. c \in [0..size - 1 -> Bytes] /\ c[n] = NUL /\ \A i \in 0..n - 1 : c[i] = b[i]
  BY <1>0, <1>1 DEF Terminated, NUL, Bytes
<1> DEFINE ends == {i \in 0..SIZE : i = SIZE \/ c[i] = NUL}
<1> DEFINE end == CHOOSE i \in ends : \A j \in ends : i <= j
<1>3. /\ ends \subseteq Nat /\ n \in ends /\ n \in Nat
      /\ \A i \in ends : i >= n
  <2>1. ASSUME NEW i \in ends PROVE i >= n
    <3>1. SUFFICES ASSUME i < n PROVE FALSE
      BY <1>0
    <3>2. i \in 0..n - 1 /\ i # SIZE
      BY <3>1, <1>0
    <3> QED BY <3>2, <1>2
  <2> QED BY <2>1, <1>0, <1>2
<1> HIDE DEF ends
<1>4. end = n
  <2>1. end \in ends /\ \A j \in ends : end <= j
    BY <1>3
  <2> HIDE DEF end
  <2> QED BY <2>1, <1>3
<1>5. CString(c) = [i \in 1..end |-> c[i - 1]]
  BY DEF CString, ends
<1> HIDE DEF end
<1>6. \A i \in 1..n : c[i - 1] = b[i - 1]
  <2>1. \A i \in 1..n : i - 1 \in 0..n - 1
    OBVIOUS
  <2> QED BY <2>1, <1>2
<1>7. CString(c) = [i \in 1..n |-> b[i - 1]]
  BY <1>4, <1>5, <1>6
<1> QED BY <1>0, <1>1, <1>2, <1>7

LEMMA FlattenFour ==
  ASSUME NEW s, s = [i \in 1..4 |-> s[i]], Len(s) = 4
  PROVE  FlattenSeq(s) = ((s[1] \o s[2]) \o s[3]) \o s[4]
<1> DEFINE flatten[i \in 1..Len(s)] == IF i = 1 THEN s[i] ELSE flatten[i - 1] \o s[i]
<1>1. FlattenSeq(s) = flatten[Len(s)]
  BY DEF FlattenSeq
<1>9. PICK b, c, d : b = s[1] \o s[2] /\ c = b \o s[3] /\ d = c \o s[4]
  OBVIOUS
<1>10. PICK a : a = s[1]
  OBVIOUS
<1>2. PICK g : g = [i \in 1..4 |-> IF i = 1 THEN a ELSE IF i = 2 THEN b ELSE IF i = 3 THEN c ELSE d]
  OBVIOUS
<1>3. g[1] = s[1] /\ g[2] = s[1] \o s[2] /\ g[3] = g[2] \o s[3] /\ g[4] = g[3] \o s[4]
  <2>1. g[1] = a /\ g[2] = b /\ g[3] = c /\ g[4] = d
    BY <1>2
  <2> QED BY <2>1, <1>9, <1>10
<1>4. \A i \in 1..4 : g[i] = IF i = 1 THEN s[i] ELSE g[i - 1] \o s[i]
  <2>1. \A i \in 1..4 : i = 1 \/ (i = 2 /\ i - 1 = 1) \/ (i = 3 /\ i - 1 = 2) \/ (i = 4 /\ i - 1 = 3)
    OBVIOUS
  <2> QED BY <2>1, <1>3
<1>5. g = [i \in 1..Len(s) |-> IF i = 1 THEN s[i] ELSE g[i - 1] \o s[i]]
  <2>1. g = [i \in 1..4 |-> g[i]]
    BY <1>2
  <2>2. g = [i \in 1..4 |-> IF i = 1 THEN s[i] ELSE g[i - 1] \o s[i]]
    BY <2>1, <1>4, Zenon
  <2> QED BY <2>2
<1>6. flatten = [i \in 1..Len(s) |-> IF i = 1 THEN s[i] ELSE flatten[i - 1] \o s[i]]
  BY <1>5
<1>7. ASSUME NEW i \in 1..4
      PROVE  flatten[i] = IF i = 1 THEN s[i] ELSE flatten[i - 1] \o s[i]
  <2> HIDE DEF flatten
  <2> QED BY <1>6
<1> HIDE DEF flatten
<1>8. flatten[1] = s[1] /\ flatten[2] = flatten[1] \o s[2]
      /\ flatten[3] = flatten[2] \o s[3] /\ flatten[4] = flatten[3] \o s[4]
  BY <1>7
<1> QED BY <1>1, <1>8

LEMMA OneRow ==
  ASSUME NEW c \in Plain
  PROVE  /\ <<c, NL>> \in Seq(Texts) /\ << <<c>> >> \in Seq(Seq(Texts))
         /\ Says(<<c, NL>>, << <<c>> >>)
<1>1. PICK x : x = <<c>>
  OBVIOUS
<1>2. c \in Texts /\ NL \in Texts
  BY DEF Plain, Texts, NL
<1>3. x \in Seq(Plain) /\ x \in Seq(Texts) /\ <<NL>> \in Seq(Texts)
  BY <1>1, <1>2
<1>4. PICK y \in Seq(Texts) : y = x \o <<NL>> /\ Len(y) = 2 /\ y[1] = c /\ y[2] = NL
  <2>1. PICK y : y = x \o <<NL>>
    OBVIOUS
  <2>2. y \in Seq(Texts) /\ Len(y) = 2 /\ y[1] = x[1] /\ y[2] = NL
    BY <2>1, <1>1, <1>2
  <2> QED BY <2>1, <2>2, <1>1
<1>5. PICK z : z = <<c, NL>>
  OBVIOUS
<1>10. z \in Seq(Texts) /\ Len(z) = 2 /\ z[1] = c /\ z[2] = NL
  BY <1>2, <1>5
<1>6. \A i \in 1..Len(y) : y[i] = z[i]
  <2>1. \A i \in 1..2 : i = 1 \/ i = 2
    OBVIOUS
  <2> QED BY <2>1, <1>4, <1>10
<1>7. y = z
  BY <1>4, <1>10, <1>6, SameSeq
<1>8. Says(y, <<x>>)
  BY <1>3, <1>4, SaysLine
<1>9. <<x>> \in Seq(Seq(Texts))
  BY <1>3
<1> QED BY <1>1, <1>4, <1>5, <1>7, <1>8, <1>9

Adds(x, q) == x \in Seq(Texts) /\ q \in Seq(Seq(Texts)) /\ Says(x, q)

LEMMA AddRow ==
  ASSUME NEW x, NEW y, NEW q, NEW r, Adds(x, q), Adds(y, r)
  PROVE  Adds(x \o y, q \o r) /\ Joined(q \o r, q, r)
<1>1. PICK C : C = Seq(Texts)
  OBVIOUS
<1>2. q \in Seq(C) /\ r \in Seq(C)
  BY <1>1 DEF Adds
<1>3. q \o r \in Seq(C) /\ Joined(q \o r, q, r)
  BY <1>2, JoinFacts
<1>4. x \o y \in Seq(Texts)
  BY DEF Adds
<1>5. Says(x \o y, q \o r)
  BY SaysBoth DEF Adds
<1> QED BY <1>1, <1>3, <1>4, <1>5 DEF Adds

LEMMA HelpText ==
  LET rows == [i \in 1..4 |-> <<HELP_TEXT[i]>>]
      text == FlattenSeq([i \in 1..4 |-> <<HELP_TEXT[i], NL>>])
  IN  rows \in Seq(Seq(Texts)) /\ text \in Seq(Texts) /\ Says(text, rows)
<1>1. PICK s : s = [i \in 1..4 |-> <<HELP_TEXT[i], NL>>]
  OBVIOUS
<1>2. PICK q : q = [i \in 1..4 |-> << <<HELP_TEXT[i]>> >>]
  OBVIOUS
<1>3. ASSUME NEW i \in 1..4
      PROVE  Adds(s[i], q[i]) /\ Len(q[i]) = 1 /\ q[i][1] = <<HELP_TEXT[i]>>
  <2>1. HELP_TEXT[i] \in Plain
    BY DEF HELP_TEXT, Plain, Texts, NL, KEY_BACKSPACE
  <2>2. PICK c \in Plain : c = HELP_TEXT[i]
    BY <2>1
  <2>3. s[i] = <<c, NL>> /\ q[i] = << <<c>> >>
    BY <1>1, <1>2, <2>2
  <2>4. Len(<< <<c>> >>) = 1 /\ << <<c>> >>[1] = <<c>>
    OBVIOUS
  <2> QED BY <2>2, <2>3, <2>4, OneRow DEF Adds
<1>4. FlattenSeq(s) = ((s[1] \o s[2]) \o s[3]) \o s[4]
  <2>1. s = [i \in 1..4 |-> s[i]] /\ Len(s) = 4
    BY <1>1
  <2> QED BY <2>1, FlattenFour
<1>5. PICK a, x : a = s[1] \o s[2] /\ x = q[1] \o q[2]
  OBVIOUS
<1>6. Adds(a, x) /\ Len(x) = 2 /\ x[2] = q[2][1] /\ x[1] = q[1][1]
  <2>1. Adds(a, x) /\ Joined(x, q[1], q[2])
    BY <1>3, <1>5, AddRow
  <2>2. Len(q[1]) = 1 /\ Len(q[2]) = 1
    BY <1>3
  <2>3. Len(x) = 1 + 1 /\ (\A i \in 1..1 : x[i] = q[1][i]) /\ \A i \in 1..1 : x[1 + i] = q[2][i]
    BY <2>1, <2>2 DEF Joined
  <2>4. 1 + 1 = 2 /\ 1 \in 1..1 /\ 1 \in 1..1
    OBVIOUS
  <2> QED BY <2>1, <2>3, <2>4
<1>7. PICK b, y : b = a \o s[3] /\ y = x \o q[3]
  OBVIOUS
<1>8. Adds(b, y) /\ Len(y) = 3 /\ y[3] = q[3][1] /\ y[2] = x[2] /\ y[1] = x[1]
  <2>1. Adds(b, y) /\ Joined(y, x, q[3])
    BY <1>3, <1>6, <1>7, AddRow
  <2>2. Len(x) = 2 /\ Len(q[3]) = 1
    BY <1>3, <1>6
  <2>3. Len(y) = 2 + 1 /\ (\A i \in 1..2 : y[i] = x[i]) /\ \A i \in 1..1 : y[2 + i] = q[3][i]
    BY <2>1, <2>2 DEF Joined
  <2>4. 2 + 1 = 3 /\ 1 \in 1..1 /\ 1 \in 1..2 /\ 2 \in 1..2
    OBVIOUS
  <2> QED BY <2>1, <2>3, <2>4
<1>9. PICK c, z : c = b \o s[4] /\ z = y \o q[4]
  OBVIOUS
<1>10. Adds(c, z) /\ Len(z) = 4 /\ z[4] = q[4][1] /\ z[3] = y[3] /\ z[2] = y[2] /\ z[1] = y[1]
  <2>1. Adds(c, z) /\ Joined(z, y, q[4])
    BY <1>3, <1>8, <1>9, AddRow
  <2>2. Len(y) = 3 /\ Len(q[4]) = 1
    BY <1>3, <1>8
  <2>3. Len(z) = 3 + 1 /\ (\A i \in 1..3 : z[i] = y[i]) /\ \A i \in 1..1 : z[3 + i] = q[4][i]
    BY <2>1, <2>2 DEF Joined
  <2>4. 3 + 1 = 4 /\ 1 \in 1..1 /\ 1 \in 1..3 /\ 2 \in 1..3 /\ 3 \in 1..3
    OBVIOUS
  <2> QED BY <2>1, <2>3, <2>4
<1>11. /\ z[1] = <<HELP_TEXT[1]>> /\ z[2] = <<HELP_TEXT[2]>>
       /\ z[3] = <<HELP_TEXT[3]>> /\ z[4] = <<HELP_TEXT[4]>>
  <2>1. z[4] = q[4][1] /\ z[3] = q[3][1] /\ z[2] = q[2][1] /\ z[1] = q[1][1]
    BY <1>6, <1>8, <1>10
  <2>2. 1 \in 1..4 /\ 2 \in 1..4 /\ 3 \in 1..4 /\ 4 \in 1..4
    OBVIOUS
  <2> QED BY <2>1, <2>2, <1>3
<1>12. z = [i \in 1..4 |-> <<HELP_TEXT[i]>>]
  <2>1. PICK C : C = Seq(Texts)
    OBVIOUS
  <2>2. z \in Seq(C) /\ Len(z) = 4
    BY <2>1, <1>10 DEF Adds
  <2>3. z = [i \in 1..4 |-> z[i]]
    BY <2>2
  <2>4. ASSUME NEW i \in 1..4 PROVE z[i] = <<HELP_TEXT[i]>>
    <3>1. i = 1 \/ i = 2 \/ i = 3 \/ i = 4
      OBVIOUS
    <3> QED BY <3>1, <1>11
  <2> QED BY <2>3, <2>4, Zenon
<1>13. FlattenSeq(s) = c
  BY <1>4, <1>5, <1>7, <1>9
<1> QED BY <1>1, <1>10, <1>12, <1>13 DEF Adds

(* The lines that readline makes, and what the commands answer to them.    *)
Lines == Seq(Keys \cap Printable)

LEMMA LineKinds ==
  ASSUME NEW x \in Lines
  PROVE  x \in Names /\ x \in Seq(Plain) /\ x \in Seq(Texts)
<1>1. PICK C : C = Keys \cap Printable
  OBVIOUS
<1>2. C \subseteq Plain /\ C \subseteq Texts
  BY <1>1 DEF Printable, Plain, Texts, NL, KEY_BACKSPACE
<1>3. PICK D : D = 1..255
  OBVIOUS
<1>4. C \subseteq D
  BY <1>1, <1>3 DEF Printable
<1>5. x \in Seq(C)
  BY <1>1 DEF Lines
<1>6. x \in Seq(D) /\ x \in Seq(Plain) /\ x \in Seq(Texts)
  BY <1>2, <1>4, <1>5, SeqMono
<1> QED BY <1>3, <1>6 DEF Names

LEMMA AnswerSays ==
  ASSUME NEW line \in Lines
  PROVE  /\ Answer(line) \in Seq(Texts)
         /\ Promised!Reply(line) \in Seq(Seq(Texts))
         /\ Says(Answer(line), Promised!Reply(line))
         /\ StrEq(line, EXIT) <=> line = EXIT
<1>1. line \in Names /\ line \in Seq(Plain) /\ line \in Seq(Texts)
  BY LineKinds
<1>2. /\ HELP \in Names /\ HELLO \in Names /\ PID \in Names /\ EXIT \in Names
      /\ HELP # <<>> /\ HELLO # <<>> /\ PID # <<>> /\ EXIT # <<>>
      /\ HELP \notin {HELLO, PID, EXIT} /\ HELLO \notin {PID, EXIT} /\ PID # EXIT
  BY ConsoleAssumption DEF Names
<1>3. /\ StrEq(line, HELP) <=> line = HELP
      /\ StrEq(line, HELLO) <=> line = HELLO
      /\ StrEq(line, PID) <=> line = PID
      /\ StrEq(line, EXIT) <=> line = EXIT
  BY <1>1, <1>2, StrEqIsEquality
<1>5. GREETING \in Plain /\ PID_TEXT \in Plain /\ BYE \in Plain /\ UNKNOWN \in Plain
  BY DEF GREETING, PID_TEXT, BYE, UNKNOWN, Plain, Texts, NL, KEY_BACKSPACE
<1>6. CASE line = <<>>
  <2>1. Answer(line) = <<>> /\ Promised!Reply(line) = <<>>
    BY <1>2, <1>3, <1>6 DEF Answer, Promised!Reply
  <2> QED BY <2>1, <1>3, SaysNothing
<1>7. CASE line = HELP
  <2>1. /\ Answer(line) = FlattenSeq([i \in 1..4 |-> <<HELP_TEXT[i], NL>>])
        /\ Promised!Reply(line) = [i \in 1..4 |-> <<HELP_TEXT[i]>>]
    BY <1>2, <1>3, <1>7 DEF Answer, Promised!Reply
  <2> QED BY <2>1, <1>3, HelpText
<1>8. CASE line = HELLO
  <2>1. Answer(line) = <<GREETING, NL>> /\ Promised!Reply(line) = << <<GREETING>> >>
    BY <1>2, <1>3, <1>8 DEF Answer, Promised!Reply
  <2> QED BY <2>1, <1>3, <1>5, OneRow
<1>9. CASE line = PID
  <2>1. Answer(line) = <<PID_TEXT, NL>> /\ Promised!Reply(line) = << <<PID_TEXT>> >>
    BY <1>2, <1>3, <1>9 DEF Answer, Promised!Reply
  <2> QED BY <2>1, <1>3, <1>5, OneRow
<1>10. CASE line = EXIT
  <2>1. Answer(line) = <<BYE, NL>> /\ Promised!Reply(line) = << <<BYE>> >>
    BY <1>2, <1>3, <1>10 DEF Answer, Promised!Reply
  <2> QED BY <2>1, <1>3, <1>5, OneRow
<1>11. CASE line \notin {<<>>, HELP, HELLO, PID, EXIT}
  <2>1. Answer(line) = <<UNKNOWN>> \o line \o <<NL>> /\ Promised!Reply(line) = << <<UNKNOWN>> \o line >>
    BY <1>3, <1>11 DEF Answer, Promised!Reply
  <2>2. PICK y : y = <<UNKNOWN>> \o line
    OBVIOUS
  <2>3. y \in Seq(Plain) /\ y \in Seq(Texts)
    BY <2>2, <1>1, <1>5, SeqMono DEF Plain
  <2>4. Says(y \o <<NL>>, <<y>>)
    BY <2>3, SaysLine
  <2>5. y \o <<NL>> \in Seq(Texts) /\ <<y>> \in Seq(Seq(Texts))
    BY <2>3 DEF Texts, NL
  <2> QED BY <2>1, <2>2, <2>4, <2>5, <1>3
<1> QED BY <1>6, <1>7, <1>8, <1>9, <1>10, <1>11

----------------------------------------------------------------------------
(* The terminal when everything has been written.                          *)

LEMMA SettleScreen ==
  ASSUME NEW s \in Screens, NEW text \in Seq(Texts)
  PROVE  Settle(s, text) \in Screens
<1>1. PICK f : Writing(s, text, f) /\ Settle(s, text) = f[Len(text)]
  BY SettleIsWriting
<1>2. PICK n \in Nat : n = Len(text)
  OBVIOUS
<1> DEFINE G == {i \in 0..n : f[i] \in Screens}
<1>3. 0 \in G
  BY <1>1 DEF Writing
<1>4. ASSUME NEW i \in 0..n - 1, i \in G PROVE i + 1 \in G
  <2>1. PICK j \in 1..n : j = i + 1
    OBVIOUS
  <2>2. j \in 0..Len(text) /\ j # 0 /\ j - 1 = i /\ text[j] \in Texts
    BY <2>1, <1>2
  <2>3. f[j] = Written(f[i], text[j])
    BY <2>2, <1>1 DEF Writing
  <2> QED BY <1>4, <2>1, <2>2, <2>3, WrittenScreen
<1>5. n \in G
  <2> HIDE DEF G
  <2> QED BY <1>3, <1>4, UpTo
<1> QED BY <1>1, <1>2, <1>5

(* Writing the next character is no change.                                *)
LEMMA SettleHead ==
  ASSUME NEW s, NEW text \in Seq(Texts), text # <<>>
  PROVE  Settle(Written(s, Head(text)), Tail(text)) = Settle(s, text)
<1>1. PICK x : x = <<Head(text)>>
  OBVIOUS
<1>2. PICK y : y = Tail(text)
  OBVIOUS
<1>3. PICK n \in Nat : Len(text) = n + 1
  <2>1. Len(text) \in Nat /\ Len(text) # 0
    OBVIOUS
  <2> QED BY <2>1
<1>4. /\ x \in Seq(Texts) /\ y \in Seq(Texts) /\ Len(x) = 1 /\ x[1] = text[1]
      /\ Len(y) = n /\ \A i \in 1..n : y[i] = text[i + 1]
  BY <1>1, <1>2, <1>3
<1>5. PICK z : z = x \o y
  OBVIOUS
<1>6. z \in Seq(Texts) /\ Joined(z, x, y)
  BY <1>4, <1>5, JoinFacts
<1>7. Len(z) = n + 1 /\ z[1] = text[1] /\ \A i \in 1..n : z[1 + i] = text[i + 1]
  <2>1. 1 \in 1..1
    OBVIOUS
  <2>2. Len(z) = Len(x) + Len(y) /\ Len(x) = 1 /\ Len(y) = n
    BY <1>4, <1>6 DEF Joined
  <2>3. Len(z) = n + 1
    BY <2>2
  <2>4. z[1] = x[1] /\ \A i \in 1..n : z[1 + i] = y[i]
    BY <2>1, <2>2, <1>6 DEF Joined
  <2> QED BY <2>3, <2>4, <1>4
<1>8. ASSUME NEW i \in 1..Len(z) PROVE z[i] = text[i]
  <2>1. CASE i = 1
    BY <2>1, <1>7
  <2>2. CASE i # 1
    <3>1. PICK j \in 1..n : i = j + 1 /\ i = 1 + j
      <4>1. i - 1 \in 1..n
        BY <2>2, <1>7
      <4> QED BY <4>1
    <3> QED BY <3>1, <1>7
  <2> QED BY <2>1, <2>2
<1>9. z = text
  BY <1>3, <1>6, <1>7, <1>8, SameSeq
<1>10. Settle(s, z) = Settle(Settle(s, x), y)
  BY <1>4, <1>5, SettleJoin
<1>11. Settle(s, x) = Written(s, Head(text))
  BY <1>1, SettleFew
<1> QED BY <1>2, <1>9, <1>10, <1>11

(* What a newline, a text that begins in a fresh row, and the prompt do.   *)
LEMMA ParagraphSettles ==
  ASSUME NEW s \in Screens, NEW text \in Seq(Texts), NEW rows \in Seq(Seq(Texts)), Says(text, rows)
  PROVE  LET t == Settle(s, <<NL>> \o text)
             u == Settle(s, Append(<<NL>> \o text, PROMPT))
         IN  /\ Fresh(t) /\ t.above = Append(s.above, Row(s)) \o rows
             /\ u \in Screens /\ Row(u) = <<PROMPT>> /\ Clean(u) /\ u.above = t.above
<1>1. PICK x : x = <<NL>>
  OBVIOUS
<1>2. x \in Seq(Texts)
  BY <1>1 DEF Texts, NL
<1>3. PICK a \in Screens : a = Settle(s, x) /\ Fresh(a) /\ a.above = Append(s.above, Row(s))
  BY <1>1, SettleFew, WrittenNewline DEF Fresh
<1>4. PICK z \in Seq(Texts) : z = x \o text
  <2>1. x \o text \in Seq(Texts)
    BY <1>2, JoinFacts
  <2> QED BY <2>1
<1>5. PICK t \in Screens : t = Settle(s, z) /\ Fresh(t) /\ t.above = a.above \o rows
  <2>1. Settle(s, z) = Settle(a, text)
    BY <1>2, <1>3, <1>4, SettleJoin
  <2> QED BY <2>1, <1>3 DEF Says, Fresh
<1>6. PROMPT \in Plain /\ PROMPT \in Texts
  BY DEF PROMPT, Plain, Texts, NL, KEY_BACKSPACE
<1>7. PICK u : u = Written(t, PROMPT)
  OBVIOUS
<1>8. u \in Screens /\ u.above = t.above /\ Row(u) = Append(Row(t), PROMPT) /\ Clean(u)
  BY <1>5, <1>6, <1>7, RowGrows DEF Fresh
<1>9. Append(Row(t), PROMPT) = <<PROMPT>>
  <2>1. Row(t) = <<>>
    BY <1>5 DEF Fresh
  <2> QED BY <2>1
<1>10. Settle(s, Append(z, PROMPT)) = u
  <2>1. PICK y : y = <<PROMPT>>
    OBVIOUS
  <2>2. y \in Seq(Texts) /\ Append(z, PROMPT) = z \o y
    BY <2>1, <1>6
  <2>3. Settle(s, z \o y) = Settle(t, y)
    BY <2>2, <1>5, SettleJoin
  <2>4. Settle(t, y) = u
    BY <2>1, <1>7, SettleFew
  <2> QED BY <2>2, <2>3, <2>4
<1> QED BY <1>1, <1>3, <1>4, <1>5, <1>8, <1>9, <1>10

(* The first n bytes of an array.                                          *)
Line(b, n) == [i \in 1..n |-> b[i - 1]]

LEMMA LineGrows ==
  ASSUME NEW b \in [0..SIZE - 1 -> Bytes], NEW n \in 0..SIZE - 1, NEW ch \in Bytes,
         \A i \in 0..n - 1 : b[i] \in Texts
  PROVE  /\ Line(b, n) \in Seq(Texts)
         /\ <<PROMPT>> \o Line([b EXCEPT ![n] = ch], n + 1) = Append(<<PROMPT>> \o Line(b, n), ch)
<1>1. PICK x : x = Line(b, n)
  OBVIOUS
<1>2. n \in Nat
  OBVIOUS
<1>3. x \in Seq(Texts) /\ Len(x) = n /\ \A i \in 1..n : x[i] = b[i - 1]
  <2>1. \A i \in 1..n : i - 1 \in 0..n - 1
    OBVIOUS
  <2> QED BY <1>1, <1>2, <2>1 DEF Line
<1>4. PICK c : c = [b EXCEPT ![n] = ch]
  OBVIOUS
<1>5. c[n] = ch /\ \A i \in 0..n - 1 : c[i] = b[i]
  <2>1. \A i \in 0..n - 1 : i \in 0..SIZE - 1 /\ i # n
    BY ConsoleAssumption
  <2> QED BY <1>4, <2>1
<1>6. PICK y : y = Line(c, n + 1)
  OBVIOUS
<1>7. y = Append(x, ch)
  <2>1. ch \in Texts
    BY DEF Bytes, Texts
  <2>2. PICK z : z = Append(x, ch)
    OBVIOUS
  <2>3. z \in Seq(Texts) /\ Len(z) = n + 1 /\ z[n + 1] = ch /\ \A i \in 1..n : z[i] = x[i]
    BY <1>3, <2>1, <2>2
  <2>4. y = [i \in 1..n + 1 |-> c[i - 1]]
    BY <1>6 DEF Line
  <2>5. ASSUME NEW i \in 1..n + 1 PROVE c[i - 1] = z[i]
    <3>1. CASE i = n + 1
      <4>1. i - 1 = n
        BY <3>1
      <4> QED BY <3>1, <4>1, <1>5, <2>3
    <3>2. CASE i # n + 1
      <4>1. i \in 1..n /\ i - 1 \in 0..n - 1
        BY <3>2
      <4> QED BY <4>1, <1>3, <1>5, <2>3
    <3> QED BY <3>1, <3>2
  <2>6. z = [i \in 1..n + 1 |-> z[i]]
    BY <1>2, <2>3
  <2>7. y = z
    BY <2>4, <2>5, <2>6, Zenon
  <2> QED BY <2>2, <2>7
<1>8. <<PROMPT>> \o Append(x, ch) = Append(<<PROMPT>> \o x, ch)
  <2>1. ch \in Texts /\ <<PROMPT>> \in Seq(Texts)
    BY DEF Bytes, Texts, PROMPT
  <2>2. PICK p \in Seq(Texts) : p = <<PROMPT>>
    BY <2>1
  <2>3. p \o Append(x, ch) = Append(p \o x, ch)
    BY <2>1, <1>3
  <2> QED BY <2>2, <2>3
<1> QED BY <1>1, <1>3, <1>4, <1>6, <1>7, <1>8

LEMMA LineShrinks ==
  ASSUME NEW b, NEW n \in Nat, n > 0, \A i \in 0..n - 1 : b[i] \in Texts
  PROVE  <<PROMPT>> \o Line(b, n - 1) = Front(<<PROMPT>> \o Line(b, n))
<1>1. PICK m \in Nat : m = n - 1 /\ n = m + 1
  <2>1. n - 1 \in Nat
    OBVIOUS
  <2> QED BY <2>1
<1>2. PICK x : x = Line(b, n)
  OBVIOUS
<1>3. PICK y : y = Line(b, m)
  OBVIOUS
<1>4. x \in Seq(Texts) /\ Len(x) = n /\ \A i \in 1..n : x[i] = b[i - 1]
  <2>1. \A i \in 1..n : i - 1 \in 0..n - 1
    OBVIOUS
  <2> QED BY <1>2, <2>1 DEF Line
<1>5. y \in Seq(Texts) /\ Len(y) = m /\ \A i \in 1..m : y[i] = b[i - 1]
  <2>1. \A i \in 1..m : i - 1 \in 0..n - 1
    BY <1>1
  <2> QED BY <1>3, <2>1 DEF Line
<1>6. PICK p \in Seq(Texts) : p = <<PROMPT>> /\ Len(p) = 1
  <2>1. PROMPT \in Texts
    BY DEF Texts, PROMPT
  <2>2. PICK p : p = <<PROMPT>>
    OBVIOUS
  <2>3. p \in Seq(Texts) /\ Len(p) = 1
    BY <2>1, <2>2
  <2> QED BY <2>2, <2>3
<1>7. PICK u \in Seq(Texts) : u = p \o x /\ Joined(u, p, x)
  BY <1>4, JoinFacts
<1>8. PICK v \in Seq(Texts) : v = p \o y /\ Joined(v, p, y)
  BY <1>5, JoinFacts
<1>9. /\ Len(u) = 1 + n /\ u[1] = p[1] /\ (\A i \in 1..n : u[1 + i] = x[i])
      /\ Len(v) = 1 + m /\ v[1] = p[1] /\ (\A i \in 1..m : v[1 + i] = y[i])
  <2>1. 1 \in 1..1
    OBVIOUS
  <2> QED BY <2>1, <1>4, <1>5, <1>6, <1>7, <1>8 DEF Joined
<1>10. PICK w : w = SubSeq(u, 1, n)
  OBVIOUS
<1>11. w \in Seq(Texts) /\ Len(w) = n /\ \A i \in 1..n : w[i] = u[i]
  BY <1>9, <1>10
<1>12. ASSUME NEW i \in 1..n PROVE v[i] = u[i]
  <2>1. CASE i = 1
    BY <2>1, <1>9
  <2>2. CASE i # 1
    <3>1. PICK j \in 1..m : i = 1 + j /\ j \in 1..n
      <4>1. i - 1 \in 1..m /\ i - 1 \in 1..n /\ i = 1 + (i - 1)
        BY <2>2, <1>1
      <4> QED BY <4>1
    <3> QED BY <3>1, <1>4, <1>5, <1>9
  <2> QED BY <2>1, <2>2
<1>13. v = w
  <2>2. Len(v) = n
    BY <1>1, <1>9
  <2>1. Len(v) = Len(w) /\ \A i \in 1..Len(v) : v[i] = w[i]
    BY <2>2, <1>11, <1>12
  <2> QED BY <2>1, <1>11, SameSeq
<1>14. Front(u) = w
  <2>1. Len(u) - 1 = n
    BY <1>9
  <2> QED BY <2>1, <1>10 DEF Front
<1> QED BY <1>1, <1>2, <1>3, <1>6, <1>7, <1>8, <1>13, <1>14

----------------------------------------------------------------------------
(* The invariant.                                                          *)

States == {"main", "getchar", "sleep", "asleep", "exit", "dead"}

TypeInv ==
  /\ pc \in [Procs -> States]
  /\ todo \in [Procs -> Seq(Texts)]
  /\ buf \in [Consoles -> [0..SIZE - 1 -> Bytes]]
  /\ len \in [Consoles -> 0..SIZE - 1]
  /\ screen \in [Procs -> Screens]

Blank == [cells |-> <<>>, cursor |-> 0, above |-> <<>>]

(* What is stored is what lines are made of.                               *)
LineInv(p) ==
  /\ pc[p] \in {"main", "getchar", "exit", "dead"}
  /\ \A i \in 0..len[p] - 1 : buf[p][i] \in Keys \cap Printable

(* When everything has been written, the row will be the prompt and what   *)
(* is stored, and will be empty after the end.                             *)
RowInv(p) ==
  /\ pc[p] = "main" => todo[p] = <<>> /\ screen[p] = Blank /\ len[p] = 0
  /\ pc[p] = "getchar" => Row(Settled(p)) = <<PROMPT>> \o Stored(p) /\ Clean(Settled(p))
  /\ pc[p] \in {"exit", "dead"} => Row(Settled(p)) = <<>>

ConInv ==
  /\ TypeInv
  /\ \A p \in Consoles : LineInv(p) /\ RowInv(p)
  /\ \A p \in Printers : pc[p] # "getchar"

(* What a step of the console is for whoever sits at its terminal.         *)
TermStep == [Promised!Start \/ Promised!Type \/ Promised!Erase \/ Promised!Enter]_(Promised!termVars)

(* A step leaves the other processes alone.                                *)
Same(q) == /\ pc'[q] = pc[q] /\ todo'[q] = todo[q] /\ screen'[q] = screen[q]
           /\ q \in Consoles => buf'[q] = buf[q] /\ len'[q] = len[q]

LEMMA ProcKinds == Consoles \subseteq Procs /\ Printers = Procs \ Consoles
BY DEF Consoles, Printers

(* The terminal reads pc, todo and screen of its console only.             *)
LEMMA SameView ==
  ASSUME pc'[ThisConsole] = pc[ThisConsole], Settled(ThisConsole)' = Settled(ThisConsole)
  PROVE  TermStep
BY DEF TermStep, Promised!termVars

LEMMA StepKeeps ==
  ASSUME ConInv, TypeInv', NEW p \in Procs, \A q \in Procs \ {p} : Same(q),
         p \in Consoles => LineInv(p)' /\ RowInv(p)',
         p \in Printers => pc'[p] # "getchar"
  PROVE  ConInv' /\ (Consoles # {} /\ p # ThisConsole => TermStep)
<1>1. ASSUME NEW q \in Consoles PROVE LineInv(q)' /\ RowInv(q)'
  <2>1. CASE q = p
    BY <2>1, <1>1
  <2>2. CASE q # p
    <3>1. Same(q) /\ q \in Procs
      BY <2>2, <1>1, ProcKinds
    <3>2. LineInv(q) /\ RowInv(q)
      BY <1>1 DEF ConInv
    <3>3. Settled(q)' = Settled(q) /\ Stored(q)' = Stored(q)
      BY <3>1, <1>1 DEF Same, Settled, Stored
    <3>4. LineInv(q)'
      BY <3>1, <3>2, <1>1 DEF Same, LineInv
    <3>5. RowInv(q)'
      BY <3>1, <3>2, <3>3, <1>1 DEF Same, RowInv
    <3> QED BY <3>4, <3>5
  <2> QED BY <2>1, <2>2
<1>2. ASSUME NEW q \in Printers PROVE pc'[q] # "getchar"
  BY <1>2, ProcKinds DEF ConInv, Same
<1>3. ASSUME Consoles # {}, p # ThisConsole PROVE TermStep
  <2>1. ThisConsole \in Procs \ {p}
    BY <1>3, ProcKinds DEF ThisConsole
  <2>2. Same(ThisConsole)
    BY <2>1
  <2> QED BY <2>2, SameView DEF Same, Settled
<1> QED BY <1>1, <1>2, <1>3 DEF ConInv

LEMMA InitInv ==
  ASSUME Init
  PROVE  ConInv
<1>1. Blank \in Screens
  BY DEF Blank, Screens
<1>2. TypeInv
  <2>1. \A g : g \in [0..SIZE - 1 -> Garbage] => g \in [0..SIZE - 1 -> Bytes]
    BY ConsoleAssumption DEF Bytes
  <2>2. 0 \in 0..SIZE - 1
    BY ConsoleAssumption
  <2>3. buf \in [Consoles -> [0..SIZE - 1 -> Bytes]]
    BY <2>1 DEF Init
  <2>4. screen \in [Procs -> Screens]
    BY <1>1 DEF Init, Blank
  <2>5. pc \in [Procs -> States] /\ todo \in [Procs -> Seq(Texts)] /\ len \in [Consoles -> 0..SIZE - 1]
    BY <2>2 DEF Init, States
  <2> QED BY <2>3, <2>4, <2>5 DEF TypeInv
<1>3. ASSUME NEW p \in Procs
      PROVE  pc[p] = "main" /\ todo[p] = <<>> /\ screen[p] = Blank
  BY DEF Init, Blank
<1>4. \A p \in Consoles : len[p] = 0
  BY DEF Init
<1>5. ASSUME NEW p \in Consoles PROVE LineInv(p) /\ RowInv(p)
  BY <1>3, <1>4, ProcKinds DEF LineInv, RowInv
<1> QED BY <1>2, <1>3, <1>5, ProcKinds DEF ConInv

(* A character of output, whatever it is.                                  *)
LEMMA PutcharStep ==
  ASSUME ConInv, NEW p \in Procs, Putchar(p)
  PROVE  ConInv' /\ (Consoles # {} => TermStep)
<1>1. TypeInv
  BY DEF ConInv
<1>2. todo[p] \in Seq(Texts) /\ todo[p] # <<>> /\ screen[p] \in Screens
  BY <1>1 DEF TypeInv, Putchar
<1>3. Head(todo[p]) \in Texts /\ Tail(todo[p]) \in Seq(Texts)
  BY <1>2
<1>4. Written(screen[p], Head(todo[p])) \in Screens
  BY <1>2, <1>3, WrittenScreen
<1>5. TypeInv'
  BY <1>1, <1>3, <1>4 DEF TypeInv, Putchar
<1>6. /\ screen'[p] = Written(screen[p], Head(todo[p])) /\ todo'[p] = Tail(todo[p])
      /\ pc' = pc /\ buf' = buf /\ len' = len
      /\ \A q \in Procs \ {p} : Same(q)
  BY <1>1 DEF Putchar, TypeInv, Same
<1>7. Settled(p)' = Settled(p)
  BY <1>2, <1>6, SettleHead DEF Settled
<1>8. ASSUME p \in Consoles PROVE LineInv(p)' /\ RowInv(p)'
  <2>1. LineInv(p) /\ RowInv(p)
    BY <1>8 DEF ConInv
  <2>2. pc[p] # "main"
    BY <2>1, <1>2 DEF RowInv
  <2>3. Stored(p)' = Stored(p)
    BY <1>6 DEF Stored
  <2> QED BY <2>1, <2>2, <2>3, <1>6, <1>7 DEF LineInv, RowInv
<1>9. p \in Printers => pc'[p] # "getchar"
  BY <1>6 DEF ConInv
<1>10. ConInv' /\ (Consoles # {} /\ p # ThisConsole => TermStep)
  BY <1>5, <1>6, <1>8, <1>9, StepKeeps
<1>11. p = ThisConsole => TermStep
  BY <1>6, <1>7, SameView
<1> QED BY <1>10, <1>11

(* The start of a process: the prompt of a console, below two rows.        *)
LEMMA StartSettles ==
  LET t == Settle(Blank, <<NL, READY, NL, PROMPT>>)
  IN  t \in Screens /\ Row(t) = <<PROMPT>> /\ Clean(t) /\ t.above = << <<>>, <<READY>> >>
<1>1. Blank \in Screens /\ Row(Blank) = <<>> /\ Blank.above = <<>>
  BY DEF Blank, Screens, Row
<1>2. READY \in Plain /\ NL \in Texts /\ READY \in Texts /\ PROMPT \in Texts
  BY DEF READY, Plain, Texts, NL, KEY_BACKSPACE, PROMPT
<1>3. PICK x, q : x = <<READY, NL>> /\ q = << <<READY>> >>
  OBVIOUS
<1>4. x \in Seq(Texts) /\ q \in Seq(Seq(Texts)) /\ Says(x, q)
  BY <1>2, <1>3, OneRow
<1>5. Len(x) = 2 /\ x[1] = READY /\ x[2] = NL
  BY <1>3
<1>6. PICK y : y = <<NL>> \o x
  OBVIOUS
<1>7. y \in Seq(Texts) /\ Len(y) = 3 /\ y[1] = NL /\ y[2] = READY /\ y[3] = NL
  <2>1. PICK n \in Seq(Texts) : n = <<NL>> /\ Len(n) = 1 /\ n[1] = NL
    <3>1. PICK n : n = <<NL>>
      OBVIOUS
    <3>2. n \in Seq(Texts) /\ Len(n) = 1 /\ n[1] = NL
      BY <3>1, <1>2
    <3> QED BY <3>1, <3>2
  <2>2. y \in Seq(Texts) /\ Joined(y, n, x)
    BY <2>1, <1>4, <1>6, JoinFacts
  <2>3. /\ Len(y) = Len(n) + Len(x) /\ \A i \in 1..1 : y[i] = n[i]
        /\ \A i \in 1..2 : y[1 + i] = x[i]
    BY <2>1, <2>2, <1>5 DEF Joined
  <2>4. 1 \in 1..1 /\ 1 \in 1..2 /\ 2 \in 1..2 /\ 1 + 1 = 2 /\ 1 + 2 = 3
    OBVIOUS
  <2>5. Len(y) = 3
    BY <2>1, <2>3, <1>5
  <2>6. y[1] = n[1] /\ y[2] = x[1] /\ y[3] = x[2]
    BY <2>3, <2>4
  <2> QED BY <2>1, <2>2, <2>5, <2>6, <1>5
<1>8. PICK z : z = Append(y, PROMPT)
  OBVIOUS
<1>9. z \in Seq(Texts) /\ Len(z) = 4 /\ z[4] = PROMPT /\ \A i \in 1..3 : z[i] = y[i]
  <2>1. PICK c \in Texts : c = PROMPT
    BY <1>2
  <2>2. z \in Seq(Texts) /\ Extends(z, y, c)
    BY <2>1, <1>7, <1>8, AppendFacts
  <2>3. Len(y) + 1 = 4
    BY <1>7
  <2> QED BY <2>1, <2>2, <2>3, <1>7 DEF Extends
<1>10. z = <<NL, READY, NL, PROMPT>>
  <2>1. PICK w : w = <<NL, READY, NL, PROMPT>>
    OBVIOUS
  <2>2. w \in Seq(Texts) /\ Len(w) = 4 /\ w[1] = NL /\ w[2] = READY /\ w[3] = NL /\ w[4] = PROMPT
    BY <2>1, <1>2
  <2>3. z[1] = NL /\ z[2] = READY /\ z[3] = NL
    <3>1. 1 \in 1..3 /\ 2 \in 1..3 /\ 3 \in 1..3
      OBVIOUS
    <3> QED BY <3>1, <1>7, <1>9
  <2>4. ASSUME NEW i \in 1..Len(z) PROVE z[i] = w[i]
    <3>1. i = 1 \/ i = 2 \/ i = 3 \/ i = 4
      BY <1>9
    <3> QED BY <3>1, <2>2, <2>3, <1>9
  <2> QED BY <2>1, <2>2, <2>4, <1>9, SameSeq
<1>11. PICK u \in Screens : /\ u = Settle(Blank, z) /\ Row(u) = <<PROMPT>> /\ Clean(u)
                            /\ u.above = Append(<<>>, <<>>) \o q
  BY <1>1, <1>4, <1>6, <1>8, ParagraphSettles
<1>12. Append(<<>>, <<>>) \o q = << <<>>, <<READY>> >>
  <2>1. PICK C : C = Seq(Texts)
    OBVIOUS
  <2>2. PICK e, r : e = <<>> /\ r = <<READY>>
    OBVIOUS
  <2>3. e \in C /\ r \in C
    BY <2>1, <2>2, <1>2
  <2>4. PICK a, b : a = <<e>> /\ b = <<r>>
    OBVIOUS
  <2>5. a \in Seq(C) /\ b \in Seq(C) /\ Len(a) = 1 /\ Len(b) = 1 /\ a[1] = e /\ b[1] = r
    BY <2>3, <2>4
  <2>6. a \o b \in Seq(C) /\ Joined(a \o b, a, b)
    BY <2>5, JoinFacts
  <2>7. PICK c : c = a \o b
    OBVIOUS
  <2>8. c \in Seq(C) /\ Len(c) = 1 + 1 /\ (\A i \in 1..1 : c[i] = a[i]) /\ \A i \in 1..1 : c[1 + i] = b[i]
    BY <2>5, <2>6, <2>7 DEF Joined
  <2>9. Len(c) = 2 /\ c[1] = e /\ c[2] = r
    <3>1. 1 \in 1..1 /\ 1 + 1 = 2
      OBVIOUS
    <3> QED BY <3>1, <2>5, <2>8
  <2>10. PICK d : d = <<e, r>>
    OBVIOUS
  <2>11. d \in Seq(C) /\ Len(d) = 2 /\ d[1] = e /\ d[2] = r
    BY <2>3, <2>10
  <2>12. ASSUME NEW i \in 1..Len(c) PROVE c[i] = d[i]
    <3>1. i = 1 \/ i = 2
      BY <2>9
    <3> QED BY <3>1, <2>9, <2>11
  <2>13. c = d
    BY <2>8, <2>9, <2>11, <2>12, SameSeq
  <2>14. Append(<<>>, e) = a
    BY <2>4
  <2> QED BY <2>2, <2>4, <2>7, <2>10, <2>13, <2>14, <1>3
<1> QED BY <1>10, <1>11, <1>12

LEMMA MainStep ==
  ASSUME ConInv, NEW p \in Procs, Main(p)
  PROVE  ConInv' /\ (Consoles # {} => TermStep)
<1>1. TypeInv /\ pc[p] = "main" /\ todo[p] = <<>>
  BY DEF ConInv, Main, At
<1>2. Arg[p] = PROC_ARG_CONSOLE <=> p \in Consoles
  BY DEF Consoles
<1>3. CASE p \in Consoles
  <2>1. PICK text : text = <<NL, READY, NL, PROMPT>>
    OBVIOUS
  <2>2. text \in Seq(Texts)
    BY <2>1 DEF Texts, NL, READY, PROMPT
  <2>3. /\ pc' = [pc EXCEPT ![p] = "getchar"] /\ todo' = [todo EXCEPT ![p] = text]
        /\ buf' = buf /\ len' = len /\ screen' = screen
    BY <1>2, <1>3, <2>1 DEF Main, Go
  <2>4. TypeInv'
    BY <1>1, <2>2, <2>3 DEF TypeInv, States
  <2>5. pc'[p] = "getchar" /\ todo'[p] = text /\ \A q \in Procs \ {p} : Same(q)
    BY <1>1, <2>3 DEF TypeInv, Same
  <2>6. LineInv(p) /\ screen[p] = Blank /\ len[p] = 0
    BY <1>1, <1>3 DEF ConInv, RowInv
  <2>7. PICK t : t = Settled(p)'
    OBVIOUS
  <2>8. t \in Screens /\ Row(t) = <<PROMPT>> /\ Clean(t) /\ t.above = << <<>>, <<READY>> >>
    BY <2>1, <2>3, <2>5, <2>6, <2>7, StartSettles DEF Settled
  <2>9. <<PROMPT>> \o Stored(p)' = <<PROMPT>>
    <3>1. Stored(p)' = <<>>
      BY <2>3, <2>6 DEF Stored
    <3> QED BY <3>1
  <2>10. LineInv(p)'
    BY <2>3, <2>5, <2>6 DEF LineInv
  <2>11. RowInv(p)'
    BY <2>5, <2>7, <2>8, <2>9 DEF RowInv
  <2>12. ConInv' /\ (Consoles # {} /\ p # ThisConsole => TermStep)
    BY <1>3, <2>4, <2>5, <2>10, <2>11, StepKeeps, ProcKinds
  <2>13. ASSUME p = ThisConsole PROVE TermStep
    <3>1. Settled(p) = Blank
      BY <1>1, <2>6, SettleFew DEF Settled
    <3>2. Row(Blank) = <<>> /\ Blank.above = <<>>
      BY DEF Blank, Row
    <3>3. Promised!Start
      BY <1>1, <2>5, <2>7, <2>8, <2>13, <3>1, <3>2 DEF Promised!Start, Row
    <3> QED BY <3>3 DEF TermStep
  <2> QED BY <2>12, <2>13
<1>4. CASE p \notin Consoles
  <2>1. PICK text : text = <<TICK, NL>>
    OBVIOUS
  <2>2. text \in Seq(Texts)
    BY <2>1 DEF Texts, NL, TICK
  <2>3. /\ pc' = [pc EXCEPT ![p] = "sleep"] /\ todo' = [todo EXCEPT ![p] = text]
        /\ buf' = buf /\ len' = len /\ screen' = screen
    BY <1>2, <1>4, <2>1 DEF Main, Go
  <2>4. TypeInv'
    BY <1>1, <2>2, <2>3 DEF TypeInv, States
  <2>5. pc'[p] = "sleep" /\ \A q \in Procs \ {p} : Same(q)
    BY <1>1, <2>3 DEF TypeInv, Same
  <2>6. Consoles # {} => p # ThisConsole
    BY <1>4 DEF ThisConsole
  <2> QED BY <1>4, <2>4, <2>5, <2>6, StepKeeps, ProcKinds
<1> QED BY <1>3, <1>4

(* While a console waits for a key, everything has been written.           *)
LEMMA Waiting ==
  ASSUME ConInv, NEW p \in Procs, At(p, "getchar")
  PROVE  /\ p \in Consoles /\ TypeInv /\ LineInv(p) /\ pc[p] = "getchar"
         /\ Settled(p) = screen[p] /\ screen[p] \in Screens /\ Clean(screen[p])
         /\ Row(screen[p]) = <<PROMPT>> \o Stored(p)
         /\ Stored(p) \in Lines /\ len[p] \in 0..SIZE - 1 /\ len[p] \in Nat
         /\ \A i \in 0..len[p] - 1 : buf[p][i] \in Texts /\ buf[p][i] # NUL
         /\ buf[p] \in [0..SIZE - 1 -> Bytes]
         /\ Len(Row(screen[p])) = len[p] + 1
<1>1. pc[p] = "getchar" /\ todo[p] = <<>> /\ TypeInv
  BY DEF At, ConInv
<1>2. p \in Consoles
  BY <1>1, ProcKinds DEF ConInv
<1>3. LineInv(p) /\ RowInv(p)
  BY <1>2 DEF ConInv
<1>4. Settled(p) = screen[p]
  BY <1>1, SettleFew DEF Settled
<1>5. screen[p] \in Screens /\ len[p] \in 0..SIZE - 1 /\ buf[p] \in [0..SIZE - 1 -> Bytes]
  BY <1>1, <1>2 DEF TypeInv
<1>6. PICK n \in Nat : n = len[p]
  BY <1>5
<1>7. PICK C : C = Keys \cap Printable
  OBVIOUS
<1>8. \A i \in 0..n - 1 : buf[p][i] \in C
  BY <1>3, <1>6, <1>7 DEF LineInv
<1>9. PICK x : x = [i \in 1..n |-> buf[p][i - 1]]
  OBVIOUS
<1>10. x \in Seq(C) /\ Len(x) = n
  <2>1. \A i \in 1..n : i - 1 \in 0..n - 1
    OBVIOUS
  <2> QED BY <2>1, <1>8, <1>9
<1>11. Stored(p) = x
  BY <1>6, <1>9 DEF Stored
<1>12. \A c \in C : c \in Texts /\ c # NUL
  BY <1>7 DEF Printable, Texts, NUL
<1>13. Len(<<PROMPT>> \o x) = n + 1
  <2>1. x \in Seq(Texts)
    BY <1>10, <1>12, SeqMono
  <2>2. PICK y : y = <<PROMPT>>
    OBVIOUS
  <2>3. y \in Seq(Texts) /\ Len(y) = 1
    BY <2>2 DEF PROMPT, Texts
  <2>4. Joined(y \o x, y, x)
    BY <2>1, <2>3, JoinFacts
  <2>5. Len(y \o x) = 1 + n
    BY <2>3, <2>4, <1>10 DEF Joined
  <2> QED BY <2>2, <2>5
<1>14. Row(screen[p]) = <<PROMPT>> \o Stored(p) /\ Clean(screen[p])
  BY <1>1, <1>3, <1>4 DEF RowInv
<1>15. Stored(p) \in Lines
  BY <1>7, <1>10, <1>11 DEF Lines
<1>16. \A i \in 0..len[p] - 1 : buf[p][i] \in Texts /\ buf[p][i] # NUL
  BY <1>6, <1>8, <1>12
<1> QED BY <1>1, <1>2, <1>3, <1>4, <1>5, <1>6, <1>11, <1>13, <1>14, <1>15, <1>16

LEMMA StoreStep ==
  ASSUME ConInv, NEW p \in Procs, At(p, "getchar"), NEW ch \in Keys, Store(p, ch)
  PROVE  ConInv' /\ (Consoles # {} => TermStep)
<1>1. /\ p \in Consoles /\ TypeInv /\ LineInv(p) /\ pc[p] = "getchar"
      /\ Settled(p) = screen[p] /\ screen[p] \in Screens /\ Clean(screen[p])
      /\ Row(screen[p]) = <<PROMPT>> \o Stored(p)
      /\ len[p] \in 0..SIZE - 1 /\ len[p] \in Nat
      /\ \A i \in 0..len[p] - 1 : buf[p][i] \in Texts
      /\ buf[p] \in [0..SIZE - 1 -> Bytes]
      /\ Len(Row(screen[p])) = len[p] + 1
  BY Waiting
<1>2. PICK n \in Nat : n = len[p]
  BY <1>1
<1>3. /\ ch \in Printable /\ n < SIZE - 1 /\ n + 1 \in 0..SIZE - 1 /\ n \in 0..SIZE - 1
      /\ ch \in Plain /\ ch \in Texts /\ ch \in Bytes
  <2>1. PICK size \in Nat : size = SIZE
    BY ConsoleAssumption
  <2>2. n < SIZE - 1 /\ n + 1 \in 0..SIZE - 1 /\ n \in 0..SIZE - 1
    BY <2>1, <1>2 DEF Store, Fits
  <2>3. ch \in 32..126
    BY DEF Store, Printable
  <2>4. ch \in Plain /\ ch \in Texts /\ ch \in Bytes
    BY <2>3 DEF Plain, Texts, NL, KEY_BACKSPACE, Bytes
  <2> QED BY <2>2, <2>3, <2>4 DEF Printable
<1>4. PICK b : b = [buf[p] EXCEPT ![n] = ch]
  OBVIOUS
<1>5. PICK text : text = <<ch>>
  OBVIOUS
<1>6. b \in [0..SIZE - 1 -> Bytes] /\ b[n] = ch /\ \A i \in 0..n - 1 : b[i] = buf[p][i]
  <2>1. PICK a \in [0..SIZE - 1 -> Bytes] : a = buf[p]
    BY <1>1
  <2>2. PICK size \in Nat : size = SIZE
    BY ConsoleAssumption
  <2>3. \A i \in 0..n - 1 : i \in 0..SIZE - 1 /\ i # n
    BY <2>2, <1>3
  <2> QED BY <2>1, <2>3, <1>3, <1>4
<1>7. /\ pc' = [pc EXCEPT ![p] = "getchar"] /\ todo' = [todo EXCEPT ![p] = text]
      /\ buf' = [buf EXCEPT ![p] = b] /\ len' = [len EXCEPT ![p] = n + 1] /\ screen' = screen
  BY <1>1, <1>2, <1>4, <1>5 DEF Store, Go, TypeInv
<1>8. text \in Seq(Texts)
  BY <1>3, <1>5
<1>9. TypeInv'
  BY <1>1, <1>3, <1>6, <1>7, <1>8 DEF TypeInv, States
<1>10. /\ pc'[p] = "getchar" /\ todo'[p] = text /\ buf'[p] = b /\ len'[p] = n + 1
       /\ screen'[p] = screen[p] /\ \A q \in Procs \ {p} : Same(q)
  BY <1>1, <1>7 DEF TypeInv, Same
<1>11. PICK t \in Screens : /\ t = Settled(p)' /\ t.above = screen[p].above
                            /\ Row(t) = Append(Row(screen[p]), ch) /\ Clean(t)
  <2>1. Settled(p)' = Written(screen[p], ch)
    BY <1>5, <1>10, SettleFew DEF Settled
  <2> QED BY <2>1, <1>1, <1>3, RowGrows
<1>12. <<PROMPT>> \o Stored(p)' = Append(<<PROMPT>> \o Stored(p), ch)
  <2>1. <<PROMPT>> \o Line(b, n + 1) = Append(<<PROMPT>> \o Line(buf[p], n), ch)
    BY <1>1, <1>2, <1>3, <1>4, LineGrows
  <2>2. Stored(p)' = Line(b, n + 1) /\ Stored(p) = Line(buf[p], n)
    BY <1>2, <1>10 DEF Stored, Line
  <2> QED BY <2>1, <2>2
<1>13. LineInv(p)'
  <2>1. ASSUME NEW i \in 0..len'[p] - 1 PROVE buf'[p][i] \in Keys \cap Printable
    <3>1. CASE i = n
      BY <3>1, <1>3, <1>6, <1>10
    <3>2. CASE i # n
      <4>1. i \in 0..n - 1
        BY <3>2, <1>10
      <4> QED BY <4>1, <1>1, <1>2, <1>6, <1>10 DEF LineInv
    <3> QED BY <3>1, <3>2
  <2> QED BY <2>1, <1>10 DEF LineInv
<1>14. RowInv(p)'
  BY <1>1, <1>10, <1>11, <1>12 DEF RowInv
<1>15. ConInv' /\ (Consoles # {} /\ p # ThisConsole => TermStep)
  BY <1>1, <1>9, <1>10, <1>13, <1>14, StepKeeps, ProcKinds
<1>16. ASSUME p = ThisConsole PROVE TermStep
  <2>1. Len(Row(screen[p])) \in 1..SIZE - 1
    BY <1>1, <1>2, <1>3
  <2>2. Promised!Type
    BY <2>1, <1>1, <1>3, <1>10, <1>11, <1>16 DEF Promised!Type, Row
  <2> QED BY <2>2 DEF TermStep
<1> QED BY <1>15, <1>16

LEMMA EraseStep ==
  ASSUME ConInv, NEW p \in Procs, At(p, "getchar"), NEW ch \in Keys, Erase(p, ch)
  PROVE  ConInv' /\ (Consoles # {} => TermStep)
<1>1. /\ p \in Consoles /\ TypeInv /\ LineInv(p) /\ pc[p] = "getchar"
      /\ Settled(p) = screen[p] /\ screen[p] \in Screens /\ Clean(screen[p])
      /\ Row(screen[p]) = <<PROMPT>> \o Stored(p)
      /\ len[p] \in 0..SIZE - 1 /\ len[p] \in Nat
      /\ \A i \in 0..len[p] - 1 : buf[p][i] \in Texts
      /\ Len(Row(screen[p])) = len[p] + 1
  BY Waiting
<1>2. PICK n \in Nat : n = len[p] /\ n > 0 /\ n - 1 \in 0..SIZE - 1
  <2>1. PICK size \in Nat : size = SIZE
    BY ConsoleAssumption
  <2> QED BY <2>1, <1>1 DEF Erase
<1>3. /\ pc' = [pc EXCEPT ![p] = "getchar"] /\ todo' = [todo EXCEPT ![p] = Rubout]
      /\ buf' = buf /\ len' = [len EXCEPT ![p] = n - 1] /\ screen' = screen
  BY <1>1, <1>2 DEF Erase, Go, TypeInv
<1>4. Rubout \in Seq(Texts)
  BY DEF Rubout, Texts, KEY_BACKSPACE
<1>5. TypeInv'
  BY <1>1, <1>2, <1>3, <1>4 DEF TypeInv, States
<1>6. /\ pc'[p] = "getchar" /\ todo'[p] = Rubout /\ buf'[p] = buf[p] /\ len'[p] = n - 1
      /\ screen'[p] = screen[p] /\ \A q \in Procs \ {p} : Same(q)
  BY <1>1, <1>3 DEF TypeInv, Same
<1>7. screen[p].cursor > 0
  BY <1>1, <1>2, RowFacts
<1>8. PICK t \in Screens : /\ t = Settled(p)' /\ t.above = screen[p].above
                           /\ Row(t) = Front(Row(screen[p])) /\ Clean(t)
  BY <1>1, <1>6, <1>7, RuboutErases DEF Settled
<1>9. <<PROMPT>> \o Stored(p)' = Front(<<PROMPT>> \o Stored(p))
  <2>1. <<PROMPT>> \o Line(buf[p], n - 1) = Front(<<PROMPT>> \o Line(buf[p], n))
    BY <1>1, <1>2, LineShrinks
  <2>2. Stored(p)' = Line(buf[p], n - 1) /\ Stored(p) = Line(buf[p], n)
    BY <1>2, <1>6 DEF Stored, Line
  <2> QED BY <2>1, <2>2
<1>10. LineInv(p)'
  <2>1. \A i \in 0..n - 1 - 1 : i \in 0..n - 1
    OBVIOUS
  <2> QED BY <2>1, <1>1, <1>2, <1>6 DEF LineInv
<1>11. RowInv(p)'
  BY <1>1, <1>6, <1>8, <1>9 DEF RowInv
<1>12. ConInv' /\ (Consoles # {} /\ p # ThisConsole => TermStep)
  BY <1>1, <1>5, <1>6, <1>10, <1>11, StepKeeps, ProcKinds
<1>13. ASSUME p = ThisConsole PROVE TermStep
  <2>1. Len(Row(screen[p])) > 1
    BY <1>1, <1>2
  <2>2. Promised!Erase
    BY <2>1, <1>1, <1>6, <1>8, <1>13 DEF Promised!Erase, Promised!Front, Front, Row
  <2> QED BY <2>2 DEF TermStep
<1> QED BY <1>12, <1>13

LEMMA Cleared ==
  ASSUME NEW a \in Screens
  PROVE  LET s == [a EXCEPT !.above = <<>>] IN
         s \in Screens /\ s.above = <<>> /\ Row(s) = Row(a)
<1>1. a \in [cells : Seq(Texts), cursor : Nat, above : Seq(Seq(Texts))] /\ a.cursor <= Len(a.cells)
  BY DEF Screens
<1>2. PICK e \in Seq(Seq(Texts)) : e = <<>>
  <2>1. PICK C : C = Seq(Texts)
    OBVIOUS
  <2>2. <<>> \in Seq(C)
    OBVIOUS
  <2> QED BY <2>1, <2>2
<1>3. PICK s : s = [a EXCEPT !.above = e]
  OBVIOUS
<1>4. /\ s \in [cells : Seq(Texts), cursor : Nat, above : Seq(Seq(Texts))]
      /\ s.cells = a.cells /\ s.cursor = a.cursor /\ s.above = e
  BY <1>1, <1>3
<1> QED BY <1>1, <1>2, <1>3, <1>4 DEF Screens, Row

LEMMA TailOfRow ==
  ASSUME NEW C, NEW x \in Seq(C), NEW c \in C
  PROVE  Tail(<<c>> \o x) = x /\ <<c>> \o x # <<>>
<1>1. PICK n \in Nat : n = Len(x)
  OBVIOUS
<1>2. PICK y : y = <<c>>
  OBVIOUS
<1>3. y \in Seq(C) /\ Len(y) = 1
  BY <1>2
<1>4. PICK z \in Seq(C) : z = y \o x /\ Joined(z, y, x)
  <2>1. y \o x \in Seq(C) /\ Joined(y \o x, y, x)
    BY <1>3, JoinFacts
  <2> QED BY <2>1
<1>5. Len(z) = n + 1 /\ \A i \in 1..n : z[1 + i] = x[i]
  BY <1>1, <1>3, <1>4 DEF Joined
<1>6. PICK t : t = Tail(z)
  OBVIOUS
<1>7. t \in Seq(C) /\ Len(t) = n /\ \A i \in 1..n : t[i] = z[i + 1]
  BY <1>5, <1>6
<1>8. \A i \in 1..Len(t) : t[i] = x[i]
  <2>1. \A i \in 1..n : i + 1 = 1 + i
    OBVIOUS
  <2> QED BY <2>1, <1>5, <1>7
<1>9. t = x
  BY <1>1, <1>7, <1>8, SameSeq
<1>10. z # <<>>
  BY <1>5
<1> QED BY <1>2, <1>4, <1>6, <1>9, <1>10

LEMMA EnterStep ==
  ASSUME ConInv, NEW p \in Procs, At(p, "getchar"), NEW ch \in Keys, Enter(p, ch)
  PROVE  ConInv' /\ (Consoles # {} => TermStep)
<1>1. /\ p \in Consoles /\ TypeInv /\ LineInv(p) /\ pc[p] = "getchar"
      /\ Settled(p) = screen[p] /\ screen[p] \in Screens
      /\ Row(screen[p]) = <<PROMPT>> \o Stored(p)
      /\ Stored(p) \in Lines /\ len[p] \in 0..SIZE - 1 /\ len[p] \in Nat
      /\ \A i \in 0..len[p] - 1 : buf[p][i] # NUL
      /\ buf[p] \in [0..SIZE - 1 -> Bytes]
  BY Waiting
<1>2. PICK line \in Lines : line = Stored(p)
  BY <1>1
<1>3. PICK b : b = Terminated(buf[p], len[p])
  OBVIOUS
<1>4. b \in [0..SIZE - 1 -> Bytes] /\ CString(b) = line
  BY <1>1, <1>2, <1>3, LineIsStored DEF Stored
<1>5. PICK text \in Seq(Texts), rows \in Seq(Seq(Texts)) :
        /\ text = Answer(line) /\ rows = Promised!Reply(line) /\ Says(text, rows)
        /\ StrEq(line, EXIT) <=> line = EXIT
  BY AnswerSays
<1>6. PICK s : s = [screen[p] EXCEPT !.above = <<>>]
  OBVIOUS
<1>7. s \in Screens /\ Row(s) = Row(screen[p]) /\ s.above = <<>>
  BY <1>1, <1>6, Cleared
<1>8. PICK ends : ends = (line # <<>> /\ StrEq(line, EXIT))
  OBVIOUS
<1>9. ends <=> line = EXIT
  BY <1>5, <1>8, ConsoleAssumption
<1>10. PICK w : w = <<NL>> \o text
  OBVIOUS
<1>11. w \in Seq(Texts) /\ Append(w, PROMPT) \in Seq(Texts)
  <2>1. <<NL>> \in Seq(Texts) /\ PROMPT \in Texts
    BY DEF NL, PROMPT, Texts
  <2>2. w \in Seq(Texts)
    BY <2>1, <1>10, JoinFacts
  <2> QED BY <2>1, <2>2, AppendFacts
<1>12. PICK call : call = IF line = EXIT THEN "exit" ELSE "getchar"
  OBVIOUS
<1>13. PICK out : out = IF line = EXIT THEN w ELSE Append(w, PROMPT)
  OBVIOUS
<1>14. /\ pc' = [pc EXCEPT ![p] = call] /\ todo' = [todo EXCEPT ![p] = out]
       /\ buf' = [buf EXCEPT ![p] = b] /\ len' = [len EXCEPT ![p] = 0]
       /\ screen' = [screen EXCEPT ![p] = s]
  <2>1. buf' = [buf EXCEPT ![p] = b] /\ len' = [len EXCEPT ![p] = 0]
    BY <1>3 DEF Enter
  <2>2. screen' = [screen EXCEPT ![p] = s]
    BY <1>6 DEF Enter
  <2>3. buf'[p] = b
    BY <1>1, <2>1 DEF TypeInv
  <2>4. IF ends THEN Go(p, "exit", w) ELSE Go(p, "getchar", Append(w, PROMPT))
    BY <2>3, <1>4, <1>5, <1>8, <1>10 DEF Enter
  <2>5. Go(p, call, out)
    BY <2>4, <1>9, <1>12, <1>13
  <2> QED BY <2>1, <2>2, <2>5 DEF Go
<1>15. TypeInv'
  <2>1. call \in States /\ out \in Seq(Texts) /\ 0 \in 0..SIZE - 1
    BY <1>11, <1>12, <1>13, ConsoleAssumption DEF States
  <2> QED BY <2>1, <1>1, <1>4, <1>7, <1>14 DEF TypeInv
<1>16. /\ pc'[p] = call /\ todo'[p] = out /\ buf'[p] = b /\ len'[p] = 0
       /\ screen'[p] = s /\ \A q \in Procs \ {p} : Same(q)
  BY <1>1, <1>14 DEF TypeInv, Same
<1>17. PICK t : t = Settled(p)'
  OBVIOUS
<1>18. /\ t.above = Append(<<>>, Row(s)) \o rows
       /\ Row(t) = IF line = EXIT THEN <<>> ELSE <<PROMPT>>
       /\ Clean(t)
  <2>1. t = Settle(s, out)
    BY <1>16, <1>17 DEF Settled
  <2>2. PICK a, u : a = Settle(s, w) /\ u = Settle(s, Append(w, PROMPT))
    OBVIOUS
  <2>3. /\ Fresh(a) /\ a.above = Append(s.above, Row(s)) \o rows
        /\ u \in Screens /\ Row(u) = <<PROMPT>> /\ Clean(u) /\ u.above = a.above
    BY <2>2, <1>5, <1>7, <1>10, ParagraphSettles
  <2>4. CASE line = EXIT
    BY <2>1, <2>2, <2>3, <2>4, <1>7, <1>13 DEF Fresh
  <2>5. CASE line # EXIT
    BY <2>1, <2>2, <2>3, <2>5, <1>7, <1>13
  <2> QED BY <2>4, <2>5
<1>19. LineInv(p)'
  <2>1. 0..0 - 1 = {}
    OBVIOUS
  <2> QED BY <2>1, <1>12, <1>16 DEF LineInv
<1>20. RowInv(p)'
  <2>1. <<PROMPT>> \o Stored(p)' = <<PROMPT>>
    <3>1. Stored(p)' = <<>>
      BY <1>16 DEF Stored
    <3> QED BY <3>1
  <2> QED BY <2>1, <1>12, <1>16, <1>17, <1>18 DEF RowInv
<1>21. ConInv' /\ (Consoles # {} /\ p # ThisConsole => TermStep)
  BY <1>1, <1>15, <1>16, <1>19, <1>20, StepKeeps, ProcKinds
<1>22. ASSUME p = ThisConsole PROVE TermStep
  <2>1. PICK row : row = Row(screen[p])
    OBVIOUS
  <2>2. row # <<>> /\ Tail(row) = line
    <3>1. PROMPT \in Texts /\ line \in Seq(Texts)
      BY LineKinds DEF PROMPT, Texts
    <3> QED BY <3>1, <2>1, <1>1, <1>2, TailOfRow
  <2>3. t.above = <<row>> \o rows
    <3>1. Append(<<>>, row) = <<row>>
      OBVIOUS
    <3> QED BY <3>1, <2>1, <1>7, <1>18
  <2>4. (pc'[p] \notin {"exit", "dead"}) = (line # EXIT)
    BY <1>12, <1>16
  <2>5. Row(t) = IF (pc'[p] \notin {"exit", "dead"}) THEN <<PROMPT>> ELSE <<>>
    BY <2>4, <1>18
  <2>6. pc[p] \notin {"exit", "dead"} /\ row = SubSeq(Settled(p).cells, 1, Settled(p).cursor)
    BY <1>1, <2>1 DEF Row
  <2>7. Row(t) = SubSeq(Settled(p).cells, 1, Settled(p).cursor)' /\ t.above = Settled(p)'.above
    BY <1>17 DEF Row
  <2>8. Promised!Enter
    BY <2>2, <2>3, <2>4, <2>5, <2>6, <2>7, <1>5, <1>22 DEF Promised!Enter
  <2> QED BY <2>8 DEF TermStep
<1> QED BY <1>21, <1>22

(* The printer, and the end of a process.                                  *)
LEMMA PrinterStep ==
  ASSUME ConInv, NEW p \in Procs, Sleep(p) \/ Wake(p)
  PROVE  ConInv' /\ (Consoles # {} => TermStep)
<1>1. TypeInv
  BY DEF ConInv
<1>2. p \in Printers /\ p \notin Consoles
  BY ProcKinds DEF ConInv, LineInv, Sleep, Wake, At
<1>3. PICK s : s = [screen[p] EXCEPT !.above = <<>>]
  OBVIOUS
<1>4. s \in Screens
  BY <1>1, <1>3, Cleared DEF TypeInv
<1>5. <<TICK, NL>> \in Seq(Texts) /\ <<>> \in Seq(Texts)
  BY DEF TICK, NL, Texts
<1>6. TypeInv'
  <2>1. CASE Sleep(p)
    BY <2>1, <1>1, <1>5 DEF Sleep, Go, TypeInv, States
  <2>2. CASE Wake(p)
    <3>1. screen' = [screen EXCEPT ![p] = s]
      BY <2>2, <1>3 DEF Wake
    <3> QED BY <2>2, <3>1, <1>1, <1>4, <1>5 DEF Wake, Go, TypeInv, States
  <2> QED BY <2>1, <2>2
<1>7. \A q \in Procs \ {p} : Same(q)
  BY <1>1 DEF Sleep, Wake, Go, TypeInv, Same
<1>8. pc'[p] # "getchar"
  BY <1>1 DEF Sleep, Wake, Go, TypeInv
<1>9. Consoles # {} => p # ThisConsole
  BY <1>2 DEF ThisConsole
<1> QED BY <1>2, <1>6, <1>7, <1>8, <1>9, StepKeeps

LEMMA ExitStep ==
  ASSUME ConInv, NEW p \in Procs, Exit(p)
  PROVE  ConInv' /\ (Consoles # {} => TermStep)
<1>1. TypeInv /\ pc[p] = "exit" /\ todo[p] = <<>>
  BY DEF ConInv, Exit, At
<1>2. /\ pc' = [pc EXCEPT ![p] = "dead"] /\ todo' = [todo EXCEPT ![p] = <<>>]
      /\ buf' = buf /\ len' = len /\ screen' = screen
  BY DEF Exit, Go
<1>3. <<>> \in Seq(Texts)
  OBVIOUS
<1>4. TypeInv'
  BY <1>1, <1>2, <1>3 DEF TypeInv, States
<1>5. pc'[p] = "dead" /\ todo'[p] = <<>> /\ screen'[p] = screen[p] /\ \A q \in Procs \ {p} : Same(q)
  BY <1>1, <1>2 DEF TypeInv, Same
<1>6. Settled(p)' = Settled(p)
  BY <1>1, <1>5 DEF Settled
<1>7. p \in Consoles => LineInv(p)' /\ RowInv(p)'
  BY <1>1, <1>2, <1>5, <1>6 DEF ConInv, LineInv, RowInv
<1>8. ConInv' /\ (Consoles # {} /\ p # ThisConsole => TermStep)
  BY <1>4, <1>5, <1>7, StepKeeps
<1>9. ASSUME p = ThisConsole PROVE TermStep
  BY <1>1, <1>5, <1>6, <1>9 DEF TermStep, Promised!termVars
<1> QED BY <1>8, <1>9

LEMMA NextInv ==
  ASSUME ConInv, [Next]_vars
  PROVE  ConInv' /\ (Consoles # {} => TermStep)
<1>1. CASE UNCHANGED vars
  <2>1. ConInv'
    BY <1>1 DEF vars, ConInv, TypeInv, LineInv, RowInv, Settled, Stored
  <2>2. pc' = pc /\ Settled(ThisConsole)' = Settled(ThisConsole)
    BY <1>1 DEF vars, Settled
  <2> QED BY <2>1, <2>2, SameView
<1>2. CASE Next
  <2>1. PICK p \in Procs : Main(p) \/ Putchar(p) \/ Readline(p) \/ Sleep(p) \/ Wake(p) \/ Exit(p)
    BY <1>2 DEF Next
  <2>2. CASE Readline(p)
    <3>1. At(p, "getchar")
      BY <2>2 DEF Readline
    <3>2. PICK ch \in Keys : Enter(p, ch) \/ Erase(p, ch) \/ Store(p, ch)
      BY <2>2 DEF Readline
    <3> QED BY <3>1, <3>2, EnterStep, EraseStep, StoreStep
  <2> QED BY <2>1, <2>2, MainStep, PutcharStep, PrinterStep, ExitStep
<1> QED BY <1>1, <1>2

LEMMA Invariant == Spec => []ConInv
<1>1. ConInv /\ [Next]_vars => ConInv'
  BY NextInv
<1> QED BY <1>1, InitInv, PTL DEF Spec

----------------------------------------------------------------------------
(* Results.                                                                *)

(* The line stays within its array with its terminator, and the cursor     *)
(* within the row, for an array of any size (ulib.c:210-255).              *)
THEOREM TypeCorrect == Spec => []TypeOK
<1>1. ASSUME TypeInv PROVE TypeOK
  <2>1. \A p \in Procs : screen[p] \in Screens
    BY <1>1 DEF TypeInv
  <2>2. \A p \in Procs : screen[p].cursor \in 0..Len(screen[p].cells)
    BY <2>1 DEF Screens
  <2> QED BY <1>1, <2>2 DEF TypeInv, TypeOK, States
<1>2. ConInv => TypeOK
  BY <1>1 DEF ConInv
<1> QED BY <1>2, Invariant, PTL

(* Whenever a console waits for a key its row shows the prompt and what is *)
(* stored, whatever was typed and erased before (ulib.c:207-208).          *)
THEOREM RowAlwaysShowsLine == Spec => []RowShowsLine
<1>1. ASSUME ConInv PROVE RowShowsLine
  <2>1. ASSUME NEW p \in Consoles, At(p, "getchar")
        PROVE  /\ SubSeq(screen[p].cells, 1, screen[p].cursor) = <<PROMPT>> \o Stored(p)
               /\ \A i \in screen[p].cursor + 1..Len(screen[p].cells) : screen[p].cells[i] = 32
    <3>1. Row(screen[p]) = <<PROMPT>> \o Stored(p) /\ Clean(screen[p])
      BY <1>1, <2>1, Waiting, ProcKinds
    <3> QED BY <3>1 DEF Row, Clean
  <2> QED BY <2>1 DEF RowShowsLine
<1> QED BY <1>1, Invariant, PTL

(* A console is the terminal that its user is promised: the characters of  *)
(* output, the buffer with what is left in it, and the strings compared    *)
(* come to one step of Terminal for every key (ulib.c:210-255,             *)
(* user.c:32-61).                                                          *)
THEOREM ConsoleIsTerminal ==
  ASSUME Consoles # {}
  PROVE  Spec => ImplementsTerminal
<1>1. ASSUME Init PROVE Promised!Init
  <2>1. ThisConsole \in Consoles /\ ThisConsole \in Procs
    BY ProcKinds DEF ThisConsole
  <2>2. /\ pc[ThisConsole] = "main" /\ todo[ThisConsole] = <<>>
        /\ screen[ThisConsole] = [cells |-> <<>>, cursor |-> 0, above |-> <<>>]
    BY <1>1, <2>1 DEF Init
  <2>3. Settled(ThisConsole) = [cells |-> <<>>, cursor |-> 0, above |-> <<>>]
    BY <2>2, SettleFew DEF Settled
  <2> QED BY <2>2, <2>3 DEF Promised!Init
<1>2. ConInv /\ [Next]_vars => TermStep
  BY NextInv
<1>3. Init => Promised!Init
  BY <1>1
<1> QED BY <1>2, <1>3, Invariant, PTL DEF Spec, ImplementsTerminal, Promised!Spec, TermStep
=============================================================================
