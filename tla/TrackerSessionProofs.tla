------------------------- MODULE TrackerSessionProofs -------------------------
(***************************************************************************)
(* Theorems about TrackerSession, for any threads, calls, libraries and    *)
(* sizes of the buffer.                                                    *)
(*                                                                         *)
(* A message is any stretch of requests that follow each other, as TCP     *)
(* joins and the buffer cuts them.  What can be said of all of them is     *)
(* said of each of their lexemes and the ones behind it (Proper), which    *)
(* joining and cutting keep; from it follows what the tokeniser and        *)
(* handleAnnounce make of a message that announces.                        *)
(***************************************************************************)
EXTENDS TrackerSession, HandlersProofs, FiniteSetTheorems

-----------------------------------------------------------------------------
(* Natural numbers, and functions defined by what comes next. *)

LEMMA Least ==
  ASSUME NEW I \in SUBSET Nat, I # {}
  PROVE  \E x \in I : \A y \in I : x <= y
<1>1. PICK x \in I : \A y \in I : ~(<<y, x>> \in OpToRel(<, Nat))
  BY NatLessThanWellFounded, WFMin
<1>2. \A y \in I : ~(y < x)
  BY <1>1, Zenon DEF OpToRel
<1>3. \A y \in I : x <= y
  BY <1>2
<1> QED BY <1>3

\* Induction, of a set: no smallest number is missing.
LEMMA Upwards ==
  ASSUME NEW T, 0 \in T, \A k \in Nat : k \in T => k + 1 \in T
  PROVE  \A k \in Nat : k \in T
<1> SUFFICES ASSUME Nat \ T # {} PROVE FALSE
  OBVIOUS
<1>1. PICK x \in Nat \ T : \A y \in Nat \ T : x <= y
  BY Least
<1>2. x # 0 /\ x - 1 \in Nat
  OBVIOUS
<1>3. x - 1 \in T
  BY <1>1, <1>2
<1> QED BY <1>2, <1>3

\* g begins with b, and is what F makes of it, up to k.
Runs(g, b, F, S, k) ==
  /\ g \in [0..k -> S]
  /\ g[0] = b
  /\ \A i \in 1..k : g[i] = F[g[i - 1]][i]

LEMMA Recursion ==
  ASSUME NEW S, NEW b \in S, NEW m \in Nat, NEW F \in [S -> [1..m -> S]]
  PROVE  \E g : Runs(g, b, F, S, m)
<1> DEFINE T == {k \in Nat : k <= m => \E g : Runs(g, b, F, S, k)}
<1>1. 0 \in T
  <2>1. Runs([i \in 0..0 |-> b], b, F, S, 0)
    BY DEF Runs
  <2> QED BY <2>1
<1>2. ASSUME NEW k \in Nat, k \in T PROVE k + 1 \in T
  <2> SUFFICES ASSUME k + 1 <= m PROVE \E h : Runs(h, b, F, S, k + 1)
    OBVIOUS
  <2>1. PICK g : Runs(g, b, F, S, k)
    BY <1>2
  <2> DEFINE e == F[g[k]][k + 1]
             h == [i \in 0..(k + 1) |-> IF i = k + 1 THEN e ELSE g[i]]
  <2>2. e \in S
    BY <2>1 DEF Runs
  <2>3. \A i \in 0..k : h[i] = g[i] /\ g[i] \in S
    BY <2>1 DEF Runs
  <2> HIDE DEF e
  <2>4. h[k + 1] = e /\ h \in [0..(k + 1) -> S]
    <3>1. \A i \in 0..(k + 1) : i = k + 1 \/ i \in 0..k
      OBVIOUS
    <3>2. \A i \in 0..(k + 1) : (IF i = k + 1 THEN e ELSE g[i]) \in S
      BY <2>1, <2>2, <3>1 DEF Runs
    <3> QED BY <3>2
  <2> HIDE DEF h
  <2>5. \A i \in 1..(k + 1) : h[i] = F[h[i - 1]][i]
    <3> SUFFICES ASSUME NEW i \in 1..(k + 1) PROVE h[i] = F[h[i - 1]][i]
      OBVIOUS
    <3>1. h[i - 1] = g[i - 1]
      BY <2>3
    <3>2. CASE i = k + 1
      BY <2>4, <3>1, <3>2 DEF e
    <3>3. CASE i # k + 1
      <4>1. i \in 1..k /\ i \in 0..k
        BY <3>3
      <4> QED BY <2>1, <2>3, <3>1, <4>1 DEF Runs
    <3> QED BY <3>2, <3>3
  <2>6. h[0] = b
    BY <2>1, <2>3 DEF Runs
  <2> QED BY <2>4, <2>5, <2>6 DEF Runs
<1>3. m \in T
  <2> HIDE DEF T
  <2> QED BY <1>1, <1>2, Upwards
<1> QED BY <1>3

\* FlattenSeq joins the sequences one behind the other.
Flattens(f, seqs, S) ==
  /\ f \in [1..Len(seqs) -> Seq(S)]
  /\ f[1] = seqs[1]
  /\ \A i \in 2..Len(seqs) : f[i] = f[i - 1] \o seqs[i]
  /\ FlattenSeq(seqs) = f[Len(seqs)]

LEMMA FlattenIs ==
  ASSUME NEW S, NEW seqs \in Seq(Seq(S)), seqs # <<>>
  PROVE  \E f : Flattens(f, seqs, S)
<1> DEFINE n == Len(seqs)
           Body(f) == [i \in 1..n |-> IF i = 1 THEN seqs[1] ELSE f[i - 1] \o seqs[i]]
           flat == CHOOSE f : f = [i \in 1..n |-> IF i = 1 THEN seqs[i] ELSE f[i - 1] \o seqs[i]]
           F == [a \in Seq(S) |-> [i \in 1..(n - 1) |-> a \o seqs[i + 1]]]
<1>1. n \in Nat \ {0} /\ \A i \in 1..n : seqs[i] \in Seq(S)
  <2>1. n \in Nat /\ n # 0
    BY EmptySeq, LenProperties
  <2> QED BY <2>1, ElementOfSeq
<1>2. FlattenSeq(seqs) = flat[n]
  BY <1>1 DEF FlattenSeq
<1> HIDE DEF n
<1>3. F \in [Seq(S) -> [1..(n - 1) -> Seq(S)]]
  <2>1. \A a \in Seq(S), i \in 1..(n - 1) : a \o seqs[i + 1] \in Seq(S)
    BY <1>1, ConcatProperties
  <2> QED BY <2>1
<1>4. \A a \in Seq(S), i \in 1..(n - 1) : F[a][i] = a \o seqs[i + 1]
  OBVIOUS
<1> HIDE DEF F
<1>5. n - 1 \in Nat /\ seqs[1] \in Seq(S)
  BY <1>1
<1>6. PICK g : Runs(g, seqs[1], F, Seq(S), n - 1)
  BY <1>3, <1>5, Recursion, Zenon
<1> DEFINE f == [i \in 1..n |-> g[i - 1]]
<1>7. /\ f \in [1..n -> Seq(S)] /\ f[1] = seqs[1]
      /\ \A i \in 2..n : f[i] = f[i - 1] \o seqs[i]
  <2>1. \A i \in 1..n : g[i - 1] \in Seq(S)
    BY <1>1, <1>6 DEF Runs
  <2>2. ASSUME NEW i \in 2..n PROVE g[i - 1] = g[i - 2] \o seqs[i]
    <3>1. i - 1 \in 1..(n - 1) /\ i - 2 \in 0..(n - 1) /\ (i - 1) - 1 = i - 2 /\ (i - 1) + 1 = i
      BY <1>1
    <3>2. g[i - 2] \in Seq(S)
      BY <1>6, <3>1 DEF Runs
    <3>3. g[i - 1] = F[g[i - 2]][i - 1]
      BY <1>6, <3>1 DEF Runs
    <3>4. F[g[i - 2]][i - 1] = g[i - 2] \o seqs[(i - 1) + 1]
      BY <1>4, <3>1, <3>2
    <3> QED BY <3>1, <3>3, <3>4
  <2>3. f[1] = g[0] /\ g[0] = seqs[1]
    BY <1>1, <1>6 DEF Runs
  <2>4. ASSUME NEW i \in 2..n PROVE f[i] = g[i - 1] /\ f[i - 1] = g[i - 2]
    BY <1>1
  <2> HIDE DEF f
  <2>5. \A i \in 2..n : f[i] = f[i - 1] \o seqs[i]
    BY <2>2, <2>4
  <2> QED BY <2>1, <2>3, <2>5 DEF f
<1> HIDE DEF f
<1>8. f = Body(f)
  <2>1. \A i \in 1..n : i = 1 \/ i \in 2..n
    BY <1>1
  <2>2. \A i \in 1..n : f[i] = IF i = 1 THEN seqs[1] ELSE f[i - 1] \o seqs[i]
    BY <1>7, <2>1
  <2> QED BY <1>7, <2>2
<1>9. \A h : Body(h) = [i \in 1..n |-> IF i = 1 THEN seqs[i] ELSE h[i - 1] \o seqs[i]]
  OBVIOUS
<1>10. flat = Body(flat)
  BY <1>8, <1>9, ZenonT(60)
<1> HIDE DEF flat
<1>11. \A i \in 1..n : flat[i] = IF i = 1 THEN seqs[1] ELSE flat[i - 1] \o seqs[i]
  BY <1>10
<1> DEFINE T == {k \in Nat : k + 1 <= n => flat[k + 1] = f[k + 1]}
<1>12. 0 \in T
  BY <1>1, <1>7, <1>11
<1>13. ASSUME NEW k \in Nat, k \in T PROVE k + 1 \in T
  <2> SUFFICES ASSUME k + 2 <= n PROVE flat[k + 2] = f[k + 2]
    OBVIOUS
  <2>1. flat[k + 1] = f[k + 1] /\ k + 2 \in 2..n /\ k + 2 \in 1..n /\ k + 2 # 1 /\ (k + 2) - 1 = k + 1
    BY <1>1, <1>13
  <2>2. flat[k + 2] = flat[k + 1] \o seqs[k + 2]
    BY <1>11, <2>1
  <2>3. f[k + 2] = f[k + 1] \o seqs[k + 2]
    BY <1>7, <2>1
  <2> QED BY <2>1, <2>2, <2>3
<1>14. n - 1 \in T
  <2> HIDE DEF T
  <2> QED BY <1>5, <1>12, <1>13, Upwards
<1>15. flat[n] = f[n]
  BY <1>1, <1>5, <1>14
<1> QED BY <1>2, <1>7, <1>15 DEF Flattens, n

\* What is joined is what the sequences have, and begins with the first one.
LEMMA FlatHas ==
  ASSUME NEW S, NEW seqs \in Seq(Seq(S)), seqs # <<>>
  PROVE  LET flat == FlattenSeq(seqs)
         IN /\ flat \in Seq(S)
            /\ \A x \in 1..Len(flat) :
                 \E i \in 1..Len(seqs) : \E y \in 1..Len(seqs[i]) : flat[x] = seqs[i][y]
            /\ Len(seqs[1]) <= Len(flat)
            /\ \A x \in 1..Len(seqs[1]) : flat[x] = seqs[1][x]
            /\ Len(seqs) = 1 => flat = seqs[1]
            /\ (\A i \in 1..Len(seqs) : seqs[i] # <<>>) => Len(seqs) <= Len(flat)
<1> DEFINE n == Len(seqs)
<1>1. n \in Nat \ {0} /\ \A i \in 1..n : seqs[i] \in Seq(S)
  <2>1. n \in Nat /\ n # 0
    BY EmptySeq, LenProperties
  <2> QED BY <2>1, ElementOfSeq
<1>2. PICK f : Flattens(f, seqs, S)
  BY FlattenIs
<1> DEFINE From(s, k) == \A x \in 1..Len(s) : \E i \in 1..k : \E y \in 1..Len(seqs[i]) : s[x] = seqs[i][y]
           Starts1(s) == Len(seqs[1]) <= Len(s) /\ \A x \in 1..Len(seqs[1]) : s[x] = seqs[1][x]
           Long(s, k) == (\A i \in 1..n : seqs[i] # <<>>) => k <= Len(s)
           P(k) == From(f[k], k) /\ Starts1(f[k]) /\ Long(f[k], k)
           T == {k \in Nat : k + 1 <= n => P(k + 1)}
<1>3. \A i \in 1..n : f[i] \in Seq(S) /\ Len(f[i]) \in Nat /\ Len(seqs[i]) \in Nat
  BY <1>1, <1>2, LenProperties DEF Flattens
<1>4. \A i \in 1..n : seqs[i] # <<>> => Len(seqs[i]) >= 1
  BY <1>1, <1>3, EmptySeq
<1> HIDE DEF n
<1>5. 0 \in T
  <2>1. f[1] = seqs[1] /\ 1 \in 1..n
    BY <1>1, <1>2 DEF Flattens
  <2>2. From(f[1], 1)
    BY <2>1
  <2>3. Starts1(f[1])
    BY <1>3, <2>1
  <2>4. Long(f[1], 1)
    BY <1>4, <2>1
  <2>5. P(1)
    <3> HIDE DEF From, Starts1, Long
    <3> QED BY <2>2, <2>3, <2>4
  <2>6. 0 + 1 = 1
    OBVIOUS
  <2> HIDE DEF P
  <2> QED BY <2>5, <2>6
<1>6. ASSUME NEW k \in Nat, k \in T PROVE k + 1 \in T
  <2> SUFFICES ASSUME k + 2 <= n
               PROVE  P(k + 2)
    <3>1. (k + 1) + 1 = k + 2
      OBVIOUS
    <3> HIDE DEF P
    <3> QED BY <3>1
  <2> DEFINE a == f[k + 1]
             b == seqs[k + 2]
             c == f[k + 2]
  <2>1. /\ k + 2 \in 2..n /\ k + 2 \in 1..n /\ k + 1 \in 1..n /\ (k + 2) - 1 = k + 1 /\ 1 \in 1..n
        /\ 1..(k + 1) \subseteq 1..(k + 2)
    BY <1>1
  <2>2. c = a \o b /\ a \in Seq(S) /\ b \in Seq(S)
    BY <1>1, <1>2, <1>3, <2>1 DEF Flattens, n
  <2>3. From(a, k + 1) /\ Starts1(a) /\ Long(a, k + 1)
    BY <1>6, <2>1
  <2> HIDE DEF a, c, From, Starts1, Long, T
  <2>4. /\ Len(a) \in Nat /\ Len(b) \in Nat /\ Len(c) = Len(a) + Len(b)
        /\ \A x \in 1..(Len(a) + Len(b)) : c[x] = IF x <= Len(a) THEN a[x] ELSE b[x - Len(a)]
    BY <2>2, ConcatProperties, LenProperties
  <2>5. From(c, k + 2)
    <3> SUFFICES ASSUME NEW x \in 1..Len(c)
                 PROVE  \E i \in 1..(k + 2) : \E y \in 1..Len(seqs[i]) : c[x] = seqs[i][y]
      BY DEF From
    <3>1. CASE x <= Len(a)
      <4>1. x \in 1..Len(a) /\ c[x] = a[x]
        BY <2>4, <3>1
      <4> QED BY <2>1, <2>3, <4>1 DEF From
    <3>2. CASE x > Len(a)
      <4>1. x - Len(a) \in 1..Len(b) /\ c[x] = b[x - Len(a)]
        BY <2>4, <3>2
      <4>2. k + 2 \in 1..(k + 2)
        OBVIOUS
      <4> QED BY <4>1, <4>2
    <3> QED BY <2>4, <3>1, <3>2
  <2>6. Starts1(c)
    BY <1>3, <2>1, <2>3, <2>4 DEF Starts1
  <2>7. Long(c, k + 2)
    <3>1. b # <<>> => Len(b) >= 1
      BY <1>4, <2>1
    <3> HIDE DEF b
    <3>2. (\A i \in 1..n : seqs[i] # <<>>) => Len(b) >= 1 /\ k + 1 <= Len(a)
      BY <2>1, <2>3, <3>1 DEF Long, b
    <3> QED BY <2>4, <3>2 DEF Long
  <2> QED BY <2>5, <2>6, <2>7 DEF c
<1> HIDE DEF P
<1>7. n - 1 \in T
  <2> HIDE DEF T
  <2>1. n - 1 \in Nat
    BY <1>1
  <2> QED BY <1>5, <1>6, <2>1, Upwards
<1>8. (n - 1) + 1 = n /\ FlattenSeq(seqs) = f[n] /\ (n = 1 => f[n] = seqs[1]) /\ n \in 1..n
  BY <1>1, <1>2 DEF Flattens, n
<1>9. P(n)
  BY <1>1, <1>7, <1>8
<1> QED BY <1>3, <1>8, <1>9 DEF n, P

\* Sequences of eight, as the announced files are.
LEMMA FlatOfEight ==
  ASSUME NEW S, NEW seqs \in Seq(Seq(S)), \A i \in 1..Len(seqs) : Len(seqs[i]) = 8
  PROVE  /\ FlattenSeq(seqs) \in Seq(S)
         /\ Len(FlattenSeq(seqs)) = 8 * Len(seqs)
         /\ \A i \in 1..Len(seqs), r \in 1..8 : FlattenSeq(seqs)[8 * (i - 1) + r] = seqs[i][r]
<1> DEFINE n == Len(seqs)
<1>1. n \in Nat /\ \A i \in 1..n : seqs[i] \in Seq(S)
  BY LenProperties, ElementOfSeq
<1>2. CASE seqs = <<>>
  <2>1. FlattenSeq(seqs) = <<>> /\ Len(seqs) = 0
    BY <1>2, EmptySeq DEF FlattenSeq
  <2>2. <<>> \in Seq(S) /\ Len(<<>>) = 0
    BY EmptySeq
  <2>3. 1..Len(seqs) = {} /\ 8 * Len(seqs) = 0
    BY <2>1
  <2> QED BY <2>1, <2>2, <2>3
<1>3. CASE seqs # <<>>
  <2>1. n # 0
    BY <1>3, EmptySeq
  <2>2. PICK f : Flattens(f, seqs, S)
    BY <1>3, FlattenIs
  <2> DEFINE Ok(s, k) == /\ s \in Seq(S) /\ Len(s) = 8 * k
                         /\ \A i \in 1..k, r \in 1..8 : s[8 * (i - 1) + r] = seqs[i][r]
             T == {k \in Nat : k + 1 <= n => Ok(f[k + 1], k + 1)}
  <2>3. \A i \in 1..n : f[i] \in Seq(S) /\ seqs[i] \in Seq(S) /\ Len(seqs[i]) = 8
    BY <1>1, <2>2 DEF Flattens
  <2> HIDE DEF n
  <2>4. 0 \in T
    <3>1. f[1] = seqs[1] /\ 1 \in 1..n
      BY <1>1, <2>1, <2>2 DEF Flattens
    <3>2. \A i \in 1..1, r \in 1..8 : 8 * (i - 1) + r = r /\ i = 1
      OBVIOUS
    <3> QED BY <2>3, <3>1, <3>2
  <2>5. ASSUME NEW k \in Nat, k \in T PROVE k + 1 \in T
    <3> SUFFICES ASSUME k + 2 <= n PROVE Ok(f[k + 2], k + 2)
      <4>1. (k + 1) + 1 = k + 2
        OBVIOUS
      <4> HIDE DEF Ok
      <4> QED BY <4>1
    <3> DEFINE a == f[k + 1]
               b == seqs[k + 2]
               c == f[k + 2]
    <3>1. k + 2 \in 2..n /\ k + 2 \in 1..n /\ k + 1 \in 1..n /\ (k + 2) - 1 = k + 1
      BY <1>1
    <3>2. c = a \o b /\ a \in Seq(S) /\ b \in Seq(S) /\ Len(b) = 8 /\ c \in Seq(S)
      BY <2>2, <2>3, <3>1 DEF Flattens, n
    <3>3. Ok(a, k + 1)
      BY <2>5, <3>1
    <3> HIDE DEF a, b, c, T
    <3>0. Len(a) = 8 * (k + 1) /\ 8 * (k + 1) + 8 = 8 * (k + 2)
      BY <3>3
    <3>9. /\ Len(c) = Len(a) + Len(b)
          /\ \A x \in 1..(Len(a) + Len(b)) : c[x] = IF x <= Len(a) THEN a[x] ELSE b[x - Len(a)]
      BY <3>2, ConcatProperties
    <3>4. /\ Len(a) = 8 * (k + 1) /\ Len(c) = 8 * (k + 2)
          /\ \A x \in 1..(8 * (k + 2)) : c[x] = IF x <= 8 * (k + 1) THEN a[x] ELSE b[x - 8 * (k + 1)]
      <4>1. Len(a) + Len(b) = 8 * (k + 2)
        BY <3>0, <3>2
      <4> QED BY <3>0, <3>9, <4>1
    <3>5. \A i \in 1..(k + 2), r \in 1..8 : c[8 * (i - 1) + r] = seqs[i][r]
      <4> SUFFICES ASSUME NEW i \in 1..(k + 2), NEW r \in 1..8
                   PROVE  c[8 * (i - 1) + r] = seqs[i][r]
        OBVIOUS
      <4>1. CASE i <= k + 1
        <5>1. 8 * (i - 1) + r \in 1..(8 * (k + 2)) /\ 8 * (i - 1) + r <= 8 * (k + 1) /\ i \in 1..(k + 1)
          BY <4>1
        <5> QED BY <3>3, <3>4, <5>1
      <4>2. CASE i = k + 2
        <5>1. /\ 8 * (i - 1) + r \in 1..(8 * (k + 2)) /\ ~(8 * (i - 1) + r <= 8 * (k + 1))
              /\ (8 * (i - 1) + r) - 8 * (k + 1) = r
          BY <4>2
        <5> QED BY <3>4, <4>2, <5>1 DEF b
      <4> QED BY <4>1, <4>2
    <3> QED BY <3>2, <3>4, <3>5 DEF c
  <2>6. n - 1 \in T
    <3> HIDE DEF T
    <3>1. n - 1 \in Nat
      BY <1>1, <2>1
    <3> QED BY <2>4, <2>5, <3>1, Upwards
  <2>7. (n - 1) + 1 = n /\ FlattenSeq(seqs) = f[n]
    BY <1>1, <2>2 DEF Flattens, n
  <2>8. Ok(f[n], n)
    BY <2>6, <2>7
  <2> QED BY <2>7, <2>8 DEF n
<1> QED BY <1>2, <1>3

-----------------------------------------------------------------------------
(* What parse_message reads. *)

Lexemes == Keys \cup Words
Tokens == Seq(Lexemes) \ {<<>>}
Readings == [tokens : Seq(Tokens), buf : Seq(Lexemes), inside : BOOLEAN]

\* The tokens, with the one that is being collected.
Closed(acc) == IF acc.buf = <<>> THEN acc.tokens ELSE Append(acc.tokens, acc.buf)

LEMMA FlushIs ==
  ASSUME NEW acc \in Readings
  PROVE  /\ Closed(acc) \in Seq(Tokens)
         /\ Flush(acc) = [tokens |-> Closed(acc), buf |-> <<>>, inside |-> acc.inside]
<1>1. acc.tokens \in Seq(Tokens) /\ acc.buf \in Seq(Lexemes) /\ acc.inside \in BOOLEAN
  BY DEF Readings
<1>2. acc = [tokens |-> acc.tokens, buf |-> acc.buf, inside |-> acc.inside]
  BY DEF Readings
<1>3. CASE acc.buf = <<>>
  <2>1. Flush(acc) = acc /\ Closed(acc) = acc.tokens
    BY <1>3 DEF Flush, Closed
  <2> QED BY <1>1, <1>2, <1>3, <2>1
<1>4. CASE acc.buf # <<>>
  <2>1. acc.buf \in Tokens
    BY <1>1, <1>4 DEF Tokens
  <2>2. Closed(acc) = Append(acc.tokens, acc.buf)
    BY <1>4 DEF Closed
  <2>3. Append(acc.tokens, acc.buf) \in Seq(Tokens)
    BY <1>1, <2>1, AppendProperties
  <2>4. Flush(acc) = [tokens |-> Append(acc.tokens, acc.buf), buf |-> <<>>, inside |-> acc.inside]
    BY <1>4 DEF Flush, Readings
  <2> QED BY <2>2, <2>3, <2>4
<1> QED BY <1>3, <1>4

\* What one lexeme does to a reading.
LEMMA TakeIs ==
  ASSUME NEW acc \in Readings, NEW x \in Lexemes
  PROVE  /\ Take(acc, x) \in Readings
         /\ x = "\n" => Take(acc, x) = acc
         /\ x = " " /\ ~acc.inside =>
              Take(acc, x) = [tokens |-> Closed(acc), buf |-> <<>>, inside |-> FALSE]
         /\ x = "[" => Take(acc, x) = [tokens |-> Closed(acc), buf |-> <<>>, inside |-> TRUE]
         /\ x = "]" => Take(acc, x) = [tokens |-> acc.tokens, buf |-> acc.buf, inside |-> FALSE]
         /\ x \notin {"\n", "[", "]"} /\ (x = " " => acc.inside) =>
              Take(acc, x) = [tokens |-> acc.tokens, buf |-> Append(acc.buf, x),
                              inside |-> acc.inside]
<1>1. acc.tokens \in Seq(Tokens) /\ acc.buf \in Seq(Lexemes) /\ acc.inside \in BOOLEAN
  BY DEF Readings
<1>2. Closed(acc) \in Seq(Tokens)
  BY FlushIs
<1>3. Append(acc.buf, x) \in Seq(Lexemes) /\ <<>> \in Seq(Lexemes)
  BY <1>1, AppendProperties, EmptySeq
<1>4. Flush(acc) = [tokens |-> Closed(acc), buf |-> <<>>, inside |-> acc.inside]
  BY FlushIs
<1>0. \A t \in Seq(Tokens), b \in Seq(Lexemes), i \in BOOLEAN :
        [tokens |-> t, buf |-> b, inside |-> i] \in Readings
  BY DEF Readings
<1>5. CASE x = "\n"
  BY <1>5 DEF Take
<1>6. CASE x = " " /\ ~acc.inside
  <2>1. Take(acc, x) = Flush(acc) /\ acc.inside = FALSE
    BY <1>1, <1>6 DEF Take
  <2>2. Take(acc, x) = [tokens |-> Closed(acc), buf |-> <<>>, inside |-> FALSE]
    BY <1>4, <2>1
  <2>3. Take(acc, x) \in Readings
    BY <1>0, <1>2, <1>3, <2>2
  <2> QED BY <1>6, <2>2, <2>3
<1>7. CASE x = "["
  <2>1. Take(acc, x) = [Flush(acc) EXCEPT !.inside = TRUE]
    BY <1>7 DEF Take
  <2> HIDE DEF Flush
  <2>4. Flush(acc).tokens = Closed(acc) /\ Flush(acc).buf = <<>>
    BY <1>4
  <2>5. [Flush(acc) EXCEPT !.inside = TRUE] = [[tokens |-> Closed(acc), buf |-> <<>>, inside |-> acc.inside] EXCEPT !.inside = TRUE]
    BY <1>4
  <2>2. Take(acc, x) = [tokens |-> Closed(acc), buf |-> <<>>, inside |-> TRUE]
    BY <2>1, <2>5
  <2>3. Take(acc, x) \in Readings
    BY <1>0, <1>2, <1>3, <2>2
  <2> QED BY <1>7, <2>2, <2>3
<1>8. CASE x = "]"
  <2>1. Take(acc, x) = [tokens |-> acc.tokens, buf |-> acc.buf, inside |-> FALSE]
    BY <1>8 DEF Take, Readings
  <2>3. Take(acc, x) \in Readings
    BY <1>0, <1>1, <2>1
  <2> QED BY <1>8, <2>1, <2>3
<1>9. CASE x \notin {"\n", "[", "]"} /\ (x = " " => acc.inside)
  <2>1. Take(acc, x) = [acc EXCEPT !.buf = Append(@, x)]
    BY <1>9 DEF Take
  <2>2. Take(acc, x) = [tokens |-> acc.tokens, buf |-> Append(acc.buf, x), inside |-> acc.inside]
    BY <2>1 DEF Readings
  <2>3. Take(acc, x) \in Readings
    BY <1>0, <1>1, <1>3, <2>2
  <2> QED BY <1>9, <2>2, <2>3
<1> QED BY <1>5, <1>6, <1>7, <1>8, <1>9

\* The readings of a text.
Taken(g, text) ==
  /\ g \in [0..Len(text) -> Readings]
  /\ g[0] = Unread
  /\ \A i \in 1..Len(text) : g[i] = Take(g[i - 1], text[i])
  /\ Parse(text) = Closed(g[Len(text)])

LEMMA UnreadTyped == Unread \in Readings
<1>1. <<>> \in Seq(Tokens) /\ <<>> \in Seq(Lexemes)
  BY EmptySeq
<1> QED BY <1>1 DEF Unread, Readings

LEMMA ReadIs ==
  ASSUME NEW text \in Seq(Lexemes)
  PROVE  (\E g : Taken(g, text)) /\ Parse(text) \in Seq(Tokens)
<1> DEFINE m == Len(text)
           Body(f) == [i \in 0..m |-> IF i = 0 THEN Unread ELSE Take(f[i - 1], text[i])]
           taken == CHOOSE f : f = [i \in 0..Len(text) |-> IF i = 0 THEN Unread ELSE Take(f[i - 1], text[i])]
           F == [a \in Readings |-> [i \in 1..m |-> Take(a, text[i])]]
<1>1. m \in Nat /\ \A i \in 1..m : text[i] \in Lexemes
  BY LenProperties, ElementOfSeq
<1>2. Parse(text) = Flush(taken[m]).tokens
  BY DEF Parse
<1>3. \A f : Body(f) = [i \in 0..Len(text) |-> IF i = 0 THEN Unread ELSE Take(f[i - 1], text[i])]
  OBVIOUS
<1> HIDE DEF m
<1>4. \A a \in Readings, i \in 1..m : Take(a, text[i]) \in Readings
  BY <1>1, TakeIs
<1>5. F \in [Readings -> [1..m -> Readings]]
  BY <1>4
<1>6. \A a \in Readings, i \in 1..m : F[a][i] = Take(a, text[i])
  OBVIOUS
<1> HIDE DEF F
<1>7. PICK g : Runs(g, Unread, F, Readings, m)
  BY <1>1, <1>5, UnreadTyped, Recursion, Zenon
<1>8. /\ g \in [0..m -> Readings] /\ g[0] = Unread
      /\ \A i \in 1..m : g[i] = Take(g[i - 1], text[i])
  <2>1. \A i \in 1..m : i - 1 \in 0..m
    BY <1>1
  <2> QED BY <1>6, <1>7, <2>1 DEF Runs
<1>9. g = Body(g)
  <2>1. \A i \in 0..m : i = 0 \/ i \in 1..m
    BY <1>1
  <2>2. \A i \in 0..m : g[i] = IF i = 0 THEN Unread ELSE Take(g[i - 1], text[i])
    BY <1>8, <2>1
  <2> QED BY <1>8, <2>2
<1>10. taken = Body(taken)
  BY <1>3, <1>9
<1> HIDE DEF taken
<1>11. \A i \in 0..m : taken[i] = IF i = 0 THEN Unread ELSE Take(taken[i - 1], text[i])
  BY <1>10
<1> DEFINE T == {k \in Nat : k <= m => taken[k] = g[k]}
<1>12. 0 \in T
  BY <1>1, <1>8, <1>11
<1>13. ASSUME NEW k \in Nat, k \in T PROVE k + 1 \in T
  <2> SUFFICES ASSUME k + 1 <= m PROVE taken[k + 1] = g[k + 1]
    OBVIOUS
  <2>1. taken[k] = g[k] /\ k + 1 \in 1..m /\ k + 1 \in 0..m /\ k + 1 # 0 /\ (k + 1) - 1 = k
    BY <1>1, <1>13
  <2>2. taken[k + 1] = Take(taken[k], text[k + 1])
    BY <1>11, <2>1
  <2>3. g[k + 1] = Take(g[k], text[k + 1])
    BY <1>8, <2>1
  <2> QED BY <2>1, <2>2, <2>3
<1>14. m \in T
  <2> HIDE DEF T
  <2> QED BY <1>1, <1>12, <1>13, Upwards
<1>15. taken[m] = g[m] /\ g[m] \in Readings
  BY <1>1, <1>8, <1>14
<1>16. Parse(text) = Closed(g[m]) /\ Closed(g[m]) \in Seq(Tokens)
  BY <1>2, <1>15, FlushIs
<1> QED BY <1>8, <1>16 DEF Taken, m

\* A token once read stays what it is.
Lengthens(s, t) == Len(s) <= Len(t) /\ \A i \in 1..Len(s) : t[i] = s[i]

LEMMA TokensGrow ==
  ASSUME NEW text \in Seq(Lexemes), NEW g, Taken(g, text), NEW p \in 0..Len(text)
  PROVE  /\ \A q \in p..Len(text) : Lengthens(g[p].tokens, g[q].tokens)
         /\ Lengthens(g[p].tokens, Parse(text))
<1> DEFINE m == Len(text)
           T == {k \in Nat : p + k <= m => Lengthens(g[p].tokens, g[p + k].tokens)}
<1>1. /\ m \in Nat /\ p \in Nat /\ p <= m /\ \A i \in 1..m : text[i] \in Lexemes
      /\ \A i \in 0..m : g[i] \in Readings
  <2>1. m \in Nat /\ \A i \in 1..m : text[i] \in Lexemes
    BY LenProperties, ElementOfSeq
  <2>2. g \in [0..m -> Readings]
    BY DEF Taken
  <2> QED BY <2>1, <2>2
<1>2. \A i \in 0..m : g[i].tokens \in Seq(Tokens) /\ Len(g[i].tokens) \in Nat
  BY <1>1, LenProperties DEF Readings
<1>3. ASSUME NEW acc \in Readings
      PROVE  Lengthens(acc.tokens, Closed(acc)) /\ Closed(acc) \in Seq(Tokens)
  <2>1. acc.tokens \in Seq(Tokens) /\ Len(acc.tokens) \in Nat
    BY LenProperties DEF Readings
  <2>2. CASE acc.buf = <<>>
    BY <2>1, <2>2, FlushIs DEF Closed, Lengthens
  <2>3. CASE acc.buf # <<>>
    <3>1. acc.buf \in Tokens /\ Closed(acc) = Append(acc.tokens, acc.buf)
      BY <2>3 DEF Closed, Tokens, Readings
    <3> QED BY <2>1, <3>1, AppendProperties DEF Lengthens
  <2> QED BY <2>2, <2>3
<1>4. ASSUME NEW i \in 1..m PROVE Lengthens(g[i - 1].tokens, g[i].tokens)
  <2> DEFINE a == g[i - 1]
             x == text[i]
  <2>1. g[i] = Take(a, x) /\ a \in Readings /\ x \in Lexemes
    BY <1>1 DEF Taken
  <2> HIDE DEF a, x
  <2>2. Take(a, x).tokens = a.tokens \/ Take(a, x).tokens = Closed(a)
    <3>1. CASE x = "\n"
      BY <2>1, <3>1, TakeIs
    <3>2. CASE x = " " /\ ~a.inside
      <4>1. Take(a, x) = [tokens |-> Closed(a), buf |-> <<>>, inside |-> FALSE]
        BY <2>1, <3>2, TakeIs
      <4> QED BY <4>1
    <3>3. CASE x = "["
      <4>1. Take(a, x) = [tokens |-> Closed(a), buf |-> <<>>, inside |-> TRUE]
        BY <2>1, <3>3, TakeIs
      <4> QED BY <4>1
    <3>4. CASE x = "]"
      <4>1. Take(a, x) = [tokens |-> a.tokens, buf |-> a.buf, inside |-> FALSE]
        BY <2>1, <3>4, TakeIs
      <4> QED BY <4>1
    <3>5. CASE x \notin {"\n", "[", "]"} /\ (x = " " => a.inside)
      <4>1. Take(a, x) = [tokens |-> a.tokens, buf |-> Append(a.buf, x), inside |-> a.inside]
        BY <2>1, <3>5, TakeIs
      <4> QED BY <4>1
    <3> QED BY <3>1, <3>2, <3>3, <3>4, <3>5
  <2>3. a.tokens \in Seq(Tokens) /\ Len(a.tokens) \in Nat
    BY <2>1, LenProperties DEF Readings
  <2>4. Lengthens(a.tokens, a.tokens)
    BY <2>3 DEF Lengthens
  <2> QED BY <1>3, <2>1, <2>2, <2>4 DEF a
<1>5. ASSUME NEW r, NEW s, NEW t, Len(r) \in Nat, Len(s) \in Nat, Len(t) \in Nat,
             Lengthens(r, s), Lengthens(s, t)
      PROVE  Lengthens(r, t)
  BY <1>5 DEF Lengthens
<1> HIDE DEF m
<1>6. 0 \in T
  <2>1. p + 0 = p /\ p \in 0..m
    BY <1>1
  <2> QED BY <1>1, <1>2, <2>1 DEF Lengthens
<1>7. ASSUME NEW k \in Nat, k \in T PROVE k + 1 \in T
  <2> SUFFICES ASSUME p + (k + 1) <= m PROVE Lengthens(g[p].tokens, g[p + (k + 1)].tokens)
    OBVIOUS
  <2>1. /\ p + k <= m /\ p + k \in 0..m /\ p + (k + 1) \in 1..m /\ p + (k + 1) \in 0..m /\ p \in 0..m
        /\ (p + (k + 1)) - 1 = p + k
    BY <1>1
  <2>2. Lengthens(g[p].tokens, g[p + k].tokens)
    BY <1>7, <2>1
  <2>3. Lengthens(g[p + k].tokens, g[p + (k + 1)].tokens)
    BY <1>4, <2>1
  <2> QED BY <1>2, <1>5, <2>1, <2>2, <2>3
<1>8. \A k \in Nat : k \in T
  <2> HIDE DEF T
  <2> QED BY <1>6, <1>7, Upwards
<1>9. \A q \in p..m : Lengthens(g[p].tokens, g[q].tokens)
  <2> SUFFICES ASSUME NEW q \in p..m PROVE Lengthens(g[p].tokens, g[q].tokens)
    OBVIOUS
  <2>1. q - p \in Nat /\ p + (q - p) = q /\ q <= m
    BY <1>1
  <2>2. q - p \in T
    BY <1>8, <2>1
  <2> QED BY <2>1, <2>2
<1>10. Lengthens(g[p].tokens, Parse(text))
  <2>1. Lengthens(g[p].tokens, g[m].tokens) /\ m \in 0..m /\ p \in 0..m
    BY <1>1, <1>9
  <2>2. Lengthens(g[m].tokens, Closed(g[m])) /\ Closed(g[m]) \in Seq(Tokens)
    BY <1>1, <1>3, <2>1
  <2>3. Parse(text) = Closed(g[m])
    BY DEF Taken, m
  <2> QED BY <1>2, <1>5, <2>1, <2>2, <2>3, LenProperties
<1> QED BY <1>9, <1>10 DEF m

LEMMA AppendFirst ==
  ASSUME NEW S, NEW x \in S
  PROVE  Append(<<>>, x) = <<x>> /\ Append(<<>>, x) # <<>>
<1>1. <<>> \in Seq(S) /\ Len(<<>>) = 0
  BY EmptySeq
<1>2. /\ Append(<<>>, x) \in Seq(S) /\ Len(Append(<<>>, x)) = Len(<<>>) + 1
      /\ Append(<<>>, x)[Len(<<>>) + 1] = x
  BY <1>1, AppendProperties
<1>3. Len(Append(<<>>, x)) = 1 /\ Append(<<>>, x)[1] = x
  BY <1>1, <1>2
<1>4. <<x>> \in Seq(S) /\ Len(<<x>>) = 1 /\ <<x>>[1] = x
  OBVIOUS
<1>5. Append(<<>>, x) = <<x>>
  <2>1. \A i \in 1..1 : i = 1
    OBVIOUS
  <2> QED BY <1>2, <1>3, <1>4, <2>1, SeqEqual
<1> QED BY <1>1, <1>3, <1>5

\* The first lexeme of the first token, read or being collected.
Begun(acc, x) ==
  \/ acc.tokens # <<>> /\ acc.tokens[1] # <<>> /\ acc.tokens[1][1] = x
  \/ acc.tokens = <<>> /\ acc.buf # <<>> /\ acc.buf[1] = x
Unbegun(acc) == acc.tokens = <<>> /\ acc.buf = <<>>

LEMMA StaysBegun ==
  ASSUME NEW acc \in Readings, NEW x, Begun(acc, x)
  PROVE  /\ Closed(acc) \in Seq(Tokens) /\ Closed(acc) # <<>> /\ Closed(acc)[1][1] = x
         /\ \A y \in Lexemes : Begun(Take(acc, y), x)
<1>1. acc.tokens \in Seq(Tokens) /\ acc.buf \in Seq(Lexemes)
  BY DEF Readings
<1>2. \A i \in 1..Len(acc.tokens) : acc.tokens[i] # <<>>
  BY <1>1, ElementOfSeq DEF Tokens
<1>3. Closed(acc) \in Seq(Tokens) /\ Closed(acc) # <<>> /\ Closed(acc)[1] # <<>> /\ Closed(acc)[1][1] = x
  <2>1. CASE acc.buf = <<>>
    BY <1>1, <2>1 DEF Closed, Begun
  <2>2. CASE acc.buf # <<>>
    <3>1. acc.buf \in Tokens /\ Closed(acc) = Append(acc.tokens, acc.buf)
      BY <1>1, <2>2 DEF Closed, Tokens
    <3>2. /\ Closed(acc) \in Seq(Tokens) /\ Len(Closed(acc)) = Len(acc.tokens) + 1 /\ Len(acc.tokens) \in Nat
          /\ Closed(acc)[Len(acc.tokens) + 1] = acc.buf
          /\ \A i \in 1..Len(acc.tokens) : Closed(acc)[i] = acc.tokens[i]
      BY <1>1, <3>1, AppendProperties, LenProperties
    <3>3. Closed(acc) # <<>>
      BY <3>2, EmptySeq
    <3>4. CASE acc.tokens = <<>>
      <4>1. Closed(acc)[1] = acc.buf
        BY <3>2, <3>4, EmptySeq
      <4> QED BY <2>2, <3>2, <3>3, <3>4, <4>1 DEF Begun
    <3>5. CASE acc.tokens # <<>>
      <4>1. Len(acc.tokens) >= 1
        BY <1>1, <3>2, <3>5, EmptySeq
      <4>2. Closed(acc)[1] = acc.tokens[1]
        BY <3>2, <4>1
      <4> QED BY <3>2, <3>3, <3>5, <4>2 DEF Begun
    <3> QED BY <3>4, <3>5
  <2> QED BY <2>1, <2>2
<1>4. ASSUME NEW y \in Lexemes PROVE Begun(Take(acc, y), x)
  <2>1. CASE y = "\n"
    BY <2>1, TakeIs
  <2>2. CASE y = " " /\ ~acc.inside
    <3>1. Take(acc, y) = [tokens |-> Closed(acc), buf |-> <<>>, inside |-> FALSE]
      BY <2>2, TakeIs
    <3> QED BY <1>3, <3>1 DEF Begun
  <2>3. CASE y = "["
    <3>1. Take(acc, y) = [tokens |-> Closed(acc), buf |-> <<>>, inside |-> TRUE]
      BY <2>3, TakeIs
    <3> QED BY <1>3, <3>1 DEF Begun
  <2>4. CASE y = "]"
    <3>1. Take(acc, y) = [tokens |-> acc.tokens, buf |-> acc.buf, inside |-> FALSE]
      BY <2>4, TakeIs
    <3> QED BY <3>1 DEF Begun
  <2>5. CASE y \notin {"\n", "[", "]"} /\ (y = " " => acc.inside)
    <3>1. Take(acc, y) = [tokens |-> acc.tokens, buf |-> Append(acc.buf, y), inside |-> acc.inside]
      BY <2>5, TakeIs
    <3>2. /\ Append(acc.buf, y) \in Seq(Lexemes) /\ Len(Append(acc.buf, y)) = Len(acc.buf) + 1
          /\ Len(acc.buf) \in Nat /\ \A i \in 1..Len(acc.buf) : Append(acc.buf, y)[i] = acc.buf[i]
      BY <1>1, AppendProperties, LenProperties
    <3>3. Append(acc.buf, y) # <<>>
      BY <3>2, EmptySeq
    <3>4. acc.buf # <<>> => Append(acc.buf, y)[1] = acc.buf[1]
      <4>1. acc.buf # <<>> => Len(acc.buf) >= 1
        BY <1>1, <3>2, EmptySeq
      <4> QED BY <3>2, <4>1
    <3> QED BY <3>1, <3>3, <3>4 DEF Begun
  <2> QED BY <2>1, <2>2, <2>3, <2>4, <2>5
<1> QED BY <1>3, <1>4

\* The first token begins with the first lexeme that is part of one.
LEMMA FirstWord ==
  ASSUME NEW text \in Seq(Lexemes), NEW g, Taken(g, text), Parse(text) # <<>>
  PROVE  \E p \in 0..(Len(text) - 1) :
           /\ \A i \in 0..p : Unbegun(g[i])
           /\ Parse(text)[1][1] = text[p + 1]
           /\ text[p + 1] \notin {"\n", "[", "]"} /\ (text[p + 1] = " " => g[p].inside)
<1> DEFINE m == Len(text)
           I == {i \in 0..m : ~Unbegun(g[i])}
<1>1. /\ m \in Nat /\ \A i \in 1..m : text[i] \in Lexemes
      /\ \A i \in 0..m : g[i] \in Readings
  <2>1. m \in Nat /\ \A i \in 1..m : text[i] \in Lexemes
    BY LenProperties, ElementOfSeq
  <2>2. g \in [0..m -> Readings]
    BY DEF Taken
  <2> QED BY <2>1, <2>2
<1>2. /\ g[0] = Unread
      /\ \A i \in 1..m : g[i] = Take(g[i - 1], text[i])
      /\ Parse(text) = Closed(g[m])
  BY DEF Taken
<1> HIDE DEF m
<1>3. m \in I
  BY <1>1, <1>2 DEF Unbegun, Closed
<1>4. PICK q \in I : \A i \in I : q <= i
  <2>1. I \in SUBSET Nat /\ I # {}
    BY <1>1, <1>3
  <2> HIDE DEF I
  <2> QED BY <2>1, Least
<1>5. q # 0
  BY <1>2 DEF Unbegun, Unread
<1> DEFINE p == q - 1
           x == text[q]
<1>6. q \in 1..m /\ p \in 0..(m - 1) /\ p + 1 = q /\ p \in 0..m
  BY <1>1, <1>4, <1>5
<1>7. \A i \in 0..p : Unbegun(g[i])
  BY <1>1, <1>4, <1>6
<1>8. Unbegun(g[p]) /\ g[p] \in Readings /\ x \in Lexemes /\ g[q] = Take(g[p], x) /\ ~Unbegun(g[q])
  BY <1>1, <1>2, <1>4, <1>6, <1>7
<1> HIDE DEF p, x, I
<1>9. x \notin {"\n", "[", "]"} /\ (x = " " => g[p].inside)
  <2>1. Closed(g[p]) = <<>> /\ g[p].tokens = <<>> /\ g[p].buf = <<>>
    BY <1>8 DEF Closed, Unbegun
  <2>6. ~(g[q].tokens = <<>> /\ g[q].buf = <<>>)
    BY <1>8 DEF Unbegun
  <2>2. CASE x = "\n"
    BY <1>8, <2>2, TakeIs
  <2>3. CASE x = " " /\ ~g[p].inside
    <3>1. g[q] = [tokens |-> Closed(g[p]), buf |-> <<>>, inside |-> FALSE]
      BY <1>8, <2>3, TakeIs
    <3>2. g[q].tokens = Closed(g[p]) /\ g[q].buf = <<>>
      BY <3>1
    <3> QED BY <2>1, <2>6, <3>2
  <2>4. CASE x = "["
    <3>1. g[q] = [tokens |-> Closed(g[p]), buf |-> <<>>, inside |-> TRUE]
      BY <1>8, <2>4, TakeIs
    <3>2. g[q].tokens = Closed(g[p]) /\ g[q].buf = <<>>
      BY <3>1
    <3> QED BY <2>1, <2>6, <3>2
  <2>5. CASE x = "]"
    <3>1. g[q] = [tokens |-> g[p].tokens, buf |-> g[p].buf, inside |-> FALSE]
      BY <1>8, <2>5, TakeIs
    <3>2. g[q].tokens = g[p].tokens /\ g[q].buf = g[p].buf
      BY <3>1
    <3> QED BY <2>1, <2>6, <3>2
  <2> QED BY <2>2, <2>3, <2>4, <2>5
<1>10. Begun(g[q], x)
  <2>1. g[q] = [tokens |-> g[p].tokens, buf |-> Append(g[p].buf, x), inside |-> g[p].inside]
    BY <1>8, <1>9, TakeIs
  <2>2. g[p].tokens = <<>> /\ g[p].buf = <<>>
    BY <1>8 DEF Unbegun
  <2>3. Append(<<>>, x) # <<>> /\ Append(<<>>, x)[1] = x
    BY <1>8, AppendFirst
  <2> QED BY <2>1, <2>2, <2>3 DEF Begun
<1> DEFINE T == {k \in Nat : q + k <= m => Begun(g[q + k], x)}
<1>11. 0 \in T
  BY <1>6, <1>10
<1>12. ASSUME NEW k \in Nat, k \in T PROVE k + 1 \in T
  <2> SUFFICES ASSUME q + (k + 1) <= m PROVE Begun(g[q + (k + 1)], x)
    OBVIOUS
  <2>1. /\ q + k <= m /\ q + k \in 0..m /\ q + (k + 1) \in 1..m
        /\ (q + (k + 1)) - 1 = q + k
    BY <1>1, <1>6
  <2>2. Begun(g[q + k], x) /\ g[q + k] \in Readings
    BY <1>1, <1>12, <2>1
  <2>3. g[q + (k + 1)] = Take(g[q + k], text[q + (k + 1)]) /\ text[q + (k + 1)] \in Lexemes
    BY <1>1, <1>2, <2>1
  <2> QED BY <2>2, <2>3, StaysBegun
<1>13. m - q \in T
  <2> HIDE DEF T
  <2>1. m - q \in Nat
    BY <1>1, <1>6
  <2> QED BY <1>11, <1>12, <2>1, Upwards
<1>14. Begun(g[m], x) /\ g[m] \in Readings
  <2>1. q + (m - q) = m /\ m \in 0..m
    BY <1>1, <1>6
  <2> QED BY <1>1, <1>13, <2>1
<1>15. Parse(text)[1][1] = x
  BY <1>2, <1>14, StaysBegun
<1> QED BY <1>6, <1>7, <1>9, <1>15 DEF m, x

\* The lexemes that a token begins or ends with, or that are skipped.
Special == {" ", "[", "]", "\n"}

LEMMA TakeOther ==
  ASSUME NEW acc \in Readings, NEW x \in Lexemes, x \notin Special
  PROVE  /\ Take(acc, x) \in Readings
         /\ Take(acc, x) = [tokens |-> acc.tokens, buf |-> Append(acc.buf, x),
                            inside |-> acc.inside]
<1>1. x \notin {"\n", "[", "]"} /\ (x = " " => acc.inside)
  BY DEF Special
<1> QED BY <1>1, TakeIs

\* A text that ends in a word: the word is the last one of the last token.
LEMMA LastTaken ==
  ASSUME NEW s \in Seq(Lexemes), NEW z \in Lexemes, z \notin Special,
         NEW g, Taken(g, Append(s, z))
  PROVE  /\ g[0] = Unread
         /\ \A i \in 1..Len(s) : g[i] = Take(g[i - 1], s[i])
         /\ g[Len(s)] \in Readings
         /\ Parse(Append(s, z)) = Append(g[Len(s)].tokens, Append(g[Len(s)].buf, z))
<1> DEFINE n == Len(s)
           t == Append(s, z)
           a == g[n]
<1>1. /\ n \in Nat /\ t \in Seq(Lexemes) /\ Len(t) = n + 1 /\ t[n + 1] = z
      /\ \A i \in 1..n : t[i] = s[i]
  <2>1. z \in Lexemes
    OBVIOUS
  <2> QED BY <2>1, AppendProperties, LenProperties
<1>2. /\ g \in [0..(n + 1) -> Readings] /\ g[0] = Unread
      /\ \A i \in 1..(n + 1) : g[i] = Take(g[i - 1], t[i])
      /\ Parse(t) = Closed(g[n + 1])
  BY <1>1 DEF Taken
<1> HIDE DEF n, t
<1>3. /\ n \in 0..(n + 1) /\ n + 1 \in 1..(n + 1) /\ (n + 1) - 1 = n
      /\ \A i \in 1..n : i \in 1..(n + 1)
  BY <1>1
<1>4. \A i \in 1..n : g[i] = Take(g[i - 1], s[i])
  BY <1>1, <1>2, <1>3
<1>5. a \in Readings /\ g[n + 1] = Take(a, z)
  BY <1>1, <1>2, <1>3
<1> HIDE DEF a
<1>6. Take(a, z) = [tokens |-> a.tokens, buf |-> Append(a.buf, z), inside |-> a.inside]
  BY <1>5, TakeOther
<1>7. Append(a.buf, z) # <<>>
  <2>1. a.buf \in Seq(Lexemes) /\ z \in Lexemes
    BY <1>5 DEF Readings
  <2> QED BY <2>1, AppendProperties
<1>8. Closed(g[n + 1]) = Append(a.tokens, Append(a.buf, z))
  BY <1>5, <1>6, <1>7 DEF Closed
<1> QED BY <1>2, <1>4, <1>5, <1>8 DEF n, t, a

\* Two texts that differ in a word at their end differ there in their last token.
LEMMA LastWord ==
  ASSUME NEW s \in Seq(Lexemes), NEW x \in Lexemes, NEW y \in Lexemes,
         x \notin Special, y \notin Special
  PROVE  \E ts \in Seq(Tokens), b \in Seq(Lexemes) :
           /\ Parse(Append(s, x)) = Append(ts, Append(b, x))
           /\ Parse(Append(s, y)) = Append(ts, Append(b, y))
<1> DEFINE n == Len(s)
<1>1. n \in Nat
  BY LenProperties
<1>2. Append(s, x) \in Seq(Lexemes) /\ Append(s, y) \in Seq(Lexemes)
  <2>1. x \in Lexemes /\ y \in Lexemes
    OBVIOUS
  <2> QED BY <2>1, AppendProperties
<1>3. PICK g : Taken(g, Append(s, x))
  BY <1>2, ReadIs
<1>4. PICK f : Taken(f, Append(s, y))
  BY <1>2, ReadIs
<1>5. /\ g[0] = Unread /\ g[n] \in Readings
      /\ \A i \in 1..n : g[i] = Take(g[i - 1], s[i])
      /\ Parse(Append(s, x)) = Append(g[n].tokens, Append(g[n].buf, x))
  BY <1>3, LastTaken
<1>6. /\ f[0] = Unread
      /\ \A i \in 1..n : f[i] = Take(f[i - 1], s[i])
      /\ Parse(Append(s, y)) = Append(f[n].tokens, Append(f[n].buf, y))
  BY <1>4, LastTaken
<1> HIDE DEF n
<1> DEFINE T == {k \in Nat : k <= n => g[k] = f[k]}
<1>7. 0 \in T
  BY <1>5, <1>6
<1>8. ASSUME NEW k \in Nat, k \in T PROVE k + 1 \in T
  <2> SUFFICES ASSUME k + 1 <= n PROVE g[k + 1] = f[k + 1]
    OBVIOUS
  <2>1. g[k] = f[k] /\ k + 1 \in 1..n /\ (k + 1) - 1 = k
    BY <1>1, <1>8
  <2>2. g[k + 1] = Take(g[k], s[k + 1]) /\ f[k + 1] = Take(f[k], s[k + 1])
    BY <1>5, <1>6, <2>1
  <2> QED BY <2>1, <2>2
<1>9. g[n] = f[n]
  <2>1. n \in T
    <3> HIDE DEF T
    <3> QED BY <1>1, <1>7, <1>8, Upwards
  <2> QED BY <1>1, <2>1
<1>10. g[n].tokens \in Seq(Tokens) /\ g[n].buf \in Seq(Lexemes)
  BY <1>5 DEF Readings
<1> QED BY <1>5, <1>6, <1>9, <1>10

\* Words with a space between two, as in a token that stood in brackets.
Spaced(t) ==
  \A i \in 1..Len(t) :
    /\ i % 2 = 0 => t[i] = " "
    /\ i % 2 # 0 => t[i] \notin {" ", "[", "]", "\n"}

LEMMA WordsOfToken ==
  ASSUME NEW t \in Seq(Lexemes),
         Spaced(t)
  PROVE  /\ Parse(t) \in Seq(Tokens)
         /\ Len(Parse(t)) = (Len(t) + 1) \div 2
         /\ \A i \in 1..Len(Parse(t)) : Parse(t)[i] = <<t[2 * i - 1]>> /\ 2 * i - 1 \in 1..Len(t)
<1> DEFINE m == Len(t)
           Even(a, k) == /\ a.buf = <<>> /\ ~a.inside /\ Len(a.tokens) = k
                         /\ \A i \in 1..k : a.tokens[i] = <<t[2 * i - 1]>>
           Odd(a, k) == /\ a.buf = <<t[2 * k + 1]>> /\ ~a.inside /\ Len(a.tokens) = k
                        /\ \A i \in 1..k : a.tokens[i] = <<t[2 * i - 1]>>
<1>1. /\ m \in Nat /\ \A i \in 1..m : t[i] \in Lexemes
  BY LenProperties, ElementOfSeq
<1>2. PICK g : Taken(g, t)
  BY ReadIs
<1>3. /\ \A i \in 0..m : g[i] \in Readings
      /\ g[0] = Unread
      /\ \A i \in 1..m : g[i] = Take(g[i - 1], t[i])
      /\ Parse(t) = Closed(g[m])
  <2>1. g \in [0..m -> Readings]
    BY <1>2 DEF Taken
  <2> QED BY <1>2, <2>1 DEF Taken
<1> DEFINE T == {k \in Nat : 2 * k <= m => Even(g[2 * k], k)}
<1> HIDE DEF m, Even, Odd, T
<1>4. ASSUME NEW a \in Readings, NEW k \in Nat, Even(a, k), 2 * k + 1 <= m
      PROVE  Odd(Take(a, t[2 * k + 1]), k)
  <2>1. 2 * k + 1 \in 1..m /\ (2 * k + 1) % 2 # 0
    BY <1>1, <1>4
  <2>2. t[2 * k + 1] \in Lexemes /\ t[2 * k + 1] \notin {" ", "[", "]", "\n"}
    BY <1>1, <2>1 DEF Spaced, m
  <2>3. Take(a, t[2 * k + 1]) = [tokens |-> a.tokens, buf |-> Append(a.buf, t[2 * k + 1]), inside |-> a.inside]
    BY <2>2, TakeIs
  <2>4. Append(<<>>, t[2 * k + 1]) = <<t[2 * k + 1]>>
    BY <2>2, AppendFirst
  <2> QED BY <1>4, <2>3, <2>4 DEF Even, Odd
<1>5. ASSUME NEW a \in Readings, NEW k \in Nat, Odd(a, k), 2 * k + 1 <= m
      PROVE  /\ Closed(a) \in Seq(Tokens) /\ Len(Closed(a)) = k + 1
             /\ \A i \in 1..(k + 1) : Closed(a)[i] = <<t[2 * i - 1]>>
  <2>1. a.tokens \in Seq(Tokens) /\ a.buf \in Seq(Lexemes) /\ a.buf # <<>>
    <3>1. Len(a.buf) = 1 /\ Len(<<>>) = 0
      BY <1>5, EmptySeq DEF Odd
    <3> QED BY <3>1 DEF Readings
  <2>2. a.buf \in Tokens /\ Closed(a) = Append(a.tokens, a.buf)
    BY <2>1 DEF Closed, Tokens
  <2>3. /\ Closed(a) \in Seq(Tokens) /\ Len(Closed(a)) = k + 1 /\ Closed(a)[k + 1] = a.buf
        /\ \A i \in 1..k : Closed(a)[i] = a.tokens[i]
    BY <1>5, <2>1, <2>2, AppendProperties DEF Odd
  <2>4. 2 * (k + 1) - 1 = 2 * k + 1 /\ \A i \in 1..(k + 1) : i = k + 1 \/ i \in 1..k
    OBVIOUS
  <2> QED BY <1>5, <2>3, <2>4 DEF Odd
<1>6. ASSUME NEW a \in Readings, NEW k \in Nat, Odd(a, k), 2 * k + 2 <= m
      PROVE  Even(Take(a, t[2 * k + 2]), k + 1)
  <2>1. 2 * k + 2 \in 1..m /\ (2 * k + 2) % 2 = 0 /\ 2 * k + 1 <= m
    BY <1>1, <1>6
  <2>2. t[2 * k + 2] = " " /\ " " \in Lexemes
    BY <1>1, <2>1 DEF Spaced, m
  <2>3. Take(a, t[2 * k + 2]) = [tokens |-> Closed(a), buf |-> <<>>, inside |-> FALSE]
    BY <1>6, <2>2, TakeIs DEF Odd
  <2>4. /\ Closed(a) \in Seq(Tokens) /\ Len(Closed(a)) = k + 1
        /\ \A i \in 1..(k + 1) : Closed(a)[i] = <<t[2 * i - 1]>>
    BY <1>5, <1>6, <2>1
  <2> QED BY <2>3, <2>4 DEF Even
<1>7. 0 \in T
  <2>1. 2 * 0 = 0 /\ Len(<<>>) = 0 /\ 1..0 = {}
    BY EmptySeq
  <2>2. Even(Unread, 0)
    BY <2>1 DEF Unread, Even
  <2> QED BY <1>3, <2>1, <2>2 DEF T
<1>8. ASSUME NEW k \in Nat, k \in T PROVE k + 1 \in T
  <2> SUFFICES ASSUME 2 * (k + 1) <= m PROVE Even(g[2 * (k + 1)], k + 1)
    BY DEF T
  <2>1. /\ 2 * k <= m /\ 2 * k + 1 <= m /\ 2 * k + 2 <= m /\ 2 * (k + 1) = 2 * k + 2
        /\ 2 * k + 1 \in 1..m /\ 2 * k + 2 \in 1..m /\ 2 * k \in 0..m /\ 2 * k + 1 \in 0..m
        /\ (2 * k + 1) - 1 = 2 * k /\ (2 * k + 2) - 1 = 2 * k + 1
    BY <1>1
  <2>2. Even(g[2 * k], k) /\ g[2 * k] \in Readings /\ g[2 * k + 1] \in Readings
    BY <1>3, <1>8, <2>1 DEF T
  <2>3. g[2 * k + 1] = Take(g[2 * k], t[2 * k + 1]) /\ g[2 * k + 2] = Take(g[2 * k + 1], t[2 * k + 2])
    BY <1>3, <2>1
  <2>4. Odd(g[2 * k + 1], k)
    BY <1>4, <2>1, <2>2, <2>3
  <2>5. Even(g[2 * k + 2], k + 1)
    BY <1>6, <2>1, <2>2, <2>3, <2>4
  <2> QED BY <2>1, <2>5
<1>9. \A k \in Nat : k \in T
  <2> QED BY <1>7, <1>8, Upwards
<1> DEFINE h == m \div 2
<1>10. h \in Nat /\ (m = 2 * h \/ m = 2 * h + 1) /\ m \in 0..m
  BY <1>1
<1> HIDE DEF h
<1>11. Even(g[2 * h], h) /\ 2 * h \in 0..m /\ g[2 * h] \in Readings
  <2>1. 2 * h <= m /\ 2 * h \in 0..m
    BY <1>1, <1>10
  <2> QED BY <1>3, <1>9, <1>10, <2>1 DEF T
<1>12. CASE m = 2 * h
  <2>1. Closed(g[m]) = g[m].tokens /\ g[m].tokens \in Seq(Tokens)
    BY <1>11, <1>12 DEF Even, Closed, Readings
  <2>2. (m + 1) \div 2 = h /\ \A i \in 1..h : 2 * i - 1 \in 1..m
    BY <1>10, <1>12
  <2> QED BY <1>3, <1>11, <1>12, <2>1, <2>2 DEF Even, m
<1>13. CASE m = 2 * h + 1
  <2>1. /\ 2 * h + 1 \in 1..m /\ (2 * h + 1) - 1 = 2 * h /\ 2 * h + 1 <= m
        /\ (m + 1) \div 2 = h + 1 /\ \A i \in 1..(h + 1) : 2 * i - 1 \in 1..m
    BY <1>10, <1>13
  <2>2. g[m] = Take(g[2 * h], t[2 * h + 1]) /\ g[m] \in Readings
    BY <1>3, <1>10, <1>13, <2>1
  <2>3. Odd(g[m], h)
    BY <1>4, <1>10, <1>11, <2>1, <2>2
  <2>4. /\ Closed(g[m]) \in Seq(Tokens) /\ Len(Closed(g[m])) = h + 1
        /\ \A i \in 1..(h + 1) : Closed(g[m])[i] = <<t[2 * i - 1]>>
    BY <1>5, <1>10, <2>1, <2>2, <2>3
  <2> QED BY <1>3, <2>1, <2>4 DEF m
<1> QED BY <1>10, <1>12, <1>13

-----------------------------------------------------------------------------
(* What the peer writes. *)

\* The announced files, without the brackets around them.
Listed(lib) == FlattenSeq([i \in DOMAIN lib |-> FileText(lib[i])])

LEMMA TupleOfFour ==
  ASSUME NEW S, NEW a \in S, NEW b \in S, NEW c \in S, NEW d \in S
  PROVE  LET t == <<a, b, c, d>>
         IN /\ t \in Seq(S) /\ Len(t) = 4
            /\ t[1] = a /\ t[2] = b /\ t[3] = c /\ t[4] = d
OBVIOUS

LEMMA WordsKnown ==
  /\ \A w \in Words : w \in Lexemes
  /\ \A k \in Keys : k \in Lexemes /\ k \notin Words
BY KeysAssumption DEF Lexemes

LEMMA ListedIs ==
  ASSUME NEW lib \in Seq(Keys)
  PROVE  /\ Listed(lib) \in Seq(Lexemes)
         /\ Len(Listed(lib)) = 8 * Len(lib)
         /\ \A i \in 1..Len(lib), r \in 1..8 : Listed(lib)[8 * (i - 1) + r] = FileText(lib[i])[r]
         /\ Spaced(Listed(lib))
         /\ \A x \in 1..Len(Listed(lib)) :
              Listed(lib)[x] \notin {"\n", "[", "]", "announce", "update"}
         /\ lib # <<>> => Listed(lib)[1] = "name"
<1> DEFINE n == Len(lib)
           seqs == [i \in DOMAIN lib |-> FileText(lib[i])]
           L == FlattenSeq(seqs)
<1>1. n \in Nat /\ DOMAIN lib = 1..n /\ \A i \in 1..n : lib[i] \in Keys
  BY LenProperties, ElementOfSeq
<1>2. ASSUME NEW k \in Keys PROVE FileText(k) \in Seq(Lexemes) /\ Len(FileText(k)) = 8
  <2> DEFINE space == " "
             t == <<"name", space, "2", space, "1", space, k, space>>
  <2>1. "name" \in Lexemes /\ space \in Lexemes /\ "2" \in Lexemes /\ "1" \in Lexemes /\ k \in Lexemes
    BY WordsKnown DEF Words
  <2>2. FileText(k) = t
    BY DEF FileText
  <2> HIDE DEF space
  <2>3. t \in Seq(Lexemes) /\ Len(t) = 8
    BY <2>1
  <2> QED BY <2>2, <2>3, Zenon
<1>3. seqs \in Seq(Seq(Lexemes)) /\ Len(seqs) = n /\ \A i \in 1..n : seqs[i] = FileText(lib[i])
  <2>1. \A i \in 1..n : FileText(lib[i]) \in Seq(Lexemes)
    BY <1>1, <1>2
  <2>2. seqs = [i \in 1..n |-> FileText(lib[i])]
    BY <1>1
  <2> HIDE DEF n, seqs
  <2>3. seqs \in Seq(Seq(Lexemes))
    BY <1>1, <2>1, <2>2, IsASeq
  <2> QED BY <1>1, <2>2, <2>3, LenProperties
<1> HIDE DEF n, seqs
<1>4. \A i \in 1..Len(seqs) : Len(seqs[i]) = 8
  BY <1>1, <1>2, <1>3
<1>5. /\ L \in Seq(Lexemes) /\ Len(L) = 8 * n
      /\ \A i \in 1..n, r \in 1..8 : L[8 * (i - 1) + r] = FileText(lib[i])[r]
  <2>1. /\ L \in Seq(Lexemes) /\ Len(L) = 8 * Len(seqs)
        /\ \A i \in 1..Len(seqs), r \in 1..8 : L[8 * (i - 1) + r] = seqs[i][r]
    BY <1>3, <1>4, FlatOfEight
  <2> HIDE DEF L
  <2> QED BY <1>3, <2>1, ZenonT(60)
<1> HIDE DEF L
<1>6. ASSUME NEW x \in 1..(8 * n)
      PROVE  /\ x % 2 = 0 => L[x] = " "
             /\ x % 2 # 0 => L[x] \in {"name", "2", "1"} \cup Keys
  <2> DEFINE i == ((x - 1) \div 8) + 1
             r == ((x - 1) % 8) + 1
  <2>1. i \in 1..n /\ r \in 1..8 /\ x = 8 * (i - 1) + r
    BY <1>1
  <2> HIDE DEF i, r
  <2>2. L[x] = FileText(lib[i])[r] /\ lib[i] \in Keys
    BY <1>1, <1>5, <2>1
  <2>3. x % 2 = 0 => r \in {2, 4, 6, 8}
    BY <2>1
  <2>4. x % 2 # 0 => r \in {1, 3, 5, 7}
    BY <2>1
  <2> DEFINE t == FileText(lib[i])
  <2>5. /\ t[1] = "name" /\ t[2] = " " /\ t[3] = "2" /\ t[4] = " "
        /\ t[5] = "1" /\ t[6] = " " /\ t[7] = lib[i] /\ t[8] = " "
    BY DEF FileText
  <2> HIDE DEF t
  <2>6. r \in {2, 4, 6, 8} => t[r] = " "
    BY <2>5
  <2>7. r \in {1, 3, 5, 7} => t[r] \in {"name", "2", "1", lib[i]}
    BY <2>5
  <2>8. L[x] = t[r]
    BY <2>2 DEF t
  <2> QED BY <2>2, <2>3, <2>4, <2>6, <2>7, <2>8
<1>7. \A x \in 1..(8 * n) : L[x] \in {" ", "name", "2", "1"} \cup Keys
  BY <1>6
<1>8. \A k \in Keys : k \notin {" ", "\n", "[", "]", "announce", "update"}
  BY WordsKnown DEF Words
<1>9. \A x \in 1..(8 * n) : L[x] \notin {"\n", "[", "]", "announce", "update"}
  BY <1>7, <1>8
<1>10. Spaced(L)
  BY <1>5, <1>6, <1>8 DEF Spaced
<1>11. lib # <<>> => L[1] = "name"
  <2> SUFFICES ASSUME lib # <<>> PROVE L[1] = "name"
    OBVIOUS
  <2>1. 1 \in 1..n /\ 8 * (1 - 1) + 1 = 1
    BY <1>1, EmptySeq DEF n
  <2>2. L[1] = FileText(lib[1])[1]
    BY <1>5, <2>1
  <2> QED BY <2>2 DEF FileText
<1>12. L = Listed(lib)
  BY DEF L, seqs, Listed
<1> QED BY <1>5, <1>9, <1>10, <1>11, <1>12 DEF n

\* A head, and the library in brackets.
LEMMA BracketedIs ==
  ASSUME NEW h \in Seq(Lexemes), NEW lib \in Seq(Keys)
  PROVE  LET t == h \o LibraryText(lib) \o <<"\n">>
             m == Len(h) + Len(Listed(lib))
         IN /\ t \in Seq(Lexemes) /\ Len(t) = m + 3
            /\ \A i \in 1..Len(h) : t[i] = h[i]
            /\ t[Len(h) + 1] = "["
            /\ \A i \in 1..Len(Listed(lib)) : t[Len(h) + 1 + i] = Listed(lib)[i]
            /\ t[m + 2] = "]" /\ t[m + 3] = "\n"
<1> DEFINE L == Listed(lib)
           a == <<"[">> \o L
           b == a \o <<"]">>
           c == h \o b
           t == c \o <<"\n">>
<1>1. {"[", "]", "\n"} \subseteq Lexemes
  BY WordsKnown DEF Words
<1>2. L \in Seq(Lexemes) /\ Len(L) \in Nat /\ Len(h) \in Nat
  BY ListedIs, LenProperties
<1>3. \A x \in {"[", "]", "\n"} : <<x>> \in Seq(Lexemes) /\ Len(<<x>>) = 1 /\ <<x>>[1] = x
  BY <1>1
<1>4. b = LibraryText(lib)
  BY DEF LibraryText, Listed
<1> HIDE DEF L
<1>5. /\ a \in Seq(Lexemes) /\ Len(a) = 1 + Len(L) /\ a[1] = "["
      /\ \A i \in 1..Len(L) : a[1 + i] = L[i]
  <2>1. /\ a \in Seq(Lexemes) /\ Len(a) = Len(<<"[">>) + Len(L)
        /\ \A i \in 1..(Len(<<"[">>) + Len(L)) :
             a[i] = IF i <= Len(<<"[">>) THEN <<"[">>[i] ELSE L[i - Len(<<"[">>)]
    BY <1>2, <1>3, ConcatProperties
  <2>2. \A i \in 1..Len(L) : 1 + i \in 1..(1 + Len(L)) /\ ~(1 + i <= 1) /\ (1 + i) - 1 = i
    BY <1>2
  <2> HIDE DEF a
  <2>3. 1 \in 1..(1 + Len(L))
    BY <1>2
  <2> QED BY <1>3, <2>1, <2>2, <2>3
<1> HIDE DEF a
<1>6. /\ b \in Seq(Lexemes) /\ Len(b) = 2 + Len(L) /\ b[1] = "[" /\ b[2 + Len(L)] = "]"
      /\ \A i \in 1..Len(L) : b[1 + i] = L[i]
  <2>1. /\ b \in Seq(Lexemes) /\ Len(b) = Len(a) + 1
        /\ \A i \in 1..(Len(a) + 1) : b[i] = IF i <= Len(a) THEN a[i] ELSE <<"]">>[i - Len(a)]
    BY <1>3, <1>5, ConcatProperties
  <2>2. /\ \A i \in 1..Len(L) : 1 + i \in 1..(Len(a) + 1) /\ 1 + i <= Len(a)
        /\ 2 + Len(L) \in 1..(Len(a) + 1) /\ ~(2 + Len(L) <= Len(a)) /\ (2 + Len(L)) - Len(a) = 1
        /\ 1 \in 1..(Len(a) + 1) /\ 1 <= Len(a) /\ Len(a) + 1 = 2 + Len(L)
    BY <1>2, <1>5
  <2> HIDE DEF b
  <2> QED BY <1>3, <1>5, <2>1, <2>2
<1> HIDE DEF b
<1>7. /\ c \in Seq(Lexemes) /\ Len(c) = Len(h) + (2 + Len(L))
      /\ \A i \in 1..Len(h) : c[i] = h[i]
      /\ \A i \in 1..(2 + Len(L)) : c[Len(h) + i] = b[i]
  <2>1. /\ c \in Seq(Lexemes) /\ Len(c) = Len(h) + Len(b)
        /\ \A i \in 1..(Len(h) + Len(b)) : c[i] = IF i <= Len(h) THEN h[i] ELSE b[i - Len(h)]
    <3>1. b \in Seq(Lexemes) /\ h \in Seq(Lexemes)
      BY <1>6
    <3> QED BY <3>1, ConcatProperties
  <2>2. /\ \A i \in 1..Len(h) : i \in 1..(Len(h) + Len(b)) /\ i <= Len(h)
        /\ \A i \in 1..(2 + Len(L)) : /\ Len(h) + i \in 1..(Len(h) + Len(b))
                                      /\ ~(Len(h) + i <= Len(h)) /\ (Len(h) + i) - Len(h) = i
    BY <1>2, <1>6
  <2> HIDE DEF c
  <2> QED BY <1>6, <2>1, <2>2
<1> HIDE DEF c
<1>8. /\ t \in Seq(Lexemes) /\ Len(t) = Len(c) + 1 /\ t[Len(c) + 1] = "\n"
      /\ \A i \in 1..Len(c) : t[i] = c[i]
  <2>1. /\ t \in Seq(Lexemes) /\ Len(t) = Len(c) + 1
        /\ \A i \in 1..(Len(c) + 1) : t[i] = IF i <= Len(c) THEN c[i] ELSE <<"\n">>[i - Len(c)]
    <3>1. c \in Seq(Lexemes) /\ <<"\n">> \in Seq(Lexemes) /\ Len(<<"\n">>) = 1
      BY <1>3, <1>7
    <3> QED BY <3>1, ConcatProperties
  <2>2. /\ \A i \in 1..Len(c) : i \in 1..(Len(c) + 1) /\ i <= Len(c)
        /\ Len(c) + 1 \in 1..(Len(c) + 1) /\ ~(Len(c) + 1 <= Len(c)) /\ (Len(c) + 1) - Len(c) = 1
    BY <1>2, <1>7
  <2> HIDE DEF t
  <2> QED BY <1>3, <2>1, <2>2
<1> HIDE DEF t
<1>9. Len(c) = Len(h) + Len(L) + 2 /\ Len(c) + 1 = Len(h) + Len(L) + 3
  BY <1>2, <1>7
<1>10. \A i \in 1..Len(h) : t[i] = h[i]
  BY <1>2, <1>7, <1>8, <1>9
<1>11. t[Len(h) + 1] = "["
  <2>1. 1 \in 1..(2 + Len(L)) /\ Len(h) + 1 \in 1..Len(c)
    BY <1>2, <1>9
  <2> QED BY <1>6, <1>7, <1>8, <2>1
<1>12. ASSUME NEW i \in 1..Len(L) PROVE t[Len(h) + 1 + i] = L[i]
  <2>1. 1 + i \in 1..(2 + Len(L)) /\ Len(h) + (1 + i) \in 1..Len(c) /\ Len(h) + 1 + i = Len(h) + (1 + i)
    BY <1>2, <1>9
  <2> QED BY <1>6, <1>7, <1>8, <2>1
<1>13. t[Len(h) + Len(L) + 2] = "]"
  <2>1. /\ 2 + Len(L) \in 1..(2 + Len(L)) /\ Len(h) + (2 + Len(L)) \in 1..Len(c)
        /\ Len(h) + Len(L) + 2 = Len(h) + (2 + Len(L))
    BY <1>2, <1>9
  <2> QED BY <1>6, <1>7, <1>8, <2>1
<1>14. t = h \o LibraryText(lib) \o <<"\n">>
  BY <1>4 DEF t, c
<1> QED BY <1>8, <1>9, <1>10, <1>11, <1>12, <1>13, <1>14 DEF L

LEMMA AnnounceIs ==
  ASSUME NEW lib \in Seq(Keys)
  PROVE  LET A == AnnounceText(lib)
             m == Len(Listed(lib))
         IN /\ A \in Seq(Lexemes) /\ Len(A) = m + 11 /\ m \in Nat
            /\ A[1] = "announce" /\ A[2] = " " /\ A[3] = "listen" /\ A[4] = " "
            /\ A[5] = "1" /\ A[6] = " " /\ A[7] = "seed" /\ A[8] = " " /\ A[9] = "["
            /\ \A i \in 1..m : A[9 + i] = Listed(lib)[i]
            /\ A[m + 10] = "]" /\ A[m + 11] = "\n"
<1> DEFINE space == " "
           h == <<"announce", space, "listen", space, "1", space, "seed", space>>
           A == AnnounceText(lib)
           m == Len(Listed(lib))
<1>1. /\ "announce" \in Lexemes /\ space \in Lexemes /\ "listen" \in Lexemes /\ "1" \in Lexemes
      /\ "seed" \in Lexemes
  BY WordsKnown DEF Words
<1> HIDE DEF space
<1>2. h \in Seq(Lexemes) /\ Len(h) = 8
  BY <1>1
<1> USE DEF space
<1>3. A = h \o LibraryText(lib) \o <<"\n">>
  BY DEF AnnounceText
<1>4. /\ h[1] = "announce" /\ h[2] = " " /\ h[3] = "listen" /\ h[4] = " "
      /\ h[5] = "1" /\ h[6] = " " /\ h[7] = "seed" /\ h[8] = " "
  OBVIOUS
<1>5. m \in Nat
  BY ListedIs, LenProperties
<1> HIDE DEF h, A
<1>6. /\ A \in Seq(Lexemes) /\ Len(A) = Len(h) + m + 3
      /\ \A i \in 1..Len(h) : A[i] = h[i]
      /\ A[Len(h) + 1] = "["
      /\ \A i \in 1..m : A[Len(h) + 1 + i] = Listed(lib)[i]
      /\ A[Len(h) + m + 2] = "]" /\ A[Len(h) + m + 3] = "\n"
  BY <1>2, <1>3, BracketedIs
<1> HIDE DEF m
<1>7. /\ Len(h) + m + 3 = m + 11 /\ Len(h) + m + 2 = m + 10 /\ Len(h) + 1 = 9
      /\ 1..8 = 1..Len(h) /\ \A i \in 1..m : Len(h) + 1 + i = 9 + i
  BY <1>2, <1>5
<1>8. /\ Len(A) = m + 11 /\ A[9] = "[" /\ A[m + 10] = "]" /\ A[m + 11] = "\n"
      /\ \A i \in 1..m : A[9 + i] = Listed(lib)[i]
      /\ \A i \in 1..8 : A[i] = h[i]
  BY <1>6, <1>7
<1>9. /\ A[1] = "announce" /\ A[2] = " " /\ A[3] = "listen" /\ A[4] = " "
      /\ A[5] = "1" /\ A[6] = " " /\ A[7] = "seed" /\ A[8] = " "
  <2>1. /\ A[1] = h[1] /\ A[2] = h[2] /\ A[3] = h[3] /\ A[4] = h[4]
        /\ A[5] = h[5] /\ A[6] = h[6] /\ A[7] = h[7] /\ A[8] = h[8]
    BY <1>8
  <2> QED BY <1>4, <2>1
<1>10. A \in Seq(Lexemes)
  BY <1>6
<1> QED BY <1>5, <1>8, <1>9, <1>10, Zenon DEF A, m

LEMMA UpdateIs ==
  ASSUME NEW lib \in Seq(Keys)
  PROVE  LET U == UpdateText(lib)
             m == Len(Listed(lib))
         IN /\ U \in Seq(Lexemes) /\ Len(U) = m + 7 /\ m \in Nat
            /\ U[1] = "update" /\ U[2] = " " /\ U[3] = "seed" /\ U[4] = " " /\ U[5] = "["
            /\ \A i \in 1..m : U[5 + i] = Listed(lib)[i]
            /\ U[m + 6] = "]" /\ U[m + 7] = "\n"
<1> DEFINE h == <<"update", " ", "seed", " ">>
           U == UpdateText(lib)
           m == Len(Listed(lib))
<1>1. "update" \in Lexemes /\ " " \in Lexemes /\ "seed" \in Lexemes
  BY WordsKnown DEF Words
<1>2. h \in Seq(Lexemes) /\ Len(h) = 4
  BY <1>1, TupleOfFour
<1>3. U = h \o LibraryText(lib) \o <<"\n">>
  BY DEF UpdateText
<1>4. h[1] = "update" /\ h[2] = " " /\ h[3] = "seed" /\ h[4] = " "
  OBVIOUS
<1>5. m \in Nat
  BY ListedIs, LenProperties
<1> HIDE DEF h, U
<1>6. /\ U \in Seq(Lexemes) /\ Len(U) = Len(h) + m + 3
      /\ \A i \in 1..Len(h) : U[i] = h[i]
      /\ U[Len(h) + 1] = "["
      /\ \A i \in 1..m : U[Len(h) + 1 + i] = Listed(lib)[i]
      /\ U[Len(h) + m + 2] = "]" /\ U[Len(h) + m + 3] = "\n"
  BY <1>2, <1>3, BracketedIs
<1> HIDE DEF m
<1>7. /\ Len(h) + m + 3 = m + 7 /\ Len(h) + m + 2 = m + 6 /\ Len(h) + 1 = 5
      /\ 1..4 = 1..Len(h) /\ \A i \in 1..m : Len(h) + 1 + i = 5 + i
  BY <1>2, <1>5
<1>8. /\ Len(U) = m + 7 /\ U[5] = "[" /\ U[m + 6] = "]" /\ U[m + 7] = "\n"
      /\ \A i \in 1..m : U[5 + i] = Listed(lib)[i]
      /\ \A i \in 1..4 : U[i] = h[i]
  BY <1>6, <1>7
<1>9. U[1] = "update" /\ U[2] = " " /\ U[3] = "seed" /\ U[4] = " "
  <2>1. U[1] = h[1] /\ U[2] = h[2] /\ U[3] = h[3] /\ U[4] = h[4]
    BY <1>8
  <2> QED BY <1>4, <2>1
<1>10. U \in Seq(Lexemes)
  BY <1>6
<1> QED BY <1>5, <1>8, <1>9, <1>10, Zenon DEF U, m

-----------------------------------------------------------------------------
(* What joining and cutting keep.  A is the text of an announce.            *)

Commands == {"announce", "update", "look", "getfile"}

\* What stands j lexemes behind the word announce: the rest of the announce,
\* and then the request the peer wrote behind it.
Behind(A, j, x) ==
  /\ j < Len(A) => x = A[j + 1]
  /\ j = Len(A) => x \in Commands
  /\ j = Len(A) + 1 => x = " "

Proper(A, text) ==
  /\ text \in Seq(Lexemes)
  /\ \A i \in 1..(Len(text) - 1) : text[i] = "[" => text[i + 1] \in {"]", "name", "key="}
  /\ \A i \in 1..Len(text) : text[i] = "announce" =>
       \A j \in 0..(Len(A) + 1) : i + j <= Len(text) => Behind(A, j, text[i + j])

\* Cut only in front.
Complete(A, text) ==
  /\ text # <<>>
  /\ text[Len(text)] = "\n"
  /\ \A i \in 1..Len(text) : text[i] = "announce" => i + Len(A) - 1 <= Len(text)

Starts(text) == Len(text) >= 2 /\ text[1] \in Commands /\ text[2] = " "

LEMMA ConcatProper ==
  ASSUME NEW A \in Seq(Lexemes), A # <<>>, NEW s, NEW t,
         Proper(A, s), Complete(A, s), Proper(A, t), Starts(t)
  PROVE  Proper(A, s \o t) /\ (Complete(A, t) => Complete(A, s \o t))
<1> DEFINE a == Len(s)
           b == Len(t)
           n == Len(A)
           u == s \o t
<1>1. s \in Seq(Lexemes) /\ t \in Seq(Lexemes) /\ a \in Nat /\ b \in Nat /\ n \in Nat
  BY LenProperties DEF Proper
<1>a. a # 0 /\ n # 0 /\ b >= 2
  BY <1>1, EmptySeq DEF Complete, Starts
<1>2. s[a] = "\n" /\ t[1] \in Commands /\ t[2] = " "
  BY DEF Complete, Starts
<1>3. /\ u \in Seq(Lexemes) /\ Len(u) = a + b
      /\ \A i \in 1..(a + b) : u[i] = IF i <= a THEN s[i] ELSE t[i - a]
  BY <1>1, ConcatProperties
<1>4. /\ \A i \in 1..(a - 1) : s[i] = "[" => s[i + 1] \in {"]", "name", "key="}
      /\ \A i \in 1..(b - 1) : t[i] = "[" => t[i + 1] \in {"]", "name", "key="}
  BY DEF Proper
<1>5. /\ \A i \in 1..a : s[i] = "announce" =>
           \A j \in 0..(n + 1) : i + j <= a => Behind(A, j, s[i + j])
      /\ \A i \in 1..b : t[i] = "announce" =>
           \A j \in 0..(n + 1) : i + j <= b => Behind(A, j, t[i + j])
  BY DEF Proper
<1>6. \A i \in 1..a : s[i] = "announce" => i + n - 1 <= a
  BY DEF Complete
<1>7. Complete(A, t) => t[b] = "\n" /\ \A i \in 1..b : t[i] = "announce" => i + n - 1 <= b
  BY DEF Complete
<1> HIDE DEF a, b, n, u
<1>0. a \in Nat /\ b \in Nat /\ n \in Nat /\ a >= 1 /\ b >= 2
  BY <1>1, <1>a
<1>8. ASSUME NEW i \in 1..(a + b - 1), u[i] = "["
      PROVE  u[i + 1] \in {"]", "name", "key="}
  <2>1. CASE i < a
    <3>1. i \in 1..(a - 1) /\ u[i] = s[i] /\ u[i + 1] = s[i + 1]
      BY <1>1, <1>3, <2>1
    <3> QED BY <1>4, <1>8, <3>1
  <2>2. CASE i = a
    <3>1. u[i] = s[a]
      <4>1. a \in 1..(a + b) /\ a <= a
        BY <1>0
      <4>2. u[a] = s[a]
        BY <1>3, <4>1
      <4> QED BY <2>2, <4>2
    <3> QED BY <1>2, <1>8, <3>1
  <2>3. CASE i > a
    <3>1. i - a \in 1..(b - 1) /\ u[i] = t[i - a] /\ u[i + 1] = t[(i + 1) - a] /\ (i + 1) - a = (i - a) + 1
      BY <1>1, <1>3, <2>3, SMTT(30)
    <3> QED BY <1>4, <1>8, <3>1
  <2> QED BY <1>1, <2>1, <2>2, <2>3
<1>9. ASSUME NEW i \in 1..(a + b), u[i] = "announce", NEW j \in 0..(n + 1), i + j <= a + b
      PROVE  Behind(A, j, u[i + j])
  <2>1. CASE i > a
    <3>1. /\ i - a \in 1..b /\ u[i] = t[i - a] /\ u[i + j] = t[(i + j) - a]
          /\ (i + j) - a = (i - a) + j /\ (i - a) + j <= b
      BY <1>1, <1>3, <1>9, <2>1
    <3> QED BY <1>5, <1>9, <3>1
  <2>2. CASE i <= a /\ i + j <= a
    <3>1. i \in 1..a /\ u[i] = s[i] /\ u[i + j] = s[i + j]
      <4>1. i \in 1..a /\ i \in 1..(a + b) /\ i + j \in 1..(a + b) /\ i + j <= a
        BY <1>0, <2>2
      <4>2. u[i] = s[i]
        BY <1>3, <2>2, <4>1
      <4>3. u[i + j] = s[i + j]
        BY <1>3, <4>1
      <4> QED BY <4>1, <4>2, <4>3
    <3> QED BY <1>5, <1>9, <2>2, <3>1
  <2>3. CASE i <= a /\ i + j > a
    <3>1. i \in 1..a /\ s[i] = "announce" /\ u[i + j] = t[(i + j) - a]
      BY <1>1, <1>3, <1>9, <2>3
    <3>2. i + n - 1 <= a
      BY <1>6, <3>1
    <3>3. CASE i + n - 1 = a
      <4>1. j = n \/ j = n + 1
        BY <1>1, <1>9, <2>3, <3>3
      <4>2. j = n => (i + j) - a = 1
        BY <1>1, <3>3
      <4>3. j = n + 1 => (i + j) - a = 2
        BY <1>1, <3>3
      <4>4. ~(j < n) /\ (j = n => j # n + 1)
        BY <1>1, <4>1
      <4> QED BY <1>2, <3>1, <4>1, <4>2, <4>3, <4>4 DEF Behind, n
    <3>4. CASE i + n - 1 < a
      <4>1. j = n + 1 /\ i + n = a /\ n \in 0..(n + 1) /\ i + n <= a
        BY <1>1, <1>9, <2>3, <3>4
      <4>2. Behind(A, n, s[i + n])
        BY <1>5, <3>1, <4>1
      <4>3. s[i + n] = "\n"
        BY <1>2, <4>1
      <4> QED BY <4>2, <4>3 DEF Behind, Commands, n
    <3> QED BY <1>1, <3>2, <3>3, <3>4
  <2> QED BY <1>1, <2>1, <2>2, <2>3
<1>10. Proper(A, u)
  <2>1. \A i \in 1..(Len(u) - 1) : u[i] = "[" => u[i + 1] \in {"]", "name", "key="}
    <3>1. Len(u) = a + b
      BY <1>3
    <3>2. \A i \in 1..(a + b - 1) : u[i] = "[" => u[i + 1] \in {"]", "name", "key="}
      BY <1>8
    <3>3. Len(u) - 1 = a + b - 1
      BY <3>1, <1>0
    <3> QED BY <3>2, <3>3
  <2>2. \A i \in 1..Len(u) : u[i] = "announce" =>
          \A j \in 0..(Len(A) + 1) : i + j <= Len(u) => Behind(A, j, u[i + j])
    BY <1>3, <1>9 DEF n
  <2> QED BY <1>3, <2>1, <2>2 DEF Proper
<1>11. ASSUME Complete(A, t) PROVE Complete(A, u)
  <2>1. u # <<>>
    <3>1. Len(u) # 0
      BY <1>0, <1>3
    <3> QED BY <3>1, EmptySeq
  <2>2. u[a + b] = "\n"
    <3>1. a + b \in 1..(a + b) /\ ~(a + b <= a) /\ (a + b) - a = b
      BY <1>0
    <3> QED BY <1>3, <1>7, <1>11, <3>1
  <2>3. ASSUME NEW i \in 1..(a + b), u[i] = "announce" PROVE i + n - 1 <= a + b
    <3>1. CASE i <= a
      <4>1. i \in 1..a /\ s[i] = "announce"
        BY <1>1, <1>3, <2>3, <3>1
      <4>2. i + n - 1 <= a
        BY <1>6, <4>1
      <4> QED BY <1>1, <4>2
    <3>2. CASE i > a
      <4>1. i - a \in 1..b /\ t[i - a] = "announce"
        BY <1>1, <1>3, <2>3, <3>2
      <4>2. (i - a) + n - 1 <= b
        BY <1>7, <1>11, <4>1
      <4> QED BY <1>1, <4>2
    <3> QED BY <1>1, <3>1, <3>2
  <2> QED BY <1>3, <2>1, <2>2, <2>3 DEF Complete, n
<1> QED BY <1>10, <1>11 DEF u

\* A stretch of a text; one that goes to its end is cut only in front.
LEMMA StretchProper ==
  ASSUME NEW A, NEW s, Proper(A, s), NEW k \in Nat \ {0}, NEW l \in Nat, l <= Len(s), Len(A) \in Nat
  PROVE  /\ Proper(A, SubSeq(s, k, l))
         /\ Len(SubSeq(s, k, l)) = IF k <= l THEN l - k + 1 ELSE 0
         /\ \A i \in 1..Len(SubSeq(s, k, l)) : SubSeq(s, k, l)[i] = s[k + i - 1]
         /\ Complete(A, s) /\ l = Len(s) /\ k <= l => Complete(A, SubSeq(s, k, l))
<1> DEFINE u == SubSeq(s, k, l)
           n == Len(A)
           m == Len(s)
<1>1. s \in Seq(Lexemes) /\ m \in Nat /\ \A i \in 1..m : s[i] \in Lexemes
  BY ElementOfSeq, LenProperties DEF Proper
<1>2. /\ u \in Seq(Lexemes) /\ Len(u) = IF k <= l THEN l - k + 1 ELSE 0
      /\ \A i \in 1..(l - k + 1) : u[i] = s[k + i - 1]
  <2>1. k \in Int /\ l \in Int /\ \A i \in k..l : s[i] \in Lexemes
    BY <1>1
  <2> QED BY <2>1, SubSeqProperties
<1>3. /\ \A i \in 1..(m - 1) : s[i] = "[" => s[i + 1] \in {"]", "name", "key="}
      /\ \A i \in 1..m : s[i] = "announce" =>
           \A j \in 0..(n + 1) : i + j <= m => Behind(A, j, s[i + j])
  BY DEF Proper
<1>4. Complete(A, s) => s[m] = "\n" /\ \A i \in 1..m : s[i] = "announce" => i + n - 1 <= m
  BY DEF Complete
<1>5. l <= m /\ n \in Nat
  OBVIOUS
<1> HIDE DEF u, n, m
<1>0. k \in Nat /\ k >= 1 /\ l \in Nat /\ m \in Nat /\ l <= m
  BY <1>1, <1>5
<1>6. Len(u) \in Nat /\ \A i \in 1..Len(u) : u[i] = s[k + i - 1] /\ k + i - 1 \in 1..m /\ k <= l
  <2>1. CASE k <= l
    <3>1. Len(u) = l - k + 1 /\ \A i \in 1..Len(u) : u[i] = s[k + i - 1]
      BY <1>2, <2>1
    <3>2. Len(u) \in Nat /\ \A i \in 1..Len(u) : k + i - 1 \in 1..m
      BY <1>0, <2>1, <3>1
    <3> QED BY <2>1, <3>1, <3>2
  <2>2. CASE ~(k <= l)
    <3>1. Len(u) = 0
      BY <1>2, <2>2
    <3>2. 1..Len(u) = {}
      BY <3>1
    <3> QED BY <3>1, <3>2
  <2> QED BY <2>1, <2>2
<1>7. ASSUME NEW i \in 1..(Len(u) - 1), u[i] = "[" PROVE u[i + 1] \in {"]", "name", "key="}
  <2>1. /\ i \in 1..Len(u) /\ i + 1 \in 1..Len(u) /\ k + (i + 1) - 1 = (k + i - 1) + 1
        /\ k + i - 1 \in 1..(m - 1)
    <3>1. i \in 1..Len(u) /\ i + 1 \in 1..Len(u)
      BY <1>6
    <3>2. k + i - 1 \in 1..m /\ k + (i + 1) - 1 \in 1..m
      BY <1>6, <3>1
    <3> QED BY <1>0, <3>1, <3>2
  <2> QED BY <1>3, <1>6, <1>7, <2>1
<1>8. ASSUME NEW i \in 1..Len(u), u[i] = "announce", NEW j \in 0..(n + 1), i + j <= Len(u)
      PROVE  Behind(A, j, u[i + j])
  <2>1. /\ i + j \in 1..Len(u) /\ k + (i + j) - 1 = (k + i - 1) + j /\ k + i - 1 \in 1..m
        /\ (k + i - 1) + j <= m
    BY <1>1, <1>2, <1>5, <1>6, <1>8
  <2> QED BY <1>3, <1>6, <1>8, <2>1
<1>9. Proper(A, u)
  BY <1>2, <1>7, <1>8 DEF Proper, n
<1>10. ASSUME Complete(A, s), l = m, k <= l PROVE Complete(A, u)
  <2>1. Len(u) = l - k + 1 /\ Len(u) \in 1..Len(u) /\ k + Len(u) - 1 = m /\ Len(u) # 0
    BY <1>1, <1>2, <1>10
  <2>2. u # <<>>
    BY <2>1, EmptySeq
  <2>3. u[Len(u)] = "\n"
    BY <1>4, <1>6, <1>10, <2>1
  <2>4. ASSUME NEW i \in 1..Len(u), u[i] = "announce" PROVE i + n - 1 <= Len(u)
    <3>1. (k + i - 1) + n - 1 <= m
      BY <1>4, <1>6, <1>10, <2>4
    <3> QED BY <1>1, <1>5, <1>10, <2>1, <3>1
  <2> QED BY <2>2, <2>3, <2>4 DEF Complete, n
<1> QED BY <1>2, <1>6, <1>9, <1>10 DEF u, m

\* Requests joined, the first of which may be cut in front.
LEMMA JoinProper ==
  ASSUME NEW A \in Seq(Lexemes), A # <<>>, NEW seqs \in Seq(Seq(Lexemes)), seqs # <<>>,
         \A i \in 1..Len(seqs) : /\ Proper(A, seqs[i]) /\ Complete(A, seqs[i])
                                 /\ i > 1 => Starts(seqs[i])
  PROVE  Proper(A, FlattenSeq(seqs)) /\ Complete(A, FlattenSeq(seqs))
<1> DEFINE n == Len(seqs)
           Ok(s) == Proper(A, s) /\ Complete(A, s)
<1>1. n \in Nat \ {0}
  BY EmptySeq, LenProperties
<1>2. PICK f : Flattens(f, seqs, Lexemes)
  BY FlattenIs
<1>3. /\ f[1] = seqs[1] /\ FlattenSeq(seqs) = f[n]
      /\ \A i \in 2..n : f[i] = f[i - 1] \o seqs[i]
  BY <1>2 DEF Flattens
<1>4. \A i \in 1..n : Ok(seqs[i]) /\ (i > 1 => Starts(seqs[i]))
  OBVIOUS
<1> HIDE DEF n, Ok
<1> DEFINE T == {k \in Nat : k + 1 <= n => Ok(f[k + 1])}
<1>5. 0 \in T
  <2>1. 0 + 1 = 1 /\ 1 \in 1..n
    BY <1>1
  <2> QED BY <1>3, <1>4, <2>1
<1>6. ASSUME NEW k \in Nat, k \in T PROVE k + 1 \in T
  <2> SUFFICES ASSUME (k + 1) + 1 <= n PROVE Ok(f[(k + 1) + 1])
    OBVIOUS
  <2> DEFINE i == (k + 1) + 1
  <2>1. i \in 2..n /\ i \in 1..n /\ i > 1 /\ i - 1 = k + 1 /\ k + 1 <= n
    BY <1>1
  <2> HIDE DEF i
  <2>2. Ok(f[i - 1]) /\ Ok(seqs[i]) /\ Starts(seqs[i]) /\ f[i] = f[i - 1] \o seqs[i]
    BY <1>3, <1>4, <1>6, <2>1
  <2>3. Ok(f[i])
    BY <2>2, ConcatProper DEF Ok
  <2> QED BY <2>3 DEF i
<1>7. n - 1 \in T
  <2> HIDE DEF T
  <2>1. n - 1 \in Nat
    BY <1>1
  <2> QED BY <1>5, <1>6, <2>1, Upwards
<1>8. Ok(f[n])
  <2>1. (n - 1) + 1 = n
    BY <1>1
  <2> QED BY <1>1, <1>7, <2>1
<1> QED BY <1>3, <1>8 DEF Ok

\* What the requests of the peer are made of.
LEMMA AnnounceProper ==
  ASSUME NEW lib \in Seq(Keys)
  PROVE  LET A == AnnounceText(lib)
         IN /\ Proper(A, A) /\ Complete(A, A) /\ Starts(A)
            /\ \A i \in 1..Len(A) : A[i] # "update"
<1> DEFINE A == AnnounceText(lib)
           L == Listed(lib)
           m == Len(L)
<1>1. /\ A \in Seq(Lexemes) /\ Len(A) = m + 11 /\ m \in Nat
      /\ A[1] = "announce" /\ A[2] = " " /\ A[3] = "listen" /\ A[4] = " "
      /\ A[5] = "1" /\ A[6] = " " /\ A[7] = "seed" /\ A[8] = " " /\ A[9] = "["
      /\ \A i \in 1..m : A[9 + i] = L[i]
      /\ A[m + 10] = "]" /\ A[m + 11] = "\n"
  BY AnnounceIs
<1>2. /\ \A x \in 1..m : L[x] \notin {"\n", "[", "]", "announce", "update"}
      /\ lib # <<>> => L[1] = "name"
      /\ m = 8 * Len(lib) /\ Len(lib) \in Nat
  BY ListedIs, LenProperties
<1>3. lib = <<>> => m = 0
  BY <1>2, EmptySeq
<1>4. m # 0 => L[1] = "name"
  BY <1>2, <1>3
<1> HIDE DEF A, L, m
<1>0. m \in Nat
  BY <1>1
<1>b. Len(A) = m + 11
  BY <1>1
<1>5. \A i \in 1..(m + 11) : /\ A[i] = "[" => i = 9
                             /\ A[i] = "announce" => i = 1
                             /\ A[i] # "update"
  <2> SUFFICES ASSUME NEW i \in 1..(m + 11)
               PROVE  /\ A[i] = "[" => i = 9
                      /\ A[i] = "announce" => i = 1
                      /\ A[i] # "update"
    OBVIOUS
  <2>1. i \in {1, 2, 3, 4, 5, 6, 7, 8, 9} \/ i - 9 \in 1..m \/ i = m + 10 \/ i = m + 11
    BY <1>0
  <2>2. CASE i \in {1, 2, 3, 4, 5, 6, 7, 8, 9}
    BY <1>1, <2>2
  <2>3. CASE i - 9 \in 1..m
    <3>1. 9 + (i - 9) = i
      OBVIOUS
    <3>2. A[i] = L[i - 9]
      BY <1>1, <2>3, <3>1
    <3> QED BY <1>2, <2>3, <3>2
  <2>4. CASE i = m + 10 \/ i = m + 11
    BY <1>1, <2>4
  <2> QED BY <2>1, <2>2, <2>3, <2>4
<1>6. A[10] \in {"]", "name", "key="}
  <2>1. CASE m = 0
    <3>1. m + 10 = 10
      BY <2>1
    <3> QED BY <1>1, <3>1
  <2>2. CASE m # 0
    <3>1. 1 \in 1..m /\ 9 + 1 = 10
      BY <1>0, <2>2
    <3>2. A[10] = L[1]
      BY <1>1, <3>1
    <3> QED BY <1>4, <2>2, <3>2
  <2> QED BY <2>1, <2>2
<1>7. Proper(A, A)
  <2>1. ASSUME NEW i \in 1..(Len(A) - 1), A[i] = "[" PROVE A[i + 1] \in {"]", "name", "key="}
    <3>1. i \in 1..(m + 11)
      BY <1>0, <1>b
    <3>2. i = 9
      BY <1>5, <2>1, <3>1
    <3> QED BY <1>6, <3>2
  <2>2. ASSUME NEW i \in 1..Len(A), A[i] = "announce", NEW j \in 0..(Len(A) + 1), i + j <= Len(A)
        PROVE  Behind(A, j, A[i + j])
    <3>1. i \in 1..(m + 11)
      BY <1>1
    <3>2. i = 1
      BY <1>5, <2>2, <3>1
    <3>3. Len(A) \in Nat
      BY <1>0, <1>b
    <3>4. j < Len(A) /\ i + j = j + 1 /\ j # Len(A) /\ j # Len(A) + 1
      BY <2>2, <3>2, <3>3
    <3>5. A[i + j] = A[j + 1]
      BY <3>4
    <3> QED BY <3>4, <3>5 DEF Behind
  <2> QED BY <1>1, <2>1, <2>2 DEF Proper
<1>8. Complete(A, A)
  <2>1. A # <<>>
    <3>1. Len(A) # 0
      BY <1>0, <1>b
    <3> QED BY <3>1, EmptySeq
  <2>2. A[Len(A)] = "\n"
    BY <1>1
  <2>3. ASSUME NEW i \in 1..Len(A), A[i] = "announce" PROVE i + Len(A) - 1 <= Len(A)
    <3>1. i \in 1..(m + 11)
      BY <1>1
    <3>2. i = 1
      BY <1>5, <2>3, <3>1
    <3> QED BY <1>0, <1>b, <3>2
  <2> QED BY <2>1, <2>2, <2>3 DEF Complete
<1>9. Starts(A)
  <2>1. Len(A) >= 2
    BY <1>0, <1>b
  <2> QED BY <1>1, <2>1 DEF Starts, Commands
<1>10. \A i \in 1..Len(A) : A[i] # "update"
  BY <1>1, <1>5
<1> QED BY <1>7, <1>8, <1>9, <1>10 DEF A

\* A text without announces.
LEMMA ProperWithout ==
  ASSUME NEW A, Len(A) \in Nat, NEW t \in Seq(Lexemes), t # <<>>, t[Len(t)] = "\n",
         \A i \in 1..Len(t) : t[i] # "announce",
         \A i \in 1..(Len(t) - 1) : t[i] = "[" => t[i + 1] \in {"]", "name", "key="}
  PROVE  Proper(A, t) /\ Complete(A, t)
BY DEF Proper, Complete

LEMMA UpdateProper ==
  ASSUME NEW lib \in Seq(Keys)
  PROVE  LET A == AnnounceText(lib)
             U == UpdateText(lib)
         IN Proper(A, U) /\ Complete(A, U) /\ Starts(U)
<1> DEFINE A == AnnounceText(lib)
           U == UpdateText(lib)
           L == Listed(lib)
           m == Len(L)
<1>1. /\ U \in Seq(Lexemes) /\ Len(U) = m + 7 /\ m \in Nat
      /\ U[1] = "update" /\ U[2] = " " /\ U[3] = "seed" /\ U[4] = " " /\ U[5] = "["
      /\ \A i \in 1..m : U[5 + i] = L[i]
      /\ U[m + 6] = "]" /\ U[m + 7] = "\n"
  BY UpdateIs
<1>2. /\ \A x \in 1..m : L[x] \notin {"\n", "[", "]", "announce", "update"}
      /\ lib # <<>> => L[1] = "name"
      /\ m = 8 * Len(lib) /\ Len(lib) \in Nat
  BY ListedIs, LenProperties
<1>3. lib = <<>> => m = 0
  BY <1>2, EmptySeq
<1>4. m # 0 => L[1] = "name"
  BY <1>2, <1>3
<1>a. Len(A) \in Nat
  BY AnnounceIs, LenProperties
<1> HIDE DEF A, U, L, m
<1>0. m \in Nat
  BY <1>1
<1>b. Len(U) = m + 7
  BY <1>1
<1>5. \A i \in 1..(m + 7) : /\ U[i] = "[" => i = 5
                            /\ U[i] # "announce"
  <2> SUFFICES ASSUME NEW i \in 1..(m + 7)
               PROVE  (U[i] = "[" => i = 5) /\ U[i] # "announce"
    OBVIOUS
  <2>1. i \in {1, 2, 3, 4, 5} \/ i - 5 \in 1..m \/ i = m + 6 \/ i = m + 7
    BY <1>0
  <2>2. CASE i \in {1, 2, 3, 4, 5}
    BY <1>1, <2>2
  <2>3. CASE i - 5 \in 1..m
    <3>1. 5 + (i - 5) = i
      OBVIOUS
    <3>2. U[i] = L[i - 5]
      BY <1>1, <2>3, <3>1
    <3> QED BY <1>2, <2>3, <3>2
  <2>4. CASE i = m + 6 \/ i = m + 7
    BY <1>1, <2>4
  <2> QED BY <2>1, <2>2, <2>3, <2>4
<1>6. U[6] \in {"]", "name", "key="}
  <2>1. CASE m = 0
    <3>1. m + 6 = 6
      BY <2>1
    <3> QED BY <1>1, <3>1
  <2>2. CASE m # 0
    <3>1. 1 \in 1..m /\ 5 + 1 = 6
      BY <1>0, <2>2
    <3>2. U[6] = L[1]
      BY <1>1, <3>1
    <3> QED BY <1>4, <2>2, <3>2
  <2> QED BY <2>1, <2>2
<1>7. Proper(A, U) /\ Complete(A, U)
  <2>1. ASSUME NEW i \in 1..(Len(U) - 1), U[i] = "[" PROVE U[i + 1] \in {"]", "name", "key="}
    <3>1. i \in 1..(m + 7)
      BY <1>0, <1>b
    <3>2. i = 5
      BY <1>5, <2>1, <3>1
    <3> QED BY <1>6, <3>2
  <2>2. \A i \in 1..Len(U) : U[i] # "announce"
    BY <1>1, <1>5
  <2>3. U # <<>>
    <3>1. Len(U) # 0
      BY <1>0, <1>b
    <3> QED BY <3>1, EmptySeq
  <2>4. U[Len(U)] = "\n"
    BY <1>1
  <2> QED BY <1>1, <1>a, <2>1, <2>2, <2>3, <2>4, ProperWithout
<1>8. Starts(U)
  <2>1. Len(U) >= 2
    BY <1>0, <1>b
  <2> QED BY <1>1, <2>1 DEF Starts, Commands
<1> QED BY <1>7, <1>8 DEF A, U

\* The other requests.
LEMMA OthersProper ==
  ASSUME NEW A, Len(A) \in Nat, NEW k \in Keys, NEW t \in {LookAllText, LookKeyText(k), GetfileText(k)}
  PROVE  /\ Proper(A, t) /\ Complete(A, t) /\ Starts(t)
         /\ t[1] \in {"look", "getfile"}
         /\ \A i \in 1..Len(t) : t[i] # "update"
<1>1. /\ k \in Lexemes /\ k \notin {"announce", "update", "[", "\n"}
      /\ "look" \in Lexemes /\ " " \in Lexemes /\ "*" \in Lexemes /\ "\n" \in Lexemes
      /\ "[" \in Lexemes /\ "]" \in Lexemes /\ "key=" \in Lexemes /\ "getfile" \in Lexemes
  BY WordsKnown DEF Words
<1>2. CASE t = LookAllText
  <2>1. /\ t \in Seq(Lexemes) /\ Len(t) = 4
        /\ t[1] = "look" /\ t[2] = " " /\ t[3] = "*" /\ t[4] = "\n"
    BY <1>1, <1>2, TupleOfFour DEF LookAllText
  <2>2. \A i \in 1..Len(t) : t[i] \notin {"announce", "update", "["}
    <3>1. \A i \in 1..4 : i \in {1, 2, 3, 4}
      OBVIOUS
    <3> QED BY <2>1, <3>1
  <2>0. Len(t) = 4
    BY <2>1
  <2>3. Len(t) - 1 = 3 /\ (\A i \in 1..3 : i \in 1..4) /\ Len(t) >= 2
    BY <2>0
  <2>4. \A i \in 1..(Len(t) - 1) : t[i] # "["
    BY <2>1, <2>2, <2>3
  <2>5. t # <<>> /\ t[Len(t)] = "\n"
    <3>1. Len(t) # 0
      BY <2>0
    <3> QED BY <2>1, <3>1, EmptySeq
  <2>6. Proper(A, t) /\ Complete(A, t)
    BY <2>1, <2>2, <2>4, <2>5, ProperWithout
  <2>7. Starts(t)
    BY <2>1, <2>3 DEF Starts, Commands
  <2> QED BY <2>1, <2>2, <2>6, <2>7
<1>3. CASE t = GetfileText(k)
  <2>1. /\ t \in Seq(Lexemes) /\ Len(t) = 4
        /\ t[1] = "getfile" /\ t[2] = " " /\ t[3] = k /\ t[4] = "\n"
    BY <1>1, <1>3, TupleOfFour DEF GetfileText
  <2>2. \A i \in 1..Len(t) : t[i] \notin {"announce", "update", "["}
    <3>1. \A i \in 1..4 : i \in {1, 2, 3, 4}
      OBVIOUS
    <3> QED BY <1>1, <2>1, <3>1
  <2>0. Len(t) = 4
    BY <2>1
  <2>3. Len(t) - 1 = 3 /\ (\A i \in 1..3 : i \in 1..4) /\ Len(t) >= 2
    BY <2>0
  <2>4. \A i \in 1..(Len(t) - 1) : t[i] # "["
    BY <2>1, <2>2, <2>3
  <2>5. t # <<>> /\ t[Len(t)] = "\n"
    <3>1. Len(t) # 0
      BY <2>0
    <3> QED BY <2>1, <3>1, EmptySeq
  <2>6. Proper(A, t) /\ Complete(A, t)
    BY <2>1, <2>2, <2>4, <2>5, ProperWithout
  <2>7. Starts(t)
    BY <2>1, <2>3 DEF Starts, Commands
  <2> QED BY <2>1, <2>2, <2>6, <2>7
<1>4. CASE t = LookKeyText(k)
  <2>1. /\ t \in Seq(Lexemes) /\ Len(t) = 7
        /\ t[1] = "look" /\ t[2] = " " /\ t[3] = "[" /\ t[4] = "key=" /\ t[5] = k /\ t[6] = "]"
        /\ t[7] = "\n"
    <3>1. t = <<"look", " ", "[", "key=", k, "]", "\n">>
      BY <1>4 DEF LookKeyText
    <3>2. <<"look", " ", "[", "key=", k, "]", "\n">> \in Seq(Lexemes)
      <4> DEFINE space == " "  open == "["  close == "]"  line == "\n"
      <4>1. /\ "look" \in Lexemes /\ space \in Lexemes /\ open \in Lexemes /\ "key=" \in Lexemes
            /\ k \in Lexemes /\ close \in Lexemes /\ line \in Lexemes
        BY <1>1
      <4> HIDE DEF space, open, close, line
      <4>2. <<"look", space, open, "key=", k, close, line>> \in Seq(Lexemes)
        BY <4>1
      <4> QED BY <4>2 DEF space, open, close, line
    <3>3. /\ Len(t) = 7
          /\ t[1] = "look" /\ t[2] = " " /\ t[3] = "[" /\ t[4] = "key=" /\ t[5] = k /\ t[6] = "]"
          /\ t[7] = "\n"
      BY <3>1
    <3> QED BY <3>1, <3>2, <3>3
  <2>2. \A i \in 1..Len(t) : t[i] \notin {"announce", "update"} /\ (t[i] = "[" => i = 3)
    <3>1. \A i \in 1..7 : i \in {1, 2, 3, 4, 5, 6, 7}
      OBVIOUS
    <3> QED BY <1>1, <2>1, <3>1
  <2>0. Len(t) = 7
    BY <2>1
  <2>3. Len(t) - 1 = 6 /\ (\A i \in 1..6 : i \in 1..7) /\ Len(t) >= 2
    BY <2>0
  <2>4. \A i \in 1..(Len(t) - 1) : t[i] = "[" => t[i + 1] \in {"]", "name", "key="}
    <3>1. \A i \in 1..(Len(t) - 1) : t[i] = "[" => i = 3
      BY <2>0, <2>2, <2>3
    <3>2. 3 + 1 = 4
      OBVIOUS
    <3>3. t[3 + 1] = "key="
      BY <2>1, <3>2
    <3> QED BY <3>1, <3>3
  <2>5. t # <<>> /\ t[Len(t)] = "\n"
    <3>1. Len(t) # 0
      BY <2>0
    <3> QED BY <2>1, <3>1, EmptySeq
  <2>6. Proper(A, t) /\ Complete(A, t)
    BY <2>1, <2>2, <2>4, <2>5, ProperWithout
  <2>7. Starts(t)
    BY <2>1, <2>3 DEF Starts, Commands
  <2> QED BY <2>1, <2>2, <2>6, <2>7
<1> QED BY <1>2, <1>3, <1>4

\* The text of an announce of the world's library.
Mine == AnnounceText(world.library)

LEMMA RequestsProper ==
  ASSUME world \in WorldType, NEW call \in CallType
  PROVE  /\ Proper(Mine, TextOf(call)) /\ Complete(Mine, TextOf(call)) /\ Starts(TextOf(call))
         /\ TextOf(call)[1] = "announce" => call.op = "announce"
         /\ call.op = "announce" => TextOf(call) = Mine
         /\ call.op = "update" => TextOf(call) = UpdateText(world.library)
         /\ call.op # "update" => \A i \in 1..Len(TextOf(call)) : TextOf(call)[i] # "update"
<1>1. world.library \in Seq(Keys)
  BY DEF WorldType
<1>2. Len(Mine) \in Nat
  BY <1>1, AnnounceIs, LenProperties DEF Mine
<1>3. CASE call.op = "announce"
  <2>1. TextOf(call) = Mine
    BY <1>3 DEF TextOf, Mine
  <2> QED BY <1>1, <1>3, <2>1, AnnounceProper DEF Mine
<1>4. CASE call.op = "update"
  <2>1. TextOf(call) = UpdateText(world.library)
    BY <1>4 DEF TextOf
  <2>2. TextOf(call)[1] = "update"
    BY <1>1, <2>1, UpdateIs
  <2> QED BY <1>1, <1>4, <2>1, <2>2, UpdateProper DEF Mine
<1>5. CASE call.op \notin {"announce", "update"}
  <2>1. \E k \in Keys : TextOf(call) \in {LookAllText, LookKeyText(k), GetfileText(k)}
    <3>1. CASE call.op = "lookall"
      <4>1. TextOf(call) = LookAllText
        BY <3>1 DEF TextOf
      <4> QED BY <4>1, KeysAssumption
    <3>2. CASE call.op = "lookkey"
      <4>1. call.key \in Keys
        BY <3>2 DEF CallType
      <4>2. TextOf(call) = LookKeyText(call.key)
        BY <3>2 DEF TextOf
      <4> QED BY <4>1, <4>2
    <3>3. CASE call.op = "getfile"
      <4>1. call.key \in Keys
        BY <3>3 DEF CallType
      <4>2. TextOf(call) = GetfileText(call.key)
        BY <3>3 DEF TextOf
      <4> QED BY <4>1, <4>2
    <3> QED BY <1>5, <3>1, <3>2, <3>3 DEF CallType
  <2>2. PICK k \in Keys : TextOf(call) \in {LookAllText, LookKeyText(k), GetfileText(k)}
    BY <2>1
  <2> DEFINE t == TextOf(call)
  <2> HIDE DEF t
  <2>3. t \in {LookAllText, LookKeyText(k), GetfileText(k)}
    BY <2>2 DEF t
  <2>4. /\ Proper(Mine, t) /\ Complete(Mine, t) /\ Starts(t)
        /\ t[1] \in {"look", "getfile"}
        /\ \A i \in 1..Len(t) : t[i] # "update"
    BY <1>2, <2>3, OthersProper
  <2> QED BY <1>5, <2>4 DEF t
<1> QED BY <1>3, <1>4, <1>5

\* A text that was cut within its last lexeme.
CutText(A, text) ==
  \E s \in Seq(Lexemes), y \in Lexemes :
    \E h \in Heads(y) : text = Append(s, h) /\ Proper(A, Append(s, y))

\* What main receives.
Readable(A, text, cut) == Proper(A, text) \/ (cut /\ CutText(A, text))

LEMMA HeadsIs ==
  ASSUME NEW y \in Lexemes, NEW h \in Heads(y)
  PROVE  /\ h \in Lexemes /\ h \notin Special /\ h # "update"
         /\ y \notin Special /\ y # "1"
         /\ y \in Keys => h \in Stems[y] /\ h \in Keys
         /\ y \notin Keys => h = "part"
<1>1. CASE y \in Keys
  <2>1. h \in Stems[y] /\ Stems[y] \subseteq Keys
    BY <1>1, KeysAssumption DEF Heads
  <2>2. h \in Keys /\ h \notin Words /\ y \notin Words /\ h \in Lexemes
    BY <1>1, <2>1, WordsKnown
  <2>3. \A x \in Special \cup {"update", "1"} : x \in Words
    BY DEF Words, Special
  <2> QED BY <1>1, <2>1, <2>2, <2>3
<1>2. CASE y \notin Keys
  <2>1. h = "part" /\ y \notin Short
    BY <1>2 DEF Heads
  <2>2. h \in Lexemes
    BY <2>1, WordsKnown DEF Words
  <2>3. \A x \in Special \cup {"1"} : x \in Short
    BY DEF Short, Special
  <2>4. "part" \notin Special \cup {"update"}
    BY DEF Special
  <2> QED BY <1>2, <2>1, <2>2, <2>3, <2>4
<1> QED BY <1>1, <1>2

LEMMA ReadableIs ==
  ASSUME NEW A, NEW text, NEW cut, Readable(A, text, cut)
  PROVE  text \in Seq(Lexemes)
<1>1. CASE Proper(A, text)
  BY <1>1 DEF Proper
<1>2. CASE CutText(A, text)
  <2>1. PICK s \in Seq(Lexemes), y \in Lexemes :
          \E h \in Heads(y) : text = Append(s, h) /\ Proper(A, Append(s, y))
    BY <1>2 DEF CutText
  <2>2. PICK h \in Heads(y) : text = Append(s, h)
    BY <2>1
  <2>3. h \in Lexemes
    BY HeadsIs
  <2> QED BY <2>2, <2>3, AppendProperties
<1> QED BY <1>1, <1>2 DEF Readable

-----------------------------------------------------------------------------
(* How an announce is read. *)

Reading(t, b, i) == [tokens |-> t, buf |-> b, inside |-> i]

Heard1 == Append(<<>>, <<"announce">>)
Heard2 == Append(Heard1, <<"listen">>)
Heard3 == Append(Heard2, <<"1">>)
Heard4 == Append(Heard3, <<"seed">>)

LEMMA HearMore ==
  ASSUME NEW s \in Seq(Tokens), NEW x \in Lexemes, NEW n \in Nat, Len(s) = n
  PROVE  /\ Append(s, <<x>>) \in Seq(Tokens) /\ Len(Append(s, <<x>>)) = n + 1
         /\ \A i \in 1..n : Append(s, <<x>>)[i] = s[i]
         /\ Append(s, <<x>>)[n + 1] = <<x>>
<1>1. <<x>> \in Tokens
  <2>1. <<x>> \in Seq(Lexemes) /\ Len(<<x>>) = 1 /\ Len(<<>>) = 0
    BY EmptySeq
  <2> QED BY <2>1 DEF Tokens
<1> QED BY <1>1, AppendProperties

LEMMA HeardIs ==
  /\ Heard1 \in Seq(Tokens) /\ Len(Heard1) = 1
  /\ Heard2 \in Seq(Tokens) /\ Len(Heard2) = 2
  /\ Heard3 \in Seq(Tokens) /\ Len(Heard3) = 3 /\ Heard3[3] = <<"1">>
  /\ Heard4 \in Seq(Tokens) /\ Len(Heard4) = 4 /\ Heard4[3] = <<"1">> /\ Heard4[4] = <<"seed">>
  /\ Heard4[1] = <<"announce">>
<1>1. "announce" \in Lexemes /\ "listen" \in Lexemes /\ "1" \in Lexemes /\ "seed" \in Lexemes
  BY WordsKnown DEF Words
<1>2. <<>> \in Seq(Tokens) /\ Len(<<>>) = 0
  BY EmptySeq
<1>3. Heard1 \in Seq(Tokens) /\ Len(Heard1) = 1 /\ Heard1[1] = <<"announce">>
  <2> DEFINE e == <<>>
  <2>2. e \in Seq(Tokens) /\ Len(e) = 0 /\ Heard1 = Append(e, <<"announce">>) /\ 0 \in Nat
    BY <1>2 DEF Heard1
  <2> HIDE DEF e
  <2>1. /\ Heard1 \in Seq(Tokens) /\ Len(Heard1) = 0 + 1 /\ Heard1[0 + 1] = <<"announce">>
    BY <1>1, <2>2, HearMore
  <2> QED BY <2>1
<1>4. Heard2 \in Seq(Tokens) /\ Len(Heard2) = 2 /\ Heard2[1] = <<"announce">>
  <2>1. /\ Heard2 \in Seq(Tokens) /\ Len(Heard2) = 1 + 1
        /\ \A i \in 1..1 : Heard2[i] = Heard1[i]
    BY <1>1, <1>3, HearMore DEF Heard2
  <2> QED BY <1>3, <2>1
<1>5. Heard3 \in Seq(Tokens) /\ Len(Heard3) = 3 /\ Heard3[1] = <<"announce">> /\ Heard3[3] = <<"1">>
  <2>1. /\ Heard3 \in Seq(Tokens) /\ Len(Heard3) = 2 + 1
        /\ \A i \in 1..2 : Heard3[i] = Heard2[i]
        /\ Heard3[2 + 1] = <<"1">>
    BY <1>1, <1>4, HearMore DEF Heard3
  <2>2. 2 + 1 = 3 /\ 1 \in 1..2
    OBVIOUS
  <2> QED BY <1>4, <2>1, <2>2
<1>6. /\ Heard4 \in Seq(Tokens) /\ Len(Heard4) = 4
      /\ Heard4[1] = <<"announce">> /\ Heard4[3] = <<"1">> /\ Heard4[4] = <<"seed">>
  <2>1. /\ Heard4 \in Seq(Tokens) /\ Len(Heard4) = 3 + 1
        /\ \A i \in 1..3 : Heard4[i] = Heard3[i]
        /\ Heard4[3 + 1] = <<"seed">>
    <3>1. Heard3 \in Seq(Tokens) /\ Len(Heard3) = 3 /\ 3 \in Nat /\ "seed" \in Lexemes
      BY <1>1, <1>5
    <3> QED BY <3>1, HearMore DEF Heard4
  <2>2. 3 + 1 = 4 /\ 1 \in 1..3 /\ 3 \in 1..3
    OBVIOUS
  <2> QED BY <1>5, <2>1, <2>2
<1> QED BY <1>3, <1>4, <1>5, <1>6

LEMMA TakeWord ==
  ASSUME NEW t, Reading(t, <<>>, FALSE) \in Readings,
         NEW x \in Lexemes, x \notin {" ", "[", "]", "\n"}
  PROVE  Take(Reading(t, <<>>, FALSE), x) = Reading(t, <<x>>, FALSE) /\ <<x>> # <<>>
<1> DEFINE acc == Reading(t, <<>>, FALSE)
<1>1. acc.tokens = t /\ acc.buf = <<>> /\ acc.inside = FALSE
  BY DEF Reading
<1> HIDE DEF acc
<1>2. Take(acc, x) = [tokens |-> acc.tokens, buf |-> Append(acc.buf, x), inside |-> acc.inside]
  BY TakeIs DEF acc
<1>3. Append(<<>>, x) = <<x>> /\ Append(<<>>, x) # <<>>
  BY AppendFirst
<1> QED BY <1>1, <1>2, <1>3 DEF acc, Reading

LEMMA TakeSpace ==
  ASSUME NEW t, NEW b, b # <<>>, Reading(t, b, FALSE) \in Readings
  PROVE  Take(Reading(t, b, FALSE), " ") = Reading(Append(t, b), <<>>, FALSE)
<1> DEFINE acc == Reading(t, b, FALSE)
<1>1. acc.tokens = t /\ acc.buf = b /\ acc.inside = FALSE
  BY DEF Reading
<1> HIDE DEF acc
<1>2. " " \in Lexemes
  BY WordsKnown DEF Words
<1>3. Take(acc, " ") = [tokens |-> Closed(acc), buf |-> <<>>, inside |-> FALSE]
  BY <1>1, <1>2, TakeIs DEF acc
<1>4. Closed(acc) = Append(t, b)
  BY <1>1 DEF Closed
<1> QED BY <1>3, <1>4 DEF acc, Reading

\* The readings of an announce that begins behind p, as far as the text goes.
LEMMA AnnounceWalk ==
  ASSUME NEW lib \in Seq(Keys), NEW text \in Seq(Lexemes), NEW g, Taken(g, text),
         NEW p \in 0..(Len(text) - 1), g[p] = Unread,
         \A j \in 0..(Len(AnnounceText(lib)) - 1) :
           p + 1 + j <= Len(text) => text[p + 1 + j] = AnnounceText(lib)[j + 1]
  PROVE  LET n == Len(text)
             L == Listed(lib)
             m == Len(L)
         IN /\ g[p + 1] = Reading(<<>>, <<"announce">>, FALSE)
            /\ p + 2 <= n => g[p + 2] = Reading(Heard1, <<>>, FALSE)
            /\ p + 3 <= n => g[p + 3] = Reading(Heard1, <<"listen">>, FALSE)
            /\ p + 4 <= n => g[p + 4] = Reading(Heard2, <<>>, FALSE)
            /\ p + 5 <= n => g[p + 5] = Reading(Heard2, <<"1">>, FALSE)
            /\ p + 6 <= n => g[p + 6] = Reading(Heard3, <<>>, FALSE)
            /\ p + 7 <= n => g[p + 7] = Reading(Heard3, <<"seed">>, FALSE)
            /\ p + 8 <= n => g[p + 8] = Reading(Heard4, <<>>, FALSE)
            /\ \A i \in 0..m : p + 9 + i <= n => g[p + 9 + i] = Reading(Heard4, SubSeq(L, 1, i), TRUE)
            /\ p + m + 10 <= n => g[p + m + 10] = Reading(Heard4, L, FALSE)
            /\ p + m + 11 <= n => g[p + m + 11] = Reading(Heard4, L, FALSE)
<1> DEFINE n == Len(text)
           L == Listed(lib)
           m == Len(L)
           A == AnnounceText(lib)
<1>1. /\ Len(A) = m + 11
      /\ A[1] = "announce" /\ A[2] = " " /\ A[3] = "listen" /\ A[4] = " "
      /\ A[5] = "1" /\ A[6] = " " /\ A[7] = "seed" /\ A[8] = " " /\ A[9] = "["
      /\ \A i \in 1..m : A[9 + i] = L[i]
      /\ A[m + 10] = "]" /\ A[m + 11] = "\n"
  BY AnnounceIs
<1>2. n \in Nat /\ p \in Nat /\ p + 1 <= n /\ m \in Nat
  <2>1. n \in Nat /\ m \in Nat
    BY ListedIs, LenProperties
  <2> QED BY <2>1
<1>3. L \in Seq(Lexemes) /\ \A x \in 1..m : L[x] \in Lexemes /\ L[x] \notin {"\n", "[", "]"}
  BY ListedIs, ElementOfSeq
<1>4. /\ \A i \in 0..n : g[i] \in Readings
      /\ \A i \in 1..n : g[i] = Take(g[i - 1], text[i]) /\ text[i] \in Lexemes
  <2>1. g \in [0..n -> Readings]
    BY DEF Taken
  <2>2. \A i \in 1..n : text[i] \in Lexemes
    BY ElementOfSeq
  <2> QED BY <2>1, <2>2 DEF Taken
<1>5. \A j \in 0..(Len(A) - 1) : p + 1 + j <= n => text[p + 1 + j] = A[j + 1]
  OBVIOUS
<1> HIDE DEF n, L, m, A
<1>6. ASSUME NEW q \in Nat, q < m + 11, p + q + 1 <= n
      PROVE  /\ g[p + q + 1] = Take(g[p + q], A[q + 1])
             /\ A[q + 1] \in Lexemes /\ g[p + q] \in Readings
  <2>1. /\ q \in 0..(m + 11 - 1) /\ p + 1 + q = p + q + 1 /\ p + q + 1 \in 1..n
        /\ (p + q + 1) - 1 = p + q /\ p + q \in 0..n
    BY <1>2, <1>6
  <2>3. q \in 0..(Len(A) - 1)
    <3>1. Len(A) = m + 11
      BY <1>1
    <3>2. Len(A) - 1 = m + 11 - 1
      BY <1>2, <3>1
    <3> QED BY <2>1, <3>2
  <2>4. p + 1 + q <= n
    BY <1>6, <2>1
  <2>5. text[p + 1 + q] = A[q + 1]
    BY <1>5, <2>3, <2>4
  <2>2. text[p + q + 1] = A[q + 1]
    BY <2>1, <2>5
  <2> QED BY <1>4, <2>1, <2>2
<1>7. \A k \in 0..10 : k < m + 11
  BY <1>2
<1>a. g[p + 1] = Reading(<<>>, <<"announce">>, FALSE)
  <2>1. p + 0 + 1 <= n /\ p + 0 + 1 = p + 1 /\ p + 0 = p /\ 0 + 1 = 1 /\ 0 < m + 11
    BY <1>2
  <2>2. g[p + 1] = Take(g[p], A[1]) /\ A[1] \in Lexemes /\ g[p] \in Readings
    BY <1>6, <2>1
  <2>3. g[p] = Reading(<<>>, <<>>, FALSE)
    BY DEF Unread, Reading
  <2> QED BY <1>1, <2>2, <2>3, TakeWord
<1>b. p + 2 <= n => g[p + 2] = Reading(Heard1, <<>>, FALSE)
  <2> SUFFICES ASSUME p + 2 <= n PROVE g[p + 2] = Reading(Heard1, <<>>, FALSE)
    OBVIOUS
  <2>1. p + 1 + 1 <= n /\ p + 1 + 1 = p + 2 /\ 1 + 1 = 2 /\ 1 < m + 11 /\ 1 \in Nat
    BY <1>2
  <2>2. g[p + 2] = Take(g[p + 1], A[2]) /\ g[p + 1] \in Readings
    BY <1>6, <2>1
  <2>3. <<"announce">> # <<>>
    BY EmptySeq
  <2>4. g[p + 1] = Reading(<<>>, <<"announce">>, FALSE)
    BY <1>a, <2>1
  <2>5. g[p + 2] = Take(Reading(<<>>, <<"announce">>, FALSE), " ") /\ Reading(<<>>, <<"announce">>, FALSE) \in Readings
    BY <1>1, <2>2, <2>4
  <2> QED BY <2>3, <2>5, TakeSpace DEF Heard1
<1>c. p + 3 <= n => g[p + 3] = Reading(Heard1, <<"listen">>, FALSE)
  <2> SUFFICES ASSUME p + 3 <= n PROVE g[p + 3] = Reading(Heard1, <<"listen">>, FALSE)
    OBVIOUS
  <2>1. p + 2 + 1 <= n /\ p + 2 + 1 = p + 3 /\ 2 + 1 = 3 /\ 2 < m + 11 /\ 2 \in Nat /\ p + 2 <= n
    BY <1>2
  <2>2. g[p + 3] = Take(g[p + 2], A[3]) /\ A[3] \in Lexemes /\ g[p + 2] \in Readings
    BY <1>6, <2>1
  <2> QED BY <1>1, <1>b, <2>1, <2>2, TakeWord
<1>d. p + 4 <= n => g[p + 4] = Reading(Heard2, <<>>, FALSE)
  <2> SUFFICES ASSUME p + 4 <= n PROVE g[p + 4] = Reading(Heard2, <<>>, FALSE)
    OBVIOUS
  <2>1. p + 3 + 1 <= n /\ p + 3 + 1 = p + 4 /\ 3 + 1 = 4 /\ 3 < m + 11 /\ 3 \in Nat /\ p + 3 <= n
    BY <1>2
  <2>2. g[p + 4] = Take(g[p + 3], A[4]) /\ g[p + 3] \in Readings
    BY <1>6, <2>1
  <2>3. <<"listen">> # <<>>
    BY EmptySeq
  <2>4. g[p + 3] = Reading(Heard1, <<"listen">>, FALSE)
    BY <1>c, <2>1
  <2>5. g[p + 4] = Take(Reading(Heard1, <<"listen">>, FALSE), " ") /\ Reading(Heard1, <<"listen">>, FALSE) \in Readings
    BY <1>1, <2>2, <2>4
  <2> QED BY <2>3, <2>5, TakeSpace DEF Heard2
<1>e. p + 5 <= n => g[p + 5] = Reading(Heard2, <<"1">>, FALSE)
  <2> SUFFICES ASSUME p + 5 <= n PROVE g[p + 5] = Reading(Heard2, <<"1">>, FALSE)
    OBVIOUS
  <2>1. p + 4 + 1 <= n /\ p + 4 + 1 = p + 5 /\ 4 + 1 = 5 /\ 4 < m + 11 /\ 4 \in Nat /\ p + 4 <= n
    BY <1>2
  <2>2. g[p + 5] = Take(g[p + 4], A[5]) /\ A[5] \in Lexemes /\ g[p + 4] \in Readings
    BY <1>6, <2>1
  <2> QED BY <1>1, <1>d, <2>1, <2>2, TakeWord, ZenonT(60)
<1>f. p + 6 <= n => g[p + 6] = Reading(Heard3, <<>>, FALSE)
  <2> SUFFICES ASSUME p + 6 <= n PROVE g[p + 6] = Reading(Heard3, <<>>, FALSE)
    OBVIOUS
  <2>1. p + 5 + 1 <= n /\ p + 5 + 1 = p + 6 /\ 5 + 1 = 6 /\ 5 < m + 11 /\ 5 \in Nat /\ p + 5 <= n
    BY <1>2
  <2>2. g[p + 6] = Take(g[p + 5], A[6]) /\ g[p + 5] \in Readings
    BY <1>6, <2>1
  <2>3. <<"1">> # <<>>
    BY EmptySeq
  <2>4. g[p + 5] = Reading(Heard2, <<"1">>, FALSE)
    BY <1>e, <2>1
  <2>5. g[p + 6] = Take(Reading(Heard2, <<"1">>, FALSE), " ") /\ Reading(Heard2, <<"1">>, FALSE) \in Readings
    BY <1>1, <2>2, <2>4
  <2> QED BY <2>3, <2>5, TakeSpace DEF Heard3
<1>g. p + 7 <= n => g[p + 7] = Reading(Heard3, <<"seed">>, FALSE)
  <2> SUFFICES ASSUME p + 7 <= n PROVE g[p + 7] = Reading(Heard3, <<"seed">>, FALSE)
    OBVIOUS
  <2>1. p + 6 + 1 <= n /\ p + 6 + 1 = p + 7 /\ 6 + 1 = 7 /\ 6 < m + 11 /\ 6 \in Nat /\ p + 6 <= n
    BY <1>2
  <2>2. g[p + 7] = Take(g[p + 6], A[7]) /\ A[7] \in Lexemes /\ g[p + 6] \in Readings
    BY <1>6, <2>1
  <2> QED BY <1>1, <1>f, <2>1, <2>2, TakeWord
<1>h. p + 8 <= n => g[p + 8] = Reading(Heard4, <<>>, FALSE)
  <2> SUFFICES ASSUME p + 8 <= n PROVE g[p + 8] = Reading(Heard4, <<>>, FALSE)
    OBVIOUS
  <2>1. p + 7 + 1 <= n /\ p + 7 + 1 = p + 8 /\ 7 + 1 = 8 /\ 7 < m + 11 /\ 7 \in Nat /\ p + 7 <= n
    BY <1>2
  <2>2. g[p + 8] = Take(g[p + 7], A[8]) /\ g[p + 7] \in Readings
    BY <1>6, <2>1
  <2>3. <<"seed">> # <<>>
    BY EmptySeq
  <2>4. g[p + 7] = Reading(Heard3, <<"seed">>, FALSE)
    BY <1>g, <2>1
  <2>5. g[p + 8] = Take(Reading(Heard3, <<"seed">>, FALSE), " ") /\ Reading(Heard3, <<"seed">>, FALSE) \in Readings
    BY <1>1, <2>2, <2>4
  <2> QED BY <2>3, <2>5, TakeSpace DEF Heard4
<1> DEFINE P(i) == i <= m /\ p + 9 + i <= n => g[p + 9 + i] = Reading(Heard4, SubSeq(L, 1, i), TRUE)
           T == {i \in Nat : P(i)}
<1>i. 0 \in T
  <2> SUFFICES ASSUME p + 9 <= n PROVE g[p + 9] = Reading(Heard4, SubSeq(L, 1, 0), TRUE)
    <3>1. p + 9 + 0 = p + 9
      BY <1>2
    <3>2. P(0)
      BY <3>1
    <3> HIDE DEF P
    <3> QED BY <3>2
  <2>1. p + 8 + 1 <= n /\ p + 8 + 1 = p + 9 /\ 8 + 1 = 9 /\ 8 < m + 11 /\ 8 \in Nat /\ p + 8 <= n
    BY <1>2
  <2>2. g[p + 9] = Take(g[p + 8], A[9]) /\ A[9] \in Lexemes /\ g[p + 8] \in Readings
    BY <1>6, <2>1
  <2>3. Take(g[p + 8], "[") = [tokens |-> Closed(g[p + 8]), buf |-> <<>>, inside |-> TRUE]
    <3>1. "[" \in Lexemes
      BY <1>1, <2>2
    <3> QED BY <2>2, <3>1, TakeIs
  <2>4. Closed(g[p + 8]) = Heard4
    BY <1>h, <2>1 DEF Closed, Reading
  <2>5. SubSeq(L, 1, 0) = <<>>
    BY SubSeqEmpty
  <2> QED BY <1>1, <2>2, <2>3, <2>4, <2>5 DEF Reading
<1>j. ASSUME NEW i \in Nat, i \in T PROVE i + 1 \in T
  <2> SUFFICES ASSUME i + 1 <= m, p + 9 + (i + 1) <= n
               PROVE  g[p + 9 + (i + 1)] = Reading(Heard4, SubSeq(L, 1, i + 1), TRUE)
    <3>1. P(i + 1)
      OBVIOUS
    <3> HIDE DEF P
    <3> QED BY <3>1
  <2> DEFINE q == 9 + i
             a == g[p + q]
             x == L[i + 1]
  <2>1. /\ q \in Nat /\ q < m + 11 /\ p + q + 1 <= n /\ p + q + 1 = p + 9 + (i + 1)
        /\ p + q = p + 9 + i /\ q + 1 = 9 + (i + 1) /\ i + 1 \in 1..m /\ i <= m /\ p + 9 + i <= n
    BY <1>2
  <2>2. a = Reading(Heard4, SubSeq(L, 1, i), TRUE)
    BY <1>j, <2>1
  <2> HIDE DEF q
  <2>3. A[q + 1] = x
    BY <1>1, <2>1
  <2>4. g[p + 9 + (i + 1)] = Take(a, x) /\ a \in Readings
    BY <1>6, <2>1, <2>3
  <2>5. x \in Lexemes /\ x \notin {"\n", "[", "]"}
    BY <1>3, <2>1
  <2> HIDE DEF a, x
  <2>6. a.inside /\ a.tokens = Heard4 /\ a.buf = SubSeq(L, 1, i) /\ a.inside = TRUE
    BY <2>2 DEF Reading
  <2>7. Take(a, x) = [tokens |-> a.tokens, buf |-> Append(a.buf, x), inside |-> a.inside]
    BY <2>4, <2>5, <2>6, TakeIs
  <2>8. Append(SubSeq(L, 1, i), x) = SubSeq(L, 1, i + 1)
    <3>1. SubSeq(L, 1, i + 1) = SubSeq(L, 1, (i + 1) - 1) \o <<L[i + 1]>>
      <4>1. 1 \in 1..Len(L) /\ i + 1 \in 1..Len(L)
        BY <2>1, <1>2 DEF m
      <4> QED BY <1>3, <4>1, SubSeqRecursiveSecond
    <3>2. (i + 1) - 1 = i
      OBVIOUS
    <3>3. SubSeq(L, 1, i) \in Seq(Lexemes)
      BY <2>4, <2>6 DEF Readings
    <3>4. Append(SubSeq(L, 1, i), x) = SubSeq(L, 1, i) \o <<x>>
      BY <2>5, <3>3, AppendIsConcat
    <3> QED BY <3>1, <3>2, <3>4 DEF x
  <2> QED BY <2>4, <2>6, <2>7, <2>8 DEF Reading
<1>k. \A i \in Nat : i \in T
  <2> HIDE DEF T
  <2> QED BY <1>i, <1>j, Upwards
<1>l. \A i \in 0..m : p + 9 + i <= n => g[p + 9 + i] = Reading(Heard4, SubSeq(L, 1, i), TRUE)
  <2>1. \A i \in 0..m : i \in Nat /\ i <= m
    BY <1>2
  <2>2. \A i \in 0..m : P(i)
    <3> HIDE DEF P
    <3> QED BY <1>k, <2>1
  <2> QED BY <2>1, <2>2
<1> HIDE DEF P, T
<1>m. p + m + 10 <= n => g[p + m + 10] = Reading(Heard4, L, FALSE)
  <2> SUFFICES ASSUME p + m + 10 <= n PROVE g[p + m + 10] = Reading(Heard4, L, FALSE)
    OBVIOUS
  <2> DEFINE q == m + 9
             a == g[p + q]
  <2>1. /\ q \in Nat /\ q < m + 11 /\ p + q + 1 <= n /\ p + q + 1 = p + m + 10
        /\ p + q = p + 9 + m /\ q + 1 = m + 10 /\ m \in 0..m /\ p + 9 + m <= n
    BY <1>2
  <2>2. SubSeq(L, 1, m) = L
    BY <1>3, SubSeqFull DEF m
  <2>3. a = Reading(Heard4, L, TRUE)
    BY <1>l, <2>1, <2>2
  <2> HIDE DEF q
  <2>4. g[p + m + 10] = Take(a, "]") /\ "]" \in Lexemes /\ a \in Readings
    BY <1>1, <1>6, <2>1
  <2> HIDE DEF a
  <2>5. Take(a, "]") = [tokens |-> a.tokens, buf |-> a.buf, inside |-> FALSE]
    BY <2>4, TakeIs
  <2> QED BY <2>3, <2>4, <2>5 DEF Reading
<1>n. p + m + 11 <= n => g[p + m + 11] = Reading(Heard4, L, FALSE)
  <2> SUFFICES ASSUME p + m + 11 <= n PROVE g[p + m + 11] = Reading(Heard4, L, FALSE)
    OBVIOUS
  <2> DEFINE q == m + 10
             a == g[p + q]
  <2>1. /\ q \in Nat /\ q < m + 11 /\ p + q + 1 <= n /\ p + q + 1 = p + m + 11
        /\ p + q = p + m + 10 /\ q + 1 = m + 11 /\ p + m + 10 <= n
    BY <1>2
  <2>3. a = Reading(Heard4, L, FALSE)
    BY <1>m, <2>1
  <2> HIDE DEF q
  <2>4. g[p + m + 11] = Take(a, "\n") /\ "\n" \in Lexemes /\ a \in Readings
    BY <1>1, <1>6, <2>1
  <2> HIDE DEF a
  <2>5. Take(a, "\n") = a
    BY <2>4, TakeIs
  <2> QED BY <2>3, <2>4, <2>5
<1> QED BY <1>a, <1>b, <1>c, <1>d, <1>e, <1>f, <1>g, <1>h, <1>l, <1>m, <1>n, Zenon DEF n, L, m

\* What a message that begins with announce has for tokens: the port, and a
\* beginning of the library or the whole of it with a word stuck to it.
Announced3(tokens, L) ==
  /\ tokens[3] = <<"1">>
  /\ Len(tokens) >= 5 =>
       /\ tokens[4] = <<"seed">>
       /\ \/ /\ Len(tokens) = 5
             /\ \E q \in 1..Len(L) : tokens[5] = SubSeq(L, 1, q)
          \/ \E w \in Commands : tokens[5] = Append(L, w)

\* An opening bracket is not followed by the word announce, so that the first
\* word of a message is read outside brackets when it is announce.
LEMMA InsideBehindBracket ==
  ASSUME NEW A, NEW text, Proper(A, text), NEW g, Taken(g, text),
         NEW p \in 0..(Len(text) - 1), \A i \in 0..p : Unbegun(g[i]), g[p].inside
  PROVE  p # 0 /\ text[p] = "["
<1> DEFINE n == Len(text)
           P(i) == i <= p /\ g[i].inside => i # 0 /\ text[i] = "["
           T == {i \in Nat : P(i)}
<1>1. text \in Seq(Lexemes)
  BY DEF Proper
<1>2. n \in Nat /\ p \in Nat /\ p + 1 <= n
  <2>1. n \in Nat
    BY <1>1, LenProperties
  <2> QED BY <2>1
<1>3. /\ \A i \in 0..n : g[i] \in Readings
      /\ \A i \in 1..n : g[i] = Take(g[i - 1], text[i]) /\ text[i] \in Lexemes
  <2>1. g \in [0..n -> Readings]
    BY DEF Taken
  <2>2. \A i \in 1..n : text[i] \in Lexemes
    BY <1>1, ElementOfSeq
  <2> QED BY <2>1, <2>2 DEF Taken
<1>4. \A i \in 1..(n - 1) : text[i] = "[" => text[i + 1] \in {"]", "name", "key="}
  BY DEF Proper
<1> HIDE DEF n, P
<1>5. 0 \in T
  <2>1. ~g[0].inside
    BY DEF Taken, Unread
  <2> QED BY <2>1 DEF P
<1>6. ASSUME NEW k \in Nat, k \in T PROVE k + 1 \in T
  <2> SUFFICES ASSUME k + 1 <= p, g[k + 1].inside PROVE text[k + 1] = "["
    BY DEF P
  <2> DEFINE a == g[k]
             x == text[k + 1]
  <2>1. /\ k + 1 \in 1..n /\ k \in 0..n /\ (k + 1) - 1 = k /\ k <= p /\ k \in 0..p /\ k + 1 \in 0..p
        /\ (k # 0 => k \in 1..(n - 1))
    BY <1>2
  <2>2. g[k + 1] = Take(a, x) /\ a \in Readings /\ x \in Lexemes
    BY <1>3, <2>1
  <2>3. a.buf = <<>> /\ Take(a, x).buf = <<>> /\ Take(a, x).inside
    BY <2>1, <2>2 DEF Unbegun
  <2>4. a.inside => k # 0 /\ text[k] = "["
    BY <1>6, <2>1 DEF P
  <2>5. a.inside => x \in {"]", "name", "key="}
    BY <1>4, <2>1, <2>4
  <2> HIDE DEF a, x
  <2>6. CASE x = "\n"
    <3>1. Take(a, x) = a
      BY <2>2, <2>6, TakeIs
    <3> QED BY <2>3, <2>5, <2>6, <3>1
  <2>7. CASE x = " " /\ ~a.inside
    <3>1. Take(a, x) = [tokens |-> Closed(a), buf |-> <<>>, inside |-> FALSE]
      BY <2>2, <2>7, TakeIs
    <3>2. ~Take(a, x).inside
      BY <3>1
    <3> QED BY <2>3, <3>2
  <2>8. CASE x = "]"
    <3>1. Take(a, x) = [tokens |-> a.tokens, buf |-> a.buf, inside |-> FALSE]
      BY <2>2, <2>8, TakeIs
    <3>2. ~Take(a, x).inside
      BY <3>1
    <3> QED BY <2>3, <3>2
  <2>9. CASE x \notin {"\n", "[", "]"} /\ (x = " " => a.inside)
    <3>1. Take(a, x) = [tokens |-> a.tokens, buf |-> Append(a.buf, x), inside |-> a.inside]
      BY <2>2, <2>9, TakeIs
    <3>2. Take(a, x).buf = Append(a.buf, x)
      BY <3>1
    <3>3. Append(<<>>, x) # <<>>
      BY <2>2, AppendFirst
    <3> QED BY <2>3, <3>2, <3>3
  <2> QED BY <2>6, <2>7, <2>8, <2>9 DEF x
<1>7. p \in T
  <2> HIDE DEF T
  <2> QED BY <1>2, <1>5, <1>6, Upwards
<1> QED BY <1>2, <1>7 DEF P

LEMMA AnnounceRead ==
  ASSUME NEW lib \in Seq(Keys), NEW text, Proper(AnnounceText(lib), text),
         Parse(text) # <<>>, Parse(text)[1][1] = "announce", Len(Parse(text)) >= 3
  PROVE  Announced3(Parse(text), Listed(lib))
<1> DEFINE n == Len(text)
           L == Listed(lib)
           m == Len(L)
           A == AnnounceText(lib)
           tokens == Parse(text)
<1>1. text \in Seq(Lexemes) /\ tokens \in Seq(Tokens)
  BY ReadIs DEF Proper
<1>2. PICK g : Taken(g, text)
  BY <1>1, ReadIs
<1>3. PICK p \in 0..(n - 1) : /\ \A i \in 0..p : Unbegun(g[i])
                              /\ tokens[1][1] = text[p + 1]
  BY <1>1, <1>2, FirstWord
<1>4. n \in Nat /\ p \in Nat /\ p + 1 <= n /\ m \in Nat /\ L \in Seq(Lexemes) /\ Len(A) = m + 11
  <2>1. n \in Nat /\ L \in Seq(Lexemes) /\ m \in Nat /\ Len(A) = m + 11
    BY <1>1, ListedIs, AnnounceIs, LenProperties
  <2>2. p \in Nat /\ p + 1 <= n
    BY <2>1
  <2> QED BY <2>1, <2>2
<1>5. g \in [0..n -> Readings] /\ tokens = Closed(g[n])
  BY <1>2 DEF Taken
<1>6. /\ \A i \in 1..(n - 1) : text[i] = "[" => text[i + 1] \in {"]", "name", "key="}
      /\ \A i \in 1..n : text[i] = "announce" =>
           \A j \in 0..(Len(A) + 1) : i + j <= n => Behind(A, j, text[i + j])
  BY DEF Proper
<1>7. text[p + 1] = "announce"
  BY <1>3
<1> HIDE DEF n, L, m, A, tokens
<1>8. ~g[p].inside
  <2> SUFFICES ASSUME g[p].inside PROVE FALSE
    OBVIOUS
  <2>1. p # 0 /\ text[p] = "["
    BY <1>2, <1>3, InsideBehindBracket DEF n
  <2>2. p \in 1..(n - 1)
    BY <1>4, <2>1
  <2> QED BY <1>6, <1>7, <2>1, <2>2
<1>9. g[p] = Unread
  <2>1. p \in 0..p /\ p \in 0..n
    BY <1>4
  <2>2. g[p].tokens = <<>> /\ g[p].buf = <<>>
    BY <1>3, <2>1 DEF Unbegun
  <2>3. g[p] \in Readings
    BY <1>5, <2>1
  <2>4. g[p] = [tokens |-> g[p].tokens, buf |-> g[p].buf, inside |-> g[p].inside] /\ g[p].inside \in BOOLEAN
    BY <2>3 DEF Readings
  <2> QED BY <1>8, <2>2, <2>4 DEF Unread
<1>10. \A j \in 0..(Len(A) + 1) : p + 1 + j <= n => Behind(A, j, text[p + 1 + j])
  <2>1. p + 1 \in 1..n
    BY <1>4
  <2> QED BY <1>6, <1>7, <2>1
<1>11. \A j \in 0..(Len(A) - 1) : p + 1 + j <= n => text[p + 1 + j] = A[j + 1]
  <2>1. \A j \in 0..(Len(A) - 1) : j \in 0..(Len(A) + 1) /\ j < Len(A)
    BY <1>4
  <2> QED BY <1>10, <2>1 DEF Behind
<1>12. /\ g[p + 1] = Reading(<<>>, <<"announce">>, FALSE)
       /\ p + 2 <= n => g[p + 2] = Reading(Heard1, <<>>, FALSE)
       /\ p + 3 <= n => g[p + 3] = Reading(Heard1, <<"listen">>, FALSE)
       /\ p + 4 <= n => g[p + 4] = Reading(Heard2, <<>>, FALSE)
       /\ p + 5 <= n => g[p + 5] = Reading(Heard2, <<"1">>, FALSE)
       /\ p + 6 <= n => g[p + 6] = Reading(Heard3, <<>>, FALSE)
       /\ p + 7 <= n => g[p + 7] = Reading(Heard3, <<"seed">>, FALSE)
       /\ p + 8 <= n => g[p + 8] = Reading(Heard4, <<>>, FALSE)
       /\ \A i \in 0..m : p + 9 + i <= n => g[p + 9 + i] = Reading(Heard4, SubSeq(L, 1, i), TRUE)
       /\ p + m + 10 <= n => g[p + m + 10] = Reading(Heard4, L, FALSE)
       /\ p + m + 11 <= n => g[p + m + 11] = Reading(Heard4, L, FALSE)
  <2>1. p \in 0..(Len(text) - 1)
    BY DEF n
  <2>2. \A j \in 0..(Len(AnnounceText(lib)) - 1) :
          p + 1 + j <= Len(text) => text[p + 1 + j] = AnnounceText(lib)[j + 1]
    BY <1>11 DEF n, A
  <2> HIDE <1>1
  <2> QED BY <1>1, <1>2, <1>9, <2>1, <2>2, AnnounceWalk DEF n, L, m
<1>0. n \in Nat /\ p \in Nat /\ m \in Nat
  BY <1>4
<1>r1. n = p + 1 => g[n] = Reading(<<>>, <<"announce">>, FALSE)
  BY <1>12
<1>r2. n = p + 2 => g[n] = Reading(Heard1, <<>>, FALSE)
  <2>1. n = p + 2 => p + 2 <= n
    BY <1>0
  <2> QED BY <1>12, <2>1
<1>r3. n = p + 3 => g[n] = Reading(Heard1, <<"listen">>, FALSE)
  <2>1. n = p + 3 => p + 3 <= n
    BY <1>0
  <2> QED BY <1>12, <2>1
<1>r4. n = p + 4 => g[n] = Reading(Heard2, <<>>, FALSE)
  <2>1. n = p + 4 => p + 4 <= n
    BY <1>0
  <2> QED BY <1>12, <2>1
<1>r5. n = p + 5 => g[n] = Reading(Heard2, <<"1">>, FALSE)
  <2>1. n = p + 5 => p + 5 <= n
    BY <1>0
  <2> QED BY <1>12, <2>1
<1>r6. n = p + 6 => g[n] = Reading(Heard3, <<>>, FALSE)
  <2>1. n = p + 6 => p + 6 <= n
    BY <1>0
  <2> QED BY <1>12, <2>1
<1>r7. n = p + 7 => g[n] = Reading(Heard3, <<"seed">>, FALSE)
  <2>1. n = p + 7 => p + 7 <= n
    BY <1>0
  <2> QED BY <1>12, <2>1
<1>r8. n = p + 8 => g[n] = Reading(Heard4, <<>>, FALSE)
  <2>1. n = p + 8 => p + 8 <= n
    BY <1>0
  <2> QED BY <1>12, <2>1
<1>r9. \A i \in 0..m : n = p + 9 + i => g[n] = Reading(Heard4, SubSeq(L, 1, i), TRUE)
  <2> SUFFICES ASSUME NEW i \in 0..m, n = p + 9 + i PROVE g[n] = Reading(Heard4, SubSeq(L, 1, i), TRUE)
    OBVIOUS
  <2>1. p + 9 + i <= n
    BY <1>0
  <2>2. g[p + 9 + i] = Reading(Heard4, SubSeq(L, 1, i), TRUE)
    BY <1>12, <2>1
  <2> QED BY <2>2
<1>r10. n = p + m + 10 \/ n = p + m + 11 => g[n] = Reading(Heard4, L, FALSE)
  <2>1. n = p + m + 10 => p + m + 10 <= n
    BY <1>0
  <2>2. n = p + m + 11 => p + m + 11 <= n
    BY <1>0
  <2> QED BY <1>12, <2>1, <2>2
<1>13. ASSUME NEW t, NEW b, NEW i, g[n] = Reading(t, b, i)
       PROVE  tokens = IF b = <<>> THEN t ELSE Append(t, b)
  BY <1>5, <1>13 DEF Closed, Reading
<1>14. CASE n < p + 5
  <2>1. n = p + 1 \/ n = p + 2 \/ n = p + 3 \/ n = p + 4
    BY <1>4, <1>14
  <2>2. Len(tokens) < 3
    <3>1. ASSUME NEW t \in Seq(Tokens), NEW b \in Seq(Lexemes), Len(t) < 2, g[n] = Reading(t, b, FALSE)
          PROVE  Len(tokens) < 3
      <4>1. CASE b = <<>>
        <5>1. tokens = t
          BY <1>13, <3>1, <4>1
        <5>2. Len(t) \in Nat
          BY LenProperties
        <5> QED BY <3>1, <5>1, <5>2
      <4>2. CASE b # <<>>
        <5>1. b \in Tokens /\ tokens = Append(t, b)
          BY <1>13, <3>1, <4>2 DEF Tokens
        <5>2. Len(tokens) = Len(t) + 1 /\ Len(t) \in Nat
          BY <5>1, AppendProperties, LenProperties
        <5> QED BY <3>1, <5>2
      <4> QED BY <4>1, <4>2
    <3>2. /\ <<"announce">> \in Seq(Lexemes) /\ <<"listen">> \in Seq(Lexemes)
          /\ <<>> \in Seq(Lexemes) /\ <<>> \in Seq(Tokens) /\ Len(<<>>) = 0
      <4>1. "announce" \in Lexemes /\ "listen" \in Lexemes
        BY WordsKnown DEF Words
      <4> QED BY <4>1, EmptySeq
    <3>h. /\ Heard1 \in Seq(Tokens) /\ Heard2 \in Seq(Tokens) /\ Len(Heard1) < 2 /\ Len(Heard2) < 3
      BY HeardIs
    <3>e. <<>> \in Seq(Tokens) /\ Len(<<>>) < 2
      BY <3>2
    <3>3. CASE n = p + 1
      <4>1. g[n] = Reading(<<>>, <<"announce">>, FALSE)
        BY <1>r1, <3>3
      <4>2. <<"announce">> \in Seq(Lexemes)
        BY <3>2
      <4> QED BY <3>1, <3>e, <4>1, <4>2, Zenon
    <3>4. CASE n = p + 2
      <4>1. g[n] = Reading(Heard1, <<>>, FALSE)
        BY <1>r2, <3>4
      <4>2. <<>> \in Seq(Lexemes)
        BY <3>2
      <4> QED BY <3>1, <3>h, <4>1, <4>2, Zenon
    <3>5. CASE n = p + 3
      <4>1. g[n] = Reading(Heard1, <<"listen">>, FALSE)
        BY <1>r3, <3>5
      <4>2. <<"listen">> \in Seq(Lexemes)
        BY <3>2
      <4> QED BY <3>1, <3>h, <4>1, <4>2, Zenon
    <3>6. CASE n = p + 4
      <4>1. tokens = Heard2
        BY <1>r4, <1>13, <3>6
      <4> QED BY <3>h, <4>1
    <3> QED BY <2>1, <3>3, <3>4, <3>5, <3>6
  <2> QED BY <2>2 DEF tokens
<1>15. CASE n = p + 5 \/ n = p + 6
  <2>1. tokens = Heard3
    <3>1. <<"1">> # <<>>
      BY EmptySeq
    <3>2. CASE n = p + 5
      <4>1. g[n] = Reading(Heard2, <<"1">>, FALSE)
        BY <1>r5, <3>2
      <4> QED BY <1>13, <3>1, <4>1 DEF Heard3
    <3>3. CASE n = p + 6
      <4>1. g[n] = Reading(Heard3, <<>>, FALSE)
        BY <1>r6, <3>3
      <4> QED BY <1>13, <4>1
    <3> QED BY <1>15, <3>2, <3>3
  <2> QED BY <2>1, HeardIs DEF Announced3, tokens
<1>16. ASSUME tokens = Heard4 PROVE Announced3(tokens, L)
  BY <1>16, HeardIs DEF Announced3
<1>17. ASSUME NEW b \in Tokens, Lengthens(Append(Heard4, b), tokens),
              \/ tokens = Append(Heard4, b) /\ \E q \in 1..Len(L) : b = SubSeq(L, 1, q)
              \/ \E w \in Commands : b = Append(L, w)
       PROVE  Announced3(tokens, L)
  <2> DEFINE H == Append(Heard4, b)
  <2>1. Heard4 \in Seq(Tokens) /\ Len(Heard4) = 4 /\ Heard4[3] = <<"1">> /\ Heard4[4] = <<"seed">>
    BY HeardIs
  <2>2. /\ H \in Seq(Tokens) /\ Len(H) = 4 + 1 /\ H[4 + 1] = b
        /\ \A i \in 1..4 : H[i] = Heard4[i]
    <3>1. /\ H \in Seq(Tokens) /\ Len(H) = Len(Heard4) + 1 /\ H[Len(Heard4) + 1] = b
          /\ \A i \in 1..Len(Heard4) : H[i] = Heard4[i]
      <4>1. Heard4 \in Seq(Tokens)
        BY <2>1
      <4>2. b \in Tokens
        OBVIOUS
      <4> QED BY <4>1, <4>2, AppendProperties
    <3>2. Len(Heard4) = 4
      BY <2>1
    <3> HIDE DEF H
    <3> QED BY <3>1, <3>2
  <2>3. Len(H) = 5 /\ H[5] = b /\ H[3] = <<"1">> /\ H[4] = <<"seed">>
    <3>1. 3 \in 1..4 /\ 4 \in 1..4 /\ 4 + 1 = 5
      OBVIOUS
    <3> QED BY <2>1, <2>2, <3>1
  <2> HIDE DEF H
  <2>4. Lengthens(H, tokens)
    BY <1>17 DEF H
  <2>5. tokens[3] = <<"1">> /\ tokens[4] = <<"seed">> /\ tokens[5] = b
    <3>1. 3 \in 1..Len(H) /\ 4 \in 1..Len(H) /\ 5 \in 1..Len(H)
      BY <2>3
    <3> QED BY <2>3, <2>4, <3>1 DEF Lengthens
  <2>6. tokens = H => Len(tokens) = 5
    BY <2>3
  <2> QED BY <1>17, <2>5, <2>6 DEF Announced3, H
<1>18. Lengthens(tokens, tokens)
  BY <1>1, LenProperties DEF Lengthens
<1>19. ASSUME NEW t, tokens = t PROVE Lengthens(t, tokens)
  BY <1>18, <1>19
<1>20. CASE n = p + 7 \/ n = p + 8
  <2>1. tokens = Heard4
    <3>1. <<"seed">> # <<>>
      BY EmptySeq
    <3>2. CASE n = p + 7
      <4>1. g[n] = Reading(Heard3, <<"seed">>, FALSE)
        BY <1>r7, <3>2
      <4> QED BY <1>13, <3>1, <4>1 DEF Heard4
    <3>3. CASE n = p + 8
      <4>1. g[n] = Reading(Heard4, <<>>, FALSE)
        BY <1>r8, <3>3
      <4> QED BY <1>13, <4>1
    <3> QED BY <1>20, <3>2, <3>3
  <2> QED BY <1>16, <2>1 DEF tokens, L
<1>21. CASE p + 9 <= n /\ n <= p + m + 9
  <2> DEFINE q == n - (p + 9)
  <2>1. q \in 0..m /\ p + 9 + q = n
    BY <1>4, <1>21
  <2> HIDE DEF q
  <2>2. g[n] = Reading(Heard4, SubSeq(L, 1, q), TRUE)
    BY <1>r9, <2>1
  <2>3. CASE SubSeq(L, 1, q) = <<>>
    <3>1. tokens = Heard4
      BY <1>13, <2>2, <2>3
    <3> QED BY <1>16, <3>1 DEF tokens, L
  <2>4. CASE SubSeq(L, 1, q) # <<>>
    <3>1. tokens = Append(Heard4, SubSeq(L, 1, q))
      BY <1>13, <2>2, <2>4
    <3>2. q # 0
      <4>1. q = 0 => SubSeq(L, 1, q) = <<>>
        BY SubSeqEmpty
      <4> QED BY <2>4, <4>1
    <3>3. q \in 1..Len(L)
      BY <1>4, <2>1, <3>2 DEF m
    <3>4. SubSeq(L, 1, q) \in Tokens
      <4>1. n \in 0..n
        BY <1>4
      <4>2. g[n] \in Readings
        BY <1>5, <4>1
      <4>3. SubSeq(L, 1, q) \in Seq(Lexemes)
        BY <2>2, <4>2 DEF Readings, Reading
      <4> QED BY <2>4, <4>3 DEF Tokens
    <3> QED BY <1>17, <1>19, <3>1, <3>3, <3>4 DEF tokens, L
  <2> QED BY <2>3, <2>4
<1>22. CASE n = p + m + 10 \/ n = p + m + 11
  <2>1. g[n] = Reading(Heard4, L, FALSE)
    BY <1>r10, <1>22
  <2>2. CASE L = <<>>
    <3>1. tokens = Heard4
      BY <1>13, <2>1, <2>2
    <3> QED BY <1>16, <3>1 DEF tokens, L
  <2>3. CASE L # <<>>
    <3>1. tokens = Append(Heard4, L) /\ L \in Tokens
      BY <1>4, <1>13, <2>1, <2>3 DEF Tokens
    <3>2. m # 0
      BY <1>4, <2>3, EmptySeq DEF m
    <3>3. Len(L) \in 1..Len(L) /\ L = SubSeq(L, 1, Len(L))
      <4>1. L = SubSeq(L, 1, Len(L))
        BY <1>4, SubSeqFull
      <4>2. m \in 1..m
        BY <1>4, <3>2
      <4> QED BY <4>1, <4>2 DEF m
    <3> QED BY <1>17, <1>19, <3>1, <3>3 DEF tokens, L
  <2> QED BY <2>2, <2>3
<1>23. CASE n >= p + m + 12
  <2> DEFINE w == text[p + m + 12]
             a == g[p + m + 11]
             b == Append(L, w)
  <2>1. /\ p + m + 11 \in 0..n /\ p + m + 12 \in 1..n /\ p + m + 11 <= n
        /\ (p + m + 12) - 1 = p + m + 11 /\ p + 1 + (m + 11) = p + m + 12
        /\ p + m + 12 \in 0..n /\ p + m + 12 <= n /\ m + 11 \in 0..(m + 11 + 1)
    BY <1>4, <1>23
  <2>2. a = Reading(Heard4, L, FALSE) /\ a \in Readings
    BY <1>5, <1>12, <2>1
  <2>3. w \in Commands
    <3>1. Behind(A, m + 11, text[p + 1 + (m + 11)])
      BY <1>4, <1>10, <2>1
    <3> QED BY <1>4, <2>1, <3>1 DEF Behind
  <2>4. w \in Lexemes /\ w \notin {" ", "[", "]", "\n"}
    BY <2>3, WordsKnown DEF Commands, Words
  <2>5. g[p + m + 12] = Take(a, w)
    BY <1>2, <2>1 DEF Taken, n
  <2> HIDE DEF w, a
  <2>6. a.tokens = Heard4 /\ a.buf = L /\ a.inside = FALSE
    BY <2>2 DEF Reading
  <2>7. Take(a, w) = [tokens |-> a.tokens, buf |-> Append(a.buf, w), inside |-> a.inside]
    BY <2>2, <2>4, TakeIs
  <2>8. g[p + m + 12] = Reading(Heard4, b, FALSE)
    BY <2>5, <2>6, <2>7 DEF Reading
  <2>9. b \in Tokens /\ b # <<>>
    <3>0. w \in Lexemes
      BY <2>4
    <3>1. b \in Seq(Lexemes) /\ Len(b) = Len(L) + 1
      BY <1>4, <3>0, AppendProperties
    <3>2. Len(b) # 0
      BY <1>4, <3>1
    <3>3. b # <<>>
      BY <3>2
    <3> QED BY <3>1, <3>3 DEF Tokens
  <2> HIDE DEF b
  <2>10. \E v \in Commands : b = Append(L, v)
    BY <2>3 DEF b
  <2>11. CASE n = p + m + 12
    <3>1. tokens = Append(Heard4, b)
      BY <1>13, <2>8, <2>9, <2>11
    <3> QED BY <1>17, <1>19, <2>9, <2>10, <3>1 DEF tokens, L
  <2>12. CASE n # p + m + 12
    <3>1. /\ p + m + 13 \in 1..n /\ (p + m + 13) - 1 = p + m + 12 /\ p + 1 + (m + 12) = p + m + 13
          /\ p + m + 13 \in 0..n /\ p + m + 13 <= n /\ m + 12 \in 0..(m + 11 + 1)
          /\ m + 12 = (m + 11) + 1
      BY <1>4, <1>23, <2>12
    <3>2. text[p + m + 13] = " "
      <4>1. Behind(A, m + 12, text[p + 1 + (m + 12)])
        BY <1>4, <1>10, <3>1
      <4> QED BY <1>4, <3>1, <4>1 DEF Behind
    <3>3. g[p + m + 13] = Take(Reading(Heard4, b, FALSE), " ")
      BY <1>2, <2>8, <3>1, <3>2 DEF Taken, n
    <3>4. Reading(Heard4, b, FALSE) \in Readings
      BY <1>5, <2>1, <2>8
    <3>5. g[p + m + 13] = Reading(Append(Heard4, b), <<>>, FALSE)
      BY <2>9, <3>3, <3>4, TakeSpace
    <3>6. Lengthens(g[p + m + 13].tokens, tokens)
      BY <1>1, <1>2, <3>1, TokensGrow DEF n, tokens
    <3>7. g[p + m + 13].tokens = Append(Heard4, b)
      BY <3>5 DEF Reading
    <3> QED BY <1>17, <2>9, <2>10, <3>6, <3>7 DEF tokens, L
  <2> QED BY <2>11, <2>12
<1>24. \/ n < p + 5 \/ n = p + 5 \/ n = p + 6 \/ n = p + 7 \/ n = p + 8
       \/ (p + 9 <= n /\ n <= p + m + 9) \/ n = p + m + 10 \/ n = p + m + 11 \/ n >= p + m + 12
  BY <1>4
<1> QED BY <1>14, <1>15, <1>20, <1>21, <1>22, <1>23, <1>24

LEMMA AppendedOnce ==
  ASSUME NEW S, NEW s \in Seq(S), NEW t \in Seq(S), NEW x \in S, NEW y \in S,
         Append(s, x) = Append(t, y)
  PROVE  s = t /\ x = y
<1>1. /\ Len(Append(s, x)) = Len(s) + 1 /\ Append(s, x)[Len(s) + 1] = x
      /\ \A i \in 1..Len(s) : Append(s, x)[i] = s[i]
      /\ Len(Append(t, y)) = Len(t) + 1 /\ Append(t, y)[Len(t) + 1] = y
      /\ \A i \in 1..Len(t) : Append(t, y)[i] = t[i]
  BY AppendProperties
<1>2. Len(s) \in Nat /\ Len(t) \in Nat
  BY LenProperties
<1>3. Len(s) = Len(t)
  BY <1>1, <1>2
<1>4. \A i \in 1..Len(s) : s[i] = t[i]
  BY <1>1, <1>3
<1> QED BY <1>1, <1>3, <1>4, SeqEqual

\* The tokens when the announce was cut within the last lexeme: the library may
\* end in a piece of one of its words, or have a piece of a command stuck to it.
Severed3(tokens, L) ==
  /\ tokens[3] = <<"1">>
  /\ Len(tokens) >= 5 =>
       /\ tokens[4] = <<"seed">>
       /\ \/ /\ Len(tokens) = 5
             /\ \E q \in 1..Len(L) : \E h \in Heads(L[q]) :
                  tokens[5] = Append(SubSeq(L, 1, q - 1), h)
          \/ \E w \in Commands \cup {"part"} : tokens[5] = Append(L, w)

LEMMA AnnounceCut ==
  ASSUME NEW lib \in Seq(Keys), NEW s \in Seq(Lexemes), NEW y \in Lexemes, NEW h \in Heads(y),
         Proper(AnnounceText(lib), Append(s, y)), NEW tokens, tokens = Parse(Append(s, h)),
         tokens[1][1] = "announce", Len(tokens) >= 3
  PROVE  Severed3(tokens, Listed(lib))
<1> DEFINE L == Listed(lib)
           m == Len(L)
<1>1. /\ h \in Lexemes /\ h \notin Special
      /\ y \notin Special /\ y # "1"
      /\ y \notin Keys => h = "part"
  BY HeadsIs
<1>2. PICK ts \in Seq(Tokens), b \in Seq(Lexemes) :
        /\ Parse(Append(s, h)) = Append(ts, Append(b, h))
        /\ Parse(Append(s, y)) = Append(ts, Append(b, y))
  <2>1. s \in Seq(Lexemes) /\ h \in Lexemes /\ y \in Lexemes /\ h \notin Special /\ y \notin Special
    BY <1>1
  <2> QED BY <2>1, LastWord
<1>3. PICK whole : whole = Parse(Append(s, y))
  OBVIOUS
<1>4. PICK k : k = Len(ts)
  OBVIOUS
<1>5. /\ tokens = Append(ts, Append(b, h)) /\ whole = Append(ts, Append(b, y))
      /\ Append(b, h) \in Tokens /\ Append(b, y) \in Tokens /\ k \in Nat
  <2>1. Append(b, h) \in Tokens /\ Append(b, y) \in Tokens
    <3>1. b \in Seq(Lexemes) /\ h \in Lexemes /\ y \in Lexemes
      BY <1>1
    <3> QED BY <3>1, AppendProperties DEF Tokens
  <2> QED BY <1>2, <1>3, <1>4, <2>1, LenProperties
<1>6. /\ Len(tokens) = k + 1 /\ tokens[k + 1] = Append(b, h)
      /\ \A i \in 1..k : tokens[i] = ts[i]
      /\ Len(whole) = k + 1 /\ whole[k + 1] = Append(b, y) /\ whole # <<>>
      /\ \A i \in 1..k : whole[i] = ts[i]
  BY <1>4, <1>5, AppendProperties
<1>7. L \in Seq(Lexemes) /\ m \in Nat /\ \A i \in 1..m : L[i] \in Lexemes
  BY ListedIs, LenProperties, ElementOfSeq
<1> HIDE DEF L, m
<1>8. k >= 2 /\ 1 \in 1..k
  BY <1>5, <1>6
<1>9. Announced3(whole, L)
  <2>1. whole[1][1] = "announce" /\ Len(whole) >= 3
    BY <1>6, <1>8
  <2> QED BY <1>3, <1>6, <2>1, AnnounceRead DEF L
<1>10. tokens[3] = <<"1">>
  <2>1. whole[3] = <<"1">>
    BY <1>9 DEF Announced3
  <2>2. CASE k = 2
    <3>1. Append(b, y) = <<"1">>
      <4>1. k + 1 = 3
        BY <2>2
      <4> QED BY <1>6, <2>1, <4>1
    <3>2. Len(Append(b, y)) = Len(b) + 1 /\ Append(b, y)[Len(b) + 1] = y /\ Len(b) \in Nat
      <4>1. b \in Seq(Lexemes) /\ y \in Lexemes
        OBVIOUS
      <4> QED BY <4>1, AppendProperties, LenProperties
    <3>3. Len(<<"1">>) = 1 /\ <<"1">>[1] = "1"
      OBVIOUS
    <3>4. Len(b) = 0
      BY <3>1, <3>2, <3>3
    <3>5. 0 + 1 = 1
      OBVIOUS
    <3>6. y = "1"
      BY <3>1, <3>2, <3>3, <3>4, <3>5
    <3> QED BY <1>1, <3>6
  <2>3. CASE k # 2
    <3>1. 3 \in 1..k
      BY <1>5, <1>8, <2>3
    <3> QED BY <1>6, <2>1, <3>1
  <2> QED BY <2>2, <2>3
<1>11. ASSUME Len(tokens) >= 5 PROVE tokens[4] = <<"seed">>
  <2>1. 4 \in 1..k /\ Len(whole) >= 5
    BY <1>5, <1>6, <1>11
  <2> QED BY <1>6, <1>9, <2>1 DEF Announced3
<1>12. ASSUME Len(tokens) >= 5
       PROVE  \/ /\ Len(tokens) = 5
                 /\ \E q \in 1..Len(L) : \E e \in Heads(L[q]) :
                      tokens[5] = Append(SubSeq(L, 1, q - 1), e)
              \/ \E w \in Commands \cup {"part"} : tokens[5] = Append(L, w)
  <2>1. \/ Len(whole) = 5 /\ \E q \in 1..Len(L) : whole[5] = SubSeq(L, 1, q)
        \/ \E w \in Commands : whole[5] = Append(L, w)
    BY <1>6, <1>9, <1>12 DEF Announced3
  <2>2. CASE Len(whole) = 5 /\ \E q \in 1..Len(L) : whole[5] = SubSeq(L, 1, q)
    <3>1. PICK q \in 1..m : whole[5] = SubSeq(L, 1, q)
      BY <2>2 DEF m
    <3>2. k + 1 = 5 /\ Len(tokens) = 5
      BY <1>6, <2>2
    <3>3. Append(b, y) = SubSeq(L, 1, q) /\ tokens[5] = Append(b, h)
      BY <1>6, <3>1, <3>2
    <3>4. SubSeq(L, 1, q - 1) \in Seq(Lexemes) /\ L[q] \in Lexemes
      <4>1. /\ 1 \in Int /\ q - 1 \in Int /\ \A i \in 1..(q - 1) : L[i] \in Lexemes
            /\ L[q] \in Lexemes
        BY <1>7
      <4> QED BY <4>1, SubSeqProperties
    <3>5. SubSeq(L, 1, q) = SubSeq(L, 1, q - 1) \o <<L[q]>>
      <4>1. 1 \in 1..Len(L) /\ q \in 1..Len(L)
        BY <1>7 DEF m
      <4> QED BY <1>7, <4>1, SubSeqRecursiveSecond
    <3>6. SubSeq(L, 1, q) = Append(SubSeq(L, 1, q - 1), L[q])
      BY <3>4, <3>5, AppendIsConcat
    <3>7. b = SubSeq(L, 1, q - 1) /\ y = L[q]
      BY <3>3, <3>4, <3>6, AppendedOnce
    <3>8. tokens[5] = Append(SubSeq(L, 1, q - 1), h) /\ h \in Heads(L[q]) /\ q \in 1..Len(L)
      BY <3>3, <3>7 DEF m
    <3> QED BY <3>2, <3>8
  <2>3. CASE \E w \in Commands : whole[5] = Append(L, w)
    <3>1. PICK w \in Commands : whole[5] = Append(L, w)
      BY <2>3
    <3>2. CASE k = 4
      <4>1. k + 1 = 5
        BY <3>2
      <4>2. Append(b, y) = Append(L, w) /\ tokens[5] = Append(b, h)
        BY <1>6, <3>1, <4>1
      <4>3. w \in Lexemes /\ w \notin Keys
        BY WordsKnown DEF Commands, Words
      <4>4. b = L /\ y = w
        <5>1. b \in Seq(Lexemes) /\ L \in Seq(Lexemes) /\ y \in Lexemes /\ w \in Lexemes
          BY <1>7, <4>3
        <5>2. Append(b, y) = Append(L, w)
          BY <4>2
        <5> QED BY <5>1, <5>2, AppendedOnce
      <4>5. h = "part"
        BY <1>1, <4>3, <4>4
      <4> QED BY <4>2, <4>4, <4>5
    <3>3. CASE k # 4
      <4>1. 5 \in 1..k
        BY <1>5, <1>6, <1>12, <3>3
      <4>2. tokens[5] = whole[5]
        BY <1>6, <4>1
      <4> QED BY <3>1, <4>2
    <3> QED BY <3>2, <3>3
  <2> QED BY <2>1, <2>2, <2>3
<1> QED BY <1>10, <1>11, <1>12 DEF Severed3, L

-----------------------------------------------------------------------------
(* The tokens of an announce and of an update that come alone.              *)

LEMMA AnnounceTokens ==
  ASSUME NEW lib \in Seq(Keys)
  PROVE  Parse(AnnounceText(lib)) =
           IF Listed(lib) = <<>> THEN Heard4 ELSE Append(Heard4, Listed(lib))
<1> DEFINE A == AnnounceText(lib)
           L == Listed(lib)
           m == Len(L)
<1>1. A \in Seq(Lexemes) /\ Len(A) = m + 11 /\ m \in Nat
  BY AnnounceIs
<1>2. PICK g : Taken(g, A)
  BY <1>1, ReadIs
<1> HIDE DEF A, L, m
<1>3. /\ 0 \in 0..(Len(A) - 1) /\ 0 + m + 11 = Len(A) /\ 0 + m + 11 <= Len(A)
      /\ \A j \in 0..(Len(A) - 1) : 0 + 1 + j = j + 1
  BY <1>1
<1>4. g[0] = Unread /\ Parse(A) = Closed(g[Len(A)])
  BY <1>2 DEF Taken
<1>5. 0 + m + 11 <= Len(A) => g[0 + m + 11] = Reading(Heard4, L, FALSE)
  <2>1. \A j \in 0..(Len(AnnounceText(lib)) - 1) :
          0 + 1 + j <= Len(A) => A[0 + 1 + j] = AnnounceText(lib)[j + 1]
    BY <1>3 DEF A
  <2> HIDE <1>3
  <2>2. 0 \in 0..(Len(A) - 1)
    BY <1>3
  <2> QED BY <1>1, <1>2, <1>4, <2>1, <2>2, AnnounceWalk DEF L, m
<1>6. g[Len(A)] = Reading(Heard4, L, FALSE)
  BY <1>3, <1>5
<1> QED BY <1>4, <1>6 DEF Closed, Reading, A, L

\* What stands in brackets at the end of a text is one token, without them.
Bracketed(text, q, L) ==
  /\ \A i \in 1..Len(L) : L[i] \notin {"\n", "[", "]"}
  /\ Len(text) = q + Len(L) + 3
  /\ text[q + 1] = "["
  /\ \A i \in 1..Len(L) : text[q + 1 + i] = L[i]
  /\ text[q + Len(L) + 2] = "]" /\ text[q + Len(L) + 3] = "\n"

LEMMA BracketWalk ==
  ASSUME NEW L \in Seq(Lexemes), NEW text \in Seq(Lexemes), NEW q \in Nat,
         Bracketed(text, q, L), NEW g, Taken(g, text), NEW H, g[q] = Reading(H, <<>>, FALSE)
  PROVE  Parse(text) = IF L = <<>> THEN H ELSE Append(H, L)
<1> DEFINE n == Len(text)
           m == Len(L)
<1>1. m \in Nat /\ n = q + m + 3 /\ n \in Nat
  BY LenProperties DEF Bracketed
<1>2. /\ \A i \in 0..n : g[i] \in Readings
      /\ \A i \in 1..n : g[i] = Take(g[i - 1], text[i]) /\ text[i] \in Lexemes
      /\ Parse(text) = Closed(g[n])
  <2>1. g \in [0..n -> Readings]
    BY DEF Taken
  <2>2. \A i \in 1..n : text[i] \in Lexemes
    BY ElementOfSeq
  <2> QED BY <2>1, <2>2 DEF Taken
<1>3. \A i \in 1..m : L[i] \in Lexemes /\ L[i] \notin {"\n", "[", "]"} /\ text[q + 1 + i] = L[i]
  BY ElementOfSeq DEF Bracketed
<1>4. text[q + 1] = "[" /\ text[q + m + 2] = "]" /\ text[q + m + 3] = "\n"
  BY DEF Bracketed
<1> HIDE DEF n, m
<1> DEFINE P(i) == i <= m => g[q + 1 + i] = Reading(H, SubSeq(L, 1, i), TRUE)
           T == {i \in Nat : P(i)}
<1>5. 0 \in T
  <2>1. q + 1 \in 1..n /\ (q + 1) - 1 = q /\ q \in 0..n /\ q + 1 + 0 = q + 1
    BY <1>1
  <2>2. g[q + 1] = Take(g[q], "[") /\ g[q] \in Readings /\ "[" \in Lexemes
    BY <1>2, <1>4, <2>1
  <2>3. Take(g[q], "[") = [tokens |-> Closed(g[q]), buf |-> <<>>, inside |-> TRUE]
    BY <2>2, TakeIs
  <2>4. Closed(g[q]) = H
    BY DEF Closed, Reading
  <2>5. SubSeq(L, 1, 0) = <<>>
    BY SubSeqEmpty
  <2>6. g[q + 1] = Reading(H, SubSeq(L, 1, 0), TRUE)
    BY <2>2, <2>3, <2>4, <2>5 DEF Reading
  <2>7. P(0)
    BY <2>1, <2>6
  <2> HIDE DEF P
  <2> QED BY <2>7
<1>6. ASSUME NEW i \in Nat, i \in T PROVE i + 1 \in T
  <2> SUFFICES ASSUME i + 1 <= m
               PROVE  g[q + 1 + (i + 1)] = Reading(H, SubSeq(L, 1, i + 1), TRUE)
    <3>1. P(i + 1)
      OBVIOUS
    <3> HIDE DEF P
    <3> QED BY <3>1
  <2> DEFINE k == q + 1 + i
             a == g[k]
             x == L[i + 1]
  <2>1. /\ k + 1 \in 1..n /\ (k + 1) - 1 = k /\ k \in 0..n /\ k + 1 = q + 1 + (i + 1)
        /\ i + 1 \in 1..m /\ i <= m
    BY <1>1
  <2>2. a = Reading(H, SubSeq(L, 1, i), TRUE)
    BY <1>6, <2>1
  <2> HIDE DEF k
  <2>3. x \in Lexemes /\ x \notin {"\n", "[", "]"} /\ text[k + 1] = x
    BY <1>3, <2>1
  <2>4. g[k + 1] = Take(a, x) /\ a \in Readings
    BY <1>2, <2>1, <2>3
  <2> HIDE DEF a, x
  <2>6. a.inside /\ a.tokens = H /\ a.buf = SubSeq(L, 1, i) /\ a.inside = TRUE
    BY <2>2 DEF Reading
  <2>7. Take(a, x) = [tokens |-> a.tokens, buf |-> Append(a.buf, x), inside |-> a.inside]
    BY <2>3, <2>4, <2>6, TakeIs
  <2>8. Append(SubSeq(L, 1, i), x) = SubSeq(L, 1, i + 1)
    <3>1. SubSeq(L, 1, i + 1) = SubSeq(L, 1, (i + 1) - 1) \o <<L[i + 1]>>
      <4>1. 1 \in 1..Len(L) /\ i + 1 \in 1..Len(L)
        BY <2>1, <1>1 DEF m
      <4> QED BY <4>1, SubSeqRecursiveSecond
    <3>2. (i + 1) - 1 = i
      OBVIOUS
    <3>3. SubSeq(L, 1, i) \in Seq(Lexemes)
      BY <2>4, <2>6 DEF Readings
    <3>4. Append(SubSeq(L, 1, i), x) = SubSeq(L, 1, i) \o <<x>>
      BY <2>3, <3>3, AppendIsConcat
    <3> QED BY <3>1, <3>2, <3>4 DEF x
  <2> QED BY <2>1, <2>4, <2>6, <2>7, <2>8 DEF Reading
<1>7. m \in T
  <2> HIDE DEF T
  <2> QED BY <1>1, <1>5, <1>6, Upwards
<1>8. g[q + 1 + m] = Reading(H, L, TRUE)
  <2>1. P(m)
    BY <1>7
  <2>2. SubSeq(L, 1, m) = L
    BY SubSeqFull DEF m
  <2>3. m <= m
    BY <1>1
  <2> QED BY <2>1, <2>2, <2>3
<1> HIDE DEF P, T
<1>9. g[n] = Reading(H, L, FALSE)
  <2> DEFINE a == g[q + 1 + m]
             b == g[q + m + 2]
  <2>1. /\ q + m + 2 \in 1..n /\ (q + m + 2) - 1 = q + 1 + m /\ q + 1 + m \in 0..n
        /\ q + m + 3 \in 1..n /\ (q + m + 3) - 1 = q + m + 2 /\ q + m + 2 \in 0..n
    BY <1>1
  <2>2. b = Take(a, "]") /\ "]" \in Lexemes /\ a \in Readings
    BY <1>2, <1>4, <2>1
  <2>3. g[n] = Take(b, "\n") /\ "\n" \in Lexemes /\ b \in Readings
    BY <1>1, <1>2, <1>4, <2>1
  <2> HIDE DEF a
  <2>4. Take(a, "]") = [tokens |-> a.tokens, buf |-> a.buf, inside |-> FALSE]
    BY <2>2, TakeIs
  <2>5. b = Reading(H, L, FALSE)
    BY <1>8, <2>2, <2>4 DEF Reading, a
  <2> HIDE DEF b
  <2>6. Take(b, "\n") = b
    BY <2>3, TakeIs
  <2> QED BY <2>3, <2>5, <2>6
<1> QED BY <1>2, <1>9 DEF Closed, Reading

Told1 == Append(<<>>, <<"update">>)
Told2 == Append(Told1, <<"seed">>)

LEMMA ToldIs ==
  /\ Told1 \in Seq(Tokens) /\ Len(Told1) = 1
  /\ Told2 \in Seq(Tokens) /\ Len(Told2) = 2
  /\ Told2[1] = <<"update">> /\ Told2[2] = <<"seed">>
<1>1. "update" \in Lexemes /\ "seed" \in Lexemes
  BY WordsKnown DEF Words
<1>2. Told1 \in Seq(Tokens) /\ Len(Told1) = 1 /\ Told1[1] = <<"update">>
  <2> DEFINE e == <<>>
  <2>1. e \in Seq(Tokens) /\ Len(e) = 0 /\ Told1 = Append(e, <<"update">>) /\ 0 \in Nat
    BY EmptySeq DEF Told1
  <2> HIDE DEF e
  <2>2. /\ Told1 \in Seq(Tokens) /\ Len(Told1) = 0 + 1 /\ Told1[0 + 1] = <<"update">>
    BY <1>1, <2>1, HearMore
  <2> QED BY <2>2
<1>3. /\ Told2 \in Seq(Tokens) /\ Len(Told2) = 1 + 1
      /\ \A i \in 1..1 : Told2[i] = Told1[i]
      /\ Told2[1 + 1] = <<"seed">>
  BY <1>1, <1>2, HearMore DEF Told2
<1>4. 1 + 1 = 2 /\ 1 \in 1..1
  OBVIOUS
<1> QED BY <1>2, <1>3, <1>4

LEMMA UpdateTokens ==
  ASSUME NEW lib \in Seq(Keys)
  PROVE  Parse(UpdateText(lib)) =
           IF Listed(lib) = <<>> THEN Told2 ELSE Append(Told2, Listed(lib))
<1> DEFINE U == UpdateText(lib)
           L == Listed(lib)
           m == Len(L)
<1>1. /\ U \in Seq(Lexemes) /\ Len(U) = m + 7 /\ m \in Nat
      /\ U[1] = "update" /\ U[2] = " " /\ U[3] = "seed" /\ U[4] = " " /\ U[5] = "["
      /\ \A i \in 1..m : U[5 + i] = L[i]
      /\ U[m + 6] = "]" /\ U[m + 7] = "\n"
  BY UpdateIs
<1>2. L \in Seq(Lexemes) /\ \A i \in 1..m : L[i] \notin {"\n", "[", "]"}
  BY ListedIs
<1>3. PICK g : Taken(g, U)
  BY <1>1, ReadIs
<1> HIDE DEF U, L, m
<1>0. Len(U) = m + 7 /\ m \in Nat
  BY <1>1
<1>4. /\ \A i \in 0..Len(U) : g[i] \in Readings
      /\ \A i \in 1..Len(U) : g[i] = Take(g[i - 1], U[i]) /\ U[i] \in Lexemes
      /\ g[0] = Unread
  <2>1. g \in [0..Len(U) -> Readings]
    BY <1>3 DEF Taken
  <2>2. \A i \in 1..Len(U) : U[i] \in Lexemes
    BY <1>1, ElementOfSeq
  <2> QED BY <1>3, <2>1, <2>2 DEF Taken
<1>5. \A i \in 0..3 : /\ g[i] \in Readings
                      /\ g[i + 1] = Take(g[i], U[i + 1]) /\ U[i + 1] \in Lexemes
  <2>1. \A i \in 0..3 : i \in 0..Len(U) /\ i + 1 \in 1..Len(U) /\ (i + 1) - 1 = i
    BY <1>0
  <2> QED BY <1>4, <2>1
<1>6. g[1] = Reading(<<>>, <<"update">>, FALSE)
  <2>1. 0 \in 0..3 /\ 0 + 1 = 1
    OBVIOUS
  <2>2. g[1] = Take(g[0], U[1]) /\ U[1] \in Lexemes /\ g[0] \in Readings
    BY <1>5, <2>1
  <2>3. g[0] = Reading(<<>>, <<>>, FALSE)
    BY <1>4 DEF Unread, Reading
  <2> QED BY <1>1, <2>2, <2>3, TakeWord
<1>7. g[2] = Reading(Told1, <<>>, FALSE)
  <2>1. 1 \in 0..3 /\ 1 + 1 = 2
    OBVIOUS
  <2>2. g[2] = Take(Reading(<<>>, <<"update">>, FALSE), " ") /\ Reading(<<>>, <<"update">>, FALSE) \in Readings
    BY <1>1, <1>5, <1>6, <2>1
  <2>3. <<"update">> # <<>>
    BY EmptySeq
  <2> QED BY <2>2, <2>3, TakeSpace DEF Told1
<1>8. g[3] = Reading(Told1, <<"seed">>, FALSE)
  <2>1. 2 \in 0..3 /\ 2 + 1 = 3
    OBVIOUS
  <2>2. g[3] = Take(g[2], U[3]) /\ U[3] \in Lexemes /\ g[2] \in Readings
    BY <1>5, <2>1
  <2> QED BY <1>1, <1>7, <2>2, TakeWord
<1>9. g[4] = Reading(Told2, <<>>, FALSE)
  <2>1. 3 \in 0..3 /\ 3 + 1 = 4
    OBVIOUS
  <2>2. g[4] = Take(Reading(Told1, <<"seed">>, FALSE), " ") /\ Reading(Told1, <<"seed">>, FALSE) \in Readings
    BY <1>1, <1>5, <1>8, <2>1
  <2>3. <<"seed">> # <<>>
    BY EmptySeq
  <2> QED BY <2>2, <2>3, TakeSpace DEF Told2
<1>10. Parse(U) = IF L = <<>> THEN Told2 ELSE Append(Told2, L)
  <2>1. /\ Len(U) = 4 + m + 3 /\ U[4 + 1] = "[" /\ U[4 + m + 2] = "]" /\ U[4 + m + 3] = "\n"
    <3>1. 4 + m + 3 = m + 7 /\ 4 + m + 2 = m + 6 /\ 4 + 1 = 5
      BY <1>0
    <3> QED BY <1>1, <3>1
  <2>2. \A i \in 1..m : U[4 + 1 + i] = L[i]
    <3>1. 4 + 1 = 5
      OBVIOUS
    <3> QED BY <1>1, <3>1
  <2>3. U \in Seq(Lexemes) /\ 4 \in Nat /\ L \in Seq(Lexemes)
    BY <1>1, <1>2
  <2>4. Bracketed(U, 4, L)
    BY <1>2, <2>1, <2>2, Zenon DEF m, Bracketed
  <2> QED BY <1>3, <1>9, <2>3, <2>4, BracketWalk
<1> QED BY <1>10 DEF U, L

-----------------------------------------------------------------------------
(* The seed part of an announce.                                            *)

ItemType == [key : Keys, meta : Metas]

\* A seed part that names files of the library, in order; the key of one that
\* was cut may be another key.
Named(k, cut) == IF cut THEN {k} \cup Stems[k] ELSE {k}
Offers(part, lib, cut) ==
  /\ part \in PartType /\ part.type = "seed"
  /\ \A i \in 1..Len(part.items) :
       /\ i \in 1..Len(lib)
       /\ \E k \in Named(lib[i], cut) : part.items[i] = [key |-> k, meta |-> Described]

\* Where the words of a group of four stand, in the first q lexemes of N files.
LEMMA GroupsOf ==
  ASSUME NEW q \in Nat, NEW N \in Nat, 1 <= q, q <= 8 * N, NEW l, l = (q + 1) \div 2
  PROVE  /\ l \div 4 \in Nat
         /\ \A i \in 1..(l \div 4) :
              /\ i \in 1..N
              /\ 4 * i \in 1..l /\ 4 * i - 1 \in 1..l
              /\ 4 * i - 2 \in 1..l /\ 4 * i - 3 \in 1..l
              /\ 2 * (4 * i) - 1 = 8 * (i - 1) + 7 /\ 2 * (4 * i - 1) - 1 = 8 * (i - 1) + 5
              /\ 2 * (4 * i - 2) - 1 = 8 * (i - 1) + 3 /\ 2 * (4 * i - 3) - 1 = 8 * (i - 1) + 1
              /\ 8 * (i - 1) + 7 \in 1..q /\ 8 * (i - 1) + 5 \in 1..q
              /\ 8 * (i - 1) + 3 \in 1..q /\ 8 * (i - 1) + 1 \in 1..q
              /\ 8 * (i - 1) + 5 \in 1..(q - 1) /\ 8 * (i - 1) + 3 \in 1..(q - 1)
              /\ 8 * (i - 1) + 1 \in 1..(q - 1)
              /\ 8 * (i - 1) + 7 = q \/ 8 * (i - 1) + 7 \in 1..(q - 1)
<1>1. l \in Nat /\ l \div 4 \in Nat
  OBVIOUS
<1>2. ASSUME NEW i \in 1..(l \div 4)
      PROVE  i \in Nat /\ 1 <= i /\ 4 * i <= l /\ 8 * i <= q + 1
  OBVIOUS
<1> QED BY <1>1, <1>2

LEMMA NameIs == ASSUME NEW x PROVE Name(<<x>>) = x
<1>1. Len(<<x>>) = 1 /\ <<x>>[1] = x
  OBVIOUS
<1> QED BY <1>1 DEF Name

LEMMA AtoiIs == Atoi(<<"1">>) = 1 /\ Atoi(<<"2">>) = 2
<1>1. <<"1">>[1] = "1" /\ <<"2">>[1] = "2" /\ "1" # "2"
  OBVIOUS
<1> QED BY <1>1 DEF Atoi

\* The words of a file.
LEMMA FileTextIs ==
  ASSUME NEW k
  PROVE  /\ FileText(k)[1] = "name" /\ FileText(k)[3] = "2" /\ FileText(k)[5] = "1"
         /\ FileText(k)[7] = k
BY DEF FileText

\* A beginning of the library, whose last lexeme may be cut.
LEMMA PartOfListed ==
  ASSUME NEW lib \in Seq(Keys), NEW q \in 1..Len(Listed(lib)), NEW cut,
         NEW t \in Seq(Lexemes), Len(t) = q,
         \A i \in 1..(q - 1) : t[i] = Listed(lib)[i],
         t[q] = Listed(lib)[q] \/ (cut /\ t[q] \in Heads(Listed(lib)[q]))
  PROVE  LET part == PartOf(<<"seed">>, t)
         IN /\ Offers(part, lib, cut)
            /\ q = Len(Listed(lib)) => part.whole /\ Len(part.items) = Len(lib)
<1> DEFINE L == Listed(lib)
           N == Len(lib)
           words == Parse(t)
           items == ItemsOf(words)
           part == PartOf(<<"seed">>, t)
<1>1. /\ L \in Seq(Lexemes) /\ Len(L) = 8 * N /\ N \in Nat
      /\ \A i \in 1..N, r \in 1..8 : L[8 * (i - 1) + r] = FileText(lib[i])[r]
      /\ \A i \in 1..N : lib[i] \in Keys
      /\ Spaced(L)
  BY ListedIs, LenProperties, ElementOfSeq
<1>2. q \in Nat /\ q <= 8 * N /\ 1 <= q
  BY <1>1
<1>3. /\ t \in Seq(Lexemes) /\ Len(t) = q
      /\ \A i \in 1..(q - 1) : t[i] = L[i]
      /\ t[q] = L[q] \/ (cut /\ t[q] \in Heads(L[q]))
  OBVIOUS
<1> HIDE DEF L, N
<1>4. Spaced(t)
  <2> SUFFICES ASSUME NEW i \in 1..q
               PROVE  /\ i % 2 = 0 => t[i] = " "
                      /\ i % 2 # 0 => t[i] \notin {" ", "[", "]", "\n"}
    BY <1>3 DEF Spaced
  <2>1. i \in 1..Len(L) /\ (i = q \/ i \in 1..(q - 1))
    BY <1>1, <1>2
  <2>2. /\ i % 2 = 0 => L[i] = " "
        /\ i % 2 # 0 => L[i] \notin {" ", "[", "]", "\n"}
    BY <1>1, <2>1 DEF Spaced
  <2>3. CASE t[i] = L[i]
    BY <2>2, <2>3
  <2>4. CASE i = q /\ t[q] \in Heads(L[q])
    <3>1. L[q] \in Lexemes
      BY <1>1, <2>1, <2>4, ElementOfSeq
    <3>2. t[q] \notin Special /\ L[q] \notin Special
      BY <2>4, <3>1, HeadsIs
    <3>3. i % 2 # 0
      BY <2>2, <2>4, <3>2 DEF Special
    <3> QED BY <2>4, <3>2, <3>3 DEF Special
  <2> QED BY <1>3, <2>1, <2>3, <2>4
<1>5. /\ words \in Seq(Tokens) /\ Len(words) = (q + 1) \div 2
      /\ \A i \in 1..Len(words) : words[i] = <<t[2 * i - 1]>>
  BY <1>3, <1>4, WordsOfToken
<1> HIDE DEF words
<1>6. /\ Len(words) \div 4 \in Nat
      /\ \A i \in 1..(Len(words) \div 4) :
           /\ i \in 1..N
           /\ 4 * i \in 1..Len(words) /\ 4 * i - 1 \in 1..Len(words)
           /\ 4 * i - 2 \in 1..Len(words) /\ 4 * i - 3 \in 1..Len(words)
           /\ 2 * (4 * i) - 1 = 8 * (i - 1) + 7 /\ 2 * (4 * i - 1) - 1 = 8 * (i - 1) + 5
           /\ 2 * (4 * i - 2) - 1 = 8 * (i - 1) + 3 /\ 2 * (4 * i - 3) - 1 = 8 * (i - 1) + 1
           /\ 8 * (i - 1) + 7 \in 1..q /\ 8 * (i - 1) + 5 \in 1..q
           /\ 8 * (i - 1) + 3 \in 1..q /\ 8 * (i - 1) + 1 \in 1..q
           /\ 8 * (i - 1) + 5 \in 1..(q - 1) /\ 8 * (i - 1) + 3 \in 1..(q - 1)
           /\ 8 * (i - 1) + 1 \in 1..(q - 1)
           /\ 8 * (i - 1) + 7 = q \/ 8 * (i - 1) + 7 \in 1..(q - 1)
  BY <1>1, <1>2, <1>5, GroupsOf
<1>7. Len(items) = Len(words) \div 4
  BY <1>6 DEF ItemsOf
<1>8. ASSUME NEW i \in 1..(Len(words) \div 4)
      PROVE  /\ i \in 1..N
             /\ \E k \in Named(lib[i], cut) : items[i] = [key |-> k, meta |-> Described]
  <2> DEFINE key == t[8 * (i - 1) + 7]
  <2>1. /\ words[4 * i] = <<t[2 * (4 * i) - 1]>> /\ words[4 * i - 1] = <<t[2 * (4 * i - 1) - 1]>>
        /\ words[4 * i - 2] = <<t[2 * (4 * i - 2) - 1]>> /\ words[4 * i - 3] = <<t[2 * (4 * i - 3) - 1]>>
    BY <1>5, <1>6
  <2>2. /\ t[2 * (4 * i) - 1] = key /\ t[2 * (4 * i - 1) - 1] = L[8 * (i - 1) + 5]
        /\ t[2 * (4 * i - 2) - 1] = L[8 * (i - 1) + 3] /\ t[2 * (4 * i - 3) - 1] = L[8 * (i - 1) + 1]
    BY <1>3, <1>6
  <2>3. i \in 1..N /\ 1 \in 1..8 /\ 3 \in 1..8 /\ 5 \in 1..8 /\ 7 \in 1..8
    BY <1>6
  <2>4. /\ L[8 * (i - 1) + 7] = FileText(lib[i])[7] /\ L[8 * (i - 1) + 5] = FileText(lib[i])[5]
        /\ L[8 * (i - 1) + 3] = FileText(lib[i])[3] /\ L[8 * (i - 1) + 1] = FileText(lib[i])[1]
    BY <1>1, <2>3
  <2>5. /\ words[4 * i] = <<key>> /\ words[4 * i - 1] = <<"1">>
        /\ words[4 * i - 2] = <<"2">> /\ words[4 * i - 3] = <<"name">>
    BY <2>1, <2>2, <2>4, FileTextIs
  <2>6. items[i] = [key |-> Name(words[4 * i]),
                    meta |-> [name |-> Name(words[4 * i - 3]),
                              size |-> Atoi(words[4 * i - 2]), psize |-> Atoi(words[4 * i - 1])]]
    BY DEF ItemsOf
  <2>7. /\ Name(words[4 * i]) = key /\ Name(words[4 * i - 3]) = "name"
        /\ Atoi(words[4 * i - 2]) = 2 /\ Atoi(words[4 * i - 1]) = 1
    BY <2>5, NameIs, AtoiIs
  <2>8. L[8 * (i - 1) + 7] = lib[i] /\ lib[i] \in Keys
    BY <1>1, <2>3, <2>4, FileTextIs
  <2>9. key \in Named(lib[i], cut)
    <3>1. CASE key = L[8 * (i - 1) + 7]
      BY <2>8, <3>1 DEF Named
    <3>2. CASE key # L[8 * (i - 1) + 7]
      <4>1. 8 * (i - 1) + 7 = q
        BY <1>3, <1>6, <3>2
      <4>2. cut /\ key \in Heads(lib[i])
        BY <1>3, <2>8, <3>2, <4>1
      <4>3. lib[i] \in Lexemes
        BY <2>8, WordsKnown
      <4> HIDE DEF key
      <4>4. key \in Stems[lib[i]]
        BY <2>8, <4>2, <4>3, HeadsIs
      <4> QED BY <4>2, <4>4 DEF Named
    <3> QED BY <3>1, <3>2
  <2> HIDE DEF key, items
  <2>10. items[i] = [key |-> key, meta |-> Described]
    BY <2>6, <2>7 DEF Described
  <2> QED BY <2>3, <2>9, <2>10
<1>9. items \in Seq(ItemType)
  <2>1. \A i \in 1..(Len(words) \div 4) : items[i] \in ItemType
    <3>1. Described \in Metas
      BY KeysAssumption
    <3> HIDE DEF items
    <3> SUFFICES ASSUME NEW i \in 1..(Len(words) \div 4) PROVE items[i] \in ItemType
      OBVIOUS
    <3>2. PICK k \in Named(lib[i], cut) : items[i] = [key |-> k, meta |-> Described]
      BY <1>8
    <3>3. lib[i] \in Keys
      BY <1>1, <1>8
    <3>4. k \in Keys
      BY <3>3, KeysAssumption DEF Named
    <3> QED BY <3>1, <3>2, <3>4 DEF ItemType
  <2>2. items = [i \in 1..(Len(words) \div 4) |-> items[i]]
    BY DEF ItemsOf
  <2> HIDE DEF items
  <2>3. items \in [1..(Len(words) \div 4) -> ItemType]
    BY <2>1, <2>2
  <2>4. Len(words) \div 4 \in Nat
    BY <1>6
  <2> QED BY <2>3, <2>4, SeqDef, Zenon
<1>10. /\ part.type = "seed" /\ part.whole = (Len(words) % 4 = 0)
       /\ part.items = IF Len(words) % 4 = 0 THEN items ELSE <<>>
       /\ part = [type |-> part.type, whole |-> part.whole, items |-> part.items]
  <2>1. Name(<<"seed">>) = "seed" /\ "seed" \in {"seed", "leech"}
    BY NameIs
  <2>2. part = [type |-> "seed", whole |-> Len(words) % 4 = 0,
                items |-> IF Len(words) % 4 = 0 THEN items ELSE <<>>]
    BY <2>1 DEF PartOf, words
  <2> HIDE DEF part, items
  <2> QED BY <2>2
<1>11. /\ part.items \in Seq(ItemType) /\ part.whole \in BOOLEAN
       /\ Len(part.items) <= Len(words) \div 4
       /\ part.items = items \/ Len(part.items) = 0
  <2>1. <<>> \in Seq(ItemType) /\ Len(<<>>) = 0
    BY EmptySeq
  <2> HIDE DEF items, part
  <2> QED BY <1>6, <1>7, <1>9, <1>10, <2>1
<1>12. part \in PartType
  <2> HIDE DEF part
  <2> QED BY <1>10, <1>11 DEF PartType, ItemType
<1>13. \A i \in 1..Len(part.items) :
         /\ i \in 1..N
         /\ \E k \in Named(lib[i], cut) : part.items[i] = [key |-> k, meta |-> Described]
  <2> HIDE DEF items, part
  <2> SUFFICES ASSUME NEW i \in 1..Len(part.items)
               PROVE  /\ i \in 1..N
                      /\ \E k \in Named(lib[i], cut) :
                           part.items[i] = [key |-> k, meta |-> Described]
    OBVIOUS
  <2>1. part.items = items
    BY <1>11
  <2> QED BY <1>7, <1>8, <2>1
<1>14. q = Len(L) => part.whole /\ Len(part.items) = N
  <2> SUFFICES ASSUME q = Len(L) PROVE part.whole /\ Len(part.items) = N
    OBVIOUS
  <2>1. q = 8 * N /\ Len(words) = (q + 1) \div 2 /\ N \in Nat
    BY <1>1, <1>5
  <2>2. Len(words) = 4 * N
    BY <2>1
  <2>3. Len(words) % 4 = 0 /\ Len(words) \div 4 = N
    BY <2>1, <2>2
  <2> HIDE DEF items, part
  <2> QED BY <1>7, <1>10, <2>3
<1> HIDE DEF part
<1> QED BY <1>10, <1>12, <1>13, <1>14, Zenon DEF Offers, L, N, part

LEMMA FrontOfListed ==
  ASSUME NEW lib \in Seq(Keys), NEW q \in 1..Len(Listed(lib)), NEW cut
  PROVE  LET part == PartOf(<<"seed">>, SubSeq(Listed(lib), 1, q))
         IN /\ Offers(part, lib, cut)
            /\ q = Len(Listed(lib)) => part.whole /\ Len(part.items) = Len(lib)
<1> DEFINE L == Listed(lib)
           t == SubSeq(L, 1, q)
<1>1. L \in Seq(Lexemes) /\ Len(L) \in Nat
  BY ListedIs, LenProperties
<1> HIDE DEF L
<1>2. q \in Nat /\ q <= Len(L) /\ 1 <= q /\ q \in 1..Len(L)
  BY <1>1 DEF L
<1>3. \A i \in 1..q : L[i] \in Lexemes
  BY <1>1, <1>2, ElementOfSeq
<1>4. /\ t \in Seq(Lexemes) /\ Len(t) = IF 1 <= q THEN q - 1 + 1 ELSE 0
      /\ \A i \in 1..(q - 1 + 1) : t[i] = L[1 + i - 1]
  BY <1>2, <1>3, SubSeqProperties
<1> HIDE DEF t
<1>5. t \in Seq(Lexemes) /\ Len(t) = q /\ \A i \in 1..q : t[i] = L[i]
  <2>1. q - 1 + 1 = q /\ \A i \in 1..q : 1 + i - 1 = i
    BY <1>2
  <2> QED BY <1>2, <1>4, <2>1
<1>6. t[q] = L[q] /\ \A i \in 1..(q - 1) : t[i] = L[i]
  BY <1>2, <1>5
<1> QED BY <1>2, <1>5, <1>6, PartOfListed DEF L, t

LEMMA CutOfListed ==
  ASSUME NEW lib \in Seq(Keys), NEW q \in 1..Len(Listed(lib)), NEW h \in Heads(Listed(lib)[q])
  PROVE  Offers(PartOf(<<"seed">>, Append(SubSeq(Listed(lib), 1, q - 1), h)), lib, TRUE)
<1> DEFINE L == Listed(lib)
           s == SubSeq(L, 1, q - 1)
           t == Append(s, h)
<1>1. L \in Seq(Lexemes) /\ Len(L) \in Nat
  BY ListedIs, LenProperties
<1> HIDE DEF L
<1>2. q \in Nat /\ q - 1 \in Nat /\ q <= Len(L) /\ q \in 1..Len(L)
  BY <1>1 DEF L
<1>3. L[q] \in Lexemes /\ \A i \in 1..(q - 1) : L[i] \in Lexemes
  BY <1>1, <1>2, ElementOfSeq
<1>4. h \in Lexemes /\ h \in Heads(L[q])
  BY <1>3, HeadsIs DEF L
<1>5. s \in Seq(Lexemes) /\ Len(s) = q - 1 /\ \A i \in 1..(q - 1) : s[i] = L[i]
  <2>1. /\ s \in Seq(Lexemes) /\ Len(s) = IF 1 <= q - 1 THEN (q - 1) - 1 + 1 ELSE 0
        /\ \A i \in 1..((q - 1) - 1 + 1) : s[i] = L[1 + i - 1]
    <3>1. 1 \in Int /\ q - 1 \in Int
      BY <1>2
    <3> QED BY <1>3, <3>1, SubSeqProperties
  <2> HIDE DEF s
  <2>2. (q - 1) - 1 + 1 = q - 1 /\ \A i \in 1..(q - 1) : 1 + i - 1 = i
    BY <1>2
  <2> QED BY <1>2, <2>1, <2>2
<1> HIDE DEF s
<1>6. /\ t \in Seq(Lexemes) /\ Len(t) = (q - 1) + 1 /\ t[(q - 1) + 1] = h
      /\ \A i \in 1..(q - 1) : t[i] = s[i]
  BY <1>4, <1>5, AppendProperties
<1> HIDE DEF t
<1>7. /\ Len(t) = q /\ t[q] = h /\ \A i \in 1..(q - 1) : t[i] = L[i]
  BY <1>2, <1>5, <1>6
<1> QED BY <1>2, <1>4, <1>6, <1>7, PartOfListed DEF L, s, t

\* The library with a word stuck to it.
LEMMA PartOfStuck ==
  ASSUME NEW lib \in Seq(Keys), NEW w \in Commands \cup {"part"}, NEW cut
  PROVE  LET part == PartOf(<<"seed">>, Append(Listed(lib), w))
         IN Offers(part, lib, cut) /\ ~part.whole
<1> DEFINE L == Listed(lib)
           N == Len(lib)
           t == Append(L, w)
           words == Parse(t)
           part == PartOf(<<"seed">>, t)
<1>1. L \in Seq(Lexemes) /\ Len(L) = 8 * N /\ N \in Nat /\ Spaced(L)
  BY ListedIs, LenProperties
<1>2. w \in Lexemes /\ w \notin {" ", "[", "]", "\n"}
  BY WordsKnown DEF Commands, Words
<1> HIDE DEF L, N
<1>3. /\ t \in Seq(Lexemes) /\ Len(t) = 8 * N + 1 /\ t[8 * N + 1] = w
      /\ \A i \in 1..(8 * N) : t[i] = L[i]
  <2>1. L \in Seq(Lexemes) /\ w \in Lexemes
    BY <1>1, <1>2
  <2>2. /\ t \in Seq(Lexemes) /\ Len(t) = Len(L) + 1 /\ t[Len(L) + 1] = w
        /\ \A i \in 1..Len(L) : t[i] = L[i]
    BY <2>1, AppendProperties
  <2> HIDE DEF t
  <2>3. Len(L) = 8 * N
    BY <1>1
  <2> QED BY <2>2, <2>3
<1> HIDE DEF t
<1>4. Spaced(t)
  <2> SUFFICES ASSUME NEW i \in 1..Len(t)
               PROVE  /\ i % 2 = 0 => t[i] = " "
                      /\ i % 2 # 0 => t[i] \notin {" ", "[", "]", "\n"}
    BY DEF Spaced
  <2>1. i \in 1..(8 * N) \/ (i = 8 * N + 1 /\ i % 2 # 0)
    <3>1. Len(t) = 8 * N + 1 /\ N \in Nat
      BY <1>1, <1>3
    <3> QED BY <3>1
  <2>2. CASE i \in 1..(8 * N)
    BY <1>1, <1>3, <2>2 DEF Spaced
  <2>3. CASE i = 8 * N + 1 /\ i % 2 # 0
    BY <1>2, <1>3, <2>3
  <2> QED BY <2>1, <2>2, <2>3
<1>5. Len(words) = (Len(t) + 1) \div 2
  BY <1>3, <1>4, WordsOfToken
<1>6. Len(words) % 4 # 0
  <2>1. Len(t) = 8 * N + 1 /\ N \in Nat
    BY <1>1, <1>3
  <2>2. Len(words) = 4 * N + 1
    BY <1>5, <2>1
  <2> QED BY <2>1, <2>2
<1>7. part = [type |-> "seed", whole |-> FALSE, items |-> <<>>]
  <2>1. Name(<<"seed">>) = "seed" /\ "seed" \in {"seed", "leech"}
    BY NameIs
  <2> HIDE DEF words
  <2>2. part = [type |-> "seed", whole |-> Len(words) % 4 = 0,
                items |-> IF Len(words) % 4 = 0 THEN ItemsOf(words) ELSE <<>>]
    BY <2>1 DEF PartOf, words
  <2> QED BY <1>6, <2>2
<1>8. <<>> \in Seq(ItemType) /\ Len(<<>>) = 0
  BY EmptySeq
<1> HIDE DEF part
<1>9. part \in PartType /\ part.type = "seed" /\ ~part.whole /\ Len(part.items) = 0
  BY <1>7, <1>8 DEF PartType, ItemType
<1>10. \A i \in 1..Len(part.items) : FALSE
  BY <1>9
<1> QED BY <1>9, <1>10, Zenon DEF Offers, L, t, part

-----------------------------------------------------------------------------
(* The messages made of the texts.                                          *)

LEMMA MessageIs ==
  ASSUME NEW text
  PROVE  LET m == MessageOf(text)
             tokens == Parse(text)
         IN /\ m.op = "announce" =>
                 tokens # <<>> /\ tokens[1][1] = "announce" /\ Len(tokens) >= 3 /\ m = AnnounceOf(tokens)
            /\ m.op = "update" =>
                 /\ tokens # <<>> /\ tokens[1][1] = "update" /\ Len(tokens) >= 3
                 /\ m.tokens = [i \in 1..(Len(tokens) - 1) |-> Name(tokens[i + 1])]
            /\ m.op = "exit" => text[1] = "exit"
            /\ text # <<"\n">> /\ tokens # <<>> /\ tokens[1][1] = "announce" /\ Len(tokens) >= 3 =>
                 m.op = "announce"
<1> DEFINE m == MessageOf(text)
           tokens == Parse(text)
           U == [op |-> "update", tokens |-> [i \in 1..(Len(tokens) - 1) |-> Name(tokens[i + 1])]]
<1> HIDE DEF tokens
<1>1. /\ AnnounceOf(tokens).op = "announce" /\ [op |-> "badAnnounce"].op = "badAnnounce"
      /\ [op |-> "blank"].op = "blank" /\ [op |-> "null"].op = "null"
      /\ [op |-> "exit"].op = "exit" /\ [op |-> "unknown"].op = "unknown"
      /\ LookOf(tokens[2]).op \in {"look", "lookBlank"}
      /\ [op |-> "getfile", key |-> Name(tokens[2])].op = "getfile"
      /\ U.op = "update" /\ U.tokens = [i \in 1..(Len(tokens) - 1) |-> Name(tokens[i + 1])]
  BY DEF AnnounceOf, LookOf
<1> HIDE DEF U
<1> DEFINE Begins(w) == tokens[1][1] = w
<1>2. m = IF text = <<"\n">> THEN [op |-> "blank"]
          ELSE IF tokens = <<>> THEN [op |-> "null"]
          ELSE IF Begins("announce") THEN
            IF Len(tokens) >= 3 THEN AnnounceOf(tokens) ELSE [op |-> "badAnnounce"]
          ELSE IF Begins("look") /\ Len(tokens) = 2 THEN LookOf(tokens[2])
          ELSE IF Begins("getfile") /\ Len(tokens) = 2 THEN [op |-> "getfile", key |-> Name(tokens[2])]
          ELSE IF Begins("update") /\ Len(tokens) >= 3 THEN U
          ELSE IF text[1] = "exit" THEN [op |-> "exit"]
          ELSE [op |-> "unknown"]
  BY DEF MessageOf, tokens, U
<1> HIDE DEF m, Begins
<1>3. \/ m.op = "blank" /\ text = <<"\n">>
      \/ m.op = "null" /\ tokens = <<>>
      \/ m.op = "announce" /\ text # <<"\n">> /\ tokens # <<>> /\ Begins("announce") /\ Len(tokens) >= 3 /\ m = AnnounceOf(tokens)
      \/ m.op = "badAnnounce" /\ Begins("announce") /\ ~(Len(tokens) >= 3)
      \/ m.op \in {"look", "lookBlank"} /\ ~Begins("announce")
      \/ m.op = "getfile" /\ ~Begins("announce")
      \/ m.op = "update" /\ tokens # <<>> /\ ~Begins("announce") /\ Begins("update") /\ Len(tokens) >= 3 /\ m = U
      \/ m.op = "exit" /\ ~Begins("announce") /\ text[1] = "exit"
      \/ m.op = "unknown" /\ ~Begins("announce")
  BY <1>1, <1>2
<1>4. /\ m.op = "announce" => tokens # <<>> /\ Begins("announce") /\ Len(tokens) >= 3 /\ m = AnnounceOf(tokens)
      /\ m.op = "update" => tokens # <<>> /\ Begins("update") /\ Len(tokens) >= 3 /\ m = U
      /\ m.op = "exit" => text[1] = "exit"
      /\ text # <<"\n">> /\ tokens # <<>> /\ Begins("announce") /\ Len(tokens) >= 3 => m.op = "announce"
  BY <1>3
<1> QED BY <1>1, <1>4 DEF m, tokens, Begins

\* What handleAnnounce finds in any stretch of requests that announces.
LEMMA AnnounceMessage ==
  ASSUME NEW lib \in Seq(Keys), NEW text, NEW cut, Readable(AnnounceText(lib), text, cut),
         MessageOf(text).op = "announce"
  PROVE  LET m == MessageOf(text)
         IN /\ m.port = 1 /\ Len(m.parts) \in {0, 1, 2}
            /\ Len(m.parts) # 0 => Offers(m.parts[1], lib, cut)
            /\ Len(m.parts) = 2 => ~m.parts[1].whole
<1> DEFINE m == MessageOf(text)
           tokens == Parse(text)
           L == Listed(lib)
           n == IF Len(tokens) >= 7 THEN 2 ELSE IF Len(tokens) >= 5 THEN 1 ELSE 0
<1>1. tokens # <<>> /\ tokens[1][1] = "announce" /\ Len(tokens) >= 3 /\ m = AnnounceOf(tokens)
  BY MessageIs
<1>2. Announced3(tokens, L) \/ (cut /\ Severed3(tokens, L))
  <2> HIDE DEF m, L
  <2>1. CASE Proper(AnnounceText(lib), text)
    BY <1>1, <2>1, AnnounceRead DEF L
  <2>2. CASE cut /\ CutText(AnnounceText(lib), text)
    <3>1. PICK s \in Seq(Lexemes), y \in Lexemes :
            \E h \in Heads(y) : text = Append(s, h) /\ Proper(AnnounceText(lib), Append(s, y))
      BY <2>2 DEF CutText
    <3>2. PICK h \in Heads(y) : text = Append(s, h)
      BY <3>1
    <3>3. Severed3(tokens, L)
      BY <1>1, <3>1, <3>2, AnnounceCut DEF L
    <3> QED BY <2>2, <3>3
  <2> QED BY <2>1, <2>2 DEF Readable
<1>3. Len(tokens) \in Nat
  BY ReadableIs, ReadIs, LenProperties
<1> HIDE DEF tokens, L, m
<1>4. /\ m.port = Atoi(tokens[3])
      /\ m.parts = [i \in 1..n |-> PartOf(tokens[2 * i + 2], tokens[2 * i + 3])]
  BY <1>1 DEF AnnounceOf
<1>5. m.port = 1
  BY <1>2, <1>4, AtoiIs DEF Announced3, Severed3
<1>6. /\ n \in {0, 1, 2}
      /\ n # 0 => Len(tokens) >= 5 /\ 1 \in 1..n
      /\ n = 2 => Len(tokens) # 5
      /\ 2 * 1 + 2 = 4 /\ 2 * 1 + 3 = 5
  <2>1. n = 0 \/ (n = 1 /\ Len(tokens) >= 5) \/ (n = 2 /\ Len(tokens) >= 7)
    OBVIOUS
  <2> HIDE DEF n
  <2>2. n = 2 => Len(tokens) >= 7
    BY <2>1
  <2>3. Len(tokens) >= 7 => Len(tokens) >= 5 /\ Len(tokens) # 5
    <3>1. \A l \in Nat : l >= 7 => l >= 5 /\ l # 5
      OBVIOUS
    <3> QED BY <1>3, <3>1, Zenon
  <2>4. n # 0 => 1 \in 1..n
    BY <2>1
  <2> QED BY <2>1, <2>2, <2>3, <2>4
<1> HIDE DEF n
<1>7. Len(m.parts) = n /\ n \in Nat
  BY <1>4, <1>6
<1>8. ASSUME n # 0 PROVE m.parts[1] = PartOf(<<"seed">>, tokens[5])
  <2>1. m.parts[1] = PartOf(tokens[2 * 1 + 2], tokens[2 * 1 + 3])
    BY <1>4, <1>6, <1>8
  <2>2. tokens[4] = <<"seed">>
    BY <1>2, <1>6, <1>8 DEF Announced3, Severed3
  <2> QED BY <1>6, <2>1, <2>2
<1>9. ASSUME n # 0 PROVE Offers(m.parts[1], lib, cut) /\ (n = 2 => ~m.parts[1].whole)
  <2>1. CASE Len(tokens) = 5 /\ \E q \in 1..Len(L) : tokens[5] = SubSeq(L, 1, q)
    <3>1. PICK q \in 1..Len(L) : tokens[5] = SubSeq(L, 1, q)
      BY <2>1
    <3>2. Offers(PartOf(<<"seed">>, SubSeq(L, 1, q)), lib, cut)
      BY FrontOfListed DEF L
    <3> QED BY <1>6, <1>8, <1>9, <2>1, <3>1, <3>2
  <2>2. CASE \E w \in Commands \cup {"part"} : tokens[5] = Append(L, w)
    <3>1. PICK w \in Commands \cup {"part"} : tokens[5] = Append(L, w)
      BY <2>2
    <3>2. /\ Offers(PartOf(<<"seed">>, Append(L, w)), lib, cut)
          /\ ~PartOf(<<"seed">>, Append(L, w)).whole
      BY PartOfStuck DEF L
    <3> QED BY <1>8, <1>9, <3>1, <3>2
  <2>3. CASE /\ cut /\ Len(tokens) = 5
             /\ \E q \in 1..Len(L) : \E h \in Heads(L[q]) :
                  tokens[5] = Append(SubSeq(L, 1, q - 1), h)
    <3>1. PICK q \in 1..Len(L) : \E h \in Heads(L[q]) : tokens[5] = Append(SubSeq(L, 1, q - 1), h)
      BY <2>3
    <3>2. PICK h \in Heads(L[q]) : tokens[5] = Append(SubSeq(L, 1, q - 1), h)
      BY <3>1
    <3>3. Offers(PartOf(<<"seed">>, Append(SubSeq(L, 1, q - 1), h)), lib, TRUE)
      BY CutOfListed DEF L
    <3>4. Offers(m.parts[1], lib, cut)
      <4>1. Offers(m.parts[1], lib, TRUE)
        BY <1>8, <1>9, <3>2, <3>3
      <4> QED BY <2>3, <4>1 DEF Offers, Named
    <3> QED BY <1>6, <2>3, <3>4
  <2> QED BY <1>2, <1>6, <1>9, <2>1, <2>2, <2>3 DEF Announced3, Severed3
<1> QED BY <1>5, <1>6, <1>7, <1>9 DEF m

\* An announce that comes alone and whole.
LEMMA WholeAnnounce ==
  ASSUME NEW lib \in Seq(Keys)
  PROVE  LET m == MessageOf(AnnounceText(lib))
         IN /\ m.op = "announce"
            /\ \/ Len(m.parts) = 0 /\ lib = <<>>
               \/ Len(m.parts) = 1 /\ m.parts[1].whole /\ Len(m.parts[1].items) = Len(lib)
<1> DEFINE A == AnnounceText(lib)
           L == Listed(lib)
           m == MessageOf(A)
           tokens == Parse(A)
           n == IF Len(tokens) >= 7 THEN 2 ELSE IF Len(tokens) >= 5 THEN 1 ELSE 0
<1>1. L \in Seq(Lexemes) /\ Len(L) = 8 * Len(lib) /\ Len(lib) \in Nat
  BY ListedIs, LenProperties
<1>2. tokens = IF L = <<>> THEN Heard4 ELSE Append(Heard4, L)
  BY AnnounceTokens
<1>3. A # <<"\n">>
  <2>1. A[1] = "announce"
    BY AnnounceIs
  <2>2. <<"\n">>[1] = "\n" /\ "announce" # "\n"
    OBVIOUS
  <2> HIDE DEF A
  <2> QED BY <2>1, <2>2
<1> HIDE DEF A, L, tokens
<1>4. Heard4 \in Seq(Tokens) /\ Len(Heard4) = 4 /\ Heard4[1] = <<"announce">> /\ Heard4[4] = <<"seed">>
  BY HeardIs
<1>5. /\ tokens[1] = <<"announce">> /\ tokens[4] = <<"seed">>
      /\ Len(tokens) = IF L = <<>> THEN 4 ELSE 5
      /\ L # <<>> => tokens[5] = L
  <2>1. CASE L = <<>>
    BY <1>2, <1>4, <2>1
  <2>2. CASE L # <<>>
    <3>1. L \in Tokens /\ tokens = Append(Heard4, L)
      BY <1>1, <1>2, <2>2 DEF Tokens
    <3>2. /\ Len(tokens) = Len(Heard4) + 1 /\ tokens[Len(Heard4) + 1] = L
          /\ \A i \in 1..Len(Heard4) : tokens[i] = Heard4[i]
      <4>1. Heard4 \in Seq(Tokens)
        BY <1>4
      <4> QED BY <3>1, <4>1, AppendProperties
    <3>3. Len(Heard4) = 4 /\ 4 + 1 = 5 /\ 1 \in 1..4 /\ 4 \in 1..4
      BY <1>4
    <3>4. Len(tokens) = 5 /\ tokens[5] = L /\ tokens[1] = Heard4[1] /\ tokens[4] = Heard4[4]
      BY <3>2, <3>3
    <3> QED BY <1>4, <2>2, <3>4
  <2> QED BY <2>1, <2>2
<1>6. tokens[1][1] = "announce" /\ Len(tokens) >= 3 /\ tokens # <<>>
  <2>1. Len(<<>>) = 0 /\ <<"announce">>[1] = "announce"
    BY EmptySeq
  <2> QED BY <1>5, <2>1
<1>7. m.op = "announce"
  BY <1>3, <1>6, MessageIs DEF tokens
<1>8. m = AnnounceOf(tokens)
  BY <1>7, MessageIs DEF tokens
<1> HIDE DEF m
<1>9. m.parts = [i \in 1..n |-> PartOf(tokens[2 * i + 2], tokens[2 * i + 3])]
  BY <1>8 DEF AnnounceOf
<1>10. CASE L = <<>>
  <2>1. n = 0
    BY <1>5, <1>10
  <2> HIDE DEF n
  <2>2. Len(m.parts) = 0
    BY <1>9, <2>1
  <2>3. lib = <<>>
    <3>1. Len(lib) = 0
      BY <1>1, <1>10, EmptySeq
    <3> QED BY <3>1, EmptySeq
  <2> QED BY <1>7, <2>2, <2>3 DEF m, A
<1>11. CASE L # <<>>
  <2>1. n = 1
    BY <1>5, <1>11
  <2> HIDE DEF n
  <2>2. Len(m.parts) = 1 /\ m.parts[1] = PartOf(tokens[2 * 1 + 2], tokens[2 * 1 + 3])
    BY <1>9, <2>1
  <2>3. 2 * 1 + 2 = 4 /\ 2 * 1 + 3 = 5
    OBVIOUS
  <2>4. m.parts[1] = PartOf(<<"seed">>, L)
    BY <1>5, <1>11, <2>2, <2>3
  <2>5. L = SubSeq(L, 1, Len(L)) /\ Len(L) \in 1..Len(L)
    <3>1. Len(L) # 0
      BY <1>1, <1>11, EmptySeq
    <3>2. L = SubSeq(L, 1, Len(L))
      BY <1>1, SubSeqFull
    <3>3. Len(L) \in Nat
      BY <1>1
    <3> QED BY <3>1, <3>2, <3>3
  <2>6. LET part == PartOf(<<"seed">>, SubSeq(L, 1, Len(L)))
        IN part.whole /\ Len(part.items) = Len(lib)
    BY <2>5, FrontOfListed DEF L
  <2> QED BY <1>7, <2>2, <2>4, <2>5, <2>6 DEF m, A
<1> QED BY <1>10, <1>11

\* An update that comes alone names no key.
LEMMA WholeUpdate ==
  ASSUME NEW lib \in Seq(Keys), MessageOf(UpdateText(lib)).op = "update"
  PROVE  Updated(MessageOf(UpdateText(lib)).tokens, "seed") \cap Keys = {}
<1> DEFINE U == UpdateText(lib)
           L == Listed(lib)
           m == MessageOf(U)
           tokens == Parse(U)
<1>1. L \in Seq(Lexemes) /\ Len(L) = 8 * Len(lib) /\ Len(lib) \in Nat
  BY ListedIs, LenProperties
<1>2. tokens = IF L = <<>> THEN Told2 ELSE Append(Told2, L)
  BY UpdateTokens
<1>3. m.tokens = [i \in 1..(Len(tokens) - 1) |-> Name(tokens[i + 1])] /\ Len(tokens) >= 3
  BY MessageIs
<1> HIDE DEF U, L, m, tokens
<1>4. Told2 \in Seq(Tokens) /\ Len(Told2) = 2 /\ Told2[2] = <<"seed">>
  BY ToldIs
<1>5. L # <<>>
  BY <1>2, <1>3, <1>4
<1>6. Len(tokens) = 3 /\ tokens[2] = <<"seed">> /\ tokens[3] = L
  <2>1. L \in Tokens /\ tokens = Append(Told2, L)
    BY <1>1, <1>2, <1>5 DEF Tokens
  <2>2. /\ Len(tokens) = Len(Told2) + 1 /\ tokens[Len(Told2) + 1] = L
        /\ \A i \in 1..Len(Told2) : tokens[i] = Told2[i]
    <3>1. Told2 \in Seq(Tokens)
      BY <1>4
    <3> QED BY <2>1, <3>1, AppendProperties
  <2>3. Len(Told2) = 2 /\ 2 + 1 = 3 /\ 2 \in 1..2
    BY <1>4
  <2>4. Len(tokens) = 3 /\ tokens[3] = L /\ tokens[2] = Told2[2]
    BY <2>2, <2>3
  <2> QED BY <1>4, <2>4
<1>7. Name(L) = "glued"
  <2>1. Len(L) # 1
    BY <1>1
  <2> QED BY <2>1 DEF Name
<1>8. /\ DOMAIN m.tokens = {1, 2} /\ m.tokens[1] = "seed" /\ m.tokens[2] = "glued"
  <2>1. Len(tokens) - 1 = 2 /\ 1..2 = {1, 2} /\ 1 + 1 = 2 /\ 2 + 1 = 3
    BY <1>6
  <2>2. m.tokens = [i \in {1, 2} |-> Name(tokens[i + 1])]
    BY <1>3, <2>1
  <2>3. m.tokens[1] = Name(tokens[2]) /\ m.tokens[2] = Name(tokens[3])
    BY <2>1, <2>2
  <2> QED BY <1>6, <1>7, <2>2, <2>3, NameIs
<1>9. "glued" \notin Keys
  BY KeysAssumption DEF Words
<1> QED BY <1>8, <1>9 DEF Updated, m, U

-----------------------------------------------------------------------------
(* What one message of the peer does.                                       *)

LEMMA SingleSaid ==
  ASSUME NEW S, NEW x \in S
  PROVE  <<x>> \in Seq(S) /\ Len(<<x>>) = 1
OBVIOUS

SeededBy(F, a) == {k \in DOMAIN F : a \in F[k].seed}
KeysOf(items) == {items[i].key : i \in 1..Len(items)}

\* What the peer can be listed for.
Known(lib, cut) == ToSet(lib) \cup (IF cut THEN UNION {Stems[k] : k \in ToSet(lib)} ELSE {})

\* addseed lists the files it names, when it refuses none.
LEMMA SeedPartSeeds ==
  ASSUME NEW F, FilesOver(F, Addr), NEW a, NEW items \in Seq(ItemType), SeedOk(F, items),
         NEW wild
  PROVE  SeededBy(SeedPart(F, items, a, wild), a) = SeededBy(F, a) \cup KeysOf(items)
<1> DEFINE n == Len(items)
           K == {items[i].key : i \in SeedReached(F, items)}
           old == AddSeed(F, K, a)
           item(k) == items[CHOOSE i \in NewAt(F, items) : items[i].key = k]
           G == SeedPart(F, items, a, wild)
<1>1. DOMAIN items = 1..n /\ n \in Nat
  BY LenProperties
<1>2. G = [k \in DOMAIN F \cup NewKeys(F, items) |->
             IF k \in DOMAIN F THEN old[k] ELSE NewFile(item(k).meta, a, wild[k])]
  BY DEF SeedPart
<1> HIDE DEF n, G
<1>3. SeedReached(F, items) = 1..n
  <2>1. ASSUME NEW i \in 1..n, NEW j \in 1..(i - 1) PROVE j \in DOMAIN items
    BY <1>1
  <2> QED BY <1>1, <2>1 DEF SeedReached, SeedOk
<1>4. K = KeysOf(items)
  BY <1>3 DEF KeysOf, n
<1>5. \A k \in DOMAIN F : /\ old[k].seed = IF k \in K THEN F[k].seed \cup {a} ELSE F[k].seed
  BY DEF AddSeed, FilesOver, FileOver
<1>6. NewKeys(F, items) = K \ DOMAIN F
  <2>1. NewKeys(F, items) \subseteq K \ DOMAIN F
    BY <1>3 DEF NewKeys, NewAt, Fresh
  <2>2. ASSUME NEW k \in K \ DOMAIN F PROVE k \in NewKeys(F, items)
    <3> DEFINE I == {i \in 1..n : items[i].key = k}
    <3>1. I # {} /\ I \in SUBSET Nat
      BY <1>1, <1>3
    <3>2. PICK i \in I : \A j \in I : i <= j
      BY <3>1, Least
    <3>3. i \in 1..n /\ items[i].key = k
      BY <3>2
    <3>4. \A j \in 1..(i - 1) : items[j].key # k
      <4> SUFFICES ASSUME NEW j \in 1..(i - 1), items[j].key = k PROVE FALSE
        OBVIOUS
      <4>1. j \in 1..n /\ ~(i <= j)
        BY <1>1, <3>3
      <4> QED BY <3>2, <4>1
    <3>5. Fresh(F, items, i)
      BY <2>2, <3>3, <3>4 DEF Fresh
    <3>6. Valid(items[i].meta)
      BY <1>1, <3>3, <3>5 DEF SeedOk, BadSeed
    <3> QED BY <1>3, <3>3, <3>5, <3>6 DEF NewKeys, NewAt
  <2> QED BY <2>1, <2>2
<1>7. \A k \in NewKeys(F, items) : G[k].seed = {a}
  BY <1>2, <1>6 DEF NewFile
<1>8. \A k \in DOMAIN F : G[k] = old[k]
  BY <1>2
<1>9. DOMAIN G = DOMAIN F \cup K
  BY <1>2, <1>6
<1> HIDE DEF K, old, item
<1>10. SeededBy(G, a) = SeededBy(F, a) \cup K
  BY <1>5, <1>6, <1>7, <1>8, <1>9 DEF SeededBy
<1> QED BY <1>4, <1>10 DEF G

\* A part that offers files of the library.
LEMMA OffersSeeds ==
  ASSUME NEW lib \in Seq(Keys), NEW part, NEW cut \in BOOLEAN, Offers(part, lib, cut), NEW F, FilesOver(F, Addr),
         NEW a \in Addr, NEW wild \in [Keys \ DOMAIN F -> SUBSET Garbage]
  PROVE  LET P == Part(F, part, a, wild)
         IN /\ FilesOver(P.files, Addr)
            /\ SeededBy(F, a) \subseteq SeededBy(P.files, a)
            /\ SeededBy(P.files, a) \subseteq SeededBy(F, a) \cup Known(lib, cut)
            /\ P.ok = part.whole
            /\ P.said = IF part.whole THEN <<>> ELSE <<"wrongPart">>
            /\ cut = FALSE /\ part.whole /\ Len(part.items) = Len(lib) =>
                 ToSet(lib) \subseteq SeededBy(P.files, a)
<1> DEFINE P == Part(F, part, a, wild)
           items == part.items
<1>1. items \in Seq(ItemType) /\ part.type = "seed" /\ part \in PartType /\ part.whole \in BOOLEAN
  BY DEF Offers, PartType, ItemType
<1>2. FilesOver(P.files, Addr)
  BY <1>1, PartOver
<1>3. DOMAIN items = 1..Len(items) /\ DOMAIN lib = 1..Len(lib)
  BY <1>1, LenProperties
<1>o. \A i \in 1..Len(items) :
        i \in 1..Len(lib) /\ items[i].key \in Named(lib[i], cut) /\ items[i].meta = Described
  <2>1. \A i \in 1..Len(items) :
          /\ i \in 1..Len(lib)
          /\ \E k \in Named(lib[i], cut) : items[i] = [key |-> k, meta |-> Described]
    BY DEF Offers
  <2> HIDE DEF items
  <2> SUFFICES ASSUME NEW i \in 1..Len(items)
               PROVE  /\ i \in 1..Len(lib) /\ items[i].key \in Named(lib[i], cut)
                      /\ items[i].meta = Described
    OBVIOUS
  <2>2. i \in 1..Len(lib)
    BY <2>1
  <2>3. PICK k \in Named(lib[i], cut) : items[i] = [key |-> k, meta |-> Described]
    BY <2>1
  <2>4. [key |-> k, meta |-> Described].key = k /\ [key |-> k, meta |-> Described].meta = Described
    OBVIOUS
  <2> QED BY <2>2, <2>3, <2>4, Zenon
<1>4. SeedOk(F, items)
  <2>1. Valid(Described)
    BY DEF Valid, Described
  <2>2. \A i \in DOMAIN items : items[i].meta = Described
    BY <1>3, <1>o
  <2> QED BY <2>1, <2>2 DEF SeedOk, BadSeed
<1>5. /\ KeysOf(items) \subseteq Known(lib, cut)
      /\ cut = FALSE /\ Len(items) = Len(lib) => ToSet(lib) \subseteq KeysOf(items)
  <2>1. \A i \in 1..Len(items) : i \in 1..Len(lib) /\ items[i].key \in Named(lib[i], cut)
    BY <1>o
  <2>2. \A i \in 1..Len(lib) : lib[i] \in ToSet(lib)
    BY <1>3 DEF ToSet
  <2>3. \A i \in 1..Len(items) : items[i].key \in Known(lib, cut)
    BY <2>1, <2>2 DEF Known, Named
  <2>4. ASSUME cut = FALSE, Len(items) = Len(lib) PROVE ToSet(lib) \subseteq KeysOf(items)
    <3> HIDE DEF items
    <3>1. \A i \in 1..Len(lib) : items[i].key = lib[i]
      BY <2>1, <2>4 DEF Named
    <3> QED BY <1>3, <2>4, <3>1 DEF KeysOf, ToSet
  <2> QED BY <2>3, <2>4 DEF KeysOf
<1>6. SeededBy(SeedPart(F, items, a, wild), a) = SeededBy(F, a) \cup KeysOf(items)
  <2>1. items \in Seq(ItemType)
    BY <1>1
  <2> HIDE DEF items
  <2> QED BY <1>4, <2>1, SeedPartSeeds
<1>7. CASE part.whole
  <2>1. P.files = SeedPart(F, items, a, wild) /\ P.ok = TRUE /\ P.said = <<>>
    BY <1>1, <1>4, <1>7 DEF Part
  <2> HIDE DEF P, items
  <2> QED BY <1>2, <1>5, <1>6, <1>7, <2>1 DEF P, items
<1>8. CASE ~part.whole
  <2>1. P.files = F /\ P.ok = FALSE /\ P.said = <<"wrongPart">>
    BY <1>1, <1>8 DEF Part
  <2> QED BY <1>1, <1>2, <1>8, <2>1
<1> QED BY <1>1, <1>7, <1>8

\* What an announce does, when it does not follow a garbage pointer.
LEMMA AnnounceStep ==
  ASSUME ListsInv, NEW lib \in Seq(Keys), NEW text, NEW cut \in BOOLEAN, Readable(AnnounceText(lib), text, cut),
         MessageOf(text).op = "announce", Announce(Fd, Me, MessageOf(text)), ~Crash
  PROVE  /\ ListsInv'
         /\ toClose' = toClose
         /\ replies'.said \in Seq(Sayings) /\ Len(replies'.said) = 1
         /\ SeededBy(files, MyAddr) \subseteq SeededBy(files', MyAddr)
         /\ SeededBy(files', MyAddr) \subseteq SeededBy(files, MyAddr) \cup Known(lib, cut)
         /\ text = AnnounceText(lib) /\ cut = FALSE => ToSet(lib) \subseteq SeededBy(files', MyAddr)
<1> DEFINE m == MessageOf(text)
           a == <<Me[1], m.port>>
<1>1. /\ m.port = 1 /\ Len(m.parts) \in {0, 1, 2}
      /\ Len(m.parts) # 0 => Offers(m.parts[1], lib, cut)
      /\ Len(m.parts) = 2 => ~m.parts[1].whole
  BY AnnounceMessage
<1>2. text = AnnounceText(lib) =>
        \/ Len(m.parts) = 0 /\ lib = <<>>
        \/ Len(m.parts) = 1 /\ m.parts[1].whole /\ Len(m.parts[1].items) = Len(lib)
  BY WholeAnnounce
<1> HIDE DEF m
<1>3. PICK wild \in Leftovers : AnnounceParts(Fd, Me, m, wild)
  BY <1>1 DEF Announce, m
<1> DEFINE p1 == FirstPart(m, a, wild)
           p2 == SecondPart(m, a, wild)
<1>4. /\ peers' = AddPeer(peers, a, Fd)
      /\ files' = p2.files
      /\ replies'.said = p1.said \o p2.said \o (IF p1.ok /\ p2.ok THEN <<"ok">> ELSE <<>>)
      /\ Served(Me)
      /\ UNCHANGED <<toClose, up>>
  <2>1. /\ peers' = AddPeer(peers, a, Fd)
        /\ files' = p2.files
        /\ Reply(Fd, m, p1.said \o p2.said \o (IF p1.ok /\ p2.ok THEN <<"ok">> ELSE <<>>))
        /\ Served(Me)
        /\ UNCHANGED <<toClose, up>>
    BY <1>3 DEF AnnounceParts
  <2> HIDE DEF p1, p2
  <2> QED BY <2>1 DEF Reply
<1>5. a = MyAddr /\ a \in Addr /\ Fd \in Fds /\ Me \in Remotes
  BY <1>1, PlacesAssumption DEF MyAddr, Addr, Remotes
<1>6. wild \in [Keys \ DOMAIN files -> SUBSET Garbage] /\ FilesOver(files, Addr)
  BY DEF Leftovers, ListsInv
<1> HIDE DEF a
<1>7. /\ FilesOver(p1.files, Addr)
      /\ SeededBy(files, a) \subseteq SeededBy(p1.files, a)
      /\ SeededBy(p1.files, a) \subseteq SeededBy(files, a) \cup Known(lib, cut)
      /\ Len(m.parts) = 0 => p1.ok = TRUE /\ p1.said = <<>>
      /\ Len(m.parts) # 0 => /\ p1.ok = m.parts[1].whole
                             /\ p1.said = IF m.parts[1].whole THEN <<>> ELSE <<"wrongPart">>
                             /\ cut = FALSE /\ m.parts[1].whole /\ Len(m.parts[1].items) = Len(lib)
                                  => ToSet(lib) \subseteq SeededBy(p1.files, a)
  <2>1. CASE Len(m.parts) = 0
    <3>1. p1.files = files /\ p1.ok = TRUE /\ p1.said = <<>>
      BY <2>1 DEF FirstPart, Nothing
    <3> QED BY <1>6, <2>1, <3>1
  <2>2. CASE Len(m.parts) # 0
    <3>1. p1 = Part(files, m.parts[1], a, wild)
      BY <2>2 DEF FirstPart
    <3>2. Offers(m.parts[1], lib, cut) /\ a \in Addr
      BY <1>1, <1>5, <2>2
    <3> DEFINE part == m.parts[1]
    <3> HIDE DEF p1, part
    <3>3. Offers(part, lib, cut) /\ p1 = Part(files, part, a, wild)
      BY <3>1, <3>2 DEF part
    <3>4. /\ FilesOver(p1.files, Addr)
          /\ SeededBy(files, a) \subseteq SeededBy(p1.files, a)
          /\ SeededBy(p1.files, a) \subseteq SeededBy(files, a) \cup Known(lib, cut)
          /\ p1.ok = part.whole
          /\ p1.said = IF part.whole THEN <<>> ELSE <<"wrongPart">>
          /\ cut = FALSE /\ part.whole /\ Len(part.items) = Len(lib) => ToSet(lib) \subseteq SeededBy(p1.files, a)
      <4> DEFINE Q == Part(files, part, a, wild)
      <4>1. /\ FilesOver(Q.files, Addr)
            /\ SeededBy(files, a) \subseteq SeededBy(Q.files, a)
            /\ SeededBy(Q.files, a) \subseteq SeededBy(files, a) \cup Known(lib, cut)
            /\ Q.ok = part.whole
            /\ Q.said = IF part.whole THEN <<>> ELSE <<"wrongPart">>
            /\ cut = FALSE /\ part.whole /\ Len(part.items) = Len(lib) => ToSet(lib) \subseteq SeededBy(Q.files, a)
        <5>1. /\ lib \in Seq(Keys) /\ cut \in BOOLEAN /\ Offers(part, lib, cut) /\ FilesOver(files, Addr)
              /\ a \in Addr /\ wild \in [Keys \ DOMAIN files -> SUBSET Garbage]
          BY <1>6, <3>2, <3>3
        <5> HIDE DEF Q
        <5> QED BY <5>1, OffersSeeds, Zenon DEF Q
      <4>2. p1 = Q
        BY <3>3
      <4> HIDE DEF Q
      <4> QED BY <4>1, <4>2, Zenon
    <3> QED BY <2>2, <3>4 DEF part
  <2> QED BY <2>1, <2>2
<1>8. p2.files = p1.files /\ p2.ok = TRUE /\ p2.said = <<>>
  <2>1. Len(m.parts) < 2 \/ ~p1.ok
    <3>1. Len(m.parts) = 0 \/ Len(m.parts) = 1 \/ Len(m.parts) = 2
      BY <1>1
    <3> HIDE DEF p1
    <3>2. CASE Len(m.parts) = 2
      <4>1. Len(m.parts) # 0
        BY <3>2
      <4> QED BY <1>1, <1>7, <3>2, <4>1
    <3>3. 0 < 2 /\ 1 < 2
      OBVIOUS
    <3> QED BY <3>1, <3>2, <3>3
  <2> QED BY <2>1 DEF SecondPart, Nothing
<1> HIDE DEF p1, p2
<1>9. replies'.said = <<"ok">> \/ replies'.said = <<"wrongPart">>
  <2>1. /\ <<>> \o <<>> \o <<"ok">> = <<"ok">>
        /\ <<"wrongPart">> \o <<>> \o <<>> = <<"wrongPart">>
    <3>1. <<"ok">> \in Seq(Sayings) /\ <<"wrongPart">> \in Seq(Sayings) /\ <<>> \in Seq(Sayings)
      <4>1. "ok" \in Sayings /\ "wrongPart" \in Sayings
        BY DEF Sayings
      <4> QED BY <4>1, EmptySeq
    <3> QED BY <3>1, ConcatEmptySeq
  <2>2. CASE p1.ok = TRUE /\ p1.said = <<>>
    <3>1. replies'.said = <<>> \o <<>> \o <<"ok">>
      BY <1>4, <1>8, <2>2
    <3> QED BY <2>1, <3>1
  <2>3. CASE ~p1.ok /\ p1.said = <<"wrongPart">>
    <3>1. replies'.said = <<"wrongPart">> \o <<>> \o <<>>
      BY <1>4, <1>8, <2>3
    <3> QED BY <2>1, <3>1
  <2>4. Len(m.parts) # 0 => m.parts[1].whole \in BOOLEAN
    BY <1>1 DEF Offers, PartType
  <2>5. (p1.ok = TRUE /\ p1.said = <<>>) \/ (~p1.ok /\ p1.said = <<"wrongPart">>)
    BY <1>7, <2>4
  <2> QED BY <2>2, <2>3, <2>5
<1>10. replies'.said \in Seq(Sayings) /\ Len(replies'.said) = 1
  <2>1. /\ <<"ok">> \in Seq(Sayings) /\ Len(<<"ok">>) = 1
        /\ <<"wrongPart">> \in Seq(Sayings) /\ Len(<<"wrongPart">>) = 1
    <3>1. "ok" \in Sayings /\ "wrongPart" \in Sayings
      BY DEF Sayings
    <3> QED BY <3>1, SingleSaid
  <2> QED BY <1>9, <2>1
<1>11. ListsInv'
  <2>1. PeersInv'
    BY <1>4, <1>5, AddPeerIs DEF ListsInv, PeersInv
  <2>2. ErrsInv' /\ streak' \in [Remotes -> Nat]
    BY <1>4, <1>5, ServedKeeps
  <2>3. FilesOver(files', Addr)
    BY <1>4, <1>7, <1>8
  <2> QED BY <1>4, <2>1, <2>2, <2>3 DEF ListsInv
<1>12. text = AnnounceText(lib) /\ cut = FALSE => ToSet(lib) \subseteq SeededBy(files', a)
  <2>1. files' = p1.files
    BY <1>4, <1>8
  <2>2. lib = <<>> => ToSet(lib) = {}
    BY DEF ToSet
  <2> QED BY <1>2, <1>7, <2>1, <2>2
<1>13. files' = p1.files
  BY <1>4, <1>8
<1>14. /\ SeededBy(files, a) \subseteq SeededBy(files', a)
       /\ SeededBy(files', a) \subseteq SeededBy(files, a) \cup Known(lib, cut)
  BY <1>7, <1>13
<1> QED BY <1>4, <1>5, <1>10, <1>11, <1>12, <1>14

\* What follows an error.
LEMMA FailSays ==
  ASSUME NEW m, NEW limited \in BOOLEAN, NEW t \in Sayings \ {"threeErrors"},
         Fail(Fd, Me, m, limited, t)
  PROVE  /\ replies'.said \in Seq(Sayings)
         /\ \/ Len(replies'.said) = 1 /\ toClose' = toClose
            \/ "threeErrors" \in ToSet(replies'.said) /\ toClose' = Fd
<1> DEFINE es == AddRecord(errs, Me)
           i == First(At(es, Me))
           kicked == limited /\ es[i].nb + 1 >= MaxErrors
<1>1. /\ toClose' = IF kicked THEN Fd ELSE toClose
      /\ replies'.said = IF kicked THEN <<t, "threeErrors">> ELSE <<t>>
  <2>1. /\ toClose' = IF kicked THEN Fd ELSE toClose
        /\ Reply(Fd, m, IF kicked THEN <<t, "threeErrors">> ELSE <<t>>)
    BY DEF Fail
  <2> HIDE DEF kicked
  <2> QED BY <2>1 DEF Reply
<1> HIDE DEF kicked
<1>2. "threeErrors" \in Sayings
  BY DEF Sayings
<1>3. /\ <<t, "threeErrors">> \in Seq(Sayings)
      /\ "threeErrors" \in ToSet(<<t, "threeErrors">>)
  <2> DEFINE s == <<t, "threeErrors">>
  <2>1. s \in Seq(Sayings) /\ 2 \in DOMAIN s /\ s[2] = "threeErrors"
    BY <1>2
  <2> HIDE DEF s
  <2>2. "threeErrors" \in ToSet(s)
    BY <2>1 DEF ToSet
  <2> QED BY <2>1, <2>2 DEF s
<1>4. <<t>> \in Seq(Sayings) /\ Len(<<t>>) = 1
  BY SingleSaid
<1> QED BY <1>1, <1>3, <1>4

\* The other messages.
LEMMA OthersSay ==
  ASSUME NEW m, HandleClient(Fd, Me, m), ~Announce(Fd, Me, m), ~Update(Fd, Me, m), ~Crash
  PROVE  \/ m.op = "exit" /\ toClose' \in {toClose, Fd}
         \/ /\ replies'.said \in Seq(Sayings)
            /\ \/ Len(replies'.said) = 1 /\ toClose' = toClose
               \/ "threeErrors" \in ToSet(replies'.said) /\ toClose' = Fd
<1>1. /\ "invalid" \in Sayings \ {"threeErrors"} /\ "notAnnounced" \in Sayings \ {"threeErrors"}
      /\ "null" \in Sayings /\ "list" \in Sayings /\ "peers" \in Sayings
  BY DEF Sayings
<1>2. CASE BlankLine(Fd, Me, m) \/ Unknown(Fd, Me, m)
  <2>1. HandleError(Fd, Me, m)
    BY <1>2 DEF BlankLine, Unknown
  <2>2. PICK limited \in BOOLEAN : Fail(Fd, Me, m, limited, "invalid")
    BY <2>1 DEF HandleError
  <2> QED BY <1>1, <2>2, FailSays
<1>3. CASE NotAnnounced(Fd, Me, m)
  <2>1. Fail(Fd, Me, m, TRUE, "notAnnounced")
    BY <1>3 DEF NotAnnounced
  <2>2. TRUE \in BOOLEAN
    OBVIOUS
  <2> QED BY <1>1, <2>1, <2>2, FailSays
<1>4. CASE MessageNull(Fd, Me, m)
  <2>1. replies'.said = <<"null">> /\ toClose' = toClose
    BY <1>4 DEF MessageNull, Reply
  <2> QED BY <1>1, <2>1, SingleSaid
<1>5. CASE Look(Fd, Me, m)
  <2>1. replies'.said = <<"list">> /\ toClose' = toClose
    BY <1>5 DEF Look, Give
  <2> QED BY <1>1, <2>1, SingleSaid
<1>6. CASE Getfile(Fd, Me, m)
  <2>1. replies'.said = <<"peers">> /\ toClose' = toClose
    BY <1>6 DEF Getfile, Give
  <2> QED BY <1>1, <2>1, SingleSaid
<1>7. CASE Exit(Fd, Me, m)
  BY <1>7 DEF Exit
<1>8. ~LookBlank(Fd, Me, m)
  BY DEF LookBlank
<1> QED BY <1>2, <1>3, <1>4, <1>5, <1>6, <1>7, <1>8 DEF HandleClient

\* An update adds its peer to the seeders of what it names.
LEMMA UpdateStep ==
  ASSUME ListsInv, NEW m, Update(Fd, Me, m), ~Crash
  PROVE  /\ ListsInv'
         /\ toClose' = toClose
         /\ replies'.said \in Seq(Sayings) /\ Len(replies'.said) = 1
         /\ SeededBy(files, MyAddr) \subseteq SeededBy(files', MyAddr)
         /\ Updated(m.tokens, "seed") \cap Keys = {} =>
              SeededBy(files', MyAddr) \subseteq SeededBy(files, MyAddr)
<1> DEFINE a == peers[First(WithIp(peers, Me[1]))].addr
           seeds == Updated(m.tokens, "seed")
           leeches == Updated(m.tokens, "leech")
           F == AddSeed(files, seeds, a)
           G == AddLeech(F, leeches, a)
<1>1. ListsInv'
  BY PlacesAssumption, UpdateKeeps
<1>2. files' = G /\ Reply(Fd, m, <<"ok">>) /\ toClose' = toClose
  BY DEF Update
<1>3. replies'.said \in Seq(Sayings) /\ Len(replies'.said) = 1
  <2>1. replies'.said = <<"ok">>
    BY <1>2 DEF Reply
  <2>2. "ok" \in Sayings
    BY DEF Sayings
  <2> QED BY <2>1, <2>2, SingleSaid
<1> HIDE DEF a, seeds, leeches
<1>4. files \in [DOMAIN files -> FileOver(Addr)] /\ DOMAIN files \subseteq Keys
  BY DEF ListsInv, FilesOver
<1>5. /\ DOMAIN F = DOMAIN files
      /\ \A k \in DOMAIN files :
           F[k].seed = IF k \in seeds THEN files[k].seed \cup {a} ELSE files[k].seed
  BY <1>4 DEF AddSeed, FileOver
<1>6. DOMAIN G = DOMAIN F /\ \A k \in DOMAIN F : G[k].seed = F[k].seed
  <2>1. \A k \in DOMAIN F : F[k] \in [meta : Metas, seed : SUBSET (Addr \cup {a}), leech : SUBSET Addr, wild : SUBSET Garbage]
    BY <1>4 DEF AddSeed, FileOver
  <2> HIDE DEF F
  <2> QED BY <2>1 DEF AddLeech
<1> HIDE DEF F, G
<1>7. SeededBy(files, MyAddr) \subseteq SeededBy(G, MyAddr)
  BY <1>5, <1>6 DEF SeededBy
<1>8. seeds \cap Keys = {} => SeededBy(G, MyAddr) \subseteq SeededBy(files, MyAddr)
  BY <1>4, <1>5, <1>6 DEF SeededBy
<1> QED BY <1>1, <1>2, <1>3, <1>7, <1>8 DEF seeds

\* One message, whatever it is.
LEMMA HandleStep ==
  ASSUME ListsInv, up, world \in WorldType, NEW text, NEW cut \in BOOLEAN, Readable(Mine, text, cut),
         HandleClient(Fd, Me, MessageOf(text))
  PROVE  LET m == MessageOf(text)
         IN /\ ListsInv'
            /\ \/ toClose' = toClose
               \/ toClose' = Fd /\ (m.op = "exit" \/ "threeErrors" \in ToSet(Said(m)))
            /\ Said(m) \in Seq(Sayings)
            /\ Len(Said(m)) <= 1 \/ "threeErrors" \in ToSet(Said(m))
            /\ SeededBy(files, MyAddr) \subseteq SeededBy(files', MyAddr)
            /\ \/ SeededBy(files', MyAddr)
                    \subseteq SeededBy(files, MyAddr) \cup Known(world.library, cut)
               \/ m.op = "update" /\ ~(Updated(m.tokens, "seed") \cap Keys = {})
            /\ text = Mine /\ up' /\ cut = FALSE => Library \subseteq SeededBy(files', MyAddr)
<1> DEFINE m == MessageOf(text)
           lib == world.library
<1>1. lib \in Seq(Keys) /\ Mine = AnnounceText(lib) /\ Library = ToSet(lib)
  BY DEF WorldType, Mine, Library
<1>2. <<>> \in Seq(Sayings) /\ Len(<<>>) <= 1
  BY EmptySeq
<1>3. CASE Crash
  <2>1. ListsInv' /\ toClose' = toClose /\ files' = files /\ ~up'
    BY <1>3, CrashKeeps DEF Crash
  <2>2. Said(m) = <<>>
    BY <2>1 DEF Said
  <2> HIDE DEF m, lib
  <2> QED BY <1>2, <2>1, <2>2 DEF m
<1>4. text = Mine => m.op = "announce"
  BY <1>1, WholeAnnounce
<1>5. CASE Announce(Fd, Me, m) /\ ~Crash
  <2>1. m.op = "announce"
    BY <1>5 DEF Announce
  <2>2. /\ ListsInv'
        /\ toClose' = toClose
        /\ replies'.said \in Seq(Sayings) /\ Len(replies'.said) = 1
        /\ SeededBy(files, MyAddr) \subseteq SeededBy(files', MyAddr)
        /\ SeededBy(files', MyAddr) \subseteq SeededBy(files, MyAddr) \cup Known(lib, cut)
        /\ text = AnnounceText(lib) /\ cut = FALSE => ToSet(lib) \subseteq SeededBy(files', MyAddr)
    <3>1. Readable(AnnounceText(lib), text, cut)
      BY <1>1
    <3> HIDE DEF lib
    <3> QED BY <1>1, <1>5, <2>1, <3>1, AnnounceStep
  <2> HIDE DEF m, lib
  <2>3. Said(m) \in Seq(Sayings) /\ Len(Said(m)) <= 1
    <3>1. Said(m) = replies'.said \/ Said(m) = <<>>
      BY DEF Said
    <3>2. replies'.said \in Seq(Sayings) /\ Len(replies'.said) = 1
      BY <2>2
    <3>3. CASE Said(m) = replies'.said
      <4>1. Len(Said(m)) = 1 /\ Said(m) \in Seq(Sayings)
        BY <3>2, <3>3, Zenon
      <4> QED BY <4>1
    <3>4. CASE Said(m) = <<>>
      BY <1>2, <3>4, Zenon
    <3> QED BY <3>1, <3>3, <3>4
  <2> QED BY <1>1, <2>2, <2>3, Zenon DEF m, lib
<1>6. CASE Update(Fd, Me, m) /\ ~Crash
  <2>1. m.op = "update"
    BY <1>6 DEF Update
  <2> HIDE DEF m, lib
  <2>2. /\ ListsInv'
        /\ toClose' = toClose
        /\ replies'.said \in Seq(Sayings) /\ Len(replies'.said) = 1
        /\ SeededBy(files, MyAddr) \subseteq SeededBy(files', MyAddr)
        /\ Updated(m.tokens, "seed") \cap Keys = {} =>
             SeededBy(files', MyAddr) \subseteq SeededBy(files, MyAddr)
    BY <1>6, UpdateStep
  <2>3. Said(m) \in Seq(Sayings) /\ Len(Said(m)) <= 1
    <3>1. Said(m) = replies'.said \/ Said(m) = <<>>
      BY DEF Said
    <3>2. replies'.said \in Seq(Sayings) /\ Len(replies'.said) = 1
      BY <2>2
    <3>3. CASE Said(m) = replies'.said
      <4>1. Len(Said(m)) = 1 /\ Said(m) \in Seq(Sayings)
        BY <3>2, <3>3, Zenon
      <4> QED BY <4>1
    <3>4. CASE Said(m) = <<>>
      BY <1>2, <3>4, Zenon
    <3> QED BY <3>1, <3>3, <3>4
  <2>4. text # Mine
    BY <1>4, <2>1
  <2> QED BY <2>1, <2>2, <2>3, <2>4 DEF m
<1>7. CASE ~Announce(Fd, Me, m) /\ ~Update(Fd, Me, m) /\ ~Crash
  <2>1. ListsInv' /\ files' = files
    BY <1>7, PlacesAssumption, OthersKeep
  <2>2. \/ m.op = "exit" /\ toClose' \in {toClose, Fd}
        \/ /\ replies'.said \in Seq(Sayings)
           /\ \/ Len(replies'.said) = 1 /\ toClose' = toClose
              \/ "threeErrors" \in ToSet(replies'.said) /\ toClose' = Fd
    BY <1>7, OthersSay
  <2>3. m.op # "announce"
    <3>1. m.op = "announce" => Announce(Fd, Me, m)
      BY <1>7 DEF HandleClient, BlankLine, MessageNull, NotAnnounced, Announce, Look, LookBlank,
                  Getfile, Update, Exit, Unknown
    <3> QED BY <1>7, <3>1
  <2>4. text # Mine
    BY <1>4, <2>3
  <2>5. up'
    <3>1. up' = up
      BY <1>7 DEF HandleClient, BlankLine, MessageNull, NotAnnounced, Look, LookBlank, Getfile,
                  Exit, Unknown, HandleError, Fail
    <3> QED BY <3>1
  <2> HIDE DEF m, lib
  <2>6. Said(m) = IF m.op # "exit" THEN replies'.said ELSE <<>>
    BY <2>5 DEF Said
  <2>7. CASE m.op = "exit"
    <3>1. Said(m) = <<>> /\ toClose' \in {toClose, Fd}
      <4>1. \/ toClose' \in {toClose, Fd} \/ toClose' = toClose \/ toClose' = Fd
        BY <2>2
      <4> QED BY <2>6, <2>7, <4>1
    <3> QED BY <1>2, <2>1, <2>4, <2>7, <3>1 DEF m
  <2>8. CASE m.op # "exit"
    <3>1. Said(m) = replies'.said
      BY <2>6, <2>8
    <3>2. /\ Said(m) \in Seq(Sayings)
          /\ \/ Len(Said(m)) = 1 /\ toClose' = toClose
             \/ "threeErrors" \in ToSet(Said(m)) /\ toClose' = Fd
      BY <2>2, <2>8, <3>1, Zenon
    <3>3. Len(Said(m)) = 1 => Len(Said(m)) <= 1
      OBVIOUS
    <3> QED BY <2>1, <2>4, <3>2, <3>3 DEF m
  <2> QED BY <2>7, <2>8
<1> QED BY <1>3, <1>5, <1>6, <1>7

-----------------------------------------------------------------------------
(* The invariant. *)

Requests == [calls : Seq(Made), text : Seq(Lexemes)]
Answers == [calls : Seq(Made), said : Sayings]

Base ==
  /\ world \in Worlds
  /\ ListsInv
  /\ toClose \in {NoFd, Fd}
  /\ step \in [Users -> Nat \ {0}]
  /\ \A u \in Users : step[u] <= Len(world.script[u]) + 1
  /\ waiting \subseteq {u \in Users : step[u] # 1}
  /\ got \in [Calls -> Seq(Answers)]
  /\ sent \in Seq(Requests)
  /\ jobs \in Seq(Requests)
  /\ stream \in Seq(Answers)
  /\ \A i \in 1..Len(jobs) : Len(jobs[i].text) <= world.limit + 1
  /\ conn \subseteq {"open", "watched"}
  /\ main \in {"select", "top"}
  /\ mixed \subseteq Made
  /\ odd \subseteq {"cut", "kicked"}

\* What is joined and cut is a stretch of requests that follow each other, its
\* last lexeme perhaps a piece of one.
Texts ==
  /\ \A i \in 1..Len(sent) : /\ Proper(Mine, sent[i].text) /\ Complete(Mine, sent[i].text)
                             /\ i > 1 => Starts(sent[i].text)
  /\ \A i \in 1..Len(jobs) : Readable(Mine, jobs[i].text, "cut" \in odd)

\* The word update comes from an update.
Updating == \E c \in Made : Request(c).op = "update"
HasUpdate(text) == \E i \in 1..Len(text) : text[i] = "update"
Updates ==
  /\ \A i \in 1..Len(sent) : HasUpdate(sent[i].text) => Updating
  /\ \A i \in 1..Len(jobs) : HasUpdate(jobs[i].text) => Updating

\* As long as nothing is cut what was sent is a request, and what was received
\* begins with one.
Whole(m) == \E c \in Made : m = [calls |-> <<c>>, text |-> TextOf(Request(c))]
Begin(m) ==
  /\ Len(m.calls) >= 1
  /\ m.text # <<>> /\ m.text[1] = TextOf(Request(m.calls[1]))[1]
  /\ Len(m.calls) = 1 => m.text = TextOf(Request(m.calls[1]))
Uncut ==
  "cut" \notin odd => /\ \A i \in 1..Len(sent) : Whole(sent[i])
                      /\ \A i \in 1..Len(jobs) : Begin(jobs[i])

\* As long as nothing odd happened there is no more on its way than there are
\* threads that wait for it, and a call is alone or mixed.
Alone(calls) ==
  /\ \A i \in 1..Len(calls) : calls[i] \in mixed \cup Current
  /\ \A c \in Current \ mixed : calls = <<c>>
  /\ Len(calls) <= 1 \/ \A i \in 1..Len(calls) : calls[i] \in mixed
Orderly ==
  odd = {} =>
    /\ conn = {"open", "watched"}
    /\ toClose # Fd
    /\ Len(sent) + Len(jobs) + Len(stream) <= Cardinality(waiting)
    /\ \A c \in Current \ mixed : waiting = {c[1]}
    /\ \A i \in 1..Len(sent) : Alone(sent[i].calls)
    /\ \A i \in 1..Len(jobs) : Alone(jobs[i].calls)
    /\ \A i \in 1..Len(stream) : Alone(stream[i].calls)

\* As long as nothing is cut, who got an answer to an announce is listed.
Heard(r) == \E c \in Made : r.calls = <<c>> /\ Request(c).op = "announce"
Seeds ==
  "cut" \notin odd =>
    /\ \A i \in 1..Len(stream) : Heard(stream[i]) => Library \subseteq SeededByMe
    /\ \A c \in Calls : \A i \in 1..Len(got[c]) : Heard(got[c][i]) => Library \subseteq SeededByMe

SessionInv == Base /\ Texts /\ Updates /\ Uncut /\ Orderly /\ OwnReply /\ Seeds /\ SeededOwn


\* Which calls are made, and what is known of them.
LEMMA CallsMade ==
  ASSUME Base
  PROVE  /\ world \in WorldType
         /\ world.library \in Seq(Keys)
         /\ Made \subseteq Calls /\ Current \subseteq Made
         /\ \A c \in Made : Request(c) \in CallType
         /\ \A u \in waiting : u \in Users /\ <<u, step[u] - 1>> \in Current
         /\ IsFiniteSet(waiting)
<1>1. world \in WorldType /\ world.library \in Seq(Keys)
  BY WorldsAssumption DEF Base, WorldType
<1>2. Made \subseteq Calls
  BY DEF Made
<1>3. \A u \in Users : world.script[u] \in Seq(CallType) /\ Len(world.script[u]) <= Longest
  BY <1>1, WorldsAssumption DEF WorldType, Base
<1>4. ASSUME NEW u \in waiting PROVE u \in Users /\ <<u, step[u] - 1>> \in Made
  <2>1. u \in Users /\ step[u] \in Nat \ {0} /\ step[u] # 1 /\ step[u] <= Len(world.script[u]) + 1
    BY <1>4 DEF Base
  <2>2. step[u] - 1 \in 1..Longest
    <3>1. Len(world.script[u]) \in Nat
      BY <1>3, <2>1, LenProperties
    <3> QED BY <1>3, <2>1, <3>1, UsersAssumption
  <2> QED BY <2>1, <2>2 DEF Made, Calls
<1>5. ASSUME NEW c \in Made PROVE Request(c) \in CallType
  <2>1. c[1] \in Users /\ c[2] \in 1..Longest /\ c[2] < step[c[1]]
    BY <1>5 DEF Made, Calls
  <2>2. step[c[1]] \in Nat /\ step[c[1]] <= Len(world.script[c[1]]) + 1
    BY <2>1 DEF Base
  <2>3. Len(world.script[c[1]]) \in Nat
    BY <1>3, <2>1, LenProperties
  <2>4. c[2] \in 1..Len(world.script[c[1]])
    BY <2>1, <2>2, <2>3
  <2> QED BY <1>3, <2>1, <2>4, ElementOfSeq DEF Request
<1>6. IsFiniteSet(waiting)
  <2>1. waiting \subseteq Users
    BY DEF Base
  <2> QED BY <2>1, UsersAssumption, FS_Subset
<1> QED BY <1>1, <1>2, <1>4, <1>5, <1>6 DEF Current

\* What a call is does not change.
LEMMA SameWorld ==
  ASSUME UNCHANGED world
  PROVE  /\ Mine' = Mine /\ Library' = Library
         /\ \A c : Request(c)' = Request(c)
         /\ \A c : TextOf(c)' = TextOf(c)
         /\ \A r : Heard(r)' <=> (\E c \in Made' : r.calls = <<c>> /\ Request(c).op = "announce")
<1>1. Mine' = Mine /\ Library' = Library
  BY DEF Mine, Library
<1>2. \A c : Request(c)' = Request(c)
  BY DEF Request
<1>3. \A c : TextOf(c)' = TextOf(c)
  BY DEF TextOf
<1> QED BY <1>1, <1>2, <1>3 DEF Heard

LEMMA SameCalls ==
  ASSUME UNCHANGED <<world, step>>
  PROVE  /\ Made' = Made /\ Mine' = Mine /\ Library' = Library
         /\ Updating' <=> Updating
         /\ Requests' = Requests /\ Answers' = Answers
         /\ \A c : Request(c)' = Request(c)
         /\ \A m : Whole(m)' <=> Whole(m)
         /\ \A m : Begin(m)' <=> Begin(m)
         /\ \A r : Heard(r)' <=> Heard(r)
<1>1. Made' = Made
  BY DEF Made
<1>2. Updating' <=> Updating
  BY <1>1, SameWorld DEF Updating
<1>3. Requests' = Requests /\ Answers' = Answers
  BY <1>1 DEF Requests, Answers
<1>4. \A m : Whole(m)' <=> Whole(m)
  BY <1>1, SameWorld DEF Whole
<1>5. \A m : Begin(m)' <=> Begin(m)
  BY <1>1, SameWorld DEF Begin
<1>6. \A r : Heard(r)' <=> Heard(r)
  BY <1>1, SameWorld DEF Heard
<1> QED BY <1>1, <1>2, <1>3, <1>4, <1>5, <1>6, SameWorld

LEMMA SameTables ==
  ASSUME UNCHANGED handlerVars
  PROVE  (ListsInv' <=> ListsInv) /\ SeededByMe' = SeededByMe /\ toClose' = toClose /\ up' = up
<1>1. peers' = peers /\ files' = files /\ errs' = errs /\ toClose' = toClose /\ streak' = streak /\ up' = up
  BY DEF handlerVars
<1> QED BY <1>1 DEF ListsInv, PeersInv, ErrsInv, SeededByMe

\* What may be misread stays so.
LEMMA MisreadGrows ==
  ASSUME Library' = Library, odd \subseteq odd'
  PROVE  Misread \subseteq Misread'
BY DEF Misread

\* A sequence of some is a sequence of more.
LEMMA SeqOfMore ==
  ASSUME NEW S, NEW T, S \subseteq T
  PROVE  Seq(S) \subseteq Seq(T)
<1> SUFFICES ASSUME NEW s \in Seq(S) PROVE s \in Seq(T)
  OBVIOUS
<1>1. s \in [1..Len(s) -> S] /\ Len(s) \in Nat
  BY LenProperties
<1>2. s \in [1..Len(s) -> T]
  BY <1>1
<1> QED BY <1>1, <1>2, SeqDef

LEMMA TypesGrow ==
  ASSUME Made \subseteq Made'
  PROVE  /\ Requests \subseteq Requests' /\ Answers \subseteq Answers'
         /\ Seq(Requests) \subseteq Seq(Requests') /\ Seq(Answers) \subseteq Seq(Answers')
<1>1. Seq(Made) \subseteq Seq(Made')
  BY SeqOfMore
<1>2. Requests \subseteq Requests' /\ Answers \subseteq Answers'
  BY <1>1 DEF Requests, Answers
<1> QED BY <1>2, SeqOfMore

-----------------------------------------------------------------------------
(* The peer keeps the invariant. *)

LEMMA AppendHas ==
  ASSUME NEW S, NEW s \in Seq(S), NEW x \in S
  PROVE  /\ Append(s, x) \in Seq(S) /\ Len(Append(s, x)) = Len(s) + 1 /\ Len(s) \in Nat
         /\ \A i \in 1..Len(Append(s, x)) :
              \/ i \in 1..Len(s) /\ Append(s, x)[i] = s[i]
              \/ i = Len(s) + 1 /\ Append(s, x)[i] = x
<1>1. Len(Append(s, x)) = Len(s) + 1 /\ Len(s) \in Nat /\ Append(s, x) \in Seq(S)
  BY AppendProperties, LenProperties
<1> QED BY <1>1, AppendProperties

\* A call that is made.
LEMMA SendMakes ==
  ASSUME Base, NEW u \in Users, Send(u)
  PROVE  LET c == <<u, step[u]>>
         IN /\ c \in Calls /\ c \in Made' /\ c \notin Made /\ Made' = Made \cup {c}
            /\ Current' = Current \cup {c}
            /\ mixed' = IF waiting = {} THEN mixed ELSE mixed \cup {c} \cup Current
            /\ Cardinality(waiting') = Cardinality(waiting) + 1
<1> DEFINE c == <<u, step[u]>>
<1>1. /\ u \notin waiting /\ waiting' = waiting \cup {u}
      /\ step[u] \in Nat \ {0} /\ step[u] <= Len(world.script[u])
      /\ step' = [step EXCEPT ![u] = @ + 1] /\ step \in [Users -> Nat \ {0}]
      /\ mixed' = IF waiting = {} THEN mixed ELSE mixed \cup {c} \cup Current
  BY DEF Send, Base
<1>2. Len(world.script[u]) <= Longest /\ Len(world.script[u]) \in Nat /\ Longest \in Nat
  <2>1. world.script[u] \in Seq(CallType)
    BY CallsMade DEF WorldType
  <2> QED BY <2>1, WorldsAssumption, UsersAssumption, LenProperties DEF Base
<1>3. step[u] \in 1..Longest
  BY <1>1, <1>2
<1>4. c \in Calls /\ c \notin Made
  BY <1>1, <1>3 DEF Calls, Made
<1>5. step'[u] = step[u] + 1 /\ \A v \in Users : v # u => step'[v] = step[v]
  BY <1>1
<1>6. Made' = Made \cup {c}
  <2>1. ASSUME NEW d \in Calls PROVE d \in Made' <=> d \in Made \cup {c}
    <3>1. d = <<d[1], d[2]>> /\ d[1] \in Users /\ d[2] \in 1..Longest
      BY DEF Calls
    <3>2. CASE d[1] = u
      <4>1. d \in Made <=> d[2] < step[u]
        BY <3>2 DEF Made
      <4>2. d \in Made' <=> d[2] < step[u] + 1
        BY <1>5, <3>2 DEF Made, Calls
      <4>3. d = c <=> d[2] = step[u]
        BY <3>1, <3>2
      <4>4. d[2] \in Nat
        BY <3>1
      <4> QED BY <1>1, <4>1, <4>2, <4>3, <4>4
    <3>3. CASE d[1] # u
      <4>1. d # c
        BY <3>3
      <4> QED BY <1>5, <3>1, <3>3, <4>1 DEF Made, Calls
    <3> QED BY <3>2, <3>3
  <2> QED BY <1>4, <2>1 DEF Made, Calls
<1>7. Current' = Current \cup {c}
  <2>1. Current' = {<<v, step'[v] - 1>> : v \in waiting'}
    BY DEF Current
  <2>2. \A v \in waiting : step'[v] = step[v]
    BY <1>1, <1>5, CallsMade
  <2>3. (step[u] + 1) - 1 = step[u]
    BY <1>1
  <2> QED BY <1>1, <1>5, <2>1, <2>2, <2>3 DEF Current
<1>8. Cardinality(waiting') = Cardinality(waiting) + 1
  BY <1>1, CallsMade, FS_AddElement
<1> QED BY <1>1, <1>4, <1>6, <1>7, <1>8

LEMMA SendKeepsBase ==
  ASSUME Base, NEW u \in Users, Send(u)
  PROVE  /\ Base'
         /\ Request(<<u, step[u]>>) \in CallType
         /\ \/ sent' = sent
            \/ sent' = Append(sent, [calls |-> <<<<u, step[u]>>>>, text |-> TextOf(Request(<<u, step[u]>>))])
<1> DEFINE c == <<u, step[u]>>
           r == [calls |-> <<c>>, text |-> TextOf(Request(c))]
<1>1. /\ UNCHANGED <<handlerVars, world, got, stream, conn, main, jobs, odd>>
      /\ waiting' = waiting \cup {u} /\ step' = [step EXCEPT ![u] = @ + 1]
      /\ sent' = IF "open" \in conn THEN Append(sent, r) ELSE sent
      /\ step[u] <= Len(world.script[u])
  BY DEF Send
<1>2. c \in Made' /\ Made \subseteq Made' /\ Made' = Made \cup {c}
  BY SendMakes
<1>12. Request(c) \in CallType
  <2>1. world.script[u] \in Seq(CallType)
    BY CallsMade DEF WorldType
  <2>2. Len(world.script[u]) \in Nat /\ step[u] \in Nat \ {0}
    BY <2>1, LenProperties DEF Base
  <2>3. step[u] \in 1..Len(world.script[u])
    BY <1>1, <2>2
  <2>4. Request(c) = world.script[u][step[u]]
    BY DEF Request
  <2> QED BY <2>1, <2>3, <2>4, ElementOfSeq
<1>3. r \in Requests'
  <2>2. TextOf(Request(c)) \in Seq(Lexemes)
    BY <1>12, CallsMade, RequestsProper DEF Proper
  <2>3. <<c>> \in Seq(Made')
    BY <1>2
  <2> QED BY <2>2, <2>3 DEF Requests
<1>4. sent' \in Seq(Requests')
  <2>1. sent \in Seq(Requests')
    BY <1>2, TypesGrow DEF Base
  <2> QED BY <1>1, <1>3, <2>1, AppendProperties
<1>5. /\ world' \in Worlds /\ ListsInv' /\ toClose' \in {NoFd, Fd}
      /\ conn' \subseteq {"open", "watched"} /\ main' \in {"select", "top"}
      /\ odd' \subseteq {"cut", "kicked"}
  BY <1>1, SameTables DEF Base
<1>6. /\ step' \in [Users -> Nat \ {0}]
      /\ \A v \in Users : step'[v] <= Len(world'.script[v]) + 1
      /\ waiting' \subseteq {v \in Users : step'[v] # 1}
  <2>1. step \in [Users -> Nat \ {0}] /\ \A v \in Users : step[v] <= Len(world.script[v]) + 1
    BY DEF Base
  <2>2. step'[u] = step[u] + 1 /\ \A v \in Users : v # u => step'[v] = step[v]
    BY <1>1, <2>1
  <2>3. Len(world.script[u]) \in Nat
    <3>1. world.script[u] \in Seq(CallType)
      BY CallsMade DEF WorldType
    <3> QED BY <3>1, LenProperties
  <2>4. step' \in [Users -> Nat \ {0}]
    BY <1>1, <2>1
  <2>5. \A v \in Users : step'[v] <= Len(world'.script[v]) + 1
    BY <1>1, <2>1, <2>2, <2>3
  <2>6. waiting \subseteq {v \in Users : step[v] # 1}
    BY DEF Base
  <2>7. step'[u] # 1
    BY <2>1, <2>2
  <2> QED BY <1>1, <2>2, <2>4, <2>5, <2>6, <2>7
<1>7. /\ got' \in [Calls -> Seq(Answers')] /\ jobs' \in Seq(Requests') /\ stream' \in Seq(Answers')
  <2>1. got \in [Calls -> Seq(Answers')]
    BY <1>2, TypesGrow DEF Base
  <2> QED BY <1>1, <1>2, <2>1, TypesGrow DEF Base
<1>8. \A i \in 1..Len(jobs') : Len(jobs'[i].text) <= world'.limit + 1
  BY <1>1 DEF Base
<1>9. mixed' \subseteq Made'
  BY <1>2, SendMakes, CallsMade DEF Base
<1>10. Calls' = Calls
  BY DEF Calls
<1>11. Base'
  BY <1>4, <1>5, <1>6, <1>7, <1>8, <1>9, <1>10 DEF Base
<1> QED BY <1>1, <1>11, <1>12

LEMMA SendKeeps ==
  ASSUME SessionInv, NEW u \in Users, Send(u)
  PROVE  SessionInv'
<1> USE DEF SessionInv
<1>a. PICK c : c = <<u, step[u]>>
  OBVIOUS
<1>b. PICK r : r = [calls |-> <<c>>, text |-> TextOf(Request(c))]
  OBVIOUS
<1>1. /\ UNCHANGED handlerVars /\ world' = world /\ got' = got /\ stream' = stream /\ conn' = conn
      /\ jobs' = jobs /\ odd' = odd /\ waiting' = waiting \cup {u} /\ u \notin waiting
  BY DEF Send
<1>2. Base' /\ Request(c) \in CallType /\ (sent' = sent \/ sent' = Append(sent, r))
  BY <1>a, <1>b, SendKeepsBase
<1>3. /\ c \in Made' /\ c \notin Made /\ Made \subseteq Made' /\ Made' = Made \cup {c}
      /\ Current' = Current \cup {c} /\ Current \subseteq Current'
      /\ mixed \subseteq mixed' /\ mixed' = IF waiting = {} THEN mixed ELSE mixed \cup {c} \cup Current
      /\ Cardinality(waiting') = Cardinality(waiting) + 1
  BY <1>a, SendMakes
<1>4. /\ Mine' = Mine /\ Library' = Library /\ SeededByMe' = SeededByMe /\ toClose' = toClose
      /\ \A d : Request(d)' = Request(d)
      /\ \A d : TextOf(d)' = TextOf(d)
  BY <1>1, SameTables, SameWorld
<1>5. sent \in Seq(Requests) /\ jobs \in Seq(Requests) /\ stream \in Seq(Answers)
  BY DEF Base
<1>6. /\ Len(sent) \in Nat /\ Len(sent') \in Nat /\ Len(sent') <= Len(sent) + 1
      /\ \A i \in 1..Len(sent') : \/ i \in 1..Len(sent) /\ sent'[i] = sent[i]
                                 \/ sent'[i] = r
  <2>1. CASE sent' = sent
    BY <1>5, <2>1, LenProperties
  <2>2. CASE sent' = Append(sent, r)
    <3>1. sent \in Seq(Requests \cup {r}) /\ r \in Requests \cup {r}
      BY <1>5, SeqOfMore
    <3>2. Len(Append(sent, r)) = Len(sent) + 1 /\ Len(sent) \in Nat
      BY <3>1, AppendHas
    <3>3. \A i \in 1..Len(Append(sent, r)) :
            \/ i \in 1..Len(sent) /\ Append(sent, r)[i] = sent[i]
            \/ Append(sent, r)[i] = r
      BY <3>1, AppendHas
    <3> QED BY <2>2, <3>2, <3>3
  <2> QED BY <1>2, <2>1, <2>2
<1>7. r.calls = <<c>> /\ r.text = TextOf(Request(c))
  BY <1>b
<1>8. Texts'
  <2>1. Proper(Mine, r.text) /\ Complete(Mine, r.text) /\ Starts(r.text)
    BY <1>2, <1>7, CallsMade, RequestsProper
  <2>2. \A i \in 1..Len(sent') :
          /\ Proper(Mine, sent'[i].text) /\ Complete(Mine, sent'[i].text)
          /\ i > 1 => Starts(sent'[i].text)
    BY <1>6, <2>1 DEF Texts
  <2> QED BY <1>1, <1>4, <2>2 DEF Texts
<1>9. Updating => Updating'
  BY <1>3, <1>4 DEF Updating
<1>10. Updates'
  <2>1. HasUpdate(r.text) => Updating'
    <3>1. HasUpdate(r.text) => Request(c).op = "update"
      BY <1>2, <1>7, CallsMade, RequestsProper DEF HasUpdate
    <3> QED BY <1>3, <1>4, <3>1 DEF Updating
  <2> QED BY <1>1, <1>6, <1>9, <2>1 DEF Updates
<1>11. Uncut'
  <2>1. Whole(r)'
    BY <1>b, <1>3, <1>4 DEF Whole
  <2>2. \A m : (Whole(m) => Whole(m)') /\ (Begin(m) => Begin(m)')
    BY <1>3, <1>4 DEF Whole, Begin
  <2>3. "cut" \notin odd => \A i \in 1..Len(sent') : Whole(sent[i])'
    BY <1>6, <2>1, <2>2 DEF Uncut
  <2> QED BY <1>1, <2>2, <2>3 DEF Uncut
<1>12. Orderly'
  <2> SUFFICES ASSUME odd = {} PROVE Orderly'
    BY <1>1 DEF Orderly
  <2>1. Len(sent) + Len(jobs) + Len(stream) <= Cardinality(waiting) /\ Cardinality(waiting) \in Nat
    BY CallsMade, FS_CardinalityType DEF Orderly
  <2>2. Len(jobs) \in Nat /\ Len(stream) \in Nat
    BY <1>5, LenProperties
  <2>3. Len(sent') + Len(jobs') + Len(stream') <= Cardinality(waiting')
    BY <1>1, <1>3, <1>6, <2>1, <2>2
  <2>4. \A d \in Current' \ mixed' : waiting' = {d[1]}
    <3>1. CASE waiting = {}
      <4>1. Current = {}
        BY <3>1 DEF Current
      <4> QED BY <1>a, <1>1, <1>3, <3>1, <4>1
    <3>2. CASE waiting # {}
      BY <1>3, <3>2
    <3> QED BY <3>1, <3>2
  <2>5. \A x : waiting # {} /\ Alone(x) => Alone(x)'
    <3> SUFFICES ASSUME NEW x, waiting # {}, Alone(x) PROVE Alone(x)'
      OBVIOUS
    <3>1. Current' \ mixed' = {} /\ mixed \cup Current \subseteq mixed'
      BY <1>3
    <3> QED BY <3>1 DEF Alone
  <2>6. /\ \A i \in 1..Len(sent') : Alone(sent[i].calls)'
        /\ \A i \in 1..Len(jobs') : Alone(jobs[i].calls)'
        /\ \A i \in 1..Len(stream') : Alone(stream[i].calls)'
    <3>1. waiting = {} => Len(sent) = 0 /\ Len(jobs) = 0 /\ Len(stream) = 0
      BY <1>6, <2>1, <2>2, FS_EmptySet
    <3>2. /\ \A i \in 1..Len(sent) : Alone(sent[i].calls)
          /\ \A i \in 1..Len(jobs) : Alone(jobs[i].calls)
          /\ \A i \in 1..Len(stream) : Alone(stream[i].calls)
      BY DEF Orderly
    <3>3. Alone(r.calls)'
      <4>1. Len(r.calls) = 1 /\ r.calls[1] = c /\ \A i \in 1..Len(r.calls) : r.calls[i] = c
        BY <1>7
      <4>2. Current' \ mixed' \subseteq {c}
        <5>1. waiting = {} => Current = {}
          BY DEF Current
        <5> QED BY <1>3, <5>1
      <4> QED BY <1>3, <1>7, <4>1, <4>2 DEF Alone
    <3>4. \A i \in 1..Len(sent') : Alone(sent[i].calls)'
      BY <1>6, <2>5, <3>1, <3>2, <3>3
    <3>5. \A i \in 1..Len(jobs') : Alone(jobs[i].calls)'
      BY <1>1, <2>2, <2>5, <3>1, <3>2
    <3>6. \A i \in 1..Len(stream') : Alone(stream[i].calls)'
      BY <1>1, <2>2, <2>5, <3>1, <3>2
    <3> QED BY <3>4, <3>5, <3>6
  <2>7. conn' = {"open", "watched"} /\ toClose' # Fd
    BY <1>1, <1>4 DEF Orderly
  <2> QED BY <2>3, <2>4, <2>6, <2>7 DEF Orderly
<1>13. OwnReply'
  <2>1. Ended' \subseteq Ended
    BY <1>3 DEF Ended
  <2> QED BY <1>1, <1>3, <2>1 DEF OwnReply
<1>14. Seeds'
  <2>1. ASSUME NEW x \in Answers PROVE Heard(x)' => Heard(x)
    <3>1. x.calls # <<c>>
      <4>1. x.calls \in Seq(Made) /\ Len(<<c>>) = 1 /\ <<c>>[1] = c
        BY DEF Answers
      <4>2. Len(x.calls) \in Nat /\ \A i \in 1..Len(x.calls) : x.calls[i] \in Made
        BY <4>1, ElementOfSeq, LenProperties
      <4>3. SUFFICES ASSUME x.calls = <<c>> PROVE FALSE
        OBVIOUS
      <4> QED BY <1>3, <4>1, <4>2, <4>3
    <3> QED BY <1>3, <1>4, <3>1 DEF Heard
  <2>2. /\ \A i \in 1..Len(stream) : stream[i] \in Answers
        /\ \A d \in Calls : \A i \in 1..Len(got[d]) : got[d][i] \in Answers
    <3>1. \A d \in Calls : got[d] \in Seq(Answers)
      BY DEF Base
    <3> QED BY <1>5, <3>1, ElementOfSeq
  <2>3. Calls' = Calls
    BY DEF Calls
  <2> QED BY <1>1, <1>3, <1>4, <2>1, <2>2, <2>3 DEF Seeds
<1>15. SeededOwn'
  <2>1. Misread \subseteq Misread'
    BY <1>1, <1>4, MisreadGrows
  <2> QED BY <1>1, <1>3, <1>4, <2>1 DEF SeededOwn
<1> QED BY <1>2, <1>8, <1>10, <1>11, <1>12, <1>13, <1>14, <1>15

\* What is taken of a sequence, and what is left.
LEMMA SplitIs ==
  ASSUME NEW S, NEW s \in Seq(S), NEW n \in 1..Len(s)
  PROVE  /\ SubSeq(s, n + 1, Len(s)) \in Seq(S)
         /\ Len(SubSeq(s, n + 1, Len(s))) = Len(s) - n /\ Len(s) \in Nat
         /\ \A i \in 1..(Len(s) - n) : SubSeq(s, n + 1, Len(s))[i] = s[n + i] /\ n + i \in 1..Len(s)
         /\ SubSeq(s, 1, n) \in Seq(S) /\ Len(SubSeq(s, 1, n)) = n
         /\ \A i \in 1..n : SubSeq(s, 1, n)[i] = s[i] /\ i \in 1..Len(s)
<1>1. Len(s) \in Nat /\ \A i \in 1..Len(s) : s[i] \in S
  BY LenProperties, ElementOfSeq
<1>2. /\ SubSeq(s, n + 1, Len(s)) \in Seq(S)
      /\ Len(SubSeq(s, n + 1, Len(s))) = Len(s) - n
      /\ \A i \in 1..(Len(s) - n) : SubSeq(s, n + 1, Len(s))[i] = s[n + i]
  BY <1>1
<1>3. /\ SubSeq(s, 1, n) \in Seq(S) /\ Len(SubSeq(s, 1, n)) = n
      /\ \A i \in 1..n : SubSeq(s, 1, n)[i] = s[i]
  BY <1>1
<1>4. /\ \A i \in 1..(Len(s) - n) : n + i \in 1..Len(s)
      /\ \A i \in 1..n : i \in 1..Len(s)
  BY <1>1
<1> QED BY <1>1, <1>2, <1>3, <1>4, Zenon

\* A call that returns.
LEMMA ReturnEnds ==
  ASSUME Base, NEW u \in waiting, NEW answer \in Seq(Answers), Return(u, answer),
         UNCHANGED <<handlerVars, world, step, mixed, sent, conn, main, jobs, odd>>,
         stream' \in Seq(Answers)
  PROVE  LET c == <<u, step[u] - 1>>
         IN /\ Base'
            /\ c \in Current /\ c \in Calls /\ c[1] = u /\ Current' = Current \ {c} /\ Ended' = Ended \cup {c}
            /\ waiting' = waiting \ {u} /\ Cardinality(waiting') = Cardinality(waiting) - 1
            /\ got'[c] = answer /\ \A d \in Calls : d # c => got'[d] = got[d]
<1> DEFINE c == <<u, step[u] - 1>>
<1>1. /\ waiting' = waiting \ {u} /\ got' = [got EXCEPT ![c] = answer]
      /\ got \in [Calls -> Seq(Answers)]
  BY DEF Return, Base
<1>2. c \in Current /\ c \in Calls /\ c \in Made
  BY CallsMade
<1>3. got' \in [Calls -> Seq(Answers)] /\ got'[c] = answer /\ \A d \in Calls : d # c => got'[d] = got[d]
  BY <1>1, <1>2
<1>4. Current' = Current \ {c}
  <2>1. \A v \in waiting : v # u => <<v, step[v] - 1>> # c
    OBVIOUS
  <2>2. Current' = {<<v, step[v] - 1>> : v \in waiting'}
    BY DEF Current
  <2> QED BY <1>1, <2>1, <2>2 DEF Current
<1>5. Made' = Made /\ Requests' = Requests /\ Answers' = Answers
  BY SameCalls
<1>6. Ended' = Ended \cup {c}
  BY <1>2, <1>4, <1>5 DEF Ended
<1>7. Cardinality(waiting') = Cardinality(waiting) - 1
  BY <1>1, CallsMade, FS_RemoveElement
<1>8. Base'
  <2>1. /\ world' \in Worlds /\ ListsInv' /\ toClose' \in {NoFd, Fd}
        /\ conn' \subseteq {"open", "watched"} /\ main' \in {"select", "top"}
        /\ odd' \subseteq {"cut", "kicked"}
    BY SameTables DEF Base
  <2>2. /\ step' \in [Users -> Nat \ {0}]
        /\ \A v \in Users : step'[v] <= Len(world'.script[v]) + 1
        /\ waiting' \subseteq {v \in Users : step'[v] # 1}
    BY <1>1 DEF Base
  <2>3. /\ got' \in [Calls -> Seq(Answers')] /\ sent' \in Seq(Requests') /\ jobs' \in Seq(Requests')
        /\ stream' \in Seq(Answers')
    BY <1>3, <1>5 DEF Base
  <2>4. (\A i \in 1..Len(jobs') : Len(jobs'[i].text) <= world'.limit + 1) /\ mixed' \subseteq Made'
    BY <1>5 DEF Base
  <2>5. Calls' = Calls
    BY DEF Calls
  <2> QED BY <2>1, <2>2, <2>3, <2>4, <2>5 DEF Base
<1> QED BY <1>1, <1>2, <1>3, <1>4, <1>6, <1>7, <1>8

\* What a read does not touch.
LEMMA PeerLeaves ==
  ASSUME SessionInv, UNCHANGED <<handlerVars, world, step, mixed, sent, conn, main, jobs, odd>>
  PROVE  Texts' /\ Updates' /\ Uncut' /\ SeededOwn'
<1> USE DEF SessionInv
<1>1. Texts'
  BY SameCalls DEF Texts
<1>2. Updates'
  BY SameCalls DEF Updates, HasUpdate
<1>3. Uncut'
  BY SameCalls DEF Uncut
<1>4. SeededOwn'
  <2>1. Misread \subseteq Misread'
    BY SameCalls, MisreadGrows
  <2> QED BY SameCalls, SameTables, <2>1 DEF SeededOwn
<1> QED BY <1>1, <1>2, <1>3, <1>4

LEMMA ReadKeeps ==
  ASSUME SessionInv, NEW u \in Users, Read(u)
  PROVE  SessionInv'
<1> USE DEF SessionInv
<1>1. /\ u \in waiting
      /\ UNCHANGED <<handlerVars, world, step, mixed, sent, conn, main, jobs, odd>>
  BY DEF Read
<1>2. PICK n \in 1..Len(stream) : /\ stream' = SubSeq(stream, n + 1, Len(stream))
                                  /\ Return(u, SubSeq(stream, 1, n))
  BY DEF Read
<1>3. PICK answer : answer = SubSeq(stream, 1, n)
  OBVIOUS
<1>4. stream \in Seq(Answers)
  BY DEF Base
<1>5. /\ stream' \in Seq(Answers) /\ Len(stream') = Len(stream) - n /\ Len(stream) \in Nat
      /\ \A i \in 1..Len(stream') : stream'[i] = stream[n + i] /\ n + i \in 1..Len(stream)
      /\ answer \in Seq(Answers) /\ Len(answer) = n
      /\ \A i \in 1..n : answer[i] = stream[i] /\ i \in 1..Len(stream)
  BY <1>2, <1>3, <1>4, SplitIs
<1>6. PICK c : c = <<u, step[u] - 1>>
  OBVIOUS
<1>7. /\ Base'
      /\ c \in Current /\ c \in Calls /\ c[1] = u /\ Current' = Current \ {c} /\ Ended' = Ended \cup {c}
      /\ waiting' = waiting \ {u} /\ Cardinality(waiting') = Cardinality(waiting) - 1
      /\ got'[c] = answer /\ \A d \in Calls : d # c => got'[d] = got[d]
  <2>1. Return(u, answer)
    BY <1>2, <1>3
  <2> QED BY <1>1, <1>5, <1>6, <2>1, ReturnEnds
<1>8. /\ Len(sent) \in Nat /\ Len(jobs) \in Nat /\ Cardinality(waiting) \in Nat
  <2>1. sent \in Seq(Requests) /\ jobs \in Seq(Requests)
    BY DEF Base
  <2> QED BY <2>1, CallsMade, FS_CardinalityType, LenProperties
\* Whose read no other one waits with is the only one, and so is its answer.
<1>9. ASSUME odd = {}, c \notin mixed
      PROVE  n = 1 /\ Len(sent) = 0 /\ Len(jobs) = 0 /\ Len(stream) = 1
  <2>1. waiting = {u}
    BY <1>7, <1>9 DEF Orderly
  <2>2. Cardinality(waiting) = 1
    BY <2>1, FS_Singleton
  <2>3. Len(sent) + Len(jobs) + Len(stream) <= 1
    BY <1>9, <2>2 DEF Orderly
  <2>4. n \in 1..Len(stream) /\ Len(stream) \in Nat
    BY <1>5
  <2>5. \A a, b, s \in Nat : \A m \in 1..s : a + b + s <= 1 => m = 1 /\ a = 0 /\ b = 0 /\ s = 1
    OBVIOUS
  <2> QED BY <1>8, <2>3, <2>4, <2>5, Zenon
<1>10. Orderly'
  <2> SUFFICES ASSUME odd = {} PROVE Orderly'
    BY <1>1 DEF Orderly
  <2>1. Len(sent') + Len(jobs') + Len(stream') <= Cardinality(waiting')
    <3>1. Len(sent) + Len(jobs) + Len(stream) <= Cardinality(waiting)
      BY DEF Orderly
    <3>2. Len(sent') = Len(sent) /\ Len(jobs') = Len(jobs)
      BY <1>1
    <3>3. n \in 1..Len(stream) /\ Len(stream) \in Nat /\ Len(stream') = Len(stream) - n
      BY <1>5
    <3>4. Cardinality(waiting') = Cardinality(waiting) - 1
      BY <1>7
    <3> QED BY <1>8, <3>1, <3>2, <3>3, <3>4
  <2>2. \A d \in Current' \ mixed' : waiting' = {d[1]}
    <3>1. ASSUME NEW d \in Current' \ mixed' PROVE FALSE
      <4>1. d \in Current \ mixed /\ d # c
        BY <1>1, <1>7, <3>1
      <4>2. waiting = {d[1]}
        BY <4>1 DEF Orderly
      <4>3. PICK v \in waiting : d = <<v, step[v] - 1>>
        BY <4>1 DEF Current
      <4> QED BY <1>1, <1>6, <4>1, <4>2, <4>3
    <3> QED BY <3>1
  <2>3. c \in mixed => \A x : Alone(x) => Alone(x)'
    BY <1>1, <1>7 DEF Alone
  <2>4. \A i \in 1..Len(sent') : Alone(sent[i].calls)'
    <3>1. \A i \in 1..Len(sent) : Alone(sent[i].calls)
      BY DEF Orderly
    <3> QED BY <1>1, <1>8, <1>9, <2>3, <3>1
  <2>5. \A i \in 1..Len(jobs') : Alone(jobs[i].calls)'
    <3>1. \A i \in 1..Len(jobs) : Alone(jobs[i].calls)
      BY DEF Orderly
    <3> QED BY <1>1, <1>8, <1>9, <2>3, <3>1
  <2>6. \A i \in 1..Len(stream') : Alone(stream[i].calls)'
    <3>1. \A i \in 1..Len(stream) : Alone(stream[i].calls)
      BY DEF Orderly
    <3>2. c \notin mixed => Len(stream') = 0
      BY <1>5, <1>9
    <3> QED BY <1>5, <2>3, <3>1, <3>2
  <2>7. conn' = {"open", "watched"} /\ toClose' # Fd
    BY <1>1, SameTables DEF Orderly
  <2> QED BY <2>1, <2>2, <2>4, <2>5, <2>6, <2>7 DEF Orderly
<1>11. OwnReply'
  <2> SUFFICES ASSUME odd = {}, NEW d \in Ended' \ mixed'
               PROVE  Len(got'[d]) = 1 /\ got'[d][1].calls = <<d>>
    BY <1>1 DEF OwnReply
  <2>1. CASE d = c
    <3>1. n = 1 /\ c \in Current \ mixed
      BY <1>1, <1>7, <1>9, <2>1
    <3>2. Alone(stream[1].calls)
      BY <1>5, <3>1 DEF Orderly
    <3>3. stream[1].calls = <<c>>
      BY <3>1, <3>2 DEF Alone
    <3> QED BY <1>5, <1>7, <2>1, <3>1, <3>3
  <2>2. CASE d # c
    <3>1. d \in Ended \ mixed /\ d \in Calls
      BY <1>1, <1>7, <2>2, CallsMade DEF Ended
    <3> QED BY <1>7, <2>2, <3>1 DEF OwnReply
  <2> QED BY <2>1, <2>2
<1>12. Seeds'
  <2> SUFFICES ASSUME "cut" \notin odd PROVE Seeds'
    BY <1>1 DEF Seeds
  <2>1. /\ \A i \in 1..Len(stream) : Heard(stream[i]) => Library \subseteq SeededByMe
        /\ \A d \in Calls : \A i \in 1..Len(got[d]) : Heard(got[d][i]) => Library \subseteq SeededByMe
    BY DEF Seeds
  <2>2. Library' = Library /\ SeededByMe' = SeededByMe /\ \A r : Heard(r)' <=> Heard(r)
    BY <1>1, SameCalls, SameTables
  <2>3. \A i \in 1..Len(stream') : Heard(stream[i])' => Library \subseteq SeededByMe
    BY <1>5, <2>1, <2>2
  <2>4. \A d \in Calls : \A i \in 1..Len(got'[d]) : Heard(got[d][i])' => Library \subseteq SeededByMe
    <3>1. \A i \in 1..Len(answer) : Heard(answer[i]) => Library \subseteq SeededByMe
      BY <1>5, <2>1
    <3> SUFFICES ASSUME NEW d \in Calls, NEW i \in 1..Len(got'[d]), Heard(got[d][i])'
                 PROVE  Library \subseteq SeededByMe
      OBVIOUS
    <3>2. Heard(got'[d][i])
      BY <2>2
    <3> QED BY <1>7, <2>1, <3>1, <3>2
  <2>5. Calls' = Calls
    BY DEF Calls
  <2> QED BY <2>2, <2>3, <2>4, <2>5 DEF Seeds
<1> QED BY <1>1, <1>7, <1>10, <1>11, <1>12, PeerLeaves

LEMMA ReadEndKeeps ==
  ASSUME SessionInv, NEW u \in Users, ReadEnd(u)
  PROVE  SessionInv'
<1> USE DEF SessionInv
<1>1. /\ u \in waiting /\ "open" \notin conn /\ Return(u, <<>>)
      /\ UNCHANGED <<handlerVars, world, step, mixed, sent, conn, main, jobs, odd>>
      /\ stream' = stream
  BY DEF ReadEnd, netVars
<1>2. PICK c : c = <<u, step[u] - 1>>
  OBVIOUS
<1>3. PICK answer : answer = <<>>
  OBVIOUS
<1>4. /\ Base' /\ c \in Calls
      /\ got'[c] = <<>> /\ \A d \in Calls : d # c => got'[d] = got[d]
  <2>1. Return(u, answer) /\ answer \in Seq(Answers) /\ stream' \in Seq(Answers)
    BY <1>1, <1>3 DEF Base
  <2>2. LET d == <<u, step[u] - 1>>
        IN Base' /\ d \in Calls /\ got'[d] = answer /\ \A e \in Calls : e # d => got'[e] = got[e]
    BY <1>1, <2>1, ReturnEnds
  <2> QED BY <1>2, <1>3, <2>2
<1>5. odd # {} /\ odd' = odd
  BY <1>1 DEF Orderly
<1>6. Orderly' /\ OwnReply'
  BY <1>5 DEF Orderly, OwnReply
<1>7. Seeds'
  <2>1. Library' = Library /\ SeededByMe' = SeededByMe /\ \A r : Heard(r)' <=> Heard(r)
    BY <1>1, SameCalls, SameTables
  <2>2. Calls' = Calls
    BY DEF Calls
  <2>3. Len(got'[c]) = 0
    BY <1>4
  <2>4. "cut" \notin odd => \A d \in Calls : \A i \in 1..Len(got'[d]) : Heard(got[d][i])' => Library \subseteq SeededByMe
    <3> SUFFICES ASSUME "cut" \notin odd, NEW d \in Calls, NEW i \in 1..Len(got'[d]), Heard(got[d][i])'
                 PROVE  Library \subseteq SeededByMe
      OBVIOUS
    <3>1. Heard(got'[d][i])
      BY <2>1
    <3> QED BY <1>4, <2>3, <3>1 DEF Seeds
  <2>5. "cut" \notin odd => \A i \in 1..Len(stream') : Heard(stream[i])' => Library \subseteq SeededByMe
    BY <1>1, <2>1 DEF Seeds
  <2> QED BY <1>5, <2>1, <2>2, <2>4, <2>5 DEF Seeds
<1> QED BY <1>1, <1>4, <1>6, <1>7, PeerLeaves

-----------------------------------------------------------------------------
(* recv keeps the invariant. *)

LEMMA FunctionIsSeq ==
  ASSUME NEW S, NEW n \in Nat, NEW f \in [1..n -> S]
  PROVE  f \in Seq(S) /\ Len(f) = n /\ (n >= 1 => f # <<>>)
<1>1. f \in Seq(S) /\ Len(f) = n
  BY SeqDef
<1> QED BY <1>1, EmptySeq

LEMMA JoinedIs ==
  ASSUME Base, Texts, NEW n \in 1..Len(sent)
  PROVE  LET all == Joined(n)
         IN /\ all = [calls |-> all.calls, text |-> all.text]
            /\ all.calls \in Seq(Made) /\ Proper(Mine, all.text) /\ Complete(Mine, all.text)
            /\ \A x \in 1..Len(all.calls) :
                 \E i \in 1..n : \E y \in 1..Len(sent[i].calls) : all.calls[x] = sent[i].calls[y]
            /\ \A x \in 1..Len(all.text) :
                 \E i \in 1..n : \E y \in 1..Len(sent[i].text) : all.text[x] = sent[i].text[y]
            /\ \A x \in 1..Len(sent[1].calls) : all.calls[x] = sent[1].calls[x]
            /\ all.text[1] = sent[1].text[1]
            /\ n = 1 => all.calls = sent[1].calls /\ all.text = sent[1].text
            /\ (\A i \in 1..n : sent[i].calls # <<>>) => n <= Len(all.calls)
<1>1. /\ sent \in Seq(Requests) /\ Len(sent) \in Nat /\ n \in Nat /\ n >= 1
      /\ \A i \in 1..n : i \in 1..Len(sent) /\ sent[i] \in Requests
  <2>1. sent \in Seq(Requests)
    BY DEF Base
  <2>2. Len(sent) \in Nat
    BY <2>1, LenProperties
  <2> QED BY <2>1, <2>2, ElementOfSeq
<1>2. PICK cs : cs = [i \in 1..n |-> sent[i].calls]
  OBVIOUS
<1>3. PICK ts : ts = [i \in 1..n |-> sent[i].text]
  OBVIOUS
<1>4. PICK all : all = [calls |-> FlattenSeq(cs), text |-> FlattenSeq(ts)]
  OBVIOUS
<1>5. all = Joined(n) /\ all.calls = FlattenSeq(cs) /\ all.text = FlattenSeq(ts)
  BY <1>2, <1>3, <1>4 DEF Joined
<1>6. /\ cs \in Seq(Seq(Made)) /\ Len(cs) = n /\ cs # <<>> /\ \A i \in 1..n : cs[i] = sent[i].calls
  <2>1. \A i \in 1..n : sent[i].calls \in Seq(Made)
    BY <1>1 DEF Requests
  <2>2. cs \in [1..n -> Seq(Made)] /\ \A i \in 1..n : cs[i] = sent[i].calls
    BY <1>2, <2>1
  <2> QED BY <1>1, <2>2, FunctionIsSeq
<1>7. /\ ts \in Seq(Seq(Lexemes)) /\ Len(ts) = n /\ ts # <<>> /\ \A i \in 1..n : ts[i] = sent[i].text
  <2>1. \A i \in 1..n : sent[i].text \in Seq(Lexemes)
    BY <1>1 DEF Requests
  <2>2. ts \in [1..n -> Seq(Lexemes)] /\ \A i \in 1..n : ts[i] = sent[i].text
    BY <1>3, <2>1
  <2> QED BY <1>1, <2>2, FunctionIsSeq
<1>a. PICK flat : flat = all.calls
  OBVIOUS
<1>b. PICK joined : joined = all.text
  OBVIOUS
<1>8. /\ flat \in Seq(Made)
      /\ \A x \in 1..Len(flat) : \E i \in 1..Len(cs) : \E y \in 1..Len(cs[i]) : flat[x] = cs[i][y]
      /\ \A x \in 1..Len(cs[1]) : flat[x] = cs[1][x]
      /\ Len(cs) = 1 => flat = cs[1]
      /\ (\A i \in 1..Len(cs) : cs[i] # <<>>) => Len(cs) <= Len(flat)
  <2>1. flat = FlattenSeq(cs)
    BY <1>5, <1>a
  <2> QED BY <1>6, <2>1, FlatHas
<1>9. /\ \A x \in 1..Len(joined) : \E i \in 1..Len(ts) : \E y \in 1..Len(ts[i]) : joined[x] = ts[i][y]
      /\ \A x \in 1..Len(ts[1]) : joined[x] = ts[1][x]
      /\ Len(ts) = 1 => joined = ts[1]
  <2>1. joined = FlattenSeq(ts)
    BY <1>5, <1>b
  <2> QED BY <1>7, <2>1, FlatHas
<1>10. Mine \in Seq(Lexemes) /\ Mine # <<>>
  <2>1. Mine \in Seq(Lexemes) /\ Len(Mine) = Len(Listed(world.library)) + 11
        /\ Len(Listed(world.library)) \in Nat
    BY CallsMade, AnnounceIs, Zenon DEF Mine
  <2>2. Len(Mine) # 0
    BY <2>1
  <2> QED BY <2>1, <2>2
<1>11. \A i \in 1..Len(ts) : /\ Proper(Mine, ts[i]) /\ Complete(Mine, ts[i])
                             /\ i > 1 => Starts(ts[i])
  BY <1>1, <1>7 DEF Texts
<1>12. Proper(Mine, all.text) /\ Complete(Mine, all.text)
  BY <1>5, <1>7, <1>10, <1>11, JoinProper
<1>13. 1 \in 1..n /\ 1 \in 1..Len(ts[1])
  <2>1. ts[1] \in Seq(Lexemes) /\ ts[1] # <<>>
    BY <1>1, <1>7, <1>11 DEF Complete, Proper
  <2>2. Len(ts[1]) \in Nat /\ Len(ts[1]) # 0
    BY <2>1, LenProperties, EmptySeq
  <2> QED BY <1>1, <2>2
<1>14. /\ \A x \in 1..Len(flat) :
            \E i \in 1..n : \E y \in 1..Len(sent[i].calls) : flat[x] = sent[i].calls[y]
       /\ \A x \in 1..Len(sent[1].calls) : flat[x] = sent[1].calls[x]
       /\ n = 1 => flat = sent[1].calls
       /\ (\A i \in 1..n : sent[i].calls # <<>>) => n <= Len(flat)
  <2>1. \A x \in 1..Len(flat) :
          \E i \in 1..n : \E y \in 1..Len(sent[i].calls) : flat[x] = sent[i].calls[y]
    <3> SUFFICES ASSUME NEW x \in 1..Len(flat)
                 PROVE  \E i \in 1..n : \E y \in 1..Len(sent[i].calls) : flat[x] = sent[i].calls[y]
      OBVIOUS
    <3>1. PICK i \in 1..Len(cs) : \E y \in 1..Len(cs[i]) : flat[x] = cs[i][y]
      BY <1>8
    <3>2. i \in 1..n /\ cs[i] = sent[i].calls
      BY <1>6, <3>1
    <3>3. \E y \in 1..Len(sent[i].calls) : flat[x] = sent[i].calls[y]
      BY <3>1, <3>2
    <3> QED BY <3>2, <3>3
  <2>2. \A x \in 1..Len(sent[1].calls) : flat[x] = sent[1].calls[x]
    BY <1>6, <1>8, <1>13
  <2>3. n = 1 => flat = sent[1].calls
    BY <1>6, <1>8, <1>13
  <2>4. (\A i \in 1..n : sent[i].calls # <<>>) => n <= Len(flat)
    BY <1>6, <1>8
  <2> QED BY <2>1, <2>2, <2>3, <2>4
<1>15. /\ \A x \in 1..Len(joined) :
            \E i \in 1..n : \E y \in 1..Len(sent[i].text) : joined[x] = sent[i].text[y]
       /\ joined[1] = sent[1].text[1]
       /\ n = 1 => joined = sent[1].text
  <2>1. \A x \in 1..Len(joined) :
          \E i \in 1..n : \E y \in 1..Len(sent[i].text) : joined[x] = sent[i].text[y]
    <3> SUFFICES ASSUME NEW x \in 1..Len(joined)
                 PROVE  \E i \in 1..n : \E y \in 1..Len(sent[i].text) : joined[x] = sent[i].text[y]
      OBVIOUS
    <3>1. PICK i \in 1..Len(ts) : \E y \in 1..Len(ts[i]) : joined[x] = ts[i][y]
      BY <1>9
    <3>2. i \in 1..n /\ ts[i] = sent[i].text
      BY <1>7, <3>1
    <3>3. \E y \in 1..Len(sent[i].text) : joined[x] = sent[i].text[y]
      BY <3>1, <3>2
    <3> QED BY <3>2, <3>3
  <2>2. joined[1] = sent[1].text[1]
    BY <1>7, <1>9, <1>13
  <2>3. n = 1 => joined = sent[1].text
    BY <1>7, <1>9, <1>13
  <2> QED BY <2>1, <2>2, <2>3
<1>16. all = [calls |-> all.calls, text |-> all.text]
  BY <1>4
<1> QED BY <1>5, <1>a, <1>b, <1>8, <1>12, <1>14, <1>15, <1>16

\* A piece of a lexeme in front of what follows it.
LEMMA PartBefore ==
  ASSUME NEW A, Len(A) \in Nat, NEW e, Proper(A, e), Complete(A, e), NEW t, t = <<"part">> \o e
  PROVE  /\ Proper(A, t) /\ Complete(A, t)
         /\ HasUpdate(t) => HasUpdate(e)
<1> DEFINE n == Len(A)
           m == Len(e)
<1>1. /\ e \in Seq(Lexemes) /\ e # <<>>
      /\ \A i \in 1..(m - 1) : e[i] = "[" => e[i + 1] \in {"]", "name", "key="}
      /\ \A i \in 1..m : e[i] = "announce" =>
           \A j \in 0..(n + 1) : i + j <= m => Behind(A, j, e[i + j])
      /\ e[m] = "\n"
      /\ \A i \in 1..m : e[i] = "announce" => i + n - 1 <= m
  BY DEF Proper, Complete
<1>2. n \in Nat /\ m \in Nat
  BY <1>1, LenProperties
<1> HIDE DEF n, m
<1>3. m # 0
  BY <1>1, EmptySeq DEF m
<1>4. /\ t \in Seq(Lexemes) /\ Len(t) = m + 1 /\ t[1] = "part"
      /\ \A i \in 1..(m + 1) : i # 1 => t[i] = e[i - 1]
  <2>1. "part" \in Lexemes
    BY WordsKnown DEF Words
  <2>2. PICK one : one = <<"part">>
    OBVIOUS
  <2>3. one \in Seq(Lexemes) /\ Len(one) = 1 /\ one[1] = "part"
    BY <2>1, <2>2
  <2>4. /\ one \o e \in Seq(Lexemes) /\ Len(one \o e) = 1 + m
        /\ \A i \in 1..(1 + m) : (one \o e)[i] = IF i <= 1 THEN one[i] ELSE e[i - 1]
    <3>1. e \in Seq(Lexemes)
      BY <1>1
    <3>2. /\ one \o e \in Seq(Lexemes) /\ Len(one \o e) = Len(one) + Len(e)
          /\ \A i \in 1..(Len(one) + Len(e)) :
               (one \o e)[i] = IF i <= Len(one) THEN one[i] ELSE e[i - Len(one)]
      BY <2>3, <3>1, ConcatProperties, Zenon
    <3> QED BY <2>3, <3>2 DEF m
  <2>5. t = one \o e /\ 1 + m = m + 1 /\ 1 \in 1..(1 + m) /\ \A i \in 1..(m + 1) : i # 1 => ~(i <= 1)
    BY <1>2, <2>2
  <2> QED BY <2>3, <2>4, <2>5
<1>5. \A i \in 1..(m + 1) : i # 1 => i - 1 \in 1..m /\ t[i] = e[i - 1]
  <2>1. \A i \in 1..(m + 1) : i # 1 => i - 1 \in 1..m
    BY <1>2
  <2> QED BY <1>4, <2>1
<1>6. "part" # "[" /\ "part" # "announce" /\ "part" # "update"
  OBVIOUS
<1>7. ASSUME NEW i \in 1..(Len(t) - 1), t[i] = "[" PROVE t[i + 1] \in {"]", "name", "key="}
  <2>1. i # 1
    BY <1>4, <1>6, <1>7
  <2>2. Len(t) = m + 1
    BY <1>4
  <2>3. /\ i \in 1..(m + 1) /\ i + 1 \in 1..(m + 1) /\ i + 1 # 1
        /\ i - 1 \in 1..(m - 1) /\ (i + 1) - 1 = (i - 1) + 1
    BY <1>2, <2>1, <2>2
  <2>4. t[i] = e[i - 1] /\ t[i + 1] = e[(i - 1) + 1]
    BY <1>5, <2>1, <2>3
  <2> QED BY <1>1, <1>7, <2>3, <2>4
<1>8. ASSUME NEW i \in 1..Len(t), t[i] = "announce", NEW j \in 0..(n + 1), i + j <= Len(t)
      PROVE  Behind(A, j, t[i + j])
  <2>1. i # 1
    BY <1>4, <1>6, <1>8
  <2>2. Len(t) = m + 1 /\ i + j <= m + 1
    BY <1>4, <1>8
  <2>3. /\ i \in 1..(m + 1) /\ i + j \in 1..(m + 1) /\ i + j # 1
        /\ i - 1 \in 1..m /\ (i + j) - 1 = (i - 1) + j /\ (i - 1) + j <= m
    BY <1>2, <2>1, <2>2
  <2>4. t[i] = e[i - 1] /\ t[i + j] = e[(i - 1) + j]
    BY <1>5, <2>1, <2>3
  <2> QED BY <1>1, <1>8, <2>3, <2>4
<1>9. Proper(A, t)
  BY <1>4, <1>7, <1>8 DEF Proper, n
<1>10. Complete(A, t)
  <2>1. m + 1 \in 1..(m + 1) /\ m + 1 # 1 /\ (m + 1) - 1 = m /\ m + 1 # 0
    BY <1>2, <1>3
  <2>2. t[Len(t)] = e[m]
    BY <1>4, <1>5, <2>1
  <2>3. t # <<>>
    BY <1>4, <2>1, EmptySeq
  <2>4. ASSUME NEW i \in 1..Len(t), t[i] = "announce" PROVE i + n - 1 <= Len(t)
    <3>1. i # 1
      BY <1>4, <1>6, <2>4
    <3>2. Len(t) = m + 1 /\ i \in 1..(m + 1)
      BY <1>4
    <3>3. i - 1 \in 1..m /\ e[i - 1] = "announce"
      BY <1>5, <2>4, <3>1, <3>2
    <3>4. (i - 1) + n - 1 <= m
      BY <1>1, <3>3
    <3> QED BY <1>2, <3>2, <3>4
  <2> QED BY <1>1, <2>2, <2>3, <2>4 DEF Complete, n
<1>11. ASSUME HasUpdate(t) PROVE HasUpdate(e)
  <2>1. PICK i \in 1..Len(t) : t[i] = "update"
    BY <1>11 DEF HasUpdate
  <2>2. i \in 1..(m + 1) /\ i # 1
    BY <1>4, <1>6, <2>1
  <2>3. i - 1 \in 1..m /\ e[i - 1] = "update"
    BY <1>5, <2>1, <2>2
  <2> QED BY <2>3 DEF HasUpdate, m
<1> QED BY <1>9, <1>10, <1>11

\* A piece of a text.
LEMMA StretchUpdate ==
  ASSUME NEW s \in Seq(Lexemes), NEW k \in Nat \ {0}, NEW l \in Nat, l <= Len(s),
         NEW t, \A i \in 1..Len(t) : t[i] = s[k + i - 1], Len(t) = IF k <= l THEN l - k + 1 ELSE 0,
         HasUpdate(t)
  PROVE  HasUpdate(s)
<1>1. PICK i \in 1..Len(t) : t[i] = "update"
  BY DEF HasUpdate
<1>2. Len(s) \in Nat
  BY LenProperties
<1>3. k + i - 1 \in 1..Len(s)
  BY <1>2
<1> QED BY <1>1, <1>3 DEF HasUpdate

\* The two pieces of a text that is cut.
CutWell(text, front, back) ==
  /\ front \in Seq(Lexemes) /\ Len(front) <= world.limit + 1 /\ Readable(Mine, front, TRUE)
  /\ Proper(Mine, back) /\ Complete(Mine, back)
  /\ HasUpdate(front) \/ HasUpdate(back) => HasUpdate(text)

LEMMA CutIs ==
  ASSUME world \in WorldType, NEW text, Proper(Mine, text), Complete(Mine, text),
         Len(text) > world.limit, NEW cut \in Cuts(text)
  PROVE  CutWell(text, cut[1], cut[2])
<1> DEFINE l == world.limit
           m == Len(text)
           front == SubSeq(text, 1, l)
           more == SubSeq(text, 1, l + 1)
           back == SubSeq(text, l + 1, m)
           behind == SubSeq(text, l + 2, m)
<1>1. l \in Nat \ {0} /\ text \in Seq(Lexemes) /\ m \in Nat /\ text[m] = "\n"
  <2>1. l \in Nat \ {0}
    BY DEF WorldType
  <2>2. text \in Seq(Lexemes) /\ text[m] = "\n"
    BY DEF Proper, Complete
  <2> QED BY <2>1, <2>2, LenProperties
<1>2. Len(Mine) \in Nat
  <2>1. world.library \in Seq(Keys)
    BY DEF WorldType
  <2> QED BY <2>1, AnnounceIs, LenProperties DEF Mine
<1>3. m > l
  OBVIOUS
<1>m. PICK u : u = "\n"
  OBVIOUS
<1>n. text[m] = u /\ u \in Short /\ u \in Special
  BY <1>1, <1>m DEF Short, Special
<1> HIDE DEF l
<1>4. /\ Proper(Mine, front) /\ Len(front) = l
      /\ \A i \in 1..l : front[i] = text[i]
      /\ HasUpdate(front) => HasUpdate(text)
  <2>1. l \in Nat /\ l <= Len(text) /\ 1 \in Nat \ {0} /\ 1 <= l
    BY <1>1, <1>3
  <2>2. /\ Proper(Mine, front) /\ Len(front) = IF 1 <= l THEN l - 1 + 1 ELSE 0
        /\ \A i \in 1..Len(front) : front[i] = text[1 + i - 1]
    <3>1. /\ Proper(Mine, SubSeq(text, 1, l))
          /\ Len(SubSeq(text, 1, l)) = IF 1 <= l THEN l - 1 + 1 ELSE 0
          /\ \A i \in 1..Len(SubSeq(text, 1, l)) : SubSeq(text, 1, l)[i] = text[1 + i - 1]
          /\ Complete(Mine, text) /\ l = Len(text) /\ 1 <= l => Complete(Mine, SubSeq(text, 1, l))
      BY <1>2, <2>1, StretchProper, SMTT(60)
    <3> QED BY <2>1, <3>1
  <2> HIDE DEF front
  <2>3. HasUpdate(front) => HasUpdate(text)
    BY <1>1, <2>1, <2>2, StretchUpdate, Zenon
  <2>4. Len(front) = l /\ \A i \in 1..l : 1 + i - 1 = i
    BY <2>1, <2>2
  <2> QED BY <2>2, <2>3, <2>4
<1>5. /\ Proper(Mine, back) /\ Complete(Mine, back)
      /\ HasUpdate(back) => HasUpdate(text)
  <2>1. l + 1 \in Nat \ {0} /\ m \in Nat /\ m <= Len(text) /\ m = Len(text) /\ l + 1 <= m
    BY <1>1, <1>3
  <2>2. /\ Proper(Mine, back) /\ Len(back) = IF l + 1 <= m THEN m - (l + 1) + 1 ELSE 0
        /\ \A i \in 1..Len(back) : back[i] = text[(l + 1) + i - 1]
        /\ Complete(Mine, back)
    <3>1. /\ Proper(Mine, SubSeq(text, l + 1, m))
          /\ Len(SubSeq(text, l + 1, m)) = IF l + 1 <= m THEN m - (l + 1) + 1 ELSE 0
          /\ \A i \in 1..Len(SubSeq(text, l + 1, m)) : SubSeq(text, l + 1, m)[i] = text[(l + 1) + i - 1]
          /\ Complete(Mine, text) /\ m = Len(text) /\ l + 1 <= m => Complete(Mine, SubSeq(text, l + 1, m))
      BY <1>2, <2>1, StretchProper, SMTT(60)
    <3> QED BY <2>1, <3>1
  <2> HIDE DEF back
  <2>3. HasUpdate(back) => HasUpdate(text)
    BY <1>1, <2>1, <2>2, StretchUpdate, Zenon
  <2> QED BY <2>2, <2>3
<1>6. ASSUME l + 2 <= m
      PROVE  /\ Proper(Mine, behind) /\ Complete(Mine, behind)
             /\ HasUpdate(behind) => HasUpdate(text)
  <2>1. l + 2 \in Nat \ {0} /\ m \in Nat /\ m <= Len(text) /\ m = Len(text) /\ l + 2 <= m
    BY <1>1, <1>6
  <2>2. /\ Proper(Mine, behind) /\ Len(behind) = IF l + 2 <= m THEN m - (l + 2) + 1 ELSE 0
        /\ \A i \in 1..Len(behind) : behind[i] = text[(l + 2) + i - 1]
        /\ Complete(Mine, behind)
    <3>1. /\ Proper(Mine, SubSeq(text, l + 2, m))
          /\ Len(SubSeq(text, l + 2, m)) = IF l + 2 <= m THEN m - (l + 2) + 1 ELSE 0
          /\ \A i \in 1..Len(SubSeq(text, l + 2, m)) : SubSeq(text, l + 2, m)[i] = text[(l + 2) + i - 1]
          /\ Complete(Mine, text) /\ m = Len(text) /\ l + 2 <= m => Complete(Mine, SubSeq(text, l + 2, m))
      BY <1>2, <2>1, StretchProper, SMTT(60)
    <3> QED BY <2>1, <3>1
  <2> HIDE DEF behind
  <2>3. HasUpdate(behind) => HasUpdate(text)
    BY <1>1, <2>1, <2>2, StretchUpdate, Zenon
  <2> QED BY <2>2, <2>3
<1>7. /\ Proper(Mine, more) /\ text[l + 1] \in Lexemes
      /\ more = Append(front, text[l + 1])
  <2>1. l + 1 \in Nat /\ l + 1 <= Len(text) /\ 1 \in Nat \ {0} /\ l + 1 \in 1..Len(text) /\ 1 \in 1..Len(text)
        /\ 1 <= l + 1 /\ l + 1 - 1 = l
    BY <1>1, <1>3
  <2>2. Proper(Mine, more)
    BY <1>2, <2>1, StretchProper, Zenon
  <2>3. text[l + 1] \in Lexemes
    BY <1>1, <2>1, ElementOfSeq
  <2>4. front \in Seq(Lexemes)
    BY <1>4 DEF Proper
  <2>5. Append(front, text[l + 1]) \in Seq(Lexemes) /\ Len(Append(front, text[l + 1])) = l + 1
        /\ Append(front, text[l + 1])[l + 1] = text[l + 1]
        /\ \A i \in 1..l : Append(front, text[l + 1])[i] = front[i]
    <3> HIDE DEF front, m
    <3> QED BY <1>4, <2>3, <2>4, AppendProperties
  <2>6. more \in Seq(Lexemes) /\ Len(more) = l + 1 /\ \A i \in 1..(l + 1) : more[i] = text[i]
    <3>1. l + 1 \in 1..Len(text)
      BY <2>1
    <3> QED BY <1>1, <3>1, SplitIs
  <2>7. \A i \in 1..(l + 1) : i = l + 1 \/ i \in 1..l
    BY <1>1
  <2> HIDE DEF more, front
  <2>8. \A i \in 1..(l + 1) : more[i] = Append(front, text[l + 1])[i]
    BY <1>4, <2>5, <2>6, <2>7
  <2> QED BY <2>2, <2>3, <2>5, <2>6, <2>8, SeqEqual
<1> HIDE DEF front, back, behind, more
<1>8. CASE cut = <<front, back>>
  <2>1. cut[1] = front /\ cut[2] = back
    BY <1>8
  <2>2. front \in Seq(Lexemes) /\ Len(front) <= l + 1
    <3>1. front \in Seq(Lexemes)
      BY <1>4 DEF Proper
    <3> QED BY <1>1, <1>4, <3>1
  <2> QED BY <1>4, <1>5, <2>1, <2>2 DEF CutWell, Readable, l
<1>9. ASSUME NEW h \in Heads(text[l + 1]), cut = <<Append(front, h), <<"part">> \o behind>>
      PROVE  CutWell(text, cut[1], cut[2])
  <2>1. PICK start : start = Append(front, h)
    OBVIOUS
  <2>2. PICK t : t = <<"part">> \o behind
    OBVIOUS
  <2>3. cut[1] = start /\ cut[2] = t
    BY <1>9, <2>1, <2>2
  <2>4. h \in Lexemes /\ h # "update" /\ text[l + 1] \notin Special
    BY <1>7, HeadsIs
  <2>5. l + 2 <= m
    <3>1. l + 1 # m
      BY <1>n, <2>4
    <3> QED BY <1>1, <1>3, <3>1
  <2>6. /\ Proper(Mine, behind) /\ Complete(Mine, behind)
        /\ HasUpdate(behind) => HasUpdate(text)
    BY <1>6, <2>5
  <2>7. /\ Proper(Mine, t) /\ Complete(Mine, t)
        /\ HasUpdate(t) => HasUpdate(text)
    BY <1>2, <2>2, <2>6, PartBefore
  <2>8. front \in Seq(Lexemes)
    BY <1>4 DEF Proper
  <2>9. start \in Seq(Lexemes) /\ Len(start) = l + 1 /\ start[l + 1] = h
        /\ \A i \in 1..l : start[i] = front[i]
    BY <1>4, <2>1, <2>4, <2>8, AppendProperties
  <2>10. CutText(Mine, start)
    <3>1. Proper(Mine, Append(front, text[l + 1]))
      BY <1>7
    <3> QED BY <1>7, <2>1, <2>8, <3>1 DEF CutText
  <2>11. HasUpdate(start) => HasUpdate(text)
    <3> SUFFICES ASSUME HasUpdate(start) PROVE HasUpdate(front)
      BY <1>4
    <3>1. PICK i \in 1..Len(start) : start[i] = "update"
      BY DEF HasUpdate
    <3>2. i # l + 1
      BY <2>4, <2>9, <3>1
    <3>3. i \in 1..l
      BY <1>1, <2>9, <3>2
    <3> QED BY <1>4, <2>9, <3>1, <3>3 DEF HasUpdate
  <2>12. Len(start) <= l + 1
    BY <1>1, <2>9
  <2> QED BY <2>3, <2>7, <2>9, <2>10, <2>11, <2>12 DEF CutWell, Readable, l
<1>10. \/ cut = <<front, back>>
       \/ \E h \in Heads(text[l + 1]) : cut = <<Append(front, h), <<"part">> \o behind>>
  BY DEF Cuts, front, back, behind, l, m
<1> QED BY <1>8, <1>9, <1>10

\* What one recv makes of what has come: a job of the first requests, joined
\* and perhaps cut, and what is left.
Received(n, job) ==
  LET all == Joined(n)
      rest == SubSeq(sent, n + 1, Len(sent))
  IN /\ jobs' = Append(jobs, job)
     /\ \/ /\ Len(all.text) <= world.limit
           /\ job = all /\ sent' = rest
        \/ /\ ~(Len(all.text) <= world.limit)
           /\ \E cut \in Cuts(all.text) :
                /\ job = [calls |-> all.calls, text |-> cut[1]]
                /\ sent' = <<[calls |-> all.calls, text |-> cut[2]]>> \o rest
     /\ odd' = IF Len(all.text) < world.limit THEN odd ELSE odd \cup {"cut"}

LEMMA RecvIs ==
  ASSUME Base, Texts, Recv
  PROVE  \E n \in 1..Len(sent) : \E job : Received(n, job)
<1>1. PICK n \in 1..Len(sent) :
        LET all == Joined(n)
            rest == SubSeq(sent, n + 1, Len(sent))
        IN /\ IF Len(all.text) <= world.limit THEN jobs' = Append(jobs, all) /\ sent' = rest
              ELSE \E cut \in Cuts(all.text) :
                     /\ jobs' = Append(jobs, [all EXCEPT !.text = cut[1]])
                     /\ sent' = <<[all EXCEPT !.text = cut[2]]>> \o rest
           /\ odd' = IF Len(all.text) < world.limit THEN odd ELSE odd \cup {"cut"}
  BY Zenon DEF Recv
<1>2. PICK all : all = Joined(n)
  OBVIOUS
<1>3. all = [calls |-> all.calls, text |-> all.text]
  BY <1>2, JoinedIs
<1>4. \A t : [all EXCEPT !.text = t] = [calls |-> all.calls, text |-> t]
  BY <1>3
<1>5. CASE Len(all.text) <= world.limit
  <2>1. Received(n, all)
    BY <1>1, <1>2, <1>5 DEF Received
  <2> QED BY <2>1
<1>6. CASE ~(Len(all.text) <= world.limit)
  <2>1. PICK cut \in Cuts(all.text) :
          /\ jobs' = Append(jobs, [all EXCEPT !.text = cut[1]])
          /\ sent' = <<[all EXCEPT !.text = cut[2]]>> \o SubSeq(sent, n + 1, Len(sent))
    BY <1>1, <1>2, <1>6
  <2>2. PICK job : job = [calls |-> all.calls, text |-> cut[1]]
    OBVIOUS
  <2>3. /\ jobs' = Append(jobs, job)
        /\ sent' = <<[calls |-> all.calls, text |-> cut[2]]>> \o SubSeq(sent, n + 1, Len(sent))
    BY <1>4, <2>1, <2>2, Zenon
  <2>4. odd' = IF Len(all.text) < world.limit THEN odd ELSE odd \cup {"cut"}
    BY <1>1, <1>2
  <2>5. Received(n, job)
    BY <1>2, <1>6, <2>2, <2>3, <2>4, Zenon DEF Received
  <2> QED BY <2>5
<1> QED BY <1>5, <1>6

\* What is joined holds an update only if one was sent.
LEMMA JoinedUpdates ==
  ASSUME Base, Texts, Updates, NEW n \in 1..Len(sent), HasUpdate(Joined(n).text)
  PROVE  Updating
<1>1. PICK t : t = Joined(n).text
  OBVIOUS
<1>2. \A x \in 1..Len(t) : \E i \in 1..n : \E y \in 1..Len(sent[i].text) : t[x] = sent[i].text[y]
  BY <1>1, JoinedIs
<1>3. PICK x \in 1..Len(t) : t[x] = "update"
  BY <1>1 DEF HasUpdate
<1>4. PICK i \in 1..n : \E y \in 1..Len(sent[i].text) : t[x] = sent[i].text[y]
  BY <1>2
<1>5. Len(sent) \in Nat
  <2>1. sent \in Seq(Requests)
    BY DEF Base
  <2> QED BY <2>1, LenProperties
<1>6. i \in 1..Len(sent)
  BY <1>5
<1>7. HasUpdate(sent[i].text)
  BY <1>3, <1>4 DEF HasUpdate
<1> QED BY <1>6, <1>7 DEF Updates

\* What becomes of what is joined.
JobOf(n, job) ==
  /\ job \in Requests /\ job.calls = Joined(n).calls
  /\ Len(job.text) <= world.limit + 1
  /\ Readable(Mine, job.text, "cut" \in odd')
  /\ HasUpdate(job.text) => Updating
  /\ Len(Joined(n).text) < world.limit =>
       job.text = Joined(n).text /\ job.text # <<>> /\ job.text[1] = sent[1].text[1]

LEMMA JobIs ==
  ASSUME Base, Texts, Updates, NEW n \in 1..Len(sent), NEW job, Received(n, job)
  PROVE  JobOf(n, job)
<1>1. PICK all : all = Joined(n)
  OBVIOUS
<1>2. /\ all = [calls |-> all.calls, text |-> all.text]
      /\ all.calls \in Seq(Made) /\ Proper(Mine, all.text) /\ Complete(Mine, all.text)
      /\ all.text[1] = sent[1].text[1]
  BY <1>1, JoinedIs
<1>3. all.text \in Seq(Lexemes) /\ all.text # <<>> /\ Len(all.text) \in Nat
  <2>1. all.text \in Seq(Lexemes) /\ all.text # <<>>
    BY <1>2 DEF Proper, Complete
  <2> QED BY <2>1, LenProperties
<1>4. HasUpdate(all.text) => Updating
  BY <1>1, JoinedUpdates
<1>5. world \in WorldType /\ world.limit \in Nat \ {0}
  BY CallsMade DEF WorldType
<1>6. CASE Len(all.text) <= world.limit
  <2>1. job = all
    BY <1>1, <1>6 DEF Received
  <2>2. job \in Requests
    BY <1>2, <1>3, <2>1 DEF Requests
  <2>3. Len(job.text) <= world.limit + 1
    BY <1>3, <1>5, <1>6, <2>1
  <2>4. Readable(Mine, job.text, "cut" \in odd')
    BY <1>2, <2>1 DEF Readable
  <2> QED BY <1>1, <1>2, <1>3, <1>4, <2>1, <2>2, <2>3, <2>4 DEF JobOf
<1>7. CASE ~(Len(all.text) <= world.limit)
  <2>1. PICK cut \in Cuts(all.text) : job = [calls |-> all.calls, text |-> cut[1]]
    BY <1>1, <1>7 DEF Received
  <2>2. Len(all.text) > world.limit /\ ~(Len(all.text) < world.limit)
    BY <1>3, <1>5, <1>7
  <2>3. CutWell(all.text, cut[1], cut[2])
    BY <1>2, <1>5, <2>2, CutIs
  <2>4. job.calls = all.calls /\ job.text = cut[1]
    BY <2>1
  <2>5. job \in Requests
    BY <1>2, <2>1, <2>3 DEF CutWell, Requests
  <2>6. "cut" \in odd'
    BY <1>1, <2>2 DEF Received
  <2>7. Readable(Mine, job.text, "cut" \in odd')
    BY <2>3, <2>4, <2>6 DEF CutWell, Readable
  <2> QED BY <1>1, <1>4, <2>2, <2>3, <2>4, <2>5, <2>7 DEF CutWell, JobOf
<1> QED BY <1>6, <1>7

\* What is left: requests that were sent, the first perhaps but its end.
Left(r, j) ==
  \/ \E k \in 1..Len(sent) : r = sent[k] /\ (j > 1 => k > 1)
  \/ /\ j = 1 /\ Proper(Mine, r.text) /\ Complete(Mine, r.text)
     /\ HasUpdate(r.text) => Updating

LEMMA LeftIs ==
  ASSUME Base, Texts, Updates, NEW n \in 1..Len(sent), NEW job, Received(n, job)
  PROVE  /\ sent' \in Seq(Requests)
         /\ \A j \in 1..Len(sent') : Left(sent'[j], j)
         /\ Len(Joined(n).text) < world.limit =>
              /\ Len(sent') = Len(sent) - n
              /\ \A j \in 1..Len(sent') : n + j \in 1..Len(sent) /\ sent'[j] = sent[n + j]
<1>1. PICK all : all = Joined(n)
  OBVIOUS
<1>2. PICK len : len = Len(all.text)
  OBVIOUS
<1>3. PICK rest : rest = SubSeq(sent, n + 1, Len(sent))
  OBVIOUS
<1>4. sent \in Seq(Requests) /\ Len(sent) \in Nat /\ n >= 1 /\ n \in Nat
  <2>1. sent \in Seq(Requests)
    BY DEF Base
  <2> QED BY <2>1, LenProperties
<1>5. /\ rest \in Seq(Requests) /\ Len(rest) = Len(sent) - n /\ Len(rest) \in Nat
      /\ \A j \in 1..Len(rest) : rest[j] = sent[n + j] /\ n + j \in 1..Len(sent)
  <2>1. /\ rest \in Seq(Requests) /\ Len(rest) = Len(sent) - n
        /\ \A j \in 1..(Len(sent) - n) : rest[j] = sent[n + j] /\ n + j \in 1..Len(sent)
    BY <1>3, <1>4, SplitIs
  <2>2. Len(rest) \in Nat
    BY <2>1, LenProperties
  <2> QED BY <2>1, <2>2
<1>6. \A j \in 1..Len(rest) : Left(rest[j], j) /\ Left(rest[j], j + 1)
  <2> SUFFICES ASSUME NEW j \in 1..Len(rest), NEW k \in 1..Len(sent), k = n + j
               PROVE  Left(rest[j], j) /\ Left(rest[j], j + 1)
    BY <1>5
  <2>1. rest[j] = sent[k] /\ k > 1
    BY <1>4, <1>5
  <2> QED BY <2>1 DEF Left
<1>7. /\ all.calls \in Seq(Made) /\ all.text \in Seq(Lexemes) /\ len \in Nat
      /\ Proper(Mine, all.text) /\ Complete(Mine, all.text)
  <2>1. all.text \in Seq(Lexemes)
    BY <1>1, JoinedIs DEF Proper
  <2>2. len \in Nat
    BY <1>2, <2>1, LenProperties
  <2> QED BY <1>1, <2>1, <2>2, JoinedIs
<1>8. world.limit \in Nat \ {0} /\ world \in WorldType
  BY CallsMade DEF WorldType
<1>9. CASE len <= world.limit
  <2>1. sent' = rest
    BY <1>1, <1>2, <1>3, <1>9 DEF Received
  <2> QED BY <1>5, <1>6, <2>1
<1>10. CASE ~(len <= world.limit)
  <2>1. PICK cut \in Cuts(all.text) : sent' = <<[calls |-> all.calls, text |-> cut[2]]>> \o rest
    BY <1>1, <1>2, <1>3, <1>10 DEF Received
  <2>2. PICK r : r = [calls |-> all.calls, text |-> cut[2]]
    OBVIOUS
  <2>3. sent' = <<r>> \o rest
    BY <2>1, <2>2
  <2>4. len > world.limit /\ ~(len < world.limit)
    BY <1>7, <1>8, <1>10
  <2>5. CutWell(all.text, cut[1], cut[2])
    BY <1>2, <1>7, <1>8, <2>4, CutIs
  <2>6. HasUpdate(all.text) => Updating
    BY <1>1, JoinedUpdates
  <2>7. r \in Requests /\ r.text = cut[2]
    BY <1>7, <2>2, <2>5 DEF CutWell, Requests, Proper
  <2>8. Left(r, 1)
    BY <2>5, <2>6, <2>7 DEF CutWell, Left
  <2>9. /\ <<r>> \in Seq(Requests) /\ Len(<<r>>) = 1 /\ <<r>>[1] = r
    BY <2>7
  <2>10. PICK one : one = <<r>>
    OBVIOUS
  <2>11. /\ one \o rest \in Seq(Requests) /\ Len(one \o rest) = 1 + Len(rest)
         /\ \A j \in 1..(1 + Len(rest)) : (one \o rest)[j] = IF j <= 1 THEN one[j] ELSE rest[j - 1]
    <3>1. one \in Seq(Requests) /\ Len(one) = 1
      BY <2>9, <2>10
    <3>2. rest \in Seq(Requests)
      BY <1>5
    <3>3. /\ one \o rest \in Seq(Requests) /\ Len(one \o rest) = Len(one) + Len(rest)
          /\ \A j \in 1..(Len(one) + Len(rest)) :
               (one \o rest)[j] = IF j <= Len(one) THEN one[j] ELSE rest[j - Len(one)]
      BY <3>1, <3>2, ConcatProperties, Zenon
    <3> QED BY <3>1, <3>3
  <2>12. \A j \in 1..Len(sent') :
          \/ j = 1 /\ sent'[j] = r
          \/ j - 1 \in 1..Len(rest) /\ sent'[j] = rest[j - 1] /\ (j - 1) + 1 = j
    BY <1>5, <2>3, <2>9, <2>10, <2>11
  <2>13. \A j \in 1..Len(sent') : Left(sent'[j], j)
    <3> SUFFICES ASSUME NEW j \in 1..Len(sent') PROVE Left(sent'[j], j)
      OBVIOUS
    <3>1. PICK k : k = j - 1
      OBVIOUS
    <3>2. k \in 1..Len(rest) => Left(rest[k], k + 1)
      BY <1>6
    <3> QED BY <2>8, <2>12, <3>1, <3>2
  <2> QED BY <1>1, <1>2, <2>3, <2>4, <2>10, <2>11, <2>13
<1> QED BY <1>9, <1>10

LEMMA RecvKeeps ==
  ASSUME SessionInv, Recv
  PROVE  SessionInv'
<1> USE DEF SessionInv
<1>1. /\ UNCHANGED <<handlerVars, world, peerVars, stream, conn>> /\ main' = "top"
      /\ conn = {"open", "watched"}
  BY DEF Recv
<1>2. PICK n \in 1..Len(sent) : \E job : Received(n, job)
  BY RecvIs
<1>3. PICK job : Received(n, job)
  BY <1>2
<1>4. PICK all : all = Joined(n)
  OBVIOUS
<1>5. /\ job \in Requests /\ job.calls = all.calls
      /\ Len(job.text) <= world.limit + 1 /\ Readable(Mine, job.text, "cut" \in odd')
      /\ HasUpdate(job.text) => Updating
      /\ Len(all.text) < world.limit =>
           job.text = all.text /\ job.text # <<>> /\ job.text[1] = sent[1].text[1]
  BY <1>3, <1>4, JobIs DEF JobOf
<1>6. /\ sent' \in Seq(Requests)
      /\ \A j \in 1..Len(sent') : Left(sent'[j], j)
      /\ Len(all.text) < world.limit =>
           /\ Len(sent') = Len(sent) - n
           /\ \A j \in 1..Len(sent') : n + j \in 1..Len(sent) /\ sent'[j] = sent[n + j]
  BY <1>3, <1>4, LeftIs
<1>7. /\ odd \subseteq odd' /\ odd' \subseteq odd \cup {"cut"}
      /\ "cut" \notin odd' => Len(all.text) < world.limit
  BY <1>3, <1>4 DEF Received
<1>8. /\ jobs \in Seq(Requests) /\ jobs' \in Seq(Requests)
      /\ Len(jobs') = Len(jobs) + 1 /\ Len(jobs) \in Nat
      /\ \A i \in 1..Len(jobs') : (i \in 1..Len(jobs) /\ jobs'[i] = jobs[i]) \/ jobs'[i] = job
  <2>1. jobs \in Seq(Requests) /\ jobs' = Append(jobs, job)
    BY <1>3 DEF Base, Received
  <2> QED BY <1>5, <2>1, AppendHas
<1>9. /\ world' = world /\ step' = step /\ waiting' = waiting /\ got' = got /\ mixed' = mixed
      /\ stream' = stream /\ conn' = conn
  BY <1>1 DEF peerVars
<1>10. /\ Made' = Made /\ Mine' = Mine /\ Library' = Library /\ SeededByMe' = SeededByMe
       /\ toClose' = toClose /\ (ListsInv' <=> ListsInv) /\ (Updating' <=> Updating)
       /\ Requests' = Requests /\ Answers' = Answers /\ Calls' = Calls
       /\ \A m : Whole(m)' <=> Whole(m)
       /\ \A m : Begin(m)' <=> Begin(m)
       /\ \A r : Heard(r)' <=> Heard(r)
       /\ \A c : Request(c)' = Request(c)
  BY <1>1, <1>9, SameCalls, SameTables DEF Calls
<1>11. Current' = Current /\ Ended' = Ended
  BY <1>9, <1>10 DEF Current, Ended
<1>12. Base'
  <2>1. /\ world' \in Worlds /\ ListsInv' /\ toClose' \in {NoFd, Fd}
        /\ conn' \subseteq {"open", "watched"} /\ main' \in {"select", "top"}
        /\ odd' \subseteq {"cut", "kicked"} /\ mixed' \subseteq Made'
    BY <1>1, <1>7, <1>9, <1>10 DEF Base
  <2>2. /\ step' \in [Users -> Nat \ {0}]
        /\ \A v \in Users : step'[v] <= Len(world'.script[v]) + 1
        /\ waiting' \subseteq {v \in Users : step'[v] # 1}
    BY <1>9 DEF Base
  <2>3. /\ got' \in [Calls -> Seq(Answers')] /\ sent' \in Seq(Requests') /\ jobs' \in Seq(Requests')
        /\ stream' \in Seq(Answers')
    BY <1>6, <1>8, <1>9, <1>10 DEF Base
  <2>4. \A i \in 1..Len(jobs') : Len(jobs'[i].text) <= world'.limit + 1
    BY <1>5, <1>8, <1>9 DEF Base
  <2> QED BY <1>10, <2>1, <2>2, <2>3, <2>4 DEF Base
<1>13. Texts'
  <2>1. \A j \in 1..Len(sent') :
          /\ Proper(Mine, sent'[j].text) /\ Complete(Mine, sent'[j].text)
          /\ j > 1 => Starts(sent'[j].text)
    BY <1>6, SMTT(30) DEF Left, Texts
  <2>2. \A i \in 1..Len(jobs') : Readable(Mine, jobs'[i].text, "cut" \in odd')
    <3>1. \A t : Readable(Mine, t, "cut" \in odd) => Readable(Mine, t, "cut" \in odd')
      BY <1>7 DEF Readable
    <3> QED BY <1>5, <1>8, <3>1 DEF Texts
  <2> QED BY <1>10, <2>1, <2>2 DEF Texts
<1>14. Updates'
  <2>1. \A j \in 1..Len(sent') : HasUpdate(sent'[j].text) => Updating
    BY <1>6 DEF Left, Updates
  <2>2. \A i \in 1..Len(jobs') : HasUpdate(jobs'[i].text) => Updating
    BY <1>5, <1>8 DEF Updates
  <2> QED BY <1>10, <2>1, <2>2 DEF Updates
<1>15. /\ all.calls \in Seq(Made)
       /\ \A x \in 1..Len(all.calls) :
            \E i \in 1..n : \E y \in 1..Len(sent[i].calls) : all.calls[x] = sent[i].calls[y]
       /\ \A x \in 1..Len(sent[1].calls) : all.calls[x] = sent[1].calls[x]
       /\ n = 1 => all.calls = sent[1].calls /\ all.text = sent[1].text
       /\ (\A i \in 1..n : sent[i].calls # <<>>) => n <= Len(all.calls)
  BY <1>4, JoinedIs
<1>16. Len(sent) \in Nat /\ n \in Nat /\ n >= 1 /\ 1 \in 1..Len(sent) /\ \A i \in 1..n : i \in 1..Len(sent)
  <2>1. sent \in Seq(Requests)
    BY DEF Base
  <2>2. Len(sent) \in Nat
    BY <2>1, LenProperties
  <2> QED BY <2>2
<1>17. Uncut'
  <2> SUFFICES ASSUME "cut" \notin odd' PROVE Uncut'
    BY DEF Uncut
  <2>1. Len(all.text) < world.limit /\ "cut" \notin odd
    BY <1>7
  <2>2. \A i \in 1..Len(sent) : Whole(sent[i])
    BY <2>1 DEF Uncut
  <2>3. \A j \in 1..Len(sent') : Whole(sent'[j])
    BY <1>6, <2>1, <2>2
  <2>4. Begin(job)
    <3>1. PICK c \in Made : sent[1] = [calls |-> <<c>>, text |-> TextOf(Request(c))]
      BY <1>16, <2>2 DEF Whole
    <3>2. /\ Len(sent[1].calls) = 1 /\ sent[1].calls[1] = c /\ sent[1].text = TextOf(Request(c))
      BY <3>1
    <3>3. all.calls[1] = c
      BY <1>15, <3>2
    <3>4. n <= Len(all.calls) /\ Len(all.calls) \in Nat
      <4>1. \A i \in 1..n : sent[i].calls # <<>>
        <5> SUFFICES ASSUME NEW i \in 1..n PROVE sent[i].calls # <<>>
          OBVIOUS
        <5>1. PICK d \in Made : sent[i] = [calls |-> <<d>>, text |-> TextOf(Request(d))]
          BY <1>16, <2>2 DEF Whole
        <5> QED BY <5>1
      <4> QED BY <1>15, <4>1, LenProperties
    <3>5. Len(all.calls) = 1 => n = 1
      BY <1>16, <3>4
    <3>6. Len(all.calls) >= 1
      BY <1>16, <3>4
    <3>7. Len(all.calls) = 1 => job.text = TextOf(Request(c))
      BY <1>5, <1>15, <2>1, <3>2, <3>5
    <3> QED BY <1>5, <2>1, <3>2, <3>3, <3>6, <3>7 DEF Begin
  <2>5. \A i \in 1..Len(jobs') : Begin(jobs'[i])
    BY <1>8, <2>1, <2>4 DEF Uncut
  <2>6. /\ \A j \in 1..Len(sent') : Whole(sent[j])'
        /\ \A i \in 1..Len(jobs') : Begin(jobs[i])'
    BY <1>10, <2>3, <2>5
  <2> QED BY <2>6 DEF Uncut
<1>18. Orderly'
  <2> SUFFICES ASSUME odd' = {} PROVE Orderly'
    BY DEF Orderly
  <2>1. odd = {} /\ Len(all.text) < world.limit
    BY <1>7
  <2>2. Len(sent) + Len(jobs) + Len(stream) <= Cardinality(waiting) /\ Cardinality(waiting) \in Nat
    BY <2>1, CallsMade, FS_CardinalityType DEF Orderly
  <2>3. Len(stream) \in Nat /\ Len(stream') = Len(stream)
    <3>1. stream \in Seq(Answers)
      BY DEF Base
    <3> QED BY <1>9, <3>1, LenProperties
  <2>4. Len(sent') = Len(sent) - n
    BY <1>6, <2>1
  <2>5. Len(sent') + Len(jobs') + Len(stream') <= Cardinality(waiting')
    BY <1>8, <1>9, <1>16, <2>2, <2>3, <2>4
  <2>6. \A x : Alone(x)' <=> Alone(x)
    BY <1>9, <1>11 DEF Alone
  <2>7. Alone(job.calls)
    <3>1. CASE n = 1
      <4>1. job.calls = sent[1].calls
        BY <1>5, <1>15, <3>1
      <4>2. Alone(sent[1].calls)
        BY <1>16, <2>1 DEF Orderly
      <4> QED BY <4>1, <4>2
    <3>2. CASE n # 1
      <4>1. n <= Len(sent) /\ 2 <= n
        BY <1>16, <3>2
      <4>2. 2 <= Cardinality(waiting)
        BY <1>8, <1>16, <2>2, <2>3, <4>1
      <4>3. \A c \in Current : c \in mixed
        <5> SUFFICES ASSUME NEW c \in Current, c \notin mixed PROVE FALSE
          OBVIOUS
        <5>1. waiting = {c[1]}
          BY <2>1 DEF Orderly
        <5>2. Cardinality(waiting) = 1
          BY <5>1, FS_Singleton
        <5> QED BY <4>2, <5>2
      <4>4. \A x \in 1..Len(all.calls) : all.calls[x] \in mixed
        <5> SUFFICES ASSUME NEW x \in 1..Len(all.calls) PROVE all.calls[x] \in mixed
          OBVIOUS
        <5>1. PICK i \in 1..n : \E y \in 1..Len(sent[i].calls) : all.calls[x] = sent[i].calls[y]
          BY <1>15
        <5>2. PICK y \in 1..Len(sent[i].calls) : all.calls[x] = sent[i].calls[y]
          BY <5>1
        <5>3. Alone(sent[i].calls)
          BY <1>16, <2>1 DEF Orderly
        <5>4. sent[i].calls[y] \in mixed \cup Current
          BY <5>3 DEF Alone
        <5> QED BY <4>3, <5>2, <5>4
      <4> QED BY <1>5, <4>3, <4>4 DEF Alone
    <3> QED BY <3>1, <3>2
  <2>8. \A j \in 1..Len(sent') : Alone(sent[j].calls)'
    <3>1. \A i \in 1..Len(sent) : Alone(sent[i].calls)
      BY <2>1 DEF Orderly
    <3>2. \A j \in 1..Len(sent') : Alone(sent'[j].calls)
      BY <1>6, <2>1, <3>1
    <3> QED BY <2>6, <3>2
  <2>9. \A i \in 1..Len(jobs') : Alone(jobs[i].calls)'
    <3>1. \A i \in 1..Len(jobs) : Alone(jobs[i].calls)
      BY <2>1 DEF Orderly
    <3>2. \A j \in 1..Len(jobs') : Alone(jobs'[j].calls)
      BY <1>8, <2>7, <3>1
    <3> QED BY <2>6, <3>2
  <2>10. \A i \in 1..Len(stream') : Alone(stream[i].calls)'
    <3>1. \A i \in 1..Len(stream) : Alone(stream[i].calls)
      BY <2>1 DEF Orderly
    <3> QED BY <1>9, <2>6, <3>1
  <2>11. /\ conn' = {"open", "watched"} /\ toClose' # Fd
         /\ \A c \in Current' \ mixed' : waiting' = {c[1]}
    BY <1>9, <1>10, <1>11, <2>1 DEF Orderly
  <2> QED BY <2>5, <2>8, <2>9, <2>10, <2>11 DEF Orderly
<1>19. OwnReply'
  BY <1>7, <1>9, <1>11 DEF OwnReply
<1>20. Seeds'
  <2> SUFFICES ASSUME "cut" \notin odd' PROVE Seeds'
    BY DEF Seeds
  <2>1. "cut" \notin odd
    BY <1>7
  <2> QED BY <1>9, <1>10, <2>1 DEF Seeds
<1>21. SeededOwn'
  <2>1. Misread \subseteq Misread'
    BY <1>7, <1>10, MisreadGrows
  <2> QED BY <1>7, <1>9, <1>10, <2>1 DEF SeededOwn
<1> QED BY <1>12, <1>13, <1>14, <1>17, <1>18, <1>19, <1>20, <1>21

LEMMA SameOrNone ==
  ASSUME NEW S, NEW s \in Seq(S), NEW t, t = s \/ t = <<>>
  PROVE  /\ t \in Seq(S)
         /\ \A i \in 1..Len(t) : i \in 1..Len(s) /\ t[i] = s[i]
<1>1. CASE t = s
  BY <1>1
<1>2. CASE t = <<>>
  <2>1. Len(t) = 0 /\ t \in Seq(S)
    BY <1>2
  <2> QED BY <2>1
<1> QED BY <1>1, <1>2

\* What closes the connection, and what only goes on.
LEMMA ClosingKeeps ==
  ASSUME SessionInv, UNCHANGED <<tables, streak, world, peerVars, jobs, odd>>,
         up' \in BOOLEAN, toClose' \in {NoFd, Fd}, main' \in {"select", "top"},
         conn' \subseteq {"open", "watched"},
         sent' = sent \/ sent' = <<>>, stream' = stream \/ stream' = <<>>,
         odd = {} => conn' = conn /\ sent' = sent /\ stream' = stream /\ toClose' # Fd
  PROVE  SessionInv'
<1> USE DEF SessionInv
<1>1. /\ peers' = peers /\ files' = files /\ errs' = errs /\ streak' = streak
      /\ world' = world /\ step' = step /\ waiting' = waiting /\ got' = got /\ mixed' = mixed
      /\ jobs' = jobs /\ odd' = odd
  BY DEF tables, peerVars
<1>2. /\ Made' = Made /\ Mine' = Mine /\ Library' = Library /\ (Updating' <=> Updating)
      /\ Requests' = Requests /\ Answers' = Answers /\ Calls' = Calls
      /\ \A m : Whole(m)' <=> Whole(m)
      /\ \A m : Begin(m)' <=> Begin(m)
      /\ \A r : Heard(r)' <=> Heard(r)
      /\ \A c : Request(c)' = Request(c)
  BY <1>1, SameCalls DEF Calls
<1>3. Current' = Current /\ Ended' = Ended /\ SeededByMe' = SeededByMe
  BY <1>1, <1>2 DEF Current, Ended, SeededByMe
<1>4. ListsInv'
  <2>1. ListsInv
    BY DEF Base
  <2>2. toClose' \in Fds \cup {NoFd}
    BY PlacesAssumption
  <2> QED BY <1>1, <2>1, <2>2 DEF ListsInv, PeersInv, ErrsInv
<1>5. /\ sent' \in Seq(Requests) /\ stream' \in Seq(Answers)
      /\ \A i \in 1..Len(sent') : i \in 1..Len(sent) /\ sent'[i] = sent[i]
      /\ \A i \in 1..Len(stream') : i \in 1..Len(stream) /\ stream'[i] = stream[i]
  <2>1. sent \in Seq(Requests) /\ stream \in Seq(Answers)
    BY DEF Base
  <2>2. /\ sent' \in Seq(Requests)
        /\ \A i \in 1..Len(sent') : i \in 1..Len(sent) /\ sent'[i] = sent[i]
    BY <2>1, SameOrNone
  <2>3. /\ stream' \in Seq(Answers)
        /\ \A i \in 1..Len(stream') : i \in 1..Len(stream) /\ stream'[i] = stream[i]
    BY <2>1, SameOrNone
  <2> QED BY <2>2, <2>3
<1>6. Base'
  <2>1. /\ world' \in Worlds /\ mixed' \subseteq Made' /\ odd' \subseteq {"cut", "kicked"}
    BY <1>1, <1>2 DEF Base
  <2>2. /\ step' \in [Users -> Nat \ {0}]
        /\ \A v \in Users : step'[v] <= Len(world'.script[v]) + 1
        /\ waiting' \subseteq {v \in Users : step'[v] # 1}
    BY <1>1 DEF Base
  <2>3. /\ got' \in [Calls -> Seq(Answers')] /\ sent' \in Seq(Requests') /\ jobs' \in Seq(Requests')
        /\ stream' \in Seq(Answers')
    BY <1>1, <1>2, <1>5 DEF Base
  <2>4. \A i \in 1..Len(jobs') : Len(jobs'[i].text) <= world'.limit + 1
    BY <1>1 DEF Base
  <2> QED BY <1>2, <1>4, <2>1, <2>2, <2>3, <2>4 DEF Base
<1>7. Texts'
  BY <1>1, <1>2, <1>5 DEF Texts
<1>8. Updates'
  BY <1>1, <1>2, <1>5 DEF Updates
<1>9. Uncut'
  BY <1>1, <1>2, <1>5 DEF Uncut
<1>10. Orderly'
  <2>1. \A x : Alone(x)' <=> Alone(x)
    BY <1>1, <1>3 DEF Alone
  <2> QED BY <1>1, <1>3, <2>1 DEF Orderly
<1>11. OwnReply'
  BY <1>1, <1>3 DEF OwnReply
<1>12. Seeds'
  BY <1>1, <1>2, <1>3, <1>5 DEF Seeds
<1>13. SeededOwn'
  <2>1. Misread \subseteq Misread'
    BY <1>1, <1>2, MisreadGrows
  <2> QED BY <1>1, <1>2, <1>3, <2>1 DEF SeededOwn
<1> QED BY <1>6, <1>7, <1>8, <1>9, <1>10, <1>11, <1>12, <1>13

LEMMA AbortKeeps ==
  ASSUME SessionInv, Abort
  PROVE  SessionInv'
<1>1. /\ UNCHANGED <<tables, streak, world, peerVars, jobs, odd>> /\ "cut" \in odd
      /\ up' = FALSE /\ toClose' = toClose /\ main' = main /\ conn' = {} /\ sent' = <<>>
      /\ stream' = stream \/ stream' = <<>>
  BY DEF Abort
<1>2. toClose \in {NoFd, Fd} /\ main \in {"select", "top"}
  BY DEF SessionInv, Base
<1> QED BY <1>1, <1>2, ClosingKeeps

LEMMA TopKeeps ==
  ASSUME SessionInv, Top
  PROVE  SessionInv'
<1>1. /\ UNCHANGED <<tables, streak, up, world, peerVars, jobs, odd>>
      /\ toClose' = NoFd /\ main' = "select"
      /\ IF toClose # Fd THEN conn' = conn /\ sent' = sent /\ stream' = stream
         ELSE conn' = {} /\ sent' = <<>> /\ (stream' = stream \/ stream' = <<>>)
  BY DEF Top, netVars
<1>2. up \in BOOLEAN /\ conn \subseteq {"open", "watched"} /\ (odd = {} => toClose # Fd)
  BY DEF SessionInv, Base, ListsInv, Orderly
<1>3. NoFd # Fd
  BY NoFdAssumption, PlacesAssumption
<1> QED BY <1>1, <1>2, <1>3, ClosingKeeps

LEMMA WakeKeeps ==
  ASSUME SessionInv, Wake
  PROVE  SessionInv'
<1>1. /\ UNCHANGED <<tables, streak, up, toClose, world, peerVars, jobs, odd>>
      /\ conn' = conn /\ sent' = sent /\ stream' = stream /\ main' = "top"
  BY DEF Wake, handlerVars, netVars, tables
<1>2. /\ up \in BOOLEAN /\ conn \subseteq {"open", "watched"} /\ (odd = {} => toClose # Fd)
      /\ toClose \in {NoFd, Fd}
  BY DEF SessionInv, Base, ListsInv, Orderly
<1> QED BY <1>1, <1>2, ClosingKeeps

-----------------------------------------------------------------------------
(* The handlers keep the invariant. *)

\* What is said to the requests of calls.
SaidTo(calls, said) == [j \in DOMAIN said |-> [calls |-> calls, said |-> said[j]]]

Answered(t, s, calls, said) ==
  /\ t \in Seq(Answers) /\ Len(t) = Len(s) + Len(said)
  /\ \A i \in 1..Len(t) : \/ i \in 1..Len(s) /\ t[i] = s[i]
                          \/ Len(said) # 0 /\ t[i].calls = calls

LEMMA AnsweredIs ==
  ASSUME NEW calls \in Seq(Made), NEW said \in Seq(Sayings), NEW s \in Seq(Answers), NEW t,
         t = s \o SaidTo(calls, said)
  PROVE  Answered(t, s, calls, said)
<1>1. Len(said) \in Nat /\ DOMAIN said = 1..Len(said) /\ Len(s) \in Nat
      /\ \A j \in 1..Len(said) : said[j] \in Sayings
  BY LenProperties, ElementOfSeq
<1>2. PICK more : more = SaidTo(calls, said)
  OBVIOUS
<1>3. /\ more \in [1..Len(said) -> Answers]
      /\ \A j \in 1..Len(said) : more[j].calls = calls
  BY <1>1, <1>2 DEF Answers, SaidTo
<1>4. more \in Seq(Answers) /\ Len(more) = Len(said)
  BY <1>1, <1>3, FunctionIsSeq
<1>5. /\ s \o more \in Seq(Answers) /\ Len(s \o more) = Len(s) + Len(more)
      /\ \A i \in 1..(Len(s) + Len(more)) :
           (s \o more)[i] = IF i <= Len(s) THEN s[i] ELSE more[i - Len(s)]
  BY <1>4, ConcatProperties, Zenon
<1>6. t = s \o more
  BY <1>2
<1>7. \A i \in 1..(Len(s) + Len(said)) :
        \/ i \in 1..Len(s) /\ t[i] = s[i]
        \/ i - Len(s) \in 1..Len(said) /\ t[i] = more[i - Len(s)]
  BY <1>1, <1>4, <1>5, <1>6
<1>8. \A i \in 1..(Len(s) + Len(said)) :
        \/ i \in 1..Len(s) /\ t[i] = s[i]
        \/ Len(said) # 0 /\ t[i].calls = calls
  <2> SUFFICES ASSUME NEW i \in 1..(Len(s) + Len(said)), NEW k \in 1..Len(said), t[i] = more[k]
               PROVE  Len(said) # 0 /\ t[i].calls = calls
    BY <1>7
  <2> QED BY <1>1, <1>3
<1> QED BY <1>4, <1>5, <1>6, <1>8 DEF Answered

\* A message begins with what its text begins with.
LEMMA UpdateBegins ==
  ASSUME NEW text \in Seq(Lexemes), MessageOf(text).op = "update"
  PROVE  /\ HasUpdate(text)
         /\ text # <<>> /\ text[1] \in Commands => text[1] = "update"
<1>1. Parse(text) # <<>> /\ Parse(text)[1][1] = "update"
  BY MessageIs
<1>2. PICK g : Taken(g, text)
  BY ReadIs
<1>3. PICK p \in 0..(Len(text) - 1) :
        /\ \A i \in 0..p : Unbegun(g[i])
        /\ Parse(text)[1][1] = text[p + 1]
  BY <1>1, <1>2, FirstWord
<1>4. Len(text) \in Nat /\ p + 1 \in 1..Len(text) /\ text[p + 1] = "update"
  <2>1. Len(text) \in Nat
    BY LenProperties
  <2> QED BY <1>1, <1>3, <2>1
<1>5. HasUpdate(text)
  BY <1>4 DEF HasUpdate
<1>6. ASSUME text[1] \in Commands, p # 0 PROVE FALSE
  <2>1. 1 \in 1..Len(text) /\ 1 \in 0..p /\ 1 - 1 = 0
    BY <1>3, <1>4, <1>6
  <2>2. g[0] = Unread /\ g[1] = Take(g[1 - 1], text[1])
    BY <1>2, <2>1 DEF Taken
  <2>3. text[1] \in Lexemes /\ text[1] \notin {"\n", "[", "]", " "}
    BY <1>6, <2>1, ElementOfSeq DEF Commands
  <2>4. Unread.buf = <<>> /\ ~Unread.inside
    BY DEF Unread
  <2>5. Take(Unread, text[1]) = [tokens |-> Unread.tokens, buf |-> Append(Unread.buf, text[1]),
                                 inside |-> Unread.inside]
    BY <2>3, UnreadTyped, TakeIs
  <2>6. g[1].buf = Append(<<>>, text[1])
    BY <2>1, <2>2, <2>4, <2>5
  <2>7. g[1].buf # <<>>
    BY <2>3, <2>6, AppendFirst
  <2> QED BY <1>3, <2>1, <2>7 DEF Unbegun
<1> QED BY <1>4, <1>5, <1>6

\* As long as nothing is cut a job begins like the request of its first call.
LEMMA BeginIs ==
  ASSUME Base, NEW job \in Requests, Begin(job)
  PROVE  LET c == job.calls[1]
         IN /\ c \in Made /\ Len(job.calls) \in Nat /\ Len(job.calls) >= 1
            /\ job.text # <<>> /\ job.text[1] \in Commands
            /\ job.text[1] = "update" => Request(c).op = "update"
            /\ Len(job.calls) = 1 => job.calls = <<c>> /\ job.text = TextOf(Request(c))
<1>1. PICK c : c = job.calls[1]
  OBVIOUS
<1>2. job.calls \in Seq(Made) /\ Len(job.calls) \in Nat /\ Len(job.calls) >= 1
  <2>1. job.calls \in Seq(Made)
    BY DEF Requests
  <2> QED BY <2>1, LenProperties DEF Begin
<1>3. c \in Made
  <2>1. 1 \in 1..Len(job.calls)
    BY <1>2
  <2> QED BY <1>1, <1>2, <2>1, ElementOfSeq
<1>4. Request(c) \in CallType /\ world \in WorldType
  BY <1>3, CallsMade
<1>5. PICK t : t = TextOf(Request(c))
  OBVIOUS
<1>6. /\ Starts(t) /\ Proper(Mine, t)
      /\ Request(c).op # "update" => \A i \in 1..Len(t) : t[i] # "update"
  BY <1>4, <1>5, RequestsProper
<1>7. job.text # <<>> /\ job.text[1] = t[1] /\ (Len(job.calls) = 1 => job.text = t)
  BY <1>1, <1>5 DEF Begin
<1>8. t[1] \in Commands /\ 1 \in 1..Len(t)
  <2>1. Len(t) \in Nat /\ Len(t) >= 2
    BY <1>6, LenProperties DEF Starts, Proper
  <2>2. 1 \in 1..Len(t)
    BY <2>1
  <2> QED BY <1>6, <2>2 DEF Starts
<1>9. Len(job.calls) = 1 => job.calls = <<c>>
  BY <1>1, <1>2
<1> QED BY <1>1, <1>2, <1>3, <1>5, <1>6, <1>7, <1>8, <1>9

LEMMA HandleKeeps ==
  ASSUME SessionInv, NEW i \in DOMAIN jobs, Handle(i)
  PROVE  SessionInv'
<1> USE DEF SessionInv
<1>1. PICK job : job = jobs[i]
  OBVIOUS
<1>2. PICK m : m = MessageOf(job.text)
  OBVIOUS
<1>3. PICK said : said = Said(m)
  OBVIOUS
<1>4. /\ up /\ HandleClient(Fd, Me, MessageOf(job.text)) /\ jobs' = RemoveAt(jobs, i)
      /\ stream' = IF "open" \notin conn THEN stream
                   ELSE stream \o SaidTo(job.calls, said)
      /\ odd' = IF "threeErrors" \in ToSet(said) THEN odd \cup {"kicked"} ELSE odd
      /\ UNCHANGED <<world, peerVars, sent, conn, main>>
  BY <1>1, <1>2, <1>3, Zenon DEF Handle, SaidTo
<1>5. /\ jobs \in Seq(Requests) /\ stream \in Seq(Answers) /\ i \in 1..Len(jobs)
      /\ Len(jobs) \in Nat /\ Len(stream) \in Nat
  <2>1. jobs \in Seq(Requests) /\ stream \in Seq(Answers)
    BY DEF Base
  <2> QED BY <2>1, LenProperties
<1>c. PICK cut \in BOOLEAN : cut <=> "cut" \in odd
  OBVIOUS
<1>6. job \in Requests /\ Readable(Mine, job.text, cut) /\ job.calls \in Seq(Made) /\ job.text \in Seq(Lexemes)
  <2>1. job \in Requests
    BY <1>1, <1>5, ElementOfSeq
  <2>2. Readable(Mine, job.text, "cut" \in odd)
    BY <1>1, <1>5 DEF Texts
  <2>3. Readable(Mine, job.text, cut)
    BY <1>c, <2>2 DEF Readable
  <2> QED BY <2>1, <2>3 DEF Requests
<1>7. /\ ListsInv'
      /\ \/ toClose' = toClose
         \/ toClose' = Fd /\ (m.op = "exit" \/ "threeErrors" \in ToSet(said))
      /\ said \in Seq(Sayings)
      /\ Len(said) <= 1 \/ "threeErrors" \in ToSet(said)
      /\ SeededByMe \subseteq SeededByMe'
      /\ \/ SeededByMe' \subseteq SeededByMe \cup Library \cup Misread
         \/ m.op = "update" /\ ~(Updated(m.tokens, "seed") \cap Keys = {})
      /\ job.text = Mine /\ up' /\ "cut" \notin odd => Library \subseteq SeededByMe'
  <2>1. ListsInv /\ world \in WorldType
    BY CallsMade DEF Base
  <2>2. SeededByMe = SeededBy(files, MyAddr) /\ SeededByMe' = SeededBy(files', MyAddr)
    BY DEF SeededByMe, SeededBy
  <2>3. /\ ListsInv'
        /\ \/ toClose' = toClose
           \/ toClose' = Fd /\ (m.op = "exit" \/ "threeErrors" \in ToSet(Said(m)))
        /\ Said(m) \in Seq(Sayings)
        /\ Len(Said(m)) <= 1 \/ "threeErrors" \in ToSet(Said(m))
        /\ SeededBy(files, MyAddr) \subseteq SeededBy(files', MyAddr)
        /\ \/ SeededBy(files', MyAddr)
                \subseteq SeededBy(files, MyAddr) \cup Known(world.library, cut)
           \/ m.op = "update" /\ ~(Updated(m.tokens, "seed") \cap Keys = {})
        /\ job.text = Mine /\ up' /\ cut = FALSE => Library \subseteq SeededBy(files', MyAddr)
    BY <1>2, <1>4, <1>6, <2>1, HandleStep, Zenon
  <2>4. Known(world.library, cut) = Library \cup Misread
    BY <1>c DEF Known, Library, Misread
  <2>5. "cut" \notin odd => cut = FALSE
    BY <1>c
  <2>6. \/ SeededByMe' \subseteq SeededByMe \cup Library \cup Misread
        \/ m.op = "update" /\ ~(Updated(m.tokens, "seed") \cap Keys = {})
    BY <2>2, <2>3, <2>4
  <2>7. job.text = Mine /\ up' /\ "cut" \notin odd => Library \subseteq SeededByMe'
    BY <2>2, <2>3, <2>5, Zenon
  <2> QED BY <1>3, <2>2, <2>3, <2>6, <2>7, Zenon
<1>8. Len(said) \in Nat /\ (Len(said) # 0 => up')
  <2>1. Len(said) \in Nat
    BY <1>7, LenProperties
  <2>2. ~up' => said = <<>>
    BY <1>3 DEF Said
  <2> QED BY <2>1, <2>2
<1>9. /\ jobs' \in Seq(Requests) /\ Len(jobs') = Len(jobs) - 1
      /\ \A j \in 1..Len(jobs') : \E k \in 1..Len(jobs) : jobs'[j] = jobs[k]
  <2>1. /\ jobs' \in Seq(Requests) /\ Len(jobs') = Len(jobs) - 1
        /\ \A j \in 1..(Len(jobs) - 1) : jobs'[j] = IF j < i THEN jobs[j] ELSE jobs[j + 1]
    BY <1>4, <1>5, RemoveAtIs
  <2>2. \A j \in 1..(Len(jobs) - 1) : j \in 1..Len(jobs) /\ j + 1 \in 1..Len(jobs)
    BY <1>5
  <2> QED BY <2>1, <2>2
<1>10. /\ stream' \in Seq(Answers)
       /\ "open" \in conn => Len(stream') = Len(stream) + Len(said)
       /\ \A j \in 1..Len(stream') : \/ j \in 1..Len(stream) /\ stream'[j] = stream[j]
                                     \/ Len(said) # 0 /\ stream'[j].calls = job.calls
  <2>1. CASE "open" \notin conn
    BY <1>4, <1>5, <2>1
  <2>2. CASE "open" \in conn
    <3>1. stream' = stream \o SaidTo(job.calls, said)
      BY <1>4, <2>2
    <3>2. PICK t : t = stream'
      OBVIOUS
    <3>3. PICK calls : calls = job.calls
      OBVIOUS
    <3>4. calls \in Seq(Made) /\ stream \in Seq(Answers) /\ said \in Seq(Sayings)
      BY <1>5, <1>6, <1>7, <3>3
    <3>5. t = stream \o SaidTo(calls, said)
      BY <3>1, <3>2, <3>3
    <3>6. Answered(t, stream, calls, said)
      BY <3>4, <3>5, AnsweredIs
    <3> QED BY <3>2, <3>3, <3>6 DEF Answered
  <2> QED BY <2>1, <2>2
<1>11. /\ odd \subseteq odd' /\ odd' \subseteq odd \cup {"kicked"}
       /\ odd' = {} => "threeErrors" \notin ToSet(said)
  BY <1>4
<1>12. /\ world' = world /\ step' = step /\ waiting' = waiting /\ got' = got /\ mixed' = mixed
       /\ sent' = sent /\ conn' = conn /\ main' = main
  BY <1>4 DEF peerVars
<1>13. /\ Made' = Made /\ Mine' = Mine /\ Library' = Library /\ (Updating' <=> Updating)
       /\ Requests' = Requests /\ Answers' = Answers /\ Calls' = Calls
       /\ \A r : Whole(r)' <=> Whole(r)
       /\ \A r : Begin(r)' <=> Begin(r)
       /\ \A r : Heard(r)' <=> Heard(r)
       /\ \A c : Request(c)' = Request(c)
  BY <1>12, SameCalls DEF Calls
<1>14. Current' = Current /\ Ended' = Ended
  BY <1>12, <1>13 DEF Current, Ended
<1>15. Base'
  <2>1. /\ world' \in Worlds /\ mixed' \subseteq Made' /\ odd' \subseteq {"cut", "kicked"}
        /\ conn' \subseteq {"open", "watched"} /\ main' \in {"select", "top"}
        /\ toClose' \in {NoFd, Fd}
    BY <1>7, <1>11, <1>12, <1>13 DEF Base
  <2>2. /\ step' \in [Users -> Nat \ {0}]
        /\ \A v \in Users : step'[v] <= Len(world'.script[v]) + 1
        /\ waiting' \subseteq {v \in Users : step'[v] # 1}
    BY <1>12 DEF Base
  <2>3. /\ got' \in [Calls -> Seq(Answers')] /\ sent' \in Seq(Requests') /\ jobs' \in Seq(Requests')
        /\ stream' \in Seq(Answers')
    BY <1>9, <1>10, <1>12, <1>13 DEF Base
  <2>4. \A j \in 1..Len(jobs') : Len(jobs'[j].text) <= world'.limit + 1
    BY <1>9, <1>12 DEF Base
  <2> QED BY <1>7, <1>13, <2>1, <2>2, <2>3, <2>4 DEF Base
<1>16. Texts'
  <2>1. \A t : Readable(Mine, t, "cut" \in odd) => Readable(Mine, t, "cut" \in odd')
    BY <1>11 DEF Readable
  <2>2. \A j \in 1..Len(jobs') : Readable(Mine, jobs'[j].text, "cut" \in odd')
    BY <1>9, <2>1 DEF Texts
  <2> QED BY <1>12, <1>13, <2>2 DEF Texts
<1>17. Updates'
  BY <1>9, <1>12, <1>13 DEF Updates
<1>18. Uncut'
  <2> SUFFICES ASSUME "cut" \notin odd' PROVE Uncut'
    BY DEF Uncut
  <2>1. "cut" \notin odd
    BY <1>11
  <2> QED BY <1>9, <1>12, <1>13, <2>1 DEF Uncut
<1>19. "cut" \notin odd => Begin(job)
  BY <1>1, <1>5 DEF Uncut
<1>20. Orderly'
  <2> SUFFICES ASSUME odd' = {} PROVE Orderly'
    BY DEF Orderly
  <2>1. odd = {} /\ Len(said) <= 1 /\ conn = {"open", "watched"} /\ toClose # Fd
    BY <1>7, <1>11 DEF Orderly
  <2>2. toClose' # Fd
    <3>1. m.op # "exit"
      <4>1. job.text[1] \in Commands
        BY <1>6, <1>19, <2>1, BeginIs
      <4>2. m.op = "exit" => job.text[1] = "exit"
        BY <1>2, MessageIs
      <4> QED BY <4>1, <4>2 DEF Commands
    <3> QED BY <1>7, <1>11, <2>1, <3>1
  <2>3. Len(sent') + Len(jobs') + Len(stream') <= Cardinality(waiting')
    <3>1. Len(sent) + Len(jobs) + Len(stream) <= Cardinality(waiting) /\ Cardinality(waiting) \in Nat
      BY <2>1, CallsMade, FS_CardinalityType DEF Orderly
    <3>2. Len(sent) \in Nat /\ Len(sent') = Len(sent)
      <4>1. sent \in Seq(Requests)
        BY DEF Base
      <4> QED BY <1>12, <4>1, LenProperties
    <3>3. Len(stream') = Len(stream) + Len(said) /\ Len(jobs') = Len(jobs) - 1
      BY <1>9, <1>10, <2>1
    <3> QED BY <1>5, <1>8, <1>12, <2>1, <3>1, <3>2, <3>3
  <2>4. \A x : Alone(x)' <=> Alone(x)
    BY <1>12, <1>14 DEF Alone
  <2>5. \A j \in 1..Len(sent') : Alone(sent[j].calls)'
    <3>1. \A j \in 1..Len(sent) : Alone(sent[j].calls)
      BY <2>1 DEF Orderly
    <3> QED BY <1>12, <2>4, <3>1
  <2>6. Alone(job.calls)
    BY <1>1, <1>5, <2>1 DEF Orderly
  <2>7. \A j \in 1..Len(jobs') : Alone(jobs[j].calls)'
    <3>1. \A j \in 1..Len(jobs) : Alone(jobs[j].calls)
      BY <2>1 DEF Orderly
    <3>2. \A j \in 1..Len(jobs') : Alone(jobs'[j].calls)
      BY <1>9, <3>1
    <3> QED BY <2>4, <3>2
  <2>8. \A j \in 1..Len(stream') : Alone(stream[j].calls)'
    <3>1. \A j \in 1..Len(stream) : Alone(stream[j].calls)
      BY <2>1 DEF Orderly
    <3>2. \A j \in 1..Len(stream') : Alone(stream'[j].calls)
      BY <1>10, <2>6, <3>1
    <3> QED BY <2>4, <3>2
  <2>9. conn' = {"open", "watched"} /\ \A c \in Current' \ mixed' : waiting' = {c[1]}
    BY <1>12, <1>14, <2>1 DEF Orderly
  <2> QED BY <2>2, <2>3, <2>5, <2>7, <2>8, <2>9 DEF Orderly
<1>21. OwnReply'
  BY <1>11, <1>12, <1>14 DEF OwnReply
<1>22. Seeds'
  <2> SUFFICES ASSUME "cut" \notin odd' PROVE Seeds'
    BY DEF Seeds
  <2>1. "cut" \notin odd
    BY <1>11
\* Who is answered with an announce that came alone has announced all.
  <2>2. ASSUME Heard(job), Len(said) # 0 PROVE Library \subseteq SeededByMe'
    <3>1. PICK c \in Made : job.calls = <<c>> /\ Request(c).op = "announce"
      BY <2>2 DEF Heard
    <3>2. Len(job.calls) = 1 /\ job.calls[1] = c
      BY <3>1
    <3>3. job.text = TextOf(Request(c))
      BY <1>6, <1>19, <2>1, <3>2, BeginIs
    <3>4. job.text = Mine
      BY <3>1, <3>3, CallsMade, RequestsProper
    <3> QED BY <1>7, <1>8, <2>1, <2>2, <3>4
  <2>3. \A x, y : x.calls = y.calls => (Heard(x) <=> Heard(y))
    BY DEF Heard
  <2>4. \A j \in 1..Len(stream') : Heard(stream[j])' => Library \subseteq SeededByMe'
    <3> SUFFICES ASSUME NEW j \in 1..Len(stream'), Heard(stream'[j]) PROVE Library \subseteq SeededByMe'
      BY <1>13
    <3>1. CASE j \in 1..Len(stream) /\ stream'[j] = stream[j]
      <4>1. Library \subseteq SeededByMe
        BY <2>1, <3>1 DEF Seeds
      <4> QED BY <1>7, <4>1
    <3>2. CASE Len(said) # 0 /\ stream'[j].calls = job.calls
      BY <2>2, <2>3, <3>2
    <3> QED BY <1>10, <3>1, <3>2
  <2>5. \A c \in Calls : \A j \in 1..Len(got'[c]) : Heard(got[c][j])' => Library \subseteq SeededByMe'
    <3> SUFFICES ASSUME NEW c \in Calls, NEW j \in 1..Len(got'[c]), Heard(got'[c][j])
                 PROVE  Library \subseteq SeededByMe'
      BY <1>13
    <3>1. Library \subseteq SeededByMe
      BY <1>12, <2>1 DEF Seeds
    <3> QED BY <1>7, <3>1
  <2> QED BY <1>13, <2>4, <2>5 DEF Seeds
<1>23. SeededOwn'
  <2> SUFFICES ASSUME \A c \in Made : Request(c).op = "update" => odd' = {} /\ c \notin mixed
               PROVE  SeededByMe' \subseteq Library \cup Misread
    <3>1. Misread \subseteq Misread'
      BY <1>11, <1>13, MisreadGrows
    <3> QED BY <1>12, <1>13, <3>1 DEF SeededOwn
  <2>1. \A c \in Made : Request(c).op = "update" => odd = {} /\ c \notin mixed
    BY <1>11
  <2>2. SeededByMe \subseteq Library \cup Misread
    BY <2>1 DEF SeededOwn
  <2>3. SUFFICES ASSUME m.op = "update", ~(Updated(m.tokens, "seed") \cap Keys = {})
                 PROVE  FALSE
    BY <1>7, <2>2
\* The job begins with update, so it is an update that came alone.
  <2>4. MessageOf(job.text).op = "update"
    BY <1>2, <2>3
  <2>5. HasUpdate(job.text) /\ (job.text # <<>> /\ job.text[1] \in Commands => job.text[1] = "update")
    BY <1>6, <2>4, UpdateBegins
  <2>6. Updating
    BY <1>1, <1>5, <2>5 DEF Updates
  <2>7. odd = {}
    BY <2>1, <2>6 DEF Updating
  <2>8. PICK c : c = job.calls[1]
    OBVIOUS
  <2>9. /\ c \in Made /\ Len(job.calls) \in Nat /\ Len(job.calls) >= 1
        /\ Request(c).op = "update"
        /\ Len(job.calls) = 1 => job.text = TextOf(Request(c))
    BY <1>6, <1>19, <2>5, <2>7, <2>8, BeginIs
  <2>10. c \notin mixed
    BY <2>1, <2>9
  <2>11. Len(job.calls) = 1
    <3>1. Alone(job.calls)
      BY <1>1, <1>5, <2>7 DEF Orderly
    <3>2. 1 \in 1..Len(job.calls)
      BY <2>9
    <3>3. Len(job.calls) <= 1 \/ job.calls[1] \in mixed
      BY <3>1, <3>2 DEF Alone
    <3>4. Len(job.calls) <= 1
      BY <2>8, <2>10, <3>3
    <3>5. Len(job.calls) \in Nat /\ Len(job.calls) >= 1
      BY <2>9
    <3>6. \A l \in Nat : l <= 1 /\ l >= 1 => l = 1
      OBVIOUS
    <3> QED BY <3>4, <3>5, <3>6, Zenon
  <2>12. job.text = UpdateText(world.library)
    BY <2>9, <2>11, CallsMade, RequestsProper
  <2> QED BY <1>2, <2>3, <2>12, CallsMade, WholeUpdate
<1> QED BY <1>15, <1>16, <1>17, <1>18, <1>20, <1>21, <1>22, <1>23

-----------------------------------------------------------------------------
(* The invariant holds. *)

LEMMA InitSession ==
  ASSUME Init
  PROVE  SessionInv
<1>1. /\ world \in Worlds /\ step = [u \in Users |-> 1] /\ waiting = {} /\ got = [c \in Calls |-> <<>>]
      /\ sent = <<>> /\ stream = <<>> /\ jobs = <<>> /\ conn = {"open", "watched"}
      /\ main = "select" /\ mixed = {} /\ odd = {} /\ toClose = NoFd
  BY DEF Init
<1>2. PICK mine : mine = [addr |-> Other, sock |-> OtherFd]
  OBVIOUS
<1>3. PICK listed : listed = [meta |-> Described, seed |-> {Other}, leech |-> {}, wild |-> {}]
  OBVIOUS
<1>4. peers = <<mine>> /\ files = [k \in {OtherKey} |-> listed]
  BY <1>2, <1>3 DEF Init, NewFile
<1>5. PeersInv
  <2>1. mine \in PeerEntry
    BY <1>2, PlacesAssumption DEF PeerEntry
  <2>2. peers \in Seq(PeerEntry) /\ DOMAIN peers = {1}
    BY <1>4, <2>1
  <2> QED BY <2>2 DEF PeersInv, Distinct
<1>6. ErrsInv
  BY EmptySeq DEF Init, ErrsInv, Distinct
<1>7. FilesOver(files, Addr)
  <2>1. listed \in FileOver(Addr) /\ listed.seed # {}
    BY <1>3, PlacesAssumption, KeysAssumption DEF FileOver
  <2> QED BY <1>4, <2>1, KeysAssumption DEF FilesOver
<1>8. streak \in [Remotes -> Nat] /\ up \in BOOLEAN
  BY DEF Init
<1>9. ListsInv
  BY <1>1, <1>5, <1>6, <1>7, <1>8 DEF ListsInv
<1>10. Made = {} /\ Current = {} /\ Ended = {}
  <2>1. Made = {}
    BY <1>1 DEF Made, Calls
  <2> QED BY <1>1, <2>1 DEF Current, Ended
<1>11. SeededByMe = {}
  BY <1>3, <1>4, PlacesAssumption DEF SeededByMe
<1>12. /\ Len(sent) = 0 /\ Len(stream) = 0 /\ Len(jobs) = 0 /\ Cardinality(waiting) = 0
  BY <1>1, FS_EmptySet
<1>13. Base
  <2>1. \A u \in Users : Len(world.script[u]) \in Nat
    <3>1. \A u \in Users : world.script[u] \in Seq(CallType)
      BY <1>1, WorldsAssumption DEF WorldType
    <3> QED BY <3>1, LenProperties
  <2>2. step \in [Users -> Nat \ {0}] /\ \A u \in Users : step[u] <= Len(world.script[u]) + 1
    BY <1>1, <2>1
  <2>3. got \in [Calls -> Seq(Answers)] /\ sent \in Seq(Requests) /\ jobs \in Seq(Requests)
        /\ stream \in Seq(Answers)
    BY <1>1
  <2> QED BY <1>1, <1>9, <1>12, <2>2, <2>3 DEF Base
<1>14. Texts /\ Updates /\ Uncut
  BY <1>12 DEF Texts, Updates, Uncut
<1>15. Orderly
  <2>1. toClose # Fd
    BY <1>1, NoFdAssumption, PlacesAssumption
  <2> QED BY <1>1, <1>10, <1>12, <2>1 DEF Orderly
<1>16. OwnReply /\ SeededOwn
  BY <1>10, <1>11 DEF OwnReply, SeededOwn
<1>17. Seeds
  <2>1. \A c \in Calls : Len(got[c]) = 0
    BY <1>1
  <2> QED BY <1>12, <2>1 DEF Seeds
<1> QED BY <1>13, <1>14, <1>15, <1>16, <1>17 DEF SessionInv

LEMMA NextSession ==
  ASSUME SessionInv, [Next]_vars
  PROVE  SessionInv'
<1>1. ASSUME NEW u \in Users, Send(u) PROVE SessionInv'
  BY <1>1, SendKeeps
<1>2. ASSUME NEW u \in Users, Read(u) PROVE SessionInv'
  BY <1>2, ReadKeeps
<1>3. ASSUME NEW u \in Users, ReadEnd(u) PROVE SessionInv'
  BY <1>3, ReadEndKeeps
<1>4. CASE Recv
  BY <1>4, RecvKeeps
<1>5. CASE Top
  BY <1>5, TopKeeps
<1>6. ASSUME NEW i \in DOMAIN jobs, Handle(i) PROVE SessionInv'
  BY <1>6, HandleKeeps
<1>7. CASE Abort
  BY <1>7, AbortKeeps
<1>8. CASE Wake
  BY <1>8, WakeKeeps
<1>9. CASE UNCHANGED vars
  <2>1. /\ UNCHANGED <<tables, streak, world, peerVars, jobs, odd>>
        /\ up' = up /\ toClose' = toClose /\ main' = main /\ conn' = conn /\ sent' = sent
        /\ stream' = stream
    BY <1>9 DEF vars, handlerVars, netVars, tables, peerVars
  <2>2. /\ up \in BOOLEAN /\ conn \subseteq {"open", "watched"} /\ (odd = {} => toClose # Fd)
        /\ toClose \in {NoFd, Fd} /\ main \in {"select", "top"}
    BY DEF SessionInv, Base, ListsInv, Orderly
  <2> QED BY <2>1, <2>2, ClosingKeeps
<1> QED BY <1>1, <1>2, <1>3, <1>4, <1>5, <1>6, <1>7, <1>8, <1>9
        DEF Next, Peer, Tracker, HandleSome

\* The invariant of the session: what is on its way is a stretch of requests
\* (TrackerClient.java:15-27, main.c:118-142), and as long as nothing odd
\* happened there is no more of it than there are threads that wait.
THEOREM SessionInvariance == Spec => []SessionInv
BY InitSession, NextSession, PTL DEF Spec

\* The tables, the messages and the replies have their types: an announce that
\* is joined or cut puts nothing in the file list but keys and descriptions of
\* the library, or keys cut off (handler.c:184-219, 253-307), and a job is no
\* longer than the buffer, the lexeme it ends within counted (main.c:118-126).
THEOREM TypeCorrect == Spec => []TypeOK
<1>1. ASSUME SessionInv PROVE TypeOK
  <2>1. Base /\ ListsInv
    BY <1>1 DEF SessionInv, Base
  <2>2. /\ \A k \in DOMAIN files : files[k] \in FileType
        /\ DOMAIN files \subseteq Keys
        /\ peers \in Seq([addr : Addr, sock : Fds])
    BY <2>1, ListsInvImplies DEF ListsInv, PeersInv, PeerEntry
  <2>3. step \in [Users -> 1..(Longest + 1)]
    <3>1. ASSUME NEW u \in Users PROVE step[u] \in 1..(Longest + 1)
      <4>1. step[u] \in Nat \ {0} /\ step[u] <= Len(world.script[u]) + 1
        BY <2>1 DEF Base
      <4>2. Len(world.script[u]) \in Nat /\ Len(world.script[u]) <= Longest /\ Longest \in Nat
        <5>1. world.script[u] \in Seq(CallType)
          BY <2>1, CallsMade DEF WorldType
        <5> QED BY <2>1, <5>1, WorldsAssumption, UsersAssumption, LenProperties DEF Base
      <4> QED BY <4>1, <4>2
    <3> QED BY <2>1, <3>1 DEF Base
  <2>4. Seq(Made) \subseteq Seq(Calls)
    BY <2>1, CallsMade, SeqOfMore
  <2>5. Answers \subseteq [calls : Seq(Calls), said : Sayings]
    BY <2>4 DEF Answers
  <2>6. Seq(Answers) \subseteq Seq([calls : Seq(Calls), said : Sayings])
    BY <2>5, SeqOfMore
  <2>7. /\ got \in [Calls -> Seq([calls : Seq(Calls), said : Sayings])]
        /\ stream \in Seq([calls : Seq(Calls), said : Sayings])
    BY <2>1, <2>6 DEF Base
  <2>8. \A i \in DOMAIN jobs : jobs[i].calls \in Seq(Calls) /\ Len(jobs[i].text) <= world.limit + 1
    <3>1. jobs \in Seq(Requests) /\ DOMAIN jobs = 1..Len(jobs)
      BY <2>1, LenProperties DEF Base
    <3>2. \A i \in 1..Len(jobs) : jobs[i] \in Requests
      BY <3>1, ElementOfSeq
    <3> QED BY <2>1, <2>4, <3>1, <3>2 DEF Base, Requests
  <2>9. waiting \subseteq Users /\ toClose \in {NoFd, Fd} /\ conn \subseteq {"open", "watched"}
        /\ main \in {"select", "top"} /\ mixed \subseteq Made /\ odd \subseteq {"cut", "kicked"}
    BY <2>1 DEF Base
  <2> QED BY <2>2, <2>3, <2>7, <2>8, <2>9 DEF TypeOK
<1> QED BY <1>1, SessionInvariance, PTL

\* A call that no other one overlapped reads one reply, to its own request
\* (TrackerClient.java:15-27), whatever overlapped before it.
THEOREM OwnReplies == Spec => []OwnReply
<1>1. SessionInv => OwnReply
  BY DEF SessionInv
<1> QED BY <1>1, SessionInvariance, PTL

\* The answer to an announce that came alone was sent behind its last file: the
\* peer is listed with its whole library then, and no request of its own takes it
\* back (handler.c:184-219, 253-307).
THEOREM AnnouncedSeedsAll == Spec => []AnnouncedSeeds
<1>1. ASSUME SessionInv PROVE AnnouncedSeeds
  <2> SUFFICES ASSUME "cut" \notin odd, NEW c \in Ended, Request(c).op = "announce",
                      got[c] = <<[calls |-> <<c>>, said |-> "ok"]>>
               PROVE  Library \subseteq SeededByMe
    BY DEF AnnouncedSeeds
  <2>1. c \in Made /\ c \in Calls
    BY <1>1, CallsMade DEF SessionInv, Ended
  <2>2. Len(got[c]) = 1 /\ got[c][1].calls = <<c>>
    OBVIOUS
  <2>3. Heard(got[c][1])
    BY <2>1, <2>2 DEF Heard
  <2>4. 1 \in 1..Len(got[c])
    BY <2>2
  <2> QED BY <1>1, <2>1, <2>3, <2>4 DEF SessionInv, Seeds
<1> QED BY <1>1, SessionInvariance, PTL

\* However the requests of the peer are joined and cut, the tracker lists it as
\* a seeder of nothing but its library and, after a cut, what a key becomes when
\* its end is cut off (main.c:126, handler.c:188-209), but for an update that
\* something can come behind (handler.c:431-465).
THEOREM SeededOwnOnly == Spec => []SeededOwn
<1>1. SessionInv => SeededOwn
  BY DEF SessionInv
<1> QED BY <1>1, SessionInvariance, PTL
=============================================================================
