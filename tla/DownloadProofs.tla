---------------------------- MODULE DownloadProofs ----------------------------
(***************************************************************************)
(* Theorems about Download, for any file, peers and worlds: what the plan, *)
(* the messages and the answers of Pieces are, and what a download makes   *)
(* of them.  The recursive functions of Pieces are taken apart by          *)
(* induction over a set (Upwards): such a function exists because it does  *)
(* up to every piece, and what it returns holds up to every piece.         *)
(***************************************************************************)
EXTENDS Download, SequenceTheorems, FiniteSetTheorems, NaturalsInduction,
        WellFoundedInduction, TLAPS

-----------------------------------------------------------------------------
(* Natural numbers. *)

LEMMA MinIs ==
  ASSUME NEW I \in SUBSET Nat, I # {}
  PROVE  Min(I) \in I /\ \A i \in I : Min(I) <= i
<1>1. PICK x \in I : \A y \in I : ~(<<y, x>> \in OpToRel(<, Nat))
  BY NatLessThanWellFounded, WFMin
<1>2. \A y \in I : ~(y < x)
  BY <1>1, Zenon DEF OpToRel
<1>3. \A y \in I : x <= y
  BY <1>2
<1> QED BY <1>3 DEF Min

\* Induction, of a set: no smallest number is missing.
LEMMA Upwards ==
  ASSUME NEW T, 0 \in T, \A k \in Nat : k \in T => k + 1 \in T
  PROVE  \A k \in Nat : k \in T
<1> SUFFICES ASSUME Nat \ T # {} PROVE FALSE
  OBVIOUS
<1> DEFINE m == Min(Nat \ T)
<1>1. m \in Nat \ T /\ \A k \in Nat \ T : m <= k
  BY MinIs
<1> HIDE DEF m
<1>2. m # 0 /\ m - 1 \in Nat
  BY <1>1
<1>3. m - 1 \in T
  BY <1>1, <1>2
<1> QED BY <1>1, <1>2, <1>3

\* g begins with b, and is what F makes of it, up to k.
Runs(g, b, F, S, k) ==
  /\ g \in [0..k -> S]
  /\ g[0] = b
  /\ \A i \in 1..k : g[i] = F[g[i - 1]][i - 1]

\* A function defined by what comes next exists, whatever the values.
LEMMA Recursion ==
  ASSUME NEW S, NEW b \in S, NEW m \in Nat, NEW F \in [S -> [0..(m - 1) -> S]]
  PROVE  \E g : Runs(g, b, F, S, m)
<1> DEFINE T == {k \in Nat : k <= m => \E g : Runs(g, b, F, S, k)}
<1>1. 0 \in T
  <2>1. Runs([i \in 0..0 |-> b], b, F, S, 0)
    BY DEF Runs
  <2> QED BY <2>1
<1>2. ASSUME NEW k \in Nat, k \in T PROVE k + 1 \in T
  <2> SUFFICES ASSUME k + 1 <= m PROVE \E h : Runs(h, b, F, S, k + 1)
    OBVIOUS
  <2>1. PICK g : Runs(g, b, F, S, k)
    BY <1>2
  <2>2. F[g[k]][k] \in S
    BY <2>1 DEF Runs
  <2> DEFINE h == [i \in 0..(k + 1) |-> IF i = k + 1 THEN F[g[k]][k] ELSE g[i]]
  <2>3. h \in [0..(k + 1) -> S] /\ h[0] = b /\ h[k + 1] = F[h[k]][k]
    <3>1. \A i \in 0..(k + 1) : h[i] \in S
      BY <2>1, <2>2 DEF Runs
    <3>2. h[0] = g[0] /\ h[k] = g[k] /\ h[k + 1] = F[g[k]][k]
      OBVIOUS
    <3> QED BY <2>1, <3>1, <3>2 DEF Runs
  <2>4. \A i \in 1..k : h[i] = F[h[i - 1]][i - 1]
    BY <2>1 DEF Runs
  <2> HIDE DEF h
  <2>5. Runs(h, b, F, S, k + 1)
    <3>1. \A i \in 1..(k + 1) : h[i] = F[h[i - 1]][i - 1]
      <4> SUFFICES ASSUME NEW i \in 1..(k + 1) PROVE h[i] = F[h[i - 1]][i - 1]
        OBVIOUS
      <4>1. CASE i = k + 1
        <5>1. i - 1 = k
          BY <4>1
        <5> QED BY <2>3, <4>1, <5>1
      <4>2. CASE i # k + 1
        <5>1. i \in 1..k
          BY <4>2
        <5> QED BY <2>4, <5>1
      <4> QED BY <4>1, <4>2
    <3> QED BY <2>3, <3>1 DEF Runs
  <2> QED BY <2>5
<1>3. m \in T
  <2> HIDE DEF T
  <2> QED BY <1>1, <1>2, Upwards
<1> QED BY <1>3

-----------------------------------------------------------------------------
(* Division. *)

LEMMA DivIs ==
  ASSUME NEW a \in Nat, NEW b \in Nat \ {0}
  PROVE  a \div b \in Nat /\ a % b \in 0..(b - 1) /\ a = b * (a \div b) + (a % b)
OBVIOUS

LEMMA Mono ==
  ASSUME NEW i \in Int, NEW j \in Int, i <= j, NEW b \in Nat
  PROVE  i * b <= j * b
OBVIOUS

-----------------------------------------------------------------------------
(* The plan. *)

\* An order of a set visits all of it, each element once.
LEMMA OrderIs ==
  ASSUME NEW S, IsFiniteSet(S), NEW order \in Orders(S)
  PROVE  /\ Cardinality(S) \in Nat /\ order \in [1..Cardinality(S) -> S]
         /\ \A i, j \in DOMAIN order : order[i] = order[j] => i = j
         /\ Range(order) = S
<1> DEFINE c == Cardinality(S)
<1>1. c \in Nat /\ order \in [1..c -> S]
      /\ \A i, j \in DOMAIN order : order[i] = order[j] => i = j
  BY FS_CardinalityType DEF Orders
<1>2. order \in Injection(1..c, S)
  BY <1>1 DEF Injection, IsInjective
<1>3. Cardinality(1..c) = c
  BY <1>1, FS_Interval
<1>4. order \in Surjection(1..c, S)
  BY <1>2, <1>3, FS_Injection
<1>5. Range(order) = S
  BY <1>1, <1>4 DEF Surjection, Range
<1> QED BY <1>1, <1>5

\* A round gives the piece to nobody if nobody has it, and else to one of its
\* owners with the fewest pieces.
Given(new, shares, i, heard, R) ==
  \/ (\A q \in R : i \notin heard[q]) /\ new = shares
  \/ \E p \in R : /\ i \in heard[p]
                  /\ new = [shares EXCEPT ![p] = @ \cup {i}]
                  /\ \A q \in R : i \in heard[q] =>
                       Cardinality(shares[p]) <= Cardinality(shares[q])

LEMMA GiveIs ==
  ASSUME NEW N, IsFiniteSet(N), NEW R, NEW c \in Nat, NEW order \in [1..c -> R],
         NEW shares \in [R -> SUBSET N], NEW i \in N, NEW heard,
         Range(order) = R
  PROVE  Given(Give(shares, i, heard, order), shares, i, heard, R)
<1> DEFINE owners == {k \in DOMAIN order : i \in heard[order[k]]}
           given(k) == Cardinality(shares[order[k]])
           best == {k \in owners : \A l \in owners : given(k) <= given(l)}
<1>1. Give(shares, i, heard, order) =
        IF owners = {} THEN shares ELSE [shares EXCEPT ![order[Min(best)]] = @ \cup {i}]
  BY DEF Give
<1>2. CASE owners = {}
  BY <1>1, <1>2 DEF Range, Given
<1>3. CASE owners # {}
  <2>1. \A k \in owners : given(k) \in Nat
    BY FS_Subset, FS_CardinalityType
  <2> DEFINE G == {given(k) : k \in owners}
  <2>2. Min(G) \in G /\ \A x \in G : Min(G) <= x
    <3>1. G \in SUBSET Nat /\ G # {}
      BY <1>3, <2>1
    <3> QED BY <3>1, MinIs
  <2>3. best # {} /\ best \in SUBSET Nat
    <3>1. PICK k \in owners : given(k) = Min(G)
      BY <2>2
    <3>2. k \in best
      BY <2>2, <3>1
    <3> QED BY <3>2
  <2>4. Min(best) \in best
    BY <2>3, MinIs
  <2> DEFINE p == order[Min(best)]
  <2>5. p \in R /\ i \in heard[p]
    BY <2>4
  <2>6. \A q \in R : i \in heard[q] => Cardinality(shares[p]) <= Cardinality(shares[q])
    <3> SUFFICES ASSUME NEW q \in R, i \in heard[q]
                 PROVE  Cardinality(shares[p]) <= Cardinality(shares[q])
      OBVIOUS
    <3>1. PICK l \in DOMAIN order : q = order[l]
      BY DEF Range
    <3>2. l \in owners
      BY <3>1
    <3> QED BY <2>4, <3>1, <3>2
  <2>7. Give(shares, i, heard, order) = [shares EXCEPT ![p] = @ \cup {i}]
    BY <1>1, <1>3
  <2> QED BY <2>5, <2>6, <2>7 DEF Given
<1> QED BY <1>2, <1>3

\* The rounds of planDownloads are those its recursion says.
LEMMA PlanIs ==
  ASSUME NEW heard, NEW c \in Nat, NEW R, NEW order \in [1..c -> R], Range(order) = R,
         NEW m \in Nat
  PROVE  \E given : /\ given[0] = [p \in R |-> {}]
                    /\ \A i \in 1..m : given[i] = Give(given[i - 1], i - 1, heard, order)
                    /\ Plan(heard, order, m) = given[m]
<1> DEFINE b == [p \in R |-> {}]
           N == 0..(m - 1)
           S == [R -> SUBSET N]
           Body(g) == [i \in 0..m |->
                         IF i = 0 THEN b ELSE Give(g[i - 1], i - 1, heard, order)]
           given == CHOOSE g : g = Body(g)
           F == [a \in S |-> [i \in N |-> Give(a, i, heard, order)]]
<1>1. Plan(heard, order, m) = given[m]
  BY DEF Plan
<1>2. IsFiniteSet(N)
  BY FS_Interval
<1>3. ASSUME NEW a \in S, NEW i \in N PROVE Give(a, i, heard, order) \in S
  <2> HIDE DEF N
  <2>1. a \in [R -> SUBSET N]
    OBVIOUS
  <2>2. Given(Give(a, i, heard, order), a, i, heard, R)
    BY <1>2, <2>1, GiveIs
  <2> QED BY <2>1, <2>2 DEF Given
<1>4. F \in [S -> [0..(m - 1) -> S]]
  BY <1>3
<1>5. \A a \in S, i \in N : F[a][i] = Give(a, i, heard, order)
  OBVIOUS
<1>6. b \in S
  OBVIOUS
<1> HIDE DEF F, b, S, N
<1>7. PICK g : Runs(g, b, F, S, m)
  BY <1>4, <1>6, Recursion
<1>8. \A i \in 1..m : g[i] = Give(g[i - 1], i - 1, heard, order)
  <2> SUFFICES ASSUME NEW i \in 1..m PROVE g[i] = Give(g[i - 1], i - 1, heard, order)
    OBVIOUS
  <2>1. g[i - 1] \in S /\ i - 1 \in N
    BY <1>7 DEF N, Runs
  <2> QED BY <1>5, <1>7, <2>1 DEF Runs
<1>9. g = Body(g)
  BY <1>7, <1>8 DEF Runs
<1>10. given = Body(given)
  BY <1>9
<1> HIDE DEF given
<1>11. given[0] = b /\ \A i \in 1..m : given[i] = Give(given[i - 1], i - 1, heard, order)
  BY <1>10
<1> QED BY <1>1, <1>11 DEF b

\* The first k pieces are shared out: each to one of its owners, if it has one,
\* and evenly.
Shared(shares, heard, R, k) ==
  /\ shares \in [R -> SUBSET (0..(k - 1))]
  /\ \A i \in 0..(k - 1) :
       \/ (\A q \in R : i \notin heard[q]) /\ \A q \in R : i \notin shares[q]
       \/ \E p \in R : i \in heard[p] /\ \A q \in R : i \in shares[q] <=> q = p
  /\ \A p, q \in R :
       shares[p] \subseteq heard[q] => Cardinality(shares[p]) <= Cardinality(shares[q]) + 1

LEMMA GiveShares ==
  ASSUME NEW R, NEW c \in Nat, NEW order \in [1..c -> R], Range(order) = R,
         NEW heard, NEW k \in Nat, NEW shares, Shared(shares, heard, R, k)
  PROVE  Shared(Give(shares, k, heard, order), heard, R, k + 1)
<1> DEFINE N == 0..k
           new == Give(shares, k, heard, order)
<1> SUFFICES Shared(new, heard, R, k + 1)
  OBVIOUS
<1>1. IsFiniteSet(N) /\ k \in N /\ 0..(k + 1 - 1) = N
  BY FS_Interval
<1>2. shares \in [R -> SUBSET N] /\ \A p \in R : k \notin shares[p]
  BY DEF Shared
<1>3. \A p \in R : IsFiniteSet(shares[p]) /\ Cardinality(shares[p]) \in Nat
  <2> HIDE DEF N
  <2> QED BY <1>1, <1>2, FS_Subset, FS_CardinalityType
<1>4. \/ (\A q \in R : k \notin heard[q]) /\ new = shares
      \/ \E p \in R : /\ k \in heard[p]
                      /\ new = [shares EXCEPT ![p] = @ \cup {k}]
                      /\ \A q \in R : k \in heard[q] =>
                           Cardinality(shares[p]) <= Cardinality(shares[q])
  <2>1. IsFiniteSet(N) /\ k \in N
    BY <1>1
  <2>2. shares \in [R -> SUBSET N]
    BY <1>2
  <2> HIDE DEF N
  <2>3. Given(new, shares, k, heard, R)
    BY <2>1, <2>2, GiveIs
  <2> HIDE DEF new
  <2> QED BY <2>3 DEF Given
<1> HIDE DEF new
<1>5. CASE (\A q \in R : k \notin heard[q]) /\ new = shares
  <2>1. new \in [R -> SUBSET N]
    BY <1>2, <1>5
  <2>2. \A i \in N : \/ (\A q \in R : i \notin heard[q]) /\ \A q \in R : i \notin new[q]
                     \/ \E p \in R : i \in heard[p] /\ \A q \in R : i \in new[q] <=> q = p
    <3>1. \A i \in N : i = k \/ i \in 0..(k - 1)
      OBVIOUS
    <3> QED BY <1>2, <1>5, <3>1 DEF Shared
  <2>3. \A p, q \in R : new[p] \subseteq heard[q] =>
          Cardinality(new[p]) <= Cardinality(new[q]) + 1
    BY <1>5 DEF Shared
  <2>4. /\ new \in [R -> SUBSET (0..(k + 1 - 1))]
        /\ \A i \in 0..(k + 1 - 1) :
             \/ (\A q \in R : i \notin heard[q]) /\ \A q \in R : i \notin new[q]
             \/ \E l \in R : i \in heard[l] /\ \A q \in R : i \in new[q] <=> q = l
    <3> HIDE DEF N
    <3> QED BY <1>1, <2>1, <2>2
  <2> QED BY <2>3, <2>4 DEF Shared
<1>6. ASSUME NEW p \in R, k \in heard[p], new = [shares EXCEPT ![p] = @ \cup {k}],
             \A q \in R : k \in heard[q] => Cardinality(shares[p]) <= Cardinality(shares[q])
      PROVE  Shared(new, heard, R, k + 1)
  <2>1. /\ new \in [R -> SUBSET N] /\ new[p] = shares[p] \cup {k}
        /\ \A q \in R \ {p} : new[q] = shares[q]
    BY <1>1, <1>2, <1>6
  <2>2. ASSUME NEW i \in N
        PROVE  \/ (\A q \in R : i \notin heard[q]) /\ \A q \in R : i \notin new[q]
               \/ \E l \in R : i \in heard[l] /\ \A q \in R : i \in new[q] <=> q = l
    <3>1. CASE i = k
      BY <1>2, <1>6, <2>1, <3>1
    <3>2. CASE i # k
      <4>1. i \in 0..(k - 1) /\ \A q \in R : i \in new[q] <=> i \in shares[q]
        BY <2>1, <3>2
      <4>2. \/ (\A q \in R : i \notin heard[q]) /\ \A q \in R : i \notin shares[q]
            \/ \E l \in R : i \in heard[l] /\ \A q \in R : i \in shares[q] <=> q = l
        BY <4>1 DEF Shared
      <4> QED BY <4>1, <4>2
    <3> QED BY <3>1, <3>2
  <2>3. ASSUME NEW l \in R, NEW q \in R, new[l] \subseteq heard[q]
        PROVE  Cardinality(new[l]) <= Cardinality(new[q]) + 1
    <3>1. Cardinality(new[p]) = Cardinality(shares[p]) + 1
      BY <1>2, <1>3, <2>1, FS_AddElement
    <3>2. CASE l = p /\ q = p
      BY <1>3, <3>1, <3>2
    <3>3. CASE l = p /\ q # p
      <4>1. k \in heard[q] /\ new[q] = shares[q]
        BY <2>1, <2>3, <3>3
      <4> QED BY <1>3, <1>6, <3>1, <3>3, <4>1
    <3>4. CASE l # p
      <4>1. new[l] = shares[l] /\ Cardinality(shares[l]) <= Cardinality(shares[q]) + 1
        BY <2>1, <2>3, <3>4 DEF Shared
      <4>2. q # p => new[q] = shares[q]
        BY <2>1
      <4> QED BY <1>3, <3>1, <4>1, <4>2
    <3> QED BY <3>2, <3>3, <3>4
  <2>4. /\ new \in [R -> SUBSET (0..(k + 1 - 1))]
        /\ \A i \in 0..(k + 1 - 1) :
             \/ (\A q \in R : i \notin heard[q]) /\ \A q \in R : i \notin new[q]
             \/ \E l \in R : i \in heard[l] /\ \A q \in R : i \in new[q] <=> q = l
    <3> HIDE DEF N
    <3> QED BY <1>1, <2>1, <2>2
  <2> QED BY <2>3, <2>4 DEF Shared
<1> QED BY <1>4, <1>5, <1>6 DEF new

\* What planDownloads returns.
LEMMA PlanShares ==
  ASSUME NEW R, NEW c \in Nat, NEW order \in [1..c -> R], Range(order) = R,
         NEW heard, NEW m \in Nat
  PROVE  Shared(Plan(heard, order, m), heard, R, m)
<1>1. PICK given : /\ given[0] = [p \in R |-> {}]
                   /\ \A i \in 1..m : given[i] = Give(given[i - 1], i - 1, heard, order)
                   /\ Plan(heard, order, m) = given[m]
  BY PlanIs
<1> DEFINE T == {k \in Nat : k <= m => Shared(given[k], heard, R, k)}
<1>2. 0 \in T
  <2>1. given[0] \in [R -> SUBSET (0..(0 - 1))] /\ \A p \in R : Cardinality(given[0][p]) = 0
    BY <1>1, FS_EmptySet
  <2>2. \A i \in 0..(0 - 1) : FALSE
    OBVIOUS
  <2> QED BY <2>1, <2>2 DEF Shared
<1>3. ASSUME NEW k \in Nat, k \in T PROVE k + 1 \in T
  <2> SUFFICES ASSUME k + 1 <= m PROVE Shared(given[k + 1], heard, R, k + 1)
    OBVIOUS
  <2>1. Shared(given[k], heard, R, k)
    BY <1>3
  <2>2. given[k + 1] = Give(given[k], k, heard, order)
    BY <1>1
  <2> QED BY <2>1, <2>2, GiveShares
<1>4. m \in T
  <2> HIDE DEF T
  <2> QED BY <1>2, <1>3, Upwards
<1> QED BY <1>1, <1>4

-----------------------------------------------------------------------------
(* The messages. *)

GroupsType(asked) == [done : Seq(SUBSET asked), cur : SUBSET asked]

LEMMA GroupIs ==
  ASSUME NEW asked, NEW most, NEW i, NEW g \in GroupsType(asked)
  PROVE  /\ Group(g, i, asked, most) \in GroupsType(asked)
         /\ \/ /\ i \notin asked /\ Group(g, i, asked, most) = g
            \/ /\ i \in asked
               /\ \/ Group(g, i, asked, most) = [done |-> Append(g.done, g.cur), cur |-> {i}]
                  \/ Group(g, i, asked, most) = [g EXCEPT !.cur = @ \cup {i}]
<1>1. Append(g.done, g.cur) \in Seq(SUBSET asked)
  BY AppendProperties DEF GroupsType
<1> QED BY <1>1 DEF Group, GroupsType

LEMMA GroupsIs ==
  ASSUME NEW asked, NEW most, NEW m \in Nat
  PROVE  \E cut : /\ cut[0] = [done |-> <<>>, cur |-> {}]
                  /\ \A i \in 1..m : cut[i] = Group(cut[i - 1], i - 1, asked, most)
                  /\ Groups(asked, most, m) = cut[m]
<1> DEFINE b == [done |-> <<>>, cur |-> {}]
           N == 0..(m - 1)
           S == GroupsType(asked)
           Body(g) == [i \in 0..m |-> IF i = 0 THEN b ELSE Group(g[i - 1], i - 1, asked, most)]
           cut == CHOOSE g : g = Body(g)
           F == [a \in S |-> [i \in N |-> Group(a, i, asked, most)]]
<1>1. Groups(asked, most, m) = cut[m]
  BY DEF Groups
<1>2. F \in [S -> [0..(m - 1) -> S]]
  BY GroupIs
<1>3. \A a \in S, i \in N : F[a][i] = Group(a, i, asked, most)
  OBVIOUS
<1>4. b \in S
  BY EmptySeq DEF GroupsType
<1> HIDE DEF F, b, S, N
<1>5. PICK g : Runs(g, b, F, S, m)
  BY <1>2, <1>4, Recursion
<1>6. \A i \in 1..m : g[i] = Group(g[i - 1], i - 1, asked, most)
  <2> SUFFICES ASSUME NEW i \in 1..m PROVE g[i] = Group(g[i - 1], i - 1, asked, most)
    OBVIOUS
  <2>1. g[i - 1] \in S /\ i - 1 \in N
    BY <1>5 DEF N, Runs
  <2> QED BY <1>3, <1>5, <2>1 DEF Runs
<1>7. g = Body(g)
  BY <1>5, <1>6 DEF Runs
<1>8. cut = Body(cut)
  BY <1>7
<1> HIDE DEF cut
<1>9. cut[0] = b /\ \A i \in 1..m : cut[i] = Group(cut[i - 1], i - 1, asked, most)
  BY <1>8
<1> QED BY <1>1, <1>9 DEF b

\* The groups made of the pieces below k have these pieces and no other.
Grouped(g, asked, k) ==
  /\ g \in GroupsType(asked)
  /\ \A i \in asked : i < k <=> i \in g.cur \/ \E j \in 1..Len(g.done) : i \in g.done[j]

LEMMA GroupKeeps ==
  ASSUME NEW asked \in SUBSET Nat, NEW most, NEW k \in Nat, NEW g, Grouped(g, asked, k)
  PROVE  Grouped(Group(g, k, asked, most), asked, k + 1)
<1> DEFINE new == Group(g, k, asked, most)
<1> SUFFICES Grouped(new, asked, k + 1)
  OBVIOUS
<1>1. /\ new \in GroupsType(asked) /\ g \in GroupsType(asked)
      /\ \/ k \notin asked /\ new = g
         \/ k \in asked /\ new = [done |-> Append(g.done, g.cur), cur |-> {k}]
         \/ k \in asked /\ new = [g EXCEPT !.cur = @ \cup {k}]
  <2>1. g \in GroupsType(asked)
    BY DEF Grouped
  <2> QED BY <2>1, GroupIs
<1> HIDE DEF new
<1>2. \A i \in asked : i < k + 1 <=> i < k \/ i = k
  OBVIOUS
<1>3. CASE k \notin asked /\ new = g
  BY <1>1, <1>2, <1>3 DEF Grouped
<1>4. CASE k \in asked /\ new = [done |-> Append(g.done, g.cur), cur |-> {k}]
  <2>1. /\ g.done \in Seq(SUBSET asked) /\ g.cur \in SUBSET asked
        /\ new.done = Append(g.done, g.cur) /\ new.cur = {k}
    BY <1>1, <1>4 DEF GroupsType
  <2>2. /\ Len(g.done) \in Nat /\ Len(new.done) = Len(g.done) + 1
        /\ \A j \in 1..Len(g.done) : new.done[j] = g.done[j]
        /\ new.done[Len(g.done) + 1] = g.cur
    BY <2>1, AppendProperties, LenProperties
  <2>3. \A i : (\E j \in 1..Len(new.done) : i \in new.done[j]) <=>
               i \in g.cur \/ \E j \in 1..Len(g.done) : i \in g.done[j]
    <3>1. \A j \in 1..Len(new.done) : j \in 1..Len(g.done) \/ j = Len(g.done) + 1
      BY <2>2
    <3>2. 1..Len(g.done) \subseteq 1..Len(new.done) /\ Len(g.done) + 1 \in 1..Len(new.done)
      BY <2>2
    <3> QED BY <2>2, <3>1, <3>2
  <2> QED BY <1>1, <1>2, <2>1, <2>3 DEF Grouped
<1>5. CASE k \in asked /\ new = [g EXCEPT !.cur = @ \cup {k}]
  <2>1. new.done = g.done /\ new.cur = g.cur \cup {k}
    BY <1>1, <1>5 DEF GroupsType
  <2> QED BY <1>1, <1>2, <2>1 DEF Grouped
<1> QED BY <1>1, <1>3, <1>4, <1>5

LEMMA GroupsCover ==
  ASSUME NEW m \in Nat, NEW asked \in SUBSET (0..(m - 1)), NEW most
  PROVE  Grouped(Groups(asked, most, m), asked, m)
<1>1. PICK cut : /\ cut[0] = [done |-> <<>>, cur |-> {}]
                 /\ \A i \in 1..m : cut[i] = Group(cut[i - 1], i - 1, asked, most)
                 /\ Groups(asked, most, m) = cut[m]
  BY GroupsIs
<1> DEFINE T == {k \in Nat : k <= m => Grouped(cut[k], asked, k)}
<1>2. 0 \in T
  <2>1. cut[0] \in GroupsType(asked) /\ cut[0].cur = {} /\ Len(cut[0].done) = 0
    BY <1>1, EmptySeq DEF GroupsType
  <2>2. \A i \in asked : ~(i < 0)
    OBVIOUS
  <2> QED BY <2>1, <2>2 DEF Grouped
<1>3. ASSUME NEW k \in Nat, k \in T PROVE k + 1 \in T
  <2> SUFFICES ASSUME k + 1 <= m PROVE Grouped(cut[k + 1], asked, k + 1)
    OBVIOUS
  <2>1. Grouped(cut[k], asked, k) /\ asked \in SUBSET Nat
    BY <1>3
  <2>2. cut[k + 1] = Group(cut[k], k, asked, most)
    BY <1>1
  <2> QED BY <2>1, <2>2, GroupKeeps
<1>4. m \in T
  <2> HIDE DEF T
  <2> QED BY <1>2, <1>3, Upwards
<1> QED BY <1>1, <1>4

\* The messages for a share ask for its pieces, all of them.
LEMMA RequestsCover ==
  ASSUME NEW m \in Nat, NEW asked \in SUBSET (0..(m - 1)), NEW most
  PROVE  /\ Requests(asked, most, m) \in Seq(SUBSET asked)
         /\ \A i \in asked : \E j \in 1..Len(Requests(asked, most, m)) :
              i \in Requests(asked, most, m)[j]
<1> DEFINE all == Groups(asked, most, m)
           msgs == Requests(asked, most, m)
<1> SUFFICES /\ msgs \in Seq(SUBSET asked)
             /\ \A i \in asked : \E j \in 1..Len(msgs) : i \in msgs[j]
  OBVIOUS
<1>1. /\ all \in GroupsType(asked) /\ all.done \in Seq(SUBSET asked) /\ all.cur \in SUBSET asked
      /\ \A i \in asked : i \in all.cur \/ \E j \in 1..Len(all.done) : i \in all.done[j]
  <2>1. \A i \in asked : i < m
    OBVIOUS
  <2> QED BY <2>1, GroupsCover DEF Grouped, GroupsType
<1>2. \/ msgs = <<asked>>
      \/ msgs = all.done /\ all.cur = {}
      \/ msgs = Append(all.done, all.cur)
  BY DEF Requests, Slice
<1> HIDE DEF all, msgs
<1>3. CASE msgs = <<asked>>
  <2>1. msgs \in Seq(SUBSET asked) /\ 1 \in 1..Len(msgs) /\ msgs[1] = asked
    BY <1>3
  <2> QED BY <2>1
<1>4. CASE msgs = all.done /\ all.cur = {}
  BY <1>1, <1>4
<1>5. CASE msgs = Append(all.done, all.cur)
  <2>1. /\ msgs \in Seq(SUBSET asked) /\ Len(all.done) \in Nat
        /\ Len(msgs) = Len(all.done) + 1
        /\ \A j \in 1..Len(all.done) : msgs[j] = all.done[j]
        /\ msgs[Len(all.done) + 1] = all.cur
    BY <1>1, <1>5, AppendProperties, LenProperties
  <2>2. 1..Len(all.done) \subseteq 1..Len(msgs) /\ Len(all.done) + 1 \in 1..Len(msgs)
    BY <2>1
  <2> QED BY <1>1, <2>1, <2>2
<1> QED BY <1>2, <1>3, <1>4, <1>5

-----------------------------------------------------------------------------
(* The answers. *)

Bytes == {"byte", "index", "space", "colon", "bracket", "newline"} \X Nat \X Nat

\* Where the next piece of an answer starts.
Start(bytes) == IF bytes = <<>> THEN 0 ELSE Len(bytes) + 1

LEMMA GetPieceIs ==
  ASSUME NEW length \in Nat \ {0}, NEW pl \in Nat \ {0}, NEW i \in Nat
  PROVE  /\ GetPiece(length, pl, i) \in Seq(Bytes)
         /\ Len(GetPiece(length, pl, i)) =
              IF i = NumPieces(length, pl) - 1 THEN length % pl ELSE pl
<1> DEFINE size == IF i = NumPieces(length, pl) - 1 THEN length % pl ELSE pl
<1>1. size \in Nat
  BY DivIs
<1>2. GetPiece(length, pl, i) = [o \in 1..size |-> <<"byte", i, o>>]
  BY DEF GetPiece
<1> HIDE DEF size
<1>3. \A o \in 1..size : <<"byte", i, o>> \in Bytes
  BY <1>1 DEF Bytes
<1>4. [o \in 1..size |-> <<"byte", i, o>>] \in Seq(Bytes)
      /\ Len([o \in 1..size |-> <<"byte", i, o>>]) = size
  BY <1>1, <1>3
<1> QED BY <1>2, <1>4 DEF size

\* r is s, and then t.
Joins(r, s, t) ==
  /\ Len(r) = Len(s) + Len(t)
  /\ \A x \in 1..Len(s) : r[x] = s[x]
  /\ \A x \in 1..Len(t) : r[Len(s) + x] = t[x]

LEMMA Joined ==
  ASSUME NEW S, NEW s \in Seq(S), NEW t \in Seq(S)
  PROVE  s \o t \in Seq(S) /\ Joins(s \o t, s, t)
<1>1. Len(s) \in Nat /\ Len(t) \in Nat
  BY LenProperties
<1>2. \A x \in 1..Len(t) : /\ Len(s) + x \in 1..Len(s) + Len(t)
                           /\ ~(Len(s) + x <= Len(s)) /\ Len(s) + x - Len(s) = x
  BY <1>1
<1>3. \A x \in 1..Len(s) : x \in 1..Len(s) + Len(t) /\ x <= Len(s)
  BY <1>1
<1> QED BY <1>2, <1>3, ConcatProperties DEF Joins

\* A piece is said behind what is said: its index at Start, its bytes after the
\* colon.
Adds(new, said, i, length, pl) ==
  /\ Len(new) = Start(said) + 2 + Len(GetPiece(length, pl, i))
  /\ \A x \in 1..Len(said) : new[x] = said[x]
  /\ new[Start(said) + 1] = Index(i)
  /\ \A o \in 1..Len(GetPiece(length, pl, i)) :
       new[Start(said) + 2 + o] = GetPiece(length, pl, i)[o]

LEMMA AddPieceIs ==
  ASSUME NEW length \in Nat \ {0}, NEW pl \in Nat \ {0}, NEW i \in Nat, NEW asked,
         i \in asked, NEW said \in Seq(Bytes), NEW new,
         new = AddPiece(said, i, asked, length, pl)
  PROVE  new \in Seq(Bytes) /\ Adds(new, said, i, length, pl)
<1> DEFINE p == GetPiece(length, pl, i)
           gap == IF said = <<>> THEN <<>> ELSE <<Mark("space")>>
           front == said \o gap
           tag == <<Index(i), Mark("colon")>>
<1>1. p \in Seq(Bytes) /\ Len(p) \in Nat
  BY GetPieceIs, LenProperties
<1>2. Mark("space") \in Bytes /\ Index(i) \in Bytes /\ Mark("colon") \in Bytes
  BY DEF Bytes, Mark, Index
<1>3. new = front \o tag \o p
  BY DEF AddPiece
<1>4. /\ front \in Seq(Bytes) /\ Len(front) = Start(said) /\ Len(front) \in Nat
      /\ Len(said) \in Nat /\ Len(said) <= Len(front)
      /\ \A x \in 1..Len(said) : front[x] = said[x]
  <2>1. CASE said = <<>>
    BY <2>1 DEF Start
  <2>2. CASE said # <<>>
    <3>1. gap = <<Mark("space")>> /\ gap \in Seq(Bytes) /\ Len(gap) = 1
      BY <1>2, <2>2
    <3> HIDE DEF gap
    <3> QED BY <2>2, <3>1, ConcatProperties, LenProperties DEF Start
  <2> QED BY <2>1, <2>2
<1>5. tag \in Seq(Bytes) /\ Len(tag) = 2 /\ tag[1] = Index(i)
  BY <1>2
<1> HIDE DEF p, front, tag
<1> DEFINE fore == front \o tag
<1>10. front \in Seq(Bytes) /\ tag \in Seq(Bytes) /\ fore = front \o tag
  BY <1>4, <1>5
<1> HIDE DEF fore
<1>6. /\ fore \in Seq(Bytes) /\ Len(fore) = Start(said) + 2
      /\ \A x \in 1..Len(said) : fore[x] = said[x]
      /\ fore[Start(said) + 1] = Index(i)
  <2>1. fore \in Seq(Bytes) /\ Joins(fore, front, tag)
    BY <1>10, Joined, Zenon
  <2>2. 1 \in 1..Len(tag) /\ \A x \in 1..Len(said) : x \in 1..Len(front)
    BY <1>4, <1>5
  <2> QED BY <1>4, <1>5, <2>1, <2>2 DEF Joins
<1>7. new = fore \o p
  BY <1>3 DEF fore
<1>8. new \in Seq(Bytes) /\ Joins(new, fore, p)
  <2>1. fore \in Seq(Bytes) /\ p \in Seq(Bytes)
    BY <1>1, <1>6
  <2> QED BY <1>7, <2>1, Joined, Zenon
<1>9. /\ \A x \in 1..Len(said) : x \in 1..Len(fore)
      /\ Start(said) + 1 \in 1..Len(fore)
  BY <1>4, <1>6
<1> QED BY <1>1, <1>4, <1>6, <1>8, <1>9 DEF p, Joins, Adds

\* One answer begins with the other.
Begins(s, t) == Len(s) <= Len(t) /\ \A x \in 1..Len(s) : t[x] = s[x]

LEMMA BeginsOn ==
  ASSUME NEW s \in Seq(Bytes), NEW t \in Seq(Bytes), NEW r \in Seq(Bytes),
         Begins(s, t), Begins(t, r)
  PROVE  Begins(s, r)
<1>1. Len(s) \in Nat /\ Len(t) \in Nat /\ Len(r) \in Nat
  BY LenProperties
<1> QED BY <1>1 DEF Begins

LEMMA NumPiecesIs ==
  ASSUME NEW length \in Nat \ {0}, NEW pl \in Nat \ {0}
  PROVE  NumPieces(length, pl) \in Nat \ {0}
<1> DEFINE a == length + pl - 1
<1>1. a \in Nat /\ a >= pl
  OBVIOUS
<1> HIDE DEF a
<1>2. a \div pl \in Nat /\ a % pl \in 0..(pl - 1) /\ a = pl * (a \div pl) + (a % pl)
  BY <1>1, DivIs
<1>3. a \div pl # 0
  <2> SUFFICES ASSUME a \div pl = 0 PROVE FALSE
    OBVIOUS
  <2>1. pl * (a \div pl) = 0
    OBVIOUS
  <2> QED BY <1>1, <1>2, <2>1
<1> QED BY <1>2, <1>3 DEF NumPieces, a

\* An answer is what its recursion says.
Said(said, asked, length, pl, m) ==
  /\ said[0] = <<>>
  /\ \A i \in 1..m : said[i] = AddPiece(said[i - 1], i - 1, asked, length, pl)
  /\ \A i \in 0..m : said[i] \in Seq(Bytes)
  /\ DataOf(asked, length, pl) = Append(said[m], Mark("bracket"))

LEMMA DataIs ==
  ASSUME NEW length \in Nat \ {0}, NEW pl \in Nat \ {0}, NEW asked,
         NEW m, m = NumPieces(length, pl)
  PROVE  \E said : Said(said, asked, length, pl, m)
<1>1. m \in Nat
  BY NumPiecesIs
<1> DEFINE b == <<>>
           N == 0..(m - 1)
           S == Seq(Bytes)
           Body(g) == [i \in 0..m |->
                         IF i = 0 THEN b ELSE AddPiece(g[i - 1], i - 1, asked, length, pl)]
           said == CHOOSE g : g = Body(g)
           F == [a \in S |-> [i \in N |-> AddPiece(a, i, asked, length, pl)]]
<1>2. DataOf(asked, length, pl) = Append(said[m], Mark("bracket"))
  BY DEF DataOf
<1>3. ASSUME NEW a \in S, NEW i \in N PROVE AddPiece(a, i, asked, length, pl) \in S
  <2>1. CASE i \in asked
    BY <1>1, <2>1, AddPieceIs
  <2>2. CASE i \notin asked
    BY <2>2 DEF AddPiece
  <2> QED BY <2>1, <2>2
<1>4. F \in [S -> [0..(m - 1) -> S]]
  BY <1>3
<1>5. \A a \in S, i \in N : F[a][i] = AddPiece(a, i, asked, length, pl)
  OBVIOUS
<1>6. b \in S
  BY EmptySeq
<1> HIDE DEF F, S, N
<1>7. PICK g : Runs(g, b, F, S, m)
  BY <1>1, <1>4, <1>6, Recursion
<1>8. \A i \in 1..m : g[i] = AddPiece(g[i - 1], i - 1, asked, length, pl)
  <2> SUFFICES ASSUME NEW i \in 1..m
               PROVE  g[i] = AddPiece(g[i - 1], i - 1, asked, length, pl)
    OBVIOUS
  <2>1. i - 1 \in 0..m /\ i - 1 \in N
    BY <1>1 DEF N
  <2>2. g \in [0..m -> S]
    BY <1>7 DEF Runs
  <2>3. g[i - 1] \in S
    BY <2>1, <2>2
  <2> QED BY <1>5, <1>7, <2>1, <2>3 DEF Runs
<1>9. g = Body(g)
  BY <1>1, <1>7, <1>8 DEF Runs
<1>10. said = Body(said)
  BY <1>9
<1> HIDE DEF said
<1>11. said[0] = b /\ \A i \in 1..m : said[i] = AddPiece(said[i - 1], i - 1, asked, length, pl)
  BY <1>1, <1>10
<1>12. \A k \in Nat : k <= m => said[k] \in S
  <2> DEFINE T == {k \in Nat : k <= m => said[k] \in S}
  <2>1. 0 \in T
    BY <1>6, <1>11
  <2>2. ASSUME NEW k \in Nat, k \in T PROVE k + 1 \in T
    <3> SUFFICES ASSUME k + 1 <= m PROVE said[k + 1] \in S
      OBVIOUS
    <3>1. said[k] \in S /\ k \in N /\ said[k + 1] = AddPiece(said[k], k, asked, length, pl)
      BY <1>1, <1>11, <2>2 DEF N
    <3> QED BY <1>3, <3>1 DEF S, N
  <2> HIDE DEF T
  <2>3. \A k \in Nat : k \in T
    BY <2>1, <2>2, Upwards
  <2> QED BY <2>3 DEF T
<1>13. \A i \in 0..m : said[i] \in S
  BY <1>1, <1>12
<1> QED BY <1>2, <1>11, <1>13 DEF S, Said

\* Where each piece asked is in an answer, and where the next one is.
Laid(D, starts, asked, length, pl, m) ==
  /\ D \in Seq(Bytes)
  /\ starts \in [0..m -> Nat] /\ starts[0] = 0
  /\ asked # {} => Len(D) = starts[m]
  /\ \A i \in 0..(m - 1) :
       /\ i \notin asked => starts[i + 1] = starts[i]
       /\ i \in asked =>
            /\ starts[i + 1] = starts[i] + 3 + Len(GetPiece(length, pl, i))
            /\ starts[i + 1] <= Len(D)
            /\ D[starts[i] + 1] = Index(i)
            /\ \A o \in 1..Len(GetPiece(length, pl, i)) :
                 D[starts[i] + 2 + o] = GetPiece(length, pl, i)[o]

LEMMA LaidOut ==
  ASSUME NEW length \in Nat \ {0}, NEW pl \in Nat \ {0}, NEW m, m = NumPieces(length, pl),
         NEW asked \in SUBSET (0..(m - 1))
  PROVE  \E starts : Laid(DataOf(asked, length, pl), starts, asked, length, pl, m)
<1>1. m \in Nat
  BY NumPiecesIs
<1>2. PICK said : /\ said[0] = <<>>
                  /\ \A i \in 1..m : said[i] = AddPiece(said[i - 1], i - 1, asked, length, pl)
                  /\ \A i \in 0..m : said[i] \in Seq(Bytes)
                  /\ DataOf(asked, length, pl) = Append(said[m], Mark("bracket"))
  <2>1. PICK said : Said(said, asked, length, pl, m)
    BY DataIs
  <2> QED BY <2>1 DEF Said
<1> DEFINE D == DataOf(asked, length, pl)
           starts == [k \in 0..m |-> Start(said[k])]
           Size(i) == Len(GetPiece(length, pl, i))
<1>3. \A i \in 0..m : Len(said[i]) \in Nat
  BY <1>2, LenProperties
<1>4. /\ D \in Seq(Bytes) /\ Len(D) = Len(said[m]) + 1
      /\ \A x \in 1..Len(said[m]) : D[x] = said[m][x]
  <2>1. said[m] \in Seq(Bytes) /\ Mark("bracket") \in Bytes
    BY <1>1, <1>2 DEF Bytes, Mark
  <2> QED BY <1>2, <2>1, AppendProperties
<1>5. ASSUME NEW i \in 0..(m - 1), i \in asked
      PROVE  /\ Len(said[i + 1]) = Start(said[i]) + 2 + Size(i)
             /\ Begins(said[i], said[i + 1])
             /\ said[i + 1][Start(said[i]) + 1] = Index(i)
             /\ \A o \in 1..Size(i) :
                  said[i + 1][Start(said[i]) + 2 + o] = GetPiece(length, pl, i)[o]
  <2>1. i \in Nat /\ i \in 0..m /\ i + 1 \in 1..m /\ i + 1 - 1 = i
    BY <1>1
  <2>2. said[i] \in Seq(Bytes) /\ said[i + 1] = AddPiece(said[i], i, asked, length, pl)
    BY <1>2, <2>1
  <2>3. /\ Len(said[i + 1]) = Start(said[i]) + 2 + Size(i)
        /\ \A x \in 1..Len(said[i]) : said[i + 1][x] = said[i][x]
        /\ said[i + 1][Start(said[i]) + 1] = Index(i)
        /\ \A o \in 1..Size(i) :
             said[i + 1][Start(said[i]) + 2 + o] = GetPiece(length, pl, i)[o]
    <3>1. Adds(said[i + 1], said[i], i, length, pl)
      BY <1>5, <2>1, <2>2, AddPieceIs
    <3> QED BY <3>1 DEF Adds
  <2>4. Size(i) \in Nat
    BY <2>1, GetPieceIs, LenProperties
  <2>5. Len(said[i]) <= Len(said[i + 1])
    BY <1>3, <2>1, <2>3, <2>4 DEF Start
  <2> QED BY <2>3, <2>5 DEF Begins
<1>6. ASSUME NEW i \in 0..(m - 1), i \notin asked PROVE said[i + 1] = said[i]
  <2>1. i + 1 \in 1..m /\ i + 1 - 1 = i
    BY <1>1
  <2>2. said[i + 1] = AddPiece(said[i], i, asked, length, pl)
    BY <1>2, <2>1
  <2> QED BY <1>6, <2>2 DEF AddPiece
<1>7. ASSUME NEW k \in 0..m PROVE Begins(said[k], said[m])
  <2> DEFINE T == {j \in Nat : k <= j /\ j <= m => Begins(said[k], said[j])}
  <2>1. Begins(said[k], said[k])
    BY <1>3 DEF Begins
  <2>2. 0 \in T
    <3>1. k <= 0 => k = 0
      BY <1>1
    <3> QED BY <2>1, <3>1
  <2>3. ASSUME NEW j \in Nat, j \in T PROVE j + 1 \in T
    <3> SUFFICES ASSUME k <= j + 1, j + 1 <= m PROVE Begins(said[k], said[j + 1])
      OBVIOUS
    <3>1. CASE k = j + 1
      BY <2>1, <3>1
    <3>2. CASE k # j + 1
      <4>1. k <= j /\ j <= m /\ j \in 0..(m - 1) /\ j \in 0..m /\ j + 1 \in 0..m
        BY <1>1, <3>2
      <4>2. Begins(said[k], said[j])
        BY <2>3, <4>1
      <4>3. Begins(said[j], said[j + 1])
        <5>1. Begins(said[j], said[j])
          BY <1>3, <4>1 DEF Begins
        <5> QED BY <1>5, <1>6, <4>1, <5>1
      <4> QED BY <1>2, <4>1, <4>2, <4>3, BeginsOn
    <3> QED BY <3>1, <3>2
  <2> HIDE DEF T
  <2>4. m \in T
    BY <1>1, <2>2, <2>3, Upwards
  <2> QED BY <1>1, <2>4 DEF T
<1> HIDE DEF D
<1>8. ASSUME NEW i \in 0..(m - 1), i \in asked
      PROVE  /\ starts[i + 1] = starts[i] + 3 + Size(i)
             /\ starts[i + 1] <= Len(D)
             /\ D[starts[i] + 1] = Index(i)
             /\ \A o \in 1..Size(i) : D[starts[i] + 2 + o] = GetPiece(length, pl, i)[o]
  <2>1. i \in 0..m /\ i + 1 \in 0..m /\ i \in Nat /\ m \in 0..m
    BY <1>1
  <2>2. Size(i) \in Nat
    BY <2>1, GetPieceIs, LenProperties
  <2>3. starts[i] = Start(said[i]) /\ Start(said[i]) \in Nat
    BY <1>3, <2>1 DEF Start
  <2>4. Len(said[i + 1]) = starts[i] + 2 + Size(i)
    BY <1>5, <1>8, <2>3
  <2>5. said[i + 1] # <<>>
    BY <2>2, <2>3, <2>4
  <2>6. starts[i + 1] = Len(said[i + 1]) + 1
    BY <2>1, <2>5 DEF Start
  <2>7. Len(said[i + 1]) <= Len(said[m])
    BY <1>7, <2>1 DEF Begins
  <2>8. \A x \in 1..Len(said[i + 1]) : D[x] = said[i + 1][x]
    <3>1. \A x \in 1..Len(said[i + 1]) : x \in 1..Len(said[m]) /\ said[m][x] = said[i + 1][x]
      BY <1>3, <1>7, <2>1, <2>7 DEF Begins
    <3> QED BY <1>4, <3>1
  <2>9. starts[i + 1] <= Len(D)
    BY <1>3, <1>4, <2>1, <2>6, <2>7
  <2>10. starts[i] + 1 \in 1..Len(said[i + 1])
    BY <2>2, <2>3, <2>4
  <2>11. \A o \in 1..Size(i) : starts[i] + 2 + o \in 1..Len(said[i + 1])
    BY <2>2, <2>3, <2>4
  <2>12. starts[i + 1] = starts[i] + 3 + Size(i)
    BY <2>2, <2>3, <2>4, <2>6
  <2>13. D[starts[i] + 1] = Index(i)
    BY <1>5, <1>8, <2>3, <2>8, <2>10
  <2>14. \A o \in 1..Size(i) : D[starts[i] + 2 + o] = GetPiece(length, pl, i)[o]
    BY <1>5, <1>8, <2>3, <2>8, <2>11
  <2> QED BY <2>9, <2>12, <2>13, <2>14
<1>9. ASSUME asked # {} PROVE Len(D) = starts[m]
  <2>1. PICK i \in 0..(m - 1) : i \in asked
    BY <1>9
  <2>2. i \in 0..m /\ i + 1 \in 0..m /\ m \in 0..m /\ i \in Nat
    BY <1>1
  <2>3. Len(said[i + 1]) <= Len(said[m])
    BY <1>7, <2>2 DEF Begins
  <2>4. Len(said[i + 1]) >= 2
    <3>1. Size(i) \in Nat
      BY <2>2, GetPieceIs, LenProperties
    <3>2. Start(said[i]) \in Nat
      BY <1>3, <2>2 DEF Start
    <3> QED BY <1>5, <2>1, <3>1, <3>2
  <2>5. said[m] # <<>>
    BY <1>3, <2>2, <2>3, <2>4
  <2> QED BY <1>4, <2>2, <2>5 DEF Start
<1>10. starts \in [0..m -> Nat] /\ starts[0] = 0
  <2>1. \A i \in 0..m : Start(said[i]) \in Nat
    BY <1>3 DEF Start
  <2>2. 0 \in 0..m /\ Start(said[0]) = 0
    BY <1>1, <1>2 DEF Start
  <2> QED BY <2>1, <2>2
<1>11. \A i \in 0..(m - 1) : i \notin asked => starts[i + 1] = starts[i]
  <2>1. \A i \in 0..(m - 1) : i \in 0..m /\ i + 1 \in 0..m
    BY <1>1
  <2> QED BY <1>6, <2>1
<1> HIDE DEF starts
<1>12. Laid(D, starts, asked, length, pl, m)
  BY <1>4, <1>8, <1>9, <1>10, <1>11 DEF Laid
<1> QED BY <1>12 DEF D

\* What has been read of an answer.
Gots == UNION {[I -> Seq(Bytes)] : I \in SUBSET Nat}
Accounts == [ok : BOOLEAN, head : Nat, got : Gots]

\* new is old, with s for i.
Puts(new, old, i, s) ==
  /\ DOMAIN new = DOMAIN old \cup {i} /\ new[i] = s
  /\ \A j \in DOMAIN old \ {i} : new[j] = old[j]

LEMMA AddGot ==
  ASSUME NEW got \in Gots, NEW i \in Nat, NEW s \in Seq(Bytes), NEW new,
         new = With(got, [j \in {i} |-> s])
  PROVE  new \in Gots /\ Puts(new, got, i, s)
<1>1. PICK I \in SUBSET Nat : got \in [I -> Seq(Bytes)]
  BY DEF Gots
<1>2. new = [x \in {i} \cup I |-> IF x \in {i} THEN s ELSE got[x]]
  BY <1>1 DEF With
<1>3. new \in [{i} \cup I -> Seq(Bytes)] /\ {i} \cup I \in SUBSET Nat
  BY <1>1, <1>2
<1>4. new \in Gots
  BY <1>3 DEF Gots
<1> QED BY <1>1, <1>2, <1>4 DEF Puts

\* t is what s has behind h.
Behind(t, s, h, len) == Len(t) = len /\ \A o \in 1..len : t[o] = s[h + o]

LEMMA Slices ==
  ASSUME NEW S, NEW s \in Seq(S), NEW h \in Nat, NEW len \in Nat, h + len <= Len(s)
  PROVE  /\ SubSeq(s, h + 1, h + len) \in Seq(S)
         /\ Behind(SubSeq(s, h + 1, h + len), s, h, len)
<1>1. Len(s) \in Nat /\ s \in [1..Len(s) -> S]
  BY LenProperties
<1> DEFINE b == h + 1
           e == h + len
<1>2. b \in Int /\ e \in Int /\ \A i \in b..e : s[i] \in S
  BY <1>1
<1>3. IF b <= e THEN e - b + 1 = len ELSE len = 0
  OBVIOUS
<1>4. e - b + 1 = len /\ \A o \in 1..len : b + o - 1 = h + o
  OBVIOUS
<1> HIDE DEF b, e
<1>5. /\ SubSeq(s, b, e) \in Seq(S)
      /\ Len(SubSeq(s, b, e)) = IF b <= e THEN e - b + 1 ELSE 0
      /\ \A o \in 1..(e - b + 1) : SubSeq(s, b, e)[o] = s[b + o - 1]
  BY <1>2, SubSeqProperties
<1>6. SubSeq(s, b, e) \in Seq(S) /\ Behind(SubSeq(s, b, e), s, h, len)
  BY <1>3, <1>4, <1>5 DEF Behind
<1> QED BY <1>6 DEF b, e

\* The length getpiecesResponse reads, and what it makes of a piece it accepts.
Expected(i, head, bytes, m, size) == IF i # m - 1 THEN size ELSE Len(bytes) - (head + 2) - 1

Taken(new, acc, i, bytes, len) ==
  /\ new.ok /\ new.head = acc.head + 3 + len
  /\ DOMAIN new.got = DOMAIN acc.got \cup {i}
  /\ \A j \in DOMAIN acc.got \ {i} : new.got[j] = acc.got[j]
  /\ new.got[i] \in Seq(Bytes) /\ Behind(new.got[i], bytes, acc.head + 2, len)

Readable(acc, i, bytes, len) ==
  /\ acc.ok /\ acc.head < Len(bytes) /\ bytes[acc.head + 1] = Index(i)
  /\ len >= 0 /\ acc.head + 2 + len <= Len(bytes)

Follows(new, acc, i, bytes, asked, len) ==
  /\ i \notin asked => new = acc
  /\ i \in asked => (new.ok <=> Readable(acc, i, bytes, len))
  /\ i \in asked /\ new.ok => Taken(new, acc, i, bytes, len)

LEMMA ReadPieceIs ==
  ASSUME NEW acc \in Accounts, NEW i \in Nat, NEW bytes \in Seq(Bytes), NEW asked,
         NEW m \in Nat, NEW size \in Nat
  PROVE  /\ ReadPiece(acc, i, bytes, asked, m, size) \in Accounts
         /\ Follows(ReadPiece(acc, i, bytes, asked, m, size), acc, i, bytes, asked,
                    Expected(i, acc.head, bytes, m, size))
<1> DEFINE len == Expected(i, acc.head, bytes, m, size)
           new == ReadPiece(acc, i, bytes, asked, m, size)
<1> SUFFICES new \in Accounts /\ Follows(new, acc, i, bytes, asked, len)
  OBVIOUS
<1>0. /\ len = Expected(i, acc.head, bytes, m, size)
      /\ new = ReadPiece(acc, i, bytes, asked, m, size)
  OBVIOUS
<1> HIDE DEF len, new
<1>1. acc.head \in Nat /\ acc.ok \in BOOLEAN /\ acc.got \in Gots
  BY DEF Accounts
<1>2. Len(bytes) \in Nat
  BY LenProperties
<1>3. len \in Int
  BY <1>0, <1>1, <1>2 DEF Expected
<1>5. CASE i \in asked /\ ~Readable(acc, i, bytes, len)
  <2>1. new = [acc EXCEPT !.ok = FALSE]
    BY <1>0, <1>1, <1>2, <1>5, SMTT(30) DEF ReadPiece, Readable, Expected
  <2> QED BY <1>1, <1>5, <2>1 DEF Accounts, Follows
<1>6. CASE i \in asked /\ Readable(acc, i, bytes, len)
  <2> DEFINE h == acc.head + 2
             s == SubSeq(bytes, h + 1, h + len)
             got == With(acc.got, [j \in {i} |-> s])
  <2>1. new = [ok |-> TRUE, head |-> h + len + 1, got |-> got]
    BY <1>0, <1>1, <1>2, <1>3, <1>6 DEF ReadPiece, Readable, Expected
  <2>2. h \in Nat /\ len \in Nat /\ h + len <= Len(bytes) /\ h = acc.head + 2
    BY <1>1, <1>3, <1>6 DEF Readable
  <2> HIDE DEF h
  <2>3. s \in Seq(Bytes) /\ Behind(s, bytes, h, len)
    BY <2>2, Slices
  <2> HIDE DEF s
  <2>4. got \in Gots /\ Puts(got, acc.got, i, s)
    BY <1>1, <2>3, AddGot
  <2> HIDE DEF got
  <2>5. new.ok = TRUE /\ new.head = h + len + 1 /\ new.got = got
    BY <2>1
  <2>6. new \in Accounts
    <3>1. h + len + 1 \in Nat /\ got \in Gots
      BY <2>2, <2>4
    <3> QED BY <2>1, <3>1 DEF Accounts
  <2>7. Taken(new, acc, i, bytes, len)
    BY <1>1, <2>2, <2>3, <2>4, <2>5 DEF Taken, Puts
  <2> QED BY <1>6, <2>5, <2>6, <2>7 DEF Follows
<1>4. CASE i \notin asked
  <2>1. new = acc
    BY <1>0, <1>4 DEF ReadPiece
  <2> QED BY <1>4, <2>1 DEF Follows
<1> QED BY <1>5, <1>6, <1>4

\* Reading an answer is what its recursion says.
Unread == [ok |-> TRUE, head |-> 0, got |-> <<>>]

Reads(read, bytes, asked, m, size) ==
  /\ read[0] = Unread
  /\ \A i \in 1..m : read[i] = ReadPiece(read[i - 1], i - 1, bytes, asked, m, size)
  /\ ReadData(bytes, asked, m, size) = read[m]

LEMMA ReadIs ==
  ASSUME NEW bytes \in Seq(Bytes), NEW asked, NEW m \in Nat, NEW size \in Nat
  PROVE  \E read : Reads(read, bytes, asked, m, size)
<1> DEFINE N == 0..(m - 1)
           S == Accounts
           Body(g) == [i \in 0..m |->
                         IF i = 0 THEN Unread
                         ELSE ReadPiece(g[i - 1], i - 1, bytes, asked, m, size)]
           read == CHOOSE g : g = Body(g)
           F == [a \in S |-> [i \in N |-> ReadPiece(a, i, bytes, asked, m, size)]]
<1>1. ReadData(bytes, asked, m, size) = read[m]
  BY DEF ReadData, Unread
<1>2. ASSUME NEW a \in S, NEW i \in N PROVE ReadPiece(a, i, bytes, asked, m, size) \in S
  <2>1. i \in Nat
    OBVIOUS
  <2> HIDE DEF N, S
  <2>2. ReadPiece(a, i, bytes, asked, m, size) \in Accounts
    BY <2>1, ReadPieceIs DEF S
  <2> QED BY <2>2 DEF S
<1>3. F \in [S -> [0..(m - 1) -> S]]
  BY <1>2
<1>4. \A a \in S, i \in N : F[a][i] = ReadPiece(a, i, bytes, asked, m, size)
  OBVIOUS
<1>5. Unread \in S
  <2>1. <<>> \in [{} -> Seq(Bytes)]
    OBVIOUS
  <2>2. <<>> \in Gots
    BY <2>1 DEF Gots
  <2> QED BY <2>2 DEF Accounts, Unread
<1> HIDE DEF F, S, N
<1>6. PICK g : Runs(g, Unread, F, S, m)
  BY <1>3, <1>5, Recursion
<1>7. \A i \in 1..m : g[i] = ReadPiece(g[i - 1], i - 1, bytes, asked, m, size)
  <2> SUFFICES ASSUME NEW i \in 1..m
               PROVE  g[i] = ReadPiece(g[i - 1], i - 1, bytes, asked, m, size)
    OBVIOUS
  <2>1. i - 1 \in 0..m /\ i - 1 \in N
    BY DEF N
  <2>2. g \in [0..m -> S]
    BY <1>6 DEF Runs
  <2>3. g[i - 1] \in S
    BY <2>1, <2>2
  <2> QED BY <1>4, <1>6, <2>1, <2>3 DEF Runs
<1>8. g = Body(g)
  BY <1>6, <1>7 DEF Runs
<1>9. read = Body(read)
  BY <1>8
<1> HIDE DEF read
<1>10. /\ read[0] = Unread
       /\ \A i \in 1..m : read[i] = ReadPiece(read[i - 1], i - 1, bytes, asked, m, size)
  BY <1>9
<1> QED BY <1>1, <1>10 DEF Reads

\* What is heard of an answer is what was said of it.
Agrees(bytes, D) == \A x \in 1..Len(bytes) : x <= Len(D) => bytes[x] = D[x]

\* The reader is where the next piece asked starts, and has the pieces before.
Lock(acc, k, starts, bytes, D, asked, length, pl, m) ==
  /\ acc \in Accounts
  /\ acc.ok => /\ k < m => acc.head = starts[k]
               /\ DOMAIN acc.got = {i \in asked : i < k}
               /\ \A i \in DOMAIN acc.got :
                    i # m - 1 \/ bytes = D => acc.got[i] = GetPiece(length, pl, i)
  /\ bytes = D => acc.ok

LEMMA Inside ==
  ASSUME NEW h \in Nat, NEW len \in Nat, NEW o \in 1..len, NEW b \in Nat, h + 2 + len <= b
  PROVE  h + 2 + o \in 1..b /\ h + 2 + o <= b
OBVIOUS

LEMMA ReadKeeps ==
  ASSUME NEW length \in Nat \ {0}, NEW pl \in Nat \ {0}, NEW m, m = NumPieces(length, pl),
         NEW asked \in SUBSET (0..(m - 1)), NEW size \in Nat, m > 1 => size = pl,
         NEW D, NEW starts, Laid(D, starts, asked, length, pl, m),
         NEW bytes \in Seq(Bytes), Agrees(bytes, D),
         NEW k \in 0..(m - 1), NEW acc, Lock(acc, k, starts, bytes, D, asked, length, pl, m),
         NEW new, new = ReadPiece(acc, k, bytes, asked, m, size)
  PROVE  Lock(new, k + 1, starts, bytes, D, asked, length, pl, m)
<1> DEFINE len == Expected(k, acc.head, bytes, m, size)
           p == GetPiece(length, pl, k)
<1>0. m \in Nat
  BY NumPiecesIs
<1>1. m \in Nat /\ k \in Nat /\ k + 1 \in 0..m /\ k \in 0..m /\ m \in 0..m
  BY <1>0
<1>2. acc \in Accounts /\ acc.head \in Nat
  BY DEF Lock, Accounts
<1>3. /\ new \in Accounts
      /\ k \notin asked => new = acc
      /\ k \in asked => (new.ok <=> Readable(acc, k, bytes, len))
      /\ k \in asked /\ new.ok => Taken(new, acc, k, bytes, len)
  <2>1. new \in Accounts /\ Follows(new, acc, k, bytes, asked, len)
    BY <1>1, <1>2, ReadPieceIs
  <2> QED BY <2>1 DEF Follows
<1>4. CASE k \notin asked
  <2>1. new = acc /\ starts[k + 1] = starts[k]
    BY <1>3, <1>4 DEF Laid
  <2>2. {i \in asked : i < k + 1} = {i \in asked : i < k}
    <3>1. \A i \in asked : i < k + 1 <=> i < k
      <4>1. \A i \in asked : i \in Nat /\ i # k
        BY <1>0, <1>4
      <4> QED BY <1>1, <4>1
    <3> QED BY <3>1
  <2>3. k + 1 < m => k < m
    BY <1>1
  <2> QED BY <2>1, <2>2, <2>3 DEF Lock
<1>5. CASE k \in asked
  <2>1. /\ Len(p) \in Nat /\ p \in Seq(Bytes)
        /\ Len(p) = IF k = m - 1 THEN length % pl ELSE pl
    BY <1>1, GetPieceIs, LenProperties
  <2>2. /\ starts[k] \in Nat /\ starts[k + 1] = starts[k] + 3 + Len(p)
        /\ starts[k + 1] <= Len(D) /\ Len(D) = starts[m] /\ Len(D) \in Nat
    BY <1>1, <1>5, LenProperties DEF Laid
  <2>8. /\ D[starts[k] + 1] = Index(k)
        /\ \A o \in 1..Len(p) : D[starts[k] + 2 + o] = p[o]
    BY <1>1, <1>5 DEF Laid
  <2>3. k < m /\ Len(bytes) \in Nat
    BY <1>1, LenProperties
  <2>4. acc.ok => acc.head = starts[k]
    BY <2>3 DEF Lock
  <2>5. acc.ok /\ (k # m - 1 \/ bytes = D) => len = Len(p)
    <3>1. CASE k # m - 1
      BY <1>1, <2>1, <3>1 DEF Expected
    <3>2. CASE k = m - 1 /\ bytes = D /\ acc.ok
      <4>1. starts[k + 1] = starts[m]
        BY <1>1, <3>2
      <4>2. len = Len(D) - (starts[k] + 2) - 1
        BY <2>4, <3>2 DEF Expected
      <4> QED BY <2>1, <2>2, <4>1, <4>2
    <3> QED BY <3>1, <3>2
  <2> HIDE DEF len, p
  <2>6. bytes = D => new.ok
    <3> SUFFICES ASSUME bytes = D PROVE Readable(acc, k, bytes, len)
      BY <1>3, <1>5
    <3>1. acc.ok /\ acc.head = starts[k] /\ len = Len(p)
      BY <2>4, <2>5 DEF Lock
    <3>2. starts[k] < Len(D) /\ len >= 0 /\ starts[k] + 2 + len <= Len(D)
      <4>1. starts[k] \in Nat /\ starts[k] + 3 + Len(p) <= Len(D) /\ Len(D) \in Nat
        BY <2>2
      <4>2. Len(p) \in Nat
        BY <2>1
      <4> QED BY <3>1, <4>1, <4>2
    <3> QED BY <2>8, <3>1, <3>2 DEF Readable
  <2>7. ASSUME new.ok
        PROVE  /\ k + 1 < m => new.head = starts[k + 1]
               /\ DOMAIN new.got = {i \in asked : i < k + 1}
               /\ \A i \in DOMAIN new.got :
                    i # m - 1 \/ bytes = D => new.got[i] = GetPiece(length, pl, i)
    <3>1. Readable(acc, k, bytes, len) /\ Taken(new, acc, k, bytes, len)
      BY <1>3, <1>5, <2>7
    <3>2. /\ acc.ok /\ acc.head = starts[k] /\ DOMAIN acc.got = {i \in asked : i < k}
          /\ \A i \in DOMAIN acc.got :
               i # m - 1 \/ bytes = D => acc.got[i] = GetPiece(length, pl, i)
      BY <2>4, <3>1 DEF Readable, Lock
    <3>3. /\ DOMAIN new.got = DOMAIN acc.got \cup {k}
          /\ \A i \in DOMAIN acc.got \ {k} : new.got[i] = acc.got[i]
          /\ new.head = starts[k] + 3 + len
          /\ new.got[k] \in Seq(Bytes) /\ Behind(new.got[k], bytes, starts[k] + 2, len)
      BY <3>1, <3>2 DEF Taken
    <3>4. k + 1 < m => new.head = starts[k + 1]
      <4>1. k + 1 < m => k # m - 1
        BY <1>1
      <4> QED BY <2>2, <2>5, <3>2, <3>3, <4>1
    <3>5. DOMAIN new.got = {i \in asked : i < k + 1}
      <4>1. \A i \in asked : i < k + 1 <=> i < k \/ i = k
        BY <1>1
      <4> QED BY <1>5, <3>2, <3>3, <4>1
    <3>6. k # m - 1 \/ bytes = D => new.got[k] = p
      <4> SUFFICES ASSUME k # m - 1 \/ bytes = D PROVE new.got[k] = p
        OBVIOUS
      <4>1. len = Len(p) /\ starts[k] + 2 + len <= Len(bytes)
        BY <2>5, <3>1, <3>2 DEF Readable
      <4>2. ASSUME NEW o \in 1..Len(p) PROVE bytes[starts[k] + 2 + o] = p[o]
        <5>1. starts[k] + 2 + o \in 1..Len(bytes) /\ starts[k] + 2 + o <= Len(D)
          <6>1. starts[k] \in Nat /\ starts[k] + 2 + Len(p) <= Len(D) /\ Len(D) \in Nat
            <7>1. starts[k] \in Nat /\ starts[k] + 3 + Len(p) <= Len(D) /\ Len(D) \in Nat
              BY <2>2
            <7>2. Len(p) \in Nat
              BY <2>1
            <7> QED BY <7>1, <7>2
          <6>2. starts[k] + 2 + Len(p) <= Len(bytes) /\ Len(bytes) \in Nat
            BY <2>3, <4>1
          <6> QED BY <2>1, <6>1, <6>2, Inside, Zenon
        <5> QED BY <2>8, <5>1 DEF Agrees
      <4>3. Len(new.got[k]) = Len(p) /\ \A o \in 1..Len(p) : new.got[k][o] = p[o]
        BY <3>3, <4>1, <4>2 DEF Behind
      <4> QED BY <2>1, <3>3, <4>3, SeqEqual
    <3>7. \A i \in DOMAIN new.got :
            i # m - 1 \/ bytes = D => new.got[i] = GetPiece(length, pl, i)
      BY <3>2, <3>3, <3>6 DEF p
    <3> QED BY <3>4, <3>5, <3>7
  <2> QED BY <1>3, <2>6, <2>7 DEF Lock
<1> QED BY <1>4, <1>5

\* What the reader returns for an answer it heard: the pieces asked, the last of
\* the file only if the answer came whole and alone.
Answered(r, bytes, D, asked, length, pl, m) ==
  /\ bytes = D => r.ok
  /\ r.ok => /\ DOMAIN r.got = asked
             /\ \A i \in asked : i # m - 1 \/ bytes = D => r.got[i] = GetPiece(length, pl, i)

LEMMA AnswerIs ==
  ASSUME NEW length \in Nat \ {0}, NEW pl \in Nat \ {0}, NEW m, m = NumPieces(length, pl),
         NEW asked \in SUBSET (0..(m - 1)), NEW size \in Nat, m > 1 => size = pl,
         NEW bytes \in Seq(Bytes), Agrees(bytes, DataOf(asked, length, pl))
  PROVE  Answered(ReadData(bytes, asked, m, size), bytes, DataOf(asked, length, pl),
                  asked, length, pl, m)
<1> DEFINE D == DataOf(asked, length, pl)
<1>1. m \in Nat \ {0}
  BY NumPiecesIs
<1>2. PICK starts : Laid(D, starts, asked, length, pl, m)
  BY LaidOut
<1>3. PICK read : Reads(read, bytes, asked, m, size)
  BY <1>1, ReadIs
<1>4. Agrees(bytes, D)
  OBVIOUS
<1> HIDE DEF D
<1> DEFINE T == {k \in Nat : k <= m => Lock(read[k], k, starts, bytes, D, asked, length, pl, m)}
<1>5. 0 \in T
  <2>1. read[0] = Unread
    BY <1>3 DEF Reads
  <2>2. Unread \in Accounts /\ Unread.ok /\ Unread.head = 0 /\ DOMAIN Unread.got = {}
    <3>1. <<>> \in [{} -> Seq(Bytes)]
      OBVIOUS
    <3>2. <<>> \in Gots
      BY <3>1 DEF Gots
    <3> QED BY <3>2 DEF Accounts, Unread
  <2>3. starts[0] = 0
    BY <1>2 DEF Laid
  <2>4. {i \in asked : i < 0} = {}
    <3>1. \A i \in asked : ~(i < 0)
      BY <1>1
    <3> QED BY <3>1
  <2> QED BY <2>1, <2>2, <2>3, <2>4 DEF Lock
<1>6. ASSUME NEW k \in Nat, k \in T PROVE k + 1 \in T
  <2> SUFFICES ASSUME k + 1 <= m
               PROVE  Lock(read[k + 1], k + 1, starts, bytes, D, asked, length, pl, m)
    OBVIOUS
  <2>1. k \in 0..(m - 1) /\ k + 1 \in 1..m /\ k + 1 - 1 = k
    BY <1>1
  <2>2. Lock(read[k], k, starts, bytes, D, asked, length, pl, m)
    <3>1. k <= m
      BY <1>1
    <3> QED BY <1>6, <3>1
  <2>3. read[k + 1] = ReadPiece(read[k], k, bytes, asked, m, size)
    BY <1>3, <2>1 DEF Reads
  <2> HIDE DEF T
  <2> QED BY <1>2, <1>4, <2>1, <2>2, <2>3, ReadKeeps
<1>7. Lock(read[m], m, starts, bytes, D, asked, length, pl, m)
  <2> HIDE DEF T
  <2>1. m \in T
    BY <1>1, <1>5, <1>6, Upwards
  <2> QED BY <1>1, <2>1 DEF T
<1>8. ReadData(bytes, asked, m, size) = read[m]
  BY <1>3 DEF Reads
<1>9. {i \in asked : i < m} = asked
  <2>1. \A i \in asked : i < m
    BY <1>1
  <2> QED BY <2>1
<1>10. Answered(read[m], bytes, D, asked, length, pl, m)
  BY <1>7, <1>9 DEF Lock, Answered
<1> QED BY <1>8, <1>10 DEF D

\* What a read returns of an answer agrees with it.
LEMMA HeardAgrees ==
  ASSUME NEW answer \in Seq(Bytes), NEW bytes \in Heard(answer)
  PROVE  bytes \in Seq(Bytes) /\ Agrees(bytes, answer)
<1>1. Len(answer) \in Nat
  BY LenProperties
<1>2. CASE bytes = answer
  BY <1>2 DEF Agrees
<1>3. CASE bytes = Append(answer, NewLine)
  <2>1. NewLine \in Bytes
    BY DEF NewLine, Mark, Bytes
  <2>2. bytes \in Seq(Bytes) /\ \A x \in 1..Len(answer) : bytes[x] = answer[x]
    BY <1>3, <2>1, AppendProperties
  <2>3. \A x \in 1..Len(bytes) : x <= Len(answer) => x \in 1..Len(answer)
    BY <1>1
  <2> QED BY <2>2, <2>3 DEF Agrees
<1>4. ASSUME NEW k \in 0..(Len(answer) - 1), bytes = SubSeq(answer, 1, k)
      PROVE  bytes \in Seq(Bytes) /\ Agrees(bytes, answer)
  <2>1. k \in Nat /\ 0 + k <= Len(answer) /\ 0 + 1 = 1 /\ 0 + k = k
    BY <1>1
  <2>2. bytes \in Seq(Bytes) /\ Behind(bytes, answer, 0, k)
    BY <1>4, <2>1, Slices
  <2>3. \A x \in 1..Len(bytes) : 0 + x = x
    BY <2>1
  <2> QED BY <2>2, <2>3 DEF Behind, Agrees
<1> QED BY <1>2, <1>3, <1>4 DEF Heard

\* All pieces but the last are full; the last one has what is left.
LEMMA PiecesFit ==
  ASSUME NEW length \in Nat \ {0}, NEW pl \in Nat \ {0}, NEW m, m = NumPieces(length, pl)
  PROVE  (m - 1) * pl <= length - 1 /\ (m > 1 => Smaller(pl, length) = pl)
<1> DEFINE a == length + pl - 1
<1>1. a \in Nat
  OBVIOUS
<1>2. m = a \div pl
  BY DEF NumPieces
<1> HIDE DEF a
<1>3. m \in Nat \ {0} /\ a % pl \in 0..(pl - 1) /\ a = pl * m + (a % pl)
  BY <1>1, <1>2, DivIs, NumPiecesIs
<1>4. (m - 1) * pl = pl * m - pl
  BY <1>3
<1>5. pl * m <= a /\ pl * m \in Nat
  BY <1>3
<1>6. (m - 1) * pl <= length - 1
  BY <1>4, <1>5 DEF a
<1>7. ASSUME m > 1 PROVE Smaller(pl, length) = pl
  <2>1. 1 * pl <= (m - 1) * pl
    BY <1>3, <1>7, Mono
  <2>2. (m - 1) * pl \in Int /\ 1 * pl = pl
    BY <1>3
  <2>3. pl < length
    BY <1>6, <2>1, <2>2
  <2> QED BY <2>3 DEF Smaller
<1> QED BY <1>6, <1>7

LEMMA Unique ==
  ASSUME NEW i \in Int, NEW j \in Int, NEW b \in Nat \ {0}, NEW r \in 0..(b - 1),
         NEW s \in 0..(b - 1), i * b + r = j * b + s
  PROVE  i = j /\ r = s
<1>1. i <= j
  <2> SUFFICES ASSUME j + 1 <= i PROVE FALSE
    OBVIOUS
  <2>1. (j + 1) * b <= i * b
    BY Mono
  <2>2. (j + 1) * b = j * b + b
    OBVIOUS
  <2> QED BY <2>1, <2>2
<1>2. j <= i
  <2> SUFFICES ASSUME i + 1 <= j PROVE FALSE
    OBVIOUS
  <2>1. (i + 1) * b <= j * b
    BY Mono
  <2>2. (i + 1) * b = i * b + b
    OBVIOUS
  <2> QED BY <2>1, <2>2
<1> QED BY <1>1, <1>2

\* get_piece reads the piece there is, if it is not the last or the length is
\* not a multiple of the piece length.
LEMMA PieceIs ==
  ASSUME NEW length \in Nat \ {0}, NEW pl \in Nat \ {0}, NEW m, m = NumPieces(length, pl),
         NEW i \in 0..(m - 1), i # m - 1 \/ length % pl # 0
  PROVE  GetPiece(length, pl, i) = Piece(length, pl, i)
<1>1. m \in Nat \ {0} /\ i \in Nat
  BY NumPiecesIs
<1>2. (m - 1) * pl <= length - 1
  BY PiecesFit
<1> DEFINE size == IF i = m - 1 THEN length % pl ELSE pl
<1>3. size = Smaller(pl, length - i * pl)
  <2>1. CASE i # m - 1
    <3>1. (i + 1) * pl <= (m - 1) * pl
      BY <1>1, <2>1, Mono
    <3>2. (i + 1) * pl = i * pl + pl /\ i * pl \in Int /\ (m - 1) * pl \in Int
      BY <1>1
    <3>3. pl < length - i * pl
      BY <1>2, <3>1, <3>2
    <3> QED BY <2>1, <3>3 DEF Smaller
  <2>2. CASE i = m - 1
    <3> DEFINE q == length \div pl
               r == length % pl
               a == length + pl - 1
    <3>1. q \in Nat /\ r \in 0..(pl - 1) /\ length = pl * q + r /\ r # 0
      BY <2>2, DivIs
    <3>2. a \in Nat /\ m = a \div pl
      BY DEF NumPieces
    <3> HIDE DEF q, r, a
    <3>3. a % pl \in 0..(pl - 1) /\ a = pl * m + (a % pl)
      BY <3>2, DivIs
    <3>4. r - 1 \in 0..(pl - 1) /\ q + 1 \in Int /\ m \in Int
      BY <1>1, <3>1
    <3>5. (q + 1) * pl = pl * q + pl /\ pl * q \in Nat /\ m * pl = pl * m /\ q * pl = pl * q
      BY <1>1, <3>1
    <3>6. a = pl * q + pl + (r - 1)
      BY <3>1, <3>5 DEF a
    <3>7. (q + 1) * pl + (r - 1) = m * pl + (a % pl)
      BY <3>3, <3>5, <3>6
    <3>8. q + 1 = m
      <4> DEFINE w == q + 1
                 t == r - 1
                 u == a % pl
      <4>1. /\ w \in Int /\ m \in Int /\ t \in 0..(pl - 1) /\ u \in 0..(pl - 1)
            /\ w * pl + t = m * pl + u
        BY <3>3, <3>4, <3>7
      <4> HIDE DEF w, t, u
      <4>2. w = m
        BY <4>1, Unique
      <4> QED BY <4>2 DEF w
    <3>9. i = q
      BY <1>1, <2>2, <3>1, <3>8
    <3>10. length - i * pl = r
      BY <3>1, <3>5, <3>9
    <3>11. size = r
      BY <2>2 DEF r
    <3>12. r < pl
      BY <3>1
    <3> QED BY <3>10, <3>11, <3>12 DEF Smaller
  <2> QED BY <2>1, <2>2
<1>4. GetPiece(length, pl, i) = [o \in 1..size |-> <<"byte", i, o>>]
  BY DEF GetPiece
<1> HIDE DEF size
<1> QED BY <1>3, <1>4 DEF Piece

-----------------------------------------------------------------------------
(* The types of the variables. *)

Client == [peer : Peers, id : 0..(world.room - 1)]

\* What never changes.
Fixed ==
  /\ world \in Worlds /\ world.room \in Nat \ {0}
  /\ holds \in [Peers -> SUBSET Numbers(n)]
  /\ useful \in Orders(Peers)

\* A message is to be sent while there is one, to a peer of the answer.
Sending == pc = "slice" => todo # <<>> /\ at <= Len(useful)

Typed == Fixed /\ TypeOK /\ Sending

LEMMA NumberIs ==
  ASSUME world \in Worlds
  PROVE  /\ n \in Nat \ {0} /\ n = NumPieces(Length, PieceLength)
         /\ Length \in Nat \ {0} /\ PieceLength \in Nat \ {0} /\ Width \in Nat \ {0}
<1>1. Length \in Nat \ {0} /\ PieceLength \in Nat \ {0} /\ Width \in Nat \ {0}
  BY SizesAssumption DEF WorldType, Length
<1> QED BY <1>1, NumPiecesIs DEF n

LEMMA SameNumber ==
  ASSUME world' = world
  PROVE  n' = n /\ Length' = Length
BY DEF n, Length

LEMMA UsefulIs ==
  ASSUME useful \in Orders(Peers)
  PROVE  /\ Len(useful) \in Nat \ {0} /\ useful \in [1..Len(useful) -> Peers]
         /\ Range(useful) = Peers
<1>1. /\ Cardinality(Peers) \in Nat /\ useful \in [1..Cardinality(Peers) -> Peers]
      /\ Range(useful) = Peers
  BY PeersAssumption, OrderIs
<1>2. Cardinality(Peers) # 0
  BY PeersAssumption, FS_EmptySet
<1>3. Len(useful) = Cardinality(Peers)
  BY <1>1
<1> QED BY <1>1, <1>2, <1>3

\* connect keeps the list within its room, and its id is a number.
LEMMA Connecting ==
  ASSUME Typed, NEW p \in Peers
  PROVE  /\ Connected(p) \in Seq(Client) /\ Len(Connected(p)) <= world.room
         /\ IdOf(p) \in Nat
         /\ Reachable(p) => Reached(p) \in Peers
<1>1. /\ clients \in Seq(Client) /\ Len(clients) \in Nat /\ Len(clients) <= world.room
      /\ world.room \in Nat \ {0}
  BY LenProperties DEF Typed, TypeOK, Fixed, Client
<1>2. ASSUME Links(p) = {}, Len(clients) < world.room
      PROVE  /\ Connected(p) \in Seq(Client) /\ Len(Connected(p)) = Len(clients) + 1
  <2>1. [peer |-> p, id |-> Len(clients)] \in Client
    BY <1>1, <1>2 DEF Client
  <2>2. Connected(p) = Append(clients, [peer |-> p, id |-> Len(clients)])
    BY <1>1, <1>2 DEF Connected
  <2> QED BY <1>1, <2>1, <2>2, AppendProperties
<1>3. ASSUME ~(Links(p) = {} /\ Len(clients) < world.room) PROVE Connected(p) = clients
  BY <1>1, <1>3 DEF Connected
<1>4. Connected(p) \in Seq(Client) /\ Len(Connected(p)) <= world.room
  BY <1>1, <1>2, <1>3
<1>5. IdOf(p) \in Nat
  <2>1. CASE Links(p) # {}
    <3>1. Links(p) \in SUBSET Nat /\ Links(p) \subseteq DOMAIN clients
      BY <1>1 DEF Links
    <3>2. Min(Links(p)) \in DOMAIN clients
      BY <2>1, <3>1, MinIs
    <3>3. clients[Min(Links(p))] \in Client
      BY <1>1, <3>2
    <3> QED BY <1>1, <2>1, <3>3 DEF IdOf, Client
  <2>2. CASE Links(p) = {}
    <3>1. Len(Connected(p)) \in Nat /\ Len(Connected(p)) >= 1
      BY <1>1, <1>2, <1>3, <2>2
    <3> QED BY <2>2, <3>1 DEF IdOf
  <2> QED BY <2>1, <2>2
<1>6. ASSUME Reachable(p) PROVE Reached(p) \in Peers
  <2>1. IdOf(p) + 1 \in 1..Len(Connected(p)) /\ Len(Connected(p)) \in Nat
    BY <1>4, <1>5, <1>6, LenProperties DEF Reachable
  <2>2. Connected(p)[IdOf(p) + 1] \in Client
    BY <1>4, <2>1
  <2> QED BY <2>2 DEF Reached, Client
<1> QED BY <1>4, <1>5, <1>6

\* An answer, as it is heard, brings pieces that were asked.
LEMMA ReadIt ==
  ASSUME world \in Worlds, todo[1] \in SUBSET Numbers(n),
         NEW bytes \in Heard(DataOf(todo[1], Length, PieceLength))
  PROVE  Answered(Read(bytes), bytes, DataOf(todo[1], Length, PieceLength), todo[1],
                  Length, PieceLength, n)
<1> DEFINE D == DataOf(todo[1], Length, PieceLength)
           size == Smaller(PieceLength, Length)
<1>1. todo[1] \in SUBSET (0..(n - 1)) /\ n = NumPieces(Length, PieceLength)
  BY NumberIs DEF Numbers
<1>2. D \in Seq(Bytes)
  <2>1. PICK starts : Laid(D, starts, todo[1], Length, PieceLength, n)
    BY <1>1, NumberIs, LaidOut
  <2> QED BY <2>1 DEF Laid
<1>3. bytes \in Seq(Bytes) /\ Agrees(bytes, D)
  BY <1>2, HeardAgrees
<1>4. size \in Nat /\ (n > 1 => size = PieceLength)
  BY <1>1, NumberIs, PiecesFit DEF Smaller
<1> HIDE DEF size
<1>5. Answered(ReadData(bytes, todo[1], n, size), bytes, D, todo[1], Length, PieceLength, n)
  BY <1>1, <1>3, <1>4, NumberIs, AnswerIs
<1> QED BY <1>5 DEF Read, size

LEMMA Removes ==
  ASSUME NEW S, NEW s \in Seq(S), NEW k \in 1..Len(s)
  PROVE  RemoveAt(s, k) \in Seq(S) /\ Len(RemoveAt(s, k)) = Len(s) - 1
<1> DEFINE b == k - 1
           e == k + 1
           l == Len(s)
<1>1. l \in Nat /\ b \in Int /\ e \in Int /\ 1 \in Int /\ k \in 1..l
      /\ (\A i \in 1..b : s[i] \in S) /\ (\A i \in e..l : s[i] \in S)
  BY LenProperties
<1>2. RemoveAt(s, k) = SubSeq(s, 1, b) \o SubSeq(s, e, l)
  BY DEF RemoveAt
<1> HIDE DEF b, e, l
<1>3. /\ SubSeq(s, 1, b) \in Seq(S)
      /\ Len(SubSeq(s, 1, b)) = IF 1 <= b THEN b - 1 + 1 ELSE 0
  BY <1>1, SubSeqProperties
<1>4. /\ SubSeq(s, e, l) \in Seq(S)
      /\ Len(SubSeq(s, e, l)) = IF e <= l THEN l - e + 1 ELSE 0
  BY <1>1, SubSeqProperties
<1>5. /\ SubSeq(s, 1, b) \o SubSeq(s, e, l) \in Seq(S)
      /\ Len(SubSeq(s, 1, b) \o SubSeq(s, e, l)) = Len(SubSeq(s, 1, b)) + Len(SubSeq(s, e, l))
  BY <1>3, <1>4, ConcatProperties
<1>6. Len(SubSeq(s, 1, b)) = k - 1 /\ Len(SubSeq(s, e, l)) = l - k
  BY <1>1, <1>3, <1>4 DEF b, e
<1>7. (k - 1) + (l - k) = l - 1
  BY <1>1
<1> QED BY <1>2, <1>5, <1>6, <1>7 DEF l

LEMMA InitTyped == Init => Typed
<1> SUFFICES ASSUME Init PROVE Typed
  OBVIOUS
<1>1. /\ world \in WorldType
      /\ world.holdings \subseteq SUBSET Numbers(NumPieces(world.length, PieceLength))
  BY SizesAssumption DEF Init
<1>2. world.room \in Nat \ {0} /\ world.holdings \in SUBSET SUBSET Numbers(n)
  BY <1>1 DEF WorldType, n, Length
<1>3. Fixed
  BY <1>2 DEF Init, Fixed
<1>4. Len(useful) \in Nat \ {0} /\ useful[1] \in Peers
  BY <1>3, UsefulIs DEF Fixed
<1>5. TypeOK
  BY <1>2, <1>4 DEF Init, TypeOK
<1> QED BY <1>3, <1>5 DEF Init, Typed, Sending

\* The buffer map read is one of the pieces of the file.
Hears(new, old, p, bytes) ==
  /\ DOMAIN new = DOMAIN old \cup {p} /\ new[p] = ReadMap(bytes, n, Width)
  /\ \A q \in DOMAIN old \ {p} : new[q] = old[q]
  /\ DOMAIN new \subseteq Peers /\ \A q \in DOMAIN new : new[q] \subseteq Numbers(n)

LEMMA MapsIs ==
  ASSUME NEW old, DOMAIN old \subseteq Peers, \A p \in DOMAIN old : old[p] \subseteq Numbers(n),
         NEW p \in Peers, NEW bytes, NEW new, new = With(old, [q \in {p} |-> ReadMap(bytes, n, Width)])
  PROVE  Hears(new, old, p, bytes)
<1>1. ReadMap(bytes, n, Width) \subseteq Numbers(n)
  BY DEF ReadMap
<1> QED BY <1>1 DEF With, Hears

LEMMA HereIs ==
  ASSUME Typed, at <= Len(useful)
  PROVE  Here \in Peers /\ at + 1 \in 1..(Len(useful) + 1)
<1>1. Len(useful) \in Nat \ {0} /\ useful \in [1..Len(useful) -> Peers] /\ at \in 1..(Len(useful) + 1)
  BY UsefulIs DEF Typed, Fixed, TypeOK
<1> QED BY <1>1 DEF Here

\* planDownloads shares out the pieces of the maps that were heard.
LEMMA MakePlanIs ==
  ASSUME Typed, MakePlan
  PROVE  Shared(plan', maps, DOMAIN maps, n)
<1>1. PICK order \in Orders(DOMAIN maps) : plan' = Plan(maps, order, n)
  BY DEF MakePlan
<1>2. IsFiniteSet(DOMAIN maps)
  BY PeersAssumption, FS_Subset DEF Typed, TypeOK
<1> DEFINE c == Cardinality(DOMAIN maps)
<1>3. c \in Nat /\ order \in [1..c -> DOMAIN maps] /\ Range(order) = DOMAIN maps
  BY <1>2, OrderIs
<1> HIDE DEF c
<1> QED BY <1>1, <1>3, NumberIs, PlanShares DEF Typed, Fixed

\* What the steps of a download leave alone, and how far they go.
LEMMA GiveUpTyped ==
  ASSUME Typed, GiveUp, at <= Len(useful)
  PROVE  Typed'
<1>1. at + 1 \in 1..(Len(useful) + 1)
  BY HereIs
<1>2. <<>> \in Seq(SUBSET Numbers(n))
  BY EmptySeq
<1>3. n' = n
  BY SameNumber DEF GiveUp, netVars
<1> QED BY <1>1, <1>2, <1>3 DEF Typed, Fixed, TypeOK, Sending, GiveUp, netVars

LEMMA StepTyped ==
  ASSUME Typed, Next
  PROVE  Typed'
<1> USE DEF netVars
<1>0. UNCHANGED netVars
  BY DEF Next, Step, AskFails, AskLost, Ask, MakePlan, Finish, FetchFails, Fetch, SliceLost,
         SliceFails, SliceUnreadable, SliceRead, GiveUp, Reset
<1>1. Fixed' = Fixed /\ n' = n
  BY <1>0, SameNumber DEF Fixed
<1>2. ASSUME NEW p \in Peers, clients' = Connected(p), world' = world
      PROVE  /\ clients' \in Seq([peer : Peers, id : 0..(world'.room - 1)])
             /\ Len(clients') <= world'.room
  BY <1>2, Connecting DEF Client
<1>3. CASE AskFails
  <2>1. at <= Len(useful)
    BY <1>3 DEF AskFails, Asking
  <2>2. Here \in Peers /\ at + 1 \in 1..(Len(useful) + 1)
    BY <2>1, HereIs
  <2>3. /\ clients' \in Seq([peer : Peers, id : 0..(world'.room - 1)])
        /\ Len(clients') <= world'.room
    <3>1. CASE UNCHANGED clients
      BY <1>3, <3>1 DEF AskFails, Typed, TypeOK
    <3>2. CASE clients' = Connected(Here)
      BY <1>2, <1>3, <2>2, <3>2 DEF AskFails
    <3> QED BY <1>3, <3>1, <3>2 DEF AskFails
  <2>4. /\ UNCHANGED <<netVars, pc, link, maps, plan, todo, parts, file>> /\ at' = at + 1
        /\ pc = "ask"
    BY <1>3 DEF AskFails, Asking
  <2> QED BY <1>1, <2>2, <2>3, <2>4 DEF Typed, TypeOK, Sending
<1>4. CASE AskLost
  <2>1. Here \in Peers
    BY <1>4, HereIs DEF AskLost, Asking
  <2>2. /\ clients' \in Seq([peer : Peers, id : 0..(world'.room - 1)])
        /\ Len(clients') <= world'.room
    BY <1>2, <1>4, <2>1 DEF AskLost
  <2> QED BY <1>1, <1>4, <2>2 DEF AskLost, Typed, TypeOK, Sending
<1>5. CASE Ask
  <2>1. Here \in Peers /\ at + 1 \in 1..(Len(useful) + 1)
    BY <1>5, HereIs DEF Ask, Asking
  <2>2. /\ clients' \in Seq([peer : Peers, id : 0..(world'.room - 1)])
        /\ Len(clients') <= world'.room
    BY <1>2, <1>5, <2>1 DEF Ask
  <2>3. DOMAIN maps' \subseteq Peers /\ \A p \in DOMAIN maps' : maps'[p] \subseteq Numbers(n)
    <3>1. PICK bytes : maps' = With(maps, [q \in {Here} |-> ReadMap(bytes, n, Width)])
      BY <1>5 DEF Ask
    <3>2. DOMAIN maps \subseteq Peers /\ \A p \in DOMAIN maps : maps[p] \subseteq Numbers(n)
      BY DEF Typed, TypeOK
    <3>3. Hears(maps', maps, Here, bytes)
      BY <2>1, <3>1, <3>2, MapsIs
    <3> QED BY <3>3 DEF Hears
  <2>4. /\ UNCHANGED <<netVars, pc, link, plan, todo, parts, file>> /\ at' = at + 1
        /\ pc = "ask"
    BY <1>5 DEF Ask, Asking
  <2> QED BY <1>1, <2>1, <2>2, <2>3, <2>4 DEF Typed, TypeOK, Sending
<1>6. CASE MakePlan
  <2>1. plan' \in [DOMAIN maps -> SUBSET Numbers(n)]
    BY <1>6, MakePlanIs DEF Shared, Numbers
  <2>2. DOMAIN plan' \subseteq Peers /\ \A p \in DOMAIN plan' : plan'[p] \subseteq Numbers(n)
    BY <2>1 DEF Typed, TypeOK
  <2>3. 1 \in 1..(Len(useful) + 1)
    BY UsefulIs DEF Typed, Fixed
  <2>4. /\ UNCHANGED <<netVars, clients, link, maps, todo, parts, file>>
        /\ at' = 1 /\ pc' = "fetch"
    BY <1>6 DEF MakePlan
  <2> QED BY <1>1, <2>2, <2>3, <2>4 DEF Typed, TypeOK, Sending
<1>7. CASE Finish
  BY <1>1, <1>7 DEF Finish, Typed, TypeOK, Sending
<1>8. CASE FetchFails
  <2>1. Here \in Peers /\ at + 1 \in 1..(Len(useful) + 1)
    BY <1>8, HereIs DEF FetchFails, Fetching
  <2>2. /\ clients' \in Seq([peer : Peers, id : 0..(world'.room - 1)])
        /\ Len(clients') <= world'.room
    <3>1. CASE UNCHANGED clients
      BY <1>8, <3>1 DEF FetchFails, Typed, TypeOK
    <3>2. CASE clients' = Connected(Here)
      BY <1>2, <1>8, <2>1, <3>2 DEF FetchFails
    <3> QED BY <1>8, <3>1, <3>2 DEF FetchFails
  <2>3. /\ UNCHANGED <<netVars, pc, link, maps, plan, todo, parts, file>> /\ at' = at + 1
        /\ pc = "fetch"
    BY <1>8 DEF FetchFails, Fetching
  <2> QED BY <1>1, <2>1, <2>2, <2>3 DEF Typed, TypeOK, Sending
<1>9. CASE Fetch
  <2>1. Here \in Peers /\ at + 1 \in 1..(Len(useful) + 1) /\ at <= Len(useful)
    BY <1>9, HereIs DEF Fetch, Fetching
  <2>2. /\ clients' \in Seq([peer : Peers, id : 0..(world'.room - 1)])
        /\ Len(clients') <= world'.room
    BY <1>2, <1>9, <2>1 DEF Fetch
  <2>3. link' \in Peers
    BY <1>9, <2>1, Connecting DEF Fetch
  <2>4. todo' \in Seq(SUBSET Numbers(n))
    <3>1. plan[Here] \in SUBSET (0..(n - 1)) /\ todo' = Requests(plan[Here], world.most, n)
      BY <1>9 DEF Fetch, Typed, TypeOK, Numbers
    <3>2. todo' \in Seq(SUBSET plan[Here])
      BY <3>1, NumberIs, RequestsCover DEF Typed, Fixed
    <3>3. SUBSET plan[Here] \subseteq SUBSET Numbers(n)
      BY <3>1 DEF Numbers
    <3> HIDE DEF Here
    <3> QED BY <3>2, <3>3
  <2>5. /\ UNCHANGED <<netVars, maps, plan, file>> /\ parts' = <<>>
        /\ \/ pc' = "slice" /\ at' = at /\ todo' # <<>>
           \/ pc' = "fetch" /\ at' = at + 1
    BY <1>9 DEF Fetch, Fetching
  <2>6. DOMAIN parts' = {}
    BY <2>5
  <2> QED BY <1>1, <2>1, <2>2, <2>3, <2>4, <2>5, <2>6 DEF Typed, TypeOK, Sending
<1>10. CASE SliceLost
  BY <1>1, <1>10 DEF SliceLost, Typed, TypeOK, Sending
<1>11. CASE SliceFails
  BY <1>11, GiveUpTyped DEF SliceFails, Typed, Sending
<1>12. CASE SliceUnreadable
  BY <1>12, GiveUpTyped DEF SliceUnreadable, Typed, Sending
<1>13. CASE SliceRead
  <2>1. pc = "slice" /\ todo # <<>> /\ at <= Len(useful) /\ todo \in Seq(SUBSET Numbers(n))
    BY <1>13 DEF SliceRead, Typed, Sending, TypeOK
  <2>2. todo[1] \in SUBSET Numbers(n) /\ Tail(todo) \in Seq(SUBSET Numbers(n))
        /\ Len(Tail(todo)) = Len(todo) - 1
    BY <2>1, HeadTailProperties, LenProperties
  <2>3. at + 1 \in 1..(Len(useful) + 1)
    BY <2>1, HereIs
  <2>4. PICK bytes \in Heard(DataOf(todo[1], Length, PieceLength)) :
          /\ Read(bytes).ok
          /\ todo' = Tail(todo)
          /\ IF Len(todo) > 1
             THEN parts' = With(parts, Read(bytes).got) /\ UNCHANGED <<file, at, pc>>
             ELSE /\ file' = With(With(file, parts), Read(bytes).got)
                  /\ parts' = <<>>
                  /\ at' = at + 1
                  /\ pc' = "fetch"
    BY <1>13 DEF SliceRead
  <2>5. DOMAIN Read(bytes).got = todo[1]
    BY <2>2, <2>4, ReadIt DEF Answered, Typed, Fixed
  <2>6. UNCHANGED <<netVars, clients, link, maps, plan>>
    BY <1>13 DEF SliceRead
  <2>7. CASE Len(todo) > 1
    <3>1. DOMAIN parts' \subseteq Numbers(n)
      BY <2>2, <2>4, <2>5, <2>7 DEF Typed, TypeOK, With
    <3>2. todo' # <<>>
      <4>1. Len(todo) \in Nat /\ Len(todo') = Len(todo) - 1
        BY <2>1, <2>2, <2>4, LenProperties
      <4>2. Len(todo') # 0
        BY <2>7, <4>1
      <4> QED BY <4>2
    <3> QED BY <1>1, <2>1, <2>2, <2>4, <2>6, <2>7, <3>1, <3>2 DEF Typed, TypeOK, Sending
  <2>8. CASE ~(Len(todo) > 1)
    <3>1. DOMAIN file' \subseteq Numbers(n) /\ DOMAIN parts' = {}
      BY <2>2, <2>4, <2>5, <2>8 DEF Typed, TypeOK, With
    <3> QED BY <1>1, <2>2, <2>3, <2>4, <2>6, <2>8, <3>1 DEF Typed, TypeOK, Sending
  <2> QED BY <2>7, <2>8
<1>14. ASSUME NEW k \in DOMAIN clients, Reset(k) PROVE Typed'
  <2>1. clients \in Seq(Client) /\ Len(clients) <= world.room /\ k \in 1..Len(clients)
        /\ Len(clients) \in Nat /\ world.room \in Nat
    BY LenProperties DEF Typed, TypeOK, Fixed, Client
  <2>2. clients' \in Seq(Client) /\ Len(clients') = Len(clients) - 1
    BY <1>14, <2>1, Removes DEF Reset
  <2>3. UNCHANGED <<netVars, pc, at, link, maps, plan, todo, parts, file>>
    BY <1>14 DEF Reset
  <2> QED BY <1>1, <2>1, <2>2, <2>3 DEF Typed, TypeOK, Sending, Client
<1> QED BY <1>3, <1>4, <1>5, <1>6, <1>7, <1>8, <1>9, <1>10, <1>11, <1>12, <1>13, <1>14
        DEF Next, Step

LEMMA TypedAlways == Spec => []Typed
<1>1. Typed /\ UNCHANGED vars => Typed'
  BY SameNumber DEF Typed, Fixed, TypeOK, Sending, vars, netVars
<1>2. Typed /\ [Next]_vars => Typed'
  BY <1>1, StepTyped
<1> QED BY <1>2, InitTyped, PTL DEF Spec

\* The variables have their types: no piece outside the file is planned, asked
\* or written, the list of connections keeps to its room, and a message is only
\* sent to a peer of the answer (Download.java:28-78, Peer.java:76-88 and 170-175).
THEOREM Types == Spec => [](TypeOK /\ Sending)
<1>1. Typed => TypeOK /\ Sending
  BY DEF Typed
<1> QED BY <1>1, TypedAlways, PTL

-----------------------------------------------------------------------------
(* The plan and the shares. *)

Planned == pc \in {"fetch", "slice", "done"} => Shared(plan, maps, DOMAIN maps, n)

LEMMA StepPlanned ==
  ASSUME Typed, Planned, Next
  PROVE  Planned'
<1>0. n' = n
  <2>1. world' = world
    BY DEF Next, Step, AskFails, AskLost, Ask, MakePlan, Finish, FetchFails, Fetch, SliceLost,
       SliceFails, SliceUnreadable, SliceRead, GiveUp, Reset, netVars
  <2> QED BY <2>1, SameNumber
<1>1. CASE MakePlan
  <2>1. Shared(plan', maps, DOMAIN maps, n) /\ maps' = maps
    BY <1>1, MakePlanIs DEF MakePlan
  <2> QED BY <1>0, <2>1 DEF Planned
<1>2. CASE pc = "ask" /\ ~MakePlan
  <2>1. pc' \in {"ask", "stuck"}
    BY <1>2 DEF Next, Step, AskFails, AskLost, Ask, Finish, FetchFails, Fetch, SliceLost,
       SliceFails, SliceUnreadable, SliceRead, Reset, Asking, Fetching
  <2> QED BY <2>1 DEF Planned
<1>3. CASE pc # "ask"
  <2>1. UNCHANGED <<maps, plan>>
    BY <1>3 DEF Next, Step, AskFails, AskLost, Ask, MakePlan, Finish, FetchFails, Fetch,
       SliceLost, SliceFails, SliceUnreadable, SliceRead, GiveUp, Reset, Asking, Fetching
  <2>2. pc' \in {"fetch", "slice", "done"} => pc \in {"fetch", "slice", "done"}
    BY <1>3 DEF Next, Step, AskFails, AskLost, Ask, MakePlan, Finish, FetchFails, Fetch,
       SliceLost, SliceFails, SliceUnreadable, SliceRead, GiveUp, Reset, Asking, Fetching
  <2> QED BY <1>0, <2>1, <2>2 DEF Planned
<1> QED BY <1>1, <1>2, <1>3

LEMMA PlannedAlways == Spec => []Planned
<1>1. Init => Planned
  BY DEF Init, Planned
<1>2. Planned /\ UNCHANGED vars => Planned'
  BY SameNumber DEF Planned, vars, netVars
<1>3. Typed /\ Planned /\ [Next]_vars => Planned'
  BY <1>2, StepPlanned
<1> QED BY <1>1, <1>3, TypedAlways, PTL DEF Spec

LEMMA SharedIsSound ==
  ASSUME Planned
  PROVE  PlanSound
<1> SUFFICES ASSUME pc \in {"fetch", "slice", "done"}, NEW i \in Numbers(n)
             PROVE  LET asked == {p \in DOMAIN plan : i \in plan[p]}
                    IN /\ \A p \in asked : i \in maps[p]
                       /\ Cardinality(asked) = IF i \in Known THEN 1 ELSE 0
  BY DEF PlanSound
<1> DEFINE R == DOMAIN maps
           asked == {p \in DOMAIN plan : i \in plan[p]}
<1>1. /\ DOMAIN plan = R
      /\ \/ (\A q \in R : i \notin maps[q]) /\ \A q \in R : i \notin plan[q]
         \/ \E p \in R : i \in maps[p] /\ \A q \in R : i \in plan[q] <=> q = p
  BY DEF Planned, Shared, Numbers
<1>2. CASE (\A q \in R : i \notin maps[q]) /\ \A q \in R : i \notin plan[q]
  <2>1. asked = {} /\ i \notin Known
    BY <1>1, <1>2 DEF Known
  <2> QED BY <2>1, FS_EmptySet
<1>3. ASSUME NEW p \in R, i \in maps[p], \A q \in R : i \in plan[q] <=> q = p
      PROVE  /\ \A q \in asked : i \in maps[q]
             /\ Cardinality(asked) = IF i \in Known THEN 1 ELSE 0
  <2>1. asked = {p} /\ i \in Known
    BY <1>1, <1>3 DEF Known
  <2>2. Cardinality({p}) = 1
    BY FS_Singleton
  <2> QED BY <1>3, <2>1, <2>2
<1> QED BY <1>1, <1>2, <1>3

\* A piece that somebody has is asked of one peer, and of one that has it,
\* whatever the maps and the order of the hash map (Download.java:90-116).
THEOREM PlanIsSound == Spec => []PlanSound
BY PlannedAlways, SharedIsSound, PTL

\* Whoever could have given all of another peer's share is asked for at most one
\* piece less (Download.java:107-114).
THEOREM PlanIsBalanced == Spec => []Balanced
<1>1. Planned => Balanced
  BY DEF Planned, Balanced, Shared
<1> QED BY <1>1, PlannedAlways, PTL

-----------------------------------------------------------------------------
(* The pieces. *)

\* The last piece can be read as it is.
WholeAnswers == world.faults \subseteq {"refused", "reset"}

IntactIn(f) ==
  \A i \in DOMAIN f :
    i # n - 1 \/ WholeAnswers =>
      f[i] = IF i = n - 1 /\ Length % PieceLength = 0 THEN <<>>
             ELSE Piece(Length, PieceLength, i)

Intact == IntactIn(parts) /\ IntactIn(file)

LEMMA WithIntact ==
  ASSUME NEW f, NEW g, IntactIn(f), IntactIn(g)
  PROVE  IntactIn(With(f, g))
<1>1. /\ DOMAIN With(f, g) = DOMAIN f \cup DOMAIN g
      /\ \A i \in DOMAIN With(f, g) : \/ i \in DOMAIN g /\ With(f, g)[i] = g[i]
                                      \/ i \in DOMAIN f /\ With(f, g)[i] = f[i]
  BY DEF With
<1> QED BY <1>1 DEF IntactIn

\* What an answer brings is the pieces of the file.
LEMMA AnswersIntact ==
  ASSUME world \in Worlds, todo[1] \in SUBSET Numbers(n),
         NEW bytes \in Heard(DataOf(todo[1], Length, PieceLength)), Read(bytes).ok
  PROVE  IntactIn(Read(bytes).got)
<1> DEFINE D == DataOf(todo[1], Length, PieceLength)
<1>1. /\ DOMAIN Read(bytes).got = todo[1]
      /\ \A i \in todo[1] : i # n - 1 \/ bytes = D =>
           Read(bytes).got[i] = GetPiece(Length, PieceLength, i)
  BY ReadIt DEF Answered
<1>2. WholeAnswers => bytes = D
  BY DEF WholeAnswers, Heard
<1>3. ASSUME NEW i \in todo[1]
      PROVE  GetPiece(Length, PieceLength, i) =
               IF i = n - 1 /\ Length % PieceLength = 0 THEN <<>>
               ELSE Piece(Length, PieceLength, i)
  <2>1. /\ Length \in Nat \ {0} /\ PieceLength \in Nat \ {0} /\ n = NumPieces(Length, PieceLength)
        /\ i \in 0..(n - 1)
    BY NumberIs DEF Numbers
  <2>2. CASE i = n - 1 /\ Length % PieceLength = 0
    <3>1. GetPiece(Length, PieceLength, i) = [o \in 1..0 |-> <<"byte", i, o>>]
      BY <2>1, <2>2 DEF GetPiece
    <3> QED BY <2>2, <3>1
  <2>3. CASE ~(i = n - 1 /\ Length % PieceLength = 0)
    BY <2>1, <2>3, PieceIs
  <2> QED BY <2>2, <2>3
<1> QED BY <1>1, <1>2, <1>3 DEF IntactIn

LEMMA StepIntact ==
  ASSUME Typed, Intact, Next
  PROVE  Intact'
<1>0. world' = world
  BY DEF Next, Step, AskFails, AskLost, Ask, MakePlan, Finish, FetchFails, Fetch, SliceLost,
         SliceFails, SliceUnreadable, SliceRead, GiveUp, Reset, netVars
<1>1. world' = world /\ n' = n /\ Length' = Length
  BY <1>0, SameNumber
<1>2. ASSUME parts' = parts \/ parts' = <<>>, file' = file PROVE Intact'
  <2>1. DOMAIN <<>> = {}
    OBVIOUS
  <2> QED BY <1>1, <1>2, <2>1 DEF Intact, IntactIn, WholeAnswers
<1>3. CASE ~SliceRead
  <2>1. (parts' = parts \/ parts' = <<>>) /\ file' = file
    BY <1>3 DEF Next, Step, AskFails, AskLost, Ask, MakePlan, Finish, FetchFails, Fetch,
       SliceLost, SliceFails, SliceUnreadable, GiveUp, Reset
  <2> QED BY <1>2, <2>1
<1>4. CASE SliceRead
  <2>1. todo[1] \in SUBSET Numbers(n)
    <3>1. todo # <<>> /\ todo \in Seq(SUBSET Numbers(n))
      BY <1>4 DEF SliceRead, Typed, Sending, TypeOK
    <3> QED BY <3>1
  <2>2. PICK bytes \in Heard(DataOf(todo[1], Length, PieceLength)) :
          /\ Read(bytes).ok
          /\ \/ parts' = With(parts, Read(bytes).got) /\ file' = file
             \/ file' = With(With(file, parts), Read(bytes).got) /\ parts' = <<>>
    BY <1>4 DEF SliceRead
  <2>3. IntactIn(Read(bytes).got)
    BY <2>1, <2>2, AnswersIntact DEF Typed, Fixed
  <2>4. IntactIn(With(parts, Read(bytes).got))
    BY <2>3, WithIntact DEF Intact
  <2>5. IntactIn(With(With(file, parts), Read(bytes).got))
    BY <2>3, WithIntact DEF Intact
  <2>6. DOMAIN <<>> = {}
    OBVIOUS
  <2>7. \/ parts' = With(parts, Read(bytes).got) /\ file' = file
        \/ file' = With(With(file, parts), Read(bytes).got) /\ parts' = <<>>
    BY <2>2
  <2> QED BY <1>1, <2>4, <2>5, <2>6, <2>7 DEF Intact, IntactIn, WholeAnswers
<1> QED BY <1>3, <1>4

LEMMA IntactAlways == Spec => []Intact
<1>1. Init => Intact
  <2>1. DOMAIN <<>> = {}
    OBVIOUS
  <2> QED BY <2>1 DEF Init, Intact, IntactIn
<1>2. Intact /\ UNCHANGED vars => Intact'
  BY SameNumber DEF Intact, IntactIn, WholeAnswers, vars, netVars
<1>3. Typed /\ Intact /\ [Next]_vars => Intact'
  BY <1>2, StepIntact
<1> QED BY <1>1, <1>3, TypedAlways, PTL DEF Spec

\* Whatever the stream does to the answers, and whichever connections fail, a
\* piece that is not the last of the file is written whole or not at all
\* (GetpiecesMessage.java:45-68), for every length and piece length.
THEOREM InnerPiecesAreIntact == Spec => []InnerPiecesIntact
<1>1. Intact => InnerPiecesIntact
  BY DEF Intact, IntactIn, InnerPiecesIntact, Right
<1> QED BY <1>1, IntactAlways, PTL

\* With answers that come in one read, every piece that is written is the piece
\* of the file, but for a last piece that is full, of which get_piece reads
\* nothing (ManagedFile.java:73-89).
THEOREM PiecesAreIntact == Spec => []PiecesIntact
<1>1. Intact => PiecesIntact
  BY DEF Intact, IntactIn, PiecesIntact, Right, WholeAnswers
<1> QED BY <1>1, IntactAlways, PTL

-----------------------------------------------------------------------------
(* A download nothing fails in: connections, maps, and all the pieces. *)

Quiet == world.faults = {}

\* Each peer is connected once, and found by its id.
Ordered(list) ==
  /\ \A k \in DOMAIN list : list[k].id = k - 1
  /\ \A j, k \in DOMAIN list : list[j].peer = list[k].peer => j = k

Lined == Quiet => Ordered(clients)

LEMMA Reaching ==
  ASSUME Typed, Ordered(clients), NEW p \in Peers
  PROVE  /\ Ordered(Connected(p)) /\ Reachable(p)
         /\ \E k \in DOMAIN Connected(p) : Connected(p)[k].peer = Reached(p)
         /\ Links(p) # {} \/ Len(clients) < world.room => Reached(p) = p
<1>1. /\ clients \in Seq(Client) /\ Len(clients) \in Nat /\ Len(clients) <= world.room
      /\ world.room \in Nat \ {0}
  BY LenProperties DEF Typed, TypeOK, Fixed, Client
<1>2. CASE Links(p) # {}
  <2>1. Connected(p) = clients
    BY <1>2 DEF Connected
  <2> DEFINE k == Min(Links(p))
  <2>2. k \in DOMAIN clients /\ clients[k].peer = p
    <3>1. Links(p) \in SUBSET Nat
      BY <1>1 DEF Links
    <3>2. k \in Links(p)
      BY <1>2, <3>1, MinIs
    <3> QED BY <3>2 DEF Links
  <2>3. IdOf(p) = clients[k].id
    BY <1>2 DEF IdOf
  <2> HIDE DEF k
  <2>4. k \in 1..Len(clients) /\ IdOf(p) + 1 = k
    BY <1>1, <2>2, <2>3 DEF Ordered
  <2>5. Reachable(p) /\ Reached(p) = p
    BY <1>1, <2>1, <2>2, <2>4 DEF Reachable, Reached
  <2> QED BY <2>1, <2>2, <2>5
<1>3. CASE Links(p) = {} /\ Len(clients) < world.room
  <2> DEFINE c == [peer |-> p, id |-> Len(clients)]
             new == Append(clients, c)
  <2>1. Connected(p) = new
    BY <1>1, <1>3 DEF Connected
  <2>2. c.peer = p /\ c.id = Len(clients) /\ c \in Client
    BY <1>1, <1>3 DEF Client
  <2> HIDE DEF c
  <2>3. /\ new \in Seq(Client) /\ Len(new) = Len(clients) + 1
        /\ \A j \in 1..Len(clients) : new[j] = clients[j]
        /\ new[Len(clients) + 1] = c
    BY <1>1, <2>2, AppendProperties
  <2> HIDE DEF new
  <2>4. DOMAIN new = 1..(Len(clients) + 1) /\ DOMAIN clients = 1..Len(clients)
    BY <1>1, <2>3
  <2>5. \A k \in 1..Len(clients) : clients[k].peer # p
    BY <1>3, <2>4 DEF Links
  <2>6. \A k \in DOMAIN new : \/ k \in 1..Len(clients) /\ new[k] = clients[k]
                              \/ k = Len(clients) + 1 /\ new[k] = c
    BY <1>1, <2>3, <2>4
  <2>7. \A k \in DOMAIN new : new[k].id = k - 1
    BY <1>1, <2>2, <2>4, <2>6 DEF Ordered
  <2>8. \A j, k \in DOMAIN new : new[j].peer = new[k].peer => j = k
    BY <2>2, <2>4, <2>5, <2>6 DEF Ordered
  <2>9. IdOf(p) + 1 = Len(clients) + 1
    BY <1>1, <1>3, <2>1, <2>3 DEF IdOf
  <2>10. Len(clients) + 1 \in DOMAIN new
    BY <1>1, <2>4
  <2>11. Reachable(p) /\ Reached(p) = p
    BY <1>1, <2>1, <2>2, <2>3, <2>9 DEF Reachable, Reached
  <2> QED BY <2>1, <2>2, <2>3, <2>7, <2>8, <2>10, <2>11 DEF Ordered
<1>4. CASE Links(p) = {} /\ Len(clients) >= world.room
  <2>1. Connected(p) = clients
    BY <1>4 DEF Connected
  <2>2. IdOf(p) + 1 = Len(clients) /\ Len(clients) \in DOMAIN clients
    BY <1>1, <1>4, <2>1 DEF IdOf
  <2>3. Reachable(p) /\ Reached(p) = clients[Len(clients)].peer
    BY <1>1, <2>1, <2>2 DEF Reachable, Reached
  <2>4. ~(Len(clients) < world.room)
    BY <1>1, <1>4
  <2> QED BY <1>4, <2>1, <2>2, <2>3, <2>4
<1> QED BY <1>1, <1>2, <1>3, <1>4

\* With room for every peer, the one that is asked is the one that is reached.
LEMMA RoomForAll ==
  ASSUME Typed, Ordered(clients), NEW p \in Peers, world.room >= Cardinality(Peers)
  PROVE  Reached(p) = p
<1>1. /\ clients \in Seq(Client) /\ Len(clients) \in Nat /\ Len(clients) <= world.room
      /\ world.room \in Nat \ {0} /\ DOMAIN clients = 1..Len(clients)
  BY LenProperties DEF Typed, TypeOK, Fixed, Client
<1>2. CASE Links(p) # {}
  BY <1>2, Reaching
<1>3. CASE Links(p) = {}
  <2> DEFINE f == [k \in 1..Len(clients) |-> clients[k].peer]
  <2>1. \A k \in 1..Len(clients) : clients[k].peer \in Peers \ {p}
    <3>1. ASSUME NEW k \in 1..Len(clients) PROVE clients[k].peer \in Peers
      <4>1. clients[k] \in Client
        BY <1>1
      <4> QED BY <4>1 DEF Client
    <3>2. \A k \in 1..Len(clients) : clients[k].peer # p
      BY <1>1, <1>3 DEF Links
    <3> QED BY <3>1, <3>2
  <2>2. f \in Injection(1..Len(clients), Peers \ {p})
    BY <1>1, <2>1 DEF Ordered, Injection, IsInjective
  <2>3. IsFiniteSet(Peers \ {p}) /\ Cardinality(Peers \ {p}) = Cardinality(Peers) - 1
        /\ Cardinality(Peers) \in Nat
    <3>1. IsFiniteSet(Peers)
      BY PeersAssumption
    <3> QED BY <3>1, FS_RemoveElement, FS_CardinalityType
  <2>4. IsFiniteSet(1..Len(clients)) /\ Cardinality(1..Len(clients)) = Len(clients)
    <3> DEFINE c == Len(clients)
    <3>1. c \in Nat
      BY <1>1
    <3> HIDE DEF c
    <3>2. IsFiniteSet(1..c) /\ Cardinality(1..c) = c
      BY <3>1, FS_Interval
    <3> QED BY <3>2 DEF c
  <2> HIDE DEF f
  <2>5. Cardinality(1..Len(clients)) <= Cardinality(Peers \ {p})
    BY <2>2, <2>3, FS_Injection
  <2>6. Len(clients) < world.room
    BY <1>1, <2>3, <2>4, <2>5
  <2> QED BY <2>6, Reaching
<1> QED BY <1>2, <1>3

LEMMA StepLined ==
  ASSUME Typed, Lined, Next
  PROVE  Lined'
<1>1. world' = world
  BY DEF Next, Step, AskFails, AskLost, Ask, MakePlan, Finish, FetchFails, Fetch, SliceLost,
         SliceFails, SliceUnreadable, SliceRead, GiveUp, Reset, netVars
<1> SUFFICES ASSUME Quiet PROVE Ordered(clients')
  BY <1>1 DEF Lined, Quiet, Ordered
<1>2. Ordered(clients)
  BY DEF Lined
<1>3. clients' = clients \/ (at <= Len(useful) /\ clients' = Connected(Here))
  BY DEF Next, Step, AskFails, AskLost, Ask, MakePlan, Finish, FetchFails, Fetch, SliceLost,
         SliceFails, SliceUnreadable, SliceRead, GiveUp, Reset, Quiet, Asking, Fetching
<1> QED BY <1>2, <1>3, HereIs, Reaching

LEMMA LinedAlways == Spec => []Lined
<1>1. Init => Lined
  BY DEF Init, Lined, Ordered
<1>2. Lined /\ UNCHANGED vars => Lined'
  BY DEF Lined, Ordered, Quiet, vars, netVars
<1>3. Typed /\ Lined /\ [Next]_vars => Lined'
  BY <1>2, StepLined
<1> QED BY <1>1, <1>3, TypedAlways, PTL DEF Spec

\* A buffer map that is not a whole number of bytes is read as it was sent.
LEMMA MapSurvives ==
  ASSUME NEW m \in Nat, NEW w \in Nat \ {0}, m % w # 0, NEW have \in SUBSET Numbers(m)
  PROVE  ReadMap(ToBytes(have, m, w), m, w) = have
<1> DEFINE a == m + w - 1
           q == m \div w
           r == m % w
           l == a \div w
           bytes == ToBytes(have, m, w)
           Bits(b) == {j \in 0..(w - 1) : (b - 1) * w + j \in have}
<1>1. q \in Nat /\ r \in 0..(w - 1) /\ m = w * q + r /\ r # 0
  BY DivIs
<1>2. a \in Nat
  OBVIOUS
<1>3. l \in Nat /\ a % w \in 0..(w - 1) /\ a = w * l + (a % w)
  BY <1>2, DivIs
<1>4. bytes = [b \in 1..l |-> Bits(b)]
  BY DEF ToBytes
<1> HIDE DEF q, r, l, bytes
<1>5. l = q + 1
  <2> DEFINE u == q + 1
             t == r - 1
             s == a % w
  <2>1. (q + 1) * w = w * q + w /\ l * w = w * l
    BY <1>1, <1>3
  <2>2. a = w * q + w + (r - 1)
    BY <1>1
  <2>3. /\ u \in Int /\ l \in Int /\ t \in 0..(w - 1) /\ s \in 0..(w - 1)
        /\ u * w + t = l * w + s
    BY <1>1, <1>3, <2>1, <2>2
  <2> HIDE DEF u, t, s
  <2>4. u = l
    BY <2>3, Unique
  <2> QED BY <2>4 DEF u
<1>6. Len(bytes) = q + 1
  BY <1>1, <1>4, <1>5
<1>7. ReadMap(bytes, m, w) = {i \in Numbers(m) : i % w \in bytes[i \div w + 1]}
  BY <1>1, <1>6 DEF ReadMap, q
<1>8. ASSUME NEW i \in Numbers(m) PROVE i % w \in bytes[i \div w + 1] <=> i \in have
  <2>1. i \in Nat /\ i < m
    BY DEF Numbers
  <2> DEFINE c == i \div w
             o == i % w
  <2>2. c \in Nat /\ o \in 0..(w - 1) /\ i = w * c + o
    BY <2>1, DivIs
  <2> HIDE DEF c, o
  <2>3. c <= q
    <3> SUFFICES ASSUME q + 1 <= c PROVE FALSE
      BY <1>1, <2>2
    <3>1. (q + 1) * w <= c * w
      BY <1>1, <2>2, Mono
    <3>2. (q + 1) * w = w * q + w /\ c * w = w * c /\ w * q \in Nat /\ w * c \in Nat
      BY <1>1, <2>2
    <3> QED BY <1>1, <2>1, <2>2, <3>1, <3>2
  <2>4. c + 1 \in 1..l /\ c + 1 - 1 = c
    BY <1>1, <1>5, <2>2, <2>3
  <2>5. bytes[c + 1] = Bits(c + 1)
    <3> HIDE DEF Bits
    <3> QED BY <1>4, <2>4
  <2>6. (c + 1 - 1) * w + o = i
    BY <2>2, <2>4
  <2>7. o \in bytes[c + 1] <=> (c + 1 - 1) * w + o \in have
    BY <2>2, <2>5
  <2>8. o \in bytes[c + 1] <=> i \in have
    BY <2>6, <2>7
  <2> QED BY <2>8 DEF c, o
<1>9. ReadMap(bytes, m, w) = have
  BY <1>7, <1>8
<1> QED BY <1>9 DEF bytes

\* One that is a whole number of bytes is read as empty.
LEMMA MapIsLost ==
  ASSUME NEW m \in Nat, NEW w \in Nat \ {0}, m % w = 0, NEW have
  PROVE  ReadMap(ToBytes(have, m, w), m, w) = {}
<1> DEFINE a == m + w - 1
           q == m \div w
           l == a \div w
<1>1. q \in Nat /\ m = w * q
  BY DivIs
<1>2. a \in Nat
  OBVIOUS
<1>3. l \in Nat /\ a % w \in 0..(w - 1) /\ a = w * l + (a % w)
  BY <1>2, DivIs
<1>4. Len(ToBytes(have, m, w)) = l
  BY <1>3 DEF ToBytes
<1> HIDE DEF q, l
<1>5. l = q
  <2> DEFINE t == w - 1
             s == a % w
  <2>1. q * w = w * q /\ l * w = w * l
    BY <1>1, <1>3
  <2>2. a = w * q + (w - 1)
    BY <1>1
  <2>3. /\ q \in Int /\ l \in Int /\ t \in 0..(w - 1) /\ s \in 0..(w - 1)
        /\ q * w + t = l * w + s
    BY <1>1, <1>3, <2>1, <2>2
  <2> HIDE DEF t, s
  <2> QED BY <2>3, Unique
<1>6. Len(ToBytes(have, m, w)) < q + 1
  BY <1>1, <1>4, <1>5
<1> QED BY <1>6 DEF ReadMap, q

\* What is read of a map.
Received(have) == IF n % Width = 0 THEN {} ELSE have

LEMMA StepMaps ==
  ASSUME Typed, Lined, MapsTrue, Next
  PROVE  MapsTrue'
<1>0. world' = world /\ holds' = holds
  BY DEF Next, Step, AskFails, AskLost, Ask, MakePlan, Finish, FetchFails, Fetch, SliceLost,
         SliceFails, SliceUnreadable, SliceRead, GiveUp, Reset, netVars
<1>1. world' = world /\ holds' = holds /\ n' = n
  BY <1>0, SameNumber
<1> SUFFICES ASSUME Quiet, world.room >= Cardinality(Peers), NEW p \in DOMAIN maps'
             PROVE  maps'[p] = Received(holds[p])
  BY <1>1 DEF MapsTrue, Quiet, Received
<1>2. \A q \in DOMAIN maps : maps[q] = Received(holds[q])
  BY DEF MapsTrue, Quiet, Received
<1>3. CASE Ask
  <2>1. Here \in Peers /\ Ordered(clients)
    BY <1>3, HereIs DEF Ask, Asking, Lined
  <2>2. Reached(Here) = Here
    BY <2>1, RoomForAll
  <2> DEFINE answer == ToBytes(holds[Here], n, Width)
  <2>3. maps' = With(maps, [q \in {Here} |-> ReadMap(answer, n, Width)])
    BY <1>3, <2>2 DEF Ask, Heard, Quiet
  <2>4. holds[Here] \in SUBSET Numbers(n)
    BY <2>1 DEF Typed, Fixed
  <2>5. ReadMap(answer, n, Width) = Received(holds[Here])
    BY <2>4, NumberIs, MapSurvives, MapIsLost DEF Received, Typed, Fixed
  <2> HIDE DEF answer
  <2>6. DOMAIN maps \subseteq Peers /\ \A q \in DOMAIN maps : maps[q] \subseteq Numbers(n)
    BY DEF Typed, TypeOK
  <2>7. Hears(maps', maps, Here, answer)
    BY <2>1, <2>3, <2>6, MapsIs
  <2> QED BY <1>2, <2>5, <2>7 DEF Hears
<1>4. CASE ~Ask
  <2>1. maps' = maps
    BY <1>4 DEF Next, Step, AskFails, AskLost, MakePlan, Finish, FetchFails, Fetch, SliceLost,
       SliceFails, SliceUnreadable, SliceRead, GiveUp, Reset
  <2> QED BY <1>2, <2>1
<1> QED BY <1>3, <1>4

\* The map that is planned with is the one the peer sent, and the peer it is
\* planned for (Peer.java:154-175, InterestedMessage.java:14-36), but if the number
\* of pieces is a multiple of the bits of a byte nothing is read of it:
\* interestedResponse wants one byte more than such a map has.
THEOREM MapsAreTrue == Spec => []MapsTrue
<1>1. Init => MapsTrue
  BY DEF Init, MapsTrue
<1>2. MapsTrue /\ UNCHANGED vars => MapsTrue'
  BY SameNumber DEF MapsTrue, vars, netVars
<1>3. Typed /\ Lined /\ MapsTrue /\ [Next]_vars => MapsTrue'
  BY <1>2, StepMaps
<1> QED BY <1>1, <1>3, TypedAlways, LinedAlways, PTL DEF Spec

\* Each piece of a share is still to be asked for, or has come.
Owed == \A i \in plan[Here] :
          i \in DOMAIN parts \cup DOMAIN file \/ \E j \in 1..Len(todo) : i \in todo[j]

Collected ==
  Quiet =>
    /\ pc \in {"fetch", "slice", "done"} =>
         \A j \in 1..(at - 1) :
           useful[j] \in DOMAIN plan => plan[useful[j]] \subseteq DOMAIN file
    /\ pc = "slice" => Owed
    /\ pc = "done" => at > Len(useful) \/ Full

\* The next peer is at hand once the share of this one is written.
LEMMA NextPeer ==
  ASSUME Typed, pc \in {"fetch", "slice", "done"}, Quiet, Collected, plan' = plan,
         useful' = useful, at <= Len(useful), at' = at + 1, DOMAIN file \subseteq DOMAIN file',
         Here \in DOMAIN plan => plan[Here] \subseteq DOMAIN file'
  PROVE  \A j \in 1..(at' - 1) :
           useful'[j] \in DOMAIN plan' => plan'[useful'[j]] \subseteq DOMAIN file'
<1>1. at \in Nat \ {0}
  <2>1. Len(useful) \in Nat
    BY UsefulIs DEF Typed, Fixed
  <2> QED BY <2>1 DEF Typed, TypeOK
<1>2. \A j \in 1..(at' - 1) : j = at \/ j \in 1..(at - 1)
  BY <1>1
<1> QED BY <1>2 DEF Collected, Here

\* No answer is without its piece: what the answers bring is what is asked.
LEMMA WholeIsRead ==
  ASSUME Quiet, world \in Worlds, todo[1] \in SUBSET Numbers(n),
         NEW bytes \in Heard(DataOf(todo[1], Length, PieceLength))
  PROVE  Read(bytes).ok /\ DOMAIN Read(bytes).got = todo[1]
<1>1. bytes = DataOf(todo[1], Length, PieceLength)
  BY DEF Heard, Quiet
<1> QED BY <1>1, ReadIt DEF Answered

LEMMA FirstMessage ==
  ASSUME Typed, pc = "slice"
  PROVE  /\ todo # <<>> /\ todo \in Seq(SUBSET Numbers(n)) /\ Len(todo) \in Nat \ {0}
         /\ todo[1] \in SUBSET Numbers(n) /\ at <= Len(useful)
<1>1. todo # <<>> /\ todo \in Seq(SUBSET Numbers(n)) /\ at <= Len(useful)
  BY DEF Typed, Sending, TypeOK
<1>2. Len(todo) \in Nat /\ Len(todo) # 0
  BY <1>1, EmptySeq, LenProperties
<1> QED BY <1>1, <1>2

LEMMA StepCollected ==
  ASSUME Typed, Lined, Collected, Next
  PROVE  Collected'
<1>0. world' = world /\ useful' = useful
  BY DEF Next, Step, AskFails, AskLost, Ask, MakePlan, Finish, FetchFails, Fetch, SliceLost,
         SliceFails, SliceUnreadable, SliceRead, GiveUp, Reset, netVars
<1>1. world' = world /\ useful' = useful /\ n' = n /\ world \in Worlds
  BY <1>0, SameNumber DEF Typed, Fixed
<1> SUFFICES ASSUME Quiet PROVE Collected'
  BY <1>1 DEF Collected, Quiet
<1>2. Ordered(clients)
  BY DEF Lined
<1>3. CASE AskFails \/ AskLost \/ Ask
  <2>1. pc' \in {"ask", "stuck"}
    BY <1>3 DEF AskFails, AskLost, Ask, Asking
  <2> QED BY <2>1 DEF Collected
<1>4. CASE MakePlan
  <2>1. pc' = "fetch" /\ at' = 1
    BY <1>4 DEF MakePlan
  <2>2. \A j \in 1..(at' - 1) : FALSE
    BY <2>1
  <2> QED BY <2>1, <2>2 DEF Collected
<1>5. CASE Finish
  <2>1. /\ pc = "fetch" /\ pc' = "done"
        /\ at > Len(useful) \/ Full
        /\ UNCHANGED <<at, plan, file, useful>>
    BY <1>5 DEF Finish, netVars
  <2>2. at' > Len(useful') \/ Full'
    BY <1>1, <2>1 DEF Full
  <2> QED BY <2>1, <2>2 DEF Collected
<1>6. CASE FetchFails
  <2>1. /\ pc = "fetch" /\ pc' = "fetch" /\ at <= Len(useful) /\ at' = at + 1
        /\ UNCHANGED <<plan, file>>
    BY <1>6 DEF FetchFails, Fetching
  <2>2. Here \notin DOMAIN plan
    <3>1. Reachable(Here)
      BY <1>2, <2>1, HereIs, Reaching
    <3> QED BY <1>6, <3>1 DEF FetchFails, Quiet, Refused
  <2>3. \A j \in 1..(at' - 1) :
          useful'[j] \in DOMAIN plan' => plan'[useful'[j]] \subseteq DOMAIN file'
    BY <1>1, <2>1, <2>2, NextPeer
  <2> QED BY <2>1, <2>3 DEF Collected
<1>7. CASE Fetch
  <2>1. /\ pc = "fetch" /\ at <= Len(useful) /\ Here \in DOMAIN plan
        /\ clients' = Connected(Here) /\ link' = Reached(Here)
        /\ todo' = Requests(plan[Here], world.most, n) /\ parts' = <<>>
        /\ UNCHANGED <<plan, file, useful>>
        /\ \/ todo' = <<>> /\ pc' = pc /\ at' = at + 1
           \/ todo' # <<>> /\ pc' = "slice" /\ at' = at
    BY <1>7 DEF Fetch, Fetching, netVars
  <2>2. \A i \in plan[Here] : \E j \in 1..Len(todo') : i \in todo'[j]
    <3>1. plan[Here] \in SUBSET (0..(n - 1))
      BY <2>1 DEF Typed, TypeOK, Numbers
    <3> QED BY <1>1, <2>1, <3>1, NumberIs, RequestsCover
  <2>3. CASE todo' = <<>> /\ pc' = pc /\ at' = at + 1
    <3>1. plan[Here] = {}
      <4>1. \A j \in 1..Len(todo') : FALSE
        BY <2>3
      <4> QED BY <2>2, <4>1
    <3>2. \A j \in 1..(at' - 1) :
            useful'[j] \in DOMAIN plan' => plan'[useful'[j]] \subseteq DOMAIN file'
      BY <1>1, <2>1, <2>3, <3>1, NextPeer
    <3> QED BY <2>1, <2>3, <3>2 DEF Collected
  <2>4. CASE pc' = "slice" /\ at' = at
    <3>2. Here' = Here /\ plan' = plan
      BY <1>1, <2>1, <2>4 DEF Here
    <3>3. Owed'
      BY <2>2, <3>2 DEF Owed
    <3>4. \A j \in 1..(at' - 1) :
            useful'[j] \in DOMAIN plan' => plan'[useful'[j]] \subseteq DOMAIN file'
      BY <2>1, <2>4 DEF Collected
    <3> QED BY <2>4, <3>3, <3>4 DEF Collected
  <2> QED BY <2>1, <2>3, <2>4
<1>8. CASE SliceLost
  BY <1>8 DEF SliceLost, Collected
<1>9. CASE SliceFails
  BY <1>9 DEF SliceFails, Quiet
<1>10. CASE SliceUnreadable
  <2>1. PICK bytes \in Heard(DataOf(todo[1], Length, PieceLength)) : ~Read(bytes).ok
    BY <1>10 DEF SliceUnreadable
  <2>2. todo[1] \in SUBSET Numbers(n)
    BY <1>10, FirstMessage DEF SliceUnreadable
  <2> QED BY <1>1, <2>1, <2>2, WholeIsRead
<1>11. CASE SliceRead
  <2>1. pc = "slice"
    BY <1>11 DEF SliceRead
  <2>2. /\ todo \in Seq(SUBSET Numbers(n)) /\ Len(todo) \in Nat \ {0} /\ todo # <<>>
        /\ todo[1] \in SUBSET Numbers(n) /\ at <= Len(useful)
    BY <2>1, FirstMessage
  <2>3. PICK bytes \in Heard(DataOf(todo[1], Length, PieceLength)) :
          /\ todo' = Tail(todo)
          /\ IF Len(todo) > 1
             THEN parts' = With(parts, Read(bytes).got) /\ UNCHANGED <<file, at, pc>>
             ELSE /\ file' = With(With(file, parts), Read(bytes).got)
                  /\ parts' = <<>>
                  /\ at' = at + 1
                  /\ pc' = "fetch"
    BY <1>11 DEF SliceRead
  <2>4. DOMAIN Read(bytes).got = todo[1]
    BY <1>1, <2>2, WholeIsRead
  <2>5. UNCHANGED <<clients, link, plan, useful>>
    BY <1>11 DEF SliceRead, netVars
  <2>6. Owed
    BY <2>1 DEF Collected
  <2>7. CASE Len(todo) > 1
    <3>1. /\ DOMAIN parts' = DOMAIN parts \cup todo[1] /\ pc' = "slice" /\ at' = at
          /\ file' = file
      BY <2>1, <2>3, <2>4, <2>7 DEF With
    <3>2. \A j \in 1..Len(todo) : j = 1 \/ (j - 1 \in 1..Len(todo') /\ todo'[j - 1] = todo[j])
      <4>1. /\ Len(todo') = Len(todo) - 1 /\ Len(todo) \in Nat
            /\ \A j \in 1..Len(todo') : todo'[j] = todo[j + 1]
        BY <2>2, <2>3, HeadTailProperties
      <4>2. \A j \in 1..Len(todo) : j = 1 \/ (j - 1 \in 1..Len(todo') /\ j - 1 + 1 = j)
        BY <4>1
      <4> QED BY <4>1, <4>2
    <3>3. Here' = Here
      BY <2>5, <3>1 DEF Here
    <3>4. Owed'
      <4>1. ASSUME NEW i \in plan[Here]
            PROVE  \/ i \in DOMAIN parts' \cup DOMAIN file'
                   \/ \E j \in 1..Len(todo') : i \in todo'[j]
        BY <2>6, <3>1, <3>2 DEF Owed
      <4> QED BY <2>5, <3>3, <4>1 DEF Owed
    <3> QED BY <2>1, <2>5, <3>1, <3>4 DEF Collected
  <2>8. CASE ~(Len(todo) > 1)
    <3>1. /\ DOMAIN file' = DOMAIN file \cup DOMAIN parts \cup todo[1]
          /\ pc' = "fetch" /\ at' = at + 1
      BY <2>3, <2>4, <2>8 DEF With
    <3>2. \A j \in 1..Len(todo) : j = 1
      BY <2>2, <2>8
    <3>3. plan[Here] \subseteq DOMAIN file'
      BY <2>6, <3>1, <3>2 DEF Owed
    <3>4. \A j \in 1..(at' - 1) :
            useful'[j] \in DOMAIN plan' => plan'[useful'[j]] \subseteq DOMAIN file'
      BY <2>1, <2>2, <2>5, <3>1, <3>3, NextPeer
    <3> QED BY <3>1, <3>4 DEF Collected
  <2> QED BY <2>7, <2>8
<1>12. ASSUME NEW k \in DOMAIN clients, Reset(k) PROVE Collected'
  BY <1>12 DEF Reset, Quiet
<1> QED BY <1>3, <1>4, <1>5, <1>6, <1>7, <1>8, <1>9, <1>10, <1>11, <1>12 DEF Next, Step

\* A download that comes to its end has written every piece it was offered, if no
\* connection failed: no share, no message and no answer is forgotten, whatever
\* the sizes, the maps and the room (Download.java:52-78, PeerClient.java:81-109).
THEOREM NothingIsForgotten == Spec => []NothingForgotten
<1>1. Init => Collected
  BY DEF Init, Collected
<1>2. Collected /\ UNCHANGED vars => Collected'
  BY SameNumber DEF Collected, Owed, Quiet, Full, Here, vars, netVars
<1>3. Typed /\ Lined /\ Collected /\ [Next]_vars => Collected'
  BY <1>2, StepCollected
<1>4. Typed /\ Planned /\ Collected => NothingForgotten
  <2> SUFFICES ASSUME Typed, Planned, Collected, Quiet, pc = "done", NEW i \in Known
               PROVE  i \in DOMAIN file
    BY DEF NothingForgotten, Quiet
  <2>1. PICK p \in DOMAIN maps : i \in maps[p]
    BY DEF Known
  <2>2. DOMAIN maps \subseteq Peers /\ i \in Numbers(n)
    BY <2>1 DEF Typed, TypeOK
  <2>3. PICK q \in DOMAIN plan : q \in Peers /\ i \in plan[q]
    BY <2>1, <2>2 DEF Planned, Shared, Numbers
  <2>4. CASE Full
    BY <2>2, <2>4 DEF Full
  <2>5. CASE at > Len(useful)
    <3>1. /\ Len(useful) \in Nat /\ at \in 1..(Len(useful) + 1)
          /\ useful \in [1..Len(useful) -> Peers] /\ Range(useful) = Peers
      BY UsefulIs DEF Typed, Fixed, TypeOK
    <3>2. PICK j \in 1..Len(useful) : useful[j] = q
      BY <2>3, <3>1 DEF Range
    <3>3. j \in 1..(at - 1)
      BY <2>5, <3>1
    <3> QED BY <2>3, <3>2, <3>3 DEF Collected
  <2> QED BY <2>4, <2>5 DEF Collected
<1> QED BY <1>1, <1>3, <1>4, TypedAlways, LinedAlways, PlannedAlways, PTL DEF Spec
=============================================================================
