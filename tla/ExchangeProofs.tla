---------------------------- MODULE ExchangeProofs ----------------------------
(***************************************************************************)
(* Theorems about Exchange, for any calls and kinds: a call that waited    *)
(* alone among its kind gets the answer to it or none, and no answer is    *)
(* given twice.                                                            *)
(*                                                                         *)
(* Neither is inductive.  That nothing stale is left when a call is made   *)
(* alone follows from a count: of no kind are more answers owed than calls *)
(* wait.                                                                   *)
(***************************************************************************)
EXTENDS Exchange, Integers, FiniteSets, FiniteSetTheorems, TLAPS

Counted ==
  /\ IsFiniteSet(made)
  /\ \A k \in Kinds : Cardinality(OwedOf(k)) <= Cardinality(WaitingOf(k))

\* Only calls that were made get something, and that is no longer owed.
Settled == \A c \in Calls : got[c] \in Calls => c \in made /\ got[c] \in made \ owed

\* A call that waits alone is owed nobody else's answer.
Alone ==
  \A k \in Kinds : \A c \in WaitingOf(k) \ mixed :
    WaitingOf(k) = {c} /\ OwedOf(k) \subseteq {c}

IInv == TypeOK /\ Counted /\ Settled /\ Alone /\ OwnAnswer /\ GivenOnce

-----------------------------------------------------------------------------
\* Of the calls made finitely many wait and finitely many are owed an answer.
LEMMA Finite ==
  ASSUME TypeOK, IsFiniteSet(made), NEW k
  PROVE  /\ IsFiniteSet(WaitingOf(k)) /\ IsFiniteSet(OwedOf(k))
         /\ Cardinality(WaitingOf(k)) \in Nat /\ Cardinality(OwedOf(k)) \in Nat
<1>1. WaitingOf(k) \subseteq made /\ OwedOf(k) \subseteq made
  BY DEF TypeOK, WaitingOf, Waiting, OwedOf
<1> QED BY <1>1, FS_Subset, FS_CardinalityType

\* A subset of what is owed is no larger.
LEMMA Fewer ==
  ASSUME NEW S, NEW R \in SUBSET S, IsFiniteSet(S)
  PROVE  IsFiniteSet(R) /\ Cardinality(R) <= Cardinality(S)
         /\ Cardinality(R) \in Nat /\ Cardinality(S) \in Nat
BY FS_Subset, FS_CardinalityType

LEMMA InitIInv ==
  ASSUME NoneIsNoCall, Init
  PROVE  IInv
<1>1. TypeOK
  BY DEF Init, TypeOK
<1>2. Counted
  <2>1. \A k : WaitingOf(k) = {} /\ OwedOf(k) = {}
    BY DEF Init, WaitingOf, Waiting, OwedOf
  <2> QED BY <2>1, FS_EmptySet DEF Init, Counted
<1>3. Settled /\ Alone /\ OwnAnswer /\ GivenOnce
  BY DEF NoneIsNoCall, Init, Settled, Alone, Waiting, WaitingOf, OwnAnswer, GivenOnce
<1> QED BY <1>1, <1>2, <1>3 DEF IInv

-----------------------------------------------------------------------------
\* A call is made: what waited of its kind is mixed, and if nothing did,
\* nothing of its kind is owed.
LEMMA MakeKeeps ==
  ASSUME IInv, NEW c \in Calls, NEW k \in Kinds, Make(c, k)
  PROVE  IInv'
<1> USE DEF IInv
<1>1. TypeOK'
  BY DEF TypeOK, Make, WaitingOf, Waiting
<1>2. got[c] = None /\ c \notin owed /\ c \notin Waiting /\ c \notin mixed
  BY DEF TypeOK, Make, Settled, Waiting
<1>3. Waiting' = Waiting \cup {c}
  BY <1>2 DEF TypeOK, Make, Waiting
<1>4. \A j : WaitingOf(j)' = IF j = k THEN WaitingOf(j) \cup {c} ELSE WaitingOf(j)
  BY <1>2, <1>3 DEF TypeOK, Make, Waiting, WaitingOf
<1>5. \A j : OwedOf(j)' \subseteq IF j = k THEN OwedOf(j) \cup {c} ELSE OwedOf(j)
  BY <1>2 DEF TypeOK, Make, OwedOf
<1>6. Counted'
  <2>1. IsFiniteSet(made')
    BY FS_AddElement DEF Counted, Make
  <2>2. SUFFICES ASSUME NEW j \in Kinds
                 PROVE  Cardinality(OwedOf(j)') <= Cardinality(WaitingOf(j)')
    BY <2>1 DEF Counted
  <2>3. /\ IsFiniteSet(WaitingOf(j)) /\ IsFiniteSet(OwedOf(j))
        /\ Cardinality(WaitingOf(j)) \in Nat /\ Cardinality(OwedOf(j)) \in Nat
    BY Finite DEF Counted
  <2>4. CASE j # k
    <3>1. WaitingOf(j)' = WaitingOf(j) /\ OwedOf(j)' \in SUBSET OwedOf(j)
      BY <1>4, <1>5, <2>4
    <3>2. Cardinality(OwedOf(j)') <= Cardinality(OwedOf(j)) /\ Cardinality(OwedOf(j)') \in Nat
      BY <3>1, <2>3, Fewer
    <3> QED BY <3>1, <3>2, <2>3 DEF Counted
  <2>5. CASE j = k
    <3>1. OwedOf(j)' \in SUBSET (OwedOf(j) \cup {c})
      BY <1>5, <2>5
    <3>2. c \notin OwedOf(j) /\ c \notin WaitingOf(j)
      BY <1>2 DEF OwedOf, WaitingOf
    <3>3. /\ IsFiniteSet(OwedOf(j) \cup {c})
          /\ Cardinality(OwedOf(j) \cup {c}) = Cardinality(OwedOf(j)) + 1
          /\ Cardinality(WaitingOf(j) \cup {c}) = Cardinality(WaitingOf(j)) + 1
      BY <2>3, <3>2, FS_AddElement
    <3>4. /\ Cardinality(OwedOf(j)') <= Cardinality(OwedOf(j) \cup {c})
          /\ Cardinality(OwedOf(j)') \in Nat
      BY <3>1, <3>3, Fewer
    <3>5. Cardinality(WaitingOf(j)') = Cardinality(WaitingOf(j)) + 1
      BY <1>4, <2>5, <3>3
    <3> QED BY <2>3, <3>3, <3>4, <3>5 DEF Counted
  <2> QED BY <2>4, <2>5
<1>7. Settled'
  BY <1>2 DEF TypeOK, Settled, Make
<1>8. Alone'
  <2> SUFFICES ASSUME NEW j \in Kinds, NEW d \in WaitingOf(j)', d \notin mixed'
               PROVE  WaitingOf(j)' = {d} /\ OwedOf(j)' \subseteq {d}
    BY DEF Alone
  <2>1. CASE j = k
    <3>1. WaitingOf(k) = {} /\ d = c
      BY <1>4, <2>1 DEF Make
    <3>2. Cardinality(OwedOf(k)) = 0 /\ IsFiniteSet(OwedOf(k))
      <4>1. Cardinality(OwedOf(k)) <= 0
        BY <3>1, FS_EmptySet DEF Counted
      <4> QED BY <4>1, Finite DEF Counted
    <3>3. OwedOf(k) = {}
      BY <3>2, FS_EmptySet
    <3> QED BY <1>4, <1>5, <2>1, <3>1, <3>3
  <2>2. CASE j # k
    <3>1. d \in WaitingOf(j) \ mixed
      BY <1>4, <2>2 DEF Make
    <3> QED BY <1>4, <1>5, <2>2, <3>1 DEF Alone
  <2> QED BY <2>1, <2>2
<1>9. OwnAnswer'
  BY <1>2 DEF TypeOK, OwnAnswer, Make
<1>10. GivenOnce'
  BY DEF GivenOnce, Make
<1> QED BY <1>1, <1>6, <1>7, <1>8, <1>9, <1>10

-----------------------------------------------------------------------------
\* Nothing is given, some of what is owed is lost.
LEMMA LoseKeeps ==
  ASSUME IInv, Lose
  PROVE  IInv'
<1> USE DEF IInv
<1>1. TypeOK'
  BY DEF TypeOK, Lose
<1>2. /\ Waiting' = Waiting
      /\ \A j : WaitingOf(j)' = WaitingOf(j) /\ OwedOf(j)' \in SUBSET OwedOf(j)
  BY DEF Lose, Waiting, WaitingOf, OwedOf
<1>3. Counted'
  <2> SUFFICES ASSUME NEW j \in Kinds
               PROVE  Cardinality(OwedOf(j)') <= Cardinality(WaitingOf(j)')
    BY DEF Counted, Lose
  <2>1. /\ IsFiniteSet(OwedOf(j))
        /\ Cardinality(WaitingOf(j)) \in Nat /\ Cardinality(OwedOf(j)) \in Nat
    BY Finite DEF Counted
  <2>2. Cardinality(OwedOf(j)') <= Cardinality(OwedOf(j)) /\ Cardinality(OwedOf(j)') \in Nat
    BY <1>2, <2>1, Fewer
  <2> QED BY <1>2, <2>1, <2>2 DEF Counted
<1>4. Settled'
  BY DEF Settled, Lose
<1>5. Alone'
  BY <1>2 DEF Alone, Lose
<1>6. OwnAnswer' /\ GivenOnce'
  BY DEF OwnAnswer, GivenOnce, Lose
<1> QED BY <1>1, <1>3, <1>4, <1>5, <1>6

-----------------------------------------------------------------------------
\* An answer is given: one waits less and at least one is owed less; who waits
\* alone is only owed its own.
LEMMA GiveKeeps ==
  ASSUME NoneIsNoCall, IInv, NEW a \in Calls, NEW c \in Calls, Give(a, c)
  PROVE  IInv'
<1> USE DEF IInv
<1> DEFINE k == kind[a]
<1>1. /\ a \in owed /\ a \in made /\ a # None /\ k \in Kinds
      /\ c \in made /\ got[c] = None /\ kind[c] = k
  BY DEF NoneIsNoCall, Give, TypeOK, Waiting, WaitingOf
<1>2. TypeOK'
  BY DEF TypeOK, Give
<1>3. Waiting' = Waiting \ {c}
  BY <1>1 DEF TypeOK, Give, Waiting
<1>4. \A j : WaitingOf(j)' = WaitingOf(j) \ {c}
  BY <1>3 DEF WaitingOf, Give
<1>5. \A j : OwedOf(j)' \in SUBSET (OwedOf(j) \ {a})
  BY DEF OwedOf, Give
<1>6. Counted'
  <2> SUFFICES ASSUME NEW j \in Kinds
               PROVE  Cardinality(OwedOf(j)') <= Cardinality(WaitingOf(j)')
    BY DEF Counted, Give
  <2>1. /\ IsFiniteSet(WaitingOf(j)) /\ IsFiniteSet(OwedOf(j))
        /\ Cardinality(WaitingOf(j)) \in Nat /\ Cardinality(OwedOf(j)) \in Nat
        /\ Cardinality(OwedOf(j)) <= Cardinality(WaitingOf(j))
    BY Finite DEF Counted
  <2>2. /\ IsFiniteSet(OwedOf(j) \ {a})
        /\ Cardinality(OwedOf(j) \ {a}) =
             IF a \in OwedOf(j) THEN Cardinality(OwedOf(j)) - 1 ELSE Cardinality(OwedOf(j))
    BY <2>1, FS_RemoveElement
  <2>3. /\ Cardinality(OwedOf(j)') <= Cardinality(OwedOf(j) \ {a})
        /\ Cardinality(OwedOf(j)') \in Nat
    BY <1>5, <2>2, Fewer
  <2>4. Cardinality(WaitingOf(j) \ {c}) =
          IF c \in WaitingOf(j) THEN Cardinality(WaitingOf(j)) - 1 ELSE Cardinality(WaitingOf(j))
    BY <2>1, FS_RemoveElement
  <2>5. (a \in OwedOf(j)) = (j = k) /\ (c \in WaitingOf(j)) = (j = k)
    BY <1>1 DEF OwedOf, WaitingOf, Waiting
  <2> QED BY <1>4, <2>1, <2>2, <2>3, <2>4, <2>5
<1>7. Settled'
  BY <1>1 DEF TypeOK, Settled, Give
<1>8. Alone'
  <2> SUFFICES ASSUME NEW j \in Kinds, NEW d \in WaitingOf(j)', d \notin mixed'
               PROVE  WaitingOf(j)' = {d} /\ OwedOf(j)' \subseteq {d}
    BY DEF Alone
  <2>1. d \in WaitingOf(j) \ mixed /\ d # c
    BY <1>4 DEF Give
  <2> QED BY <1>4, <1>5, <2>1 DEF Alone
<1>9. OwnAnswer'
  <2>1. c \notin mixed => a = c
    BY <1>1 DEF Alone, Waiting, WaitingOf, OwedOf
  <2> QED BY <1>1, <2>1 DEF TypeOK, OwnAnswer, Give
<1>10. GivenOnce'
  BY <1>1 DEF TypeOK, GivenOnce, Settled, Give
<1> QED BY <1>2, <1>6, <1>7, <1>8, <1>9, <1>10

-----------------------------------------------------------------------------
\* The inductive invariant holds in every state.
THEOREM Invariance ==
  ASSUME NoneIsNoCall
  PROVE  Spec => []IInv
<1>1. IInv /\ [Next]_vars => IInv'
  <2> SUFFICES ASSUME IInv, [Next]_vars PROVE IInv'
    OBVIOUS
  <2>1. CASE \E c \in Calls, k \in Kinds : Make(c, k)
    BY <2>1, MakeKeeps
  <2>2. CASE \E a, c \in Calls : Give(a, c)
    BY <2>2, GiveKeeps
  <2>3. CASE Lose
    BY <2>3, LoseKeeps
  <2>4. CASE UNCHANGED vars
    <3> USE <2>4 DEF vars
    <3>1. TypeOK' /\ Settled' /\ OwnAnswer' /\ GivenOnce'
      BY DEF IInv, TypeOK, Settled, OwnAnswer, GivenOnce
    <3>2. Waiting' = Waiting /\ \A j : WaitingOf(j)' = WaitingOf(j) /\ OwedOf(j)' = OwedOf(j)
      BY DEF Waiting, WaitingOf, OwedOf
    <3>3. Counted'
      BY <3>2 DEF IInv, Counted
    <3>4. Alone'
      BY <3>2 DEF IInv, Alone
    <3> QED BY <3>1, <3>3, <3>4 DEF IInv
  <2> QED BY <2>1, <2>2, <2>3, <2>4 DEF Next
<1>2. Init => IInv
  BY InitIInv
<1> QED BY <1>1, <1>2, PTL DEF Spec

\* A call that never waited together with another of its kind gets its own
\* answer or none (PeerClient.send has no more to tell calls apart by).
THEOREM AloneGetsOwn ==
  ASSUME NoneIsNoCall
  PROVE  Spec => []OwnAnswer
<1>1. IInv => OwnAnswer
  BY DEF IInv
<1> QED BY Invariance, <1>1, PTL

\* No two calls get the same answer.
THEOREM AnswersGivenOnce ==
  ASSUME NoneIsNoCall
  PROVE  Spec => []GivenOnce
<1>1. IInv => GivenOnce
  BY DEF IInv
<1> QED BY Invariance, <1>1, PTL
=============================================================================
