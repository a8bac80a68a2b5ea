---------------------------- MODULE HandlersProofs ----------------------------
(***************************************************************************)
(* Lemmas about the operations of TrackerTables and TrackerHandlers, for   *)
(* every set of hosts, ports, descriptors, keys and messages: what one     *)
(* message or one departure does to the three lists.  TrackerProofs puts   *)
(* them together for the tracker without threads, TrackerServerProofs for  *)
(* the one with them.                                                      *)
(***************************************************************************)
EXTENDS TrackerHandlers, SequenceTheorems, NaturalsInduction, WellFoundedInduction, TLAPS

-----------------------------------------------------------------------------
(* Lookups and deletions in a sequence. *)

\* The position a walk from the head finds is one of the positions sought.
LEMMA FirstIsOne ==
  ASSUME NEW I \in SUBSET Nat, I # {}
  PROVE  First(I) \in I
<1>1. PICK x \in I : \A y \in I : ~(<<y, x>> \in OpToRel(<, Nat))
  BY NatLessThanWellFounded, WFMin
<1>2. \A y \in I : ~(y < x)
  BY <1>1, Zenon DEF OpToRel
<1>3. \A y \in I : x <= y
  BY <1>2
<1> QED
  BY <1>3 DEF First, Min

\* What is left of a sequence when one entry is taken out.
LEMMA RemoveAtIs ==
  ASSUME NEW S, NEW s \in Seq(S), NEW i \in 1..Len(s)
  PROVE  /\ RemoveAt(s, i) \in Seq(S)
         /\ Len(RemoveAt(s, i)) = Len(s) - 1
         /\ \A j \in 1..(Len(s) - 1) :
              RemoveAt(s, i)[j] = IF j < i THEN s[j] ELSE s[j + 1]
<1> DEFINE l == SubSeq(s, 1, i - 1)
           r == SubSeq(s, i + 1, Len(s))
<1>1. \A j \in 1..Len(s) : s[j] \in S
  BY ElementOfSeq
<1>2. /\ l \in Seq(S) /\ Len(l) = i - 1
      /\ \A j \in 1..(i - 1) : l[j] = s[j]
  <2>1. \A j \in 1..(i - 1) : s[j] \in S
    BY <1>1
  <2>2. /\ l \in Seq(S) /\ Len(l) = IF 1 <= i - 1 THEN (i - 1) - 1 + 1 ELSE 0
        /\ \A j \in 1..((i - 1) - 1 + 1) : l[j] = s[1 + j - 1]
    BY <2>1, SubSeqProperties
  <2> QED
    BY <2>2
<1>3. /\ r \in Seq(S) /\ Len(r) = Len(s) - i
      /\ \A j \in 1..(Len(s) - i) : r[j] = s[i + j]
  <2>1. \A j \in (i + 1)..Len(s) : s[j] \in S
    BY <1>1
  <2>2. /\ r \in Seq(S)
        /\ Len(r) = IF i + 1 <= Len(s) THEN Len(s) - (i + 1) + 1 ELSE 0
        /\ \A j \in 1..(Len(s) - (i + 1) + 1) : r[j] = s[(i + 1) + j - 1]
    BY <2>1, SubSeqProperties, LenProperties
  <2> QED
    BY <2>2
<1>4. RemoveAt(s, i) = l \o r
  BY DEF RemoveAt
<1>5. i \in Nat /\ Len(s) \in Nat /\ i <= Len(s) /\ i >= 1
  BY LenProperties
<1> HIDE DEF l, r
<1>6. /\ l \o r \in Seq(S)
      /\ Len(l \o r) = Len(l) + Len(r)
      /\ \A j \in 1..Len(l) + Len(r) : (l \o r)[j] = IF j <= Len(l) THEN l[j] ELSE r[j - Len(l)]
  BY <1>2, <1>3, ConcatProperties
<1>7. ASSUME NEW j \in 1..(Len(s) - 1)
      PROVE  (l \o r)[j] = IF j < i THEN s[j] ELSE s[j + 1]
  <2>1. CASE j < i
    BY <2>1, <1>2, <1>3, <1>5, <1>6
  <2>2. CASE ~(j < i)
    <3>1. (l \o r)[j] = r[j - (i - 1)]
      BY <2>2, <1>2, <1>3, <1>5, <1>6
    <3>2. r[j - (i - 1)] = s[i + (j - (i - 1))]
      BY <2>2, <1>3, <1>5
    <3> QED
      BY <2>2, <3>1, <3>2, <1>5
  <2> QED
    BY <2>1, <2>2
<1> QED
  BY <1>2, <1>3, <1>4, <1>5, <1>6, <1>7

\* Taking the entry of an address out of a list without duplicates.
LEMMA WithoutFirstIs ==
  ASSUME NEW S, NEW s \in Seq(S), Distinct(s), NEW a
  PROVE  /\ WithoutFirst(s, At(s, a)) \in Seq(S)
         /\ Distinct(WithoutFirst(s, At(s, a)))
         /\ Registered(WithoutFirst(s, At(s, a))) = Registered(s) \ {a}
         /\ \A j \in DOMAIN WithoutFirst(s, At(s, a)) :
              \E i \in DOMAIN s : WithoutFirst(s, At(s, a))[j] = s[i]
<1>1. DOMAIN s = 1..Len(s) /\ Len(s) \in Nat
  BY LenProperties
<1>2. CASE At(s, a) = {}
  BY <1>2 DEF WithoutFirst, At, Registered
<1>3. CASE At(s, a) # {}
  <2> DEFINE i == First(At(s, a))
             t == RemoveAt(s, i)
  <2>0. At(s, a) \in SUBSET Nat
    BY <1>1 DEF At
  <2>1. i \in At(s, a)
    BY <2>0, <1>3, FirstIsOne
  <2>2. i \in 1..Len(s) /\ s[i].addr = a
    BY <1>1, <2>1 DEF At
  <2> HIDE DEF i
  <2>3. /\ t \in Seq(S)
        /\ Len(t) = Len(s) - 1
        /\ \A j \in 1..(Len(s) - 1) : t[j] = IF j < i THEN s[j] ELSE s[j + 1]
    BY <2>2, RemoveAtIs
  <2> HIDE DEF t
  <2>4. DOMAIN t = 1..(Len(s) - 1)
    BY <2>3, LenProperties
  <2> DEFINE was(j) == IF j < i THEN j ELSE j + 1
  <2>a. \A j \in DOMAIN t : was(j) \in DOMAIN s /\ was(j) # i /\ t[j] = s[was(j)]
    BY <1>1, <2>2, <2>3, <2>4
  <2>b. \A j, l \in DOMAIN t : was(j) = was(l) => j = l
    BY <1>1, <2>2, <2>4
  <2> HIDE DEF was
  <2>5. Distinct(t)
    BY <2>a, <2>b DEF Distinct
  <2>6. Registered(t) = Registered(s) \ {a}
    <3>1. \A j \in DOMAIN t : t[j].addr \in Registered(s) \ {a}
      BY <1>1, <2>2, <2>a DEF Registered, Distinct
    <3>2. ASSUME NEW b \in Registered(s) \ {a}
          PROVE  b \in Registered(t)
      <4>1. PICK j \in 1..Len(s) : s[j].addr = b
        BY <1>1 DEF Registered
      <4>2. j # i
        BY <2>2, <4>1
      <4>3. CASE j < i
        <5>1. j \in 1..(Len(s) - 1) /\ t[j] = s[j]
          BY <1>1, <2>2, <2>3, <4>3
        <5> QED
          BY <4>1, <5>1, <2>4 DEF Registered
      <4>4. CASE j > i
        <5>1. j - 1 \in 1..(Len(s) - 1) /\ t[j - 1] = s[j]
          BY <1>1, <2>2, <2>3, <4>4
        <5> QED
          BY <4>1, <5>1, <2>4 DEF Registered
      <4> QED
        BY <1>1, <2>2, <4>2, <4>3, <4>4
    <3> QED
      BY <3>1, <3>2 DEF Registered
  <2>7. WithoutFirst(s, At(s, a)) = t
    BY <1>3 DEF WithoutFirst, i, t
  <2> QED
    BY <2>3, <2>5, <2>6, <2>7, <2>a
<1> QED
  BY <1>2, <1>3

\* An entry for a new address at the end of a list without duplicates.
LEMMA AppendIs ==
  ASSUME NEW S, NEW s \in Seq(S), Distinct(s), NEW e \in S, At(s, e.addr) = {}
  PROVE  /\ Append(s, e) \in Seq(S)
         /\ Distinct(Append(s, e))
         /\ Registered(Append(s, e)) = Registered(s) \cup {e.addr}
         /\ Len(Append(s, e)) = Len(s) + 1
         /\ \A j \in 1..Len(s) : Append(s, e)[j] = s[j]
         /\ Append(s, e)[Len(s) + 1] = e
<1>1. /\ Append(s, e) \in Seq(S)
      /\ Len(Append(s, e)) = Len(s) + 1
      /\ \A j \in 1..Len(s) : Append(s, e)[j] = s[j]
      /\ Append(s, e)[Len(s) + 1] = e
  BY AppendProperties
<1>2. DOMAIN Append(s, e) = 1..(Len(s) + 1) /\ DOMAIN s = 1..Len(s) /\ Len(s) \in Nat
  BY <1>1, LenProperties
<1>3. \A j \in 1..Len(s) : s[j].addr # e.addr
  BY <1>2 DEF At
<1>4. Distinct(Append(s, e))
  BY <1>1, <1>2, <1>3 DEF Distinct
<1>5. Registered(Append(s, e)) = Registered(s) \cup {e.addr}
  <2>1. Len(s) + 1 \in DOMAIN Append(s, e)
    BY <1>2
  <2>2. DOMAIN s \subseteq DOMAIN Append(s, e)
    BY <1>2
  <2>3. \A j \in DOMAIN Append(s, e) : j \in DOMAIN s \/ j = Len(s) + 1
    BY <1>2
  <2> QED
    BY <1>1, <1>2, <2>1, <2>2, <2>3 DEF Registered
<1> QED
  BY <1>1, <1>4, <1>5

\* Replacing an entry by one for the same address.
LEMMA ReplaceIs ==
  ASSUME NEW S, NEW s \in Seq(S), Distinct(s), NEW i \in DOMAIN s,
         NEW e \in S, e.addr = s[i].addr
  PROVE  /\ [s EXCEPT ![i] = e] \in Seq(S)
         /\ Distinct([s EXCEPT ![i] = e])
         /\ Registered([s EXCEPT ![i] = e]) = Registered(s)
<1>1. DOMAIN s = 1..Len(s)
  BY LenProperties
<1>2. [s EXCEPT ![i] = e] \in Seq(S)
  BY <1>1, ExceptSeq
<1> QED
  BY <1>2 DEF Distinct, Registered

-----------------------------------------------------------------------------
(* The file list: seeders and leechers are among the addresses of R, and   *)
(* every file has a seeder.                                                *)

FileOver(R) == [meta : Metas, seed : SUBSET R, leech : SUBSET R,
                wild : SUBSET Garbage]

FilesOver(F, R) ==
  /\ DOMAIN F \subseteq Keys
  /\ F \in [DOMAIN F -> FileOver(R)]
  /\ \A k \in DOMAIN F : F[k].seed # {}

\* More peers registered change nothing for the files.
LEMMA FilesOverMore ==
  ASSUME NEW F, NEW R, NEW T, R \subseteq T, FilesOver(F, R)
  PROVE  FilesOver(F, T)
<1>1. \A k \in DOMAIN F : F[k] \in FileOver(T)
  BY DEF FilesOver, FileOver
<1> QED
  BY <1>1 DEF FilesOver

\* add_seed and add_leech of a registered peer.
LEMMA AddOver ==
  ASSUME NEW F, NEW R, NEW a \in R, NEW Ks, FilesOver(F, R)
  PROVE  FilesOver(AddSeed(F, Ks, a), R) /\ FilesOver(AddLeech(F, Ks, a), R)
<1>1. \A k \in DOMAIN F :
        /\ F[k] \in FileOver(R)
        /\ [F[k] EXCEPT !.seed = @ \cup {a}] \in FileOver(R)
        /\ [F[k] EXCEPT !.leech = @ \cup {a}] \in FileOver(R)
        /\ [F[k] EXCEPT !.seed = @ \cup {a}].seed # {}
        /\ [F[k] EXCEPT !.leech = @ \cup {a}].seed # {}
  BY DEF FilesOver, FileOver
<1> QED
  BY <1>1 DEF FilesOver, AddSeed, AddLeech

\* The departure of a peer takes its address out of every file, and a file
\* with it when it was the only seeder.
LEMMA DropOver ==
  ASSUME NEW F, NEW R, NEW a, FilesOver(F, R)
  PROVE  FilesOver(DropPeer(F, a), R \ {a})
<1>1. ASSUME NEW k \in DOMAIN F, F[k].seed # {a}
      PROVE  /\ [F[k] EXCEPT !.seed = @ \ {a}, !.leech = @ \ {a}] \in FileOver(R \ {a})
             /\ [F[k] EXCEPT !.seed = @ \ {a}, !.leech = @ \ {a}].seed # {}
  <2>1. F[k] \in FileOver(R) /\ F[k].seed # {}
    BY DEF FilesOver
  <2>2. [F[k] EXCEPT !.seed = @ \ {a}, !.leech = @ \ {a}].seed = F[k].seed \ {a}
    BY <2>1 DEF FileOver
  <2> QED
    BY <1>1, <2>1, <2>2 DEF FileOver
<1> QED
  BY <1>1 DEF FilesOver, DropPeer

\* The seed part of an announce, whole or cut short by an item it refuses.
LEMMA SeedPartOver ==
  ASSUME NEW F, NEW R, NEW a \in R, FilesOver(F, R),
         NEW items \in Seq([key : Keys, meta : Metas]),
         NEW wild \in [Keys \ DOMAIN F -> SUBSET Garbage]
  PROVE  FilesOver(SeedPart(F, items, a, wild), R)
<1> DEFINE old == AddSeed(F, {items[i].key : i \in SeedReached(F, items)}, a)
           pick(k) == CHOOSE i \in NewAt(F, items) : items[i].key = k
           G == SeedPart(F, items, a, wild)
<1>1. FilesOver(old, R) /\ DOMAIN old = DOMAIN F
  BY AddOver DEF AddSeed
<1>2. \A i \in NewAt(F, items) : items[i] \in [key : Keys, meta : Metas]
  BY ElementOfSeq, LenProperties DEF NewAt, SeedReached
<1>3. NewKeys(F, items) \subseteq Keys \ DOMAIN F
  BY <1>2 DEF NewKeys, NewAt, Fresh
<1>4. \A k \in NewKeys(F, items) : pick(k) \in NewAt(F, items)
  BY DEF NewKeys
<1>5. \A k \in NewKeys(F, items) :
        /\ NewFile(items[pick(k)].meta, a, wild[k]) \in FileOver(R)
        /\ NewFile(items[pick(k)].meta, a, wild[k]).seed # {}
  <2> SUFFICES ASSUME NEW k \in NewKeys(F, items)
               PROVE  /\ NewFile(items[pick(k)].meta, a, wild[k]) \in FileOver(R)
                      /\ NewFile(items[pick(k)].meta, a, wild[k]).seed # {}
    OBVIOUS
  <2>1. items[pick(k)].meta \in Metas
    BY <1>2, <1>4
  <2>2. wild[k] \in SUBSET Garbage
    BY <1>3
  <2> HIDE DEF pick
  <2> QED
    BY <2>1, <2>2 DEF NewFile, FileOver
<1>6. G = [k \in DOMAIN F \cup NewKeys(F, items) |->
             IF k \in DOMAIN F THEN old[k]
             ELSE NewFile(items[pick(k)].meta, a, wild[k])]
  BY DEF SeedPart
<1>7. DOMAIN F \subseteq Keys
  BY DEF FilesOver
<1> HIDE DEF old, pick, G
<1>8. \A k \in DOMAIN F : old[k] \in FileOver(R) /\ old[k].seed # {}
  BY <1>1 DEF FilesOver
<1>9. DOMAIN G = DOMAIN F \cup NewKeys(F, items)
  BY <1>6
<1>10. \A k \in DOMAIN G : G[k] \in FileOver(R) /\ G[k].seed # {}
  BY <1>5, <1>6, <1>8
<1>11. FilesOver(G, R)
  BY <1>3, <1>6, <1>7, <1>9, <1>10 DEF FilesOver
<1> QED
  BY <1>11 DEF G

\* One part of an announce, of any type.
LEMMA PartOver ==
  ASSUME NEW F, NEW R, NEW a \in R, FilesOver(F, R),
         NEW p \in PartType, NEW wild,
         p.type = "seed" => wild \in [Keys \ DOMAIN F -> SUBSET Garbage]
  PROVE  FilesOver(Part(F, p, a, wild).files, R)
<1>1. p.items \in Seq([key : Keys, meta : Metas])
  BY DEF PartType
<1>2. p.type = "seed" => FilesOver(SeedPart(F, p.items, a, wild), R)
  BY <1>1, SeedPartOver
<1>3. FilesOver(LeechPart(F, p.items, a), R)
  BY AddOver DEF LeechPart
<1> QED
  BY <1>2, <1>3 DEF Part

-----------------------------------------------------------------------------
(* The peer list and the error list. *)

PeerEntry == [addr : Addr, sock : Fds]
ErrorRecord == [addr : Remotes, last : {0, 1}, nb : Nat]

\* add_node_peers registers the address, once.
LEMMA AddPeerIs ==
  ASSUME NEW ps \in Seq(PeerEntry), Distinct(ps), NEW a \in Addr, NEW fd \in Fds
  PROVE  /\ AddPeer(ps, a, fd) \in Seq(PeerEntry)
         /\ Distinct(AddPeer(ps, a, fd))
         /\ Registered(AddPeer(ps, a, fd)) = Registered(ps) \cup {a}
<1>1. CASE At(ps, a) # {}
  BY <1>1 DEF AddPeer, At, Registered
<1>2. CASE At(ps, a) = {}
  <2> DEFINE e == [addr |-> a, sock |-> fd]
  <2>1. e \in PeerEntry /\ e.addr = a
    BY DEF PeerEntry
  <2>2. AddPeer(ps, a, fd) = Append(ps, e)
    BY <1>2 DEF AddPeer
  <2> HIDE DEF e
  <2> QED
    BY <1>2, <2>1, <2>2, AppendIs
<1> QED
  BY <1>1, <1>2

\* Every message starts by making sure its sender has one error record.
LEMMA AddRecordIs ==
  ASSUME NEW es \in Seq(ErrorRecord), Distinct(es), NEW c \in Remotes
  PROVE  /\ AddRecord(es, c) \in Seq(ErrorRecord)
         /\ Distinct(AddRecord(es, c))
         /\ First(At(AddRecord(es, c), c)) \in DOMAIN AddRecord(es, c)
         /\ AddRecord(es, c)[First(At(AddRecord(es, c), c))].addr = c
         /\ \A i \in DOMAIN es : /\ i \in DOMAIN AddRecord(es, c)
                                  /\ AddRecord(es, c)[i] = es[i]
<1> DEFINE fs == AddRecord(es, c)
           e == [addr |-> c, last |-> 0, nb |-> 0]
<1>1. e \in ErrorRecord /\ e.addr = c
  BY DEF ErrorRecord
<1>2. DOMAIN es = 1..Len(es) /\ Len(es) \in Nat
  BY LenProperties
<1>3. /\ fs \in Seq(ErrorRecord)
      /\ Distinct(fs)
      /\ At(fs, c) # {}
      /\ \A i \in DOMAIN es : i \in DOMAIN fs /\ fs[i] = es[i]
  <2>1. CASE At(es, c) # {}
    BY <2>1 DEF AddRecord
  <2>2. CASE At(es, c) = {}
    <3>1. fs = Append(es, e)
      BY <2>2 DEF AddRecord
    <3> HIDE DEF fs, e
    <3>2. /\ fs \in Seq(ErrorRecord)
          /\ Distinct(fs)
          /\ Len(fs) = Len(es) + 1
          /\ \A j \in 1..Len(es) : fs[j] = es[j]
          /\ fs[Len(es) + 1] = e
      BY <1>1, <2>2, <3>1, AppendIs
    <3>3. DOMAIN fs = 1..(Len(es) + 1)
      BY <3>2, LenProperties
    <3>4. Len(es) + 1 \in At(fs, c)
      BY <1>1, <1>2, <3>2, <3>3 DEF At
    <3> QED
      BY <1>2, <3>2, <3>3, <3>4
  <2> QED
    BY <2>1, <2>2
<1> HIDE DEF fs
<1>4. DOMAIN fs = 1..Len(fs)
  BY <1>3, LenProperties
<1>5. At(fs, c) \in SUBSET Nat
  BY <1>4 DEF At
<1>6. First(At(fs, c)) \in At(fs, c)
  BY <1>3, <1>5, FirstIsOne
<1>7. First(At(fs, c)) \in DOMAIN fs /\ fs[First(At(fs, c))].addr = c
  BY <1>6 DEF At
<1> QED
  BY <1>3, <1>7 DEF fs

\* Counting an error changes the record at hand and no other.
LEMMA CountErrorIs ==
  ASSUME NEW es \in Seq(ErrorRecord), Distinct(es), NEW i \in DOMAIN es
  PROVE  /\ CountError(es, i) \in Seq(ErrorRecord)
         /\ Distinct(CountError(es, i))
         /\ DOMAIN CountError(es, i) = DOMAIN es
         /\ CountError(es, i)[i] = [addr |-> es[i].addr, last |-> 1, nb |-> es[i].nb + 1]
         /\ \A j \in DOMAIN es \ {i} : CountError(es, i)[j] = es[j]
<1> DEFINE e == [addr |-> es[i].addr, last |-> 1, nb |-> es[i].nb + 1]
<1>1. es[i] \in ErrorRecord
  BY LenProperties, ElementOfSeq
<1>3. CountError(es, i) = [es EXCEPT ![i] = e]
  BY DEF CountError
<1>4. e \in ErrorRecord /\ e.addr = es[i].addr
  BY <1>1 DEF ErrorRecord
<1> HIDE DEF e
<1>5. /\ [es EXCEPT ![i] = e] \in Seq(ErrorRecord)
      /\ Distinct([es EXCEPT ![i] = e])
  BY <1>4, ReplaceIs
<1> QED
  BY <1>3, <1>5 DEF e

\* So does clearing them; a record that loses its last error is the sender's.
LEMMA ClearErrorsIs ==
  ASSUME NEW es \in Seq(ErrorRecord), Distinct(es), NEW c \in Remotes
  PROVE  /\ ClearErrors(es, c) \in Seq(ErrorRecord)
         /\ Distinct(ClearErrors(es, c))
         /\ DOMAIN ClearErrors(es, c) = DOMAIN es
         /\ \A j \in DOMAIN es : es[j].addr # c => ClearErrors(es, c)[j] = es[j]
<1>1. CASE At(es, c) = {}
  BY <1>1 DEF ClearErrors
<1>2. CASE At(es, c) # {}
  <2> DEFINE i == First(At(es, c))
             n == IF i < Len(es) THEN 0 ELSE es[i].nb
             e == [addr |-> es[i].addr, last |-> 0, nb |-> n]
  <2>1. DOMAIN es = 1..Len(es)
    BY LenProperties
  <2>2. At(es, c) \in SUBSET Nat
    BY <2>1 DEF At
  <2>3. i \in At(es, c)
    BY <1>2, <2>2, FirstIsOne
  <2>4. i \in DOMAIN es /\ es[i].addr = c
    BY <2>3 DEF At
  <2>5. es[i] \in ErrorRecord
    BY <2>1, <2>4, ElementOfSeq
  <2>6. ClearErrors(es, c) = [es EXCEPT ![i] = e]
    BY <1>2 DEF ClearErrors
  <2> HIDE DEF i
  <2>8. e \in ErrorRecord /\ e.addr = es[i].addr
    BY <2>5 DEF ErrorRecord
  <2> HIDE DEF e
  <2>9. /\ [es EXCEPT ![i] = e] \in Seq(ErrorRecord)
        /\ Distinct([es EXCEPT ![i] = e])
    BY <2>4, <2>8, ReplaceIs
  <2> QED
    BY <2>4, <2>6, <2>9
<1> QED
  BY <1>1, <1>2

-----------------------------------------------------------------------------
(* What an announce or an update does to the file list F: G lists the      *)
(* files of F with their descriptions and what was never written of them,  *)
(* and gives out one more address at most.                                 *)

Grows(F, G, a) ==
  /\ DOMAIN F \subseteq DOMAIN G
  /\ \A k \in DOMAIN F : G[k].meta = F[k].meta /\ G[k].wild = F[k].wild
  /\ \A k \in DOMAIN G : Sources(G, k) \subseteq Sources(F, k) \cup {a}

\* The files of a list, as far as the next lemmas need them.
IsList(F, R) == F \in [DOMAIN F -> FileOver(R)]

LEMMA GrowsOn ==
  ASSUME NEW F, NEW G, NEW H, NEW a, Grows(F, G, a), Grows(G, H, a)
  PROVE  Grows(F, H, a)
<1>1. \A k \in DOMAIN H : Sources(G, k) \subseteq Sources(F, k) \cup {a}
  BY DEF Grows, Sources
<1> QED BY <1>1 DEF Grows

\* add_seed and add_leech write neither the description nor the rest.
LEMMA AddGrows ==
  ASSUME NEW F, NEW R, IsList(F, R), NEW a, NEW Ks
  PROVE  /\ Grows(F, AddSeed(F, Ks, a), a) /\ DOMAIN AddSeed(F, Ks, a) = DOMAIN F
         /\ Grows(F, AddLeech(F, Ks, a), a) /\ DOMAIN AddLeech(F, Ks, a) = DOMAIN F
<1>1. \A k \in DOMAIN F :
        LET s == [F[k] EXCEPT !.seed = @ \cup {a}]
            l == [F[k] EXCEPT !.leech = @ \cup {a}]
        IN /\ s.meta = F[k].meta /\ s.wild = F[k].wild
           /\ l.meta = F[k].meta /\ l.wild = F[k].wild
           /\ s.seed = F[k].seed \cup {a} /\ s.leech = F[k].leech
           /\ l.leech = F[k].leech \cup {a} /\ l.seed = F[k].seed
  BY DEF IsList, FileOver
<1>2. DOMAIN AddSeed(F, Ks, a) = DOMAIN F /\ DOMAIN AddLeech(F, Ks, a) = DOMAIN F
  BY DEF AddSeed, AddLeech
<1>3. Grows(F, AddSeed(F, Ks, a), a)
  BY <1>1 DEF Grows, AddSeed, Sources
<1>4. Grows(F, AddLeech(F, Ks, a), a)
  BY <1>1 DEF Grows, AddLeech, Sources
<1> QED BY <1>2, <1>3, <1>4

\* addseed gives the files it creates to the announcing peer alone.
LEMMA SeedPartGrows ==
  ASSUME NEW F, NEW R, NEW a, IsList(F, R),
         NEW items \in Seq([key : Keys, meta : Metas]),
         NEW wild \in [Keys \ DOMAIN F -> SUBSET Garbage]
  PROVE  Grows(F, SeedPart(F, items, a, wild), a)
<1> DEFINE old == AddSeed(F, {items[i].key : i \in SeedReached(F, items)}, a)
           pick(k) == CHOOSE i \in NewAt(F, items) : items[i].key = k
           G == SeedPart(F, items, a, wild)
<1>1. Grows(F, old, a) /\ DOMAIN old = DOMAIN F
  BY AddGrows
<1>2. \A i \in NewAt(F, items) : i \in Nat /\ Fresh(F, items, i) /\ i \in SeedReached(F, items)
  BY LenProperties DEF NewAt, SeedReached
<1>3. \A k \in NewKeys(F, items) : k \notin DOMAIN F /\ \E i \in NewAt(F, items) : items[i].key = k
  BY <1>2 DEF NewKeys, Fresh
<1>4. G = [k \in DOMAIN F \cup NewKeys(F, items) |->
             IF k \in DOMAIN F THEN old[k]
             ELSE NewFile(items[pick(k)].meta, a, wild[k])]
  BY DEF SeedPart
<1> HIDE DEF old, pick, G
<1>5. Grows(F, G, a)
  <2>1. \A k \in DOMAIN F : G[k] = old[k]
    BY <1>4
  <2>2. \A k \in DOMAIN G \ DOMAIN F : Sources(G, k) = {a}
    BY <1>4 DEF NewFile, Sources
  <2>3. \A k \in DOMAIN F : Sources(G, k) = Sources(old, k)
    BY <1>1, <1>4, <2>1 DEF Sources
  <2> QED BY <1>1, <1>4, <2>1, <2>2, <2>3 DEF Grows
<1> QED BY <1>5 DEF G

\* One part of an announce, of any type.
LEMMA PartGrows ==
  ASSUME NEW F, NEW R, NEW a, IsList(F, R), NEW p \in PartType, NEW wild,
         p.type = "seed" => wild \in [Keys \ DOMAIN F -> SUBSET Garbage]
  PROVE  Grows(F, Part(F, p, a, wild).files, a)
<1>1. p.items \in Seq([key : Keys, meta : Metas])
  BY DEF PartType
<1>2. Grows(F, F, a)
  BY DEF Grows
<1>3. CASE p.type = "seed" /\ p.whole
  BY <1>1, <1>3, SeedPartGrows DEF Part
<1>4. CASE p.type = "leech" /\ p.whole
  <2>1. Grows(F, LeechPart(F, p.items, a), a)
    BY AddGrows DEF LeechPart
  <2> QED BY <1>4, <2>1 DEF Part
<1>5. CASE ~(p.type \in {"seed", "leech"} /\ p.whole)
  BY <1>2, <1>5 DEF Part
<1> QED BY <1>3, <1>4, <1>5

\* Both parts of an announce.
LEMMA PartsGrow ==
  ASSUME NEW R, NEW a \in R, FilesOver(files, R), NEW m \in AnnounceType,
         NEW wild \in Leftovers
  PROVE  LET P == SecondPart(m, a, wild)
         IN /\ FilesOver(P.files, R)
            /\ Grows(files, P.files, a)
<1> DEFINE P1 == FirstPart(m, a, wild)
           P2 == SecondPart(m, a, wild)
<1>1. \A i \in 1..Len(m.parts) : m.parts[i] \in PartType
  BY ElementOfSeq DEF AnnounceType
<1>2. Len(m.parts) \in Nat
  BY LenProperties DEF AnnounceType
<1>3. /\ FilesOver(P1.files, R)
      /\ Grows(files, P1.files, a)
  <2>1. CASE Len(m.parts) = 0
    BY <2>1 DEF FirstPart, Nothing, Grows
  <2>2. CASE Len(m.parts) # 0
    <3>1. m.parts[1] \in PartType /\ P1 = Part(files, m.parts[1], a, wild)
      BY <1>1, <1>2, <2>2 DEF FirstPart
    <3>2. IsList(files, R)
      BY DEF FilesOver, IsList
    <3>3. wild \in [Keys \ DOMAIN files -> SUBSET Garbage]
      BY DEF Leftovers
    <3> HIDE DEF P1
    <3> QED BY <3>1, <3>2, <3>3, PartOver, PartGrows
  <2> QED BY <2>1, <2>2
<1>4. CASE Len(m.parts) < 2 \/ ~P1.ok
  BY <1>3, <1>4 DEF SecondPart, Nothing
<1>5. CASE ~(Len(m.parts) < 2 \/ ~P1.ok)
  <2> DEFINE q == IF m.parts[2].type = "leech" THEN m.parts[2]
                  ELSE [m.parts[2] EXCEPT !.type = "other"]
  <2>1. m.parts[2] \in PartType
    BY <1>1, <1>2, <1>5
  <2>2. q \in PartType /\ q.type # "seed"
    BY <2>1 DEF PartType
  <2>3. P2 = Part(P1.files, q, a, wild)
    BY <1>5 DEF SecondPart
  <2>4. IsList(P1.files, R)
    BY <1>3 DEF FilesOver, IsList
  <2> HIDE DEF q, P1, P2
  <2>5. /\ FilesOver(P2.files, R)
        /\ Grows(P1.files, P2.files, a)
    BY <1>3, <2>2, <2>3, <2>4, PartOver, PartGrows
  <2>6. Grows(files, P2.files, a)
    BY <1>3, <2>5, GrowsOn
  <2> QED BY <1>3, <2>5, <2>6 DEF P1, P2
<1> QED BY <1>4, <1>5

-----------------------------------------------------------------------------
(* What every step keeps of the three lists, whoever takes it.             *)

PeersInv == peers \in Seq(PeerEntry) /\ Distinct(peers)
ErrsInv == errs \in Seq(ErrorRecord) /\ Distinct(errs)

ListsInv ==
  /\ PeersInv
  /\ ErrsInv
  /\ FilesOver(files, Addr)
  /\ toClose \in Fds \cup {NoFd}
  /\ streak \in [Remotes -> Nat]
  /\ up \in BOOLEAN

LEMMA RegisteredTyped ==
  ASSUME PeersInv
  PROVE  Registered(peers) \subseteq Addr
<1>1. \A i \in DOMAIN peers : peers[i] \in PeerEntry
  BY LenProperties, ElementOfSeq DEF PeersInv
<1> QED BY <1>1 DEF Registered, PeerEntry

\* A lookup that finds anything finds a registered peer.
LEMMA LookupIs ==
  ASSUME PeersInv, NEW I \in SUBSET DOMAIN peers, I # {}
  PROVE  /\ First(I) \in I
         /\ peers[First(I)].addr \in Registered(peers)
         /\ peers[First(I)].addr \in Addr
<1>1. I \in SUBSET Nat
  BY LenProperties DEF PeersInv
<1>2. First(I) \in I
  BY <1>1, FirstIsOne
<1> QED BY <1>2, RegisteredTyped DEF Registered

\* What ListsInv says of the properties of TrackerHandlers.
LEMMA ListsInvImplies ==
  ASSUME ListsInv
  PROVE  /\ DOMAIN files \subseteq Keys
         /\ files \in [DOMAIN files -> FileType]
         /\ EntriesDistinct
         /\ EveryFileSeeded
BY DEF ListsInv, PeersInv, ErrsInv, FilesOver, FileOver, FileType, EntriesDistinct,
       EveryFileSeeded

LEMMA InitLists ==
  ASSUME HandlersInit
  PROVE  ListsInv /\ SourcesRegistered
<1>1. PeersInv /\ ErrsInv
  BY EmptySeq DEF HandlersInit, PeersInv, ErrsInv, Distinct
<1>2. files = <<>> /\ DOMAIN files = {}
  BY DEF HandlersInit
<1> QED
  BY <1>1, <1>2 DEF HandlersInit, ListsInv, FilesOver, SourcesRegistered

-----------------------------------------------------------------------------
(* handleClient: the three lists stay well formed. *)

LEMMA CrashKeeps ==
  ASSUME ListsInv, Crash
  PROVE  ListsInv'
BY DEF ListsInv, PeersInv, ErrsInv, Crash

LEMMA FailKeeps ==
  ASSUME ListsInv, NEW fd \in Fds, NEW c \in Remotes, NEW m,
         NEW limited \in BOOLEAN, NEW text, Fail(fd, c, m, limited, text)
  PROVE  ListsInv'
<1> DEFINE es == AddRecord(errs, c)
           i == First(At(es, c))
<1> USE DEF ListsInv
<1>1. /\ es \in Seq(ErrorRecord) /\ Distinct(es)
      /\ i \in DOMAIN es /\ es[i].addr = c
  BY AddRecordIs DEF ErrsInv
<1>2. errs' = RemoveAt(es, i) \/ errs' = CountError(es, i)
  BY DEF Fail, RemoveError
<1>3. streak' \in [Remotes -> Nat] /\ toClose' \in Fds \cup {NoFd}
  <2>1. \E n : (n = 0 \/ n = streak[c] + 1) /\ streak' = [streak EXCEPT ![c] = n]
    BY DEF Fail
  <2>2. toClose' = fd \/ toClose' = toClose
    BY DEF Fail
  <2> QED BY <2>1, <2>2
<1>4. UNCHANGED <<peers, files, up>>
  BY DEF Fail
<1>5. RemoveAt(es, i) = WithoutFirst(es, At(es, c))
  BY <1>1 DEF WithoutFirst, At
<1>6. RemoveAt(es, i) \in Seq(ErrorRecord) /\ Distinct(RemoveAt(es, i))
  BY <1>1, <1>5, WithoutFirstIs
<1>7. CountError(es, i) \in Seq(ErrorRecord) /\ Distinct(CountError(es, i))
  BY <1>1, CountErrorIs
<1>8. ErrsInv'
  BY <1>2, <1>6, <1>7 DEF ErrsInv
<1> QED BY <1>3, <1>4, <1>8 DEF PeersInv

LEMMA HandleErrorKeeps ==
  ASSUME ListsInv, NEW fd \in Fds, NEW c \in Remotes, NEW m, HandleError(fd, c, m)
  PROVE  ListsInv'
BY FailKeeps DEF HandleError

LEMMA ServedKeeps ==
  ASSUME ListsInv, NEW c \in Remotes, Served(c)
  PROVE  ErrsInv' /\ streak' \in [Remotes -> Nat]
<1>1. AddRecord(errs, c) \in Seq(ErrorRecord) /\ Distinct(AddRecord(errs, c))
  BY AddRecordIs DEF ListsInv, ErrsInv
<1>2. ErrsInv'
  BY <1>1, ClearErrorsIs DEF Served, ErrsInv
<1> QED BY <1>2 DEF Served, ListsInv

\* announce registers the address it names and lists files for it alone.
LEMMA AnnounceKeeps ==
  ASSUME ListsInv, NEW fd \in Fds, NEW c \in Remotes, NEW m \in AnnounceType,
         Announce(fd, c, m), ~Crash, m.port # 0
  PROVE  LET a == <<c[1], m.port>>
         IN /\ ListsInv'
            /\ peers' = AddPeer(peers, a, fd)
            /\ a \in Addr
            /\ a \in Registered(peers') /\ Registered(peers) \subseteq Registered(peers')
            /\ Grows(files, files', a)
<1> DEFINE a == <<c[1], m.port>>
<1>1. PICK wild \in Leftovers : AnnounceParts(fd, c, m, wild)
  BY DEF Announce
<1>2. /\ ~FirstPart(m, a, wild).crash /\ ~SecondPart(m, a, wild).crash
      /\ peers' = AddPeer(peers, a, fd)
      /\ files' = SecondPart(m, a, wild).files
      /\ Served(c)
      /\ UNCHANGED <<toClose, up>>
  BY <1>1 DEF AnnounceParts
<1>3. a \in Addr
  BY DEF AnnounceType, Addr, Remotes
<1> HIDE DEF a
<1>4. PeersInv' /\ Registered(peers') = Registered(peers) \cup {a}
  BY <1>2, <1>3, AddPeerIs DEF ListsInv, PeersInv
<1>5. /\ FilesOver(files', Addr)
      /\ Grows(files, files', a)
  BY <1>2, <1>3, PartsGrow DEF ListsInv
<1>6. ErrsInv' /\ streak' \in [Remotes -> Nat]
  BY <1>2, ServedKeeps
<1>7. ListsInv'
  BY <1>2, <1>4, <1>5, <1>6 DEF ListsInv
<1> QED BY <1>2, <1>3, <1>4, <1>5, <1>7 DEF a

\* update gives out one more address, that of a registered peer of the host.
LEMMA UpdateKeeps ==
  ASSUME ListsInv, NEW fd \in Fds, NEW c \in Remotes, NEW m, Update(fd, c, m), ~Crash
  PROVE  /\ ListsInv'
         /\ UNCHANGED peers
         /\ \E a \in Registered(peers) : a[1] = c[1] /\ Grows(files, files', a)
<1> DEFINE I == WithIp(peers, c[1])
           a == peers[First(I)].addr
           F == AddSeed(files, Updated(m.tokens, "seed"), a)
           G == AddLeech(F, Updated(m.tokens, "leech"), a)
<1>1. I # {} /\ I \subseteq DOMAIN peers
  BY DEF Update, Announced, WithIp
<1>2. a \in Registered(peers) /\ a \in Addr /\ a[1] = c[1]
  <2>1. First(I) \in I /\ a \in Registered(peers) /\ a \in Addr
    BY <1>1, LookupIs DEF ListsInv
  <2> QED BY <2>1 DEF WithIp
<1>3. files' = G /\ Served(c) /\ UNCHANGED <<peers, toClose, up>>
  BY DEF Update
<1> HIDE DEF a
<1>4. FilesOver(F, Addr)
  BY <1>2, AddOver DEF ListsInv
<1>5. Grows(files, F, a) /\ DOMAIN F = DOMAIN files
  BY AddGrows DEF ListsInv, FilesOver, IsList
<1> HIDE DEF F
<1>6. FilesOver(G, Addr) /\ Grows(F, G, a) /\ DOMAIN G = DOMAIN F
  <2>1. IsList(F, Addr)
    BY <1>4 DEF FilesOver, IsList
  <2>2. FilesOver(G, Addr)
    BY <1>2, <1>4, AddOver
  <2> QED BY <2>1, <2>2, AddGrows
<1> HIDE DEF G
<1>7. Grows(files, G, a)
  BY <1>5, <1>6, GrowsOn
<1>8. ErrsInv' /\ streak' \in [Remotes -> Nat]
  BY <1>3, ServedKeeps
<1>9. ListsInv'
  BY <1>3, <1>6, <1>8 DEF ListsInv, PeersInv
<1> QED BY <1>2, <1>3, <1>7, <1>9

\* The other paths leave the peers and the files alone.
LEMMA OthersKeep ==
  ASSUME ListsInv, NEW fd \in Fds, NEW c \in Remotes, NEW m, HandleClient(fd, c, m),
         ~Announce(fd, c, m), ~Update(fd, c, m), ~Crash
  PROVE  ListsInv' /\ UNCHANGED <<peers, files>>
<1>1. CASE BlankLine(fd, c, m) \/ Unknown(fd, c, m)
  BY <1>1, HandleErrorKeeps DEF BlankLine, Unknown, HandleError, Fail
<1>2. CASE MessageNull(fd, c, m) \/ Exit(fd, c, m)
  <2>1. ErrsInv' /\ UNCHANGED <<peers, files, streak, up>> /\ toClose' \in {toClose, fd}
    BY <1>2, AddRecordIs DEF MessageNull, Exit, ListsInv, ErrsInv
  <2> QED BY <2>1 DEF ListsInv, PeersInv
<1>3. CASE NotAnnounced(fd, c, m)
  <2>1. Fail(fd, c, m, TRUE, "notAnnounced")
    BY <1>3 DEF NotAnnounced
  <2> QED BY <2>1, FailKeeps DEF Fail
<1>4. CASE Look(fd, c, m) \/ Getfile(fd, c, m)
  <2>1. Served(c) /\ UNCHANGED <<peers, files, toClose, up>>
    BY <1>4 DEF Look, Getfile
  <2> QED BY <2>1, ServedKeeps DEF ListsInv, PeersInv
<1> QED BY <1>1, <1>2, <1>3, <1>4 DEF HandleClient, LookBlank

\* Whatever a message is, its handler keeps the lists well formed, registers
\* at most the address an announce names, and gives out at most one more
\* address: that of a registered peer of the sender's host.
LEMMA HandleClientKeeps ==
  ASSUME ListsInv, NEW fd \in Fds, NEW c \in Remotes, NEW m,
         m.op = "announce" => m \in AnnounceType, HandleClient(fd, c, m)
  PROVE  /\ ListsInv'
         /\ \/ UNCHANGED peers
            \/ /\ m.op = "announce" /\ m.port \in Ports
               /\ peers' = AddPeer(peers, <<c[1], m.port>>, fd)
         /\ Registered(peers) \subseteq Registered(peers')
         /\ \/ UNCHANGED files
            \/ \E a \in Registered(peers') : a[1] = c[1] /\ Grows(files, files', a)
<1>1. CASE UNCHANGED <<peers, files>> /\ ListsInv'
  BY <1>1
<1>2. CASE Crash
  BY <1>1, <1>2, CrashKeeps DEF Crash
<1>3. CASE Announce(fd, c, m) /\ ~Crash
  <2>1. m \in AnnounceType
    BY <1>3 DEF Announce
  <2>2. CASE m.port = 0
    <3>1. Served(c) /\ UNCHANGED <<peers, files, toClose, up>>
      BY <1>3, <2>2 DEF Announce
    <3>2. ListsInv'
      BY <3>1, ServedKeeps DEF ListsInv, PeersInv
    <3> QED BY <1>1, <3>1, <3>2
  <2>3. CASE m.port # 0
    <3> DEFINE a == <<c[1], m.port>>
    <3>1. m.op = "announce" /\ m.port \in Ports /\ a[1] = c[1]
      BY <2>1, <2>3 DEF AnnounceType
    <3> HIDE DEF a
    <3>2. /\ ListsInv'
          /\ peers' = AddPeer(peers, a, fd)
          /\ a \in Registered(peers') /\ Registered(peers) \subseteq Registered(peers')
          /\ Grows(files, files', a)
      BY <1>3, <2>1, <2>3, AnnounceKeeps DEF a
    <3> QED BY <3>1, <3>2 DEF a
  <2> QED BY <2>2, <2>3
<1>4. CASE Update(fd, c, m) /\ ~Crash
  BY <1>4, UpdateKeeps
<1>5. CASE ~Announce(fd, c, m) /\ ~Update(fd, c, m) /\ ~Crash
  BY <1>1, <1>5, OthersKeep
<1> QED BY <1>2, <1>3, <1>4, <1>5

\* The addresses given out stay registered ones.
LEMMA HandleClientSources ==
  ASSUME ListsInv, SourcesRegistered, NEW fd \in Fds, NEW c \in Remotes, NEW m,
         m.op = "announce" => m \in AnnounceType, HandleClient(fd, c, m)
  PROVE  SourcesRegistered'
<1>1. Registered(peers) \subseteq Registered(peers')
  BY HandleClientKeeps
<1>2. \/ UNCHANGED files
      \/ \E a \in Registered(peers') : Grows(files, files', a)
  BY HandleClientKeeps
<1>3. CASE UNCHANGED files
  BY <1>1, <1>3 DEF SourcesRegistered
<1>4. ASSUME NEW a \in Registered(peers'), Grows(files, files', a)
      PROVE  SourcesRegistered'
  <2>1. \A k \in DOMAIN files' : Sources(files', k) \subseteq Sources(files, k) \cup {a}
    BY <1>4 DEF Grows
  <2>2. \A k \in DOMAIN files' : Sources(files, k) \subseteq Registered(peers)
    BY DEF SourcesRegistered, Sources
  <2>3. \A k \in DOMAIN files' : Sources(files', k) \subseteq Registered(peers')
    BY <1>1, <1>4, <2>1, <2>2
  <2> QED BY <2>3 DEF SourcesRegistered, Sources
<1> QED BY <1>2, <1>3, <1>4

\* The answer is for the descriptor the message came on.
LEMMA HandleClientAnswers ==
  ASSUME NEW fd, NEW c, NEW m, HandleClient(fd, c, m), replies' # replies
  PROVE  replies'.to = fd
<1>1. \A said : Reply(fd, m, said) => replies'.to = fd
  BY DEF Reply
<1>2. CASE BlankLine(fd, c, m) \/ Unknown(fd, c, m)
  BY <1>2 DEF BlankLine, Unknown, HandleError, Fail, Reply
<1>3. CASE NotAnnounced(fd, c, m)
  BY <1>3 DEF NotAnnounced, Crash, Fail, Reply
<1>4. CASE MessageNull(fd, c, m) \/ Exit(fd, c, m)
  BY <1>4 DEF MessageNull, Exit, Reply
<1>5. CASE Announce(fd, c, m)
  BY <1>1, <1>5 DEF Announce, AnnounceParts, Crash
<1>6. CASE Look(fd, c, m) \/ Getfile(fd, c, m) \/ Update(fd, c, m)
  BY <1>6 DEF Look, Getfile, Update, Crash, Give, Reply
<1>7. CASE LookBlank(fd, c, m)
  BY <1>7 DEF LookBlank, Crash
<1> QED BY <1>2, <1>3, <1>4, <1>5, <1>6, <1>7 DEF HandleClient

\* Only an error and exit ask main to close a connection.
LEMMA HandleClientCloses ==
  ASSUME NEW fd, NEW c, NEW m, HandleClient(fd, c, m),
         m.op \in {"announce", "update", "look", "getfile", "null"},
         m.op \in {"update", "look", "getfile"} => Announced(c)
  PROVE  toClose' = toClose
BY DEF HandleClient, BlankLine, MessageNull, NotAnnounced, Announce, AnnounceParts, Crash,
       Look, LookBlank, Getfile, Update, Exit, Unknown

-----------------------------------------------------------------------------
(* remove_client_ressources, list by list. *)

\* The file list without a peer: no description changes, and a file that goes
\* had that peer for its only seeder.
LEMMA DropIs ==
  ASSUME NEW F, NEW R, FilesOver(F, R), NEW a
  PROVE  /\ \A k \in DOMAIN DropPeer(F, a) :
              /\ k \in DOMAIN F
              /\ DropPeer(F, a)[k].meta = F[k].meta
              /\ DropPeer(F, a)[k].wild = F[k].wild
              /\ Sources(DropPeer(F, a), k) = Sources(F, k) \ {a}
         /\ \A k \in DOMAIN F \ DOMAIN DropPeer(F, a) : F[k].seed = {a}
<1>1. \A k \in DOMAIN F :
        LET r == [F[k] EXCEPT !.seed = @ \ {a}, !.leech = @ \ {a}]
        IN /\ r.meta = F[k].meta /\ r.wild = F[k].wild
           /\ r.seed = F[k].seed \ {a} /\ r.leech = F[k].leech \ {a}
  BY DEF FilesOver, FileOver
<1> QED BY <1>1 DEF DropPeer, Sources

\* A departure: the address leaves the peer list and every file with it.
LEMMA RemoveClientKeeps ==
  ASSUME ListsInv, SourcesRegistered, NEW fd \in Fds, RemoveClient(fd)
  PROVE  /\ ListsInv' /\ SourcesRegistered'
         /\ \A k \in DOMAIN files' : /\ k \in DOMAIN files
                                     /\ files'[k].meta = files[k].meta
                                     /\ files'[k].wild = files[k].wild
         /\ \A k \in DOMAIN files \ DOMAIN files' :
              \E a \in Addr : /\ files[k].seed = {a}
                              /\ a \in Registered(peers) /\ a \notin Registered(peers')
<1> DEFINE a == peers[First(WithSocket(peers, fd))].addr
<1>1. CASE UNCHANGED <<peers, files, errs, toClose, streak>> /\ up' \in BOOLEAN
  BY <1>1 DEF ListsInv, PeersInv, ErrsInv, SourcesRegistered
<1>2. CASE UNCHANGED handlerVars \/ Crash
  BY <1>1, <1>2 DEF handlerVars, Crash, ListsInv
<1>3. CASE ~(UNCHANGED handlerVars \/ Crash)
  <2>1. /\ WithSocket(peers, fd) # {} /\ WithSocket(peers, fd) \subseteq DOMAIN peers
        /\ errs' = WithoutFirst(errs, At(errs, a))
        /\ files' = DropPeer(files, a)
        /\ peers' = WithoutFirst(peers, At(peers, a))
        /\ UNCHANGED <<toClose, streak, up>>
    BY <1>3 DEF RemoveClient, WithSocket
  <2>2. a \in Registered(peers) /\ a \in Addr
    BY <2>1, LookupIs DEF ListsInv
  <2> HIDE DEF a
  <2>3. PeersInv' /\ Registered(peers') = Registered(peers) \ {a}
    BY <2>1, WithoutFirstIs DEF ListsInv, PeersInv
  <2>4. ErrsInv'
    BY <2>1, WithoutFirstIs DEF ListsInv, ErrsInv
  <2>5. FilesOver(files', Addr)
    BY <2>1, DropOver, FilesOverMore DEF ListsInv
  <2>6. \A k \in DOMAIN files' : /\ k \in DOMAIN files
                                 /\ files'[k].meta = files[k].meta
                                 /\ files'[k].wild = files[k].wild
                                 /\ Sources(files', k) = Sources(files, k) \ {a}
    BY <2>1, DropIs DEF ListsInv
  <2>7. SourcesRegistered'
    BY <2>3, <2>6 DEF SourcesRegistered, Sources
  <2>8. \A k \in DOMAIN files \ DOMAIN files' : files[k].seed = {a}
    BY <2>1, DropIs DEF ListsInv
  <2>9. ListsInv'
    BY <2>1, <2>3, <2>4, <2>5 DEF ListsInv
  <2> QED BY <2>2, <2>3, <2>6, <2>7, <2>8, <2>9
<1> QED BY <1>2, <1>3

-----------------------------------------------------------------------------
(* The error counters. *)

\* es has a record for c that says its last command was an error and counts n.
Counts(es, c, n) ==
  \E i \in DOMAIN es : es[i].addr = c /\ es[i].last = 1 /\ es[i].nb >= n

Counted(c) == streak[c] < MaxErrors /\ (streak[c] > 0 => Counts(errs, c, streak[c]))

\* A new record leaves the others alone.
LEMMA AddRecordCounts ==
  ASSUME NEW es \in Seq(ErrorRecord), Distinct(es), NEW d \in Remotes,
         NEW c \in Remotes, NEW k, Counts(es, c, k)
  PROVE  Counts(AddRecord(es, d), c, k)
BY AddRecordIs DEF Counts

\* So does the removal of another address's record.
LEMMA WithoutFirstCounts ==
  ASSUME NEW es \in Seq(ErrorRecord), Distinct(es), NEW a, NEW c \in Remotes, c # a,
         NEW k, Counts(es, c, k)
  PROVE  Counts(WithoutFirst(es, At(es, a)), c, k)
<1>1. CASE At(es, a) = {}
  BY <1>1 DEF WithoutFirst
<1>2. CASE At(es, a) # {}
  <2> DEFINE i == First(At(es, a))
             t == RemoveAt(es, i)
  <2>1. At(es, a) \in SUBSET Nat /\ At(es, a) \subseteq DOMAIN es /\ DOMAIN es = 1..Len(es)
    BY LenProperties DEF At
  <2>2. i \in DOMAIN es /\ es[i].addr = a
    <3>1. i \in At(es, a)
      BY <1>2, <2>1, FirstIsOne
    <3> QED BY <3>1 DEF At
  <2>3. WithoutFirst(es, At(es, a)) = t
    BY <1>2 DEF WithoutFirst
  <2> HIDE DEF i
  <2>4. /\ t \in Seq(ErrorRecord) /\ Len(t) = Len(es) - 1
        /\ \A j \in 1..(Len(es) - 1) : t[j] = IF j < i THEN es[j] ELSE es[j + 1]
    BY <2>1, <2>2, RemoveAtIs
  <2> HIDE DEF t
  <2>5. DOMAIN t = 1..(Len(es) - 1) /\ Len(es) \in Nat
    BY <2>4, LenProperties
  <2>6. PICK j \in DOMAIN es : es[j].addr = c /\ es[j].last = 1 /\ es[j].nb >= k
    BY DEF Counts
  <2>7. PICK l \in DOMAIN t : t[l] = es[j]
    <3>1. CASE j < i
      <4>1. j \in DOMAIN t
        BY <2>1, <2>2, <2>5, <3>1
      <4> QED BY <2>4, <2>5, <3>1, <4>1
    <3>2. CASE j > i
      <4>1. j - 1 \in DOMAIN t /\ ~(j - 1 < i) /\ (j - 1) + 1 = j
        BY <2>1, <2>2, <2>5, <3>2
      <4> QED BY <2>4, <2>5, <4>1
    <3> QED BY <2>1, <2>2, <2>6, <3>1, <3>2
  <2> QED BY <2>3, <2>6, <2>7 DEF Counts
<1> QED BY <1>1, <1>2

\* An error is counted.
LEMMA FailCounts ==
  ASSUME ListsInv, NEW fd, NEW d \in Remotes, NEW m, NEW limited \in BOOLEAN, NEW text,
         Fail(fd, d, m, limited, text),
         NEW c \in Remotes, Counted(c),
         c = d /\ ~limited => streak[d] = 0
  PROVE  Counted(c)'
<1> DEFINE es == AddRecord(errs, d)
           i == First(At(es, d))
           kicked == limited /\ es[i].nb + 1 >= MaxErrors
<1>1. /\ es \in Seq(ErrorRecord) /\ Distinct(es)
      /\ i \in DOMAIN es /\ es[i].addr = d
  BY AddRecordIs DEF ListsInv, ErrsInv
<1>2. es[i] \in ErrorRecord
  BY <1>1, LenProperties, ElementOfSeq
<1>3. /\ errs' = IF kicked THEN RemoveAt(es, i) ELSE CountError(es, i)
      /\ streak' = [streak EXCEPT ![d] = IF kicked THEN 0 ELSE @ + 1]
  BY DEF Fail, RemoveError
<1>4. Counts(errs, c, streak[c]) => Counts(es, c, streak[c])
  BY AddRecordCounts DEF ListsInv, ErrsInv
<1>5. streak \in [Remotes -> Nat]
  BY DEF ListsInv
<1>6. RemoveAt(es, i) = WithoutFirst(es, At(es, d))
  BY <1>1 DEF WithoutFirst, At
<1>7. /\ DOMAIN CountError(es, i) = DOMAIN es
      /\ CountError(es, i)[i] = [addr |-> d, last |-> 1, nb |-> es[i].nb + 1]
      /\ \A j \in DOMAIN es \ {i} : CountError(es, i)[j] = es[j]
  BY <1>1, CountErrorIs
<1> HIDE DEF es, i
<1>8. CASE c # d
  <2>1. streak'[c] = streak[c]
    BY <1>3, <1>5, <1>8
  <2>2. Counts(es, c, streak[c]) => Counts(RemoveAt(es, i), c, streak[c])
    BY <1>1, <1>6, <1>8, WithoutFirstCounts
  <2>3. Counts(es, c, streak[c]) => Counts(CountError(es, i), c, streak[c])
    BY <1>1, <1>7, <1>8 DEF Counts
  <2> QED BY <1>3, <1>4, <2>1, <2>2, <2>3 DEF Counted
<1>9. CASE c = d /\ kicked
  BY <1>3, <1>5, <1>9 DEF Counted, MaxErrors
<1>10. CASE c = d /\ ~kicked
  <2>1. streak'[c] = streak[c] + 1 /\ streak[c] \in Nat
    BY <1>3, <1>5, <1>10
  <2>2. es[i].nb >= streak[c]
    <3>1. CASE streak[c] = 0
      BY <1>2, <3>1 DEF ErrorRecord
    <3>2. CASE streak[c] > 0
      <4>1. PICK j \in DOMAIN es : es[j].addr = c /\ es[j].nb >= streak[c]
        BY <1>4, <3>2 DEF Counted, Counts
      <4> QED BY <1>1, <1>10, <4>1 DEF Distinct
    <3> QED BY <2>1, <3>1, <3>2
  <2>3. es[i].nb \in Nat
    BY <1>2 DEF ErrorRecord
  <2>4. Counts(CountError(es, i), c, streak[c] + 1)
    BY <1>1, <1>7, <1>10, <2>1, <2>2, <2>3 DEF Counts
  <2>5. streak[c] + 1 < MaxErrors
    BY <1>10, <2>1, <2>2, <2>3 DEF MaxErrors
  <2> QED BY <1>3, <1>10, <2>1, <2>4, <2>5 DEF Counted
<1> QED BY <1>8, <1>9, <1>10

\* HandleError looks at the limit unless the last command was no error, and
\* then the errors in a row are none.
LEMMA HandleErrorCounts ==
  ASSUME ListsInv, NEW fd, NEW d \in Remotes, NEW m, HandleError(fd, d, m),
         NEW c \in Remotes, Counted(c)
  PROVE  Counted(c)'
<1> DEFINE es == AddRecord(errs, d)
           i == First(At(es, d))
<1>1. /\ es \in Seq(ErrorRecord) /\ Distinct(es)
      /\ i \in DOMAIN es /\ es[i].addr = d
  BY AddRecordIs DEF ListsInv, ErrsInv
<1>2. ASSUME c = d, es[i].last # 1 PROVE streak[d] = 0
  <2>1. Counts(errs, d, streak[d]) => Counts(es, d, streak[d])
    BY AddRecordCounts DEF ListsInv, ErrsInv
  <2>2. ~Counts(es, d, streak[d])
    BY <1>1, <1>2 DEF Counts, Distinct
  <2>3. streak[d] \in Nat
    BY DEF ListsInv
  <2> QED BY <1>2, <2>1, <2>2, <2>3 DEF Counted
<1>3. Fail(fd, d, m, es[i].last = 1, "invalid")
  BY DEF HandleError
<1> HIDE DEF es, i
<1> DEFINE limited == es[i].last = 1
<1>4. limited \in BOOLEAN /\ (c = d /\ ~limited => streak[d] = 0)
  BY <1>2
<1>5. Fail(fd, d, m, limited, "invalid")
  BY <1>3
<1> HIDE DEF limited
<1> QED BY <1>4, <1>5, FailCounts

\* A command that is served clears the sender's errors alone.
LEMMA ServedCounts ==
  ASSUME ListsInv, NEW d \in Remotes, Served(d), NEW c \in Remotes, Counted(c)
  PROVE  Counted(c)'
<1> DEFINE es == AddRecord(errs, d)
<1>1. es \in Seq(ErrorRecord) /\ Distinct(es)
  BY AddRecordIs DEF ListsInv, ErrsInv
<1>2. errs' = ClearErrors(es, d) /\ streak' = [streak EXCEPT ![d] = 0]
  BY DEF Served
<1>3. streak \in [Remotes -> Nat]
  BY DEF ListsInv
<1>4. Counts(errs, c, streak[c]) => Counts(es, c, streak[c])
  BY AddRecordCounts DEF ListsInv, ErrsInv
<1> HIDE DEF es
<1>5. CASE c = d
  BY <1>2, <1>3, <1>5 DEF Counted, MaxErrors
<1>6. CASE c # d
  <2>1. Counts(es, c, streak[c]) => Counts(ClearErrors(es, d), c, streak[c])
    BY <1>1, <1>6, ClearErrorsIs DEF Counts
  <2> QED BY <1>2, <1>3, <1>4, <1>6, <2>1 DEF Counted
<1> QED BY <1>5, <1>6

\* A message that makes no error only adds the record of its sender.
LEMMA RecordedCounts ==
  ASSUME ListsInv, NEW d \in Remotes, errs' = AddRecord(errs, d), UNCHANGED streak,
         NEW c \in Remotes, Counted(c)
  PROVE  Counted(c)'
BY AddRecordCounts DEF ListsInv, ErrsInv, Counted

LEMMA HandleClientCounts ==
  ASSUME ListsInv, NEW fd, NEW d \in Remotes, NEW m, HandleClient(fd, d, m),
         NEW c \in Remotes, Counted(c)
  PROVE  Counted(c)'
<1>1. ASSUME Crash PROVE Counted(c)'
  BY <1>1 DEF Crash, Counted, Counts
<1>2. CASE BlankLine(fd, d, m)
  BY <1>2, HandleErrorCounts DEF BlankLine
<1>3. CASE Unknown(fd, d, m)
  BY <1>3, HandleErrorCounts DEF Unknown
<1>4. CASE NotAnnounced(fd, d, m)
  <2>1. Crash \/ Fail(fd, d, m, TRUE, "notAnnounced")
    BY <1>4 DEF NotAnnounced
  <2> QED BY <1>1, <2>1, FailCounts
<1>5. CASE MessageNull(fd, d, m)
  BY <1>5, RecordedCounts DEF MessageNull
<1>6. CASE Exit(fd, d, m)
  BY <1>6, RecordedCounts DEF Exit
<1>7. CASE Announce(fd, d, m) \/ Look(fd, d, m) \/ Getfile(fd, d, m) \/ Update(fd, d, m)
  <2>1. Crash \/ Served(d)
    BY <1>7 DEF Announce, AnnounceParts, Look, Getfile, Update
  <2> QED BY <1>1, <2>1, ServedCounts
<1>8. CASE LookBlank(fd, d, m)
  BY <1>1, <1>8 DEF LookBlank
<1> QED BY <1>2, <1>3, <1>4, <1>5, <1>6, <1>7, <1>8 DEF HandleClient

\* A departure removes the record of a listening address, which is no other
\* remote's.
LEMMA RemoveClientCounts ==
  ASSUME ListsInv, NEW fd \in Fds, RemoveClient(fd),
         NEW c \in Remotes \ Addr, Counted(c)
  PROVE  Counted(c)'
<1> DEFINE a == peers[First(WithSocket(peers, fd))].addr
<1>1. CASE WithSocket(peers, fd) = {}
  BY <1>1 DEF RemoveClient, handlerVars, Counted, Counts
<1>2. CASE WithSocket(peers, fd) # {}
  <2>1. a \in Addr
    <3>1. WithSocket(peers, fd) \in SUBSET Nat /\ WithSocket(peers, fd) \subseteq DOMAIN peers
      BY LenProperties DEF WithSocket, ListsInv, PeersInv
    <3>2. First(WithSocket(peers, fd)) \in DOMAIN peers
      BY <1>2, <3>1, FirstIsOne
    <3> QED BY <3>2, RegisteredTyped DEF Registered, ListsInv
  <2>2. Crash \/ (errs' = WithoutFirst(errs, At(errs, a)) /\ UNCHANGED streak)
    BY <1>2 DEF RemoveClient
  <2> HIDE DEF a
  <2>3. CASE Crash
    BY <2>3 DEF Crash, Counted, Counts
  <2>4. CASE errs' = WithoutFirst(errs, At(errs, a)) /\ UNCHANGED streak
    BY <2>1, <2>4, WithoutFirstCounts DEF ListsInv, ErrsInv, Counted
  <2> QED BY <2>2, <2>3, <2>4
<1> QED BY <1>1, <1>2
=============================================================================
