--------------------------- MODULE PeerLinksProofs ---------------------------
(***************************************************************************)
(* Theorems about PeerLinks, for any users, peers, scripts and mishaps:    *)
(* its types, that it implements Exchange, and hence that a call that      *)
(* shared its connection and command with no other that waited gets its    *)
(* own answer or none.                                                     *)
(*                                                                         *)
(* What is matched rests on LinkOK: a request or an answer is on its way   *)
(* at most once, on the connection its call was written to, and a future   *)
(* belongs to a call that waits there for the command it is kept under.    *)
(* That a new call has no connection yet (UserOK), and that a connection   *)
(* is only opened for a call that has not opened one (Past), bounds the    *)
(* number of connections and makes the kinds of Exchange finite.           *)
(***************************************************************************)
EXTENDS PeerLinks, WellFoundedInduction, FiniteSetTheorems, SequenceTheorems, TLAPS

\* Nothing but newlines occurs twice.
NoRepeats(s) == \A i, j \in DOMAIN s : s[i] = s[j] /\ s[i] # NewLine => i = j

\* A call that was written and whose future is not registered yet.
Registering(c) == pc[c[1]] = "register" /\ c = Call(c[1])

LinkOK(l) ==
  /\ NoRepeats(links[l].out) /\ NoRepeats(links[l].inb)
  /\ AnswersIn(links[l].out) \cap AnswersIn(links[l].inb) = {}
  /\ \A c \in AnswersIn(links[l].out) \cup AnswersIn(links[l].inb) : via[c] = l
  /\ \A k \in Keys :
       LET c == links[l].futures[k]
       IN c # None => via[c] = l /\ Key(c) = k /\ got[c] = None /\ ~Registering(c)

UserOK(u) ==
  /\ pc[u] # "done" => step[u] <= Len(Script[u])
  /\ pc[u] \in {"room", "add", "store", "id", "write", "register", "wait"} => at[u] # NoLink
  /\ pc[u] = "register" => via[Call(u)] = at[u] /\ got[Call(u)] = None
  /\ \A i \in 1..Longest :
       IF via[<<u, i>>] = NoLink THEN got[<<u, i>>] = None
       ELSE i < step[u] \/ (i = step[u] /\ pc[u] \in {"register", "wait"})

\* The calls for which a user may have opened a connection.
Past == {c \in Calls : c[2] < step[c[1]] \/ (c[2] = step[c[1]] /\ pc[c[1]] \notin {"begin", "scan"})}

IInv ==
  /\ TypeOK
  /\ world \in Worlds
  /\ \A u \in Users : UserOK(u)
  /\ \A l \in Numbers : LinkOK(l)
  /\ Len(links) <= Cardinality(Past)

-----------------------------------------------------------------------------
(* Sequences. *)

\* What is cut off a sequence, and what is left.
LEMMA Cut ==
  ASSUME NEW S, NEW s \in Seq(S), NEW m \in 0..Len(s)
  PROVE  /\ Prefix(s, m) \in Seq(S) /\ Len(Prefix(s, m)) = m
         /\ \A i \in 1..m : Prefix(s, m)[i] = s[i]
         /\ Beyond(s, m) \in Seq(S) /\ Len(Beyond(s, m)) = Len(s) - m
         /\ \A i \in 1..(Len(s) - m) : Beyond(s, m)[i] = s[m + i]
BY DEF Prefix, Beyond

\* The answers in the two halves are those of the whole, and apart.
LEMMA CutAnswers ==
  ASSUME NEW S, NEW s \in Seq(S), NEW m \in 1..Len(s)
  PROVE  /\ AnswersIn(Prefix(s, m)) \subseteq AnswersIn(s)
         /\ AnswersIn(Beyond(s, m)) \subseteq AnswersIn(s)
         /\ Prefix(s, m)[1] = s[1]
         /\ s[1] # NewLine => s[1] \in AnswersIn(Prefix(s, m))
         /\ NoRepeats(s) => /\ NoRepeats(Beyond(s, m))
                            /\ AnswersIn(Prefix(s, m)) \cap AnswersIn(Beyond(s, m)) = {}
<1> DEFINE p == Prefix(s, m)
           b == Beyond(s, m)
<1>1. /\ p \in Seq(S) /\ DOMAIN p = 1..m
      /\ \A i \in 1..m : p[i] = s[i] /\ i \in DOMAIN s
      /\ b \in Seq(S) /\ DOMAIN b = 1..(Len(s) - m)
      /\ \A i \in DOMAIN b : b[i] = s[m + i] /\ m + i \in DOMAIN s /\ m + i \notin 1..m
  <2>1. DOMAIN s = 1..Len(s) /\ Len(s) \in Nat /\ m \in 0..Len(s)
    BY LenProperties
  <2>2. /\ p \in Seq(S) /\ Len(p) = m /\ \A i \in 1..m : p[i] = s[i]
        /\ b \in Seq(S) /\ Len(b) = Len(s) - m
        /\ \A i \in 1..(Len(s) - m) : b[i] = s[m + i]
    BY <2>1, Cut
  <2> HIDE DEF p, b
  <2>3. DOMAIN p = 1..m /\ DOMAIN b = 1..(Len(s) - m)
    BY <2>2, LenProperties
  <2> QED BY <2>1, <2>2, <2>3
<1> HIDE DEF p, b
<1>2. AnswersIn(p) \subseteq AnswersIn(s) /\ AnswersIn(b) \subseteq AnswersIn(s)
  BY <1>1 DEF AnswersIn
<1>3. p[1] = s[1] /\ (s[1] # NewLine => s[1] \in AnswersIn(p))
  BY <1>1 DEF AnswersIn
<1>4. NoRepeats(s) => NoRepeats(b)
  BY <1>1 DEF NoRepeats
<1>5. NoRepeats(s) => AnswersIn(p) \cap AnswersIn(b) = {}
  BY <1>1 DEF NoRepeats, AnswersIn
<1> QED BY <1>2, <1>3, <1>4, <1>5 DEF p, b

\* The answers in two sequences put together.
LEMMA Joined ==
  ASSUME NEW S, NEW s \in Seq(S), NEW t \in Seq(S)
  PROVE  /\ s \o t \in Seq(S)
         /\ AnswersIn(s \o t) = AnswersIn(s) \cup AnswersIn(t)
         /\ NoRepeats(s) /\ NoRepeats(t) /\ AnswersIn(s) \cap AnswersIn(t) = {}
              => NoRepeats(s \o t)
<1> DEFINE u == s \o t
<1>1. /\ u \in Seq(S) /\ Len(u) = Len(s) + Len(t)
      /\ \A i \in DOMAIN u : i \in 1..Len(s) \/ i - Len(s) \in 1..Len(t)
      /\ \A i \in 1..Len(s) : i \in DOMAIN u /\ u[i] = s[i]
      /\ \A i \in 1..Len(t) : Len(s) + i \in DOMAIN u /\ u[Len(s) + i] = t[i]
  OBVIOUS
<1>d. DOMAIN s = 1..Len(s) /\ DOMAIN t = 1..Len(t) /\ Len(s) \in Nat /\ Len(t) \in Nat
  BY LenProperties
<1> HIDE DEF u
<1>2. AnswersIn(u) \subseteq AnswersIn(s) \cup AnswersIn(t)
  <2> SUFFICES ASSUME NEW i \in DOMAIN u, u[i] # NewLine
               PROVE  u[i] \in AnswersIn(s) \cup AnswersIn(t)
    BY DEF AnswersIn
  <2>1. CASE i \in 1..Len(s)
    BY <1>1, <2>1 DEF AnswersIn
  <2>2. CASE i - Len(s) \in 1..Len(t)
    <3>1. u[i] = t[i - Len(s)]
      BY <1>1, <2>2
    <3> QED BY <3>1, <2>2 DEF AnswersIn
  <2> QED BY <1>1, <2>1, <2>2
<1>3. AnswersIn(s) \subseteq AnswersIn(u) /\ AnswersIn(t) \subseteq AnswersIn(u)
  <2>1. \A i \in 1..Len(s) : s[i] # NewLine => s[i] \in AnswersIn(u)
    BY <1>1, Zenon DEF AnswersIn
  <2>2. \A i \in 1..Len(t) : t[i] # NewLine => t[i] \in AnswersIn(u)
    BY <1>1, Zenon DEF AnswersIn
  <2> QED BY <1>d, <2>1, <2>2, Zenon DEF AnswersIn
<1>4. ASSUME NoRepeats(s), NoRepeats(t), AnswersIn(s) \cap AnswersIn(t) = {}
      PROVE  NoRepeats(u)
  <2> SUFFICES ASSUME NEW i \in DOMAIN u, NEW j \in DOMAIN u, u[i] = u[j], u[i] # NewLine
               PROVE  i = j
    BY DEF NoRepeats
  <2>1. \A k \in DOMAIN u : \/ k \in 1..Len(s) /\ u[k] = s[k]
                            \/ k - Len(s) \in 1..Len(t) /\ u[k] = t[k - Len(s)]
    BY <1>1
  <2>2. CASE i \in 1..Len(s) /\ j \in 1..Len(s)
    BY <1>1, <1>4, <2>2 DEF NoRepeats
  <2>3. CASE i - Len(s) \in 1..Len(t) /\ j - Len(s) \in 1..Len(t)
    <3>1. u[i] = t[i - Len(s)] /\ u[j] = t[j - Len(s)]
      BY <1>1, <2>3
    <3>2. i - Len(s) = j - Len(s)
      BY <1>4, <1>d, <2>3, <3>1 DEF NoRepeats
    <3> QED BY <1>1, <1>d, <3>2
  <2>4. ~(i \in 1..Len(s) /\ j - Len(s) \in 1..Len(t)) /\ ~(j \in 1..Len(s) /\ i - Len(s) \in 1..Len(t))
    <3>1. \A k \in 1..Len(s) : u[k] # NewLine => u[k] \in AnswersIn(s)
      BY <1>1, <1>d, Zenon DEF AnswersIn
    <3>2. \A k \in 1..Len(t) : u[Len(s) + k] # NewLine => u[Len(s) + k] \in AnswersIn(t)
      BY <1>1, <1>d, Zenon DEF AnswersIn
    <3>3. \A k \in DOMAIN u : k - Len(s) \in 1..Len(t) /\ u[k] # NewLine => u[k] \in AnswersIn(t)
      BY <1>1, <3>2
    <3> QED BY <1>4, <3>1, <3>3
  <2> QED BY <1>1, <2>2, <2>3, <2>4
<1> QED BY <1>1, <1>2, <1>3, <1>4 DEF u

\* A sequence of one element, and none.
LEMMA OneOrNone ==
  ASSUME NEW S, NEW x \in S
  PROVE  /\ <<>> \in Seq(S) /\ AnswersIn(<<>>) = {} /\ NoRepeats(<<>>)
         /\ <<x>> \in Seq(S) /\ AnswersIn(<<x>>) = {x} \ {NewLine} /\ NoRepeats(<<x>>)
BY DEF AnswersIn, NoRepeats

\* A sequence of which an element is added at its end.
LEMMA Appended ==
  ASSUME NEW S, NEW s \in Seq(S), NEW x \in S
  PROVE  /\ Append(s, x) \in Seq(S)
         /\ AnswersIn(Append(s, x)) = AnswersIn(s) \cup ({x} \ {NewLine})
         /\ NoRepeats(s) /\ x \notin AnswersIn(s) => NoRepeats(Append(s, x))
<1>1. PICK t : t = <<x>>
  OBVIOUS
<1>2. t \in Seq(S) /\ AnswersIn(t) = {x} \ {NewLine} /\ NoRepeats(t)
  BY <1>1, OneOrNone
<1>3. Append(s, x) = s \o t
  BY <1>1, AppendIsConcat
<1>4. /\ s \o t \in Seq(S)
      /\ AnswersIn(s \o t) = AnswersIn(s) \cup AnswersIn(t)
      /\ NoRepeats(s) /\ x \notin AnswersIn(s) => NoRepeats(s \o t)
  BY <1>2, Joined
<1> QED BY <1>1, <1>2, <1>3, <1>4

\* No call is a newline, and none is the answer of a call without one.
LEMMA CallsAreCalls ==
  ASSUME NEW c \in Calls
  PROVE  c # NewLine /\ c # None /\ c = <<c[1], c[2]>> /\ c[1] \in Users /\ c[2] \in 1..Longest
<1>1. PICK u \in Users, i \in 1..Longest : c = <<u, i>>
  BY DEF Calls
<1>2. <<u, i>> # <<>>
  BY Zenon
<1> QED BY <1>1, <1>2, NoneAssumption DEF NewLine

-----------------------------------------------------------------------------
(* Scripts, users and the finitely many calls. *)

Located == {"room", "add", "store", "id", "write", "register", "wait"}

\* Everybody but u is where it was.
OthersStay(u) ==
  \A w \in Users \ {u} : pc'[w] = pc[w] /\ step'[w] = step[w] /\ at'[w] = at[w]

\* A user moves on to its next call or stays at this one, past the scan.
Forward(u) ==
  \/ step'[u] > step[u]
  \/ step'[u] = step[u] /\ (pc'[u] \in {"begin", "scan"} => pc[u] \in {"begin", "scan"})

\* A script is a sequence of at most Longest calls.
LEMMA ScriptIs ==
  ASSUME world \in Worlds, NEW u \in Users
  PROVE  Len(Script[u]) \in Nat /\ Len(Script[u]) <= Longest /\ Longest \in Nat
<1>1. world \in WorldType /\ Len(world.script[u]) <= Longest
  BY WorldsAssumption
<1>2. Script[u] \in Seq([to : Remotes, cmd : Commands])
  BY <1>1 DEF WorldType, Script
<1> QED BY <1>1, <1>2, BoundsAssumption, LenProperties DEF Script

\* The call a user is at is one of the calls.
LEMMA CallIs ==
  ASSUME IInv, NEW u \in Users, pc[u] # "done"
  PROVE  /\ Call(u) \in Calls /\ Call(u) = <<u, step[u]>>
         /\ step[u] \in 1..Longest
<1>1. step[u] \in Nat \ {0} /\ step[u] <= Len(Script[u])
  BY DEF IInv, TypeOK, UserOK
<1> QED BY <1>1, ScriptIs DEF IInv, Call, Calls

\* A number in use leads to a connection.
LEMMA LinkIs ==
  ASSUME TypeOK, NEW l \in Numbers
  PROVE  links[l] \in LinkType
BY ElementOfSeq DEF TypeOK, Numbers

\* Every call is sent under one of the two commands.
LEMMA KeyIs == \A c : Key(c) \in Keys
BY DEF Key, Keys

\* There are finitely many calls.
LEMMA PastFinite ==
  IsFiniteSet(Calls) /\ IsFiniteSet(Past) /\ Cardinality(Past) \in Nat
<1>1. IsFiniteSet(1..Longest)
  BY FS_Interval, BoundsAssumption
<1>2. IsFiniteSet(Calls)
  BY <1>1, FS_Product, BoundsAssumption DEF Calls
<1> QED BY <1>2, FS_Subset, FS_CardinalityType DEF Past

\* As long as no connection is opened.
LEMMA CountKept ==
  ASSUME IInv, NEW u \in Users, OthersStay(u), Forward(u), TypeOK', Len(links') = Len(links)
  PROVE  Len(links') <= Cardinality(Past')
<1>1. Past \in SUBSET Past'
  <2> SUFFICES ASSUME NEW c \in Past PROVE c \in Past'
    OBVIOUS
  <2>1. /\ c \in Calls /\ c[1] \in Users /\ c[2] \in Nat
        /\ c[2] < step[c[1]] \/ (c[2] = step[c[1]] /\ pc[c[1]] \notin {"begin", "scan"})
    BY CallsAreCalls, BoundsAssumption DEF Past
  <2>2. step[c[1]] \in Nat /\ step'[c[1]] \in Nat
    BY <2>1 DEF IInv, TypeOK
  <2>3. c[2] < step'[c[1]] \/ (c[2] = step'[c[1]] /\ pc'[c[1]] \notin {"begin", "scan"})
    BY <2>1, <2>2 DEF OthersStay, Forward
  <2> QED BY <2>1, <2>3 DEF Past
<1>2. IsFiniteSet(Past') /\ Cardinality(Past') \in Nat /\ Cardinality(Past) \in Nat
  <2>1. Past' \subseteq Calls
    BY DEF Past
  <2> QED BY <2>1, PastFinite, FS_Subset, FS_CardinalityType
<1>3. Cardinality(Past) <= Cardinality(Past')
  BY <1>1, <1>2, FS_Subset
<1>4. Len(links) \in Nat
  BY LenProperties DEF IInv, TypeOK
<1> QED BY <1>2, <1>3, <1>4 DEF IInv

\* A step of u leaves the other users as they are.
LEMMA UsersKept ==
  ASSUME IInv, NEW u \in Users, OthersStay(u), UserOK(u)', UNCHANGED world,
         \A c \in Calls : c[1] # u => via'[c] = via[c] /\ got'[c] = got[c]
  PROVE  \A w \in Users : UserOK(w)'
<1> SUFFICES ASSUME NEW w \in Users \ {u} PROVE UserOK(w)'
  OBVIOUS
<1>1. pc'[w] = pc[w] /\ step'[w] = step[w] /\ at'[w] = at[w] /\ UserOK(w)
  BY DEF IInv, OthersStay
<1>2. \A i \in 1..Longest : via'[<<w, i>>] = via[<<w, i>>] /\ got'[<<w, i>>] = got[<<w, i>>]
  BY DEF Calls
<1>3. pc[w] # "done" => Call(w)' = Call(w) /\ via'[Call(w)] = via[Call(w)] /\ got'[Call(w)] = got[Call(w)]
  BY <1>1, <1>2, CallIs DEF Call
<1> QED BY <1>1, <1>2, <1>3 DEF UserOK, Script

\* No connection gets a message or a future; messages and futures can get lost.
Less(l) ==
  LET k == links'[l]
  IN /\ k.out = links[l].out \/ k.out = <<>>
     /\ k.inb = links[l].inb \/ k.inb = <<>>
     /\ k.futures = links[l].futures

Empty(k) == k.out = <<>> /\ k.inb = <<>> /\ k.futures = [j \in Keys |-> None]

\* Messages and futures that only get lost stay where they belong.
LEMMA LinksKept ==
  ASSUME IInv, UNCHANGED <<world, via, got>>,
         \A c \in Calls : Registering(c)' => Registering(c),
         \A l \in Numbers' : (l \in Numbers /\ Less(l)) \/ Empty(links'[l])
  PROVE  \A l \in Numbers' : LinkOK(l)'
<1> SUFFICES ASSUME NEW l \in Numbers' PROVE LinkOK(l)'
  OBVIOUS
<1>1. \A c : Key(c)' = Key(c)
  BY DEF Key, Cmd, Script
<1>2. AnswersIn(<<>>) = {} /\ NoRepeats(<<>>)
  BY OneOrNone
<1>3. CASE l \in Numbers /\ Less(l)
  <2>1. LinkOK(l)
    BY <1>3 DEF IInv
  <2>2. /\ NoRepeats(links'[l].out) /\ NoRepeats(links'[l].inb)
        /\ AnswersIn(links'[l].out) \subseteq AnswersIn(links[l].out)
        /\ AnswersIn(links'[l].inb) \subseteq AnswersIn(links[l].inb)
    BY <1>2, <1>3, <2>1 DEF LinkOK, Less
  <2>3. links'[l].futures = links[l].futures /\ \A k \in Keys : links[l].futures[k] \in Calls \cup {None}
    <3>1. links[l] \in LinkType
      BY <1>3, LinkIs DEF IInv
    <3> QED BY <1>3, <3>1 DEF Less, LinkType
  <2> QED BY <1>1, <2>1, <2>2, <2>3 DEF LinkOK
<1>4. CASE Empty(links'[l])
  BY <1>2, <1>4 DEF Empty, LinkOK
<1> QED BY <1>3, <1>4

\* A step of u that touches neither the connections nor the calls.
Quiet(u) ==
  OthersStay(u) /\ Forward(u) /\ pc'[u] # "register" /\ UNCHANGED <<world, links, via, got>>

\* Nobody begins to register in a step that does not lead there.
LEMMA NotRegistering ==
  ASSUME IInv, NEW u \in Users, OthersStay(u), pc'[u] # "register"
  PROVE  \A c \in Calls : Registering(c)' => Registering(c)
BY CallsAreCalls DEF OthersStay, Registering, Call

\* A quiet step keeps the invariant.
LEMMA QuietKeeps ==
  ASSUME IInv, NEW u \in Users, Quiet(u), TypeOK', UserOK(u)'
  PROVE  IInv'
<1>1. \A w \in Users : UserOK(w)'
  BY UsersKept DEF Quiet
<1>2. \A l \in Numbers' : LinkOK(l)'
  BY NotRegistering, LinksKept DEF Quiet, Less, Numbers
<1>3. Len(links') <= Cardinality(Past')
  BY CountKept DEF Quiet
<1> QED BY <1>1, <1>2, <1>3 DEF IInv, Quiet

-----------------------------------------------------------------------------
(* The steps of a user that are quiet. *)

\* A connection is made of its fields.
LEMMA LinkFields ==
  ASSUME NEW k \in LinkType
  PROVE  /\ k = [to |-> k.to, id |-> k.id, state |-> k.state, started |-> k.started,
                 out |-> k.out, inb |-> k.inb, futures |-> k.futures]
         /\ k.to \in Remotes /\ k.id \in Int /\ k.state \in {"open", "eof", "closed"}
         /\ k.started \in BOOLEAN /\ k.out \in Seq(Calls) /\ k.inb \in Seq(Calls \cup {NewLine})
         /\ k.futures \in [Keys -> Calls \cup {None}]
BY DEF LinkType

\* An entry of the table is a connection or a null.
LEMMA TableIs ==
  ASSUME TypeOK, NEW i \in DOMAIN table
  PROVE  table[i] \in Numbers \cup {NoLink}
BY ElementOfSeq DEF TypeOK

\* What the first of some positions is.
LEMMA Least ==
  ASSUME NEW I \in SUBSET Nat, I # {}
  PROVE  (CHOOSE i \in I : \A j \in I : i <= j) \in I
<1>1. PICK i \in I : \A j \in I : ~(<<j, i>> \in OpToRel(<, Nat))
  BY NatLessThanWellFounded, WFMin
<1>2. \A j \in I : ~(j < i)
  BY <1>1, Zenon DEF OpToRel
<1>3. \A j \in I : i <= j
  BY <1>2
<1> QED BY <1>3

\* The next call.
LEMMA SkipKeeps ==
  ASSUME IInv, NEW u \in Users, pc[u] # "done", Proceed(u),
         UNCHANGED <<world, links, table, callVars>>, disturbed' = disturbed
  PROVE  IInv'
<1> DEFINE p == IF step[u] = Len(Script[u]) THEN "done" ELSE "begin"
<1>1. /\ TypeOK /\ UserOK(u) /\ step[u] \in Nat \ {0} /\ step[u] <= Len(Script[u])
      /\ Len(Script[u]) \in Nat
  BY ScriptIs DEF IInv, TypeOK, UserOK
<1>2. /\ pc' = [pc EXCEPT ![u] = p] /\ p \in {"done", "begin"}
      /\ step' = [step EXCEPT ![u] = step[u] + 1]
      /\ at' = [at EXCEPT ![u] = NoLink] /\ ref' = [ref EXCEPT ![u] = 0]
      /\ seen' = [seen EXCEPT ![u] = 0] /\ dirty' = [dirty EXCEPT ![u] = "no"]
  BY DEF Proceed
<1>3. TypeOK'
  BY <1>1, <1>2 DEF TypeOK, Numbers, Made, callVars
<1>4. pc'[u] = p /\ step'[u] = step[u] + 1 /\ at'[u] = NoLink
  BY <1>1, <1>2 DEF TypeOK
<1>5. UserOK(u)'
  <2>1. \A i \in 1..Longest : via[<<u, i>>] # NoLink => i < step[u] + 1
    BY <1>1, BoundsAssumption DEF UserOK
  <2> QED BY <1>1, <1>4, <2>1 DEF UserOK, Script, callVars
<1>6. Quiet(u)
  BY <1>1, <1>2, <1>4 DEF Quiet, OthersStay, Forward, TypeOK, callVars
<1> QED BY <1>3, <1>5, <1>6, QuietKeeps

\* A step within a call that only changes where u is and its variables.
LEMMA MoveKeeps ==
  ASSUME IInv, NEW u \in Users, NEW from, NEW to, Goes(u, from, to),
         to \in {"scan", "room", "add", "store", "id", "get", "write"},
         to = "scan" => from = "begin",
         from \notin {"done", "register", "wait"},
         TypeOK', UNCHANGED <<world, links, via, got, step>>,
         \A w \in Users \ {u} : at'[w] = at[w],
         to \in Located => at'[u] # NoLink
  PROVE  IInv'
<1>1. /\ pc[u] = from /\ pc' = [pc EXCEPT ![u] = to] /\ pc'[u] = to
      /\ step[u] \in Nat /\ UserOK(u)
  BY DEF Goes, IInv, TypeOK
<1>2. UserOK(u)'
  <2>1. \A i \in 1..Longest : via[<<u, i>>] # NoLink => i < step[u]
    BY <1>1 DEF UserOK
  <2> QED BY <1>1, <2>1 DEF UserOK, Script, Located
<1>3. Quiet(u)
  BY <1>1 DEF Quiet, OthersStay, Forward, IInv, TypeOK
<1> QED BY <1>2, <1>3, QuietKeeps

\* The steps of a user that open, write and register nothing.
LEMMA QuietSteps ==
  ASSUME IInv, NEW u \in Users,
         \/ Begin(u) \/ ScanFinds(u) \/ ScanFails(u) \/ Refused(u) \/ CheckRoom(u) \/ Add(u)
         \/ Store(u) \/ Get(u) \/ GetFails(u) \/ WriteFails(u) \/ Return(u)
  PROVE  IInv'
<1> TypeOK /\ UserOK(u)
  BY DEF IInv
<1>0. CASE Begin(u)
  <2>1. /\ Goes(u, "begin", "scan")
        /\ UNCHANGED <<world, links, tableVars, step, at, ref, callVars, disturbed>>
    BY <1>0 DEF Begin
  <2>2. TypeOK'
    BY <2>1 DEF TypeOK, Numbers, Made, Goes, callVars, tableVars
  <2> QED BY <2>1, <2>2, MoveKeeps DEF callVars, Located
<1>1. CASE ScanFinds(u)
  <2> DEFINE l == table[FirstStop(u)]
  <2>1. l \in Numbers /\ links[l].id \in Int
    <3>1. Stops(u) # {} /\ l # NoLink /\ Stops(u) \subseteq DOMAIN table
      BY <1>1 DEF ScanFinds, Stops
    <3>2. FirstStop(u) \in DOMAIN table
      <4>1. Stops(u) \in SUBSET Nat
        BY <3>1, LenProperties DEF TypeOK
      <4> QED BY <3>1, <4>1, Least DEF FirstStop
    <3>3. l \in Numbers
      BY <3>1, <3>2, TableIs
    <3>4. links[l] \in LinkType
      BY <3>3, LinkIs
    <3> QED BY <3>3, <3>4 DEF LinkType
  <2>2. /\ Goes(u, "scan", "get") /\ ref' = [ref EXCEPT ![u] = links[l].id]
        /\ disturbed' = disturbed \/ disturbed' = disturbed \cup {"together"}
        /\ UNCHANGED <<world, links, tableVars, step, at, callVars>>
    BY <1>1 DEF ScanFinds
  <2> HIDE DEF l
  <2>3. TypeOK'
    BY <2>1, <2>2 DEF TypeOK, Numbers, Made, Goes, callVars, tableVars
  <2> QED BY <2>2, <2>3, MoveKeeps DEF callVars, Located
<1>2. CASE ScanFails(u) \/ Refused(u) \/ GetFails(u) \/ WriteFails(u) \/ Return(u)
  <2>1. pc[u] # "done" /\ Proceed(u) /\ UNCHANGED <<world, links, table, callVars, disturbed>>
    BY <1>2 DEF ScanFails, Refused, ScanMisses, GetFails, WriteFails, Return, Skip
  <2> QED BY <2>1, SkipKeeps
<1>3. CASE CheckRoom(u)
  <2>1. /\ Goes(u, "room", "id") \/ Goes(u, "room", "add")
        /\ disturbed' = disturbed \/ disturbed' = disturbed \cup {"full"}
        /\ UNCHANGED <<world, links, tableVars, step, at, ref, callVars>>
    BY <1>3 DEF CheckRoom
  <2>2. TypeOK'
    BY <2>1 DEF TypeOK, Numbers, Made, Goes, callVars, tableVars
  <2>3. at[u] # NoLink
    BY <2>1 DEF UserOK, Goes
  <2> QED BY <2>1, <2>2, <2>3, MoveKeeps DEF callVars, Located
<1>4. CASE Add(u)
  <2>1. /\ Goes(u, "add", "store") /\ seen' = [seen EXCEPT ![u] = Len(table)]
        /\ dirty' = [w \in Users |-> IF pc[w] = "scan" THEN "grew" ELSE dirty[w]]
        /\ UNCHANGED <<world, links, table, step, at, ref, callVars, disturbed>>
    BY <1>4 DEF Add, Noticed
  <2>2. TypeOK'
    BY <2>1, LenProperties DEF TypeOK, Numbers, Made, Goes, callVars
  <2>3. at[u] # NoLink
    BY <2>1 DEF UserOK, Goes
  <2> QED BY <2>1, <2>2, <2>3, MoveKeeps DEF callVars, Located
<1>5. CASE Store(u)
  <2> DEFINE t == [i \in 1..(seen[u] + 1) |->
                     IF i = seen[u] + 1 THEN at[u]
                     ELSE IF i \in DOMAIN table THEN table[i] ELSE NoLink]
  <2>1. /\ Goes(u, "store", "id") /\ table' = t
        /\ seen' = [seen EXCEPT ![u] = 0]
        /\ UNCHANGED <<world, links, dirty, step, at, ref, callVars, disturbed>>
    BY <1>5 DEF Store
  <2>2. t \in Seq(Numbers \cup {NoLink})
    <3>1. seen[u] + 1 \in Nat /\ at[u] \in Numbers \cup {NoLink}
      BY DEF TypeOK
    <3>2. \A i \in 1..(seen[u] + 1) : t[i] \in Numbers \cup {NoLink}
      BY <3>1, TableIs
    <3>3. t = [i \in 1..(seen[u] + 1) |-> t[i]]
      OBVIOUS
    <3> HIDE DEF t
    <3> DEFINE k == seen[u] + 1
    <3>4. k \in Nat /\ t = [i \in 1..k |-> t[i]] /\ \A i \in 1..k : t[i] \in Numbers \cup {NoLink}
      BY <3>1, <3>2, <3>3
    <3> HIDE DEF k
    <3> QED BY <3>4, IsASeq
  <2> HIDE DEF t
  <2>3. TypeOK'
    BY <2>1, <2>2 DEF TypeOK, Numbers, Made, Goes, callVars
  <2>4. at[u] # NoLink
    BY <2>1 DEF UserOK, Goes
  <2> QED BY <2>1, <2>3, <2>4, MoveKeeps DEF callVars, Located
<1>6. CASE Get(u)
  <2> DEFINE l == table[ref[u] + 1]
  <2>1. /\ Goes(u, "get", "write") /\ Present(u)
        /\ at' = [at EXCEPT ![u] = l] /\ ref' = [ref EXCEPT ![u] = 0]
        /\ UNCHANGED <<world, links, tableVars, step, callVars, disturbed>>
    BY <1>6 DEF Get
  <2>2. l \in Numbers /\ l # NoLink
    BY <2>1, TableIs DEF Present
  <2> HIDE DEF l
  <2>3. TypeOK'
    BY <2>1, <2>2 DEF TypeOK, Numbers, Made, Goes, callVars, tableVars
  <2>4. at'[u] = l /\ \A w \in Users \ {u} : at'[w] = at[w]
    BY <2>1 DEF TypeOK
  <2> QED BY <2>1, <2>2, <2>3, <2>4, MoveKeeps DEF callVars, Located
<1> QED BY <1>0, <1>1, <1>2, <1>3, <1>4, <1>5, <1>6

-----------------------------------------------------------------------------
(* The steps that touch a connection. *)

\* One connection of all is replaced.
LEMMA OneLink ==
  ASSUME NEW ls \in Seq(LinkType), NEW l \in DOMAIN ls, NEW r \in LinkType
  PROVE  LET t == [ls EXCEPT ![l] = r]
         IN /\ t \in Seq(LinkType) /\ Len(t) = Len(ls) /\ DOMAIN t = DOMAIN ls
            /\ t[l] = r /\ \A k \in DOMAIN ls \ {l} : t[k] = ls[k]
BY ExceptSeq

\* The answers to come on a connection, and on all of them.
Talk(k) == AnswersIn(k.out) \cup AnswersIn(k.inb)
OwedOn(ls) == UNION {Talk(ls[l]) : l \in DOMAIN ls}

\* The answers to come are those on all connections.
LEMMA OwedOnAll == Owed = OwedOn(links) /\ Owed' = OwedOn(links')
BY DEF Owed, OwedOn, Talk

\* Where one connection changes, so do the answers to come.
LEMMA OwedOnOne ==
  ASSUME NEW ls, NEW t, DOMAIN t = DOMAIN ls, NEW l \in DOMAIN ls,
         \A k \in DOMAIN ls \ {l} : t[k] = ls[k]
  PROVE  /\ OwedOn(t) \subseteq OwedOn(ls) \cup Talk(t[l])
         /\ OwedOn(ls) \subseteq OwedOn(t) \cup Talk(ls[l])
         /\ Talk(ls[l]) \subseteq OwedOn(ls) /\ Talk(t[l]) \subseteq OwedOn(t)
BY DEF OwedOn

\* What is on its way on a connection was written to it.
LEMMA TalkIs ==
  ASSUME IInv, NEW l \in Numbers
  PROVE  /\ links[l] \in LinkType /\ l # NoLink
         /\ links[l].out \in Seq(Calls) /\ links[l].inb \in Seq(Calls \cup {NewLine})
         /\ AnswersIn(links[l].out) \subseteq Made /\ AnswersIn(links[l].inb) \subseteq Made
         /\ \A c \in AnswersIn(links[l].out) \cup AnswersIn(links[l].inb) : via[c] = l
         /\ NoRepeats(links[l].out) /\ NoRepeats(links[l].inb)
         /\ AnswersIn(links[l].out) \cap AnswersIn(links[l].inb) = {}
<1>1. links[l] \in LinkType /\ LinkOK(l) /\ links \in Seq(LinkType)
  BY LinkIs DEF IInv, TypeOK
<1>2. l # NoLink
  BY <1>1, LenProperties DEF Numbers, NoLink
<1>3. links[l].out \in Seq(Calls) /\ links[l].inb \in Seq(Calls \cup {NewLine})
  BY <1>1 DEF LinkType
<1>4. AnswersIn(links[l].out) \subseteq Calls /\ AnswersIn(links[l].inb) \subseteq Calls
  BY <1>3, LenProperties DEF AnswersIn
<1>5. /\ \A c \in AnswersIn(links[l].out) \cup AnswersIn(links[l].inb) : via[c] = l
      /\ NoRepeats(links[l].out) /\ NoRepeats(links[l].inb)
      /\ AnswersIn(links[l].out) \cap AnswersIn(links[l].inb) = {}
  BY <1>1 DEF LinkOK
<1> QED BY <1>1, <1>2, <1>3, <1>4, <1>5 DEF Made

\* A connection a step does not touch.
LEMMA LinkSame ==
  ASSUME IInv, NEW l \in Numbers, UNCHANGED world,
         links'[l].out = links[l].out, links'[l].inb = links[l].inb,
         links'[l].futures = links[l].futures,
         \A c \in Calls : via[c] = l =>
           via'[c] = l /\ got'[c] = got[c] /\ (Registering(c)' => Registering(c))
  PROVE  LinkOK(l)'
<1>1. \A c : Key(c)' = Key(c)
  BY DEF Key, Cmd, Script
<1>2. /\ LinkOK(l) /\ AnswersIn(links[l].out) \cup AnswersIn(links[l].inb) \subseteq Calls
      /\ \A k \in Keys : links[l].futures[k] \in Calls \cup {None}
  BY TalkIs DEF IInv, Made, LinkType
<1> QED BY <1>1, <1>2 DEF LinkOK

\* A step of the network.
LEMMA NetKeeps ==
  ASSUME IInv, UNCHANGED <<world, pc, step, at, via>>, TypeOK', Len(links') = Len(links),
         \A c \in Calls : via[c] = NoLink \/ Registering(c) => got'[c] = got[c],
         \A l \in Numbers' : LinkOK(l)'
  PROVE  IInv'
<1>1. \A u \in Users : UserOK(u)'
  <2> SUFFICES ASSUME NEW u \in Users PROVE UserOK(u)'
    OBVIOUS
  <2>1. UserOK(u) /\ Call(u)' = Call(u) /\ Script' = Script
    BY DEF IInv, Call, Script
  <2>2. pc[u] = "register" => got'[Call(u)] = got[Call(u)]
    BY CallIs DEF Registering
  <2>3. \A i \in 1..Longest : via[<<u, i>>] = NoLink => got'[<<u, i>>] = got[<<u, i>>]
    BY DEF Calls
  <2> QED BY <2>1, <2>2, <2>3 DEF UserOK
<1>2. Past' = Past
  BY DEF Past
<1> QED BY <1>1, <1>2 DEF IInv

\* A connection is opened: it is empty, and its user counted in Past.
LEMMA DialKeeps ==
  ASSUME IInv, NEW u \in Users, Dial(u)
  PROVE  IInv' /\ Owed' = Owed
<1> DEFINE r == NewLinkTo(Target(Call(u)))
<1>1. /\ pc[u] = "scan" /\ pc' = [pc EXCEPT ![u] = "room"]
      /\ links' = Append(links, r)
      /\ at' = [at EXCEPT ![u] = Len(links')]
      /\ disturbed' = disturbed \/ disturbed' = disturbed \cup {"together"}
      /\ UNCHANGED <<world, tableVars, step, ref, callVars>>
  BY DEF Dial, Goes
<1>2. r \in LinkType /\ Empty(r)
  <2>1. Target(Call(u)) \in Remotes
    <3>1. world \in WorldType /\ Script[u] \in Seq([to : Remotes, cmd : Commands])
      BY WorldsAssumption DEF IInv, WorldType, Script
    <3>2. Call(u) = <<u, step[u]>> /\ step[u] \in 1..Len(Script[u])
      BY <1>1, <3>1, CallIs, LenProperties DEF IInv, UserOK
    <3>3. Script[u][step[u]] \in [to : Remotes, cmd : Commands]
      BY <3>1, <3>2, ElementOfSeq
    <3> QED BY <3>2, <3>3 DEF Target
  <2> QED BY <2>1 DEF NewLinkTo, LinkType, Empty
<1> HIDE DEF r
<1>3. /\ links' \in Seq(LinkType) /\ Len(links') = Len(links) + 1 /\ Len(links) \in Nat
      /\ Numbers = 1..Len(links) /\ Numbers' = 1..Len(links')
      /\ links'[Len(links')] = r /\ \A l \in Numbers : links'[l] = links[l]
  BY <1>1, <1>2, AppendProperties, LenProperties DEF IInv, TypeOK, Numbers
<1>4. TypeOK'
  <2>1. Numbers \subseteq Numbers' /\ Len(links') \in Numbers' /\ TypeOK
    BY <1>3 DEF IInv
  <2>2. table' \in Seq(Numbers' \cup {NoLink})
    BY <1>1, <2>1, SeqMonotonic DEF TypeOK, tableVars
  <2> HIDE DEF Numbers
  <2> QED BY <1>1, <1>3, <2>1, <2>2 DEF TypeOK, tableVars, callVars, Made
<1>5. /\ OthersStay(u) /\ pc'[u] = "room" /\ step'[u] = step[u]
      /\ at'[u] = Len(links') /\ UserOK(u) /\ step[u] \in Nat
  BY <1>1 DEF OthersStay, IInv, TypeOK
<1>6. \A w \in Users : UserOK(w)'
  <2>1. UserOK(u)'
    BY <1>1, <1>3, <1>5 DEF UserOK, Script, NoLink, callVars
  <2> QED BY <1>1, <1>5, <2>1, UsersKept DEF callVars
<1>7. \A l \in Numbers' : LinkOK(l)'
  <2>1. \A l \in Numbers' : (l \in Numbers /\ Less(l)) \/ Empty(links'[l])
    BY <1>2, <1>3 DEF Less
  <2> QED BY <1>1, <1>5, <2>1, NotRegistering, LinksKept DEF callVars
<1>8. Len(links') <= Cardinality(Past')
  <2>1. Call(u) \in Calls /\ Call(u) = <<u, step[u]>>
    BY <1>1, CallIs
  <2>2. Call(u) \notin Past /\ Call(u) \in Past'
    BY <1>1, <1>5, <2>1 DEF Past
  <2>3. Past \in SUBSET (Past' \ {Call(u)}) /\ Past' \in SUBSET Calls
    <3>1. \A c \in Past : c \in Calls /\ c[1] \in Users
      BY CallsAreCalls DEF Past
    <3>2. \A c \in Past : c \in Past'
      BY <1>1, <1>5, <3>1 DEF Past, OthersStay
    <3> QED BY <2>2, <3>2 DEF Past
  <2>4. IsFiniteSet(Past') /\ Cardinality(Past') \in Nat
    BY <2>3, PastFinite, FS_Subset, FS_CardinalityType
  <2>5. /\ IsFiniteSet(Past' \ {Call(u)})
        /\ Cardinality(Past' \ {Call(u)}) = Cardinality(Past') - 1
    BY <2>2, <2>4, FS_RemoveElement
  <2>6. Cardinality(Past) <= Cardinality(Past' \ {Call(u)}) /\ Cardinality(Past) \in Nat
    BY <2>3, <2>5, FS_Subset, PastFinite
  <2> QED BY <1>3, <2>4, <2>5, <2>6 DEF IInv
<1>owed. Owed' = Owed
  <2>1. Talk(r) = {}
    BY <1>2, OneOrNone DEF Empty, Talk
  <2>2. OwedOn(links') = OwedOn(links)
    BY <1>3, <2>1 DEF OwedOn, Numbers
  <2> QED BY <2>2, OwedOnAll
<1> QED BY <1>owed, <1>1, <1>4, <1>6, <1>7, <1>8 DEF IInv

\* A connection gets its id and is started: nothing on it changes.
LEMMA TakeIdKeeps ==
  ASSUME IInv, NEW u \in Users, TakeId(u)
  PROVE  IInv' /\ Owed' = Owed
<1>l. PICK l : l = at[u]
  OBVIOUS
<1>r. PICK r : r = [links[l] EXCEPT !.id = Len(table) - 1, !.started = TRUE]
  OBVIOUS
<1>1. /\ pc[u] = "id" /\ pc' = [pc EXCEPT ![u] = "get"]
      /\ links' = [links EXCEPT ![l].id = Len(table) - 1, ![l].started = TRUE]
      /\ ref' = [ref EXCEPT ![u] = Len(table) - 1]
      /\ UNCHANGED <<world, tableVars, step, at, callVars, disturbed>>
  BY <1>l DEF TakeId, Goes
<1>2. l \in Numbers /\ links[l] \in LinkType /\ Len(table) \in Nat
  BY <1>l, <1>1, LinkIs, LenProperties DEF IInv, TypeOK, UserOK
<1>3. /\ r \in LinkType /\ r.out = links[l].out /\ r.inb = links[l].inb
      /\ r.futures = links[l].futures
  <2> DEFINE k == links[l]
  <2>1. r = [to |-> k.to, id |-> Len(table) - 1, state |-> k.state, started |-> TRUE,
             out |-> k.out, inb |-> k.inb, futures |-> k.futures]
    BY <1>2, <1>r DEF LinkType
  <2>2. /\ k.to \in Remotes /\ k.state \in {"open", "eof", "closed"} /\ k.out \in Seq(Calls)
        /\ k.inb \in Seq(Calls \cup {NewLine}) /\ k.futures \in [Keys -> Calls \cup {None}]
    BY <1>2 DEF LinkType
  <2>3. Len(table) - 1 \in Int
    BY <1>2
  <2> HIDE DEF k
  <2>4. r \in LinkType /\ r.out = k.out /\ r.inb = k.inb /\ r.futures = k.futures
    BY <2>1, <2>2, <2>3 DEF LinkType
  <2> QED BY <2>4 DEF k
<1>4. links' = [links EXCEPT ![l] = r]
  BY <1>1, <1>2, <1>r DEF Numbers
<1>5. /\ links' \in Seq(LinkType) /\ Len(links') = Len(links) /\ Numbers' = Numbers
      /\ links'[l] = r /\ \A k \in Numbers \ {l} : links'[k] = links[k]
  BY <1>2, <1>3, <1>4, OneLink DEF IInv, TypeOK, Numbers
<1>6. TypeOK'
  BY <1>1, <1>2, <1>5 DEF IInv, TypeOK, tableVars, callVars, Made
<1>7. /\ OthersStay(u) /\ pc'[u] = "get" /\ UserOK(u) /\ Forward(u)
  BY <1>1 DEF OthersStay, Forward, IInv, TypeOK
<1>8. \A w \in Users : UserOK(w)'
  <2>1. UserOK(u)'
    BY <1>1, <1>7 DEF UserOK, Script, callVars
  <2> QED BY <1>1, <1>7, <2>1, UsersKept DEF callVars
<1>9. \A k \in Numbers' : LinkOK(k)'
  <2>1. \A k \in Numbers' : k \in Numbers /\ Less(k)
    BY <1>3, <1>5 DEF Less
  <2> QED BY <1>1, <1>7, <2>1, NotRegistering, LinksKept DEF callVars
<1>10. Len(links') <= Cardinality(Past')
  BY <1>5, <1>6, <1>7, CountKept
<1>owed. Owed' = Owed
  <2>1. Talk(r) = Talk(links[l])
    BY <1>3 DEF Talk
  <2>2. DOMAIN links' = DOMAIN links /\ l \in DOMAIN links
    BY <1>2, <1>5 DEF Numbers
  <2>3. \A k \in DOMAIN links : Talk(links'[k]) = Talk(links[k])
    BY <1>5, <2>1 DEF Numbers
  <2> QED BY <2>2, <2>3, OwedOnAll DEF OwedOn
<1> QED BY <1>owed, <1>1, <1>6, <1>8, <1>9, <1>10 DEF IInv

\* A request is written: its call has not been on any connection.
LEMMA WriteKeeps ==
  ASSUME IInv, NEW u \in Users, Write(u)
  PROVE  IInv' /\ Owed' = Owed \cup {Call(u)}
<1>l. PICK l : l = at[u]
  OBVIOUS
<1>c. PICK c : c = Call(u)
  OBVIOUS
<1>r. PICK r : r = [links[l] EXCEPT !.out = Append(@, c)]
  OBVIOUS
<1>1. /\ pc[u] = "write" /\ pc' = [pc EXCEPT ![u] = "register"]
      /\ links' = [links EXCEPT ![l].out = Append(@, c)]
      /\ via' = [via EXCEPT ![c] = l]
      /\ mixed' = mixed \/ mixed' = mixed \cup Rivals(u) \cup {c}
      /\ UNCHANGED <<world, tableVars, step, at, ref, got, spoiled, disturbed>>
  BY <1>l, <1>c DEF Write, Goes
<1>2. /\ TypeOK /\ UserOK(u) /\ LinkOK(l) /\ l \in Numbers /\ l # NoLink /\ links[l] \in LinkType
      /\ c \in Calls /\ c = <<u, step[u]>> /\ step[u] \in 1..Longest
      /\ step[u] <= Len(Script[u])
  <2>1. l \in Numbers /\ l # NoLink /\ step[u] <= Len(Script[u])
    BY <1>l, <1>1 DEF IInv, TypeOK, UserOK
  <2> QED BY <1>c, <1>1, <2>1, LinkIs, CallIs DEF IInv
<1>3. via[c] = NoLink
  BY <1>1, <1>2 DEF UserOK
<1>4. /\ r \in LinkType /\ r.out = Append(links[l].out, c) /\ r.inb = links[l].inb
      /\ r.futures = links[l].futures
  BY <1>2, <1>r, AppendProperties DEF LinkType
<1>5. links' = [links EXCEPT ![l] = r]
  BY <1>1, <1>2, <1>r DEF Numbers
<1>6. /\ links' \in Seq(LinkType) /\ Len(links') = Len(links) /\ Numbers' = Numbers
      /\ links'[l] = r /\ \A k \in Numbers \ {l} : links'[k] = links[k]
  BY <1>2, <1>4, <1>5, OneLink DEF TypeOK, Numbers
<1>7. /\ via' \in [Calls -> Numbers \cup {NoLink}] /\ via'[c] = l
      /\ \A d \in Calls \ {c} : via'[d] = via[d]
  BY <1>1, <1>2 DEF TypeOK
<1>8. TypeOK'
  <2>1. Made' = Made \cup {c}
    BY <1>2, <1>7 DEF Made
  <2>2. Rivals(u) \subseteq Made
    BY DEF Rivals, Waiting
  <2>3. mixed' \subseteq Made' /\ spoiled' \subseteq Made'
    BY <1>1, <1>2, <2>1, <2>2 DEF TypeOK
  <2> QED BY <1>1, <1>2, <1>6, <1>7, <2>3 DEF TypeOK, tableVars
<1>9. /\ \A w \in Users \ {u} : pc'[w] = pc[w] /\ step'[w] = step[w] /\ at'[w] = at[w]
      /\ pc'[u] = "register" /\ step'[u] = step[u] /\ at'[u] = l /\ Forward(u) /\ OthersStay(u)
  BY <1>1, <1>2, <1>l DEF TypeOK, Forward, OthersStay
<1>10. \A w \in Users : UserOK(w)'
  <2>1. got[c] = None
    BY <1>2, <1>3 DEF UserOK
  <2>2. UserOK(u)'
    <3>1. \A i \in 1..Longest : via'[<<u, i>>] # NoLink => i < step[u] \/ i = step[u]
      BY <1>1, <1>2, <1>7, <1>9 DEF UserOK, Calls
    <3> QED BY <1>1, <1>2, <1>7, <1>9, <2>1, <3>1 DEF UserOK, Script, Call
  <2> QED BY <1>1, <1>2, <1>7, <1>9, <2>2, UsersKept
<1>11. \A k \in Numbers' : LinkOK(k)'
  <2>1. \A d \in Calls \ {c} : Registering(d)' => Registering(d)
    BY <1>2, <1>9, CallsAreCalls DEF Registering, Call
  <2>2. ASSUME NEW k \in Numbers \ {l} PROVE LinkOK(k)'
    <3>1. k # NoLink
      BY TalkIs
    <3>2. \A d \in Calls : via[d] = k => d # c
      BY <1>3, <3>1
    <3> QED BY <1>1, <1>6, <1>7, <2>1, <3>2, LinkSame
  <2>3. LinkOK(l)'
    <3>1. /\ AnswersIn(links[l].out) \subseteq Made /\ AnswersIn(links[l].inb) \subseteq Made
          /\ links[l].out \in Seq(Calls)
      BY <1>2, TalkIs
    <3>2. c \notin Made /\ c # NewLine
      BY <1>2, <1>3, CallsAreCalls DEF Made
    <3>3. /\ NoRepeats(r.out) /\ AnswersIn(r.out) = AnswersIn(links[l].out) \cup {c}
      <4>0. links[l].out \in Seq(Calls) /\ c \in Calls
        BY <1>2, <3>1
      <4>1. NoRepeats(links[l].out)
        BY <1>2, TalkIs
      <4>2. c \notin AnswersIn(links[l].out)
        BY <3>1, <3>2
      <4>3. /\ NoRepeats(Append(links[l].out, c))
            /\ AnswersIn(Append(links[l].out, c)) = AnswersIn(links[l].out) \cup ({c} \ {NewLine})
        BY <4>0, <4>1, <4>2, Appended
      <4>4. {c} \ {NewLine} = {c}
        BY <3>2
      <4> QED BY <1>4, <4>3, <4>4
    <3>4. \A d \in AnswersIn(r.out) \cup AnswersIn(r.inb) : via'[d] = l
      <4>1. \A d \in AnswersIn(links[l].out) \cup AnswersIn(links[l].inb) : d \in Calls \ {c} /\ via[d] = l
        BY <1>2, <3>1, <3>2, TalkIs DEF Made
      <4> QED BY <1>4, <1>7, <3>3, <4>1
    <3>5. \A k \in Keys : \A d :
            d = r.futures[k] /\ d # None =>
              via'[d] = l /\ Key(d) = k /\ got[d] = None /\ ~Registering(d)'
      <4> SUFFICES ASSUME NEW k \in Keys, NEW d, d = r.futures[k], d # None
                   PROVE  via'[d] = l /\ Key(d) = k /\ got[d] = None /\ ~Registering(d)'
        OBVIOUS
      <4>1. d \in Calls /\ via[d] = l /\ Key(d) = k /\ got[d] = None /\ ~Registering(d)
        BY <1>2, <1>4 DEF LinkOK, LinkType
      <4> QED BY <1>2, <1>3, <1>7, <2>1, <4>1
    <3>6. \A d : Key(d)' = Key(d)
      BY <1>1 DEF Key, Cmd, Script
    <3>7. AnswersIn(r.out) \cap AnswersIn(r.inb) = {}
      BY <1>2, <1>4, <3>1, <3>2, <3>3 DEF LinkOK
    <3> QED BY <1>1, <1>2, <1>4, <1>6, <3>3, <3>4, <3>5, <3>6, <3>7 DEF LinkOK
  <2> QED BY <1>6, <2>2, <2>3
<1>12. Len(links') <= Cardinality(Past')
  BY <1>6, <1>8, <1>9, CountKept
<1>owed. Owed' = Owed \cup {Call(u)}
  <2>1. links[l].out \in Seq(Calls) /\ c \in Calls /\ c # NewLine
    BY <1>2, TalkIs, CallsAreCalls
  <2>2. AnswersIn(r.out) = AnswersIn(links[l].out) \cup {c}
    BY <1>4, <2>1, Appended
  <2>3. Talk(r) = Talk(links[l]) \cup {c}
    BY <1>4, <2>2 DEF Talk
  <2> QED BY <1>c, <1>2, <1>6, <2>3, OwedOnOne, OwedOnAll DEF Numbers
<1> QED BY <1>owed, <1>1, <1>8, <1>10, <1>11, <1>12 DEF IInv

\* A future is registered: its call waits on that connection.
LEMMA RegisterKeeps ==
  ASSUME IInv, NEW u \in Users, Register(u)
  PROVE  IInv' /\ Owed' = Owed
<1>l. PICK l : l = at[u]
  OBVIOUS
<1>c. PICK c : c = Call(u)
  OBVIOUS
<1>k. PICK key : key = Key(c)
  OBVIOUS
<1>f. PICK f : f = [links[l].futures EXCEPT ![key] = c]
  OBVIOUS
<1>r. PICK r : r = [links[l] EXCEPT !.futures = f]
  OBVIOUS
<1>1. /\ pc[u] = "register" /\ pc' = [pc EXCEPT ![u] = "wait"]
      /\ links' = [links EXCEPT ![l].futures[key] = c]
      /\ spoiled' = spoiled \cup ({links[l].futures[key]} \ {None})
      /\ UNCHANGED <<world, tableVars, step, at, ref, via, got, mixed, disturbed>>
  BY <1>l, <1>c, <1>k DEF Register, Goes
<1>2. /\ TypeOK /\ UserOK(u) /\ LinkOK(l) /\ l \in Numbers /\ l # NoLink /\ links[l] \in LinkType
      /\ c \in Calls /\ c = <<u, step[u]>> /\ step[u] \in 1..Longest /\ key \in Keys
      /\ via[c] = l /\ got[c] = None
  <2>1. l \in Numbers /\ l # NoLink
    BY <1>l, <1>1 DEF IInv, TypeOK, UserOK
  <2>2. via[c] = l /\ got[c] = None
    BY <1>l, <1>c, <1>1 DEF IInv, UserOK
  <2> QED BY <1>c, <1>k, <1>1, <2>1, <2>2, LinkIs, CallIs, KeyIs DEF IInv
<1>3. /\ links[l].futures \in [Keys -> Calls \cup {None}]
      /\ f \in [Keys -> Calls \cup {None}] /\ f[key] = c
      /\ \A k \in Keys \ {key} : f[k] = links[l].futures[k]
  BY <1>2, <1>f DEF LinkType
<1>4. r \in LinkType /\ r.out = links[l].out /\ r.inb = links[l].inb /\ r.futures = f
  BY <1>2, <1>3, <1>r DEF LinkType
<1>5. links' = [links EXCEPT ![l] = r]
  BY <1>1, <1>2, <1>f, <1>r DEF Numbers
<1>6. /\ links' \in Seq(LinkType) /\ Len(links') = Len(links) /\ Numbers' = Numbers
      /\ links'[l] = r /\ \A k \in Numbers \ {l} : links'[k] = links[k]
  BY <1>2, <1>4, <1>5, OneLink DEF TypeOK, Numbers
<1>7. TypeOK'
  <2>1. Made' = Made
    BY <1>1 DEF Made
  <2>2. links[l].futures[key] # None => links[l].futures[key] \in Made
    BY <1>2, <1>3 DEF LinkOK, Made
  <2>3. spoiled' \subseteq Made' /\ mixed' \subseteq Made'
    BY <1>1, <1>2, <2>1, <2>2 DEF TypeOK
  <2> QED BY <1>1, <1>2, <1>6, <2>3 DEF TypeOK, tableVars
<1>8. /\ OthersStay(u) /\ pc'[u] = "wait" /\ step'[u] = step[u] /\ Forward(u)
      /\ pc'[u] # "register" /\ at'[u] = l
  BY <1>l, <1>1, <1>2 DEF TypeOK, Forward, OthersStay
<1>9. \A w \in Users : UserOK(w)'
  <2>1. UserOK(u)'
    BY <1>1, <1>2, <1>8 DEF UserOK, Script
  <2> QED BY <1>1, <1>8, <2>1, UsersKept
<1>10. \A d \in Calls : Registering(d)' => Registering(d) /\ d # c
  BY <1>2, <1>8, NotRegistering, CallsAreCalls DEF Registering
<1>11. \A k \in Numbers' : LinkOK(k)'
  <2>1. ASSUME NEW k \in Numbers \ {l} PROVE LinkOK(k)'
    BY <1>1, <1>6, <1>10, LinkSame
  <2>2. LinkOK(l)'
    <3>1. \A k \in Keys : \A d :
            d = r.futures[k] /\ d # None =>
              via[d] = l /\ Key(d) = k /\ got[d] = None /\ ~Registering(d)'
      <4> SUFFICES ASSUME NEW k \in Keys, NEW d, d = r.futures[k], d # None
                   PROVE  via[d] = l /\ Key(d) = k /\ got[d] = None /\ ~Registering(d)'
        OBVIOUS
      <4>1. CASE k = key
        BY <1>2, <1>3, <1>4, <1>k, <1>10, <4>1
      <4>2. CASE k # key
        <5>1. d = links[l].futures[k] /\ d \in Calls
          BY <1>3, <1>4, <4>2
        <5> QED BY <1>2, <1>10, <5>1 DEF LinkOK
      <4> QED BY <4>1, <4>2
    <3>2. \A d : Key(d)' = Key(d)
      BY <1>1 DEF Key, Cmd, Script
    <3> QED BY <1>1, <1>2, <1>4, <1>6, <3>1, <3>2 DEF LinkOK
  <2> QED BY <1>6, <2>1, <2>2
<1>12. Len(links') <= Cardinality(Past')
  BY <1>6, <1>7, <1>8, CountKept
<1>owed. Owed' = Owed
  <2>1. Talk(r) = Talk(links[l])
    BY <1>4 DEF Talk
  <2>2. DOMAIN links' = DOMAIN links
    BY <1>6 DEF Numbers
  <2>3. \A k \in DOMAIN links : Talk(links'[k]) = Talk(links[k])
    BY <1>6, <2>1 DEF Numbers
  <2> QED BY <2>2, <2>3, OwedOnAll DEF OwedOn
<1> QED BY <1>owed, <1>1, <1>7, <1>9, <1>11, <1>12 DEF IInv

\* A connection breaks: nothing new is on its way.
LEMMA BrokenKeeps ==
  ASSUME IInv, NEW l \in Numbers, NEW r \in LinkType,
         links' = [links EXCEPT ![l] = r],
         r.out = <<>>, r.inb = links[l].inb \/ r.inb = <<>>, r.futures = links[l].futures,
         table' \in Seq(Numbers \cup {NoLink}),
         dirty' = dirty \/ Noticed("shrank"),
         disturbed' \subseteq {"together", "full", "removed"},
         UNCHANGED <<world, pc, step, at, ref, seen, callVars>>
  PROVE  IInv' /\ Owed' \subseteq Owed
<1>1. /\ links' \in Seq(LinkType) /\ Len(links') = Len(links) /\ Numbers' = Numbers
      /\ links'[l] = r /\ \A k \in Numbers \ {l} : links'[k] = links[k]
  BY OneLink DEF IInv, TypeOK, Numbers
<1>2. TypeOK'
  <2>1. dirty' \in [Users -> {"no", "grew", "shrank"}]
    BY DEF IInv, TypeOK, Noticed
  <2> QED BY <1>1, <2>1 DEF IInv, TypeOK, callVars, Made
<1>3. \A k \in Numbers' : LinkOK(k)'
  <2>1. \A k \in Numbers' : k \in Numbers /\ Less(k)
    BY <1>1 DEF Less
  <2>2. \A c : Registering(c)' => Registering(c)
    BY DEF Registering, Call
  <2> QED BY <2>1, <2>2, LinksKept DEF callVars
<1>owed. Owed' \subseteq Owed
  <2>1. Talk(r) \subseteq Talk(links[l])
    BY OneOrNone DEF Talk
  <2> QED BY <1>1, <2>1, OwedOnOne, OwedOnAll DEF Numbers
<1> QED BY <1>owed, <1>1, <1>2, <1>3, NetKeeps DEF callVars

\* The other end closes.
LEMMA LeaveKeeps ==
  ASSUME IInv, NEW l \in Numbers, Leave(l)
  PROVE  IInv' /\ Owed' \subseteq Owed
<1>r. PICK r : r = [links[l] EXCEPT !.state = "eof", !.out = <<>>]
  OBVIOUS
<1>1. /\ links' = [links EXCEPT ![l].state = "eof", ![l].out = <<>>]
      /\ UNCHANGED <<world, tableVars, pc, step, at, ref, callVars, disturbed>>
  BY DEF Leave
<1>2. /\ r \in LinkType /\ r.out = <<>> /\ r.inb = links[l].inb /\ r.futures = links[l].futures
  <2>1. links[l] \in LinkType
    BY TalkIs
  <2> DEFINE k == links[l]
  <2>2. r = [to |-> k.to, id |-> k.id, state |-> "eof", started |-> k.started,
             out |-> <<>>, inb |-> k.inb, futures |-> k.futures]
    BY <2>1, <1>r DEF LinkType
  <2> HIDE DEF k
  <2>3. r \in LinkType /\ r.out = <<>> /\ r.inb = k.inb /\ r.futures = k.futures
    BY <2>1, <2>2, LinkFields DEF LinkType, k
  <2> QED BY <2>3 DEF k
<1>3. links' = [links EXCEPT ![l] = r]
  BY <1>r, <1>1 DEF Numbers
<1>4. table' \in Seq(Numbers \cup {NoLink}) /\ disturbed' \subseteq {"together", "full", "removed"}
  BY <1>1 DEF IInv, TypeOK, tableVars
<1> QED BY <1>1, <1>2, <1>3, <1>4, BrokenKeeps DEF tableVars

\* This end closes, and the connection leaves the table.
LEMMA ShutdownKeeps ==
  ASSUME IInv, NEW l \in Numbers, Shutdown(l)
  PROVE  IInv' /\ Owed' \subseteq Owed
<1>r. PICK r : r = [links[l] EXCEPT !.state = "closed", !.out = <<>>, !.inb = <<>>]
  OBVIOUS
<1>1. /\ links' = [links EXCEPT ![l].state = "closed", ![l].out = <<>>, ![l].inb = <<>>]
      /\ UNCHANGED <<world, pc, step, at, ref, callVars>>
  BY DEF Shutdown
<1>2. /\ r \in LinkType /\ r.out = <<>> /\ r.inb = <<>> /\ r.futures = links[l].futures
  <2>1. links[l] \in LinkType
    BY TalkIs
  <2> DEFINE k == links[l]
  <2>2. r = [to |-> k.to, id |-> k.id, state |-> "closed", started |-> k.started,
             out |-> <<>>, inb |-> <<>>, futures |-> k.futures]
    BY <2>1, <1>r DEF LinkType
  <2> HIDE DEF k
  <2>3. r \in LinkType /\ r.out = <<>> /\ r.inb = <<>> /\ r.futures = k.futures
    BY <2>1, <2>2, LinkFields DEF LinkType, k
  <2> QED BY <2>3 DEF k
<1>3. links' = [links EXCEPT ![l] = r]
  BY <1>r, <1>1 DEF Numbers
<1>4. /\ table' \in Seq(Numbers \cup {NoLink}) /\ disturbed' \subseteq {"together", "full", "removed"}
      /\ (dirty' = dirty \/ Noticed("shrank")) /\ seen' = seen
  <2>0. table \in Seq(Numbers \cup {NoLink}) /\ disturbed \subseteq {"together", "full", "removed"}
    BY DEF IInv, TypeOK
  <2>1. CASE Places(l) = {}
    BY <2>0, <2>1 DEF Shutdown, tableVars
  <2>2. CASE Places(l) # {}
    <3> DEFINE i == CHOOSE j \in Places(l) : \A k \in Places(l) : j <= k
    <3>1. /\ table' = Prefix(table, i - 1) \o Beyond(table, i)
          /\ Noticed("shrank") /\ disturbed' = disturbed \cup {"removed"} /\ seen' = seen
      BY <2>2 DEF Shutdown
    <3>2. i \in DOMAIN table
      <4>1. Places(l) \subseteq DOMAIN table
        BY DEF Places
      <4>2. Places(l) \in SUBSET Nat
        BY <2>0, <4>1, LenProperties
      <4> QED BY <2>2, <4>1, <4>2, Least
    <3>3. i - 1 \in 0..Len(table) /\ i \in 0..Len(table)
      BY <2>0, <3>2, LenProperties
    <3> HIDE DEF i
    <3>4. table' \in Seq(Numbers \cup {NoLink})
      BY <2>0, <3>1, <3>3, Cut, ConcatProperties
    <3> QED BY <2>0, <3>1, <3>4
  <2> QED BY <2>1, <2>2
<1> QED BY <1>1, <1>2, <1>3, <1>4, BrokenKeeps

\* What is answered leaves the requests and joins the answers.
LEMMA ServeKeeps ==
  ASSUME IInv, NEW l \in Numbers, Serve(l)
  PROVE  IInv' /\ Owed' \subseteq Owed
<1>1. PICK m \in 1..Len(links[l].out) :
        LET batch == Prefix(links[l].out, m)
            replies == IF Answered(batch) THEN <<batch[1]>> ELSE <<>>
        IN /\ links' = [links EXCEPT ![l].out = Beyond(@, m),
                                     ![l].inb = @ \o replies \o <<NewLine>>]
           /\ spoiled' = spoiled \cup (AnswersIn(batch) \ AnswersIn(replies))
  BY DEF Serve
<1>b. PICK batch : batch = Prefix(links[l].out, m)
  OBVIOUS
<1>p. PICK replies : replies = IF Answered(batch) THEN <<batch[1]>> ELSE <<>>
  OBVIOUS
<1>o. PICK out : out = links[l].out
  OBVIOUS
<1>i. PICK inb : inb = links[l].inb
  OBVIOUS
<1>r. PICK r : r = [links[l] EXCEPT !.out = Beyond(out, m),
                                    !.inb = inb \o replies \o <<NewLine>>]
  OBVIOUS
<1>2. /\ links' = [links EXCEPT ![l].out = Beyond(@, m),
                                ![l].inb = @ \o replies \o <<NewLine>>]
      /\ spoiled' = spoiled \cup (AnswersIn(batch) \ AnswersIn(replies))
      /\ UNCHANGED <<world, tableVars, pc, step, at, ref, via, got, mixed, disturbed>>
  BY <1>1, <1>b, <1>p DEF Serve
<1>3. /\ links[l] \in LinkType /\ out \in Seq(Calls) /\ inb \in Seq(Calls \cup {NewLine})
      /\ AnswersIn(out) \subseteq Made /\ AnswersIn(inb) \subseteq Made
      /\ NoRepeats(out) /\ NoRepeats(inb) /\ AnswersIn(out) \cap AnswersIn(inb) = {}
      /\ \A c \in AnswersIn(out) \cup AnswersIn(inb) : via[c] = l
      /\ LinkOK(l) /\ m \in 1..Len(out) /\ batch = Prefix(out, m)
  BY <1>o, <1>i, <1>b, TalkIs DEF IInv
<1>4. /\ AnswersIn(batch) \subseteq AnswersIn(out) /\ batch[1] \in AnswersIn(batch) /\ batch[1] \in Calls
      /\ AnswersIn(Beyond(out, m)) \subseteq AnswersIn(out) /\ NoRepeats(Beyond(out, m))
      /\ AnswersIn(batch) \cap AnswersIn(Beyond(out, m)) = {}
      /\ Beyond(out, m) \in Seq(Calls)
  <2>1. out[1] \in Calls /\ out[1] # NewLine /\ m \in 0..Len(out)
    BY <1>3, LenProperties, ElementOfSeq, CallsAreCalls
  <2> QED BY <1>3, <2>1, Cut, CutAnswers
<1>5. /\ replies \in Seq(Calls \cup {NewLine}) /\ NoRepeats(replies)
      /\ AnswersIn(replies) \subseteq AnswersIn(batch)
  BY <1>4, <1>p, OneOrNone
<1>6. PICK said : said = inb \o replies
  OBVIOUS
<1>7. /\ said \in Seq(Calls \cup {NewLine}) /\ NoRepeats(said)
      /\ AnswersIn(said) = AnswersIn(inb) \cup AnswersIn(replies)
  BY <1>3, <1>4, <1>5, <1>6, Joined
<1>8. PICK new : new = said \o <<NewLine>>
  OBVIOUS
<1>9. /\ new \in Seq(Calls \cup {NewLine}) /\ NoRepeats(new) /\ AnswersIn(new) = AnswersIn(said)
  <2>1. new = Append(said, NewLine)
    BY <1>7, <1>8, AppendIsConcat
  <2>2. NewLine \in Calls \cup {NewLine} /\ NewLine \notin AnswersIn(said)
    BY DEF AnswersIn
  <2> QED BY <1>7, <2>1, <2>2, Appended
<1>10. r \in LinkType /\ r.out = Beyond(out, m) /\ r.inb = new /\ r.futures = links[l].futures
  <2> DEFINE k == links[l]
  <2>1. r = [to |-> k.to, id |-> k.id, state |-> k.state, started |-> k.started,
             out |-> Beyond(out, m), inb |-> new, futures |-> k.futures]
    BY <1>3, <1>r, <1>6, <1>8 DEF LinkType
  <2> HIDE DEF k
  <2>2. r \in LinkType /\ r.out = Beyond(out, m) /\ r.inb = new /\ r.futures = k.futures
    BY <1>3, <1>4, <1>9, <2>1, LinkFields DEF LinkType, k
  <2> QED BY <2>2 DEF k
<1>11. links' = [links EXCEPT ![l] = r]
  BY <1>2, <1>o, <1>i, <1>r DEF Numbers
<1>12. /\ links' \in Seq(LinkType) /\ Len(links') = Len(links) /\ Numbers' = Numbers
       /\ links'[l] = r /\ \A k \in Numbers \ {l} : links'[k] = links[k]
  BY <1>10, <1>11, OneLink DEF IInv, TypeOK, Numbers
<1>13. TypeOK'
  <2>1. Made' = Made /\ spoiled' \subseteq Made
    BY <1>2, <1>3, <1>4 DEF Made, IInv, TypeOK
  <2> QED BY <1>2, <1>12, <2>1 DEF IInv, TypeOK, tableVars
<1>14. \A k \in Numbers' : LinkOK(k)'
  <2>1. \A c : Registering(c)' <=> Registering(c)
    BY <1>2 DEF Registering, Call
  <2>2. ASSUME NEW k \in Numbers \ {l} PROVE LinkOK(k)'
    BY <1>2, <1>12, <2>1, LinkSame
  <2>3. LinkOK(l)'
    <3>1. /\ NoRepeats(r.out) /\ NoRepeats(r.inb) /\ AnswersIn(r.out) \cap AnswersIn(r.inb) = {}
          /\ AnswersIn(r.out) \cup AnswersIn(r.inb) \subseteq AnswersIn(out) \cup AnswersIn(inb)
      BY <1>3, <1>4, <1>5, <1>7, <1>9, <1>10
    <3>2. \A k \in Keys : \A d :
            d = r.futures[k] /\ d # None =>
              via[d] = l /\ Key(d) = k /\ got[d] = None /\ ~Registering(d)'
      BY <1>3, <1>10, <2>1 DEF LinkOK
    <3>3. \A d : Key(d)' = Key(d)
      BY <1>2 DEF Key, Cmd, Script
    <3> QED BY <1>2, <1>3, <1>12, <3>1, <3>2, <3>3 DEF LinkOK
  <2> QED BY <1>12, <2>2, <2>3
<1>owed. Owed' \subseteq Owed
  <2>1. Talk(r) \subseteq Talk(links[l])
    BY <1>o, <1>i, <1>4, <1>5, <1>7, <1>9, <1>10 DEF Talk
  <2> QED BY <1>12, <2>1, OwedOnOne, OwedOnAll DEF Numbers
<1> QED BY <1>owed, <1>2, <1>12, <1>13, <1>14, NetKeeps

\* What is heard is owed no more, and goes to nobody or to one that waits for it.
LEMMA HearKeeps ==
  ASSUME IInv, NEW l \in Numbers, Hear(l)
  PROVE  /\ IInv'
         /\ Owed' \subseteq Owed
         /\ \/ UNCHANGED got
            \/ \E a, c \in Calls :
                 /\ a \in Owed /\ Owed' \subseteq Owed \ {a} /\ via[a] = l
                 /\ c \in Waiting /\ via[c] = l /\ Key(c) = Key(a)
                 /\ got' = [got EXCEPT ![c] = a]
<1>1. PICK m \in 1..Len(links[l].inb) :
        LET batch == Prefix(links[l].inb, m)
            a == batch[1]
            c == IF a = NewLine THEN None ELSE links[l].futures[Key(a)]
        IN /\ links' = [links EXCEPT ![l].inb = Beyond(@, m),
                                     ![l].futures = IF c = None THEN @ ELSE [@ EXCEPT ![Key(a)] = None]]
           /\ got' = IF c = None THEN got ELSE [got EXCEPT ![c] = a]
           /\ spoiled' = spoiled \cup (AnswersIn(batch) \ (IF c = a THEN {c} ELSE {}))
  BY DEF Hear
<1>i. PICK inb : inb = links[l].inb
  OBVIOUS
<1>b. PICK batch : batch = Prefix(inb, m)
  OBVIOUS
<1>a. PICK a : a = batch[1]
  OBVIOUS
<1>k. PICK key : key = Key(a)
  OBVIOUS
<1>g. PICK g : g = links[l].futures
  OBVIOUS
<1>c. PICK c : c = IF a = NewLine THEN None ELSE g[key]
  OBVIOUS
<1>f. PICK f : f = IF c = None THEN g ELSE [g EXCEPT ![key] = None]
  OBVIOUS
<1>r. PICK r : r = [links[l] EXCEPT !.inb = Beyond(inb, m), !.futures = f]
  OBVIOUS
<1>2. /\ links' = [links EXCEPT ![l].inb = Beyond(@, m),
                                ![l].futures = IF c = None THEN @ ELSE [@ EXCEPT ![key] = None]]
      /\ got' = IF c = None THEN got ELSE [got EXCEPT ![c] = a]
      /\ spoiled' = spoiled \cup (AnswersIn(batch) \ (IF c = a THEN {c} ELSE {}))
      /\ UNCHANGED <<world, tableVars, pc, step, at, ref, via, mixed, disturbed>>
  BY <1>1, <1>i, <1>b, <1>a, <1>k, <1>g, <1>c DEF Hear
<1>3. /\ links[l] \in LinkType /\ l # NoLink /\ inb \in Seq(Calls \cup {NewLine})
      /\ AnswersIn(inb) \subseteq Made /\ NoRepeats(inb) /\ NoRepeats(links[l].out)
      /\ AnswersIn(links[l].out) \cap AnswersIn(inb) = {}
      /\ \A d \in AnswersIn(links[l].out) \cup AnswersIn(inb) : via[d] = l
      /\ LinkOK(l) /\ m \in 1..Len(inb) /\ key \in Keys
  BY <1>i, <1>k, TalkIs, KeyIs DEF IInv
<1>4. /\ AnswersIn(batch) \subseteq AnswersIn(inb) /\ a \in Calls \cup {NewLine}
      /\ AnswersIn(Beyond(inb, m)) \subseteq AnswersIn(inb) /\ NoRepeats(Beyond(inb, m))
      /\ Beyond(inb, m) \in Seq(Calls \cup {NewLine})
  <2>1. inb[1] \in Calls \cup {NewLine} /\ m \in 0..Len(inb)
    BY <1>3, LenProperties, ElementOfSeq
  <2> QED BY <1>3, <1>b, <1>a, <2>1, Cut, CutAnswers
<1>5. /\ g \in [Keys -> Calls \cup {None}] /\ f \in [Keys -> Calls \cup {None}]
      /\ \A k \in Keys : f[k] # None => f[k] = g[k] /\ (c # None => k # key)
  BY <1>3, <1>g, <1>f, LinkFields
<1>6. \A k \in Keys : \A d :
        d = g[k] /\ d # None =>
          d \in Calls /\ via[d] = l /\ Key(d) = k /\ got[d] = None /\ ~Registering(d)
  BY <1>3, <1>5, <1>g DEF LinkOK
<1>7. c # None => /\ a \in Calls /\ c = g[key] /\ c \in Calls /\ via[c] = l /\ Key(c) = key
                  /\ ~Registering(c)
  BY <1>3, <1>4, <1>6, <1>c
<1>8. \A d \in Calls : d # c => got'[d] = got[d]
  BY <1>2, <1>7 DEF IInv, TypeOK
<1>9. r \in LinkType /\ r.out = links[l].out /\ r.inb = Beyond(inb, m) /\ r.futures = f
  <2> DEFINE k == links[l]
  <2>1. r = [to |-> k.to, id |-> k.id, state |-> k.state, started |-> k.started,
             out |-> k.out, inb |-> Beyond(inb, m), futures |-> f]
    BY <1>3, <1>r DEF LinkType
  <2> HIDE DEF k
  <2>2. r \in LinkType /\ r.out = k.out /\ r.inb = Beyond(inb, m) /\ r.futures = f
    BY <1>3, <1>4, <1>5, <2>1, LinkFields DEF LinkType, k
  <2> QED BY <2>2 DEF k
<1>10. links' = [links EXCEPT ![l] = r]
  BY <1>2, <1>i, <1>g, <1>f, <1>r DEF Numbers
<1>11. /\ links' \in Seq(LinkType) /\ Len(links') = Len(links) /\ Numbers' = Numbers
       /\ links'[l] = r /\ \A k \in Numbers \ {l} : links'[k] = links[k]
  BY <1>9, <1>10, OneLink DEF IInv, TypeOK, Numbers
<1>12. TypeOK'
  <2>1. Made' = Made /\ spoiled' \subseteq Made
    BY <1>2, <1>3, <1>4 DEF Made, IInv, TypeOK
  <2>2. got' \in [Calls -> Calls \cup {None}]
    BY <1>2, <1>7 DEF IInv, TypeOK
  <2> QED BY <1>2, <1>11, <2>1, <2>2 DEF IInv, TypeOK, tableVars
<1>13. \A d : (Registering(d)' <=> Registering(d)) /\ Key(d)' = Key(d)
  BY <1>2 DEF Registering, Call, Key, Cmd, Script
<1>14. \A k \in Numbers' : LinkOK(k)'
  <2>1. ASSUME NEW k \in Numbers \ {l} PROVE LinkOK(k)'
    <3>1. \A d \in Calls : via[d] = k => via'[d] = k /\ got'[d] = got[d]
      <4> SUFFICES ASSUME NEW d \in Calls, via[d] = k PROVE got'[d] = got[d]
        BY <1>2
      <4>1. d # c \/ c = None
        BY <1>7
      <4> QED BY <1>2, <1>8, <4>1
    <3> QED BY <1>2, <1>11, <1>13, <3>1, LinkSame
  <2>2. LinkOK(l)'
    <3>1. /\ NoRepeats(r.out) /\ NoRepeats(r.inb) /\ AnswersIn(r.out) \cap AnswersIn(r.inb) = {}
          /\ \A d \in AnswersIn(r.out) \cup AnswersIn(r.inb) : via[d] = l
      BY <1>3, <1>4, <1>9
    <3>2. \A k \in Keys : \A d :
            d = f[k] /\ d # None =>
              via[d] = l /\ Key(d) = k /\ got'[d] = None /\ ~Registering(d)
      <4> SUFFICES ASSUME NEW k \in Keys, NEW d, d = f[k], d # None
                   PROVE  via[d] = l /\ Key(d) = k /\ got'[d] = None /\ ~Registering(d)
        OBVIOUS
      <4>1. d \in Calls /\ via[d] = l /\ Key(d) = k /\ got[d] = None /\ ~Registering(d)
        BY <1>5, <1>6
      <4>2. d # c \/ c = None
        BY <1>5, <1>7, <4>1
      <4>3. got'[d] = got[d]
        BY <1>2, <1>8, <4>1, <4>2
      <4> QED BY <4>1, <4>3
    <3> QED BY <1>2, <1>9, <1>11, <1>13, <3>1, <3>2 DEF LinkOK
  <2> QED BY <1>11, <2>1, <2>2
<1>15. \A d \in Calls : via[d] = NoLink \/ Registering(d) => got'[d] = got[d]
  <2> SUFFICES ASSUME NEW d \in Calls, via[d] = NoLink \/ Registering(d)
               PROVE  got'[d] = got[d]
    OBVIOUS
  <2>1. d # c \/ c = None
    BY <1>3, <1>7
  <2> QED BY <1>2, <1>8, <2>1
<1>16. Owed' \subseteq Owed
  <2>1. Talk(r) \subseteq Talk(links[l])
    BY <1>i, <1>4, <1>9 DEF Talk
  <2> QED BY <1>11, <2>1, OwedOnOne, OwedOnAll DEF Numbers
<1>17. ASSUME c # None
       PROVE  /\ a \in Calls /\ c \in Calls /\ a \in Owed /\ Owed' \subseteq Owed \ {a}
              /\ via[a] = l /\ c \in Waiting /\ via[c] = l /\ Key(c) = Key(a)
              /\ got' = [got EXCEPT ![c] = a]
  <2>1. /\ a \in AnswersIn(batch) /\ AnswersIn(batch) \cap AnswersIn(Beyond(inb, m)) = {}
        /\ a \in AnswersIn(inb)
    <3>1. a # NewLine /\ a = inb[1]
      BY <1>3, <1>a, <1>b, <1>c, <1>17, CutAnswers
    <3> QED BY <1>3, <1>4, <1>a, <1>b, <3>1, CutAnswers
  <2>2. a \notin Talk(r) /\ a \in Talk(links[l]) /\ via[a] = l
    BY <1>3, <1>i, <1>9, <2>1 DEF Talk
  <2>3. a \notin OwedOn(links') /\ a \in OwedOn(links)
    <3>1. \A k \in Numbers \ {l} : a \notin Talk(links'[k])
      <4> SUFFICES ASSUME NEW k \in Numbers \ {l} PROVE a \notin Talk(links[k])
        BY <1>11
      <4>1. \A d \in Talk(links[k]) : via[d] = k
        BY TalkIs DEF Talk
      <4> QED BY <2>2, <4>1
    <3> QED BY <1>11, <2>2, <3>1 DEF OwedOn, Numbers
  <2>4. c \in Waiting
    BY <1>3, <1>6, <1>7, <1>17 DEF Waiting, Made
  <2> QED BY <1>2, <1>7, <1>16, <1>17, <1>k, <2>2, <2>3, <2>4, OwedOnAll
<1>18. IInv'
  BY <1>2, <1>11, <1>12, <1>14, <1>15, NetKeeps
<1> QED BY <1>2, <1>16, <1>17, <1>18

-----------------------------------------------------------------------------
(* Invariance. *)

\* It holds at first.
LEMMA InitIInv ==
  ASSUME Init
  PROVE  IInv
<1>1. links = <<>> /\ Numbers = {} /\ world \in Worlds
  BY DEF Init, Numbers
<1>2. TypeOK
  <2>1. /\ links \in Seq(LinkType) /\ table \in Seq(Numbers \cup {NoLink})
        /\ pc \in [Users -> {"begin", "done"}] /\ Made = {}
    BY DEF Init, Made
  <2> QED BY <1>1, <2>1 DEF Init, TypeOK, NoLink
<1>3. ASSUME NEW u \in Users PROVE UserOK(u)
  <2>1. /\ pc[u] \in {"begin", "done"} /\ step[u] = 1 /\ (pc[u] # "done" => Script[u] # <<>>)
        /\ \A i \in 1..Longest : via[<<u, i>>] = NoLink /\ got[<<u, i>>] = None
    BY DEF Init, Calls
  <2>2. Script[u] # <<>> => Len(Script[u]) >= 1
    <3>1. Script[u] \in Seq([to : Remotes, cmd : Commands])
      BY <1>1, WorldsAssumption DEF WorldType, Script
    <3> QED BY <3>1, EmptySeq, LenProperties
  <2> QED BY <2>1, <2>2 DEF UserOK
<1>4. Len(links) <= Cardinality(Past)
  BY <1>1, PastFinite
<1> QED BY <1>1, <1>2, <1>3, <1>4 DEF IInv

\* What a step may do to the answers to come and to those given.
GivesOne(l) ==
  \E a, c \in Calls :
    /\ a \in Owed /\ Owed' \subseteq Owed \ {a} /\ via[a] = l
    /\ c \in Waiting /\ via[c] = l /\ Key(c) = Key(a)
    /\ got' = [got EXCEPT ![c] = a]

\* Every step keeps it.
LEMMA NextKeeps ==
  ASSUME IInv, [Next]_vars
  PROVE  IInv'
<1>1. CASE \E u \in Users : UserStep(u)
  <2>1. PICK u \in Users : UserStep(u)
    BY <1>1
  <2>2. CASE \/ Begin(u) \/ ScanFinds(u) \/ ScanFails(u) \/ Refused(u) \/ CheckRoom(u) \/ Add(u)
             \/ Store(u) \/ Get(u) \/ GetFails(u) \/ WriteFails(u) \/ Return(u)
    BY <2>2, QuietSteps
  <2>3. CASE Dial(u)
    BY <2>3, DialKeeps
  <2>4. CASE TakeId(u)
    BY <2>4, TakeIdKeeps
  <2>5. CASE Write(u)
    BY <2>5, WriteKeeps
  <2>6. CASE Register(u)
    BY <2>6, RegisterKeeps
  <2> QED BY <2>1, <2>2, <2>3, <2>4, <2>5, <2>6 DEF UserStep
<1>2. CASE \E l \in DOMAIN links : Serve(l) \/ Hear(l) \/ Leave(l) \/ Shutdown(l)
  BY <1>2, ServeKeeps, HearKeeps, LeaveKeeps, ShutdownKeeps DEF Numbers
<1>3. CASE UNCHANGED vars
  <2>1. UNCHANGED <<world, links, pc, step, at, ref, table, seen, dirty, via, got, mixed, spoiled, disturbed>>
    BY <1>3 DEF vars, tableVars, callVars
  <2>2. TypeOK' /\ Past' = Past /\ \A u \in Users : UserOK(u)'
    BY <2>1 DEF IInv, TypeOK, Numbers, Made, Past, UserOK, Call, Script
  <2>3. \A l \in Numbers' : LinkOK(l)'
    BY <2>1 DEF IInv, Numbers, LinkOK, Registering, Call, Key, Cmd, Script
  <2> QED BY <2>1, <2>2, <2>3 DEF IInv
<1> QED BY <1>1, <1>2, <1>3 DEF Next, Progress

\* The inductive invariant holds in every state.
THEOREM Invariance == Spec => []IInv
<1>1. IInv /\ [Next]_vars => IInv'
  BY NextKeeps
<1> QED BY InitIInv, <1>1, PTL DEF Spec

\* PeerClient and Peer keep their types: every id in use leads to a connection
\* that was made, and only calls that were written have an answer or none.
THEOREM TypeCorrect == Spec => []TypeOK
<1>1. IInv => TypeOK
  BY DEF IInv
<1> QED BY Invariance, <1>1, PTL

-----------------------------------------------------------------------------
(* The refinement. *)

Kind == [c \in Calls |-> IF c \in Made THEN <<via[c], Key(c)>> ELSE <<1, "interested">>]

\* There are no more connections than calls.
LEMMA KindsAre ==
  ASSUME IInv
  PROVE  /\ \A c \in Calls : <<1, "interested">> \in (1..MaxLinks) \X Keys
         /\ \A l \in Numbers : l \in 1..MaxLinks
<1>1. /\ Past \in SUBSET Calls /\ IsFiniteSet(Calls) /\ MaxLinks \in Nat
      /\ Cardinality(Past) <= MaxLinks /\ Cardinality(Past) \in Nat
  <2>1. Past \in SUBSET Calls
    BY DEF Past
  <2> QED BY <2>1, PastFinite, FS_Subset, FS_CardinalityType DEF MaxLinks
<1>2. Len(links) <= MaxLinks /\ Len(links) \in Nat /\ Numbers = 1..Len(links)
  BY <1>1, LenProperties DEF IInv, TypeOK, Numbers
<1>3. \A c \in Calls : MaxLinks >= 1
  <2> SUFFICES ASSUME NEW c \in Calls PROVE MaxLinks # 0
    BY <1>1
  <2> QED BY <1>1, FS_EmptySet DEF MaxLinks
<1> QED BY <1>1, <1>2, <1>3 DEF Keys

\* The initial states of PeerLinks are those of Exchange.
LEMMA InitPromised ==
  ASSUME Init
  PROVE  Promised!Init
<1>1. Made = {} /\ Owed = {} /\ got = [c \in Calls |-> None] /\ mixed = {}
  BY DEF Init, Made, Owed
<1>2. Kind \in [Calls -> (1..MaxLinks) \X Keys]
  BY <1>1, InitIInv, KindsAre DEF Kind
<1> QED BY <1>1, <1>2 DEF Promised!Init, Kind

\* The kinds of calls that were made are kept.
LEMMA KindKept ==
  ASSUME UNCHANGED <<world, via>>
  PROVE  Kind' = Kind /\ Made' = Made
BY DEF Kind, Made, Key, Cmd, Script

\* A request that is written is a call that is made.
LEMMA WriteMakes ==
  ASSUME IInv, NEW u \in Users, Write(u)
  PROVE  Promised!Next
<1>l. PICK l : l = at[u]
  OBVIOUS
<1>c. PICK c : c = Call(u)
  OBVIOUS
<1>k. PICK k : k = <<l, Key(c)>>
  OBVIOUS
<1>1. /\ via' = [via EXCEPT ![c] = l] /\ UNCHANGED <<world, got>>
      /\ pc[u] = "write" /\ Owed' = Owed \cup {c}
      /\ mixed' = IF Rivals(u) = {} THEN mixed ELSE mixed \cup Rivals(u) \cup {c}
  BY <1>l, <1>c, WriteKeeps DEF Write, Goes
<1>2. c \in Calls /\ l \in Numbers /\ l # NoLink /\ via[c] = NoLink
  <2>1. c = <<u, step[u]>> /\ step[u] \in 1..Longest /\ c \in Calls
    BY <1>1, <1>c, CallIs
  <2>2. TypeOK /\ UserOK(u)
    BY DEF IInv
  <2>3. at[u] \in Numbers /\ at[u] # NoLink
    BY <1>1, <2>2 DEF TypeOK, UserOK
  <2>4. via[c] = NoLink
    BY <1>1, <2>1, <2>2 DEF UserOK
  <2> QED BY <1>l, <2>1, <2>3, <2>4
<1>3. k \in (1..MaxLinks) \X Keys
  BY <1>2, <1>k, KindsAre, KeyIs
<1>4. /\ via'[c] = l /\ \A d \in Calls \ {c} : via'[d] = via[d]
      /\ c \notin Made /\ Made' = Made \cup {c}
  BY <1>1, <1>2 DEF IInv, TypeOK, Made
<1>5. \A d : Key(d)' = Key(d)
  BY <1>1 DEF Key, Cmd, Script
<1>6. Kind' = [Kind EXCEPT ![c] = k]
  <2>1. Kind'[c] = k
    BY <1>2, <1>4, <1>5, <1>k DEF Kind
  <2>2. ASSUME NEW d \in Calls, d # c PROVE Kind'[d] = Kind[d]
    <3>1. (d \in Made') = (d \in Made) /\ via'[d] = via[d]
      BY <1>4, <2>2
    <3> QED BY <1>5, <3>1 DEF Kind
  <2>3. /\ Kind' = [d \in Calls |-> Kind'[d]]
        /\ Kind = [d \in Calls |-> Kind[d]]
    BY DEF Kind
  <2> QED BY <2>1, <2>2, <2>3
<1>7. Promised!WaitingOf(k) = Rivals(u)
  <2>1. \A d \in Made : d \in Calls /\ Kind[d] = <<via[d], Key(d)>>
    BY DEF Kind, Made
  <2>2. \A d \in Made : Kind[d] = k <=> via[d] = l /\ Key(d) = Key(c)
    <3>1. \A x, y : <<x, y>> = k <=> x = l /\ y = Key(c)
      BY <1>k
    <3> QED BY <2>1, <3>1
  <2> QED BY <1>l, <1>c, <2>2 DEF Promised!WaitingOf, Promised!Waiting, Kind, Rivals, Waiting
<1>8. Promised!Make(c, k)
  BY <1>1, <1>4, <1>6, <1>7 DEF Promised!Make, Kind
<1> QED BY <1>2, <1>3, <1>8 DEF Promised!Next

\* What is heard is given, or lost.
LEMMA HearGives ==
  ASSUME IInv, NEW l \in Numbers, Hear(l)
  PROVE  Promised!Next
<1>1. UNCHANGED <<world, via, mixed>>
  BY DEF Hear
<1>2. Kind' = Kind /\ Made' = Made
  BY <1>1, KindKept
<1>3. CASE UNCHANGED got
  <2>1. Promised!Lose
    BY <1>1, <1>2, <1>3, HearKeeps DEF Promised!Lose, Kind
  <2> QED BY <2>1 DEF Promised!Next
<1>4. CASE GivesOne(l)
  <2>1. PICK a, c \in Calls : /\ a \in Owed /\ Owed' \subseteq Owed \ {a} /\ via[a] = l
                              /\ c \in Waiting /\ via[c] = l /\ Key(c) = Key(a)
                              /\ got' = [got EXCEPT ![c] = a]
    BY <1>4 DEF GivesOne
  <2>2. l # NoLink /\ a \in Made /\ c \in Made
    BY <2>1, TalkIs DEF Made
  <2>3. Kind[a] = Kind[c]
    BY <2>1, <2>2 DEF Kind
  <2>4. c \in Promised!WaitingOf(Kind[a])
    BY <2>1, <2>3 DEF Promised!WaitingOf, Promised!Waiting, Waiting, Kind
  <2>5. Promised!Give(a, c)
    BY <1>1, <1>2, <2>1, <2>4 DEF Promised!Give, Kind
  <2> QED BY <2>5 DEF Promised!Next
<1> QED BY <1>3, <1>4, HearKeeps DEF GivesOne

\* A step that changes no answer but may lose some.
LEMMA Loses ==
  ASSUME UNCHANGED <<world, via, got, mixed>>, Owed' \subseteq Owed
  PROVE  Promised!Next
<1>1. Kind' = Kind /\ Made' = Made
  BY KindKept
<1> QED BY <1>1 DEF Promised!Next, Promised!Lose, Kind

\* Every step of PeerLinks is one of Exchange or changes nothing there.
LEMMA StepPromised ==
  ASSUME IInv, [Next]_vars
  PROVE  [Promised!Next]_Promised!vars
<1>1. CASE \E u \in Users : Write(u)
  BY <1>1, WriteMakes
<1>2. CASE \E u \in Users : UserStep(u) /\ ~Write(u)
  <2>1. PICK u \in Users : UserStep(u) /\ ~Write(u)
    BY <1>2
  <2>2. UNCHANGED <<world, via, got, mixed>>
    BY <2>1 DEF UserStep, Begin, ScanFinds, ScanFails, Refused, Dial, CheckRoom, Add, Store, TakeId,
                Get, GetFails, WriteFails, Register, Return, Skip, callVars
  <2>3. CASE UNCHANGED links
    BY <2>2, <2>3, Loses DEF Owed
  <2>4. CASE Dial(u) \/ TakeId(u) \/ Register(u)
    BY <2>2, <2>4, Loses, DialKeeps, TakeIdKeeps, RegisterKeeps
  <2>5. UNCHANGED links \/ Dial(u) \/ TakeId(u) \/ Register(u)
    BY <2>1 DEF UserStep, Begin, ScanFinds, ScanFails, Refused, CheckRoom, Add, Store,
                Get, GetFails, WriteFails, Return, Skip
  <2> QED BY <2>3, <2>4, <2>5
<1>3. CASE \E l \in DOMAIN links : Serve(l) \/ Leave(l) \/ Shutdown(l)
  <2>1. PICK l \in DOMAIN links : Serve(l) \/ Leave(l) \/ Shutdown(l)
    BY <1>3
  <2>2. UNCHANGED <<world, via, got, mixed>>
    BY <2>1 DEF Serve, Leave, Shutdown, callVars
  <2>3. Owed' \subseteq Owed
    BY <2>1, ServeKeeps, LeaveKeeps, ShutdownKeeps DEF Numbers
  <2> QED BY <2>2, <2>3, Loses
<1>4. CASE \E l \in DOMAIN links : Hear(l)
  BY <1>4, HearGives DEF Numbers
<1>5. CASE UNCHANGED vars
  BY <1>5, Loses DEF vars, callVars, Owed
<1> QED BY <1>1, <1>2, <1>3, <1>4, <1>5 DEF Next, Progress

\* PeerClient and PeerServer implement Exchange: whatever is merged, dropped or
\* broken, answers go to calls that wait on the connection they come from for
\* the command they answer, each once.
THEOREM Matched == Spec => AnswersMatched
<1>1. IInv /\ [Next]_vars => [Promised!Next]_Promised!vars
  BY StepPromised
<1> QED BY Invariance, InitPromised, <1>1, PTL DEF Spec, AnswersMatched, Promised!Spec

-----------------------------------------------------------------------------
(* What that means for a call: the theorems about Exchange, of this one. *)

Answers ==
  INSTANCE ExchangeProofs WITH
    Kinds <- (1..MaxLinks) \X Keys,
    made <- Made,
    kind <- Kind,
    owed <- Owed

OwnAnswer == \A c \in Made \ mixed : got[c] \in {c, None}

\* A call that never waited together with another one of its command on its
\* connection gets its own answer or none, although nothing in an answer says
\* which call it is for (PeerClient.java:51-73, 133-172).
THEOREM CallGetsOwn == Spec => []OwnAnswer
<1>1. Answers!NoneIsNoCall
  BY NoneAssumption DEF Answers!NoneIsNoCall
<1>2. Answers!Spec => []Answers!OwnAnswer
  BY <1>1, Answers!AloneGetsOwn
<1>3. Promised!Init => Answers!Init
  BY DEF Promised!Init, Answers!Init, Kind
<1>4. [Promised!Next]_Promised!vars => [Answers!Next]_Answers!vars
  BY DEF Kind, Promised!Next, Promised!vars, Answers!Next, Answers!vars,
         Promised!Make, Answers!Make, Promised!Give, Answers!Give,
         Promised!Lose, Answers!Lose, Promised!Waiting, Answers!Waiting,
         Promised!WaitingOf, Answers!WaitingOf
<1>5. Answers!OwnAnswer => OwnAnswer
  BY DEF Answers!OwnAnswer, OwnAnswer
<1> QED
  BY <1>2, <1>3, <1>4, <1>5, Matched, PTL DEF AnswersMatched, Promised!Spec, Answers!Spec
-----------------------------------------------------------------------------
(* The table of connections: while nothing disturbs it, it is sound and     *)
(* leads every request to the peer it is meant for.  That it is sound rests *)
(* on one user at most connecting: from its scan to its store the table     *)
(* stays as it was, so that there is still room and still no connection to  *)
(* its peer.  That requests go right rests on the id of every started       *)
(* connection being its place in the table.                                 *)


Quietly == disturbed \subseteq {"full"}

\* No entry of the table is a connection to the peer that u connects to.
Unknown(u) == \A i \in DOMAIN table : links[table[i]].to # links[at[u]].to

\* Somebody connects: there is room for it, and its peer is not in the table.
AddsOK(u) ==
  /\ dirty[u] # "shrank"
  /\ pc[u] \in {"room", "add", "store"} => Unknown(u)
  /\ pc[u] \in {"add", "store"} => Len(table) < world.room
  /\ pc[u] = "store" => seen[u] = Len(table)

OneConnects == \A u, w \in Users : Connecting(u) /\ Connecting(w) => u = w

EntriesOK ==
  /\ Len(table) <= world.room
  /\ \A i \in DOMAIN table : table[i] # NoLink
  /\ \A i, j \in DOMAIN table : links[table[i]].to = links[table[j]].to => i = j

TableInv == EntriesOK /\ OneConnects /\ \A u \in Users : AddsOK(u)
TInv == Quietly => TableInv

\* The id of a connection leads to it.
IdOK(l) ==
  links[l].started => links[l].id + 1 \in DOMAIN table /\ table[links[l].id + 1] = l

\* Whatever leads a user on leads it to its peer.
LedOK(u) ==
  /\ pc[u] = "id" => Len(table) \in DOMAIN table /\ table[Len(table)] = at[u]
  /\ Connecting(u) \/ pc[u] = "write" => links[at[u]].to = Target(Call(u))
  /\ pc[u] = "get" => /\ ref[u] + 1 \in DOMAIN table
                      /\ links[table[ref[u] + 1]].to = Target(Call(u))

SentOK(c) == links[via[c]].to = Target(c)

RightInv ==
  /\ \A l \in Numbers : IdOK(l)
  /\ \A u \in Users : LedOK(u)
  /\ \A c \in Made : SentOK(c)
RInv == disturbed = {} => RightInv

-----------------------------------------------------------------------------
\* What users, entries and calls lead to are connections.
LEMMA LeadTo ==
  ASSUME IInv
  PROVE  /\ \A u \in Users : pc[u] \in Located => at[u] \in Numbers
         /\ \A c \in Made : via[c] \in Numbers
         /\ \A i \in DOMAIN table : table[i] # NoLink => table[i] \in Numbers
         /\ DOMAIN table = 1..Len(table) /\ Len(table) \in Nat /\ Numbers \subseteq Nat \ {0}
<1>1. TypeOK /\ \A u \in Users : UserOK(u)
  BY DEF IInv
<1>2. \A u \in Users : pc[u] \in Located => at[u] \in Numbers
  BY <1>1 DEF TypeOK, UserOK, Located
<1>3. \A c \in Made : via[c] \in Numbers
  BY <1>1 DEF TypeOK, Made
<1>4. \A i \in DOMAIN table : table[i] # NoLink => table[i] \in Numbers
  BY <1>1, TableIs
<1>5. DOMAIN table = 1..Len(table) /\ Len(table) \in Nat /\ Numbers \subseteq Nat \ {0}
  BY <1>1, LenProperties DEF TypeOK, Numbers
<1> QED BY <1>2, <1>3, <1>4, <1>5

\* What is called to is the same as long as the script and the step are.
LEMMA TargetKept ==
  ASSUME UNCHANGED world
  PROVE  /\ \A c : Target(c)' = Target(c)
         /\ \A u : step'[u] = step[u] => Target(Call(u))' = Target(Call(u))
BY DEF Target, Script, Call

\* A step that moves the users in M, changes no entry and leads no connection
\* elsewhere.
Settled(M) ==
  /\ UNCHANGED <<world, table>>
  /\ \A w \in Users \ M :
       /\ pc'[w] = pc[w] /\ step'[w] = step[w] /\ at'[w] = at[w]
       /\ ref'[w] = ref[w] /\ seen'[w] = seen[w]
       /\ dirty[w] # "shrank" => dirty'[w] # "shrank"
  /\ \A l \in Numbers : l \in Numbers' /\ links'[l].to = links[l].to
  /\ disturbed \subseteq disturbed'

\* The table stays as it should be.
LEMMA TableKept ==
  ASSUME IInv, TInv, NEW M \in SUBSET Users, Settled(M),
         Quietly' => OneConnects' /\ \A u \in M : AddsOK(u)'
  PROVE  TInv'
<1> SUFFICES ASSUME Quietly' PROVE TableInv'
  BY DEF TInv
<1>1. TableInv
  BY DEF TInv, Quietly, Settled
<1>2. \A i \in DOMAIN table : table[i] \in Numbers
  BY <1>1, LeadTo DEF TableInv, EntriesOK
<1>3. EntriesOK'
  BY <1>1, <1>2 DEF TableInv, EntriesOK, Settled
<1>4. ASSUME NEW w \in Users \ M PROVE AddsOK(w)'
  <2>1. AddsOK(w) /\ pc'[w] = pc[w] /\ at'[w] = at[w] /\ seen'[w] = seen[w] /\ dirty'[w] # "shrank"
    BY <1>1 DEF TableInv, AddsOK, Settled
  <2>2. pc[w] \in {"room", "add", "store"} => at[w] \in Numbers
    BY LeadTo DEF Located
  <2>3. pc[w] \in {"room", "add", "store"} => Unknown(w)'
    BY <1>2, <2>1, <2>2 DEF AddsOK, Unknown, Settled
  <2> QED BY <2>1, <2>3 DEF AddsOK, Settled
<1> QED BY <1>3, <1>4 DEF TableInv

\* A step that makes nobody connect.
LEMMA NoneConnects ==
  ASSUME TInv, Quietly' => Quietly, \A u \in Users : Connecting(u)' => Connecting(u)
  PROVE  Quietly' => OneConnects'
BY DEF TInv, TableInv, OneConnects

\* Ids and calls lead where they should.
LEMMA RightKept ==
  ASSUME IInv, TInv, RInv, NEW M \in SUBSET Users, Settled(M),
         \A l \in Numbers' : \/ l \in Numbers /\ links'[l].id = links[l].id
                                /\ links'[l].started = links[l].started
                             \/ disturbed' = {} => IdOK(l)',
         \A u \in M : disturbed' = {} => LedOK(u)',
         \A c \in Made' : \/ c \in Made /\ via'[c] = via[c]
                          \/ disturbed' = {} => SentOK(c)'
  PROVE  RInv'
<1> SUFFICES ASSUME disturbed' = {} PROVE RightInv'
  BY DEF RInv
<1>1. RightInv /\ TableInv
  BY DEF RInv, TInv, Quietly, Settled
<1>2. \A i \in DOMAIN table : table[i] \in Numbers
  BY <1>1, LeadTo DEF TableInv, EntriesOK
<1>3. \A l \in Numbers' : IdOK(l)'
  BY <1>1 DEF RightInv, IdOK, Settled
<1>4. ASSUME NEW w \in Users \ M PROVE LedOK(w)'
  <2>1. /\ LedOK(w) /\ pc'[w] = pc[w] /\ at'[w] = at[w] /\ ref'[w] = ref[w] /\ step'[w] = step[w]
        /\ Target(Call(w))' = Target(Call(w))
    BY <1>1, TargetKept DEF RightInv, Settled
  <2>2. Connecting(w) \/ pc[w] = "write" => at[w] \in Numbers
    BY LeadTo DEF Located, Connecting
  <2>3. Connecting(w)' <=> Connecting(w)
    BY <2>1 DEF Connecting
  <2> QED BY <1>2, <2>1, <2>2, <2>3 DEF LedOK, Settled
<1>5. ASSUME NEW c \in Made' PROVE SentOK(c)'
  <2>1. CASE c \in Made /\ via'[c] = via[c]
    BY <1>1, <2>1, LeadTo, TargetKept DEF RightInv, SentOK, Settled
  <2> QED BY <2>1
<1> QED BY <1>3, <1>4, <1>5 DEF RightInv

-----------------------------------------------------------------------------
(* The steps. *)

Both == IInv /\ TInv /\ RInv

\* What a step of u within its call leaves alone of the others.
LEMMA OneMoves ==
  ASSUME IInv, NEW u \in Users, NEW to, pc' = [pc EXCEPT ![u] = to],
         UNCHANGED <<world, table, step>>,
         \A w \in Users \ {u} : /\ at'[w] = at[w] /\ ref'[w] = ref[w] /\ seen'[w] = seen[w]
                                /\ dirty[w] # "shrank" => dirty'[w] # "shrank",
         \A l \in Numbers : l \in Numbers' /\ links'[l].to = links[l].to,
         disturbed \subseteq disturbed'
  PROVE  /\ Settled({u}) /\ pc'[u] = to /\ step'[u] = step[u]
         /\ \A w \in Users \ {u} : pc'[w] = pc[w]
         /\ (Connecting(u)' => Connecting(u)) => \A w \in Users : Connecting(w)' => Connecting(w)
<1>1. pc'[u] = to /\ \A w \in Users \ {u} : pc'[w] = pc[w]
  BY DEF IInv, TypeOK
<1> QED BY <1>1 DEF Settled, Connecting

\* The next call.
LEMMA SkipRight ==
  ASSUME Both, NEW u \in Users, Proceed(u),
         UNCHANGED <<world, links, table, via, disturbed>>
  PROVE  TInv' /\ RInv'
<1>1. /\ pc'[u] \in {"done", "begin"} /\ dirty'[u] = "no"
      /\ \A w \in Users \ {u} : /\ pc'[w] = pc[w] /\ step'[w] = step[w] /\ at'[w] = at[w]
                                /\ ref'[w] = ref[w] /\ seen'[w] = seen[w] /\ dirty'[w] = dirty[w]
  BY DEF Both, IInv, TypeOK, Proceed
<1>2. Settled({u}) /\ \A w \in Users : Connecting(w)' => Connecting(w)
  BY <1>1 DEF Settled, Connecting, Numbers
<1>3. AddsOK(u)' /\ LedOK(u)'
  BY <1>1 DEF AddsOK, LedOK, Connecting
<1>4. TInv'
  BY <1>2, <1>3, TableKept, NoneConnects DEF Both, Quietly
<1>5. RInv'
  BY <1>2, <1>3, RightKept DEF Both, Made, Numbers
<1> QED BY <1>4, <1>5

\* The scan begins.
LEMMA BeginRight ==
  ASSUME Both, NEW u \in Users, Begin(u)
  PROVE  TInv' /\ RInv'
<1>1. /\ pc[u] = "begin" /\ pc' = [pc EXCEPT ![u] = "scan"]
      /\ UNCHANGED <<world, links, tableVars, step, at, ref, callVars, disturbed>>
  BY DEF Begin, Goes
<1>2. /\ Settled({u}) /\ pc'[u] = "scan"
      /\ \A w \in Users : Connecting(w)' => Connecting(w)
  <2>1. ~Connecting(u)'
    BY <1>1 DEF Connecting, Both, IInv, TypeOK
  <2> QED BY <1>1, <2>1, OneMoves DEF Both, tableVars, Numbers
<1>3. Quietly' => AddsOK(u)'
  BY <1>1, <1>2 DEF Both, TInv, TableInv, Quietly, AddsOK, tableVars
<1>4. TInv'
  BY <1>1, <1>2, <1>3, TableKept, NoneConnects DEF Both, Quietly
<1>5. LedOK(u)'
  BY <1>2 DEF LedOK, Connecting
<1>6. RInv'
  BY <1>1, <1>2, <1>5, RightKept DEF Both, Made, Numbers, callVars
<1> QED BY <1>4, <1>6

\* What the scan stops at, if at a connection, is one to the target.
LEMMA ScanRight ==
  ASSUME Both, NEW u \in Users, ScanFinds(u)
  PROVE  TInv' /\ RInv'
<1>l. PICK l : l = table[FirstStop(u)]
  OBVIOUS
<1>1. /\ pc[u] = "scan" /\ pc' = [pc EXCEPT ![u] = "get"] /\ Stops(u) # {} /\ l # NoLink
      /\ ref' = [ref EXCEPT ![u] = links[l].id]
      /\ disturbed' = IF links[l].started THEN disturbed ELSE disturbed \cup {"together"}
      /\ UNCHANGED <<world, links, tableVars, step, at, callVars>>
  BY <1>l DEF ScanFinds, Goes
<1>2. l \in Numbers /\ links[l].to = Target(Call(u))
  <2>1. Stops(u) \in SUBSET Nat /\ Stops(u) \subseteq DOMAIN table
    BY LeadTo DEF Both, Stops
  <2>2. FirstStop(u) \in Stops(u)
    BY <1>1, <2>1, Least DEF FirstStop
  <2> QED BY <1>1, <1>l, <2>1, <2>2, LeadTo DEF Both, Stops
<1>3. ref'[u] = links[l].id /\ \A w \in Users \ {u} : ref'[w] = ref[w]
  BY <1>1 DEF Both, IInv, TypeOK
<1>4. /\ Settled({u}) /\ pc'[u] = "get" /\ step'[u] = step[u]
      /\ \A w \in Users : Connecting(w)' => Connecting(w)
  <2>1. disturbed \subseteq disturbed' /\ (Connecting(u)' => Connecting(u))
    <3>1. ~Connecting(u)'
      BY <1>1 DEF Connecting, Both, IInv, TypeOK
    <3> QED BY <1>1, <3>1
  <2>2. \A m \in Numbers : m \in Numbers' /\ links'[m].to = links[m].to
    BY <1>1 DEF Numbers
  <2> QED BY <1>1, <1>3, <2>1, <2>2, OneMoves DEF Both, tableVars
<1>5. Quietly' => AddsOK(u)'
  BY <1>1, <1>4 DEF Both, TInv, TableInv, Quietly, AddsOK, tableVars
<1>6. TInv'
  BY <1>1, <1>4, <1>5, TableKept, NoneConnects DEF Both, Quietly
<1>7. disturbed' = {} => LedOK(u)'
  <2> SUFFICES ASSUME disturbed' = {} PROVE LedOK(u)'
    OBVIOUS
  <2>1. links[l].started /\ disturbed = {}
    BY <1>1
  <2>2. links[l].id + 1 \in DOMAIN table /\ table[links[l].id + 1] = l
    BY <1>2, <2>1 DEF Both, RInv, RightInv, IdOK
  <2>3. Target(Call(u))' = Target(Call(u))
    BY <1>1, <1>4, TargetKept
  <2> QED BY <1>1, <1>2, <1>3, <1>4, <2>2, <2>3 DEF LedOK, Connecting, tableVars
<1>8. RInv'
  BY <1>1, <1>4, <1>7, RightKept DEF Both, Made, Numbers, callVars
<1> QED BY <1>6, <1>8

\* A connection is opened when nobody else connects and none to the target is
\* in the table.
LEMMA DialRight ==
  ASSUME Both, NEW u \in Users, Dial(u)
  PROVE  TInv' /\ RInv'
<1>r. PICK r : r = NewLinkTo(Target(Call(u)))
  OBVIOUS
<1>1. /\ pc[u] = "scan" /\ pc' = [pc EXCEPT ![u] = "room"]
      /\ (dirty[u] = "no" /\ Stops(u) = {}) \/ dirty[u] = "shrank"
      /\ links' = Append(links, r)
      /\ at' = [at EXCEPT ![u] = Len(links')]
      /\ disturbed' = IF \E w \in Users \ {u} : Connecting(w)
                      THEN disturbed \cup {"together"} ELSE disturbed
      /\ UNCHANGED <<world, tableVars, step, ref, callVars>>
  BY <1>r DEF Dial, ScanMisses, Goes
<1>2. PICK n : n = Len(links')
  OBVIOUS
<1>3. /\ r.to = Target(Call(u)) /\ ~r.started
      /\ n \in Numbers' /\ links'[n] = r /\ at'[u] = n /\ Numbers' = Numbers \cup {n}
      /\ \A l \in Numbers : links'[l] = links[l]
      /\ \A w \in Users \ {u} : at'[w] = at[w]
  <2> DEFINE S == LinkType \cup {r}
  <2>0. links \in Seq(LinkType) /\ LinkType \subseteq S
    BY DEF Both, IInv, TypeOK
  <2>1. links \in Seq(S) /\ r \in S
    BY <2>0, SeqMonotonic
  <2> HIDE DEF S
  <2>2. /\ n = Len(links) + 1 /\ links'[n] = r /\ Len(links) \in Nat /\ links' \in Seq(S)
        /\ \A l \in 1..Len(links) : links'[l] = links[l]
    BY <1>1, <1>2, <2>1, AppendProperties, LenProperties
  <2>3. Numbers = 1..Len(links) /\ Numbers' = 1..n
    BY <1>2, <2>1, <2>2, LenProperties DEF Numbers
  <2>4. at'[u] = n /\ \A w \in Users \ {u} : at'[w] = at[w]
    BY <1>1, <1>2 DEF Both, IInv, TypeOK
  <2> QED BY <1>r, <2>2, <2>3, <2>4 DEF NewLinkTo
<1>4. /\ Settled({u}) /\ pc'[u] = "room" /\ step'[u] = step[u]
      /\ \A w \in Users \ {u} : pc'[w] = pc[w]
  BY <1>1, <1>3, OneMoves DEF Both, tableVars
<1>5. Quietly' => OneConnects' /\ AddsOK(u)'
  <2> SUFFICES ASSUME Quietly' PROVE OneConnects' /\ AddsOK(u)'
    OBVIOUS
  <2>1. TableInv /\ \A w \in Users \ {u} : ~Connecting(w)
    BY <1>1 DEF Both, TInv, Quietly
  <2>2. OneConnects'
    BY <1>4, <2>1 DEF OneConnects, Connecting
  <2>3. Stops(u) = {} /\ dirty[u] = "no"
    BY <1>1, <2>1 DEF TableInv, AddsOK
  <2>4. \A i \in DOMAIN table : table[i] \in Numbers /\ links[table[i]].to # Target(Call(u))
    BY <2>3, LeadTo DEF Both, Stops
  <2>5. AddsOK(u)'
    BY <1>1, <1>3, <1>4, <2>3, <2>4 DEF AddsOK, Unknown, tableVars
  <2> QED BY <2>2, <2>5
<1>6. TInv'
  BY <1>4, <1>5, TableKept DEF Both
<1>7. LedOK(u)'
  <2>1. Target(Call(u))' = Target(Call(u))
    BY <1>1, <1>4, TargetKept
  <2> QED BY <1>3, <1>4, <2>1 DEF LedOK
<1>8. \A l \in Numbers' : \/ l \in Numbers /\ links'[l].id = links[l].id
                             /\ links'[l].started = links[l].started
                          \/ disturbed' = {} => IdOK(l)'
  BY <1>3 DEF IdOK
<1>9. RInv'
  BY <1>1, <1>4, <1>7, <1>8, RightKept DEF Both, Made, callVars
<1> QED BY <1>6, <1>9

\* There is room for a connection or it is disturbed.
LEMMA RoomRight ==
  ASSUME Both, NEW u \in Users, CheckRoom(u)
  PROVE  TInv' /\ RInv'
<1>1. /\ pc[u] = "room"
      /\ UNCHANGED <<world, links, tableVars, step, at, ref, callVars>>
      /\ \/ pc' = [pc EXCEPT ![u] = "id"] /\ disturbed' = disturbed \cup {"full"}
         \/ Len(table) < world.room /\ pc' = [pc EXCEPT ![u] = "add"] /\ disturbed' = disturbed
  BY DEF CheckRoom, Goes
<1>2. /\ Settled({u}) /\ step'[u] = step[u]
      /\ \/ pc'[u] = "id" /\ disturbed' = disturbed \cup {"full"}
         \/ Len(table) < world.room /\ pc'[u] = "add" /\ disturbed' = disturbed
      /\ \A w \in Users : Connecting(w)' => Connecting(w)
  <2>1. \A l \in Numbers : l \in Numbers' /\ links'[l].to = links[l].to
    BY <1>1 DEF Numbers
  <2>2. Connecting(u)
    BY <1>1 DEF Connecting
  <2> QED BY <1>1, <2>1, <2>2, OneMoves DEF Both, tableVars
<1>3. Quietly' => Quietly
  BY <1>2 DEF Quietly
<1>4. Quietly' => AddsOK(u)'
  <2> SUFFICES ASSUME Quietly' PROVE AddsOK(u)'
    OBVIOUS
  <2>1. AddsOK(u) /\ Unknown(u)
    BY <1>1, <1>3 DEF Both, TInv, TableInv, AddsOK
  <2> QED BY <1>1, <1>2, <2>1 DEF AddsOK, Unknown, tableVars
<1>5. TInv'
  BY <1>2, <1>3, <1>4, TableKept, NoneConnects DEF Both
<1>6. disturbed' = {} => LedOK(u)'
  <2> SUFFICES ASSUME disturbed' = {} PROVE LedOK(u)'
    OBVIOUS
  <2>1. links[at[u]].to = Target(Call(u)) /\ pc'[u] = "add"
    BY <1>1, <1>2 DEF Both, RInv, RightInv, LedOK, Connecting
  <2>2. Target(Call(u))' = Target(Call(u))
    BY <1>1, <1>2, TargetKept
  <2> QED BY <1>1, <2>1, <2>2 DEF LedOK
<1>7. RInv'
  BY <1>1, <1>2, <1>6, RightKept DEF Both, Made, Numbers, callVars
<1> QED BY <1>5, <1>7

\* The size is read while nobody else adds.
LEMMA AddRight ==
  ASSUME Both, NEW u \in Users, Add(u)
  PROVE  TInv' /\ RInv'
<1>1. /\ pc[u] = "add" /\ pc' = [pc EXCEPT ![u] = "store"]
      /\ seen' = [seen EXCEPT ![u] = Len(table)]
      /\ dirty' = [w \in Users |-> IF pc[w] = "scan" THEN "grew" ELSE dirty[w]]
      /\ UNCHANGED <<world, links, table, step, at, ref, callVars, disturbed>>
  BY DEF Add, Noticed, Goes
<1>2. /\ Settled({u}) /\ step'[u] = step[u] /\ pc'[u] = "store"
      /\ \A w \in Users : Connecting(w)' => Connecting(w)
      /\ seen'[u] = Len(table) /\ dirty'[u] = dirty[u]
  <2>1. \A l \in Numbers : l \in Numbers' /\ links'[l].to = links[l].to
    BY <1>1 DEF Numbers
  <2>2. Connecting(u)
    BY <1>1 DEF Connecting
  <2>3. /\ seen'[u] = Len(table) /\ dirty'[u] = dirty[u]
        /\ \A w \in Users \ {u} : seen'[w] = seen[w] /\ (dirty[w] # "shrank" => dirty'[w] # "shrank")
    BY <1>1 DEF Both, IInv, TypeOK
  <2> QED BY <1>1, <2>1, <2>2, <2>3, OneMoves DEF Both
<1>3. Quietly' => AddsOK(u)'
  <2> SUFFICES ASSUME Quietly' PROVE AddsOK(u)'
    OBVIOUS
  <2>1. AddsOK(u) /\ Unknown(u) /\ Len(table) < world.room
    BY <1>1 DEF Both, TInv, TableInv, AddsOK, Quietly
  <2> QED BY <1>1, <1>2, <2>1 DEF AddsOK, Unknown
<1>4. TInv'
  BY <1>1, <1>2, <1>3, TableKept, NoneConnects DEF Both, Quietly
<1>5. disturbed' = {} => LedOK(u)'
  <2> SUFFICES ASSUME disturbed' = {} PROVE LedOK(u)'
    OBVIOUS
  <2>1. links[at[u]].to = Target(Call(u))
    BY <1>1 DEF Both, RInv, RightInv, LedOK, Connecting
  <2>2. Target(Call(u))' = Target(Call(u))
    BY <1>1, <1>2, TargetKept
  <2> QED BY <1>1, <1>2, <2>1, <2>2 DEF LedOK
<1>6. RInv'
  BY <1>1, <1>2, <1>5, RightKept DEF Both, Made, Numbers, callVars
<1> QED BY <1>4, <1>6

\* The entry goes behind the others, as nobody else changed the table.
LEMMA StoreRight ==
  ASSUME Both, NEW u \in Users, Store(u)
  PROVE  TInv' /\ RInv'
<1>n. PICK n : n = Len(table)
  OBVIOUS
<1>1. /\ pc[u] = "store" /\ pc' = [pc EXCEPT ![u] = "id"]
      /\ table' = [i \in 1..(seen[u] + 1) |->
                     IF i = seen[u] + 1 THEN at[u]
                     ELSE IF i \in DOMAIN table THEN table[i] ELSE NoLink]
      /\ seen' = [seen EXCEPT ![u] = 0]
      /\ UNCHANGED <<world, links, dirty, step, at, ref, callVars, disturbed>>
  BY DEF Store, Goes
<1>2. /\ pc'[u] = "id" /\ \A w \in Users \ {u} : pc'[w] = pc[w] /\ seen'[w] = seen[w]
      /\ at[u] \in Numbers /\ at[u] # NoLink /\ Connecting(u) /\ Numbers' = Numbers
      /\ \A w \in Users : Connecting(w)' => Connecting(w)
  <2>1. /\ pc'[u] = "id" /\ \A w \in Users \ {u} : pc'[w] = pc[w] /\ seen'[w] = seen[w]
    BY <1>1 DEF Both, IInv, TypeOK
  <2>2. at[u] \in Numbers /\ at[u] # NoLink
    BY <1>1, LeadTo DEF Both, Located, NoLink
  <2> QED BY <1>1, <2>1, <2>2 DEF Connecting, Numbers
<1> SUFFICES ASSUME Quietly PROVE TableInv' /\ RInv'
  BY <1>1 DEF TInv, RInv, Quietly
<1>3. TableInv /\ AddsOK(u) /\ seen[u] = n /\ n < world.room /\ Unknown(u) /\ n \in Nat
  BY <1>1, <1>n, LeadTo DEF Both, TInv, TableInv, AddsOK
<1>4. /\ DOMAIN table = 1..n /\ DOMAIN table' = 1..(n + 1) /\ Len(table') = n + 1
      /\ table'[n + 1] = at[u] /\ \A i \in 1..n : table'[i] = table[i] /\ table[i] \in Numbers
  <2>1. DOMAIN table = 1..n
    BY <1>n, LeadTo DEF Both
  <2>2. DOMAIN table' = 1..(n + 1) /\ table'[n + 1] = at[u]
    BY <1>1, <1>3
  <2>3. \A i \in 1..n : table'[i] = table[i]
    BY <1>1, <1>3, <2>1
  <2>4. table' \in Seq(Numbers' \cup {NoLink})
    BY QuietSteps DEF Both, IInv, TypeOK
  <2>5. Len(table') = n + 1
    <3>1. Len(table') \in Nat /\ DOMAIN table' = 1..Len(table')
      BY <2>4, LenProperties
    <3> QED BY <1>3, <2>2, <3>1
  <2>6. \A i \in 1..n : table[i] \in Numbers
    BY <1>3, <2>1, LeadTo DEF Both, TableInv, EntriesOK
  <2> QED BY <2>1, <2>2, <2>3, <2>5, <2>6
<1>5. EntriesOK'
  <2>1. Len(table') <= world'.room
    <3>1. world.room \in Nat
      BY WorldsAssumption DEF Both, IInv, WorldType
    <3> QED BY <1>1, <1>3, <1>4, <3>1
  <2>2. \A i \in 1..(n + 1) : table'[i] # NoLink
    BY <1>2, <1>3, <1>4 DEF TableInv, EntriesOK
  <2>3. \A i, j \in 1..(n + 1) : links[table'[i]].to = links[table'[j]].to => i = j
    <3>1. \A i \in 1..n : links[table'[i]].to # links[table'[n + 1]].to
      BY <1>3, <1>4 DEF Unknown
    <3>2. \A i, j \in 1..n : links[table'[i]].to = links[table'[j]].to => i = j
      BY <1>3, <1>4 DEF TableInv, EntriesOK
    <3>3. \A i \in 1..(n + 1) : i \in 1..n \/ i = n + 1
      BY <1>3
    <3> QED BY <3>1, <3>2, <3>3
  <2>4. DOMAIN table' = 1..(n + 1) /\ links' = links
    BY <1>1, <1>4
  <2> QED BY <2>1, <2>2, <2>3, <2>4 DEF EntriesOK
<1>6. OneConnects'
  BY <1>2, <1>3 DEF TableInv, OneConnects
<1>7. ASSUME NEW w \in Users PROVE AddsOK(w)'
  <2>1. dirty'[w] # "shrank"
    BY <1>1, <1>3 DEF TableInv, AddsOK
  <2>2. pc'[w] \notin {"room", "add", "store"}
    <3>1. CASE w = u
      BY <1>2, <3>1
    <3>2. CASE w # u
      BY <1>2, <1>3, <3>2 DEF TableInv, OneConnects, Connecting
    <3> QED BY <3>1, <3>2
  <2> QED BY <2>1, <2>2 DEF AddsOK
<1>8. ASSUME disturbed = {} PROVE RightInv'
  <2>1. RightInv
    BY <1>8 DEF Both, RInv
  <2>2. ASSUME NEW l \in Numbers PROVE IdOK(l)'
    BY <1>1, <1>3, <1>4, <2>1 DEF RightInv, IdOK
  <2>3. ASSUME NEW w \in Users PROVE LedOK(w)'
    <3>1. LedOK(w) /\ Target(Call(w))' = Target(Call(w))
      BY <1>1, <2>1, TargetKept DEF RightInv
    <3>2. CASE w = u
      <4>1. links[at[u]].to = Target(Call(u))
        BY <1>2, <3>1, <3>2 DEF LedOK
      <4> QED BY <1>1, <1>2, <1>3, <1>4, <3>1, <3>2, <4>1 DEF LedOK
    <3>3. CASE w # u
      <4>1. ~Connecting(w) /\ pc'[w] = pc[w]
        BY <1>2, <1>3, <3>3 DEF TableInv, OneConnects
      <4>2. pc[w] # "id" /\ ~Connecting(w)'
        BY <4>1 DEF Connecting
      <4> QED BY <1>1, <1>3, <1>4, <3>1, <4>1, <4>2 DEF LedOK
    <3> QED BY <3>2, <3>3
  <2>4. ASSUME NEW c \in Made' PROVE SentOK(c)'
    <3>1. c \in Made /\ via'[c] = via[c] /\ Target(c)' = Target(c)
      BY <1>1, TargetKept DEF Made, callVars
    <3> QED BY <1>1, <2>1, <3>1 DEF RightInv, SentOK
  <2> QED BY <1>2, <2>2, <2>3, <2>4 DEF RightInv
<1> QED BY <1>1, <1>5, <1>6, <1>7, <1>8 DEF TableInv, RInv

\* The id is that of the entry behind the others, which is its own.
LEMMA TakeIdRight ==
  ASSUME Both, NEW u \in Users, TakeId(u)
  PROVE  TInv' /\ RInv'
<1>l. PICK l : l = at[u]
  OBVIOUS
<1>n. PICK n : n = Len(table) - 1
  OBVIOUS
<1>1. /\ pc[u] = "id" /\ pc' = [pc EXCEPT ![u] = "get"]
      /\ links' = [links EXCEPT ![l].id = n, ![l].started = TRUE]
      /\ ref' = [ref EXCEPT ![u] = n]
      /\ UNCHANGED <<world, tableVars, step, at, callVars, disturbed>>
  BY <1>l, <1>n DEF TakeId, Goes
<1>2. /\ l \in Numbers /\ Numbers' = Numbers
      /\ links'[l].to = links[l].to /\ links'[l].id = n /\ links'[l].started
      /\ \A k \in Numbers \ {l} : links'[k] = links[k]
  <2>1. l \in Numbers /\ links[l] \in LinkType
    BY <1>1, <1>l, LeadTo, LinkIs DEF Both, IInv, Located
  <2>2. links'[l] = [links[l] EXCEPT !.id = n, !.started = TRUE]
    BY <1>1, <2>1 DEF Numbers
  <2>3. DOMAIN links' = DOMAIN links /\ \A k \in Numbers \ {l} : links'[k] = links[k]
    BY <1>1, <2>1 DEF Numbers
  <2> QED BY <2>1, <2>2, <2>3 DEF LinkType, Numbers
<1>3. /\ Settled({u}) /\ step'[u] = step[u] /\ pc'[u] = "get" /\ ref'[u] = n
      /\ \A w \in Users : Connecting(w)' => Connecting(w)
  <2>1. /\ ref'[u] = n /\ \A w \in Users \ {u} : ref'[w] = ref[w]
    BY <1>1 DEF Both, IInv, TypeOK
  <2>2. Connecting(u)
    BY <1>1 DEF Connecting
  <2>3. \A k \in Numbers : k \in Numbers' /\ links'[k].to = links[k].to
    BY <1>2
  <2> QED BY <1>1, <2>1, <2>2, <2>3, OneMoves DEF Both, tableVars
<1>4. Quietly' => AddsOK(u)'
  BY <1>1, <1>3 DEF Both, TInv, TableInv, Quietly, AddsOK, tableVars
<1>5. TInv'
  BY <1>1, <1>3, <1>4, TableKept, NoneConnects DEF Both, Quietly
<1>6. ASSUME disturbed = {}
      PROVE  n + 1 \in DOMAIN table /\ table[n + 1] = l /\ links[l].to = Target(Call(u))
  <2>1. LedOK(u)
    BY <1>6 DEF Both, RInv, RightInv
  <2>2. Len(table) \in DOMAIN table /\ table[Len(table)] = l /\ links[l].to = Target(Call(u))
    BY <1>1, <1>l, <2>1 DEF LedOK, Connecting
  <2>3. n + 1 = Len(table)
    BY <1>n, LeadTo DEF Both
  <2> QED BY <2>2, <2>3
<1>7. disturbed' = {} => LedOK(u)'
  <2>1. Target(Call(u))' = Target(Call(u))
    BY <1>1, <1>3, TargetKept
  <2> QED BY <1>1, <1>2, <1>3, <1>6, <2>1 DEF LedOK, Connecting, tableVars
<1>8. disturbed' = {} => IdOK(l)'
  BY <1>1, <1>2, <1>6 DEF IdOK, tableVars
<1>9. RInv'
  BY <1>1, <1>2, <1>3, <1>7, <1>8, RightKept DEF Both, Made, callVars
<1> QED BY <1>5, <1>9

\* The id leads to a connection to the target.
LEMMA GetRight ==
  ASSUME Both, NEW u \in Users, Get(u)
  PROVE  TInv' /\ RInv'
<1>l. PICK l : l = table[ref[u] + 1]
  OBVIOUS
<1>1. /\ pc[u] = "get" /\ pc' = [pc EXCEPT ![u] = "write"]
      /\ at' = [at EXCEPT ![u] = l] /\ ref' = [ref EXCEPT ![u] = 0]
      /\ UNCHANGED <<world, links, tableVars, step, callVars, disturbed>>
  BY <1>l DEF Get, Goes
<1>2. /\ Settled({u}) /\ step'[u] = step[u] /\ pc'[u] = "write" /\ at'[u] = l
      /\ \A w \in Users : Connecting(w)' => Connecting(w)
  <2>1. /\ at'[u] = l /\ \A w \in Users \ {u} : at'[w] = at[w] /\ ref'[w] = ref[w]
    BY <1>1 DEF Both, IInv, TypeOK
  <2>2. \A k \in Numbers : k \in Numbers' /\ links'[k].to = links[k].to
    BY <1>1 DEF Numbers
  <2>3. ~Connecting(u)'
    BY <1>1 DEF Connecting, Both, IInv, TypeOK
  <2> QED BY <1>1, <2>1, <2>2, <2>3, OneMoves DEF Both, tableVars
<1>3. Quietly' => AddsOK(u)'
  BY <1>1, <1>2 DEF Both, TInv, TableInv, Quietly, AddsOK, tableVars
<1>4. TInv'
  BY <1>1, <1>2, <1>3, TableKept, NoneConnects DEF Both, Quietly
<1>5. disturbed' = {} => LedOK(u)'
  <2>1. Target(Call(u))' = Target(Call(u))
    BY <1>1, <1>2, TargetKept
  <2>2. disturbed = {} => links[l].to = Target(Call(u))
    BY <1>1, <1>l DEF Both, RInv, RightInv, LedOK
  <2> QED BY <1>1, <1>2, <2>1, <2>2 DEF LedOK
<1>6. RInv'
  BY <1>1, <1>2, <1>5, RightKept DEF Both, Made, Numbers, callVars
<1> QED BY <1>4, <1>6

\* A field of a connection changes that the table does not look at.
SameLinks ==
  /\ Numbers' = Numbers
  /\ \A k \in Numbers : /\ links'[k].to = links[k].to /\ links'[k].id = links[k].id
                        /\ links'[k].started = links[k].started

\* The request is written to the connection the id led to.
LEMMA WriteRight ==
  ASSUME Both, NEW u \in Users, Write(u)
  PROVE  TInv' /\ RInv'
<1>l. PICK l : l = at[u]
  OBVIOUS
<1>c. PICK c : c = Call(u)
  OBVIOUS
<1>1. /\ pc[u] = "write" /\ pc' = [pc EXCEPT ![u] = "register"]
      /\ links' = [links EXCEPT ![l].out = Append(@, c)]
      /\ via' = [via EXCEPT ![c] = l]
      /\ UNCHANGED <<world, tableVars, step, at, ref, disturbed>>
  BY <1>l, <1>c DEF Write, Goes
<1>2. SameLinks /\ l \in Numbers
  <2>1. l \in Numbers /\ links[l] \in LinkType
    BY <1>1, <1>l, LeadTo, LinkIs DEF Both, IInv, Located
  <2>2. links'[l] = [links[l] EXCEPT !.out = Append(@, c)]
    BY <1>1, <2>1 DEF Numbers
  <2>3. DOMAIN links' = DOMAIN links /\ \A k \in Numbers \ {l} : links'[k] = links[k]
    BY <1>1, <2>1 DEF Numbers
  <2> QED BY <2>1, <2>2, <2>3 DEF LinkType, Numbers, SameLinks
<1>3. /\ Settled({u}) /\ step'[u] = step[u] /\ pc'[u] = "register"
      /\ \A w \in Users : Connecting(w)' => Connecting(w)
  <2>1. ~Connecting(u)'
    BY <1>1 DEF Connecting, Both, IInv, TypeOK
  <2>2. \A k \in Numbers : k \in Numbers' /\ links'[k].to = links[k].to
    BY <1>2 DEF SameLinks
  <2> QED BY <1>1, <2>1, <2>2, OneMoves DEF Both, tableVars
<1>4. Quietly' => AddsOK(u)'
  BY <1>1, <1>3 DEF Both, TInv, TableInv, Quietly, AddsOK, tableVars
<1>5. TInv'
  BY <1>1, <1>3, <1>4, TableKept, NoneConnects DEF Both, Quietly
<1>6. LedOK(u)'
  BY <1>3 DEF LedOK, Connecting
<1>7. \A d \in Made' : \/ d \in Made /\ via'[d] = via[d]
                       \/ disturbed' = {} => SentOK(d)'
  <2>1. c \in Calls /\ via \in [Calls -> Numbers \cup {NoLink}]
    BY <1>1, <1>c, CallIs DEF Both, IInv, TypeOK
  <2>2. via'[c] = l /\ \A d \in Calls \ {c} : via'[d] = via[d]
    BY <1>1, <2>1
  <2>3. \A d \in Made' \ {c} : d \in Made /\ via'[d] = via[d]
    BY <2>2 DEF Made
  <2>4. disturbed' = {} => SentOK(c)'
    <3>1. disturbed = {} => links[l].to = Target(c)
      BY <1>1, <1>l, <1>c DEF Both, RInv, RightInv, LedOK
    <3>2. Target(c)' = Target(c)
      BY <1>1, TargetKept
    <3> QED BY <1>1, <1>2, <2>2, <3>1, <3>2 DEF SentOK, SameLinks
  <2> QED BY <2>3, <2>4
<1>8. RInv'
  BY <1>2, <1>3, <1>6, <1>7, RightKept DEF Both, SameLinks
<1> QED BY <1>5, <1>8

\* A future is registered.
LEMMA RegisterRight ==
  ASSUME Both, NEW u \in Users, Register(u)
  PROVE  TInv' /\ RInv'
<1>l. PICK l : l = at[u]
  OBVIOUS
<1>c. PICK c : c = Call(u)
  OBVIOUS
<1>1. /\ pc[u] = "register" /\ pc' = [pc EXCEPT ![u] = "wait"]
      /\ links' = [links EXCEPT ![l].futures[Key(c)] = c]
      /\ UNCHANGED <<world, tableVars, step, at, ref, via, disturbed>>
  BY <1>l, <1>c DEF Register, Goes
<1>2. SameLinks
  <2>1. l \in Numbers /\ links[l] \in LinkType
    BY <1>1, <1>l, LeadTo, LinkIs DEF Both, IInv, Located
  <2>2. links'[l] = [links[l] EXCEPT !.futures[Key(c)] = c]
    BY <1>1, <2>1 DEF Numbers
  <2>3. DOMAIN links' = DOMAIN links /\ \A k \in Numbers \ {l} : links'[k] = links[k]
    BY <1>1, <2>1 DEF Numbers
  <2> QED BY <2>1, <2>2, <2>3 DEF LinkType, Numbers, SameLinks
<1>3. /\ Settled({u}) /\ step'[u] = step[u] /\ pc'[u] = "wait"
      /\ \A w \in Users : Connecting(w)' => Connecting(w)
  <2>1. ~Connecting(u)'
    BY <1>1 DEF Connecting, Both, IInv, TypeOK
  <2>2. \A k \in Numbers : k \in Numbers' /\ links'[k].to = links[k].to
    BY <1>2 DEF SameLinks
  <2> QED BY <1>1, <2>1, <2>2, OneMoves DEF Both, tableVars
<1>4. Quietly' => AddsOK(u)'
  BY <1>1, <1>3 DEF Both, TInv, TableInv, Quietly, AddsOK, tableVars
<1>5. TInv'
  BY <1>1, <1>3, <1>4, TableKept, NoneConnects DEF Both, Quietly
<1>6. LedOK(u)'
  BY <1>3 DEF LedOK, Connecting
<1>7. RInv'
  BY <1>1, <1>2, <1>3, <1>6, RightKept DEF Both, Made, SameLinks
<1> QED BY <1>5, <1>7

\* A step of the network that leaves the table alone.
LEMMA NetRight ==
  ASSUME Both, SameLinks, UNCHANGED <<world, tableVars, pc, step, at, ref, via, disturbed>>
  PROVE  TInv' /\ RInv'
<1>1. Settled({}) /\ \A w \in Users : Connecting(w)' => Connecting(w)
  BY DEF Settled, SameLinks, Connecting, tableVars
<1>2. TInv'
  BY <1>1, TableKept, NoneConnects DEF Both, Quietly
<1>3. RInv'
  BY <1>1, RightKept DEF Both, Made, SameLinks
<1> QED BY <1>2, <1>3

\* What the ends of a connection do.
LEMMA EndsRight ==
  ASSUME Both, NEW l \in Numbers, Serve(l) \/ Hear(l) \/ Leave(l) \/ Shutdown(l)
  PROVE  TInv' /\ RInv'
<1>1. links[l] \in LinkType
  BY LinkIs DEF Both, IInv
<1>2. ASSUME NEW r, links' = [links EXCEPT ![l] = r],
             r.to = links[l].to, r.id = links[l].id, r.started = links[l].started
      PROVE  SameLinks
  BY <1>2 DEF SameLinks, Numbers
<1>3. CASE Serve(l)
  <2>1. PICK out, inb :
          links' = [links EXCEPT ![l] = [links[l] EXCEPT !.out = out, !.inb = inb]]
    BY <1>3 DEF Serve, Numbers
  <2>2. SameLinks
    BY <1>1, <1>2, <2>1 DEF LinkType
  <2> QED BY <1>3, <2>2, NetRight DEF Serve
<1>4. CASE Hear(l)
  <2>1. PICK inb, f :
          links' = [links EXCEPT ![l] = [links[l] EXCEPT !.inb = inb, !.futures = f]]
    <3>1. PICK m :
            LET a == Prefix(links[l].inb, m)[1]
                c == IF a = NewLine THEN None ELSE links[l].futures[Key(a)]
            IN links' = [links EXCEPT ![l].inb = Beyond(@, m),
                                      ![l].futures = IF c = None THEN @ ELSE [@ EXCEPT ![Key(a)] = None]]
      BY <1>4 DEF Hear
    <3>a. PICK a : a = Prefix(links[l].inb, m)[1]
      OBVIOUS
    <3>c. PICK c : c = IF a = NewLine THEN None ELSE links[l].futures[Key(a)]
      OBVIOUS
    <3>i. PICK inb : inb = Beyond(links[l].inb, m)
      OBVIOUS
    <3>f. PICK f : f = IF c = None THEN links[l].futures ELSE [links[l].futures EXCEPT ![Key(a)] = None]
      OBVIOUS
    <3>2. links' = [links EXCEPT ![l].inb = Beyond(@, m),
                                 ![l].futures = IF c = None THEN @ ELSE [@ EXCEPT ![Key(a)] = None]]
      BY <3>1, <3>a, <3>c
    <3>3. links' = [links EXCEPT ![l] = [links[l] EXCEPT !.inb = inb, !.futures = f]]
      BY <3>2, <3>i, <3>f DEF Numbers
    <3> QED BY <3>3
  <2>2. SameLinks
    BY <1>1, <1>2, <2>1 DEF LinkType
  <2> QED BY <1>4, <2>2, NetRight DEF Hear
<1>5. CASE Leave(l)
  <2>1. links' = [links EXCEPT ![l] = [links[l] EXCEPT !.state = "eof", !.out = <<>>]]
    BY <1>5 DEF Leave, Numbers
  <2>2. SameLinks
    BY <1>1, <1>2, <2>1 DEF LinkType
  <2> QED BY <1>5, <2>2, NetRight DEF Leave, callVars
<1>6. CASE Shutdown(l)
  <2>1. links' = [links EXCEPT ![l] = [links[l] EXCEPT !.state = "closed", !.out = <<>>, !.inb = <<>>]]
    BY <1>6 DEF Shutdown, Numbers
  <2>2. SameLinks
    BY <1>1, <1>2, <2>1 DEF LinkType
  <2>3. CASE Places(l) = {}
    BY <1>6, <2>2, <2>3, NetRight DEF Shutdown, callVars
  <2>4. CASE Places(l) # {}
    <3>1. "removed" \in disturbed'
      BY <1>6, <2>4 DEF Shutdown
    <3> QED BY <3>1 DEF TInv, RInv, Quietly
  <2> QED BY <2>3, <2>4
<1> QED BY <1>3, <1>4, <1>5, <1>6

\* Every step keeps the three.
LEMMA NextRight ==
  ASSUME Both, [Next]_vars
  PROVE  Both'
<1>1. IInv'
  BY NextKeeps DEF Both
<1>2. CASE \E u \in Users : UserStep(u)
  <2>1. PICK u \in Users : UserStep(u)
    BY <1>2
  <2>2. CASE ScanFails(u) \/ Refused(u) \/ GetFails(u) \/ WriteFails(u) \/ Return(u)
    <3>1. Proceed(u) /\ UNCHANGED <<world, links, table, via, disturbed>>
      BY <2>2 DEF ScanFails, Refused, GetFails, WriteFails, Return, Skip, callVars
    <3> QED BY <1>1, <3>1, SkipRight DEF Both
  <2>3. CASE Begin(u) \/ ScanFinds(u) \/ Dial(u) \/ CheckRoom(u) \/ Add(u) \/ Store(u)
    BY <1>1, <2>3, BeginRight, ScanRight, DialRight, RoomRight, AddRight, StoreRight DEF Both
  <2>4. CASE TakeId(u) \/ Get(u) \/ Write(u) \/ Register(u)
    BY <1>1, <2>4, TakeIdRight, GetRight, WriteRight, RegisterRight DEF Both
  <2> QED BY <2>1, <2>2, <2>3, <2>4 DEF UserStep
<1>3. CASE \E l \in DOMAIN links : Serve(l) \/ Hear(l) \/ Leave(l) \/ Shutdown(l)
  BY <1>1, <1>3, EndsRight DEF Both, Numbers
<1>4. CASE UNCHANGED vars
  <2>1. SameLinks /\ UNCHANGED <<world, tableVars, pc, step, at, ref, via, disturbed>>
    BY <1>4 DEF vars, callVars, SameLinks, Numbers
  <2> QED BY <1>1, <2>1, NetRight DEF Both
<1> QED BY <1>2, <1>3, <1>4 DEF Next, Progress

\* They hold at first.
LEMMA InitRight ==
  ASSUME Init
  PROVE  Both
<1>1. IInv
  BY InitIInv
<1>2. EntriesOK
  <2>1. world.room \in Nat \ {0}
    BY WorldsAssumption DEF Init, WorldType
  <2> QED BY <2>1 DEF Init, EntriesOK
<1>3. \A u \in Users : pc[u] \in {"begin", "done"} /\ dirty[u] = "no"
  BY DEF Init
<1>4. OneConnects /\ \A u \in Users : AddsOK(u) /\ LedOK(u)
  BY <1>3 DEF OneConnects, AddsOK, LedOK, Connecting
<1>5. Numbers = {} /\ Made = {}
  BY DEF Init, Numbers, Made
<1> QED BY <1>1, <1>2, <1>4, <1>5 DEF Both, TInv, RInv, TableInv, RightInv

\* The invariants hold in every state.
THEOREM TableInvariance == Spec => []Both
<1>1. Both /\ [Next]_vars => Both'
  BY NextRight
<1> QED BY InitRight, <1>1, PTL DEF Spec

\* peer_clients holds no null, no two connections to one peer and no more than
\* max-connections-in, while nothing was removed and no two threads connected
\* at once (Peer.java:40-52, 76-88).
THEOREM TableIsSound == Spec => []TableSound
<1>1. Both => TableSound
  BY DEF Both, TInv, Quietly, TableInv, EntriesOK, TableSound
<1> QED BY TableInvariance, <1>1, PTL

\* And if there was room, every request is written to the peer it is meant for.
THEOREM RequestsGoRight == Spec => []RightPeer
<1>1. Both => RightPeer
  BY DEF Both, RInv, RightInv, SentOK, RightPeer
<1> QED BY TableInvariance, <1>1, PTL
=============================================================================
