------------------------------ MODULE PeerLinks ------------------------------
(***************************************************************************)
(* The connections a peer opens to others, shared by the threads of its    *)
(* downloads (peer/src: Peer.connect and peer_clients, PeerClient), with   *)
(* the other ends of them (PeerServer).                                    *)
(*                                                                         *)
(* peer_clients is an ArrayList nobody locks: a thread that scans it while *)
(* another one changes it gets an exception or misses an entry, and an     *)
(* add reads the size before it writes the entry and the size.             *)
(*                                                                         *)
(* A call writes its request and only then registers a future under its    *)
(* command.  The other end takes what one read returns for one request,    *)
(* answers it and then writes a newline; the reader takes what one read    *)
(* returns for one answer, which completes the future of the command it    *)
(* begins with.  A future has no timeout.                                  *)
(***************************************************************************)
EXTENDS Integers, Sequences, FiniteSets

CONSTANTS
  Users,        \* the threads of the downloads
  Remotes,      \* the peers they connect to
  MaxBreaks,    \* bound: how many connections break
  Longest,      \* how many calls a download makes at most
  Worlds,       \* what a run may meet: see WorldType
  None          \* what a call has got that has no answer

AllMishaps == {"refused", "eof", "reset"}
Commands == {"interested", "getpieces", "getnothing"}
Keys == {"interested", "getpieces"}
Calls == Users \X (1..Longest)
MaxLinks == Cardinality(Calls)

\* The calls each user makes, in order, max-connections-in, and what may happen
\* to connections.
WorldType ==
  [script : [Users -> Seq([to : Remotes, cmd : Commands])],
   room : Nat \ {0}, mishaps : SUBSET AllMishaps]

ASSUME WorldsAssumption ==
  \A w \in Worlds : w \in WorldType /\ \A u \in Users : Len(w.script[u]) <= Longest
ASSUME BoundsAssumption == IsFiniteSet(Users) /\ {Longest, MaxBreaks} \subseteq Nat
ASSUME NoneAssumption == None \notin Calls

NoLink == 0
NewLine == <<>>

VARIABLES
  world,      \* the world this run is in
  links,      \* the PeerClients made so far
  table,      \* peer_clients: numbers of links; NoLink is a null
  pc,         \* where each user is
  step,       \* the call of its script it is at
  at,         \* the link it opens or uses
  ref,        \* the id connect returned to it
  seen,       \* the size its add read
  dirty,      \* what others did to the table since it began to scan it
  via,        \* the link each call was written to
  got,        \* the call whose answer each call got
  mixed,      \* calls that waited while another with their link and command did
  spoiled,    \* calls whose answer was dropped, given away or never sent
  disturbed   \* what can lead a user to another link than its own

tableVars == <<table, seen, dirty>>
callVars == <<via, got, mixed, spoiled>>
vars == <<world, links, tableVars, pc, step, at, ref, callVars, disturbed>>

Script == world.script

\* A getpieces for no piece is sent under the same command.
Target(c) == Script[c[1]][c[2]].to
Cmd(c) == Script[c[1]][c[2]].cmd
Key(c) == IF Cmd(c) = "interested" THEN "interested" ELSE "getpieces"

Init ==
  /\ world \in Worlds
  /\ links = <<>>
  /\ table = <<>>
  /\ pc = [u \in Users |-> IF Script[u] = <<>> THEN "done" ELSE "begin"]
  /\ step = [u \in Users |-> 1]
  /\ at = [u \in Users |-> NoLink]
  /\ ref = [u \in Users |-> 0]
  /\ seen = [u \in Users |-> 0]
  /\ dirty = [u \in Users |-> "no"]
  /\ via = [c \in Calls |-> NoLink]
  /\ got = [c \in Calls |-> None]
  /\ mixed = {}
  /\ spoiled = {}
  /\ disturbed = {}

-----------------------------------------------------------------------------
(* The users. *)

Call(u) == <<u, step[u]>>
Goes(u, from, to) == pc[u] = from /\ pc' = [pc EXCEPT ![u] = to]

\* Iterators of the others that are in the table notice a change.
Noticed(how) ==
  dirty' = [w \in Users |-> IF pc[w] = "scan" THEN how ELSE dirty[w]]

\* The next call is to be made; the iterator of this one is gone.
Proceed(u) ==
  /\ step' = [step EXCEPT ![u] = @ + 1]
  /\ pc' = [pc EXCEPT ![u] = IF step[u] = Len(Script[u]) THEN "done" ELSE "begin"]
  /\ dirty' = [dirty EXCEPT ![u] = "no"]
  /\ at' = [at EXCEPT ![u] = NoLink]
  /\ ref' = [ref EXCEPT ![u] = 0]
  /\ seen' = [seen EXCEPT ![u] = 0]

\* An exception, which the download catches.
Skip(u) ==
  /\ Proceed(u)
  /\ UNCHANGED <<world, links, table, callVars, disturbed>>

\* The loop of connect, with a new iterator.
Begin(u) ==
  /\ Goes(u, "begin", "scan")
  /\ UNCHANGED <<world, links, tableVars, step, at, ref, callVars, disturbed>>

\* Where the loop of connect ends: at a null or at a connection to the target.
Stops(u) ==
  {i \in DOMAIN table :
     table[i] = NoLink \/ links[table[i]].to = Target(Call(u))}
FirstStop(u) == CHOOSE i \in Stops(u) : \A j \in Stops(u) : i <= j

ScanFinds(u) ==
  /\ Goes(u, "scan", "get")
  /\ dirty[u] = "no"
  /\ Stops(u) # {}
  /\ LET l == table[FirstStop(u)]
     IN /\ l # NoLink
        /\ ref' = [ref EXCEPT ![u] = links[l].id]
        /\ disturbed' = IF links[l].started THEN disturbed ELSE disturbed \cup {"together"}
  /\ UNCHANGED <<world, links, tableVars, step, at, callVars>>

\* ConcurrentModificationException, or the null is dereferenced.
ScanFails(u) ==
  /\ pc[u] = "scan"
  /\ \/ dirty[u] # "no"
     \/ Stops(u) # {} /\ table[FirstStop(u)] = NoLink
  /\ Skip(u)

\* Nothing is found, also when a removal ends the loop early.
ScanMisses(u) ==
  /\ pc[u] = "scan"
  /\ \/ dirty[u] = "no" /\ Stops(u) = {}
     \/ dirty[u] = "shrank"

Refused(u) ==
  /\ ScanMisses(u)
  /\ "refused" \in world.mishaps
  /\ Skip(u)

NewLinkTo(r) ==
  [to |-> r, id |-> 0, state |-> "open", started |-> FALSE,
   out |-> <<>>, inb |-> <<>>, futures |-> [k \in Keys |-> None]]

Connecting(u) == pc[u] \in {"room", "add", "store", "id"}

\* The constructor of PeerClient, up to addPeerClient.
Dial(u) ==
  /\ ScanMisses(u)
  /\ Goes(u, "scan", "room")
  /\ links' = Append(links, NewLinkTo(Target(Call(u))))
  /\ at' = [at EXCEPT ![u] = Len(links')]
  /\ disturbed' = IF \E w \in Users \ {u} : Connecting(w)
                  THEN disturbed \cup {"together"} ELSE disturbed
  /\ UNCHANGED <<world, tableVars, step, ref, callVars>>

\* Mutant: one connection more than there is room for.
CheckRoomMore(u) ==
  /\ \/ Len(table) > world.room /\ Goes(u, "room", "id") /\ disturbed' = disturbed \cup {"full"}
     \/ Len(table) <= world.room /\ Goes(u, "room", "add") /\ UNCHANGED disturbed
  /\ UNCHANGED <<world, links, tableVars, step, at, ref, callVars>>

\* addPeerClient
CheckRoom(u) ==
  /\ \/ Len(table) >= world.room /\ Goes(u, "room", "id") /\ disturbed' = disturbed \cup {"full"}
     \/ Len(table) < world.room /\ Goes(u, "room", "add") /\ UNCHANGED disturbed
  /\ UNCHANGED <<world, links, tableVars, step, at, ref, callVars>>

\* ArrayList.add: the size is read ...
Add(u) ==
  /\ Goes(u, "add", "store")
  /\ seen' = [seen EXCEPT ![u] = Len(table)]
  /\ Noticed("grew")
  /\ UNCHANGED <<world, links, table, step, at, ref, callVars, disturbed>>

\* ... and the entry and the size are written.
Store(u) ==
  /\ Goes(u, "store", "id")
  /\ table' = [i \in 1..(seen[u] + 1) |->
                 IF i = seen[u] + 1 THEN at[u]
                 ELSE IF i \in DOMAIN table THEN table[i] ELSE NoLink]
  /\ seen' = [seen EXCEPT ![u] = 0]
  /\ UNCHANGED <<world, links, dirty, step, at, ref, callVars, disturbed>>

\* Mutant: the size is read before the connection is added.
TakeIdEarly(u) ==
  /\ Goes(u, "id", "get")
  /\ links' = [links EXCEPT ![at[u]].id = Len(table) - 2, ![at[u]].started = TRUE]
  /\ ref' = [ref EXCEPT ![u] = Len(table) - 2]
  /\ UNCHANGED <<world, tableVars, step, at, callVars, disturbed>>

\* Mutant: the reader is not started.
TakeIdIdle(u) ==
  /\ Goes(u, "id", "get")
  /\ links' = [links EXCEPT ![at[u]].id = Len(table) - 1]
  /\ ref' = [ref EXCEPT ![u] = Len(table) - 1]
  /\ UNCHANGED <<world, tableVars, step, at, callVars, disturbed>>

\* The rest of the constructor; connect starts the reader.
TakeId(u) ==
  /\ Goes(u, "id", "get")
  /\ links' = [links EXCEPT ![at[u]].id = Len(table) - 1, ![at[u]].started = TRUE]
  /\ ref' = [ref EXCEPT ![u] = Len(table) - 1]
  /\ UNCHANGED <<world, tableVars, step, at, callVars, disturbed>>

\* peer_clients.get(id)
Present(u) == ref[u] + 1 \in DOMAIN table /\ table[ref[u] + 1] # NoLink

Get(u) ==
  /\ Goes(u, "get", "write")
  /\ Present(u)
  /\ at' = [at EXCEPT ![u] = table[ref[u] + 1]]
  /\ ref' = [ref EXCEPT ![u] = 0]
  /\ UNCHANGED <<world, links, tableVars, step, callVars, disturbed>>

GetFails(u) ==
  /\ pc[u] = "get"
  /\ ~Present(u)
  /\ Skip(u)

Made == {c \in Calls : via[c] # NoLink}
Waiting == {c \in Made : got[c] = None}
Rivals(u) == {c \in Waiting : via[c] = at[u] /\ Key(c) = Key(Call(u))}

\* send: a write to an end that is gone succeeds once.
Write(u) ==
  /\ Goes(u, "write", "register")
  /\ links[at[u]].state # "closed"
  /\ links' = [links EXCEPT ![at[u]].out = Append(@, Call(u))]
  /\ via' = [via EXCEPT ![Call(u)] = at[u]]
  /\ mixed' = IF Rivals(u) = {} THEN mixed ELSE mixed \cup Rivals(u) \cup {Call(u)}
  /\ UNCHANGED <<world, tableVars, step, at, ref, got, spoiled, disturbed>>

WriteFails(u) ==
  /\ pc[u] = "write"
  /\ \/ links[at[u]].state = "closed"
     \/ links[at[u]].state = "eof" /\ links[at[u]].out # <<>>
  /\ Skip(u)

\* responseHandlers.put
Register(u) ==
  /\ Goes(u, "register", "wait")
  /\ links' = [links EXCEPT ![at[u]].futures[Key(Call(u))] = Call(u)]
  /\ spoiled' = spoiled \cup ({links[at[u]].futures[Key(Call(u))]} \ {None})
  /\ UNCHANGED <<world, tableVars, step, at, ref, via, got, mixed, disturbed>>

\* The future is completed.
Return(u) ==
  /\ pc[u] = "wait"
  /\ got[Call(u)] # None
  /\ Proceed(u)
  /\ UNCHANGED <<world, links, table, callVars, disturbed>>

UserStep(u) ==
  \/ Begin(u) \/ ScanFinds(u) \/ ScanFails(u) \/ Refused(u) \/ Dial(u)
  \/ CheckRoom(u) \/ Add(u) \/ Store(u) \/ TakeId(u) \/ Get(u) \/ GetFails(u)
  \/ Write(u) \/ WriteFails(u) \/ Register(u) \/ Return(u)

-----------------------------------------------------------------------------
(* The ends of a connection. *)

Prefix(s, m) == SubSeq(s, 1, m)
Beyond(s, m) == SubSeq(s, m + 1, Len(s))
AnswersIn(s) == {s[i] : i \in DOMAIN s} \ {NewLine}

\* PeerServer.processRequest: the first of the requests that one read returned
\* is answered, a getpieces only if nothing follows it.
Answered(batch) ==
  \/ Cmd(batch[1]) = "interested"
  \/ Cmd(batch[1]) = "getpieces" /\ Len(batch) = 1

\* Mutant: what is answered stays in the queue.
ServeRepeats(l) ==
  /\ links[l].state = "open"
  /\ \E m \in 1..Len(links[l].out) :
       LET batch == Prefix(links[l].out, m)
           replies == IF Answered(batch) THEN <<batch[1]>> ELSE <<>>
       IN /\ links' = [links EXCEPT ![l].inb = @ \o replies \o <<NewLine>>]
          /\ spoiled' = spoiled \cup (AnswersIn(batch) \ AnswersIn(replies))
  /\ UNCHANGED <<world, tableVars, pc, step, at, ref, via, got, mixed, disturbed>>

Serve(l) ==
  /\ links[l].state = "open"
  /\ \E m \in 1..Len(links[l].out) :
       LET batch == Prefix(links[l].out, m)
           replies == IF Answered(batch) THEN <<batch[1]>> ELSE <<>>
       IN /\ links' = [links EXCEPT ![l].out = Beyond(@, m),
                                    ![l].inb = @ \o replies \o <<NewLine>>]
          /\ spoiled' = spoiled \cup (AnswersIn(batch) \ AnswersIn(replies))
  /\ UNCHANGED <<world, tableVars, pc, step, at, ref, via, got, mixed, disturbed>>

\* Mutant: whatever is read completes the future of interested.
HearAny(l) ==
  /\ links[l].started
  /\ links[l].state # "closed"
  /\ \E m \in 1..Len(links[l].inb) :
       LET batch == Prefix(links[l].inb, m)
           a == batch[1]
           c == links[l].futures["interested"]
       IN /\ links' = [links EXCEPT ![l].inb = Beyond(@, m),
                                    ![l].futures["interested"] = None]
          /\ got' = IF c = None THEN got ELSE [got EXCEPT ![c] = a]
          /\ spoiled' = spoiled \cup (AnswersIn(batch) \ (IF c = a THEN {c} ELSE {}))
  /\ UNCHANGED <<world, tableVars, pc, step, at, ref, via, mixed, disturbed>>

\* PeerClient.run and processRequest: what one read returned is the answer it
\* begins with; it goes to whoever registered last for its command.
Hear(l) ==
  /\ links[l].started
  /\ links[l].state # "closed"
  /\ \E m \in 1..Len(links[l].inb) :
       LET batch == Prefix(links[l].inb, m)
           a == batch[1]
           c == IF a = NewLine THEN None ELSE links[l].futures[Key(a)]
       IN /\ links' = [links EXCEPT ![l].inb = Beyond(@, m),
                                    ![l].futures = IF c = None THEN @ ELSE [@ EXCEPT ![Key(a)] = None]]
          /\ got' = IF c = None THEN got ELSE [got EXCEPT ![c] = a]
          /\ spoiled' = spoiled \cup (AnswersIn(batch) \ (IF c = a THEN {c} ELSE {}))
  /\ UNCHANGED <<world, tableVars, pc, step, at, ref, via, mixed, disturbed>>

\* A connection breaks: at most MaxBreaks do, and none once all calls are over.
Breaks(l) ==
  /\ links[l].state = "open"
  /\ Cardinality({k \in DOMAIN links : links[k].state # "open"}) < MaxBreaks
  /\ \E u \in Users : pc[u] # "done"

\* The other end closes: what it wrote can be read, then read returns -1
\* again and again.
Leave(l) ==
  /\ "eof" \in world.mishaps
  /\ Breaks(l)
  /\ links' = [links EXCEPT ![l].state = "eof", ![l].out = <<>>]
  /\ UNCHANGED <<world, tableVars, pc, step, at, ref, callVars, disturbed>>

Places(l) == {i \in DOMAIN table : table[i] = l}

\* read throws: PeerClient.shutdown.
Shutdown(l) ==
  /\ links[l].started
  /\ \/ "reset" \in world.mishaps /\ Breaks(l)
     \/ links[l].state = "eof" /\ links[l].out # <<>>
  /\ links' = [links EXCEPT ![l].state = "closed", ![l].out = <<>>, ![l].inb = <<>>]
  /\ IF Places(l) = {} THEN UNCHANGED <<tableVars, disturbed>>
     ELSE LET i == CHOOSE j \in Places(l) : \A k \in Places(l) : j <= k
          IN /\ table' = Prefix(table, i - 1) \o Beyond(table, i)
             /\ Noticed("shrank")
             /\ disturbed' = disturbed \cup {"removed"}
             /\ UNCHANGED seen
  /\ UNCHANGED <<world, pc, step, at, ref, callVars>>

Progress ==
  \/ \E u \in Users : UserStep(u)
  \/ \E l \in DOMAIN links : Serve(l) \/ Hear(l)

Next == Progress \/ \E l \in DOMAIN links : Leave(l) \/ Shutdown(l)

\* Some thread that can go on does, of this peer or of the others: every call is
\* made once, so that this is as much as fairness for each of them.
Spec == Init /\ [][Next]_vars /\ WF_vars(Progress)

-----------------------------------------------------------------------------
(* Properties. *)

Numbers == DOMAIN links

LinkType ==
  [to : Remotes, id : Int, state : {"open", "eof", "closed"}, started : BOOLEAN,
   out : Seq(Calls), inb : Seq(Calls \cup {NewLine}), futures : [Keys -> Calls \cup {None}]]

TypeOK ==
  /\ links \in Seq(LinkType)
  /\ table \in Seq(Numbers \cup {NoLink})
  /\ pc \in [Users -> {"begin", "scan", "room", "add", "store", "id", "get", "write",
                       "register", "wait", "done"}]
  /\ step \in [Users -> Nat \ {0}]
  /\ at \in [Users -> Numbers \cup {NoLink}]
  /\ ref \in [Users -> Int]
  /\ seen \in [Users -> Nat]
  /\ dirty \in [Users -> {"no", "grew", "shrank"}]
  /\ via \in [Calls -> Numbers \cup {NoLink}]
  /\ got \in [Calls -> Calls \cup {None}]
  /\ mixed \subseteq Made /\ spoiled \subseteq Made
  /\ disturbed \subseteq {"together", "full", "removed"}

\* peer_clients holds no null, no two connections to one peer and no more
\* than max-connections-in, as long as nothing was removed and no two threads
\* were connecting at once (Peer.java:40-52, 76-88).
TableSound ==
  disturbed \subseteq {"full"} =>
    /\ Len(table) <= world.room
    /\ \A i \in DOMAIN table : table[i] # NoLink
    /\ \A i, j \in DOMAIN table : links[table[i]].to = links[table[j]].to => i = j

\* A request is written to the peer it is meant for, unless a connection was
\* removed, there was no room, or two threads were connecting at once: there
\* is no other way for an id to lead to another connection.
RightPeer == disturbed = {} => \A c \in Made : links[via[c]].to = Target(c)

\* The answers still to come: requests on their way or answers on theirs.
Owed ==
  UNION {AnswersIn(links[l].out) \cup AnswersIn(links[l].inb) : l \in DOMAIN links}

Promised ==
  INSTANCE Exchange WITH
    Kinds <- (1..MaxLinks) \X Keys,
    made <- Made,
    kind <- [c \in Calls |-> IF c \in Made THEN <<via[c], Key(c)>> ELSE <<1, "interested">>],
    owed <- Owed

\* Answers are matched to the calls that wait on the connection they come from
\* for the command they answer, each once (PeerClient.java:51-73, 133-172).  So
\* a call that shared its connection and command with no other one that waited
\* gets its own answer, whatever is merged, dropped or broken: ExchangeProofs.
AnswersMatched == Promised!Spec

\* A call ends, unless its answer was dropped (it came before the future was
\* registered or behind something else in one read), given to somebody else,
\* or never sent (the request was read behind another one, or asked for
\* nothing), its future was replaced, or its connection is gone.
CallsEnd ==
  <>[](\A c \in Waiting : c \in spoiled \/ links[via[c]].state # "open")
=============================================================================
