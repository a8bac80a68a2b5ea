------------------------------- MODULE Download -------------------------------
(***************************************************************************)
(* The download of one file (peer/src/Download.java): every peer the       *)
(* tracker gave is asked for its buffer map, the pieces are shared out     *)
(* between them, and each peer in turn is asked for its share, in as many  *)
(* messages as it takes.                                                   *)
(*                                                                         *)
(* A connection is found by an id that is its index in peer_clients when   *)
(* it was opened (Peer.java, PeerClient.java).  A connection that fails is  *)
(* taken out of that list and the ones behind it move up; when the list is *)
(* full a new connection is not put in it, and its id is that of the last. *)
(*                                                                         *)
(* An answer is heard as one read of the stream returns it: followed by    *)
(* the newline the server sends after it ("joined"), cut short ("cut"), or *)
(* not at all ("lost": the peer is gone, its answer was read before        *)
(* anybody waited for it, or it came behind the newline of the previous    *)
(* one), and then the download waits forever, as nothing ends the wait.    *)
(***************************************************************************)
EXTENDS Pieces

CONSTANTS
  Peers,        \* the peers getfile lists
  PieceLength,
  Width,        \* bits of a byte of the buffer map
  Worlds        \* what a download may meet: see WorldType

AllFaults == {"refused", "lost", "joined", "cut", "reset"}

\* The failures that may happen, what a peer may have, msg-max-size divided by
\* the piece length minus 1, max-connections-in, and the length of the file.
WorldType ==
  [faults : SUBSET AllFaults, holdings : SUBSET SUBSET Nat,
   most : Int, room : Nat \ {0}, length : Nat \ {0}]

ASSUME SizesAssumption ==
  /\ {PieceLength, Width} \subseteq Nat \ {0}
  /\ \A w \in Worlds :
       /\ w \in WorldType
       /\ w.holdings \subseteq SUBSET Numbers(NumPieces(w.length, PieceLength))
ASSUME PeersAssumption == IsFiniteSet(Peers) /\ Peers # {}

VARIABLES
  world,    \* the world this download is in
  holds,    \* what each peer has
  useful,   \* the answer to getfile, in its order
  clients,  \* peer_clients: who is connected, and the id of the connection
  pc,       \* where the download is
  at,       \* the peer of useful it is at
  link,     \* whom send_getpieces is talking to
  maps,     \* the buffer map heard for each peer
  plan,     \* the pieces to ask of each peer
  todo,     \* the messages still to send to this one
  parts,    \* the pieces its answers brought
  file      \* the pieces written

Length == world.length
n == NumPieces(Length, PieceLength)

netVars == <<world, holds, useful>>
vars == <<netVars, clients, pc, at, link, maps, plan, todo, parts, file>>

Orders(S) == {s \in [1..Cardinality(S) -> S] : \A i, j \in DOMAIN s : s[i] = s[j] => i = j}

Init ==
  /\ world \in Worlds
  /\ holds \in [Peers -> world.holdings]
  /\ useful \in Orders(Peers)
  /\ clients = <<>>
  /\ pc = "ask"
  /\ at = 1
  /\ link = useful[1]
  /\ maps = <<>>
  /\ plan = <<>>
  /\ todo = <<>>
  /\ parts = <<>>
  /\ file = <<>>

-----------------------------------------------------------------------------
(* Connections. *)

Links(p) == {k \in DOMAIN clients : clients[k].peer = p}

\* Mutant: addPeerClient adds whatever there is.
ConnectedAlways(p) ==
  IF Links(p) # {} THEN clients ELSE Append(clients, [peer |-> p, id |-> Len(clients)])

\* connect, when it succeeds: peer_clients and the id it returns.
Connected(p) ==
  IF Links(p) # {} \/ Len(clients) >= world.room THEN clients
  ELSE Append(clients, [peer |-> p, id |-> Len(clients)])
IdOf(p) ==
  IF Links(p) # {} THEN clients[Min(Links(p))].id ELSE Len(Connected(p)) - 1

\* peer_clients.get(id)
Reached(p) == Connected(p)[IdOf(p) + 1].peer
Reachable(p) == IdOf(p) + 1 <= Len(Connected(p))

\* What a read returns of an answer.
Heard(answer) ==
  {answer}
  \cup (IF "joined" \in world.faults THEN {Append(answer, NewLine)} ELSE {})
  \cup (IF "cut" \in world.faults THEN {SubSeq(answer, 1, k) : k \in 0..(Len(answer) - 1)} ELSE {})

\* A connection fails: the thread that reads it takes it out of the list.
Reset(k) ==
  /\ "reset" \in world.faults
  /\ pc \notin {"done", "stuck"}
  /\ clients' = RemoveAt(clients, k)
  /\ UNCHANGED <<netVars, pc, at, link, maps, plan, todo, parts, file>>

-----------------------------------------------------------------------------
(* The buffer maps. *)

Here == useful[at]
Asking == pc = "ask" /\ at <= Len(useful)

\* The connection is new, and refused.
Refused(p) == "refused" \in world.faults /\ Links(p) = {}

\* An exception is caught, and the next peer is asked.  A connection whose
\* write failed stays in the list until its reader fails too.
AskFails ==
  /\ Asking
  /\ \/ Refused(Here) /\ UNCHANGED clients
     \/ /\ ~Reachable(Here) \/ "reset" \in world.faults
        /\ clients' = Connected(Here)
  /\ at' = at + 1
  /\ UNCHANGED <<netVars, pc, link, maps, plan, todo, parts, file>>

AskLost ==
  /\ Asking
  /\ "lost" \in world.faults
  /\ Reachable(Here)
  /\ clients' = Connected(Here)
  /\ pc' = "stuck"
  /\ UNCHANGED <<netVars, at, link, maps, plan, todo, parts, file>>

\* Mutant: the map is that of the peer asked first.
AskFirst ==
  /\ Asking
  /\ Reachable(Here)
  /\ clients' = Connected(Here)
  /\ \E bytes \in Heard(ToBytes(holds[useful[1]], n, Width)) :
       maps' = With(maps, [p \in {Here} |-> ReadMap(bytes, n, Width)])
  /\ at' = at + 1
  /\ UNCHANGED <<netVars, pc, link, plan, todo, parts, file>>

\* interested, and the answer of the peer that is reached.
Ask ==
  /\ Asking
  /\ Reachable(Here)
  /\ clients' = Connected(Here)
  /\ \E bytes \in Heard(ToBytes(holds[Reached(Here)], n, Width)) :
       maps' = With(maps, [p \in {Here} |-> ReadMap(bytes, n, Width)])
  /\ at' = at + 1
  /\ UNCHANGED <<netVars, pc, link, plan, todo, parts, file>>

\* planDownloads; order is that of the hash map.
MakePlan ==
  /\ pc = "ask"
  /\ at > Len(useful)
  /\ \E order \in Orders(DOMAIN maps) : plan' = Plan(maps, order, n)
  /\ pc' = "fetch"
  /\ at' = 1
  /\ UNCHANGED <<netVars, clients, link, maps, todo, parts, file>>

-----------------------------------------------------------------------------
(* The pieces. *)

Full == DOMAIN file = Numbers(n)
Fetching == pc = "fetch" /\ at <= Len(useful) /\ ~Full

Finish ==
  /\ pc = "fetch"
  /\ at > Len(useful) \/ Full
  /\ pc' = "done"
  /\ UNCHANGED <<netVars, clients, at, link, maps, plan, todo, parts, file>>

\* The connection is refused, the id is that of no connection any more, or
\* there is no plan for this peer: exceptions.
FetchFails ==
  /\ Fetching
  /\ \/ Refused(Here) /\ UNCHANGED clients
     \/ /\ ~Reachable(Here) \/ Here \notin DOMAIN plan
        /\ clients' = Connected(Here)
  /\ at' = at + 1
  /\ UNCHANGED <<netVars, pc, link, maps, plan, todo, parts, file>>

\* send_getpieces: the peer is looked up once for all messages.
Fetch ==
  /\ Fetching
  /\ Reachable(Here)
  /\ Here \in DOMAIN plan
  /\ clients' = Connected(Here)
  /\ link' = Reached(Here)
  /\ todo' = Requests(plan[Here], world.most, n)
  /\ parts' = <<>>
  /\ IF todo' = <<>> THEN pc' = pc /\ at' = at + 1 ELSE pc' = "slice" /\ UNCHANGED at
  /\ UNCHANGED <<netVars, maps, plan, file>>

\* A request for no piece at all is answered by a newline, which is no
\* answer; a peer asked for what it does not have drops the connection.
Unanswered == todo[1] = {} \/ ~(todo[1] \subseteq holds[link])

SliceLost ==
  /\ pc = "slice"
  /\ "lost" \in world.faults \/ Unanswered
  /\ pc' = "stuck"
  /\ UNCHANGED <<netVars, clients, at, link, maps, plan, todo, parts, file>>

\* What this peer has already sent is dropped, and nobody is asked again.
GiveUp ==
  /\ at' = at + 1
  /\ todo' = <<>>
  /\ parts' = <<>>
  /\ pc' = "fetch"
  /\ UNCHANGED <<netVars, clients, link, maps, plan, file>>

\* The write fails, whether or not the reader has failed yet.
SliceFails ==
  /\ pc = "slice"
  /\ "reset" \in world.faults
  /\ GiveUp

Read(bytes) == ReadData(bytes, todo[1], n, Smaller(PieceLength, Length))

\* getpiecesResponse returns null.
SliceUnreadable ==
  /\ pc = "slice"
  /\ ~Unanswered
  /\ \E bytes \in Heard(DataOf(todo[1], Length, PieceLength)) : ~Read(bytes).ok
  /\ GiveUp

\* Mutant: only the last answer is written.
SliceReadForgets ==
  /\ pc = "slice"
  /\ ~Unanswered
  /\ \E bytes \in Heard(DataOf(todo[1], Length, PieceLength)) :
       /\ Read(bytes).ok
       /\ todo' = Tail(todo)
       /\ IF Len(todo) > 1
          THEN parts' = Read(bytes).got /\ UNCHANGED <<file, at, pc>>
          ELSE /\ file' = With(file, Read(bytes).got)
               /\ parts' = <<>>
               /\ at' = at + 1
               /\ pc' = "fetch"
  /\ UNCHANGED <<netVars, clients, link, maps, plan>>

\* One answer; the pieces are written once all of this peer's are there.
SliceRead ==
  /\ pc = "slice"
  /\ ~Unanswered
  /\ \E bytes \in Heard(DataOf(todo[1], Length, PieceLength)) :
       /\ Read(bytes).ok
       /\ todo' = Tail(todo)
       /\ IF Len(todo) > 1
          THEN parts' = With(parts, Read(bytes).got) /\ UNCHANGED <<file, at, pc>>
          ELSE /\ file' = With(With(file, parts), Read(bytes).got)
               /\ parts' = <<>>
               /\ at' = at + 1
               /\ pc' = "fetch"
  /\ UNCHANGED <<netVars, clients, link, maps, plan>>

Step ==
  \/ AskFails \/ AskLost \/ Ask \/ MakePlan
  \/ Finish \/ FetchFails \/ Fetch
  \/ SliceLost \/ SliceFails \/ SliceUnreadable \/ SliceRead

Next == Step \/ \E k \in DOMAIN clients : Reset(k)

\* The thread of the download is scheduled.
Spec == Init /\ [][Next]_vars /\ WF_vars(Step)

-----------------------------------------------------------------------------
(* Properties. *)

TypeOK ==
  /\ clients \in Seq([peer : Peers, id : 0..(world.room - 1)])
  /\ pc \in {"ask", "fetch", "slice", "done", "stuck"}
  /\ at \in 1..(Len(useful) + 1)
  /\ link \in Peers
  /\ DOMAIN maps \subseteq Peers /\ \A p \in DOMAIN maps : maps[p] \subseteq Numbers(n)
  /\ DOMAIN plan \subseteq Peers /\ \A p \in DOMAIN plan : plan[p] \subseteq Numbers(n)
  /\ todo \in Seq(SUBSET Numbers(n))
  /\ DOMAIN parts \subseteq Numbers(n) /\ DOMAIN file \subseteq Numbers(n)
  /\ Len(clients) <= world.room

Known == UNION {maps[p] : p \in DOMAIN maps}

\* Each piece somebody has is asked of exactly one peer, one that has it
\* (Download.java:90-116).
PlanSound ==
  pc \in {"fetch", "slice", "done"} =>
    \A i \in Numbers(n) :
      LET asked == {p \in DOMAIN plan : i \in plan[p]}
      IN /\ \A p \in asked : i \in maps[p]
         /\ Cardinality(asked) = IF i \in Known THEN 1 ELSE 0

\* The shares are even: whoever could have given all of another peer's share
\* is asked for at most one piece less (Download.java:107-114).
Balanced ==
  pc \in {"fetch", "slice", "done"} =>
    \A p, q \in DOMAIN plan :
      plan[p] \subseteq maps[q] => Cardinality(plan[p]) <= Cardinality(plan[q]) + 1

\* The map that is planned with is the one the peer sent (Peer.java:154-175,
\* InterestedMessage.java:14-36), and the peer it is planned for: with room for
\* every connection, and answers that come in one read.  But where the pieces
\* fill the bytes of the map, one byte more is read than was sent
\* (InterestedMessage.java:20, BufferMap.java:92): nobody then has anything.
MapsTrue ==
  world.faults = {} /\ world.room >= Cardinality(Peers) =>
    \A p \in DOMAIN maps : maps[p] = IF n % Width = 0 THEN {} ELSE holds[p]

Right(i) == file[i] = Piece(Length, PieceLength, i)

\* Whatever the stream does to the answers, a piece that is not the last of
\* the file is written whole or not at all (GetpiecesMessage.java:45-68).
InnerPiecesIntact == \A i \in DOMAIN file \ {n - 1} : Right(i)

\* Peer.java:200, "Ajouter la pièce de fichier": an answer carries the pieces
\* of the file, and they end up in their place, whichever connections fail, as
\* long as answers come in one read.  But of a file that is a whole number of
\* pieces the last one is empty (ManagedFile.java:76).
PiecesIntact ==
  world.faults \subseteq {"refused", "reset"} =>
    \A i \in DOMAIN file :
      IF i = n - 1 /\ Length % PieceLength = 0 THEN file[i] = <<>> ELSE Right(i)

\* A download that comes to its end has written every piece it was offered, if
\* no connection failed: no share, no message and no answer is forgotten.
NothingForgotten == world.faults = {} /\ pc = "done" => Known \subseteq DOMAIN file

\* When no answer is lost or hurt, a download whose plan gives every peer
\* something to send comes to its end, broken connections or not: each request
\* is one that is answered, each failure goes on with the next peer.  A limit
\* of no piece per message is the exception (PeerClient.java:87).
Served ==
  /\ world.faults \subseteq {"refused", "reset"}
  /\ world.most # 0
  /\ DOMAIN plan = Peers
  /\ \A p \in Peers : plan[p] # {} /\ plan[p] \subseteq holds[p]
EndsWhenServed == (pc = "fetch" /\ Served) ~> (pc = "done")

\* A download that is started comes to an end (P2PClientCLI.java, "download
\* <fileId>: Download the specified file").
DownloadEnds == <>(pc = "done")
=============================================================================
