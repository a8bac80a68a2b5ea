-------------------------- MODULE TrackerServerProofs --------------------------
(***************************************************************************)
(* Proofs about TrackerServer and PatientClients, for every set of hosts,  *)
(* ports, descriptors, keys and messages, and any number of workers.  The  *)
(* first part is about any clients: main forgets a peer list by list, file *)
(* by file and without the mutexes, and the lists stay well formed all the *)
(* same.  The second is about clients that wait for their answers: nothing *)
(* a handler does meets the peer main is forgetting.                       *)
(***************************************************************************)
EXTENDS PatientClients, HandlersProofs

Job == [fd : Fds, from : Remotes, m : Requests]

\* main is forgetting a peer, or in the pass over the ready descriptors.
Forgetting == {"forgetErrors", "forgetFiles", "forgetPeer"}
Walking == Forgetting \cup {"pass", "hangup"}

-----------------------------------------------------------------------------
(* The inductive invariant for any clients.  main receives on descriptors  *)
(* it selected: they are open, with something to receive, when it does.    *)

NetTyped ==
  /\ open \in [Fds -> Remotes \cup {NoConn}]
  /\ inbox \in [Fds -> Seq(Requests \cup {EndOfStream})]
  /\ backlog \subseteq Remotes

MainTyped ==
  /\ master \subseteq Fds
  /\ ready \subseteq Fds \cup {Listener}
  /\ pc \in Places
  /\ pc \in Forgetting => leaving \in Addr

PoolTyped ==
  /\ queue \in Seq(Job)
  /\ running \in [Workers -> Job \cup {NoJob}]
  /\ inside \in Workers \cup {NoJob}

ReadyOpen ==
  pc \in Walking => \A fd \in ready \cap Fds : open[fd] # NoConn /\ inbox[fd] # <<>>

SInv == ListsInv /\ NetTyped /\ MainTyped /\ PoolTyped /\ ReadyOpen

LEMMA SInvImplies ==
  ASSUME SInv
  PROVE  TypeOK /\ EntriesDistinct /\ EveryFileSeeded
BY ListsInvImplies DEF SInv, ListsInv, PeersInv, PeerEntry, NetTyped, MainTyped, PoolTyped,
                       Job, TypeOK

LEMMA InitSInv == Init => SInv
<1> SUFFICES ASSUME Init PROVE SInv
  OBVIOUS
<1>1. ListsInv
  BY InitLists DEF Init
<1>2. NetTyped
  BY EmptySeq DEF Init, NetTyped
<1>3. MainTyped /\ ReadyOpen
  BY DEF Init, MainTyped, ReadyOpen, Places, Forgetting, Walking
<1>4. PoolTyped
  BY EmptySeq DEF Init, PoolTyped, Pool!Init
<1> QED BY <1>1, <1>2, <1>3, <1>4 DEF SInv

\* The descriptor whose turn it is, is ready.
LEMMA TurnIs ==
  ASSUME SInv, NEW fd, Turn(fd)
  PROVE  fd \in ready
<1>1. ready \in SUBSET Nat /\ ready # {}
  BY FdsAssumption DEF SInv, MainTyped, Turn
<1>2. First(ready) \in ready
  BY <1>1, FirstIsOne
<1> QED BY <1>2 DEF Turn, First

\* What a thread handles is a message of the connection it came on.
LEMMA HandleIs ==
  ASSUME SInv, NEW w \in Workers, Handle(w)
  PROVE  LET j == running[w]
         IN /\ ListsInv
            /\ j # NoJob /\ j \in Job /\ j.fd \in Fds /\ j.from \in Remotes
            /\ j.m.op = "announce" => j.m \in AnnounceType
            /\ HandleClient(j.fd, j.from, j.m)
            /\ running' = [running EXCEPT ![w] = NoJob]
            /\ inside = w /\ inside' = NoJob
            /\ UNCHANGED <<queue, mainVars, netVars>>
BY RequestsAssumption DEF Handle, Pool!Finish, SInv, PoolTyped, Job

\* The steps that write the tables; the others leave them alone.
LEMMA TableSteps ==
  ASSUME [Next]_vars
  PROVE  \/ UNCHANGED handlerVars
         \/ ResetIt \/ ForgetErrors \/ ForgetPeer \/ Crash
         \/ \E k \in Keys : ForgetFile(k)
         \/ \E w \in Workers : Handle(w)
BY DEF Next, MainStep, ClientStep, WorkerStep, vars, CloseTest, CloseIt, ClearIt, Select,
       PassDone, AcceptFails, Accept, Recv, RecvEnd, FilesForgotten, HangupIt, Race, Broken, Take,
       Enter, Dial, Send, Leave

\* One file of the list without the peer that leaves.
LEMMA VisitedIs ==
  ASSUME NEW R, FilesOver(files, R), NEW k, NEW a
  PROVE  LET G == Visited(k, DropPeer(files, a))
         IN /\ FilesOver(G, R)
            /\ DOMAIN G \subseteq DOMAIN files
            /\ \A l \in DOMAIN files \ {k} : l \in DOMAIN G /\ G[l] = files[l]
            /\ \A l : Sources(G, l) \subseteq Sources(files, l)
            /\ a \notin Sources(G, k)
<1> DEFINE D == DropPeer(files, a)
           G == Visited(k, D)
<1>1. /\ FilesOver(D, R)
      /\ \A l \in DOMAIN D : l \in DOMAIN files /\ Sources(D, l) = Sources(files, l) \ {a}
  <2>1. FilesOver(D, R \ {a})
    BY DropOver
  <2>2. FilesOver(D, R)
    BY <2>1, FilesOverMore
  <2> QED BY <2>2, DropIs
<1>2. /\ DOMAIN G = (DOMAIN files \ {k}) \cup (DOMAIN D \cap {k})
      /\ \A l \in DOMAIN G : G[l] = IF l = k THEN D[l] ELSE files[l]
  BY DEF Visited
<1>3. G = [l \in DOMAIN G |-> G[l]]
  BY DEF Visited
<1> HIDE DEF D, G
<1>4. \A l \in DOMAIN G : l \in DOMAIN files /\ G[l] \in FileOver(R) /\ G[l].seed # {}
  BY <1>1, <1>2 DEF FilesOver
<1>5. FilesOver(G, R)
  BY <1>3, <1>4 DEF FilesOver
<1>6. \A l : Sources(G, l) \subseteq Sources(files, l)
  BY <1>1, <1>2 DEF Sources
<1>7. a \notin Sources(G, k)
  BY <1>1, <1>2 DEF Sources
<1> QED BY <1>2, <1>4, <1>5, <1>6, <1>7 DEF G, D

LEMMA ListsNext ==
  ASSUME SInv, [Next]_vars
  PROVE  ListsInv'
<1> USE DEF SInv
<1>1. CASE UNCHANGED handlerVars
  BY <1>1 DEF handlerVars, ListsInv, PeersInv, ErrsInv
<1>2. CASE ResetIt
  BY <1>2 DEF ResetIt, ListsInv, PeersInv, ErrsInv
<1>3. CASE ForgetErrors
  BY <1>3, WithoutFirstIs DEF ForgetErrors, ListsInv, PeersInv, ErrsInv
<1>4. CASE ForgetPeer
  BY <1>4, WithoutFirstIs DEF ForgetPeer, ListsInv, PeersInv, ErrsInv
<1>5. CASE Crash
  BY <1>5, CrashKeeps
<1>6. ASSUME NEW k \in Keys, ForgetFile(k) PROVE ListsInv'
  <2>1. FilesOver(files', Addr)
    BY <1>6, VisitedIs DEF ForgetFile, ListsInv
  <2> QED BY <1>6, <2>1 DEF ForgetFile, ListsInv, PeersInv, ErrsInv
<1>7. ASSUME NEW w \in Workers, Handle(w) PROVE ListsInv'
  BY <1>7, HandleIs, HandleClientKeeps
<1> QED BY <1>1, <1>2, <1>3, <1>4, <1>5, <1>6, <1>7, TableSteps

LEMMA PoolNext ==
  ASSUME SInv, [Next]_vars
  PROVE  PoolTyped'
<1> USE DEF SInv
<1>1. CASE UNCHANGED poolVars
  BY <1>1 DEF poolVars, PoolTyped
<1>2. ASSUME NEW fd \in Fds, Recv(fd) PROVE PoolTyped'
  <2> DEFINE j == [fd |-> fd, from |-> open[fd], m |-> Head(inbox[fd])]
  <2>1. open[fd] # NoConn /\ inbox[fd] # <<>>
    BY <1>2, TurnIs DEF Recv, MainAt, ReadyOpen, Walking
  <2>2. j \in Job
    <3>1. inbox[fd] \in Seq(Requests \cup {EndOfStream}) /\ open[fd] \in Remotes
      BY <2>1 DEF NetTyped
    <3>2. Head(inbox[fd]) \in Requests
      BY <1>2, <2>1, <3>1, HeadTailProperties DEF Recv
    <3> QED BY <3>1, <3>2 DEF Job
  <2>3. queue' = Append(queue, j) /\ UNCHANGED <<running, inside>>
    BY <1>2 DEF Recv, Pool!Push
  <2> HIDE DEF j
  <2> QED BY <2>2, <2>3, AppendProperties DEF PoolTyped
<1>3. ASSUME NEW w \in Workers, Take(w) PROVE PoolTyped'
  BY <1>3, HeadTailProperties DEF Take, Pool!Take, PoolTyped
<1>4. ASSUME NEW w \in Workers, Enter(w) PROVE PoolTyped'
  BY <1>4 DEF Enter, PoolTyped
<1>5. ASSUME NEW w \in Workers, Handle(w) PROVE PoolTyped'
  BY <1>5 DEF Handle, Pool!Finish, PoolTyped
<1>6. \/ UNCHANGED poolVars
      \/ \E fd \in Fds : Recv(fd)
      \/ \E w \in Workers : Take(w) \/ Enter(w) \/ Handle(w)
  BY DEF Next, MainStep, ClientStep, WorkerStep, vars, CloseTest, CloseIt, ClearIt, ResetIt,
         Select, PassDone, AcceptFails, Accept, RecvEnd, ForgetErrors, FilesForgotten,
         ForgetPeer, ForgetFile, HangupIt, Race, Broken, Dial, Send, Leave
<1> QED BY <1>1, <1>2, <1>3, <1>4, <1>5, <1>6

\* The steps that write what the network shows.
LEMMA NetSteps ==
  ASSUME [Next]_vars
  PROVE  \/ UNCHANGED netVars
         \/ CloseIt \/ HangupIt
         \/ \E c \in Remotes : Accept(c) \/ Dial(c)
         \/ \E fd \in Fds : Recv(fd) \/ Leave(fd) \/ \E m \in Requests : Send(fd, m)
BY DEF Next, MainStep, ClientStep, WorkerStep, vars, CloseTest, ClearIt, ResetIt,
       Select, PassDone, AcceptFails, RecvEnd, ForgetErrors, FilesForgotten,
       ForgetPeer, ForgetFile, Race, Broken, Take, Enter, Handle

LEMMA NetNext ==
  ASSUME SInv, [Next]_vars
  PROVE  NetTyped'
<1> USE DEF SInv
<1>1. CASE UNCHANGED netVars
  BY <1>1 DEF netVars, NetTyped
<1>2. ASSUME NEW fd, Hangup(fd), UNCHANGED backlog PROVE NetTyped'
  BY <1>2, EmptySeq DEF Hangup, NetTyped
<1>3. CASE CloseIt \/ HangupIt
  BY <1>2, <1>3 DEF CloseIt, HangupIt
<1>4. ASSUME NEW c \in Remotes, Accept(c) \/ Dial(c) PROVE NetTyped'
  BY <1>4 DEF Accept, Dial, NetTyped
<1>5. ASSUME NEW fd \in Fds, NEW s \in Seq(Requests \cup {EndOfStream}),
             inbox' = [inbox EXCEPT ![fd] = s], UNCHANGED <<open, backlog>>
      PROVE  NetTyped'
  BY <1>5 DEF NetTyped
<1>6. ASSUME NEW fd \in Fds, Recv(fd) PROVE NetTyped'
  <2>1. inbox[fd] # <<>> /\ inbox[fd] \in Seq(Requests \cup {EndOfStream})
    BY <1>6, TurnIs DEF Recv, MainAt, ReadyOpen, Walking, NetTyped
  <2>2. Tail(inbox[fd]) \in Seq(Requests \cup {EndOfStream})
    BY <2>1, HeadTailProperties
  <2> QED BY <1>5, <1>6, <2>2 DEF Recv
<1>7. ASSUME NEW fd \in Fds, NEW m \in Requests, Leave(fd) \/ Send(fd, m) PROVE NetTyped'
  BY <1>5, <1>7, AppendProperties DEF Leave, Send, NetTyped
<1>8. ASSUME NEW fd \in Fds, Leave(fd) PROVE NetTyped'
  BY <1>5, <1>8, AppendProperties DEF Leave, NetTyped
<1> QED BY <1>1, <1>3, <1>4, <1>6, <1>7, <1>8, NetSteps

\* The steps of main; the others leave it where it is.
LEMMA MainSteps ==
  ASSUME [Next]_vars
  PROVE  UNCHANGED mainVars \/ MainStep
BY DEF Next, ClientStep, WorkerStep, vars, Race, Broken, Take, Enter, Handle, Dial, Send, Leave

\* accept takes a descriptor that is free.
LEMMA AcceptIs ==
  ASSUME SInv, NEW c \in Remotes, Accept(c)
  PROVE  /\ Min(Free) \in Fds /\ open[Min(Free)] = NoConn
         /\ open' = [open EXCEPT ![Min(Free)] = c]
         /\ master' = master \cup {Min(Free)}
         /\ ready' = ready \ {Listener} /\ backlog' = backlog \ {c}
         /\ pc = "pass" /\ c \in backlog
<1>1. Free \in SUBSET Nat /\ Free # {}
  BY FdsAssumption DEF Accept, Free
<1>2. First(Free) \in Free
  BY <1>1, FirstIsOne
<1> QED BY <1>2 DEF First, Free, Accept, MainAt

\* The peer to forget is one that announced on the descriptor.
LEMMA RecvEndIs ==
  ASSUME SInv, NEW fd \in Fds, RecvEnd(fd)
  PROVE  /\ pc = "pass" /\ fd \in ready /\ fd = Min(ready)
         /\ inbox[fd] # <<>> /\ Head(inbox[fd]) = EndOfStream
         /\ \/ pc' = "hangup" /\ WithSocket(peers, fd) = {} /\ UNCHANGED leaving
            \/ /\ pc' = "forgetErrors" /\ leaving' \in Addr
               /\ \E i \in WithSocket(peers, fd) : peers[i].addr = leaving'
         /\ walked' = {}
<1>1. pc = "pass" /\ fd \in ready /\ fd = Min(ready) /\ Head(inbox[fd]) = EndOfStream
  BY TurnIs DEF RecvEnd, MainAt, Turn
<1>2. inbox[fd] # <<>>
  BY <1>1 DEF SInv, ReadyOpen, Walking
<1>3. CASE WithSocket(peers, fd) = {}
  BY <1>1, <1>2, <1>3 DEF RecvEnd
<1>4. CASE WithSocket(peers, fd) # {}
  <2> DEFINE I == WithSocket(peers, fd)
  <2>1. I \in SUBSET DOMAIN peers
    BY DEF WithSocket
  <2>2. leaving' = peers[First(I)].addr /\ pc' = "forgetErrors" /\ walked' = {}
    BY <1>4 DEF RecvEnd
  <2> HIDE DEF I
  <2>3. First(I) \in I /\ peers[First(I)].addr \in Addr
    BY <1>4, <2>1, LookupIs DEF SInv, ListsInv, I
  <2> QED BY <1>1, <1>2, <2>2, <2>3 DEF I
<1> QED BY <1>3, <1>4

LEMMA MainNext ==
  ASSUME SInv, [Next]_vars
  PROVE  MainTyped'
<1> USE DEF SInv, MainTyped, Places, Forgetting
<1>1. CASE UNCHANGED mainVars
  BY <1>1 DEF mainVars
<1>2. CASE CloseTest \/ CloseIt \/ ClearIt \/ ResetIt
  BY <1>2 DEF CloseTest, CloseIt, ClearIt, ResetIt
<1>3. CASE Select
  BY <1>3 DEF Select, Readable
<1>4. CASE PassDone \/ AcceptFails \/ FilesForgotten \/ HangupIt
  BY <1>4 DEF PassDone, AcceptFails, FilesForgotten, HangupIt, MainAt
<1>5. ASSUME NEW c \in Remotes, Accept(c) PROVE MainTyped'
  BY <1>5, AcceptIs DEF Accept
<1>6. ASSUME NEW fd \in Fds, Recv(fd) PROVE MainTyped'
  BY <1>6 DEF Recv, MainAt
<1>7. ASSUME NEW fd \in Fds, RecvEnd(fd) PROVE MainTyped'
  BY <1>7, RecvEndIs DEF RecvEnd
<1>8. CASE ForgetErrors \/ ForgetPeer \/ \E k \in Keys : ForgetFile(k)
  BY <1>8 DEF ForgetErrors, ForgetPeer, ForgetFile, MainAt
<1> QED
  BY <1>1, <1>2, <1>3, <1>4, <1>5, <1>6, <1>7, <1>8, MainSteps DEF MainStep

LEMMA ReadyNext ==
  ASSUME SInv, [Next]_vars
  PROVE  ReadyOpen'
<1> USE DEF SInv, ReadyOpen, Walking, Forgetting
<1>1. CASE UNCHANGED <<pc, ready, open, inbox>>
  BY <1>1
<1>2. CASE CloseTest \/ CloseIt \/ ClearIt \/ ResetIt \/ PassDone \/ AcceptFails
  BY <1>2 DEF CloseTest, CloseIt, ClearIt, ResetIt, PassDone, AcceptFails
<1>3. CASE Select
  <2>1. Listener \notin Fds
    BY FdsAssumption
  <2> QED BY <1>3, <2>1 DEF Select, Readable, netVars
<1>4. ASSUME NEW c \in Remotes, Accept(c) PROVE ReadyOpen'
  <2>1. open \in [Fds -> Remotes \cup {NoConn}] /\ UNCHANGED <<inbox, pc>>
    BY <1>4 DEF Accept, NetTyped
  <2>2. \A fd \in Fds : open'[fd] = open[fd] \/ open'[fd] = c
    BY <1>4, <2>1, AcceptIs
  <2> QED BY <1>4, <2>1, <2>2, AcceptIs, NoConnAssumption
<1>5. ASSUME NEW fd \in Fds, Recv(fd) PROVE ReadyOpen'
  <2>1. \A f \in Fds \ {fd} : inbox'[f] = inbox[f]
    BY <1>5 DEF Recv, NetTyped
  <2> QED BY <1>5, <2>1 DEF Recv, MainAt
<1>6. ASSUME NEW fd \in Fds, RecvEnd(fd) PROVE ReadyOpen'
  BY <1>6, RecvEndIs DEF RecvEnd, netVars
<1>7. CASE ForgetErrors \/ ForgetPeer \/ FilesForgotten \/ \E k \in Keys : ForgetFile(k)
  BY <1>7 DEF ForgetErrors, ForgetPeer, FilesForgotten, ForgetFile, MainAt, netVars
<1>8. CASE HangupIt
  <2>1. \A f \in Fds \ {Min(ready)} : open'[f] = open[f] /\ inbox'[f] = inbox[f]
    BY <1>8 DEF HangupIt, Hangup, NetTyped
  <2> QED BY <1>8, <2>1 DEF HangupIt, MainAt
<1>9. ASSUME NEW fd \in Fds, NEW x, inbox' = [inbox EXCEPT ![fd] = Append(@, x)],
             UNCHANGED <<pc, ready, open>>
      PROVE  ReadyOpen'
  <2>1. \A f \in Fds : inbox'[f] # <<>> \/ inbox'[f] = inbox[f]
    <3>1. inbox[fd] \in Seq(Requests \cup {EndOfStream}) /\ inbox'[fd] = Append(inbox[fd], x)
      BY <1>9 DEF NetTyped
    <3>2. inbox'[fd] # <<>>
      BY <3>1, AppendProperties
    <3> QED BY <1>9, <3>2 DEF NetTyped
  <2> QED BY <1>9, <2>1
<1>10. \/ UNCHANGED <<pc, ready, open, inbox>> \/ MainStep
       \/ \E fd \in Fds : Leave(fd) \/ \E m \in Requests : Send(fd, m)
  BY DEF Next, ClientStep, WorkerStep, vars, Race, Broken, Take, Enter, Handle, Dial, mainVars, netVars
<1>11. \/ UNCHANGED <<pc, ready, open, inbox>> \/ MainStep
       \/ \E fd \in Fds : \E x : /\ inbox' = [inbox EXCEPT ![fd] = Append(@, x)]
                                  /\ UNCHANGED <<pc, ready, open>>
  BY <1>10 DEF Leave, Send, mainVars
<1> QED
  BY <1>1, <1>2, <1>3, <1>4, <1>5, <1>6, <1>7, <1>8, <1>9, <1>11 DEF MainStep

LEMMA NextSInv == SInv /\ [Next]_vars => SInv'
BY ListsNext, NetNext, MainNext, PoolNext, ReadyNext DEF SInv

THEOREM Invariance == Spec => []SInv
BY InitSInv, NextSInv, PTL DEF Spec

\* However the threads and main interleave, and whatever clients do, the
\* tables and the state of main and of the pool stay well formed.
THEOREM TypeCorrect == Spec => []TypeOK
<1>1. SInv => TypeOK
  BY SInvImplies
<1> QED BY <1>1, Invariance, PTL

\* main unlinks entries without the mutexes, one list at a time: between its
\* steps too, no address has two entries (common.c:162-202).
THEOREM NoDuplicates == Spec => []EntriesDistinct
<1>1. SInv => EntriesDistinct
  BY SInvImplies
<1> QED BY <1>1, Invariance, PTL

\* Nor is a file left without a seeder while main goes from file to file: it
\* unlinks the file together with its last seeder (common.c:180-195).
THEOREM FilesAreSeeded == Spec => []EveryFileSeeded
<1>1. SInv => EveryFileSeeded
  BY SInvImplies
<1> QED BY <1>1, Invariance, PTL

\* The errors of a remote are counted by whichever threads handle them, and
\* main's removal of the record of a peer that leaves takes no other remote's.
THEOREM ErrorsAreCounted == Spec => []ErrorsCounted
<1>1. Init => ErrorsCounted
  BY DEF Init, HandlersInit, ErrorsCounted, MaxErrors
<1>2. SInv /\ ErrorsCounted /\ [Next]_vars => ErrorsCounted'
  <2> SUFFICES ASSUME SInv, ErrorsCounted, [Next]_vars, NEW c \in Remotes \ Addr
               PROVE  Counted(c)'
    BY DEF ErrorsCounted, Counted, Counts
  <2>1. Counted(c)
    BY DEF ErrorsCounted, Counted, Counts
  <2>2. ASSUME UNCHANGED <<errs, streak>> PROVE Counted(c)'
    BY <2>1, <2>2 DEF Counted, Counts
  <2>3. CASE UNCHANGED handlerVars \/ ResetIt \/ ForgetPeer \/ Crash
             \/ \E k \in Keys : ForgetFile(k)
    BY <2>2, <2>3 DEF handlerVars, ResetIt, ForgetPeer, Crash, ForgetFile
  <2>4. CASE ForgetErrors
    <3>1. leaving \in Addr
      BY <2>4 DEF ForgetErrors, MainAt, SInv, MainTyped, Forgetting
    <3> QED BY <2>1, <2>4, <3>1, WithoutFirstCounts
            DEF ForgetErrors, SInv, ListsInv, ErrsInv, Counted
  <2>5. ASSUME NEW w \in Workers, Handle(w) PROVE Counted(c)'
    BY <2>1, <2>5, HandleIs, HandleClientCounts
  <2> QED BY <2>3, <2>4, <2>5, TableSteps
<1> QED BY <1>1, <1>2, Invariance, PTL DEF Spec

-----------------------------------------------------------------------------
(* The inductive invariant for patient clients.  A peer has at most one    *)
(* message in flight, none once it is going, and its only entry is the one *)
(* with its connection's socket: no handler meets the peer main forgets.   *)

\* The jobs the pool has.
Work == {queue[i] : i \in DOMAIN queue} \cup ({running[w] : w \in Workers} \ {NoJob})

\* A message not yet received is alone, in the inbox and before the pool.
InboxOne ==
  \A fd \in Fds : inbox[fd] # <<>> =>
    /\ open[fd] # NoConn
    /\ Len(inbox[fd]) = 1
    /\ \A j \in Work : j.fd # fd
    /\ Head(inbox[fd]) = EndOfStream \/ OfPeer(peers, fd, Head(inbox[fd]))

\* So is one given to the pool, and its connection is still the sender's.
WorkOne ==
  \A j \in Work : /\ open[j.fd] = j.from
                  /\ OfPeer(peers, j.fd, j.m)
                  /\ \A l \in Work : l.fd = j.fd => l = j

OnePerHost ==
  /\ \A f, g \in Fds : open[f] # NoConn /\ open[g] # NoConn /\ open[f][1] = open[g][1] => f = g
  /\ \A c, d \in backlog : c[1] = d[1] => c = d
  /\ \A c \in backlog, f \in Fds : open[f] # NoConn => open[f][1] # c[1]

NothingToClose == toClose = NoFd /\ pc \notin {"close", "clear", "reset"}
MasterOpen == \A fd \in master : open[fd] # NoConn
OneEntry == \A i, j \in DOMAIN peers : peers[i].sock = peers[j].sock => i = j

\* The connection main is removing: the end of its stream stays unread.
Going == Min(ready)

\* The stages of remove_client_ressources: leaving is the peer of that
\* connection until it is unlinked, and of no file main has looked at.
Removal ==
  /\ pc \in Forgetting \cup {"hangup"} =>
       /\ Going \in Fds
       /\ open[Going] # NoConn
       /\ inbox[Going] # <<>>
       /\ Head(inbox[Going]) = EndOfStream
  /\ pc \in Forgetting => \E i \in WithSocket(peers, Going) : peers[i].addr = leaving
  /\ pc = "forgetErrors" => walked = {}
  /\ pc = "forgetFiles" => \A k \in walked : leaving \notin Sources(files, k)
  /\ pc = "forgetPeer" => \A k \in DOMAIN files : leaving \notin Sources(files, k)
  /\ pc = "hangup" => WithSocket(peers, Going) = {}

PInv ==
  /\ SInv
  /\ InboxOne /\ WorkOne /\ OnePerHost
  /\ NothingToClose /\ MasterOpen
  /\ SocketOfThePeer /\ OneEntry
  /\ Removal /\ SourcesRegistered

LEMMA PatientIsNext == [PatientNext]_vars => [Next]_vars
BY DEF PatientNext, Next, PatientStep, ClientStep, PatientDial, PatientSend, PatientLeave

LEMMA InitPInv == Init => PInv
<1> SUFFICES ASSUME Init PROVE PInv
  OBVIOUS
<1>1. SInv /\ SourcesRegistered
  BY InitSInv, InitLists DEF Init
<1>2. /\ peers = <<>> /\ toClose = NoFd
      /\ open = [fd \in Fds |-> NoConn] /\ inbox = [fd \in Fds |-> <<>>]
      /\ backlog = {} /\ master = {} /\ pc = "test"
      /\ queue = <<>> /\ running = [w \in Workers |-> NoJob]
  BY DEF Init, HandlersInit, Pool!Init
<1>3. Work = {}
  BY <1>2 DEF Work
<1>4. DOMAIN peers = {}
  BY <1>2
<1> QED
  BY <1>1, <1>2, <1>3, <1>4
  DEF PInv, InboxOne, WorkOne, OnePerHost, NothingToClose, MasterOpen, SocketOfThePeer,
      OwnSockets, OneEntry, Removal, Forgetting

-----------------------------------------------------------------------------
(* The work of the pool. *)

LEMMA EntriesTyped ==
  ASSUME PeersInv, NEW i \in DOMAIN peers
  PROVE  peers[i] \in PeerEntry
BY LenProperties, ElementOfSeq DEF PeersInv

LEMMA WorkTyped ==
  ASSUME SInv
  PROVE  Work \subseteq Job
<1>1. \A i \in DOMAIN queue : queue[i] \in Job
  BY LenProperties, ElementOfSeq DEF SInv, PoolTyped
<1> QED BY <1>1 DEF Work, SInv, PoolTyped

\* Nothing in flight, said of the work.
LEMMA InFlightIs ==
  ASSUME NEW fd, ~InFlight(fd)
  PROVE  inbox[fd] = <<>> /\ \A j \in Work : j.fd # fd
BY DEF InFlight, Work

\* Only recv gives the pool work.
LEMMA WorkNext ==
  ASSUME SInv, [Next]_vars
  PROVE  \/ Work' \subseteq Work
         \/ \E fd \in Fds :
              /\ Recv(fd)
              /\ Work' \subseteq Work \cup {[fd |-> fd, from |-> open[fd], m |-> Head(inbox[fd])]}
<1>1. CASE UNCHANGED <<queue, running>>
  BY <1>1 DEF Work
<1>2. ASSUME NEW fd \in Fds, Recv(fd)
      PROVE  Work' \subseteq Work \cup {[fd |-> fd, from |-> open[fd], m |-> Head(inbox[fd])]}
  <2> DEFINE j == [fd |-> fd, from |-> open[fd], m |-> Head(inbox[fd])]
  <2>1. queue' = Append(queue, j) /\ UNCHANGED running /\ queue \in Seq(Job)
    BY <1>2 DEF Recv, Pool!Push, SInv, PoolTyped
  <2> HIDE DEF j
  <2>2. /\ DOMAIN queue' = 1..(Len(queue) + 1) /\ DOMAIN queue = 1..Len(queue)
        /\ Len(queue) \in Nat
        /\ \A i \in 1..Len(queue) : queue'[i] = queue[i]
        /\ queue'[Len(queue) + 1] = j
    <3>1. queue \in Seq(Job \cup {j}) /\ j \in Job \cup {j}
      BY <2>1, SeqDef
    <3> QED BY <2>1, <3>1, AppendProperties, LenProperties
  <2>3. \A i \in DOMAIN queue' : queue'[i] = j \/ \E l \in DOMAIN queue : queue'[i] = queue[l]
    BY <2>2
  <2> QED BY <2>1, <2>3 DEF Work, j
<1>3. ASSUME NEW w \in Workers, Take(w) PROVE Work' \subseteq Work
  <2>1. /\ queue \in Seq(Job) /\ queue # <<>>
        /\ queue' = Tail(queue)
        /\ running' = [running EXCEPT ![w] = Head(queue)]
        /\ running \in [Workers -> Job \cup {NoJob}]
    BY <1>3 DEF Take, Pool!Take, SInv, PoolTyped
  <2>2. /\ Len(queue) \in Nat \ {0} /\ DOMAIN queue = 1..Len(queue)
        /\ DOMAIN queue' = 1..(Len(queue) - 1)
        /\ \A i \in 1..(Len(queue) - 1) : queue'[i] = queue[i + 1]
        /\ Head(queue) = queue[1]
    BY <2>1, HeadTailProperties, LenProperties, EmptySeq
  <2>3. \A i \in DOMAIN queue' : \E l \in DOMAIN queue : queue'[i] = queue[l]
    BY <2>2
  <2>4. 1 \in DOMAIN queue
    BY <2>2
  <2>5. \A v \in Workers : running'[v] = running[v] \/ running'[v] = queue[1]
    BY <2>1, <2>2
  <2> QED BY <2>3, <2>4, <2>5 DEF Work
<1>4. ASSUME NEW w \in Workers, Handle(w) PROVE Work' \subseteq Work
  <2>1. UNCHANGED queue /\ \A v \in Workers : running'[v] = running[v] \/ running'[v] = NoJob
    BY <1>4 DEF Handle, Pool!Finish, SInv, PoolTyped
  <2> QED BY <2>1 DEF Work
<1>5. \/ UNCHANGED <<queue, running>>
      \/ \E fd \in Fds : Recv(fd)
      \/ \E w \in Workers : Take(w) \/ Handle(w)
  BY DEF Next, MainStep, ClientStep, WorkerStep, vars, poolVars, CloseTest, CloseIt, ClearIt,
         ResetIt, Select, PassDone, AcceptFails, Accept, RecvEnd, ForgetErrors,
         FilesForgotten, ForgetPeer, ForgetFile, HangupIt, Race, Broken, Dial, Send, Leave, Enter
<1> QED BY <1>1, <1>2, <1>3, <1>4, <1>5

-----------------------------------------------------------------------------
(* The steps, with patient clients. *)

\* A step that leaves the peers, the files, the network and the descriptors
\* alone owes only that the removal is at the stage main says.
LEMMA QuietStep ==
  ASSUME PInv, SInv', Work' \subseteq Work, Removal', NothingToClose',
         UNCHANGED <<peers, files, netVars, master>>
  PROVE  PInv'
BY DEF PInv, InboxOne, WorkOne, OnePerHost, MasterOpen, SocketOfThePeer, OwnSockets,
       OneEntry, SourcesRegistered, netVars

\* main's steps that only move it on, a removal begun or carried on included.
LEMMA MainQuiet ==
  ASSUME PInv, SInv', Work' \subseteq Work,
         \/ CloseTest \/ Select \/ PassDone \/ AcceptFails \/ ForgetErrors \/ FilesForgotten
         \/ \E fd \in Fds : RecvEnd(fd)
  PROVE  PInv'
<1> USE DEF PInv, NothingToClose, Removal, Forgetting
<1>1. CASE CloseTest \/ Select \/ PassDone \/ AcceptFails
  <2>1. /\ UNCHANGED <<peers, files, netVars, master, toClose>>
        /\ pc' \in {"select", "test", "pass", "exited"}
    BY <1>1 DEF CloseTest, Select, PassDone, AcceptFails, handlerVars
  <2> QED BY <2>1, QuietStep
<1>2. CASE ForgetErrors
  <2>1. /\ UNCHANGED <<peers, files, netVars, master, toClose, ready, leaving, walked>>
        /\ pc = "forgetErrors" /\ pc' = "forgetFiles"
    BY <1>2 DEF ForgetErrors, MainAt
  <2>2. Removal'
    BY <2>1 DEF Going, netVars
  <2> QED BY <2>1, <2>2, QuietStep
<1>3. CASE FilesForgotten
  <2>1. /\ UNCHANGED <<peers, files, netVars, master, toClose, ready, leaving, walked>>
        /\ pc = "forgetFiles" /\ pc' = "forgetPeer" /\ DOMAIN files \subseteq walked
    BY <1>3 DEF FilesForgotten, MainAt, handlerVars
  <2>2. Removal'
    BY <2>1 DEF Going, netVars
  <2> QED BY <2>1, <2>2, QuietStep
<1>4. ASSUME NEW fd \in Fds, RecvEnd(fd) PROVE PInv'
  <2>1. UNCHANGED <<peers, files, netVars, master, toClose, ready>>
    BY <1>4 DEF RecvEnd, handlerVars
  <2>2. open[fd] # NoConn
    BY <1>4, RecvEndIs DEF SInv, ReadyOpen, Walking
  <2>3. Removal'
    BY <1>4, <2>1, <2>2, RecvEndIs DEF Going, netVars
  <2>4. NothingToClose'
    BY <1>4, <2>1, RecvEndIs
  <2> QED BY <2>1, <2>3, <2>4, QuietStep
<1> QED BY <1>1, <1>2, <1>3, <1>4

\* A connection of a host that has none is accepted, on a free descriptor.
LEMMA AcceptKeeps ==
  ASSUME PInv, SInv', Work' \subseteq Work, NEW c \in Remotes, Accept(c)
  PROVE  PInv'
<1> DEFINE g == Min(Free)
<1>1. /\ g \in Fds /\ open[g] = NoConn
      /\ open' = [open EXCEPT ![g] = c]
      /\ master' = master \cup {g} /\ backlog' = backlog \ {c}
      /\ pc = "pass" /\ c \in backlog
      /\ UNCHANGED <<handlerVars, inbox, pc>>
  BY AcceptIs DEF PInv, Accept
<1> HIDE DEF g
<1>2. open'[g] = c /\ \A f \in Fds \ {g} : open'[f] = open[f]
  BY <1>1 DEF PInv, SInv, NetTyped
<1>3. c # NoConn
  BY NoConnAssumption
<1>4. InboxOne'
  BY <1>1, <1>2 DEF PInv, InboxOne, handlerVars
<1>5. WorkOne'
  <2>1. \A j \in Work : j.fd \in Fds /\ j.fd # g
    BY <1>1, WorkTyped, NoConnAssumption DEF PInv, WorkOne, Job
  <2> QED BY <1>1, <1>2, <2>1 DEF PInv, WorkOne, handlerVars
<1>6. OnePerHost'
  BY <1>1, <1>2 DEF PInv, OnePerHost
<1>7. NothingToClose' /\ MasterOpen'
  BY <1>1, <1>2, <1>3 DEF PInv, NothingToClose, MasterOpen, SInv, MainTyped, handlerVars
<1>8. SocketOfThePeer'
  <2>1. \A i \in DOMAIN peers : peers[i].sock \in Fds
    BY EntriesTyped DEF PInv, SInv, ListsInv, PeerEntry
  <2>2. \A i \in DOMAIN peers : peers[i].sock # g
    BY <1>1, NoConnAssumption DEF PInv, SocketOfThePeer, OwnSockets
  <2> QED BY <1>1, <1>2, <2>1, <2>2 DEF PInv, SocketOfThePeer, OwnSockets, handlerVars
<1>9. OneEntry' /\ SourcesRegistered' /\ Removal'
  BY <1>1 DEF PInv, OneEntry, SourcesRegistered, Removal, Forgetting, handlerVars
<1> QED BY <1>4, <1>5, <1>6, <1>7, <1>8, <1>9 DEF PInv

LEMMA DialKeeps ==
  ASSUME PInv, SInv', Work' \subseteq Work, NEW c \in Remotes, PatientDial(c)
  PROVE  PInv'
<1>1. /\ backlog' = backlog \cup {c}
      /\ \A d \in backlog : d[1] # c[1]
      /\ \A fd \in Fds : open[fd] # NoConn => open[fd][1] # c[1]
      /\ UNCHANGED <<handlerVars, mainVars, open, inbox>>
  BY DEF PatientDial, Dial
<1>2. OnePerHost'
  BY <1>1 DEF PInv, OnePerHost
<1> QED
  BY <1>1, <1>2
  DEF PInv, InboxOne, WorkOne, NothingToClose, MasterOpen, SocketOfThePeer, OwnSockets,
      OneEntry, SourcesRegistered, Removal, Going, handlerVars, mainVars

\* The next message, or the end of the stream, of a client that has nothing in
\* flight.
LEMMA SayKeeps ==
  ASSUME PInv, SInv', Work' \subseteq Work, NEW fd \in Fds, NEW m, ~InFlight(fd),
         open[fd] # NoConn, m = EndOfStream \/ OfPeer(peers, fd, m),
         inbox' = [inbox EXCEPT ![fd] = Append(@, m)],
         UNCHANGED <<handlerVars, mainVars, open, backlog>>
  PROVE  PInv'
<1>1. inbox[fd] = <<>> /\ \A j \in Work : j.fd # fd
  BY InFlightIs
<1>2. /\ Len(inbox'[fd]) = 1 /\ Head(inbox'[fd]) = m
      /\ \A f \in Fds \ {fd} : inbox'[f] = inbox[f]
  <2>1. inbox'[fd] = Append(<<>>, m)
    BY <1>1 DEF PInv, SInv, NetTyped
  <2>2. <<>> \in Seq({m}) /\ Len(<<>>) = 0
    BY EmptySeq
  <2>3. Len(Append(<<>>, m)) = 1 /\ Head(Append(<<>>, m)) = m
    BY <2>2, AppendProperties, HeadTailAppend
  <2> QED BY <2>1, <2>2, <2>3 DEF PInv, SInv, NetTyped
<1>3. InboxOne'
  BY <1>1, <1>2 DEF PInv, InboxOne, handlerVars
<1>4. Removal'
  <2>1. pc \in Forgetting \cup {"hangup"} => Going # fd
    BY <1>1 DEF PInv, Removal
  <2> QED BY <1>2, <2>1 DEF PInv, Removal, Going, handlerVars, mainVars
<1> QED
  BY <1>3, <1>4
  DEF PInv, WorkOne, OnePerHost, NothingToClose, MasterOpen, SocketOfThePeer, OwnSockets,
      OneEntry, SourcesRegistered, handlerVars, mainVars

\* The message goes from the inbox to the pool, as alone as it was.
LEMMA RecvKeeps ==
  ASSUME PInv, SInv', NEW fd \in Fds, Recv(fd),
         Work' \subseteq Work \cup {[fd |-> fd, from |-> open[fd], m |-> Head(inbox[fd])]}
  PROVE  PInv'
<1> DEFINE j == [fd |-> fd, from |-> open[fd], m |-> Head(inbox[fd])]
<1>1. /\ pc = "pass" /\ fd \in ready /\ Head(inbox[fd]) # EndOfStream
      /\ inbox' = [inbox EXCEPT ![fd] = Tail(@)]
      /\ UNCHANGED <<handlerVars, open, backlog, master, pc>>
  BY TurnIs DEF PInv, Recv, MainAt
<1>2. inbox[fd] # <<>>
  BY <1>1 DEF PInv, SInv, ReadyOpen, Walking
<1>3. /\ Len(inbox[fd]) = 1 /\ OfPeer(peers, fd, Head(inbox[fd]))
      /\ \A l \in Work : l.fd # fd
  BY <1>1, <1>2 DEF PInv, InboxOne
<1>4. inbox'[fd] = <<>> /\ \A f \in Fds \ {fd} : inbox'[f] = inbox[f]
  <2>1. inbox[fd] \in Seq(Requests \cup {EndOfStream})
    BY DEF PInv, SInv, NetTyped
  <2>2. Tail(inbox[fd]) \in Seq(Requests \cup {EndOfStream}) /\ Len(Tail(inbox[fd])) = 0
    BY <1>2, <1>3, <2>1, HeadTailProperties
  <2>3. Tail(inbox[fd]) = <<>>
    BY <2>2, EmptySeq
  <2> QED BY <1>1, <2>3 DEF PInv, SInv, NetTyped
<1>5. j.fd = fd /\ j.from = open[fd] /\ j.m = Head(inbox[fd])
  OBVIOUS
<1>6. Work' \subseteq Work \cup {j}
  OBVIOUS
<1> HIDE DEF j
<1>7. InboxOne'
  BY <1>1, <1>4, <1>5, <1>6 DEF PInv, InboxOne, handlerVars
<1>8. WorkOne'
  BY <1>1, <1>3, <1>5, <1>6 DEF PInv, WorkOne, handlerVars
<1> QED
  BY <1>1, <1>7, <1>8
  DEF PInv, OnePerHost, NothingToClose, MasterOpen, SocketOfThePeer, OwnSockets, OneEntry,
      SourcesRegistered, Removal, Forgetting, handlerVars

\* One file more has lost the peer that leaves.
LEMMA ForgetFileKeeps ==
  ASSUME PInv, SInv', Work' \subseteq Work, NEW k \in Keys, ForgetFile(k)
  PROVE  PInv'
<1>1. /\ pc = "forgetFiles"
      /\ files' = Visited(k, DropPeer(files, leaving)) /\ walked' = walked \cup {k}
      /\ UNCHANGED <<peers, toClose, netVars, master, ready, pc, leaving>>
  BY DEF ForgetFile, MainAt
<1>2. /\ \A l : Sources(files', l) \subseteq Sources(files, l)
      /\ leaving \notin Sources(files', k)
      /\ DOMAIN files' \subseteq DOMAIN files
  BY <1>1, VisitedIs DEF PInv, SInv, ListsInv
<1>3. SourcesRegistered'
  BY <1>1, <1>2 DEF PInv, SourcesRegistered, Sources
<1>4. Removal'
  BY <1>1, <1>2 DEF PInv, Removal, Forgetting, Going, netVars
<1> QED
  BY <1>1, <1>3, <1>4
  DEF PInv, InboxOne, WorkOne, OnePerHost, NothingToClose, MasterOpen, SocketOfThePeer,
      OwnSockets, OneEntry, netVars

\* The peer is unlinked: the only entry with its socket, and no file has it.
LEMMA ForgetPeerKeeps ==
  ASSUME PInv, SInv', Work' \subseteq Work, ForgetPeer
  PROVE  PInv'
<1>1. /\ pc = "forgetPeer" /\ pc' = "hangup"
      /\ peers' = WithoutFirst(peers, At(peers, leaving))
      /\ UNCHANGED <<files, toClose, netVars, master, ready, leaving, walked>>
  BY DEF ForgetPeer, MainAt
<1>2. /\ Distinct(peers) /\ Distinct(peers')
      /\ Registered(peers') = Registered(peers) \ {leaving}
      /\ \A j \in DOMAIN peers' : \E i \in DOMAIN peers : peers'[j] = peers[i]
  BY <1>1, WithoutFirstIs DEF PInv, SInv, ListsInv, PeersInv
<1>3. PICK l \in DOMAIN peers : peers[l].sock = Going /\ peers[l].addr = leaving
  BY <1>1 DEF PInv, Removal, Forgetting, WithSocket
<1>4. ASSUME NEW i \in DOMAIN peers, i # l
      PROVE  \E j \in DOMAIN peers' : peers'[j] = peers[i]
  <2>1. peers[i].addr \in Registered(peers')
    BY <1>2, <1>3, <1>4 DEF Distinct, Registered
  <2>2. PICK j \in DOMAIN peers' : peers'[j].addr = peers[i].addr
    BY <2>1 DEF Registered
  <2>3. PICK h \in DOMAIN peers : peers'[j] = peers[h]
    BY <1>2
  <2>4. h = i
    BY <1>2, <2>2, <2>3 DEF Distinct
  <2> QED BY <2>3, <2>4
<1>5. WithSocket(peers', Going) = {}
  <2> SUFFICES ASSUME NEW j \in DOMAIN peers', peers'[j].sock = Going PROVE FALSE
    BY DEF WithSocket
  <2>1. PICK i \in DOMAIN peers : peers'[j] = peers[i]
    BY <1>2
  <2>2. i = l
    BY <1>3, <2>1 DEF PInv, OneEntry
  <2> QED BY <1>2, <1>3, <2>1, <2>2 DEF Registered
<1>6. \A f, m : f # Going /\ OfPeer(peers, f, m) => OfPeer(peers', f, m)
  <2>1. ASSUME NEW f, f # Going, WithSocket(peers, f) # {} PROVE WithSocket(peers', f) # {}
    BY <1>3, <1>4, <2>1 DEF WithSocket
  <2>2. ASSUME NEW f, NEW n, \A i \in WithSocket(peers, f) : peers[i].addr[2] = n
        PROVE  \A j \in WithSocket(peers', f) : peers'[j].addr[2] = n
    BY <1>2, <2>2 DEF WithSocket
  <2> QED BY <2>1, <2>2 DEF OfPeer
<1>7. inbox[Going] # <<>> /\ Head(inbox[Going]) = EndOfStream /\ Going \in Fds
  BY <1>1 DEF PInv, Removal, Forgetting
<1>8. InboxOne'
  BY <1>1, <1>6, <1>7 DEF PInv, InboxOne, netVars
<1>9. WorkOne'
  <2>1. \A j \in Work : j.fd # Going
    BY <1>7 DEF PInv, InboxOne
  <2> QED BY <1>1, <1>6, <2>1 DEF PInv, WorkOne, netVars
<1>10. SocketOfThePeer'
  BY <1>1, <1>2 DEF PInv, SocketOfThePeer, OwnSockets, netVars
<1>11. OneEntry'
  <2> SUFFICES ASSUME NEW j \in DOMAIN peers', NEW k \in DOMAIN peers',
                      peers'[j].sock = peers'[k].sock
               PROVE  j = k
    BY DEF OneEntry
  <2>1. PICK g \in DOMAIN peers : peers'[j] = peers[g]
    BY <1>2
  <2>2. PICK h \in DOMAIN peers : peers'[k] = peers[h]
    BY <1>2
  <2>3. g = h
    BY <2>1, <2>2 DEF PInv, OneEntry
  <2> QED BY <1>2, <2>1, <2>2, <2>3 DEF Distinct
<1>12. SourcesRegistered'
  <2>1. \A k \in DOMAIN files : leaving \notin Sources(files, k)
    BY <1>1 DEF PInv, Removal
  <2> QED BY <1>1, <1>2, <2>1 DEF PInv, SourcesRegistered, Sources
<1>13. Removal'
  BY <1>1, <1>5 DEF PInv, Removal, Forgetting, Going, netVars
<1> QED
  BY <1>1, <1>8, <1>9, <1>10, <1>11, <1>12, <1>13
  DEF PInv, OnePerHost, NothingToClose, MasterOpen, netVars

\* Only then is the connection closed.
LEMMA HangupKeeps ==
  ASSUME PInv, SInv', Work' \subseteq Work, HangupIt
  PROVE  PInv'
<1> DEFINE g == Going
<1>1. /\ pc = "hangup" /\ pc' = "pass"
      /\ open' = [open EXCEPT ![g] = NoConn] /\ inbox' = [inbox EXCEPT ![g] = <<>>]
      /\ master' = master \ {g}
      /\ UNCHANGED <<handlerVars, backlog>>
  BY DEF HangupIt, MainAt, Hangup, Going
<1>2. g \in Fds /\ inbox[g] # <<>> /\ WithSocket(peers, g) = {}
  BY <1>1 DEF PInv, Removal
<1> HIDE DEF g
<1>3. /\ open'[g] = NoConn /\ inbox'[g] = <<>>
      /\ \A f \in Fds \ {g} : open'[f] = open[f] /\ inbox'[f] = inbox[f]
  BY <1>1, <1>2 DEF PInv, SInv, NetTyped
<1>4. InboxOne'
  BY <1>1, <1>3 DEF PInv, InboxOne, handlerVars
<1>5. WorkOne'
  <2>1. \A j \in Work : j.fd # g /\ j.fd \in Fds
    BY <1>2, WorkTyped DEF PInv, InboxOne, Job
  <2> QED BY <1>1, <1>3, <2>1 DEF PInv, WorkOne, handlerVars
<1>6. OnePerHost'
  BY <1>1, <1>3 DEF PInv, OnePerHost
<1>7. MasterOpen'
  BY <1>1, <1>3 DEF PInv, MasterOpen, SInv, MainTyped
<1>8. SocketOfThePeer'
  <2>1. \A i \in DOMAIN peers : peers[i].sock \in Fds /\ peers[i].sock # g
    BY <1>2, EntriesTyped DEF PInv, SInv, ListsInv, PeerEntry, WithSocket
  <2> QED BY <1>1, <1>3, <2>1 DEF PInv, SocketOfThePeer, OwnSockets, handlerVars
<1> QED
  BY <1>1, <1>4, <1>5, <1>6, <1>7, <1>8
  DEF PInv, NothingToClose, OneEntry, SourcesRegistered, Removal, Forgetting, handlerVars

\* A peer is registered under one address only: the entry an announce appends
\* is the first with its socket.
LEMMA NewEntryIs ==
  ASSUME PInv, NEW j \in Work, j.m.op = "announce", j.m.port \in Ports, j \in Job,
         peers' = AddPeer(peers, <<j.from[1], j.m.port>>, j.fd), ~UNCHANGED peers
  PROVE  /\ WithSocket(peers, j.fd) = {}
         /\ \E n : /\ n \notin DOMAIN peers
                   /\ DOMAIN peers' = DOMAIN peers \cup {n}
                   /\ \A i \in DOMAIN peers : peers'[i] = peers[i]
                   /\ peers'[n] = [addr |-> <<j.from[1], j.m.port>>, sock |-> j.fd]
<1> DEFINE a == <<j.from[1], j.m.port>>
           e == [addr |-> a, sock |-> j.fd]
<1>1. At(peers, a) = {} /\ peers' = Append(peers, e)
  BY DEF AddPeer
<1>2. j.from \in Remotes /\ j.fd \in Fds /\ a \in Addr
  BY DEF Job, Remotes, Addr
<1>3. WithSocket(peers, j.fd) = {}
  <2> SUFFICES ASSUME NEW i \in WithSocket(peers, j.fd) PROVE FALSE
    OBVIOUS
  <2>1. i \in DOMAIN peers /\ peers[i].sock = j.fd
    BY DEF WithSocket
  <2>2. peers[i].addr \in Addr
    BY <2>1, EntriesTyped DEF PInv, SInv, ListsInv, PeerEntry
  <2>3. peers[i].addr[1] = j.from[1]
    BY <2>1 DEF PInv, SocketOfThePeer, OwnSockets, WorkOne
  <2>4. peers[i].addr[2] = j.m.port
    BY DEF PInv, WorkOne, OfPeer
  <2>5. peers[i].addr = a
    BY <2>2, <2>3, <2>4 DEF Addr
  <2> QED BY <1>1, <2>1, <2>5 DEF At
<1>4. e \in PeerEntry /\ peers \in Seq(PeerEntry)
  BY <1>2 DEF PeerEntry, PInv, SInv, ListsInv, PeersInv
<1> HIDE DEF e
<1>5. /\ DOMAIN peers = 1..Len(peers) /\ Len(peers) \in Nat
      /\ DOMAIN peers' = 1..(Len(peers) + 1)
      /\ \A i \in 1..Len(peers) : peers'[i] = peers[i]
      /\ peers'[Len(peers) + 1] = e
  <2>1. /\ peers' \in Seq(PeerEntry) /\ Len(peers') = Len(peers) + 1
        /\ \A i \in 1..Len(peers) : peers'[i] = peers[i]
        /\ peers'[Len(peers) + 1] = e
    <3>1. /\ Append(peers, e) \in Seq(PeerEntry) /\ Len(Append(peers, e)) = Len(peers) + 1
          /\ \A i \in 1..Len(peers) : Append(peers, e)[i] = peers[i]
          /\ Append(peers, e)[Len(peers) + 1] = e
      <4> HIDE DEF a
      <4> QED BY <1>4, AppendProperties
    <3> QED BY <1>1, <3>1
  <2>2. DOMAIN peers = 1..Len(peers) /\ Len(peers) \in Nat
    BY <1>4, LenProperties
  <2>3. DOMAIN peers' = 1..Len(peers')
    BY <2>1, LenProperties
  <2> QED BY <2>1, <2>2, <2>3
<1>6. /\ Len(peers) + 1 \notin DOMAIN peers
      /\ DOMAIN peers' = DOMAIN peers \cup {Len(peers) + 1}
  <2>1. \A n \in Nat : n + 1 \notin 1..n /\ 1..(n + 1) = (1..n) \cup {n + 1}
    OBVIOUS
  <2> QED BY <1>5, <2>1
<1>7. \E n : /\ n \notin DOMAIN peers
             /\ DOMAIN peers' = DOMAIN peers \cup {n}
             /\ \A i \in DOMAIN peers : peers'[i] = peers[i]
             /\ peers'[n] = e
  BY <1>5, <1>6
<1> QED BY <1>3, <1>7 DEF e

\* What a handler does to the entries: those there were stay, and at most one
\* is new, with the socket and the host of the sender.
LEMMA EntriesGrow ==
  ASSUME PInv, NEW w \in Workers, Handle(w)
  PROVE  LET j == running[w]
         IN /\ \A i \in DOMAIN peers : i \in DOMAIN peers' /\ peers'[i] = peers[i]
            /\ \A i \in DOMAIN peers' \ DOMAIN peers :
                 /\ peers'[i].sock = j.fd /\ peers'[i].addr[1] = j.from[1]
                 /\ j.m.op = "announce" /\ peers'[i].addr[2] = j.m.port
                 /\ WithSocket(peers, j.fd) = {}
                 /\ \A l \in DOMAIN peers' \ DOMAIN peers : l = i
<1> DEFINE j == running[w]
<1>1. /\ ListsInv /\ j # NoJob /\ j \in Job /\ j.fd \in Fds /\ j.from \in Remotes
      /\ j.m.op = "announce" => j.m \in AnnounceType
      /\ HandleClient(j.fd, j.from, j.m)
  BY HandleIs DEF PInv
<1>2. j \in Work
  BY <1>1 DEF Work
<1> HIDE DEF j
<1>3. \/ UNCHANGED peers
      \/ /\ j.m.op = "announce" /\ j.m.port \in Ports
         /\ peers' = AddPeer(peers, <<j.from[1], j.m.port>>, j.fd)
  BY <1>1, HandleClientKeeps
<1>4. CASE UNCHANGED peers
  BY <1>4
<1>5. CASE ~UNCHANGED peers
  <2>1. /\ WithSocket(peers, j.fd) = {} /\ j.m.op = "announce"
        /\ \E n : /\ n \notin DOMAIN peers
                  /\ DOMAIN peers' = DOMAIN peers \cup {n}
                  /\ \A i \in DOMAIN peers : peers'[i] = peers[i]
                  /\ peers'[n] = [addr |-> <<j.from[1], j.m.port>>, sock |-> j.fd]
    BY <1>1, <1>2, <1>3, <1>5, NewEntryIs
  <2> QED BY <2>1 DEF j
<1> QED BY <1>4, <1>5

\* A message is handled: its sender is not the peer that is being forgotten.
LEMMA HandleKeeps ==
  ASSUME PInv, SInv', Work' \subseteq Work, NEW w \in Workers, Handle(w)
  PROVE  PInv'
<1> DEFINE j == running[w]
<1>1. /\ ListsInv /\ j # NoJob /\ j \in Job /\ j.fd \in Fds /\ j.from \in Remotes
      /\ j.m.op = "announce" => j.m \in AnnounceType
      /\ HandleClient(j.fd, j.from, j.m)
      /\ UNCHANGED <<mainVars, netVars>>
  BY HandleIs DEF PInv
<1>2. j \in Work
  BY <1>1 DEF Work
<1>3. /\ \A i \in DOMAIN peers : i \in DOMAIN peers' /\ peers'[i] = peers[i]
      /\ \A i \in DOMAIN peers' \ DOMAIN peers :
           /\ peers'[i].sock = j.fd /\ peers'[i].addr[1] = j.from[1]
           /\ j.m.op = "announce" /\ peers'[i].addr[2] = j.m.port
           /\ WithSocket(peers, j.fd) = {}
           /\ \A l \in DOMAIN peers' \ DOMAIN peers : l = i
  BY EntriesGrow
<1> HIDE DEF j
<1>4. open[j.fd] = j.from /\ OfPeer(peers, j.fd, j.m) /\ \A l \in Work : l.fd = j.fd => l = j
  BY <1>2 DEF PInv, WorkOne
<1>5. inbox[j.fd] = <<>>
  BY <1>1, <1>2 DEF PInv, InboxOne
<1>6. toClose' = toClose
  <2>1. j.m.op \in {"announce", "update", "look", "getfile"}
    BY <1>4 DEF OfPeer
  <2>2. j.m.op # "announce" => Announced(j.from)
    <3> SUFFICES ASSUME j.m.op # "announce" PROVE Announced(j.from)
      OBVIOUS
    <3>1. PICK i \in DOMAIN peers : peers[i].sock = j.fd
      BY <1>4 DEF OfPeer, WithSocket
    <3>2. peers[i].addr[1] = j.from[1]
      BY <1>4, <3>1 DEF PInv, SocketOfThePeer, OwnSockets
    <3> QED BY <3>2 DEF Announced, WithIp
  <2> QED BY <1>1, <2>1, <2>2, HandleClientCloses
<1>7. \A f, m : f # j.fd /\ OfPeer(peers, f, m) => OfPeer(peers', f, m)
  <2>1. \A f : f # j.fd => WithSocket(peers', f) = WithSocket(peers, f)
    BY <1>3 DEF WithSocket
  <2>2. \A f : \A i \in WithSocket(peers, f) : peers'[i] = peers[i]
    BY <1>3 DEF WithSocket
  <2> QED BY <2>1, <2>2 DEF OfPeer
<1>8. OfPeer(peers', j.fd, j.m)
  <2>1. \A i \in WithSocket(peers', j.fd) :
          \/ i \in WithSocket(peers, j.fd) /\ peers'[i] = peers[i]
          \/ peers'[i].addr[2] = j.m.port
    BY <1>3 DEF WithSocket
  <2>2. WithSocket(peers, j.fd) \subseteq WithSocket(peers', j.fd)
    BY <1>3 DEF WithSocket
  <2> QED BY <1>4, <2>1, <2>2 DEF OfPeer
<1>9. InboxOne'
  BY <1>1, <1>5, <1>7 DEF PInv, InboxOne, netVars
<1>10. WorkOne'
  BY <1>1, <1>4, <1>7, <1>8 DEF PInv, WorkOne, netVars
<1>11. SocketOfThePeer'
  <2> SUFFICES ASSUME NEW i \in DOMAIN peers'
               PROVE  \E c \in Remotes : open[peers'[i].sock] = c /\ c[1] = peers'[i].addr[1]
    BY <1>1 DEF SocketOfThePeer, OwnSockets, netVars
  <2>1. CASE i \in DOMAIN peers
    BY <1>3, <2>1 DEF PInv, SocketOfThePeer, OwnSockets
  <2>2. CASE i \notin DOMAIN peers
    BY <1>1, <1>3, <1>4, <2>2
  <2> QED BY <2>1, <2>2
<1>12. OneEntry'
  <2> SUFFICES ASSUME NEW i \in DOMAIN peers', NEW l \in DOMAIN peers',
                      peers'[i].sock = peers'[l].sock
               PROVE  i = l
    BY DEF OneEntry
  <2>1. CASE i \in DOMAIN peers /\ l \in DOMAIN peers
    BY <1>3, <2>1 DEF PInv, OneEntry
  <2>2. CASE i \notin DOMAIN peers /\ l \notin DOMAIN peers
    BY <1>3, <2>2
  <2>3. CASE ~(i \in DOMAIN peers <=> l \in DOMAIN peers)
    BY <1>3, <2>3 DEF WithSocket
  <2> QED BY <2>1, <2>2, <2>3
<1>13. SourcesRegistered'
  BY <1>1, HandleClientSources DEF PInv
<1>14. Removal'
  <2>1. CASE pc \notin Forgetting \cup {"hangup"}
    BY <1>1, <2>1 DEF Removal, Forgetting, mainVars
  <2>2. CASE pc \in Forgetting \cup {"hangup"}
    <3>1. Going \in Fds /\ Going # j.fd /\ open[Going] # NoConn
      BY <1>5, <2>2 DEF PInv, Removal
    <3>2. pc = "hangup" => WithSocket(peers', Going) = {}
      BY <1>3, <3>1 DEF PInv, Removal, WithSocket
    <3>3. ASSUME pc \in Forgetting
          PROVE  /\ \E i \in WithSocket(peers', Going) : peers'[i].addr = leaving
                 /\ leaving[1] # j.from[1]
      <4>1. PICK i \in DOMAIN peers : peers[i].sock = Going /\ peers[i].addr = leaving
        BY <3>3 DEF PInv, Removal, WithSocket
      <4>2. open[Going][1] = leaving[1]
        BY <4>1 DEF PInv, SocketOfThePeer, OwnSockets
      <4>3. leaving[1] # j.from[1]
        BY <1>1, <1>4, <3>1, <4>2, NoConnAssumption DEF PInv, OnePerHost
      <4>4. i \in WithSocket(peers', Going) /\ peers'[i].addr = leaving
        BY <1>3, <4>1 DEF WithSocket
      <4> QED BY <4>3, <4>4
    <3>4. ASSUME pc \in Forgetting, NEW k, leaving \notin Sources(files, k)
          PROVE  leaving \notin Sources(files', k)
      <4>1. \/ UNCHANGED files
            \/ \E b : b[1] = j.from[1] /\ Grows(files, files', b)
        BY <1>1, HandleClientKeeps
      <4>2. CASE UNCHANGED files
        BY <3>4, <4>2
      <4>3. ASSUME NEW b, b[1] = j.from[1], Grows(files, files', b)
            PROVE  leaving \notin Sources(files', k)
        <5>1. b # leaving
          BY <3>3, <3>4, <4>3
        <5>2. Sources(files', k) \subseteq Sources(files, k) \cup {b}
          BY <4>3 DEF Grows, Sources
        <5> QED BY <3>4, <5>1, <5>2
      <4> QED BY <4>1, <4>2, <4>3
    <3>5. pc = "forgetFiles" => \A k \in walked : leaving \notin Sources(files', k)
      BY <3>4 DEF PInv, Removal, Forgetting
    <3>6. pc = "forgetPeer" => \A k \in DOMAIN files' : leaving \notin Sources(files', k)
      <4>1. pc = "forgetPeer" => \A k : leaving \notin Sources(files, k)
        BY DEF PInv, Removal, Sources
      <4> QED BY <3>4, <4>1 DEF Forgetting
    <3> QED BY <1>1, <2>2, <3>1, <3>2, <3>3, <3>5, <3>6
            DEF PInv, Removal, Going, mainVars, netVars
  <2> QED BY <2>1, <2>2
<1> QED
  BY <1>1, <1>6, <1>9, <1>10, <1>11, <1>12, <1>13, <1>14
  DEF PInv, OnePerHost, NothingToClose, MasterOpen, mainVars, netVars

LEMMA NextPInv == PInv /\ [PatientNext]_vars => PInv'
<1> SUFFICES ASSUME PInv, [PatientNext]_vars PROVE PInv'
  OBVIOUS
<1>1. [Next]_vars /\ SInv /\ SInv'
  BY PatientIsNext, NextSInv DEF PInv
<1>2. ASSUME NEW fd \in Fds, Recv(fd) PROVE PInv'
  <2>1. Work' \subseteq Work \cup {[fd |-> fd, from |-> open[fd], m |-> Head(inbox[fd])]}
    <3>1. \A g \in Fds : Recv(g) => g = fd
      BY <1>2 DEF Recv, Turn
    <3> QED BY <1>1, <3>1, WorkNext
  <2> QED BY <1>1, <1>2, <2>1, RecvKeeps
<1>3. ASSUME \A fd \in Fds : ~Recv(fd) PROVE PInv'
  <2>1. Work' \subseteq Work
    BY <1>1, <1>3, WorkNext
  <2>2. CASE UNCHANGED vars \/ Race \/ \E w \in Workers : Take(w) \/ Enter(w) \/ Broken(w)
    <3>1. UNCHANGED <<peers, files, toClose, mainVars, netVars>>
      BY <2>2 DEF vars, handlerVars, Race, Broken, Crash, Take, Enter
    <3>2. Removal' /\ NothingToClose'
      BY <3>1 DEF PInv, Removal, NothingToClose, Going, mainVars, netVars
    <3>3. UNCHANGED master
      BY <3>1 DEF mainVars
    <3> QED BY <1>1, <2>1, <3>1, <3>2, <3>3, QuietStep
  <2>3. CASE \/ CloseTest \/ Select \/ PassDone \/ AcceptFails \/ ForgetErrors
             \/ FilesForgotten \/ \E fd \in Fds : RecvEnd(fd)
    BY <1>1, <2>1, <2>3, MainQuiet
  <2>4. CASE CloseIt \/ ClearIt \/ ResetIt
    BY <2>4 DEF PInv, NothingToClose, CloseIt, ClearIt, ResetIt, MainAt
  <2>5. CASE \E c \in Remotes : Accept(c) \/ PatientDial(c)
    BY <1>1, <2>1, <2>5, AcceptKeeps, DialKeeps
  <2>6. CASE HangupIt \/ ForgetPeer \/ \E k \in Keys : ForgetFile(k)
    BY <1>1, <2>1, <2>6, HangupKeeps, ForgetPeerKeeps, ForgetFileKeeps
  <2>7. ASSUME NEW w \in Workers, Handle(w) PROVE PInv'
    BY <1>1, <2>1, <2>7, HandleKeeps
  <2>8. ASSUME NEW fd \in Fds, PatientLeave(fd) PROVE PInv'
    <3>1. /\ ~InFlight(fd) /\ open[fd] # NoConn
          /\ inbox' = [inbox EXCEPT ![fd] = Append(@, EndOfStream)]
          /\ UNCHANGED <<handlerVars, mainVars, open, backlog>>
      BY <2>8 DEF PatientLeave, Leave
    <3> QED BY <1>1, <2>1, <3>1, SayKeeps
  <2>9. ASSUME NEW fd \in Fds, NEW m \in Requests, PatientSend(fd, m) PROVE PInv'
    <3>1. /\ ~InFlight(fd) /\ open[fd] # NoConn /\ OfPeer(peers, fd, m)
          /\ inbox' = [inbox EXCEPT ![fd] = Append(@, m)]
          /\ UNCHANGED <<handlerVars, mainVars, open, backlog>>
      BY <2>9 DEF PatientSend, Send
    <3> QED BY <1>1, <2>1, <3>1, SayKeeps
  <2> QED
    BY <1>3, <2>2, <2>3, <2>4, <2>5, <2>6, <2>7, <2>8, <2>9
    DEF PatientNext, PatientStep, MainStep, WorkerStep
<1> QED BY <1>2, <1>3

-----------------------------------------------------------------------------
(* What the tracker does for patient clients, one per host. *)

THEOREM PatientInvariance == PatientSpec => []PInv
BY InitPInv, NextPInv, PTL DEF PatientSpec

\* No handler gives out a source that has disconnected: main's removal, which
\* takes no mutex, is not overtaken by an announce of the peer it removes, and
\* a handler adds the sender, an entry of the list (common.c:162-202,
\* handler.c:439).
THEOREM PatientSources == PatientSpec => []SourcesRegistered
<1>1. PInv => SourcesRegistered
  BY DEF PInv
<1> QED BY <1>1, PatientInvariance, PTL

\* The tracker never keeps an entry whose socket is closed or is another
\* host's: an announce is handled before its connection can be closed, and the
\* entry goes before the descriptor does (main.c:131-132).
THEOREM PatientSockets == PatientSpec => []SocketOfThePeer
<1>1. PInv => SocketOfThePeer
  BY DEF PInv
<1> QED BY <1>1, PatientInvariance, PTL

\* An answer is written to the connection its message came from, still open
\* and the sender's own: main cannot have closed and reused the descriptor
\* while the job was in the pool (handler.c:483-491, main.c:110-137).
THEOREM PatientAnswers == PatientSpec => AnswersTheSender
<1> DEFINE Answered == \A w \in Workers :
             inside = w /\ replies' # replies =>
               open[replies'.to] \in {running[w].from, NoConn}
<1>1. PInv /\ [PatientNext]_vars => [Answered]_vars
  <2> SUFFICES ASSUME PInv, [PatientNext]_vars, NEW w \in Workers,
                      inside = w, replies' # replies
               PROVE  open[replies'.to] = running[w].from
    OBVIOUS
  <2>1. [Next]_vars /\ SInv
    BY PatientIsNext DEF PInv
  <2>2. (\E v \in Workers : Handle(v)) \/ UNCHANGED replies
    BY <2>1
    DEF Next, MainStep, ClientStep, WorkerStep, vars, handlerVars, poolVars, CloseTest,
        CloseIt, ClearIt, ResetIt, Select, PassDone, AcceptFails, Accept, Recv, RecvEnd,
        ForgetErrors, FilesForgotten, ForgetPeer, ForgetFile, HangupIt, Race, Broken, Crash, Take,
        Enter, Dial, Send, Leave
  <2>3. Handle(w)
    BY <2>1, <2>2, HandleIs
  <2>4. running[w] \in Work /\ HandleClient(running[w].fd, running[w].from, running[w].m)
    BY <2>1, <2>3, HandleIs DEF Work
  <2>5. replies'.to = running[w].fd
    BY <2>4, HandleClientAnswers
  <2> QED BY <2>4, <2>5 DEF PInv, WorkOne
<1> QED BY <1>1, PatientInvariance, PTL DEF PatientSpec, AnswersTheSender

\* Patient clients are clients: what holds for any holds for them too.
THEOREM PatientRefines == PatientSpec => Spec
BY PatientIsNext, PTL DEF PatientSpec, Spec
=============================================================================
