----------------------------- MODULE TrackerServer -----------------------------
(***************************************************************************)
(* The tracker with its threads (src/tracker/src/main.c): main multiplexes *)
(* the connections with select, forgets the clients that leave and closes  *)
(* the descriptor a handler asked for; the threads of the pool handle the  *)
(* messages main received, one at a time under the three mutexes.          *)
(*                                                                         *)
(* main takes none of these mutexes.  Its walk through the tables when a   *)
(* client leaves is several steps, one per list and per file, that fall    *)
(* between the handlers' and during them; what a handler asked to close is *)
(* tested, closed, taken out of the set and reset in four unguarded        *)
(* accesses to *fd_to_remove.                                              *)
(*                                                                         *)
(* What uninitialised fields of a file do is Tracker's subject: here they   *)
(* are zero.  A message is one recv: TCP neither splits nor merges the requests here. *)
(***************************************************************************)
EXTENDS TrackerHandlers

CONSTANTS
  Requests,   \* the messages clients send
  Workers,    \* the threads of the pool
  NoConn,     \* not a remote: the descriptor is free
  NoJob,      \* the thread is doing nothing
  Listener,   \* server_fd, below every descriptor accept returns
  EndOfStream \* what recv finds when the client has closed its end

ASSUME RequestsAssumption ==
  \A m \in Requests : m.op = "announce" => m \in AnnounceType
ASSUME NoGarbageAssumption == Garbage = {}
ASSUME NoConnAssumption == NoConn \notin Remotes
ASSUME FdsAssumption == Fds \subseteq Nat /\ Listener \in Nat /\ \A fd \in Fds : Listener < fd

VARIABLES
  open,       \* the remote end of the connection of each descriptor
  inbox,      \* what each connection has brought and main has not received
  backlog,    \* the remotes that wait to be accepted
  master,     \* master_fds, without server_fd
  ready,      \* what is left of read_fds in the pass over it
  pc,         \* where main is
  leaving,    \* the address remove_client_ressources is removing
  walked,     \* the files it has looked at
  queue,      \* the jobs of the pool
  running,    \* the job of each of its threads
  inside,     \* the thread that holds the three mutexes, or NoJob
  asker       \* history: the remote whose message last set *fd_to_remove

mainVars == <<master, ready, pc, leaving, walked>>
poolVars == <<queue, running, inside>>
netVars == <<open, inbox, backlog>>
vars == <<handlerVars, mainVars, poolVars, netVars, asker>>

Pool == INSTANCE JobQueue WITH
          Jobs <- [fd : Fds, from : Remotes, m : Requests]

Init ==
  /\ HandlersInit
  /\ open = [fd \in Fds |-> NoConn]
  /\ inbox = [fd \in Fds |-> <<>>]
  /\ backlog = {}
  /\ master = {}
  /\ ready = {}
  /\ pc = "test"
  /\ leaving = <<>>
  /\ walked = {}
  /\ Pool!Init
  /\ inside = NoJob
  /\ asker = NoConn

-----------------------------------------------------------------------------
(* The clients. *)

Closed(fd) == EndOfStream \in ToSet(inbox[fd])

\* A remote has one connection at a time: its port stays taken until the
\* tracker has closed its end too.
Dial(c) ==
  /\ up
  /\ c \notin backlog
  /\ \A fd \in Fds : open[fd] # c
  /\ backlog' = backlog \cup {c}
  /\ UNCHANGED <<handlerVars, mainVars, poolVars, open, inbox, asker>>

Send(fd, m) ==
  /\ up
  /\ open[fd] # NoConn /\ ~Closed(fd)
  /\ inbox' = [inbox EXCEPT ![fd] = Append(@, m)]
  /\ UNCHANGED <<handlerVars, mainVars, poolVars, open, backlog, asker>>

Leave(fd) ==
  /\ up
  /\ open[fd] # NoConn /\ ~Closed(fd)
  /\ inbox' = [inbox EXCEPT ![fd] = Append(@, EndOfStream)]
  /\ UNCHANGED <<handlerVars, mainVars, poolVars, open, backlog, asker>>

-----------------------------------------------------------------------------
(* main: the descriptor a handler asked for. *)

\* main at one place, and what that leaves alone.
MainAt(place) == up /\ pc = place

CloseTest ==
  /\ MainAt("test")
  /\ pc' = IF toClose = NoFd THEN "select" ELSE "close"
  /\ UNCHANGED <<handlerVars, poolVars, netVars, master, ready, leaving, walked, asker>>

\* close and what the kernel forgets with it; closing a descriptor that is
\* not open does nothing.
Hangup(fd) ==
  /\ open' = [open EXCEPT ![fd] = NoConn]
  /\ inbox' = [inbox EXCEPT ![fd] = <<>>]

CloseIt ==
  /\ MainAt("close")
  /\ Hangup(toClose)
  /\ pc' = "clear"
  /\ UNCHANGED <<handlerVars, poolVars, backlog, master, ready, leaving, walked, asker>>

ClearIt ==
  /\ MainAt("clear")
  /\ master' = master \ {toClose}
  /\ pc' = "reset"
  /\ UNCHANGED <<handlerVars, poolVars, netVars, ready, leaving, walked, asker>>

ResetIt ==
  /\ MainAt("reset")
  /\ toClose' = NoFd
  /\ pc' = "select"
  /\ UNCHANGED <<peers, files, errs, replies, streak, up, poolVars, netVars,
                 master, ready, leaving, walked, asker>>

-----------------------------------------------------------------------------
(* main: select, and the pass over what is ready, lowest descriptor first. *)

Readable ==
  {fd \in master : inbox[fd] # <<>>} \cup (IF backlog = {} THEN {} ELSE {Listener})

\* A descriptor of the set that is not open is an error, and main exits.
Select ==
  /\ MainAt("select")
  /\ IF \E fd \in master : open[fd] = NoConn
     THEN pc' = "exited" /\ UNCHANGED ready
     ELSE Readable # {} /\ ready' = Readable /\ pc' = "pass"
  /\ UNCHANGED <<handlerVars, poolVars, netVars, master, leaving, walked, asker>>

PassDone ==
  /\ MainAt("pass")
  /\ ready = {}
  /\ pc' = "test"
  /\ UNCHANGED <<handlerVars, poolVars, netVars, master, ready, leaving, walked, asker>>

Turn(fd) == ready # {} /\ fd = Min(ready)

Free == {fd \in Fds : open[fd] = NoConn}

\* The kernel gives the lowest free descriptor.
Accept(c) ==
  /\ MainAt("pass")
  /\ Turn(Listener)
  /\ c \in backlog
  /\ Free # {}
  /\ backlog' = backlog \ {c}
  /\ open' = [open EXCEPT ![Min(Free)] = c]
  /\ master' = master \cup {Min(Free)}
  /\ ready' = ready \ {Listener}
  /\ UNCHANGED <<handlerVars, poolVars, inbox, pc, leaving, walked, asker>>

\* Out of descriptors: accept fails, and main exits.
AcceptFails ==
  /\ MainAt("pass")
  /\ Turn(Listener)
  /\ Free = {}
  /\ pc' = "exited"
  /\ UNCHANGED <<handlerVars, poolVars, netVars, master, ready, leaving, walked, asker>>

\* Mutant: the end of the stream is a message.
RecvAny(fd) ==
  /\ MainAt("pass")
  /\ Turn(fd)
  /\ Pool!Push([fd |-> fd, from |-> open[fd], m |-> Head(inbox[fd])])
  /\ inbox' = [inbox EXCEPT ![fd] = Tail(@)]
  /\ ready' = ready \ {fd}
  /\ UNCHANGED <<handlerVars, inside, open, backlog, master, pc, leaving, walked, asker>>

Recv(fd) ==
  /\ MainAt("pass")
  /\ Turn(fd)
  /\ Head(inbox[fd]) # EndOfStream
  /\ Pool!Push([fd |-> fd, from |-> open[fd], m |-> Head(inbox[fd])])
  /\ inbox' = [inbox EXCEPT ![fd] = Tail(@)]
  /\ ready' = ready \ {fd}
  /\ UNCHANGED <<handlerVars, inside, open, backlog, master, pc, leaving, walked, asker>>

\* Mutant: the connection is closed and nobody forgotten.
RecvEndForgets(fd) ==
  /\ MainAt("pass")
  /\ Turn(fd)
  /\ Head(inbox[fd]) = EndOfStream
  /\ pc' = "hangup"
  /\ UNCHANGED <<handlerVars, poolVars, netVars, master, ready, leaving, walked, asker>>

\* recv returns 0: remove_client_ressources starts with the first peer that
\* announced on fd, if there is one.
RecvEnd(fd) ==
  /\ MainAt("pass")
  /\ Turn(fd)
  /\ Head(inbox[fd]) = EndOfStream
  /\ IF WithSocket(peers, fd) = {}
     THEN pc' = "hangup" /\ UNCHANGED leaving
     ELSE /\ leaving' = peers[First(WithSocket(peers, fd))].addr
          /\ pc' = "forgetErrors"
  /\ walked' = {}
  /\ UNCHANGED <<handlerVars, poolVars, netVars, master, ready, asker>>

-----------------------------------------------------------------------------
(* main: remove_client_ressources, without the mutexes. *)

ForgetErrors ==
  /\ MainAt("forgetErrors")
  /\ errs' = WithoutFirst(errs, At(errs, leaving))
  /\ pc' = "forgetFiles"
  /\ UNCHANGED <<peers, files, toClose, replies, streak, up, poolVars, netVars,
                 master, ready, leaving, walked, asker>>

\* The file list with k alone as it is in after.
Visited(k, after) ==
  [l \in (DOMAIN files \ {k}) \cup (DOMAIN after \cap {k}) |->
     IF l = k THEN after[k] ELSE files[l]]

\* One file of the list: remove_seed, remove_leech, and the file unlinked
\* when nobody seeds it any more.
ForgetFile(k) ==
  /\ MainAt("forgetFiles")
  /\ k \in DOMAIN files \ walked
  /\ files' = Visited(k, DropPeer(files, leaving))
  /\ walked' = walked \cup {k}
  /\ UNCHANGED <<peers, errs, toClose, replies, streak, up, poolVars, netVars,
                 master, ready, pc, leaving, asker>>

FilesForgotten ==
  /\ MainAt("forgetFiles")
  /\ DOMAIN files \subseteq walked
  /\ pc' = "forgetPeer"
  /\ UNCHANGED <<handlerVars, poolVars, netVars, master, ready, leaving, walked, asker>>

ForgetPeer ==
  /\ MainAt("forgetPeer")
  /\ peers' = WithoutFirst(peers, At(peers, leaving))
  /\ pc' = "hangup"
  /\ UNCHANGED <<files, errs, toClose, replies, streak, up, poolVars, netVars,
                 master, ready, leaving, walked, asker>>

\* close, FD_CLR and on with the pass.
HangupIt ==
  LET fd == Min(ready)
  IN /\ MainAt("hangup")
     /\ Hangup(fd)
     /\ master' = master \ {fd}
     /\ ready' = ready \ {fd}
     /\ pc' = "pass"
     /\ UNCHANGED <<handlerVars, poolVars, backlog, leaving, walked, asker>>

\* While a handler reads or writes the lists: a data race.
Race ==
  /\ up
  /\ pc \in {"forgetErrors", "forgetFiles", "forgetPeer"}
  /\ inside # NoJob
  /\ Crash
  /\ UNCHANGED <<mainVars, poolVars, netVars, asker>>

-----------------------------------------------------------------------------
(* The threads of the pool: thread_work. *)

Take(w) ==
  /\ up
  /\ Pool!Take(w)
  /\ UNCHANGED <<handlerVars, mainVars, inside, netVars, asker>>

\* peers_mutex, files_mutex and invalid_tracker_mutex, which every thread
\* takes in this order: the first one taken, the others are free or will be.
Enter(w) ==
  /\ up
  /\ running[w] # NoJob
  /\ inside = NoJob
  /\ inside' = w
  /\ UNCHANGED <<handlerVars, mainVars, queue, running, netVars, asker>>

\* Answering a client that has closed its end may raise SIGPIPE, which main
\* leaves to its default: the process ends.  Only exit is not answered.
Broken(w) ==
  /\ up
  /\ inside = w /\ running[w] # NoJob
  /\ Closed(running[w].fd)
  /\ ~(running[w].m.op = "exit" /\ Announced(running[w].from))
  /\ Crash
  /\ UNCHANGED <<mainVars, poolVars, netVars, asker>>

\* Mutant: the job is run and its thread leaves, the mutexes stay taken.
HandleLocked(w) ==
  /\ up
  /\ inside = w /\ running[w] # NoJob
  /\ HandleClient(running[w].fd, running[w].from, running[w].m)
  /\ asker' = IF toClose' = toClose THEN asker ELSE running[w].from
  /\ Pool!Finish(w)
  /\ UNCHANGED <<mainVars, netVars, inside>>

Handle(w) ==
  /\ up
  /\ inside = w
  /\ HandleClient(running[w].fd, running[w].from, running[w].m)
  /\ asker' = IF toClose' = toClose THEN asker ELSE running[w].from
  /\ Pool!Finish(w)
  /\ inside' = NoJob
  /\ UNCHANGED <<mainVars, netVars>>

-----------------------------------------------------------------------------

MainStep ==
  \/ CloseTest \/ CloseIt \/ ClearIt \/ ResetIt
  \/ Select \/ PassDone
  \/ AcceptFails \/ \E c \in Remotes : Accept(c)
  \/ \E fd \in Fds : Recv(fd) \/ RecvEnd(fd)
  \/ ForgetErrors \/ FilesForgotten \/ ForgetPeer \/ HangupIt
  \/ \E k \in Keys : ForgetFile(k)

WorkerStep(w) == Take(w) \/ Enter(w) \/ Handle(w) \/ Broken(w)

ClientStep ==
  \/ \E c \in Remotes : Dial(c)
  \/ \E fd \in Fds : Leave(fd) \/ \E m \in Requests : Send(fd, m)

Next == MainStep \/ Race \/ ClientStep \/ \E w \in Workers : WorkerStep(w)

\* main and the threads of the pool are scheduled.  Nothing makes a client
\* send, leave or connect.
Fairness == WF_vars(MainStep) /\ \A w \in Workers : WF_vars(WorkerStep(w))

Spec == Init /\ [][Next]_vars
FairSpec == Spec /\ Fairness

-----------------------------------------------------------------------------
(* Properties. *)

Places ==
  {"test", "close", "clear", "reset", "select", "pass", "forgetErrors",
   "forgetFiles", "forgetPeer", "hangup", "exited"}

TypeOK ==
  /\ peers \in Seq([addr : Addr, sock : Fds])
  /\ files \in [DOMAIN files -> FileType] /\ DOMAIN files \subseteq Keys
  /\ toClose \in Fds \cup {NoFd}
  /\ open \in [Fds -> Remotes \cup {NoConn}]
  /\ inbox \in [Fds -> Seq(Requests \cup {EndOfStream})]
  /\ backlog \subseteq Remotes
  /\ master \subseteq Fds
  /\ ready \subseteq Fds \cup {Listener}
  /\ pc \in Places
  /\ queue \in Seq([fd : Fds, from : Remotes, m : Requests])
  /\ running \in [Workers -> [fd : Fds, from : Remotes, m : Requests] \cup {NoJob}]
  /\ inside \in Workers \cup {NoJob}

\* What there is to do for the pool and for main is done, whatever the
\* clients did: no message stays queued, no message and no end of stream
\* stays unreceived on a connection main still selects.
Quiet ==
  /\ queue = <<>>
  /\ \A w \in Workers : running[w] = NoJob
  /\ \A fd \in master : inbox[fd] = <<>>

\* When the clients have no more to say, the tracker gets there, or ends: no
\* thread is left waiting for the mutexes (handler.c:483-491), no descriptor
\* is passed over (main.c:99-143).
Drained == <>[](Quiet \/ ~up \/ pc = "exited")

\* An answer reaches the connection whose message it answers, if any.
AnswersTheSender ==
  [][\A w \in Workers :
       inside = w /\ replies' # replies =>
         open[replies'.to] \in {running[w].from, NoConn}]_vars

\* The socket of an entry is a connection of its peer's host until the peer
\* is forgotten: main closes it last (main.c:131-132).
SocketOfThePeer == OwnSockets(open)

\* handler.h:37: "The file descriptor to remove if necessary": the connection
\* main closes is the one a handler asked to end.
ClosesTheAsker ==
  [][pc = "close" /\ pc' = "clear" => open[toClose] \in {asker, NoConn}]_vars
=============================================================================
