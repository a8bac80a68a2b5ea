------------------------------- MODULE Tracker -------------------------------
(***************************************************************************)
(* The tracker with its threads taken out: each message is received and    *)
(* handled in one step, each end of stream and each requested close is     *)
(* processed in one step of main (src/tracker/src/main.c).  What the       *)
(* tables, the descriptors and the error counters do over any sequence of  *)
(* connections, messages and departures is all here; what the worker       *)
(* threads add is in TrackerServer.                                        *)
(***************************************************************************)
EXTENDS TrackerHandlers

CONSTANTS
  Requests,   \* the messages clients send
  NoConn      \* not a remote: the descriptor is free

ASSUME RequestsAssumption ==
  \A m \in Requests : m.op = "announce" => m \in AnnounceType
ASSUME NoConnAssumption == NoConn \notin Remotes

VARIABLE
  open        \* for each descriptor, the remote end of its connection

vars == <<peers, files, errs, toClose, replies, streak, up, open>>

Init == HandlersInit /\ open = [fd \in Fds |-> NoConn]

\* accept: a free descriptor is given to a remote that is not connected.  A
\* descriptor that main has still to close is not free in this model: main
\* closes it at the top of its loop, before the accept that could reuse it.
Connect(fd, c) ==
  /\ up
  /\ open[fd] = NoConn
  /\ fd # toClose
  /\ \A f \in Fds : open[f] # c
  /\ open' = [open EXCEPT ![fd] = c]
  /\ UNCHANGED handlerVars

Receive(fd, m) ==
  /\ up
  /\ open[fd] # NoConn
  /\ HandleClient(fd, open[fd], m)
  /\ UNCHANGED open

\* recv returns 0 or an error: the connection is closed after the tables
\* have forgotten the first peer that announced on it.
Disconnect(fd) ==
  /\ up
  /\ open[fd] # NoConn
  /\ RemoveClient(fd)
  /\ open' = [open EXCEPT ![fd] = IF up' THEN NoConn ELSE @]

\* The top of main's loop: the descriptor a handler asked for is closed, and
\* the tables keep the peers that announced on it.
CloseRequested ==
  /\ up
  /\ toClose # NoFd
  /\ open' = [open EXCEPT ![toClose] = NoConn]
  /\ toClose' = NoFd
  /\ UNCHANGED <<peers, files, errs, replies, streak, up>>

Next ==
  \/ \E fd \in Fds, c \in Remotes : Connect(fd, c)
  \/ \E fd \in Fds, m \in Requests : Receive(fd, m)
  \/ \E fd \in Fds : Disconnect(fd)
  \/ CloseRequested

Spec == Init /\ [][Next]_vars

-----------------------------------------------------------------------------
(* Invariants. *)

TypeOK ==
  /\ peers \in Seq([addr : Addr, sock : Fds])
  /\ DOMAIN files \subseteq Keys
  /\ files \in [DOMAIN files -> FileType]
  /\ errs \in Seq([addr : Remotes, last : {0, 1}, nb : Nat])
  /\ toClose \in Fds \cup {NoFd}
  /\ streak \in [Remotes -> Nat]
  /\ up \in BOOLEAN
  /\ open \in [Fds -> Remotes \cup {NoConn}]

-----------------------------------------------------------------------------
(* Action properties. *)

\* A file is unlisted only by the departure of a peer, the only seeder it
\* had: no message, no other departure and no requested close loses a file.
FileLostWithLastSeeder ==
  [][\A k \in DOMAIN files \ DOMAIN files' :
       \E a \in Addr : /\ files[k].seed = {a}
                       /\ a \in Registered(peers)
                       /\ a \notin Registered(peers')]_vars

\* The description of a file is the one of the announce that listed it, as
\* long as it is listed, whatever later announces of its key say.
MetaStable ==
  [][\A k \in DOMAIN files \cap DOMAIN files' : files'[k].meta = files[k].meta]_vars

-----------------------------------------------------------------------------
(* What a document or a comment says and the code does not do. *)

\* handler.c:180: a connection is ended for "3 errors in a row".
ThreeErrorsInARow ==
  [][ replies' # replies /\ "threeErrors" \in ToSet(replies'.said) =>
        streak[open[replies'.to]] = MaxErrors - 1 ]_vars
=============================================================================
