----------------------------- MODULE PatientClients -----------------------------
(***************************************************************************)
(* The tracker of TrackerServer with clients that behave as the Java peers *)
(* do, one per host (src/peer/src/Peer.java, TrackerClient.java): a peer   *)
(* has one connection to the tracker, announces the port it listens on     *)
(* before it asks for anything, and reads the answer to a message before   *)
(* it sends the next one or goes.                                          *)
(***************************************************************************)
EXTENDS TrackerServer

\* Something the client of fd sent has not been handled.
InFlight(fd) ==
  \/ inbox[fd] # <<>>
  \/ \E i \in DOMAIN queue : queue[i].fd = fd
  \/ \E w \in Workers : running[w] # NoJob /\ running[w].fd = fd

\* The messages of a peer, when the tracker has the peers ps.  Its port never
\* changes, so an announce repeats the port of the peer's entry, if there is one.
OfPeer(ps, fd, m) ==
  /\ m.op \in {"announce", "update", "look", "getfile"}
  /\ IF m.op = "announce"
     THEN \A i \in WithSocket(ps, fd) : ps[i].addr[2] = m.port
     ELSE WithSocket(ps, fd) # {}

\* The Peer constructor: the only connection of its host.
PatientDial(c) ==
  /\ \A d \in backlog : d[1] # c[1]
  /\ \A fd \in Fds : open[fd] # NoConn => open[fd][1] # c[1]
  /\ Dial(c)

PatientSend(fd, m) == ~InFlight(fd) /\ OfPeer(peers, fd, m) /\ Send(fd, m)

PatientLeave(fd) == ~InFlight(fd) /\ Leave(fd)

PatientStep ==
  \/ \E c \in Remotes : PatientDial(c)
  \/ \E fd \in Fds : PatientLeave(fd) \/ \E m \in Requests : PatientSend(fd, m)

PatientNext == MainStep \/ Race \/ PatientStep \/ \E w \in Workers : WorkerStep(w)

PatientSpec == Init /\ [][PatientNext]_vars
=============================================================================
