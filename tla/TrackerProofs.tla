---------------------------- MODULE TrackerProofs ----------------------------
(***************************************************************************)
(* Proofs about Tracker, for every set of hosts, ports, descriptors, keys, *)
(* messages and every garbage a new node may hold: its tables stay well    *)
(* formed, and what they owe to the past.  A file keeps its description    *)
(* and goes only with its last seeder; the record of a remote counts at    *)
(* least the errors it made in a row.                                      *)
(***************************************************************************)
EXTENDS Tracker, HandlersProofs

(* The inductive invariant.  TypeOK alone is not inductive: a departure    *)
(* clears the lists of a file only if its peer has a single entry, and an  *)
(* update only adds a registered peer.                                     *)

IInv ==
  /\ ListsInv
  /\ SourcesRegistered
  /\ open \in [Fds -> Remotes \cup {NoConn}]

\* What the inductive invariant is for.
LEMMA IInvImplies ==
  ASSUME IInv
  PROVE  TypeOK /\ EntriesDistinct /\ SourcesRegistered /\ EveryFileSeeded
BY ListsInvImplies DEF IInv, ListsInv, PeersInv, ErrsInv, PeerEntry, ErrorRecord, TypeOK

LEMMA InitIInv == Init => IInv
BY InitLists DEF Init, IInv

\* A message is handled for a remote, and announces are typed.
LEMMA ReceiveIs ==
  ASSUME IInv, NEW fd \in Fds, NEW m \in Requests, Receive(fd, m)
  PROVE  /\ ListsInv /\ SourcesRegistered
         /\ open[fd] \in Remotes
         /\ m.op = "announce" => m \in AnnounceType
         /\ HandleClient(fd, open[fd], m)
BY RequestsAssumption DEF Receive, IInv

LEMMA NextIInv == IInv /\ [Next]_vars => IInv'
<1> SUFFICES ASSUME IInv, [Next]_vars PROVE IInv'
  OBVIOUS
<1>1. ASSUME NEW fd \in Fds, NEW c \in Remotes, Connect(fd, c)
      PROVE  IInv'
  BY <1>1 DEF Connect, handlerVars, IInv, ListsInv, PeersInv, ErrsInv, SourcesRegistered
<1>2. ASSUME NEW fd \in Fds, NEW m \in Requests, Receive(fd, m)
      PROVE  IInv'
  <2>1. ListsInv' /\ SourcesRegistered'
    BY <1>2, ReceiveIs, HandleClientKeeps, HandleClientSources
  <2> QED BY <1>2, <2>1 DEF Receive, IInv
<1>3. ASSUME NEW fd \in Fds, Disconnect(fd)
      PROVE  IInv'
  <2>1. ListsInv' /\ SourcesRegistered'
    BY <1>3, RemoveClientKeeps DEF Disconnect, IInv
  <2> QED BY <1>3, <2>1 DEF Disconnect, IInv
<1>4. ASSUME CloseRequested
      PROVE  IInv'
  BY <1>4 DEF CloseRequested, IInv, ListsInv, PeersInv, ErrsInv, SourcesRegistered
<1>5. ASSUME UNCHANGED vars
      PROVE  IInv'
  BY <1>5 DEF vars, IInv, ListsInv, PeersInv, ErrsInv, SourcesRegistered
<1> QED BY <1>1, <1>2, <1>3, <1>4, <1>5 DEF Next

THEOREM Invariance == Spec => []IInv
BY InitIInv, NextIInv, PTL DEF Spec

\* Whatever clients send and however connections come and go, the three
\* tables stay well formed (common.c, handler.c).
THEOREM TypeCorrect == Spec => []TypeOK
<1>1. IInv => TypeOK
  BY IInvImplies
<1> QED BY <1>1, Invariance, PTL

\* check_if_peer_exist and check_if_tracker_exist keep the lists free of
\* duplicates, in spite of every path that adds or removes an entry.
THEOREM NoDuplicates == Spec => []EntriesDistinct
<1>1. IInv => EntriesDistinct
  BY IInvImplies
<1> QED BY <1>1, Invariance, PTL

\* A departure leaves no trace of its address in any file: getfile only ever
\* gives out registered peers.
THEOREM SourcesAreRegistered == Spec => []SourcesRegistered
<1>1. IInv => SourcesRegistered
  BY IInvImplies
<1> QED BY <1>1, Invariance, PTL

\* No path leaves a listed file without a seeder, the invariant add_seed and
\* remove_file rely on when they follow file->seed.
THEOREM FilesAreSeeded == Spec => []EveryFileSeeded
<1>1. IInv => EveryFileSeeded
  BY IInvImplies
<1> QED BY <1>1, Invariance, PTL

-----------------------------------------------------------------------------
(* The history of a file. *)

\* What a step does to the file list.
LEMMA NextFiles ==
  ASSUME IInv, [Next]_vars
  PROVE  /\ \A k \in DOMAIN files \cap DOMAIN files' : files'[k].meta = files[k].meta
         /\ \A k \in DOMAIN files \ DOMAIN files' :
              \E a \in Addr : /\ files[k].seed = {a}
                              /\ a \in Registered(peers) /\ a \notin Registered(peers')
<1>1. CASE UNCHANGED files
  BY <1>1
<1>2. ASSUME NEW fd \in Fds, NEW m \in Requests, Receive(fd, m)
      PROVE  UNCHANGED files \/ \E a : Grows(files, files', a)
  BY <1>2, ReceiveIs, HandleClientKeeps
<1>3. ASSUME NEW fd \in Fds, Disconnect(fd)
      PROVE  /\ \A k \in DOMAIN files' : /\ k \in DOMAIN files
                                         /\ files'[k].meta = files[k].meta
             /\ \A k \in DOMAIN files \ DOMAIN files' :
                  \E a \in Addr : /\ files[k].seed = {a}
                                  /\ a \in Registered(peers) /\ a \notin Registered(peers')
  BY <1>3, RemoveClientKeeps DEF Disconnect, IInv
<1>4. UNCHANGED files \/ (\E fd \in Fds, m \in Requests : Receive(fd, m))
      \/ \E fd \in Fds : Disconnect(fd)
  BY DEF Next, Connect, CloseRequested, vars, handlerVars
<1> QED BY <1>1, <1>2, <1>3, <1>4 DEF Grows

\* add_file is the only function that writes a description.
THEOREM DescriptionsStay == Spec => MetaStable
<1>1. IInv /\ [Next]_vars =>
        [\A k \in DOMAIN files \cap DOMAIN files' : files'[k].meta = files[k].meta]_vars
  BY NextFiles
<1> QED BY <1>1, Invariance, PTL DEF Spec, MetaStable

\* A file is lost only with its last seeder, who is no longer registered then
\* (common.c:162-202): nothing another client sends unlists it.
THEOREM LostWithLastSeeder == Spec => FileLostWithLastSeeder
<1>1. IInv /\ [Next]_vars =>
        [\A k \in DOMAIN files \ DOMAIN files' :
           \E a \in Addr : /\ files[k].seed = {a}
                           /\ a \in Registered(peers)
                           /\ a \notin Registered(peers')]_vars
  BY NextFiles
<1> QED BY <1>1, Invariance, PTL DEF Spec, FileLostWithLastSeeder

-----------------------------------------------------------------------------
(* The error counters. *)

\* The third error in a row of a remote ends its connection, whatever the
\* others do in between and whatever its record was before: the record counts
\* no less than the errors in a row (common.c:725-800, handler.c:160-190).
THEOREM ErrorsAreCounted == Spec => []ErrorsCounted
<1>1. Init => ErrorsCounted
  BY DEF Init, HandlersInit, ErrorsCounted, MaxErrors
<1>2. IInv /\ ErrorsCounted /\ [Next]_vars => ErrorsCounted'
  <2> SUFFICES ASSUME IInv, ErrorsCounted, [Next]_vars, NEW c \in Remotes \ Addr
               PROVE  Counted(c)'
    BY DEF ErrorsCounted, Counted, Counts
  <2>1. Counted(c)
    BY DEF ErrorsCounted, Counted, Counts
  <2>2. ASSUME UNCHANGED <<errs, streak>> PROVE Counted(c)'
    BY <2>1, <2>2 DEF Counted, Counts
  <2>3. ASSUME NEW fd \in Fds, NEW m \in Requests, Receive(fd, m)
        PROVE  Counted(c)'
    BY <2>1, <2>3, ReceiveIs, HandleClientCounts
  <2>4. ASSUME NEW fd \in Fds, Disconnect(fd)
        PROVE  Counted(c)'
    BY <2>1, <2>4, RemoveClientCounts DEF Disconnect, IInv
  <2> QED BY <2>2, <2>3, <2>4 DEF Next, Connect, CloseRequested, vars, handlerVars
<1> QED BY <1>1, <1>2, Invariance, PTL DEF Spec
=============================================================================
