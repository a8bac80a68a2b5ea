--------------------------- MODULE TrackerHandlers ---------------------------
(***************************************************************************)
(* The tracker's answer to one message (src/tracker/src/handler.c): what   *)
(* handleClient does to the three tables, to the descriptor main is asked  *)
(* to close and to the connection, between taking and releasing the three  *)
(* mutexes.  Each action is one whole path through handleClient, from the  *)
(* creation of the sender's error record to set_last_error_to_zero.        *)
(*                                                                         *)
(* A message is a record whose op tells how handleClient classifies it:    *)
(*   blank        "\n" or "\r\n"                                           *)
(*   null         parse_message returns NULL                               *)
(*   announce     with port (0 when atoi gives 0) and up to two parts      *)
(*   badAnnounce  starts with announce, has too few words                  *)
(*   look, getfile, update, exit                                           *)
(*   lookBlank    look with an argument in which there is no word          *)
(*   unknown      anything else, a wrong number of words included          *)
(***************************************************************************)
EXTENDS TrackerTables

CONSTANTS
  Ips,        \* addresses of hosts
  Ports,      \* ports peers say they listen on, 0 excluded
  SrcPorts,   \* ports connections come from
  Fds,        \* descriptors of accepted connections
  Keys,       \* keys of files
  Metas,      \* descriptions of files: name, size and psize
  Garbage,    \* the fields of a new file node malloc may leave non-zero
  NoFd        \* -1, the value of *fd_to_remove when there is nothing to close

Addr == Ips \X Ports
Remotes == Ips \X SrcPorts

FileType == [meta : Metas, seed : SUBSET Addr, leech : SUBSET Addr,
             wild : SUBSET Garbage]

\* An announce: port and parts, each a type and its groups of four words
\* when the words are a multiple of four; of a blank argument there are none.
PartType == [type : {"seed", "leech", "other"}, whole : BOOLEAN,
             items : Seq([key : Keys, meta : Metas])]
AnnounceType == [op : {"announce"}, port : Ports \cup {0}, parts : Seq(PartType)]

ASSUME GarbageAssumption == Garbage \subseteq {"next", "leech"}
ASSUME PortsAssumption == 0 \notin Ports
ASSUME NoFdAssumption == NoFd \notin Fds

VARIABLES
  peers,      \* Node_Peers list: Seq([addr : Addr, sock : Fds])
  files,      \* Node_File list: listed keys -> [meta, seed, leech, wild]
  errs,       \* Invalid_tracker list: Seq([addr : Remotes, last, nb])
  toClose,    \* *fd_to_remove
  replies,    \* the answers to the last message: [to, of, said, given], given
              \* being the files listed by look or the peers by getfile
  streak,     \* history: errors in a row of each remote since it was last
              \* served or told that its connection ends
  up          \* FALSE once a garbage pointer has been followed

tables == <<peers, files, errs>>
handlerVars == <<peers, files, errs, toClose, replies, streak, up>>

MaxErrors == 3

HandlersInit ==
  /\ peers = <<>>
  /\ files = <<>>
  /\ errs = <<>>
  /\ toClose = NoFd
  /\ replies = [to |-> NoFd, of |-> [op |-> "none"],
                said |-> <<>>, given |-> {}]
  /\ streak = [c \in Remotes |-> 0]
  /\ up = TRUE

-----------------------------------------------------------------------------
(* Pieces shared by the paths. *)

\* What follows a garbage pointer is undefined, and a null one ends the process:
\* the model stops there.
Crash == up' = FALSE /\ UNCHANGED <<peers, files, errs, toClose, replies, streak>>

\* Mutant: the answer goes to the socket of the first registered peer.
ReplyToFirst(fd, m, said) ==
  replies' = [to |-> IF peers = <<>> THEN fd ELSE peers[1].sock,
              of |-> m, said |-> said, given |-> {}]

Reply(fd, m, said) ==
  replies' = [to |-> fd, of |-> m, said |-> said, given |-> {}]

\* Mutant: the end of the line is sent on its own.
GiveLine(fd, m, text, set) ==
  replies' = [to |-> fd, of |-> m, said |-> <<text, "newline">>, given |-> set]

Give(fd, m, text, set) ==
  replies' = [to |-> fd, of |-> m, said |-> <<text>>, given |-> set]

\* The gate of handleClient: some peer with the sender's IP has announced.
Announced(c) == WithIp(peers, c[1]) # {}

\* A valid command was served: set_last_error_to_zero.
Served(c) ==
  /\ errs' = ClearErrors(AddRecord(errs, c), c)
  /\ streak' = [streak EXCEPT ![c] = 0]

\* An error is counted; with limited it may be the one that ends the
\* connection: the record is removed and main is asked to close fd.
Fail(fd, c, m, limited, text) ==
  LET es == AddRecord(errs, c)
      i == First(At(es, c))
      kicked == limited /\ es[i].nb + 1 >= MaxErrors
  IN /\ errs' = IF kicked THEN RemoveError(es, c) ELSE CountError(es, i)
     /\ toClose' = IF kicked THEN fd ELSE toClose
     /\ Reply(fd, m, IF kicked THEN <<text, "threeErrors">> ELSE <<text>>)
     /\ streak' = [streak EXCEPT ![c] = IF kicked THEN 0 ELSE @ + 1]
     /\ UNCHANGED <<peers, files, up>>

\* HandleError looks at the limit only after an error that follows an error.
HandleError(fd, c, m) ==
  LET es == AddRecord(errs, c)
  IN Fail(fd, c, m, es[First(At(es, c))].last = 1, "invalid")

-----------------------------------------------------------------------------
(* The paths through handleClient before the commands. *)

BlankLine(fd, c, m) == m.op = "blank" /\ HandleError(fd, c, m)

\* No error is counted, none is cleared.
MessageNull(fd, c, m) ==
  /\ m.op = "null"
  /\ errs' = AddRecord(errs, c)
  /\ Reply(fd, m, <<"null">>)
  /\ UNCHANGED <<peers, files, toClose, streak, up>>

\* print_files_and_peers walks every list before the error is counted.
NotAnnounced(fd, c, m) ==
  /\ m.op \in {"look", "lookBlank", "getfile", "update", "exit", "unknown"}
  /\ ~Announced(c)
  /\ IF EndIsWild(files) \/ \E k \in DOMAIN files : LeechIsWild(files, k)
     THEN Crash
     ELSE Fail(fd, c, m, TRUE, "notAnnounced")

-----------------------------------------------------------------------------
(* announce *)

\* addseed and addleech look into what parse_message returned, which is NULL for
\* a blank argument.
Blank(p) == p.items = <<>>

\* What a part does to the file list: files, the replies it makes, whether
\* it ran to its end, whether it follows a garbage or a null pointer.
Part(F, p, a, wild) ==
  IF p.type = "seed" /\ p.whole THEN
    [files |-> SeedPart(F, p.items, a, wild),
     said |-> IF SeedOk(F, p.items) THEN <<>> ELSE <<"wrongSeed">>,
     ok |-> SeedOk(F, p.items),
     crash |-> Blank(p) \/ SeedCrashes(F, p.items, wild)]
  ELSE IF p.type = "leech" /\ p.whole THEN
    [files |-> LeechPart(F, p.items, a),
     said |-> [i \in 1..Cardinality(Unseeded(F, p.items)) |-> "notSeeded"]
              \o (IF LeechOk(F, p.items) THEN <<>> ELSE <<"wrongSeed">>),
     ok |-> LeechOk(F, p.items),
     crash |-> Blank(p) \/ LeechCrashes(F, p.items)]
  ELSE [files |-> F, said |-> <<"wrongPart">>, ok |-> FALSE, crash |-> FALSE]

Nothing(F) == [files |-> F, said |-> <<>>, ok |-> TRUE, crash |-> FALSE]

\* The first part seeds or leeches, the second one can only leech, and is
\* looked at only when the first one ran to its end.
FirstPart(m, a, wild) ==
  IF Len(m.parts) = 0 THEN Nothing(files) ELSE Part(files, m.parts[1], a, wild)

SecondPart(m, a, wild) ==
  LET F == FirstPart(m, a, wild).files
      p == m.parts[2]
  IN IF Len(m.parts) < 2 \/ ~FirstPart(m, a, wild).ok THEN Nothing(F)
     ELSE Part(F, IF p.type = "leech" THEN p ELSE [p EXCEPT !.type = "other"], a, wild)

AnnounceParts(fd, c, m, wild) ==
  LET a == <<c[1], m.port>>
      p1 == FirstPart(m, a, wild)
      p2 == SecondPart(m, a, wild)
  IN IF p1.crash \/ p2.crash THEN Crash
     ELSE /\ peers' = AddPeer(peers, a, fd)
          /\ files' = p2.files
          /\ Reply(fd, m, p1.said \o p2.said
                       \o (IF p1.ok /\ p2.ok THEN <<"ok">> ELSE <<>>))
          /\ Served(c)
          /\ UNCHANGED <<toClose, up>>

\* What malloc may leave in the node of each file that is not listed yet.
Leftovers == [Keys \ DOMAIN files -> SUBSET Garbage]

\* Mutant: the port is not checked.
AnnounceAnyPort(fd, c, m) ==
  /\ m.op = "announce"
  /\ \E wild \in Leftovers : AnnounceParts(fd, c, m, wild)

\* The gate lets every announce through, and whatever handleAnnounce
\* replied the sender's errors are cleared.
Announce(fd, c, m) ==
  /\ m.op = "announce"
  /\ IF m.port = 0
     THEN /\ Reply(fd, m, <<"invalidPort">>)
          /\ Served(c)
          /\ UNCHANGED <<peers, files, toClose, up>>
     ELSE \E wild \in Leftovers : AnnounceParts(fd, c, m, wild)

-----------------------------------------------------------------------------
(* The commands behind the gate. *)

\* handleLook, of a blank argument: parse_message returned NULL.
LookBlank(fd, c, m) ==
  /\ m.op = "lookBlank"
  /\ Announced(c)
  /\ Crash

\* look [*] has an empty query marked all; the list is walked to its end.
Look(fd, c, m) ==
  /\ m.op = "look"
  /\ Announced(c)
  /\ IF EndIsWild(files) THEN Crash
     ELSE /\ Give(fd, m, "list", IF m.all THEN AllListed(files) ELSE Found(files, m.query))
          /\ Served(c)
          /\ UNCHANGED <<peers, files, toClose, up>>

Getfile(fd, c, m) ==
  LET known == m.key \in DOMAIN files
  IN /\ m.op = "getfile"
     /\ Announced(c)
     /\ IF IF known THEN LeechIsWild(files, m.key) ELSE EndIsWild(files)
        THEN Crash
        ELSE /\ Give(fd, m, "peers",
                     IF known THEN files[m.key].seed \cup files[m.key].leech ELSE {})
             /\ Served(c)
             /\ UNCHANGED <<peers, files, toClose, up>>

\* The peer updated is the first one announced from the sender's IP.
Update(fd, c, m) ==
  LET a == peers[First(WithIp(peers, c[1]))].addr
      seeds == Updated(m.tokens, "seed")
      leeches == Updated(m.tokens, "leech")
      crash == \/ EndIsWild(files) /\ ~(seeds \cup leeches \subseteq DOMAIN files)
               \/ \E k \in leeches \cap DOMAIN files : LeechIsWild(files, k)
  IN /\ m.op = "update"
     /\ Announced(c)
     /\ IF crash THEN Crash
        ELSE /\ files' = AddLeech(AddSeed(files, seeds, a), leeches, a)
             /\ Reply(fd, m, <<"ok">>)
             /\ Served(c)
             /\ UNCHANGED <<peers, toClose, up>>

\* No reply, and main is left to close the connection.
Exit(fd, c, m) ==
  /\ m.op = "exit"
  /\ Announced(c)
  /\ errs' = AddRecord(errs, c)
  /\ toClose' = fd
  /\ UNCHANGED <<peers, files, replies, streak, up>>

Unknown(fd, c, m) ==
  /\ \/ m.op = "unknown" /\ Announced(c)
     \/ m.op = "badAnnounce"
  /\ HandleError(fd, c, m)

HandleClient(fd, c, m) ==
  \/ BlankLine(fd, c, m)
  \/ MessageNull(fd, c, m)
  \/ NotAnnounced(fd, c, m)
  \/ Announce(fd, c, m)
  \/ Look(fd, c, m)
  \/ LookBlank(fd, c, m)
  \/ Getfile(fd, c, m)
  \/ Update(fd, c, m)
  \/ Exit(fd, c, m)
  \/ Unknown(fd, c, m)

-----------------------------------------------------------------------------
(* remove_client_ressources: the first peer that announced on fd leaves     *)
(* every table.  Its error record is looked up by its listening port.       *)
RemoveClient(fd) ==
  LET a == peers[First(WithSocket(peers, fd))].addr
  IN IF WithSocket(peers, fd) = {} THEN UNCHANGED handlerVars
     ELSE IF EndIsWild(files) \/ \E k \in DOMAIN files : LeechIsWild(files, k)
     THEN Crash
     ELSE /\ errs' = WithoutFirst(errs, At(errs, a))
          /\ files' = DropPeer(files, a)
          /\ peers' = WithoutFirst(peers, At(peers, a))
          /\ UNCHANGED <<toClose, replies, streak, up>>

-----------------------------------------------------------------------------
(* What the tables promise between two messages. *)

\* No address is registered twice and no remote has two error records: the
\* first match of a lookup by address is the only one.
EntriesDistinct ==
  /\ Distinct(peers)
  /\ Distinct(errs)

\* The addresses the tracker gives out for a key.
Sources(F, k) == IF k \in DOMAIN F THEN F[k].seed \cup F[k].leech ELSE {}

\* Every address the tracker gives out for a file, seeder or leecher, is one
\* of a registered peer: a departure never leaves an address behind in one
\* list (common.c:162-202).
SourcesRegistered ==
  \A k \in DOMAIN files :
    files[k].seed \cup files[k].leech \subseteq Registered(peers)

\* A listed file has a seeder: add_seed and remove_seed may follow the head of
\* its list, and getfile names at least one peer that has the whole file.
EveryFileSeeded == \A k \in DOMAIN files : files[k].seed # {}

\* Three errors in a row end the connection: the record of a remote counts at
\* least the errors it made in a row, so the third one reaches the limit.  A
\* remote whose port a peer of its host says it listens on is left out: its
\* record goes with that peer (common.c:170).
ErrorsCounted ==
  \A c \in Remotes \ Addr :
    /\ streak[c] < MaxErrors
    /\ streak[c] > 0 =>
         \E i \in DOMAIN errs : /\ errs[i].addr = c
                                /\ errs[i].last = 1
                                /\ errs[i].nb >= streak[c]

\* The socket of every entry is a connection from the host of the peer.
OwnSockets(conns) ==
  \A i \in DOMAIN peers :
    \E c \in Remotes : conns[peers[i].sock] = c /\ c[1] = peers[i].addr[1]
=============================================================================
