---------------------------- MODULE TrackerSession ----------------------------
(***************************************************************************)
(* One Java peer and the tracker: the peer's threads share one socket      *)
(* (peer/src/TrackerClient.java), TCP is a stream, and main takes one recv *)
(* for one message (tracker/src/main.c:118-142).                           *)
(*                                                                         *)
(* TrackerServer lets the requests arrive one by one and models every step *)
(* of main; here main is either in select or about to test                 *)
(* *fd_to_remove, and what is modelled is what becomes of the text.  The   *)
(* peer's socket is Fd; another peer has announced before.                 *)
(*                                                                         *)
(* What is assumed of TCP: it joins requests, and replies, as it likes, and *)
(* splits neither; a request is split by the size of main's buffer alone,  *)
(* at any byte.  What is assumed of the text: numbers are one digit long,  *)
(* and no end of a name or of a key is a command.                          *)
(***************************************************************************)
EXTENDS TrackerHandlers, TrackerText

CONSTANTS
  Users,      \* the threads of the peer: the one that announces, the UI, downloads
  Worlds,     \* what each thread calls, the keys the peer has, the size of
              \* message[] in lexemes
  Longest,    \* bound: calls a thread makes
  Workers,    \* how many threads the tracker's pool has
  Me, Fd,     \* the remote end of the peer's connection and its descriptor
  Other, OtherFd, OtherKey, \* the address of the other peer, its descriptor
                            \* and the key it seeds
  Stems       \* what a key becomes when its end is cut off: other keys

MyAddr == <<Me[1], 1>>

\* What every file is announced with.
Described == [name |-> "name", size |-> 2, psize |-> 1]

\* What a thread can call, and what differs between the worlds.
CallType == [op : {"announce", "update", "lookall"}] \cup [op : {"lookkey", "getfile"}, key : Keys]
WorldType == [script : [Users -> Seq(CallType)], library : Seq(Keys), limit : Nat \ {0}]

ASSUME UsersAssumption == IsFiniteSet(Users) /\ Longest \in Nat
ASSUME WorldsAssumption ==
  \A w \in Worlds : w \in WorldType /\ \A u \in Users : Len(w.script[u]) <= Longest
ASSUME PlacesAssumption ==
  /\ Me \in Remotes /\ 1 \in Ports
  /\ Other \in Addr \ {MyAddr}
  /\ {Fd, OtherFd} \subseteq Fds
ASSUME KeysAssumption ==
  /\ Keys \cap Words = {} /\ OtherKey \in Keys /\ Described \in Metas
  /\ Stems \in [Keys -> SUBSET Keys]

VARIABLES
  world,      \* the world this session is in
  step,       \* each thread's call
  waiting,    \* the threads that wait in read
  got,        \* what each call's read returned: replies, none for an error
  sent,       \* the requests tracker has not received: [calls, text]
  stream,     \* the replies the peer has not read: [calls, said]
  conn,       \* "open" until the tracker closes it, "watched" while in master_fds
  main,       \* where main is
  jobs,       \* the jobs of the pool, those its threads have taken first
  mixed,      \* history: calls made while another one waited
  odd         \* history: "cut" if a request filled the buffer, "kicked" if the
              \* third error in a row was answered

netVars == <<sent, stream, conn>>
peerVars == <<step, waiting, got, mixed>>
vars == <<handlerVars, world, peerVars, netVars, main, jobs, odd>>

Calls == Users \X (1..Longest)
Made == {c \in Calls : c[2] < step[c[1]]}
Current == {<<u, step[u] - 1>> : u \in waiting}
Ended == Made \ Current

Request(c) == world.script[c[1]][c[2]]

TextOf(call) ==
  CASE call.op = "announce" -> AnnounceText(world.library)
    [] call.op = "update" -> UpdateText(world.library)
    [] call.op = "lookall" -> LookAllText
    [] call.op = "lookkey" -> LookKeyText(call.key)
    [] call.op = "getfile" -> GetfileText(call.key)

Init ==
  /\ world \in Worlds
  /\ peers = <<[addr |-> Other, sock |-> OtherFd]>>
  /\ files = [k \in {OtherKey} |-> NewFile(Described, Other, {})]
  /\ errs = <<>>
  /\ toClose = NoFd
  /\ replies = [to |-> NoFd, of |-> [op |-> "none"], said |-> <<>>, given |-> {}]
  /\ streak = [c \in Remotes |-> 0]
  /\ up = TRUE
  /\ step = [u \in Users |-> 1]
  /\ waiting = {}
  /\ got = [c \in Calls |-> <<>>]
  /\ sent = <<>>
  /\ stream = <<>>
  /\ conn = {"open", "watched"}
  /\ main = "select"
  /\ jobs = <<>>
  /\ mixed = {}
  /\ odd = {}

-----------------------------------------------------------------------------
(* The peer. *)

\* send writes its request and goes on to read; a request written to a
\* connection the tracker has closed is lost.
Send(u) ==
  /\ u \notin waiting
  /\ step[u] <= Len(world.script[u])
  /\ LET c == <<u, step[u]>>
     IN /\ sent' = IF "open" \in conn
                   THEN Append(sent, [calls |-> <<c>>, text |-> TextOf(Request(c))]) ELSE sent
        /\ mixed' = IF waiting = {} THEN mixed ELSE mixed \cup {c} \cup Current
  /\ waiting' = waiting \cup {u}
  /\ step' = [step EXCEPT ![u] = @ + 1]
  /\ UNCHANGED <<handlerVars, world, got, stream, conn, main, jobs, odd>>

Return(u, answer) ==
  /\ waiting' = waiting \ {u}
  /\ got' = [got EXCEPT ![<<u, step[u] - 1>>] = answer]

\* One read: what has come, as far as it has come.
Read(u) ==
  /\ u \in waiting
  /\ \E n \in 1..Len(stream) :
       /\ stream' = SubSeq(stream, n + 1, Len(stream))
       /\ Return(u, SubSeq(stream, 1, n))
  /\ UNCHANGED <<handlerVars, world, step, mixed, sent, conn, main, jobs, odd>>

\* The end of the stream is a message of zeros, an error none at all.
ReadEnd(u) ==
  /\ u \in waiting
  /\ stream = <<>> /\ "open" \notin conn
  /\ Return(u, <<>>)
  /\ UNCHANGED <<handlerVars, world, step, mixed, netVars, main, jobs, odd>>

-----------------------------------------------------------------------------
(* main. *)

Joined(n) ==
  [calls |-> FlattenSeq([i \in 1..n |-> sent[i].calls]),
   text |-> FlattenSeq([i \in 1..n |-> sent[i].text])]

\* Mutant: the message is not cut.
RecvWhole ==
  /\ up
  /\ main = "select" /\ conn = {"open", "watched"}
  /\ \E n \in 1..Len(sent) :
       /\ jobs' = Append(jobs, Joined(n))
       /\ sent' = SubSeq(sent, n + 1, Len(sent))
  /\ main' = "top"
  /\ UNCHANGED <<handlerVars, world, peerVars, stream, conn, odd>>

\* What a lexeme begins with that is cut within: a key is another key then.
Heads(x) == IF x \in Keys THEN Stems[x] ELSE IF x \in Short THEN {} ELSE {"part"}

\* A text that is longer than the buffer, as it is cut: behind a lexeme or
\* within the next one.
Cuts(text) ==
  LET n == world.limit
  IN {<<SubSeq(text, 1, n), SubSeq(text, n + 1, Len(text))>>}
     \cup {<<Append(SubSeq(text, 1, n), h), <<"part">> \o SubSeq(text, n + 2, Len(text))>> :
            h \in Heads(text[n + 1])}

\* recv: whatever has come, up to the size of message[]; the rest of a request
\* that is cut is the next message.
Recv ==
  /\ up
  /\ main = "select" /\ conn = {"open", "watched"}
  /\ \E n \in 1..Len(sent) :
       LET all == Joined(n)
           rest == SubSeq(sent, n + 1, Len(sent))
       IN /\ IF Len(all.text) <= world.limit THEN jobs' = Append(jobs, all) /\ sent' = rest
             ELSE \E cut \in Cuts(all.text) :
                    /\ jobs' = Append(jobs, [all EXCEPT !.text = cut[1]])
                    /\ sent' = <<[all EXCEPT !.text = cut[2]]>> \o rest
          /\ odd' = IF Len(all.text) < world.limit THEN odd ELSE odd \cup {"cut"}
  /\ main' = "top"
  /\ UNCHANGED <<handlerVars, world, peerVars, stream, conn>>

\* message[read_bytes] = 0 behind a full buffer writes to what malloc keeps
\* there: a later call of malloc or free may end the tracker.
Abort ==
  /\ up
  /\ "cut" \in odd
  /\ up' = FALSE
  /\ conn' = {}
  /\ sent' = <<>>
  /\ \/ UNCHANGED stream
     \/ stream' = <<>>
  /\ UNCHANGED <<tables, toClose, replies, streak, world, peerVars, main, jobs, odd>>

\* Mutant: the connection a handler asked to close is no longer watched, but
\* stays open.
TopClears ==
  /\ up
  /\ main = "top"
  /\ main' = "select"
  /\ toClose' = NoFd
  /\ conn' = IF toClose = Fd THEN conn \ {"watched"} ELSE conn
  /\ UNCHANGED <<tables, replies, streak, up, world, peerVars, sent, stream, jobs, odd>>

\* The top of the loop closes what a handler asked to close.  A request that
\* was not received makes it a reset, which can cost the peer the replies it
\* has not read.
Top ==
  /\ up
  /\ main = "top"
  /\ main' = "select"
  /\ toClose' = NoFd
  /\ IF toClose # Fd THEN UNCHANGED netVars
     ELSE /\ conn' = {}
          /\ sent' = <<>>
          /\ \/ UNCHANGED stream
             \/ sent # <<>> /\ stream' = <<>>
  /\ UNCHANGED <<tables, replies, streak, up, world, peerVars, jobs, odd>>

\* Another client makes select return.
Wake ==
  /\ up
  /\ main = "select" /\ main' = "top"
  /\ toClose # NoFd
  /\ UNCHANGED <<handlerVars, world, peerVars, netVars, jobs, odd>>

-----------------------------------------------------------------------------
(* The pool: its threads take jobs in order and the mutexes in any. *)

\* What the handler of m sends: nothing to exit, and nothing the model knows of
\* when it followed a garbage pointer.
Said(m) == IF up' /\ m.op # "exit" THEN replies'.said ELSE <<>>

Handle(i) ==
  LET job == jobs[i]
      said == Said(MessageOf(job.text))
  IN /\ up
     /\ HandleClient(Fd, Me, MessageOf(job.text))
     /\ jobs' = RemoveAt(jobs, i)
     /\ stream' = IF "open" \notin conn THEN stream
                  ELSE stream \o [j \in DOMAIN said |-> [calls |-> job.calls, said |-> said[j]]]
     /\ odd' = IF "threeErrors" \in ToSet(said) THEN odd \cup {"kicked"} ELSE odd
     /\ UNCHANGED <<world, peerVars, sent, conn, main>>

HandleSome == \E i \in DOMAIN jobs : i <= Workers /\ Handle(i)

Tracker == Recv \/ Top \/ HandleSome
Peer == \E u \in Users : Send(u) \/ Read(u) \/ ReadEnd(u)

Next == Peer \/ Tracker \/ Abort \/ Wake

\* WF_vars(Tracker) and WF_vars(Peer), with what ENABLED says written out: the
\* threads of both sides go on when they can.  Other clients need not come, and
\* corrupted memory need not show.
TrackerCan ==
  /\ up
  /\ \/ main = "top" \/ jobs # <<>>
     \/ conn = {"open", "watched"} /\ sent # <<>>
PeerCan ==
  \E u \in Users : IF u \in waiting THEN stream # <<>> \/ "open" \notin conn
                   ELSE step[u] <= Len(world.script[u])
Fairness ==
  /\ []<>~TrackerCan \/ []<><<Tracker>>_vars
  /\ []<>~PeerCan \/ []<><<Peer>>_vars

Spec == Init /\ [][Next]_vars /\ Fairness

-----------------------------------------------------------------------------
(* Properties. *)

Sayings == {"ok", "null", "invalid", "notAnnounced", "threeErrors", "invalidPort",
            "wrongPart", "wrongSeed", "notSeeded", "list", "peers"}

TypeOK ==
  /\ \A k \in DOMAIN files : files[k] \in FileType
  /\ DOMAIN files \subseteq Keys
  /\ peers \in Seq([addr : Addr, sock : Fds])
  /\ toClose \in {NoFd, Fd}
  /\ step \in [Users -> 1..(Longest + 1)]
  /\ waiting \subseteq Users
  /\ got \in [Calls -> Seq([calls : Seq(Calls), said : Sayings])]
  /\ stream \in Seq([calls : Seq(Calls), said : Sayings])
  /\ \A i \in DOMAIN jobs : jobs[i].calls \in Seq(Calls) /\ Len(jobs[i].text) <= world.limit + 1
  /\ conn \subseteq {"open", "watched"}
  /\ main \in {"select", "top"}
  /\ mixed \subseteq Made
  /\ odd \subseteq {"cut", "kicked"}

\* A call that no other thread's call overlapped reads one reply, whole, to its
\* own request (TrackerClient.java:15-27), even after calls that did overlap: as
\* long as no request filled the buffer and the third error was not reached,
\* nothing stale is left in the stream.
OwnReply ==
  odd = {} =>
    \A c \in Ended \ mixed : Len(got[c]) = 1 /\ got[c][1].calls = <<c>>

Library == ToSet(world.library)
Misread == IF "cut" \in odd THEN UNION {Stems[k] : k \in Library} ELSE {}
SeededByMe == {k \in DOMAIN files : MyAddr \in files[k].seed}

\* When the announce was answered with ok the tracker lists the peer as a seeder
\* of its whole library (handler.c:184-219, 253-307), unless the buffer was
\* filled.
AnnouncedSeeds ==
  "cut" \notin odd =>
    \A c \in Ended :
      Request(c).op = "announce" /\ got[c] = <<[calls |-> <<c>>, said |-> "ok"]>>
        => Library \subseteq SeededByMe

\* The tracker lists the peer as a seeder of nothing but its library, however
\* its requests are joined and cut behind a word.  A cut within a key (main.c:126)
\* announces a prefix of it, which add_file takes for a key (handler.c:188-209):
\* nothing worse than that, unless the peer sends an update that something can
\* come behind.  What follows an update in one recv are more keys to handleUpdate
\* (handler.c:431-465), and getfile names a key.  That takes a call that overlaps
\* it, or an answer that is one too many, to a request that was cut or to the
\* third error, which the update takes for its own.
SeededOwn ==
  (\A c \in Made : Request(c).op = "update" => odd = {} /\ c \notin mixed)
    => SeededByMe \subseteq Library \cup Misread

\* A call that no other one overlapped ends: the tracker answers every message
\* or closes the connection, however little it understands.
CallsEnd == <>[](Current \subseteq mixed)
=============================================================================
