# EirBone: a verification project

EirBone is a peer-to-peer file exchange: a **tracker** in C that knows who has which
file, and **peers** in Java that announce their files to it, ask it for sources and
exchange pieces with each other. This directory holds TLA+ models of both, the TLC
runs that check them on small instances, and proofs checked by TLAPS.

Paths below are relative to `src/src/`.

## 1. The system

| component | code | state | operations | what is hard |
|---|---|---|---|---|
| tracker tables | `tracker/src/common.c` | three linked lists: peers (IP, listening port, socket), files (description, seeders, leechers), error records (IP, source port, last, count) | lookups by address, IP, socket; add, remove; count and clear errors; filter files | uninitialised fields; lists that must agree; first-match lookups |
| request handlers | `tracker/src/handler.c` | `*fd_to_remove` | announce, look, getfile, update, exit, errors | an announce refused half-way; three errors in a row; replies on a descriptor that changed hands |
| main loop | `tracker/src/main.c` | `master_fds`, the ready set, where it is | select, accept, recv, remove a client, close on request | shares the lists and `*fd_to_remove` with the workers and takes no mutex |
| worker pool | `tracker/src/thpool.c` (vendored) | a linked queue, a binary semaphore, two counters, `threads_keepalive` | add work, pull, destroy | lost wake-ups, shutdown from a signal handler |
| peer links | `peer/src/PeerClient.java`, `PeerServer.java` | futures keyed by command, a queue of reads | send and wait, answer | one read is one message; no timeout; end of stream ignored |
| connection table | `peer/src/Peer.java` | `peer_clients`, bounded | connect, remove | ids are indexes of a list that shifts |
| download | `peer/src/Download.java` and the message classes | buffer maps, plan, pieces | ask, plan, fetch, write | failures in the middle; boundaries of sizes |
| tracker client | `peer/src/TrackerClient.java` | one socket | announce, update, look, getfile | shared by threads |
| library, UI, logging | the rest of `peer/src` | files of a directory | | I/O only |

How they interact. Main receives a message and puts a job in the pool; a thread takes the
three mutexes in one order, runs `handleClient` on the three lists, and writes the reply on
the descriptor of the job. When a client leaves, main itself removes it from the three lists,
without the mutexes. A handler that wants a connection closed writes its descriptor to
`*fd_to_remove`, which main reads at the top of its loop. A peer asks the tracker for the
sources of a file, connects to each, asks each for its buffer map, plans, and fetches. Several
downloads run at once, each in its thread: they share the connections of `Peer` to other peers,
and with the user interface and the announce the one socket to the tracker. Neither has a lock.

What makes each part correct, in short: the three lists agree with each other and with the
connections; every message is handled and answered to its sender; every third error in a row
ends a connection; the pool starts each job once and loses no wake-up; shutdown leaves
nobody behind; a download writes the right pieces, forgets none of them and ends; threads that
share a connection each get the answer to what they asked, from whom they asked.

## 2. Modules

| module | what it is |
|---|---|
| `TrackerTables` | the lists as values and the functions of `common.c` as operators |
| `TrackerHandlers` | `handleClient` as actions, one per path, and `remove_client_ressources`; the properties of the tables |
| `Tracker` | the tracker without its threads: a message, a departure, a requested close is one step |
| `MCTracker` | the messages clients send in each run, bounds |
| `HandlersProofs` | lemmas about the list operations and about every path through `handleClient`, for any module that runs the handlers |
| `TrackerProofs` | theorems about `Tracker` |
| `JobQueue` | abstract: what a pool of threads promises |
| `ThreadPool`, `MCThreadPool` | `thpool.c`, shown to implement `JobQueue` |
| `ThreadPoolProofs` | theorems about `ThreadPool` |
| `TrackerServer`, `MCTrackerServer` | main and the workers, interleaved; composes `TrackerHandlers` and `JobQueue`. Its clients act at will |
| `PatientClients` | the same tracker with clients that act as the Java peer does, one per host |
| `TrackerServerProofs` | theorems about `TrackerServer` and `PatientClients` |
| `Pieces` | buffer maps, the plan, the piece messages, as operators |
| `Download`, `MCDownload` | the download of one file |
| `DownloadProofs` | theorems about `Download` and about the operators of `Pieces` |
| `Exchange` | abstract: what callers that share a connection can count on when answers do not say which call they are for |
| `ExchangeProofs` | theorems about `Exchange` |
| `PeerLinks`, `MCPeerLinks` | the connections a peer opens, shared by the threads of its downloads: `Peer.connect` and `peer_clients`, `PeerClient`, and `PeerServer` at the other end; shown to implement `Exchange` |
| `PeerLinksProofs` | theorems about `PeerLinks`: its calls and answers; its table |
| `TrackerText` | the Java peer's requests as lexemes, and what `parse_message` and `handleClient` make of a text |
| `TrackerSession`, `MCTrackerSession` | one Java peer whose threads share the socket to the tracker, TCP, and the tracker; composes `TrackerHandlers` and `TrackerText` |
| `TrackerSessionProofs` | theorems about `TrackerSession` and about the operators of `TrackerText` |

The correspondence of every definition with lines of the source is the `map` of
`PROJECT.json`. The main decisions:

* **Tables.** The peer and error lists are sequences, because the code depends on their
  order (first match by IP and by socket; the last error record is treated differently). The
  file list is a function from keys to seeders and leechers: keys are looked up before they are
  added, and no order in it is visible but in the layout of a reply. The dummy heads of the
  lists are left out. `wild` stands for the fields `add_file` never writes, and a step that
  follows one ends the model (`up = FALSE`), as the behaviour is then undefined. So does a blank
  list or key, of which `parse_message` makes a null pointer that the handlers dereference.
* **Messages** are the classes `handleClient` distinguishes (blank, null, announce with its
  parts, ...), not text. Replies are kept as what they say and to which descriptor. Only where
  text matters, in `TrackerSession`, is a request a sequence of lexemes (words, brackets,
  line ends), which `MessageOf` takes apart as the tokeniser and the handlers do: there TCP can
  join requests, and the buffer can cut one.
* **Handlers.** A handler holds the three mutexes from its first read to its last write, so
  it is one step with respect to other handlers. It is not with respect to main: while a
  handler is inside, main's removal is a data race, `Race`, after which anything can happen;
  the model stops there and claims nothing beyond it.
* **Main** in `TrackerServer` has a step per access to shared state: the four accesses to
  `*fd_to_remove`, select, each ready descriptor (lowest first), and the removal of a client
  file by file. An answer to a client that has closed its end is lost (`Handle`), or ends the process by
  SIGPIPE, which has no handler (`Broken`).
* **Pool.** In `ThreadPool` the steps are the critical sections of the pool's mutexes, the
  reads of `threads_keepalive` between them, and the two halves of `jobqueue_push` and of a
  `jobqueue_pull` that posts. Where a thread ends, its last unlock is a step behind the count-down (`Leave`,
  `Unlock`), because `thpool_destroy` reads the count without the lock. SIGINT is taken by main.
* **Download.** A message between peers is its bytes after the header, each byte saying what it
  is, so that off-by-one lengths show in what is read. A read returns the answer, the answer
  and the newline behind it, a part of it, or nothing ever. A *world* says which of these and
  which failures of connections may happen, what peers may have, how many pieces fit in a message,
  how many connections in the table, and the length of the file; a run starts in any of its worlds.
* **Links.** In `PeerLinks` a call begins to scan the table, scans it, dials, adds itself, gets its connection by
  its id, writes, registers a future and waits, each a step, because `Peer` and `PeerClient`
  lock nothing. A scan is one step behind the one that makes its iterator (`Begin`), which notices
  changes in between (`dirty`): after an addition it throws, after a removal it throws or ends early. An addition is the two halves of
  `ArrayList.add`, so that two of them can leave a null. Either end takes what one read returns,
  which may be several requests or answers, for one. `mixed`, `spoiled` and `disturbed` are
  history: which calls waited with another of their kind, whose answer was dropped or given
  away, and what can have led a user to another connection.
* **Session.** In `TrackerSession` main is in select or at the top of its loop, and its own
  interleavings are left to `TrackerServer`. One recv takes any number of requests, up to the size of
  the buffer, which cuts between lexemes or within one (`Cuts`): what is left of a key is one of its `Stems`,
  which the tracker takes for a key, and of other words a `part`. A request that fills the buffer can end
  the process later (`Abort`), as the terminator is written behind it. TCP may join requests, and
  replies, and is taken not to split either.

## 3. Runs

All bounds are constants of the `.cfg` files. A run that checks liveness or uses arbitrary
clients says so.

| run | bounds | shows |
|---|---|---|
| `tables` | 1 host with 2 ports, 2 connections, 2 files, announces of up to 2 parts of up to 2 items | the lists agree whatever is announced, refused, updated or left, also when one connection announces two ports or one port is announced on two; a file is lost only with its last seeder; a description never changes |
| `errors` | 2 remotes, one of them on a port that a peer of its host can also listen on, 2 connections, 2 files, counters up to 3, any garbage in new nodes | three errors in a row always end in a close, unless the departure of the peer that listens on the remote's port takes the count along |
| `pool` | 3 threads, 3 jobs (re-added forever) | no lost wake-up, jobs in order, every job started, shutdown ends and leaves nobody but, at most, one thread before its last unlock; refinement of `JobQueue` |
| `threads` | 2 hosts, 2 threads, clients take 5 steps | the tables keep their types under all interleavings of main and workers; everything sent is handled, unless the process ends |
| `patient` | 3 hosts, 2 connections, 2 threads, clients take 8 steps and wait for answers | removal by main against messages of the others: sources registered, sockets right, answers to the sender |
| `downloads` | 3 peers, 3 or 4 pieces; lengths that leave the last piece short (5, 7) or full (6, 8), and a map that fills its byte (5, 6) or not (7, 8); worlds: all faults with room for 2; failing connections; any holdings with 1 or 2 pieces per message; message sizes of one piece and less | pieces but the last are right or absent, every piece on offer is planned once and evenly; without failures maps are read as sent, but as empty where they fill their bytes, nothing is forgotten, and what is written is right, but for a full last piece, which is empty; a download whose plan leaves no peer out ends |
| `peers` | 2 downloads, 2 other peers, up to 2 calls each, 1 connection breaks; worlds: two files of one peer; a file of one peer each, so that the table holds two connections; a getpieces for nothing; more peers than room; breaks under unrelated calls and under calls that follow each other | the table stays sound and ids lead to the right peer unless a connection is removed, there is no room or two threads connect at once; refinement of `Exchange`; a call ends unless its answer is lost in one of the ways listed at `CallsEnd` |
| `session` | 2 threads, up to 5 calls, 3 workers, another peer registered before; worlds: announce, look and getfile at once; updates; an announce cut between two files, inside one and in a key; five getfiles of a peer that never announced; an empty library; an update that reads the answer left over by a cut announce | calls that no other one overlapped read their own reply, also after calls that did overlap, and end; an announce answered with ok made the peer a seeder of its library, and nothing but an update that something can come behind makes it one of anything else, but for keys a cut left the beginning of |

Why these bounds are enough: the interesting cases need two of something (two peers that seed
one file, two files in one announce, two connections of one host, two threads for one set of
mutexes or one connection, two requests for one recv), a third one to tell "the other" from "any
other", and three errors. The mutant of
every property in `PROJECT.json` is a plausible slip in the code that breaks the property
on the run's own bounds, so each of these cases is reached.

`tables` and `errors` compare states through a view: the first leaves out the error
records and the replies, on which no table depends; the second leaves out the replies.
Their bounds on peers (`MaxPeers`) and counters (`MaxCount`) are guards of `MCNext`. In the
runs of `MCTrackerServer` the clients have a `Budget` of steps, after which the tracker works
off what they left it. In `peers` and `session` each thread has a script of at most `Longest`
calls, so that all runs end; `MaxBreaks` bounds the connections that break by the other end's
doing. The longest request of `session` has 24 lexemes; its buffers hold 100, 18, 17, 15 or 13.

What `patient` assumes and `threads` does not is `PatientClients`: a host has one connection to
the tracker, its client announces before anything else and goes on only when that registered it,
announces no second port, waits for each answer, and leaves by closing. `Peer.java` does so when
one thread uses the tracker and no other peer holds its port on its host. Without this the tracker itself
does not keep sources registered or answers apart (section 5 lists what happens then).

Runs that end in a violation show where the code departs from what its comments, its
documentation or its replies say:

| run | departure |
|---|---|
| `inarow` | "3 errors in a row" is said after fewer: the last record keeps its count across valid commands, here an announce answered with ok |
| `asker` | main closes the connection of a client that did not ask for it: the descriptor was closed and given to another connection before a handler asked |
| `sigint` | after a SIGINT inside `jobqueue_push` the shutdown does not end: the threads leave, and main locks the `rwmutex` it holds itself |
| `ends` | a peer that is given no piece is asked for none, and does not answer; the download waits forever |

Fairness. `pool` and `threads` assume that each thread that can take a step does in the end
(weak fairness of the thread's steps as a whole, as an operating system schedules runnable
threads). Strong fairness is not needed: `rwmutex` and the tracker's mutexes are only held for
finitely many steps, and a thread that is overtaken at one of them forever would be overtaken
by others that make progress on the same queue. Clients are never assumed to act, nor is SIGINT.

`downloads` and `ends` assume that the download's thread runs; a wait for an answer that does not
come is not a step. `peers` assumes that some thread of either end that can go on does
(`WF_vars(Progress)`): as each call is made once, this is as much as fairness for each thread.
`session` assumes the same of the peer's threads and of the tracker's, but not that other clients
come, which is all that would make select return for a close that is only requested. Breaking
connections and the effects of a full buffer are never assumed. Where `ENABLED` would be
expensive, fairness is written out (`Scheduled`, `TrackerCan`, `PeerCan`) with a comment that
says what it stands for.

Deadlock is checked in `inarow`, and not where the system may stop: after a null or garbage
pointer is followed (`tables`, `errors`), when clients have used up their steps and the tracker waits
(`MCTrackerServer`), after shutdown (`MCThreadPool`), after a download (`MCDownload`), and when
all calls have ended or wait for an answer that does not come (`MCPeerLinks`,
`MCTrackerSession`).

## 4. Proofs

Of the tracker, the proofs are in three modules. `HandlersProofs` says what each operation on
the lists returns (`RemoveAtIs`, `ReplaceIs`, `AppendIs`, `WithoutFirstIs`, and one lemma per
operator of `TrackerTables`) and what `handleClient` as a whole does: it keeps the lists well
formed and adds at most one entry and one source, both of the sender's host
(`HandleClientKeeps`), it keeps every source registered (`HandleClientSources`), counts errors
(`HandleClientCounts`), answers the descriptor it was given (`HandleClientAnswers`) and asks for no
close of a registered peer that makes no error (`HandleClientCloses`). The next two modules rest on it. Assumptions: 0 is no
port, -1 no descriptor, an announce has the shape `AnnounceType`, a free descriptor is not a
remote.

`TrackerProofs` proves, for any hosts, ports, descriptors, keys, messages and garbage, that
`Tracker` keeps its tables well formed (`TypeOK`), without duplicate entries
(`EntriesDistinct`), with every source of a file registered (`SourcesRegistered`) and every
file seeded (`EveryFileSeeded`); and from the same invariant the two action properties, that a description stays (`MetaStable`) and a file
goes only with its last seeder (`FileLostWithLastSeeder`). These are one inductive invariant,
`IInv`, because none is inductive alone: a source stays registered when a peer is removed only because
the peer had a single entry in the list (otherwise a removal would take one entry away and
the files would lose an address that is still registered, or keep one that is not), and
`DropPeer` leaves files seeded only if it unlinks those whose seeders are exactly the
leaving peer. `ErrorsCounted` is inductive on top of it. It leaves out the remotes whose source port
a peer of their host listens on: the removal of that peer takes their record with it
(`remove_client_ressources` looks the error records up by the listening address), and a
remote in the middle of its errors starts again.

`TrackerServerProofs` proves of `TrackerServer`, for any number of threads and any clients, that
main and the threads keep their state well formed (`TypeOK`), that no duplicate, no file without
a seeder and no miscount of errors comes from main's removal being many steps without the
mutexes (`EntriesDistinct`, `EveryFileSeeded`, `ErrorsCounted`). The inductive invariant, `SInv`, adds to the lists' that a
descriptor still to be visited in a pass is open and has something to receive: this is what
makes `Head(inbox[fd])` in `Recv` the message that recv returns. Where a handler and a removal
meet, `Race` ends the run, so these theorems speak of the interleavings before one. In addition
to the above they assume that garbage is zero and that `server_fd` is below every descriptor `accept` returns.

With the clients of `PatientClients` it proves what the tracker cannot promise to all: every source is
registered (`SourcesRegistered`), the socket of an entry is a connection of the peer's host
(`SocketOfThePeer`) and every answer goes to its
sender, whose connection is still open (`AnswersTheSender`). The invariant, `PInv`, has the argument: a
connection has at most one message on its way, which is in its inbox or in the pool and not
both (`InboxOne`, `WorkOne`); so when main finds an end of stream nothing of that connection is in
the pool; so no handler that runs during the removal is the leaving peer's, and what it adds to
the lists is another host's; so the removal goes on from where it was (`Removal`: the files already
walked do not get the peer back), and when the descriptor is closed no entry has it. Where this ends without the
assumptions is section 5. That these clients are clients, `PatientSpec => Spec`, is a theorem
too, and with it they inherit the rest.

`ThreadPoolProofs` proves, for any finite set of threads and any jobs, that in `ThreadPool` the counters
stay in range (`TypeOK`), no wake-up is lost (`NoLostWakeup`), the semaphore is never up with
everybody asleep (`SignalHeard`), nobody is left after `thpool_destroy` but, at most,
one thread that has only its last unlock before it (`NobodyLeft`), and the pool implements `JobQueue` (`JobsInOrder`: push, pull, end of a job and destruction are
`Push`, `Take`, `Finish` and `Discard`, all else stutters). Assumptions: the threads are a finite
non-empty set that main is not part of, SIGINT finds main idle or in `jobqueue_push`. The inductive
invariant says that `num_threads_alive` and `num_threads_working` are the numbers of threads
at certain places, that a thread holds a job exactly from `jobqueue_pull` to the job's end, and
what main being past `thpool_init` or `thpool_destroy` means for the threads: that `thcount_lock` has one
holder is why one thread at most has counted itself down and not unlocked. The counts are
needed because `thpool_destroy` and `thpool_init` only look at a counter: that zero means
nobody and that the full count means everybody is what the cardinalities give.

`ExchangeProofs` proves of `Exchange`, for any calls and kinds, that a call that waited alone
among its kind gets its own answer or none (`AloneGetsOwn`), and that no answer is given twice
(`AnswersGivenOnce`). Assumption: `None` is no call. The first is not inductive: that nobody
else's answer is still owed to a call's kind when it begins to wait must follow from the past.
It does by counting: of no kind are more answers owed than calls wait, so that none is owed
when none waits. This is where the matching by command, with nothing in an answer that says
which call it is for, is right, and why it stops being so with the second call.

`PeerLinksProofs` proves, for any users, peers, scripts, mishaps and bounds, that `PeerLinks`
keeps its types (`TypeCorrect`), implements `Exchange` (`Matched`: a write is `Make`, an answer
that is heard is `Give` or `Lose`, what the other end drops and what a broken connection takes is
`Lose`, all else stutters), and so inherits what `Exchange` promises (`CallGetsOwn`, by the
theorem of `ExchangeProofs` with the mapping in place). Assumptions: the worlds have their type and no script is longer
than `Longest`, there are finitely many users, `None` is no call. The inductive invariant says of every link that
a request or answer is on its way at most once, on the link its call was written to, and that
a future belongs to a call that waits there (`LinkOK`); of every user what it holds at each place of its
call (`UserOK`); and that there are no more links than calls begun (`Past`), which keeps the kinds
of `Exchange` to a fixed set.

`PeerLinksProofs` also proves the two properties of the table for the same parameters: it is sound
(`TableIsSound`) and requests go to the right peer (`RequestsGoRight`). Its invariant says that,
while nothing was removed and nobody connected at once, one user at most is between its scan and
the end of its `add`, its target is not in the table, what it read as the size is the size, and
there is room for it; and, while there was room too, that the id of a connection is its
place.

`DownloadProofs` proves all safety properties of `Download`, for any length of the file, piece
length, bits to a byte, peers and worlds: the types, and that a message is only sent to a peer of the
answer (`Types`); a piece that somebody has is asked of one peer, who has it (`PlanIsSound`), and evenly
(`PlanIsBalanced`); what is written is right (`InnerPiecesAreIntact`, `PiecesAreIntact`); maps
are read as they were sent (`MapsAreTrue`); and a download no connection fails in writes every piece
it was offered (`NothingIsForgotten`). Assumptions: the sizes are positive and the worlds have their type
(`SizesAssumption`), the peers are finitely many and some (`PeersAssumption`). `PiecesAreIntact` and
`MapsAreTrue` say what happens on either side of the boundary the code gets wrong: that the last piece of
a file whose length is a multiple of the piece length is written empty, and that a map whose number of
pieces is a multiple of the bits to a byte is read as empty (`MapIsLost`).

Half of it is what the operators of `Pieces` return. They are recursive functions on the numbers of
pieces, or on the bytes of a message. That such a function exists, and what holds
of it, goes up by a step from one number to the next, which is induction over a set of numbers (`Upwards`,
from the well-foundedness of `<`; `Recursion`). The lemmas to know: the plan puts each piece into one share, of a
peer that has it, and no share grows ahead of another that could have taken its pieces
(`PlanShares`); what a peer reads of its file is the piece, but for the exception above (`PieceIs`); the requests for a share together ask for the share (`RequestsCover`); an answer has the pieces asked
for one behind the other, each behind its number (`LaidOut`); a map comes through `toByteArray`
and `interestedResponse` unchanged (`MapSurvives`). The one that takes thought is `ReadKeeps`: the reader
of an answer knows no lengths but those it works out, so it is right only as long as it is at the place where the
writer was (`Lock`). They part at the last piece, whose length the reader takes from what is left; as
that piece is the last of the answer, nothing is read behind it. An answer of which a part is missing
throws, or is short in the last piece of the file only (`AnswerIs`).

The invariants: `Planned` (each piece on offer in one share), `Intact` (what was read, and what was written, is
right where it is claimed to be), `Lined` (if nothing fails, the id of a connection is its place, and each peer has one: so
an id leads to the peer that was meant) and `Collected` (if nothing fails, each piece of the share that is being
fetched is still in a message to be sent, or has come; of shares that are done, all is in the file).

`TrackerSessionProofs` proves all safety properties of `TrackerSession`, for any threads, scripts,
libraries, sizes of the buffer and numbers of workers: that whatever is joined and cut, the tracker
reads messages and keeps tables of the right type (`TypeCorrect`); that a call no other one overlapped reads one
reply, to its own request (`OwnReplies`); that an announce whose answer was read made the peer
a seeder of its whole library, if nothing was cut (`AnnouncedSeedsAll`); and that it is a seeder of nothing else but what
a cut makes of its keys (`Misread`), unless it made an update that something can come behind (`SeededOwnOnly`). Assumptions: finitely many threads, no script
longer than `Longest` (`UsersAssumption`, `WorldsAssumption`); the peer and the other one have different addresses
(`PlacesAssumption`); and no key is a word of a request (`KeysAssumption`), as keys are
MD5 sums in hexadecimal. What a key can be cut to is any set of keys (`Stems`).

The first half is about text. What main receives is a stretch of requests that follow each other, cut at
both ends, and there are as many of those as there are scripts. So the invariant says of each lexeme what may stand
behind it (`Proper`): behind `announce` the rest of an announce of the peer, as far as the text
goes, and behind a bracket what the peer writes into one. This is kept by joining
(`JoinProper`) and by cutting (`StretchProper`), and it is enough for the tokeniser and `handleAnnounce`
(`AnnounceRead`, `AnnounceMessage`): of such a text they make a message that offers files of the library
with their own descriptions, or none (`OffersSeeds`). A cut within a lexeme leaves a
text whose last lexeme is what is left of it (`CutText`, `CutIs`): that is a token of its own, so only the key of the
last group of an announce can be a `Stem`; the next text begins with a `part`, which is no request. A message that is the whole announce
offers all of them (`WholeAnnounce`); one that is a whole update names no key, because its list is one
token (`WholeUpdate`). The tokeniser, `Parse`, is a recursive function on the length of the text, as those
of `Pieces` are; lemmas about it go through `Upwards` and `Recursion` here too.

The second half is about who waits. `OwnReply` is not inductive: it needs that no reply to somebody else is
left on the way when a thread begins to wait alone. Again it follows by counting (`Orderly`): as long as
nothing was cut and no third error answered, requests, jobs and replies on the way are together no more than the
threads that wait, since each recv, job and read takes at least as many as it makes. A reply to
a cut request or the second one to a third error breaks the count, which is why `odd` is in the property. For
`SeededOwn` the same count says that a text that begins with `update`, of a call that was alone, is the whole
update. `AnnouncedSeeds` needs `Seeds`: the library is listed from the moment the reply to an announce is on
its way, which nothing the peer asks takes back.

Left to TLC: liveness and ENABLED, which are out of the prover's reach. That is `EveryJobStarts` and
`DestroyEnds` of the pool, `Drained` of the tracker's threads, `EndsWhenServed` of the download, and
`CallsEnd` of the links and of the session. Every other property of a passing run is stated by a
theorem.

## 5. Where the models follow the code into odd behaviour

The models do as the code does in these cases, and the lines are hazards of `PROJECT.json`. No property
says that they do not happen; those that would be wrong there make the exception, or say what happens instead:

* `add_file` leaves `leech` and `next` unwritten: a `getfile`, an update or an unknown key can
  follow garbage (`Crash`);
* a blank list in an announce, or a blank key in a look, is a null pointer that is dereferenced (`Blank`,
  `LookBlank`);
* an answer to a client that has closed its end can end the tracker (`Broken`);
* `look` with `=` on a size lists the files of every other size (`Satisfies`);
* `exit` and three errors close a connection without forgetting its peer, which stays registered
  with a descriptor that is free or somebody else's (`CloseIt`, `CloseRequested`);
* a requested close waits until select returns (`Select`);
* a client that does not wait for its answers can have an update handled after main removed it half-way, or its
  answer written to the next owner of its descriptor (`Handle`);
* the last piece of a file whose length is a multiple of the piece length is sent, and written, empty (`GetPiece`,
  `PiecesIntact`);
* a buffer map that fills its bytes is read as empty, unless a newline came with it (`ReadMap`,
  `MapsTrue`);
* two threads that connect at once, or one that connects while a connection is removed, can leave
  a null in `peer_clients`, after which every scan that reaches it fails (`Store`, `ScanFails`);
* two downloads' calls with one command on one connection get each other's answers, or one
  gets none and waits for ever; so does a call whose answer came before its future was
  registered, or behind another one in one read (`Hear`);
* requests of two threads that arrive in one recv are one message to the tracker: two looks or
  getfiles are answered once, with "Invalid Command", and one thread waits for ever; an update
  with a getfile behind it makes the peer a seeder of the file it asked for (`Recv`);
* an update that takes a left-over reply (of a cut request, or of a third error) for its own has its
  thread go on while it is still under way, and can be joined in this way with the next getfile of the
  same thread (`Read`, `Recv`);
* an announce that fills the buffer can be cut between two files and is accepted with ok for the
  first ones; the rest is a message of its own, and an error (`Recv`); if the cut is within a key, the peer
  is listed, with ok, for the beginning of it (`Cuts`, `Misread`);
* the last thread of the pool can unlock a mutex of the pool after it was freed (`Unlock`);
* the third error is answered twice, and the second reply is what the next call reads (`Handle`);
* the list of keys in an update of the Java peer is one token: it is answered with ok and does
  nothing, or with an error if the library is empty (`UpdateText`).

## 6. Not modelled, and why

* the layout and truncation of replies, and how the peer takes the replies to look and getfile
  apart; a look by file name, which no property tells from one by key;
* the tokeniser on text that is neither the Java peer's nor cut or joined from it: `Tracker` has the
  classes of messages instead;
* the socket calls of `network.c`, which have no state: `Fds` and the remotes stand for their results;
* `free_*` and what is left of `handle_signal` after `thpool_destroy`, which run when no
  thread is left but, at most, one that has only to unlock, as `NobodyLeft` says; SIGINT in the middle of `remove_client_ressources`;
* `thpool_wait`, `thpool_pause`, `thpool_resume`: not called;
* `peer_servers`, of which only the size is asked, and the shutdown hook; what an `ArrayList`
  keeps behind its size; TCP splitting one request between peers (their answers are split in
  `Download`), or a request or reply between peer and tracker, of which a long list of files can need two
  reads (`TrackerClient.java:20`);
* failures of `malloc`, the log file, the user interfaces, configuration, hashing of files: no
  state the rest depends on.

## 7. Plan

Done: the tables, handlers and main loop of the tracker; the pool and its refinement; the
threads of the tracker; the download; the links between peers with their abstract specification
and their table; the session of a peer with the tracker. Each has the theorems of section 4, and what
is left to TLC is named there.

What is left: shutdown of the tracker from every place main can be in.
