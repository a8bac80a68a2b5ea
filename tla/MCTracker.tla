------------------------------ MODULE MCTracker ------------------------------
(***************************************************************************)
(* Instances of Tracker for TLC: the messages clients send in each run, the *)
(* bounds.                                                                 *)
(***************************************************************************)
EXTENDS Tracker

CONSTANTS
  MaxCount,         \* bound: no error record counts more errors, and no more
                    \* are made in a row
  MaxPeers,         \* bound: no more peers registered at once
  MaxItems,         \* bound: files named by one part of an announce
  Commands          \* the operations clients use

meta1 == [name |-> "n1", size |-> 2, psize |-> 1]
meta2 == [name |-> "n2", size |-> 3, psize |-> 1]
noSize == [name |-> "n1", size |-> 0, psize |-> 1]

MCMetas == {meta1, meta2, noSize}

Item(k, m) == [key |-> k, meta |-> m]
PartOf(type, items) == [type |-> type, whole |-> TRUE, items |-> items]

OneItem == {<<Item(k, meta1)>> : k \in Keys}

Pairs == {q \in Keys \X Keys : q[1] # q[2]}

\* One item; with longer parts, one that is accepted or refused after another
\* one, or names the same file with another description.
ItemLists ==
  OneItem
  \cup IF MaxItems < 2 THEN {}
       ELSE {<<Item(k, meta1), Item(k, meta2)>> : k \in Keys}
            \cup {<<Item(q[1], meta1), Item(q[2], m)>> : q \in Pairs, m \in {meta1, noSize}}

\* The parts of an announce: none, one, two in the right or the wrong order,
\* one that is not made of groups of four words and one that is blank.
PartLists ==
  {<<>>, <<[type |-> "seed", whole |-> FALSE, items |-> <<>>]>>, <<PartOf("seed", <<>>)>>}
  \cup {<<PartOf("seed", l)>> : l \in ItemLists}
  \cup {<<PartOf("leech", l)>> : l \in OneItem}
  \cup {<<PartOf("seed", <<Item(q[1], meta1)>>), PartOf("leech", <<Item(q[2], meta1)>>)>> :
          q \in Pairs}
  \cup {<<PartOf("leech", l), PartOf("seed", l)>> : l \in OneItem}

Announces(partLists) ==
  {[op |-> "announce", port |-> p, parts |-> ps] : p \in Ports, ps \in partLists}

Updates ==
  {[op |-> "update", tokens |-> <<mode, k>>] : mode \in {"seed", "leech"}, k \in Keys}
  \cup {[op |-> "update", tokens |-> <<"seed", q[1], "leech", q[2]>>] : q \in Pairs}

LookQueries ==
  {[size |-> [op |-> op, val |-> v]] : op \in {"<", "=", ">"}, v \in {0, 2}}
  \cup {[name |-> [op |-> "=", val |-> "n1"]]}

Others ==
  {[op |-> "blank"], [op |-> "null"], [op |-> "badAnnounce"], [op |-> "exit"],
   [op |-> "unknown"], [op |-> "lookBlank"], [op |-> "look", all |-> TRUE, query |-> <<>>]}
  \cup {[op |-> "getfile", key |-> k] : k \in Keys}

Queries == {[op |-> "look", all |-> FALSE, query |-> q] : q \in LookQueries}

MCRequests ==
  {m \in Announces(PartLists) \cup Updates \cup Others : m.op \in Commands}
  \cup (IF "port" \in Commands
        THEN Announces({<<>>}) \cup {[op |-> "announce", port |-> 0, parts |-> <<>>]}
        ELSE {})
  \cup (IF "seed" \in Commands
        THEN Announces({<<PartOf("seed", l)>> : l \in OneItem})
        ELSE {})
  \cup (IF "query" \in Commands THEN Queries ELSE {})

\* A port a peer listens on may be one another connection comes from.
Symmetric ==
  Permutations(Ips) \cup Permutations(Fds) \cup Permutations(Keys)
  \cup Permutations(Ports \ SrcPorts) \cup Permutations(SrcPorts \ Ports)

\* What the tables do does not depend on the error counters (no message of a
\* run that uses this view is an error) and on the replies.
TablesView == <<peers, files, toClose, open, up>>

\* No property of a run with errors is about the replies.
ErrorsView == <<tables, toClose, streak, open, up>>

Bounded ==
  /\ \A i \in DOMAIN errs' : errs'[i].nb <= MaxCount
  /\ \A c \in Remotes : streak'[c] <= MaxCount
  /\ Len(peers') <= MaxPeers

MCConnect(fd, c) == Connect(fd, c) /\ Bounded
MCReceive(fd, m) == Receive(fd, m) /\ Bounded
MCDisconnect(fd) == Disconnect(fd) /\ Bounded
MCCloseRequested == CloseRequested /\ Bounded

MCNext ==
  \/ \E fd \in Fds, c \in Remotes : MCConnect(fd, c)
  \/ \E fd \in Fds, m \in Requests : MCReceive(fd, m)
  \/ \E fd \in Fds : MCDisconnect(fd)
  \/ MCCloseRequested

MCSpec == Init /\ [][MCNext]_vars
=============================================================================
