--------------------------- MODULE MCTrackerSession ---------------------------
(***************************************************************************)
(* Instances of TrackerSession for TLC: what the threads of the peer ask   *)
(* (Peer.java:102-152), its library and the size of the buffer.            *)
(***************************************************************************)
EXTENDS TrackerSession

CONSTANTS u1, u2, i1, i2, s1, f1, f2

MCMetas == {[name |-> "name", size |-> 2, psize |-> 1]}
MCMe == <<i1, s1>>
MCOther == <<i2, 1>>

Plain(op) == [op |-> op]
Get(k) == [op |-> "getfile", key |-> k]
LookKey(k) == [op |-> "lookkey", key |-> k]

Threads(first, second, library, limit) ==
  [script |-> [u \in Users |-> IF u = u1 THEN first ELSE second],
   library |-> library, limit |-> limit]

\* More lexemes than two requests have.
Big == 100

\* Every key begins with k0.
MCStems == [k \in Keys |-> {"k0"} \ {k}]

\* announce at start, look from the UI and a download at the same time; calls
\* that follow each other after some that overlapped; an announce longer than
\* the buffer, cut between two files, in the middle of one and in a key; a peer
\* that never announces; an empty library; updates.
AllWorlds ==
  {Threads(<<Plain("announce"), LookKey("k2")>>, <<Plain("lookall"), Get("k2")>>, <<"k1", "k3">>, Big),
   Threads(<<Plain("announce"), Plain("update")>>, <<Get("k2"), LookKey("k2")>>, <<"k1">>, Big),
   Threads(<<Plain("announce"), Plain("lookall")>>, <<>>, <<"k1", "k3">>, 17),
   Threads(<<Plain("announce"), Get("k3")>>, <<Get("k2")>>, <<"k1", "k3">>, 13),
   Threads(<<Plain("announce"), Plain("lookall")>>, <<>>, <<"k1", "k3">>, 15),
   Threads(<<Get("k2"), Get("k2"), Get("k2"), Get("k2"), Get("k2")>>, <<>>, <<>>, Big),
   Threads(<<Plain("announce"), Plain("update"), Plain("lookall")>>, <<Get("k2")>>, <<>>, Big),
   Threads(<<Plain("announce"), Plain("update"), Get("k2")>>, <<>>, <<"k1">>, 18)}
=============================================================================
