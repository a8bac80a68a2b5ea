----------------------------- MODULE MCPeerLinks -----------------------------
(***************************************************************************)
(* Instances of PeerLinks for TLC: the calls of a download are the         *)
(* interested of every peer, then the getpieces (Download.java:37-77).     *)
(***************************************************************************)
EXTENDS PeerLinks

CONSTANTS d1, d2, r1, r2

To(r, cmd) == [to |-> r, cmd |-> cmd]
Interested(r) == To(r, "interested")
Getpieces(r) == To(r, "getpieces")

World(first, second, room, mishaps) ==
  [script |-> [u \in Users |-> IF u = d1 THEN first ELSE second],
   room |-> room, mishaps |-> mishaps]

\* Two downloads of files of one peer; of two peers; one that asks for nothing;
\* more peers than room; connections that break under calls that have nothing to do with
\* each other, and under the calls that follow.
AllWorlds ==
  {World(<<Interested(r1), Getpieces(r1)>>, <<Interested(r1), Getpieces(r1)>>, 2, {}),
   World(<<Interested(r1), Getpieces(r1)>>, <<Interested(r2), Getpieces(r2)>>, 2, {}),
   World(<<Interested(r1), To(r1, "getnothing")>>, <<Getpieces(r1)>>, 2, {}),
   World(<<Interested(r1), Interested(r2)>>, <<Interested(r2)>>, 1, {"refused"}),
   World(<<Interested(r1)>>, <<Interested(r2)>>, 2, {"refused", "eof", "reset"}),
   World(<<Interested(r1), Interested(r1)>>, <<Getpieces(r1)>>, 2, {"eof", "reset"})}
=============================================================================
