------------------------------ MODULE MCDownload ------------------------------
(***************************************************************************)
(* Instances of Download for TLC.  A peer that shares a file from its      *)
(* directory has all of it (ManagedFile.java:38-51); the protocol lets any  *)
(* peer have any part.                                                     *)
(***************************************************************************)
EXTENDS Download

AllOf(length) == Numbers(NumPieces(length, PieceLength))

World(faults, holdings, most, room, length) ==
  [faults |-> faults, holdings |-> holdings, most |-> most, room |-> room,
   length |-> length]
Whole(faults, most, room, length) == World(faults, {AllOf(length)}, most, room, length)
Parts(most, length) == World({}, SUBSET AllOf(length), most, 3, length)

\* Everything fails, with less room than peers; connections fail; nothing
\* fails, whatever peers have; the message size is that of one piece (most is
\* 0) or smaller (most is -1).  Of length 7 a file has four pieces, the last
\* one shorter; of length 8 the last one is full; of length 5 or 6 the three
\* pieces fill a byte of the map.
AllWorlds ==
  {Whole(AllFaults, 2, 2, 7),
   Whole({"refused", "reset"}, 1, 2, 7),
   Whole({"refused", "reset"}, 2, 3, 8),
   Parts(1, 7), Parts(2, 7), Parts(2, 8), Parts(2, 5), Parts(2, 6),
   Whole({"joined"}, 2, 3, 6),
   Whole({"refused"}, 0, 3, 7),
   Whole({"refused"}, -1, 3, 7)}
QuietWorld == {Whole({}, 2, 2, 1)}

\* WF_vars(Step) is written out: Step is enabled until the download is done or
\* stuck.
Scheduled == []<>(pc \in {"done", "stuck"}) \/ []<><<Step>>_vars

\* Nothing but holds tells peers apart, so one order of them is any order.
MCInit == Init /\ useful = CHOOSE order \in Orders(Peers) : TRUE
MCSpec == MCInit /\ [][Next]_vars /\ Scheduled
=============================================================================
