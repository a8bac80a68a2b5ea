-------------------------------- MODULE Pieces --------------------------------
(***************************************************************************)
(* What peers say to each other about the pieces of a file, as operators   *)
(* (peer/src: ManagedFile, BufferMap, InterestedMessage, GetpiecesMessage, *)
(* Download.planDownloads).  Pieces are numbered from 0, a buffer map is   *)
(* the set of the pieces a peer has.                                       *)
(*                                                                         *)
(* A message is its bytes after the fixed header ("have " + key + " ",     *)
(* "data " + key + " ["); a byte is a triple that says what it is: byte o  *)
(* of piece i, the digits of index i (numNum(i) bytes in the code, read    *)
(* back with the same length), or a mark (: space ] newline).              *)
(***************************************************************************)
EXTENDS Integers, Sequences, FiniteSets, FiniteSetsExt, SequencesExt, Functions

Smaller(x, y) == IF x < y THEN x ELSE y

\* (int) Math.ceil((double) length / pieceLength)
NumPieces(length, pl) == (length + pl - 1) \div pl

Numbers(n) == 0..(n - 1)

\* The entries of old and new, those of new where both have one.
With(old, new) ==
  [k \in DOMAIN old \cup DOMAIN new |-> IF k \in DOMAIN new THEN new[k] ELSE old[k]]

\* What piece i of a file is: its bytes of the file.
Piece(length, pl, i) ==
  [o \in 1..Smaller(pl, length - i * pl) |-> <<"byte", i, o>>]

\* Mutant: every piece is read in full.
GetFullPiece(length, pl, i) == [o \in 1..pl |-> <<"byte", i, o>>]

\* get_piece: the last piece has length % pieceLength bytes.
GetPiece(length, pl, i) ==
  [o \in 1..(IF i = NumPieces(length, pl) - 1 THEN length % pl ELSE pl) |->
     <<"byte", i, o>>]

Index(i) == <<"index", i, 0>>
Mark(c) == <<c, 0, 0>>
NewLine == Mark("newline")

-----------------------------------------------------------------------------
(* have: the buffer map, width bits to a byte (8 in the code). *)

\* toByteArray; a byte is the set of its bits that are 1.
ToBytes(have, n, width) ==
  [b \in 1..((n + width - 1) \div width) |->
     {j \in 0..(width - 1) : (b - 1) * width + j \in have}]

\* interestedResponse copies n / width + 1 bytes; when the message has fewer
\* nothing is copied and the map read is empty.
ReadMap(bytes, n, width) ==
  IF Len(bytes) < n \div width + 1 THEN {}
  ELSE {i \in Numbers(n) : i % width \in bytes[i \div width + 1]}

-----------------------------------------------------------------------------
(* The plan: which piece is asked from which peer. *)

\* Mutants: the first peer that has the piece is asked, whatever it was given;
\* a piece that several peers have is asked from none.
PlanFirst(maps, order, n) ==
  [p \in Range(order) |->
     {i \in Numbers(n) :
        /\ i \in maps[p]
        /\ \E k \in DOMAIN order :
             order[k] = p /\ \A l \in 1..(k - 1) : i \notin maps[order[l]]}]

PlanSole(maps, order, n) ==
  [p \in Range(order) |->
     {i \in maps[p] : \A q \in Range(order) \ {p} : i \notin maps[q]}]

\* One round of planDownloads: piece i from the one of its owners with the
\* fewest pieces so far, the first one in the order of the hash map.
Give(plan, i, maps, order) ==
  LET owners == {k \in DOMAIN order : i \in maps[order[k]]}
      given(k) == Cardinality(plan[order[k]])
      best == {k \in owners : \A l \in owners : given(k) <= given(l)}
  IN IF owners = {} THEN plan
     ELSE [plan EXCEPT ![order[Min(best)]] = @ \cup {i}]

\* planDownloads: the pieces are given in order.
Plan(maps, order, n) ==
  LET given[i \in 0..n] ==
        IF i = 0 THEN [p \in Range(order) |-> {}]
        ELSE Give(given[i - 1], i - 1, maps, order)
  IN given[n]

\* A group is closed when the next piece comes and it is full.
Group(groups, i, asked, most) ==
  IF i \notin asked THEN groups
  ELSE IF Cardinality(groups.cur) = most
       THEN [done |-> Append(groups.done, groups.cur), cur |-> {i}]
       ELSE [groups EXCEPT !.cur = @ \cup {i}]

Groups(asked, most, n) ==
  LET cut[i \in 0..n] ==
        IF i = 0 THEN [done |-> <<>>, cur |-> {}]
        ELSE Group(cut[i - 1], i - 1, asked, most)
  IN cut[n]

\* Mutant: a group is closed as soon as it is full, and the last one always.
SliceClosed(asked, most, n) ==
  LET all == Groups(asked, most, n)
  IN IF Cardinality(all.cur) = most THEN all.done \o <<all.cur, {}>>
     ELSE Append(all.done, all.cur)

\* slice: consecutive groups of most pieces; for most = 0 nothing and then
\* everything, for a negative one everything.
Slice(asked, most, n) ==
  LET all == Groups(asked, most, n)
  IN IF all.cur = {} THEN all.done ELSE Append(all.done, all.cur)

\* send_getpieces: several messages when one cannot hold the pieces.
Requests(asked, most, n) ==
  IF Cardinality(asked) > most THEN Slice(asked, most, n) ELSE <<asked>>

-----------------------------------------------------------------------------
(* data: the pieces themselves. *)

\* respond_to_getpieces, for the pieces asked in increasing order.
AddPiece(bytes, i, asked, length, pl) ==
  IF i \notin asked THEN bytes
  ELSE bytes \o (IF bytes = <<>> THEN <<>> ELSE <<Mark("space")>>)
             \o <<Index(i), Mark("colon")>> \o GetPiece(length, pl, i)

DataOf(asked, length, pl) ==
  LET said[i \in 0..NumPieces(length, pl)] ==
        IF i = 0 THEN <<>> ELSE AddPiece(said[i - 1], i - 1, asked, length, pl)
  IN Append(said[NumPieces(length, pl)], Mark("bracket"))

\* Mutant: the index is not compared, nor the space between two pieces skipped.
ReadPacked(acc, i, bytes, asked, n, size) ==
  LET at == acc.head + 2
      len == IF i # n - 1 THEN size ELSE Len(bytes) - at - 1
  IN IF i \notin asked THEN acc
     ELSE IF ~acc.ok \/ acc.head >= Len(bytes) \/ len < 0 \/ at + len > Len(bytes)
          THEN [acc EXCEPT !.ok = FALSE]
          ELSE [ok |-> TRUE, head |-> at + len,
                got |-> With(acc.got, [j \in {i} |-> SubSeq(bytes, at + 1, at + len)])]

\* getpiecesResponse: each piece asked is read at the head: its index, a
\* colon, size bytes, and for the last piece of the file all bytes but one.
\* An index that is not the expected one, or bytes that are missing, end in
\* null.
ReadPiece(acc, i, bytes, asked, n, size) ==
  LET at == acc.head + 2
      len == IF i # n - 1 THEN size ELSE Len(bytes) - at - 1
  IN IF i \notin asked THEN acc
     ELSE IF \/ ~acc.ok
             \/ acc.head >= Len(bytes) \/ bytes[acc.head + 1] # Index(i)
             \/ len < 0 \/ at + len > Len(bytes)
          THEN [acc EXCEPT !.ok = FALSE]
          ELSE [ok |-> TRUE, head |-> at + len + 1,
                got |-> With(acc.got, [j \in {i} |-> SubSeq(bytes, at + 1, at + len)])]

ReadData(bytes, asked, n, size) ==
  LET read[i \in 0..n] ==
        IF i = 0 THEN [ok |-> TRUE, head |-> 0, got |-> <<>>]
        ELSE ReadPiece(read[i - 1], i - 1, bytes, asked, n, size)
  IN read[n]
=============================================================================
