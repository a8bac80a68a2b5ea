---------------------------- MODULE TrackerTables ----------------------------
(***************************************************************************)
(* The three linked lists the tracker keeps (src/tracker/src/common.c),    *)
(* as values, and the list functions as operators on those values.         *)
(*                                                                         *)
(*  - The peer list is a sequence of [addr, sock]: its order matters,      *)
(*    because every lookup by IP or by socket returns the first match.     *)
(*  - The error list is a sequence of [addr, last, nb]: its order matters, *)
(*    because set_last_error_to_zero treats the last record differently.   *)
(*  - The file list is a function from the listed keys to                  *)
(*    [meta, seed, leech, wild].  Keys are unique in the list (search_file *)
(*    runs before every add_file), seeders and leechers are unique in      *)
(*    theirs (check_if_peer_exist runs before every insertion), and the    *)
(*    order of none of them is observable but in the layout of a reply.    *)
(*                                                                         *)
(* A peer is <<ip, port>> with the port it listens on; a remote end of a   *)
(* connection is <<ip, port>> with the port it connected from.             *)
(*                                                                         *)
(* add_file leaves the fields next and leech of a new node uninitialised.  *)
(* "wild" is the set of those two fields that hold a garbage pointer; a    *)
(* step that follows one has undefined behaviour.                          *)
(***************************************************************************)
EXTENDS Integers, Sequences, FiniteSets, FiniteSetsExt, SequencesExt

-----------------------------------------------------------------------------
(* Both sequences: lookups by address. *)

\* The positions of the entries of s for address a.
At(s, a) == {i \in DOMAIN s : s[i].addr = a}

\* No two entries for the same address, and the addresses with an entry.
Distinct(s) == \A i, j \in DOMAIN s : s[i].addr = s[j].addr => i = j
Registered(s) == {s[i].addr : i \in DOMAIN s}

\* The first of a non-empty set of positions: what a walk from the head finds.
First(I) == Min(I)

\* s without its entry at the first of the positions I, if there is one.
WithoutFirst(s, I) == IF I = {} THEN s ELSE RemoveAt(s, First(I))

-----------------------------------------------------------------------------
(* The peer list. *)

WithIp(ps, ip) == {i \in DOMAIN ps : ps[i].addr[1] = ip}
WithSocket(ps, fd) == {i \in DOMAIN ps : ps[i].sock = fd}

\* Mutant: check_if_peer_exist is not asked.
AlwaysAddPeer(ps, a, fd) == Append(ps, [addr |-> a, sock |-> fd])

\* An already known address keeps its entry, socket included.
AddPeer(ps, a, fd) ==
  IF At(ps, a) # {} THEN ps ELSE Append(ps, [addr |-> a, sock |-> fd])

-----------------------------------------------------------------------------
(* The error list.  A record is appended by the first message of a remote. *)

AddRecord(es, c) ==
  IF At(es, c) # {} THEN es
  ELSE Append(es, [addr |-> c, last |-> 0, nb |-> 0])

\* Mutant: the first error only sets last_error.
CountRepeats(es, i) ==
  [es EXCEPT ![i] = [addr |-> @.addr, last |-> 1, nb |-> @.nb + @.last]]

\* One more error for the record at i.
CountError(es, i) ==
  [es EXCEPT ![i] = [addr |-> @.addr, last |-> 1, nb |-> @.nb + 1]]

\* remove_error: the first record for c is unlinked.
RemoveError(es, c) == RemoveAt(es, First(At(es, c)))

\* set_last_error_to_zero: the loop clears both fields, but the record it
\* stops on, the last of the list, only has last_error cleared.
ClearErrors(es, c) ==
  IF At(es, c) = {} THEN es
  ELSE LET i == First(At(es, c))
       IN [es EXCEPT ![i] = [addr |-> @.addr, last |-> 0,
                                 nb |-> IF i < Len(es) THEN 0 ELSE @.nb]]

-----------------------------------------------------------------------------
(* The file list. *)

\* Reaching the end of the list follows the next field of the last node.
EndIsWild(F) == \E k \in DOMAIN F : "next" \in F[k].wild
LeechIsWild(F, k) == "leech" \in F[k].wild

NewFile(m, a, w) == [meta |-> m, seed |-> {a}, leech |-> {}, wild |-> w]

\* add_seed and add_leech on the listed files of Ks.
AddSeed(F, Ks, a) ==
  [k \in DOMAIN F |-> IF k \in Ks THEN [F[k] EXCEPT !.seed = @ \cup {a}] ELSE F[k]]
AddLeech(F, Ks, a) ==
  [k \in DOMAIN F |-> IF k \in Ks THEN [F[k] EXCEPT !.leech = @ \cup {a}] ELSE F[k]]

\* Mutants: remove_leech is not called; the file whose last seeder leaves
\* stays; a file goes with any of its seeders.
DropSeedOnly(F, a) ==
  [k \in {f \in DOMAIN F : F[f].seed # {a}} |-> [F[k] EXCEPT !.seed = @ \ {a}]]
DropKeepsFile(F, a) ==
  [k \in DOMAIN F |-> [F[k] EXCEPT !.seed = @ \ {a}, !.leech = @ \ {a}]]
DropAllSeeded(F, a) ==
  [k \in {f \in DOMAIN F : a \notin F[f].seed} |-> [F[k] EXCEPT !.leech = @ \ {a}]]

\* remove_client_ressources on the file list: a file whose only seeder leaves
\* is unlinked, leechers and all; the others lose the peer from both lists.
DropPeer(F, a) ==
  [k \in {f \in DOMAIN F : F[f].seed # {a}} |->
     [F[k] EXCEPT !.seed = @ \ {a}, !.leech = @ \ {a}]]

-----------------------------------------------------------------------------
(* The seed and leech parts of an announce: sequences of [key, meta].  The *)
(* C loops stop at the first item they refuse and keep what came before.   *)

Valid(m) == m.size # 0 /\ m.psize # 0

\* The item at i names a file no earlier item and no listed file has.
Fresh(F, items, i) ==
  /\ items[i].key \notin DOMAIN F
  /\ \A j \in 1..(i - 1) : items[j].key # items[i].key

\* addseed checks the sizes of unknown files, addleech those of known ones.
BadSeed(F, items, i) == Fresh(F, items, i) /\ ~Valid(items[i].meta)
BadLeech(F, items, i) == items[i].key \in DOMAIN F /\ ~Valid(items[i].meta)

SeedReached(F, items) ==
  {i \in DOMAIN items : \A j \in 1..(i - 1) : ~BadSeed(F, items, j)}
LeechReached(F, items) ==
  {i \in DOMAIN items : \A j \in 1..(i - 1) : ~BadLeech(F, items, j)}

\* The files addseed creates, each from the item that names it first.
NewAt(F, items) ==
  {i \in SeedReached(F, items) : Fresh(F, items, i) /\ Valid(items[i].meta)}
NewKeys(F, items) == {items[i].key : i \in NewAt(F, items)}

\* Mutant: the last item that names a file describes it, listed or not.
SeedPartRenews(F, items, a, wild) ==
  LET named == {i \in SeedReached(F, items) : Valid(items[i].meta)}
      at(k) == {i \in named : items[i].key = k}
      old == AddSeed(F, {items[i].key : i \in named}, a)
  IN [k \in DOMAIN F \cup {items[i].key : i \in named} |->
        IF k \notin DOMAIN F THEN NewFile(items[Max(at(k))].meta, a, wild[k])
        ELSE IF at(k) = {} THEN old[k]
        ELSE [old[k] EXCEPT !.meta = items[Max(at(k))].meta]]

\* Mutant: a listed file is found by its name.
SeedPartByName(F, items, a, wild) ==
  LET named(k) == \E i \in SeedReached(F, items) : items[i].meta.name = F[k].meta.name
      item(k) == items[CHOOSE i \in NewAt(F, items) : items[i].key = k]
  IN [k \in DOMAIN F \cup NewKeys(F, items) |->
        IF k \in DOMAIN F THEN [F[k] EXCEPT !.seed = IF named(k) THEN @ \cup {a} ELSE @]
        ELSE NewFile(item(k).meta, a, wild[k])]

\* The file list after addseed; wild[k] is the garbage a new node k starts with.
SeedPart(F, items, a, wild) ==
  LET old == AddSeed(F, {items[i].key : i \in SeedReached(F, items)}, a)
      item(k) == items[CHOOSE i \in NewAt(F, items) : items[i].key = k]
  IN [k \in DOMAIN F \cup NewKeys(F, items) |->
        IF k \in DOMAIN F THEN old[k] ELSE NewFile(item(k).meta, a, wild[k])]

\* A lookup that fails walks to the end: through the wild next of the list as
\* it was, or of a node created by an earlier item of the same announce.
SeedCrashes(F, items, wild) ==
  \E i \in SeedReached(F, items) :
    /\ Fresh(F, items, i)
    /\ \/ EndIsWild(F)
       \/ \E j \in NewAt(F, items) : j < i /\ "next" \in wild[items[j].key]

\* The file list after addleech.
LeechPart(F, items, a) ==
  AddLeech(F, {items[i].key : i \in {j \in LeechReached(F, items) :
                                       ~BadLeech(F, items, j)}}, a)

LeechCrashes(F, items) ==
  \E i \in LeechReached(F, items) :
    IF items[i].key \in DOMAIN F
    THEN Valid(items[i].meta) /\ LeechIsWild(F, items[i].key)
    ELSE EndIsWild(F)

\* Every item is taken: no error reply ends the part.
SeedOk(F, items) == \A i \in DOMAIN items : ~BadSeed(F, items, i)
LeechOk(F, items) == \A i \in DOMAIN items : ~BadLeech(F, items, i)

\* The files addleech cannot find are answered one by one, and skipped.
Unseeded(F, items) ==
  {i \in LeechReached(F, items) : items[i].key \notin DOMAIN F}

-----------------------------------------------------------------------------
(* look: a query maps the fields it constrains to [op, val].               *)

\* list_all_files: the answer to look *.
AllListed(F) == DOMAIN F

FieldOf(F, k, field) == IF field = "key" THEN k ELSE F[k].meta[field]

\* filename and key compare for equality.  In search_file_by_option the '='
\* of a size rejects the files whose size IS the one asked for.
Satisfies(x, field, c) ==
  IF field \in {"name", "key"} THEN x = c.val
  ELSE \/ c.op = ">" /\ x > c.val
       \/ c.op = "<" /\ x < c.val
       \/ c.op = "=" /\ x # c.val

\* A size constraint with value 0 is ignored.
Effective(q) ==
  {f \in DOMAIN q : f \in {"name", "key"} \/ q[f].val # 0}

\* A file is listed when it satisfies every effective constraint of the
\* query and there is one ("found > 0").
Found(F, q) ==
  {k \in DOMAIN F : /\ Effective(q) # {}
                    /\ \A f \in Effective(q) : Satisfies(FieldOf(F, k, f), f, q[f])}

-----------------------------------------------------------------------------
(* update: a list of tokens "seed", "leech" and keys; a key after "seed"   *)
(* is added to the seeders, any other to the leechers.                     *)

Mode(tokens, i) ==
  LET before == {j \in 1..(i - 1) : tokens[j] \in {"seed", "leech"}}
  IN IF before = {} THEN "leech" ELSE tokens[Max(before)]

Updated(tokens, mode) ==
  {tokens[i] : i \in {j \in DOMAIN tokens : /\ tokens[j] \notin {"seed", "leech"}
                                            /\ Mode(tokens, j) = mode}}
=============================================================================
