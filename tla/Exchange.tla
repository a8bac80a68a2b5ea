------------------------------- MODULE Exchange -------------------------------
(***************************************************************************)
(* What callers that share a connection can count on, when answers carry   *)
(* nothing that says which call they are for: a call is of a kind, and an  *)
(* answer goes to some call of its kind that waits.  Answers can get lost  *)
(* but are not given twice, and a caller waits until it has one: there is  *)
(* no timeout.  That is enough for a call to get its own answer as long as *)
(* no other call of its kind waited meanwhile.                             *)
(*                                                                         *)
(* PeerLinks implements this with a kind for each connection and command.  *)
(***************************************************************************)
CONSTANTS
  Calls,
  Kinds,
  None        \* what a call that waits has got

\* What users have to give for None.
NoneIsNoCall == None \notin Calls

VARIABLES
  made,       \* the calls that were made
  kind,       \* their kinds
  owed,       \* the calls whose answer may still come
  got,        \* the call whose answer each of them got
  mixed       \* those that waited together with another one of their kind

vars == <<made, kind, owed, got, mixed>>

Waiting == {c \in made : got[c] = None}
WaitingOf(k) == {c \in Waiting : kind[c] = k}
OwedOf(k) == {c \in owed : kind[c] = k}

Init ==
  /\ made = {}
  /\ kind \in [Calls -> Kinds]
  /\ owed = {}
  /\ got = [c \in Calls |-> None]
  /\ mixed = {}

\* A call is made; there may never be an answer to it.
Make(c, k) ==
  /\ c \notin made
  /\ made' = made \cup {c}
  /\ kind' = [kind EXCEPT ![c] = k]
  /\ owed' \in {owed, owed \cup {c}}
  /\ mixed' = IF WaitingOf(k) = {} THEN mixed ELSE mixed \cup WaitingOf(k) \cup {c}
  /\ UNCHANGED got

\* The answer to a is given to c; others may get lost with it.
Give(a, c) ==
  /\ a \in owed
  /\ c \in WaitingOf(kind[a])
  /\ got' = [got EXCEPT ![c] = a]
  /\ owed' \subseteq owed \ {a}
  /\ UNCHANGED <<made, kind, mixed>>

Lose ==
  /\ owed' \subseteq owed
  /\ UNCHANGED <<made, kind, got, mixed>>

Next ==
  \/ \E c \in Calls, k \in Kinds : Make(c, k)
  \/ \E a, c \in Calls : Give(a, c)
  \/ Lose

Spec == Init /\ [][Next]_vars

-----------------------------------------------------------------------------
(* Properties. *)

TypeOK ==
  /\ made \subseteq Calls
  /\ kind \in [Calls -> Kinds]
  /\ owed \subseteq made
  /\ got \in [Calls -> Calls \cup {None}]
  /\ mixed \subseteq made

\* A call that never waited together with another of its kind gets the answer
\* to it or none.
OwnAnswer == \A c \in made \ mixed : got[c] \in {c, None}

\* No answer is given to two calls.
GivenOnce == \A c, d \in Calls : got[c] \in Calls /\ got[c] = got[d] => c = d
=============================================================================
