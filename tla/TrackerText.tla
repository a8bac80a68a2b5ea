----------------------------- MODULE TrackerText -----------------------------
(***************************************************************************)
(* The text of requests to the tracker: what the peer writes               *)
(* (peer/src: AnnounceMessage, UpdateMessage, LookMessage, GetfileMessage)  *)
(* and what parse_message and handleClient make of a text that need not be *)
(* one request (tracker/src/handler.c).                                    *)
(*                                                                         *)
(* A text is a sequence of lexemes: the space, the brackets, the newline,  *)
(* and words.  Words that follow each other are glued, as newlines are     *)
(* skipped.  A token is a sequence of words and of spaces from within      *)
(* brackets.                                                               *)
(***************************************************************************)
EXTENDS Integers, Sequences, SequencesExt

\* Every lexeme that is no key, and what names nothing: words glued together, a
\* piece of a word.
Words == {"announce", "update", "look", "getfile", "listen", "seed", "*", "key=",
          "name", "1", "2", " ", "[", "]", "\n", "glued", "part"}

\* The lexemes that are one byte long.
Short == {"*", "1", "2", " ", "[", "]", "\n"}

\* atoi, of a word that begins with digits or does not.
Atoi(word) ==
  IF word[1] = "1" THEN 1 ELSE IF word[1] = "2" THEN 2 ELSE 0

\* A word that is glued to another one names nothing.
Name(token) == IF Len(token) = 1 THEN token[1] ELSE "glued"

-----------------------------------------------------------------------------
(* What the peer writes, for a library of keys: each file is announced as   *)
(* name, length, piece length and key, with a space behind it.              *)

FileText(k) == <<"name", " ", "2", " ", "1", " ", k, " ">>
LibraryText(library) == <<"[">> \o FlattenSeq([i \in DOMAIN library |-> FileText(library[i])]) \o <<"]">>

AnnounceText(library) ==
  <<"announce", " ", "listen", " ", "1", " ", "seed", " ">> \o LibraryText(library) \o <<"\n">>
UpdateText(library) == <<"update", " ", "seed", " ">> \o LibraryText(library) \o <<"\n">>
LookAllText == <<"look", " ", "*", "\n">>
LookKeyText(k) == <<"look", " ", "[", "key=", k, "]", "\n">>
GetfileText(k) == <<"getfile", " ", k, "\n">>

-----------------------------------------------------------------------------
(* parse_message. *)

\* addStringToMessage, of the characters collected since the last token.
Flush(acc) ==
  IF acc.buf = <<>> THEN acc
  ELSE [acc EXCEPT !.tokens = Append(@, acc.buf), !.buf = <<>>]

\* Tokens end at a space outside brackets, before an opening bracket and at the
\* end; a closing bracket ends none.
Take(acc, x) ==
  IF x = "\n" THEN acc
  ELSE IF x = " " /\ ~acc.inside THEN Flush(acc)
  ELSE IF x = "[" THEN [Flush(acc) EXCEPT !.inside = TRUE]
  ELSE IF x = "]" THEN [acc EXCEPT !.inside = FALSE]
  ELSE [acc EXCEPT !.buf = Append(@, x)]

Unread == [tokens |-> <<>>, buf |-> <<>>, inside |-> FALSE]

Parse(text) ==
  LET taken[i \in 0..Len(text)] == IF i = 0 THEN Unread ELSE Take(taken[i - 1], text[i])
  IN Flush(taken[Len(text)]).tokens

-----------------------------------------------------------------------------
(* handleClient's classification, as a message of TrackerHandlers. *)

\* Mutant: the last group is left out.
ItemsButLast(words) ==
  [i \in 1..((Len(words) - 1) \div 4) |->
     [key |-> Name(words[4 * i]),
      meta |-> [name |-> Name(words[4 * i - 3]),
                size |-> Atoi(words[4 * i - 2]), psize |-> Atoi(words[4 * i - 1])]]]

\* addseed and addleech: groups of four words.
ItemsOf(words) ==
  [i \in 1..(Len(words) \div 4) |->
     [key |-> Name(words[4 * i]),
      meta |-> [name |-> Name(words[4 * i - 3]),
                size |-> Atoi(words[4 * i - 2]), psize |-> Atoi(words[4 * i - 1])]]]

PartOf(type, token) ==
  LET words == Parse(token)
      whole == Len(words) % 4 = 0
  IN [type |-> IF Name(type) \in {"seed", "leech"} THEN Name(type) ELSE "other",
      whole |-> whole,
      items |-> IF whole THEN ItemsOf(words) ELSE <<>>]

\* handleAnnounce looks at a part only when its token is there.
AnnounceOf(tokens) ==
  [op |-> "announce", port |-> Atoi(tokens[3]),
   parts |-> [i \in 1..(IF Len(tokens) >= 7 THEN 2 ELSE IF Len(tokens) >= 5 THEN 1 ELSE 0) |->
                PartOf(tokens[2 * i + 2], tokens[2 * i + 3])]]

\* handleLook: a star, or criteria; the peer only asks for a key.
LookOf(token) ==
  LET words == Parse(token)
      keys == {i \in DOMAIN words : words[i][1] = "key="}
  IN IF words = <<>> THEN [op |-> "lookBlank"] ELSE
     [op |-> "look", all |-> words[1][1] = "*",
      query |-> [f \in (IF keys = {} THEN {} ELSE {"key"}) |->
                   [op |-> "=", val |-> Name(Tail(words[CHOOSE i \in keys : \A j \in keys : j <= i]))]]]

MessageOf(text) ==
  LET tokens == Parse(text)
      Begins(w) == tokens[1][1] = w
  IN IF text = <<"\n">> THEN [op |-> "blank"]
     ELSE IF tokens = <<>> THEN [op |-> "null"]
     ELSE IF Begins("announce") THEN
       IF Len(tokens) >= 3 THEN AnnounceOf(tokens) ELSE [op |-> "badAnnounce"]
     ELSE IF Begins("look") /\ Len(tokens) = 2 THEN LookOf(tokens[2])
     ELSE IF Begins("getfile") /\ Len(tokens) = 2 THEN [op |-> "getfile", key |-> Name(tokens[2])]
     ELSE IF Begins("update") /\ Len(tokens) >= 3 THEN
       [op |-> "update", tokens |-> [i \in 1..(Len(tokens) - 1) |-> Name(tokens[i + 1])]]
     ELSE IF text[1] = "exit" THEN [op |-> "exit"]
     ELSE [op |-> "unknown"]
=============================================================================
