----------------------------- MODULE MCThreadPool -----------------------------
(***************************************************************************)
(* Instances of ThreadPool for TLC.  Main adds a job again only after it   *)
(* has run: at most Cardinality(Jobs) are queued or running at once, while *)
(* the number of jobs added over time is not bounded.                      *)
(***************************************************************************)
EXTENDS ThreadPool

MCPush(j) ==
  /\ j \notin {queue[i] : i \in DOMAIN queue} \cup {running[w] : w \in Workers}
  /\ Push(j)

MCNext ==
  \/ Initialized
  \/ \E j \in Jobs : MCPush(j)
  \/ PushPost
  \/ \E w \in Workers : WorkerStep(w) \/ SpuriousWakeup(w)
  \/ Destroy \/ PostAll \/ Destroyed

MCSpec == Init /\ [][MCNext]_vars /\ Fairness
=============================================================================
