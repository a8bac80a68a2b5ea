------------------------------- MODULE JobQueue -------------------------------
(***************************************************************************)
(* What a pool of threads promises its user: the jobs it is given are      *)
(* started in the order they were given, each once, by a thread that is    *)
(* doing nothing else.  TrackerServer takes the tracker's pool to be this; *)
(* ThreadPool, the one in src/tracker/src/thpool.c, implements it.         *)
(***************************************************************************)
EXTENDS Sequences

CONSTANTS
  Jobs,       \* what can be given to the pool
  Workers,    \* its threads
  NoJob       \* a thread that is doing nothing

VARIABLES
  queue,      \* the jobs no thread has taken: Seq(Jobs)
  running     \* the job of each thread

Init ==
  /\ queue = <<>>
  /\ running = [w \in Workers |-> NoJob]

\* thpool_add_work
Push(j) ==
  /\ queue' = Append(queue, j)
  /\ UNCHANGED running

Take(w) ==
  /\ queue # <<>>
  /\ running[w] = NoJob
  /\ running' = [running EXCEPT ![w] = Head(queue)]
  /\ queue' = Tail(queue)

Finish(w) ==
  /\ running[w] # NoJob
  /\ running' = [running EXCEPT ![w] = NoJob]
  /\ UNCHANGED queue

\* thpool_destroy, once no thread is running a job: the others are dropped.
Discard ==
  /\ \A w \in Workers : running[w] = NoJob
  /\ queue' = <<>>
  /\ UNCHANGED running

Next ==
  \/ \E j \in Jobs : Push(j)
  \/ \E w \in Workers : Take(w) \/ Finish(w)
  \/ Discard

Spec == Init /\ [][Next]_<<queue, running>>
=============================================================================
