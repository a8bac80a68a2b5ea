------------------------------ MODULE ThreadPool ------------------------------
(***************************************************************************)
(* The pool of threads of the tracker (src/tracker/src/thpool.c): a queue  *)
(* of jobs behind rwmutex, a binary semaphore has_jobs that wakes one      *)
(* thread at a time, each thread waking the next one when it leaves jobs   *)
(* behind, and thpool_destroy, which the tracker calls from its handler of *)
(* SIGINT.  The signal is taken by main, as Linux does when main has not    *)
(* blocked it, wherever main is.                                           *)
(*                                                                         *)
(* One action is one critical section, of rwmutex, of the semaphore's      *)
(* mutex or of thcount_lock.  jobqueue_push and jobqueue_pull post the     *)
(* semaphore before they release rwmutex: they are two actions, and rw is  *)
(* the thread between them.  A thread that ends takes itself out of        *)
(* num_threads_alive and only then releases thcount_lock: two actions,     *)
(* too, since main reads the counter without the lock.  thpool_wait,       *)
(* thpool_pause and thpool_resume are not called by the tracker.           *)
(***************************************************************************)
EXTENDS Integers, Sequences, FiniteSets

CONSTANTS
  Jobs,           \* the jobs main adds
  Workers,        \* the threads of the pool
  Main,           \* the thread that created it
  NoJob, NoThread,
  Interruptible   \* where SIGINT finds main: "idle", "push" or either

Threads == Workers \cup {Main}

ASSUME MainAssumption == Main \notin Workers
ASSUME NoThreadAssumption == NoThread \notin Threads
ASSUME NoJobAssumption == NoJob \notin Jobs
ASSUME InterruptibleAssumption == Interruptible \subseteq {"idle", "push"}
ASSUME WorkersAssumption == IsFiniteSet(Workers) /\ Workers # {}

VARIABLES
  queue,      \* the linked list from front to rear, len its length
  running,    \* the job of each thread, from jobqueue_pull to its end
  v,          \* has_jobs->v
  rw,         \* the owner of rwmutex
  alive,      \* num_threads_alive
  working,    \* num_threads_working
  keep,       \* threads_keepalive
  pc,         \* where each thread is
  halted      \* main is in handle_signal

vars == <<queue, running, v, rw, alive, working, keep, pc, halted>>

Asleep == {w \in Workers : pc[w] = "asleep"}

\* The thread that holds thcount_lock between two steps, if there is one.
CountHolders == {w \in Workers : pc[w] = "unlock"}

Init ==
  /\ queue = <<>>
  /\ running = [w \in Workers |-> NoJob]
  /\ v = 0
  /\ rw = NoThread
  /\ alive = 0
  /\ working = 0
  /\ keep = TRUE
  /\ pc = [t \in Threads |-> "start"]
  /\ halted = FALSE

\* t goes from one place to another.  The signal handler never returns to main.
Goes(t) == ~(t = Main /\ halted)

Goto(t, from, to) ==
  /\ Goes(t)
  /\ pc[t] = from
  /\ pc' = [pc EXCEPT ![t] = to]

\* Mutant: bsem_post sets v without pthread_cond_signal.
PostQuietly(t, from, to) == Goto(t, from, to) /\ v' = 1

\* bsem_post by t: one of the threads in pthread_cond_wait, if there is one,
\* goes back to testing v.
Post(t, from, to) ==
  /\ Goes(t)
  /\ pc[t] = from
  /\ v' = 1
  /\ LET moved == [pc EXCEPT ![t] = to]
     IN \/ Asleep = {} /\ pc' = moved
        \/ \E w \in Asleep : pc' = [moved EXCEPT ![w] = "wait"]

-----------------------------------------------------------------------------
(* Main: thpool_init and thpool_add_work. *)

\* thpool_init returns when every thread has counted itself.
Initialized ==
  /\ Goto(Main, "start", "idle")
  /\ alive = Cardinality(Workers)
  /\ UNCHANGED <<queue, running, v, rw, alive, working, keep, halted>>

Push(j) ==
  /\ rw = NoThread
  /\ Goto(Main, "idle", "push")
  /\ rw' = Main
  /\ queue' = Append(queue, j)
  /\ UNCHANGED <<running, v, alive, working, keep, halted>>

PushPost ==
  /\ Post(Main, "push", "idle")
  /\ rw' = NoThread
  /\ UNCHANGED <<queue, running, alive, working, keep, halted>>

-----------------------------------------------------------------------------
(* A thread of the pool: thread_do. *)

Start(w) ==
  /\ CountHolders = {}
  /\ Goto(w, "start", "loop")
  /\ alive' = alive + 1
  /\ UNCHANGED <<queue, running, v, rw, working, keep, halted>>

\* while (threads_keepalive)
Loop(w) ==
  /\ keep
  /\ Goto(w, "loop", "wait")
  /\ UNCHANGED <<queue, running, v, rw, alive, working, keep, halted>>

Leave(w) ==
  /\ ~keep
  /\ CountHolders = {}
  /\ Goto(w, "loop", "unlock")
  /\ alive' = alive - 1
  /\ UNCHANGED <<queue, running, v, rw, working, keep, halted>>

\* The last pthread_mutex_unlock: the pool may be freed by then.
Unlock(w) ==
  /\ Goto(w, "unlock", "gone")
  /\ UNCHANGED <<queue, running, v, rw, alive, working, keep, halted>>

\* bsem_wait finds v = 1, or sleeps; a sleeping thread may wake by itself.
Wait(w) ==
  /\ v = 1
  /\ Goto(w, "wait", "check")
  /\ v' = 0
  /\ UNCHANGED <<queue, running, rw, alive, working, keep, halted>>

Sleep(w) ==
  /\ v = 0
  /\ Goto(w, "wait", "asleep")
  /\ UNCHANGED <<queue, running, v, rw, alive, working, keep, halted>>

SpuriousWakeup(w) ==
  /\ Goto(w, "asleep", "wait")
  /\ UNCHANGED <<queue, running, v, rw, alive, working, keep, halted>>

\* The second test of threads_keepalive.
Check(w) ==
  /\ keep => CountHolders = {}
  /\ Goto(w, "check", IF keep THEN "pull" ELSE "loop")
  /\ working' = IF keep THEN working + 1 ELSE working
  /\ UNCHANGED <<queue, running, v, rw, alive, keep, halted>>

\* Mutants: jobqueue_pull does not post for the jobs it leaves; takes the
\* newest job.
PullSilently(w) ==
  /\ rw = NoThread
  /\ queue # <<>>
  /\ Goto(w, "pull", "run")
  /\ running' = [running EXCEPT ![w] = Head(queue)]
  /\ queue' = Tail(queue)
  /\ UNCHANGED <<v, rw, alive, working, keep, halted>>
PullNewest(w) ==
  /\ rw = NoThread
  /\ queue # <<>>
  /\ Goto(w, "pull", IF Len(queue) > 1 THEN "post" ELSE "run")
  /\ rw' = IF Len(queue) > 1 THEN w ELSE NoThread
  /\ running' = [running EXCEPT ![w] = queue[Len(queue)]]
  /\ queue' = SubSeq(queue, 1, Len(queue) - 1)
  /\ UNCHANGED <<v, alive, working, keep, halted>>

\* jobqueue_pull: nothing, the only job, or one of several jobs; in the last
\* case the semaphore is posted for the others.
PullNothing(w) ==
  /\ rw = NoThread
  /\ queue = <<>>
  /\ Goto(w, "pull", "done")
  /\ UNCHANGED <<queue, running, v, rw, alive, working, keep, halted>>

PullJob(w) ==
  /\ rw = NoThread
  /\ queue # <<>>
  /\ Goto(w, "pull", IF Len(queue) > 1 THEN "post" ELSE "run")
  /\ rw' = IF Len(queue) > 1 THEN w ELSE NoThread
  /\ running' = [running EXCEPT ![w] = Head(queue)]
  /\ queue' = Tail(queue)
  /\ UNCHANGED <<v, alive, working, keep, halted>>

PullPost(w) ==
  /\ Post(w, "post", "run")
  /\ rw' = NoThread
  /\ UNCHANGED <<queue, running, alive, working, keep, halted>>

Run(w) ==
  /\ Goto(w, "run", "done")
  /\ running' = [running EXCEPT ![w] = NoJob]
  /\ UNCHANGED <<queue, v, rw, alive, working, keep, halted>>

\* Mutant: num_threads_working is not decremented.
DoneUncounted(w) ==
  /\ CountHolders = {}
  /\ Goto(w, "done", "loop")
  /\ UNCHANGED <<queue, running, v, rw, alive, working, keep, halted>>

Done(w) ==
  /\ CountHolders = {}
  /\ Goto(w, "done", "loop")
  /\ working' = working - 1
  /\ UNCHANGED <<queue, running, v, rw, alive, keep, halted>>

WorkerStep(w) ==
  \/ Start(w) \/ Loop(w) \/ Leave(w) \/ Unlock(w) \/ Wait(w) \/ Sleep(w) \/ Check(w)
  \/ PullNothing(w) \/ PullJob(w) \/ PullPost(w) \/ Run(w) \/ Done(w)

-----------------------------------------------------------------------------
(* SIGINT: handle_signal calls thpool_destroy, which ends with exit. *)

Destroy ==
  /\ ~halted
  /\ pc[Main] \in Interruptible
  /\ halted' = TRUE
  /\ keep' = FALSE
  /\ UNCHANGED <<queue, running, v, rw, alive, working, pc>>

\* Mutant: thpool_destroy waits without posting.
PostNone == UNCHANGED vars

\* Both loops of thpool_destroy: bsem_post_all until no thread is alive.
PostAll ==
  /\ halted
  /\ alive > 0
  /\ v' = 1
  /\ pc' = [t \in Threads |-> IF t \in Asleep THEN "wait" ELSE pc[t]]
  /\ UNCHANGED <<queue, running, rw, alive, working, keep, halted>>

\* Mutant: the threads still alive after the first loop are given up.
DestroyedEarly ==
  /\ halted
  /\ rw = NoThread
  /\ pc[Main] # "gone"
  /\ pc' = [pc EXCEPT ![Main] = "gone"]
  /\ queue' = <<>>
  /\ v' = 0
  /\ UNCHANGED <<running, rw, alive, working, keep, halted>>

\* jobqueue_destroy pulls every queued job under rwmutex and frees it; what
\* is left of handle_signal ends with exit.
Destroyed ==
  /\ halted
  /\ alive = 0
  /\ queue # <<>> => rw = NoThread
  /\ pc[Main] # "gone"
  /\ pc' = [pc EXCEPT ![Main] = "gone"]
  /\ queue' = <<>>
  /\ v' = 0
  /\ UNCHANGED <<running, rw, alive, working, keep, halted>>

Next ==
  \/ Initialized
  \/ \E j \in Jobs : Push(j)
  \/ PushPost
  \/ \E w \in Workers : WorkerStep(w) \/ SpuriousWakeup(w)
  \/ Destroy \/ PostAll \/ Destroyed

\* Every thread is scheduled; main need not add work, nor anybody interrupt.
Fairness ==
  /\ WF_vars(Initialized) /\ WF_vars(PushPost)
  /\ WF_vars(PostAll) /\ WF_vars(Destroyed)
  /\ \A w \in Workers : WF_vars(WorkerStep(w))

Spec == Init /\ [][Next]_vars
FairSpec == Spec /\ Fairness

-----------------------------------------------------------------------------
(* Properties. *)

Places == {"start", "loop", "wait", "asleep", "check", "pull", "post", "run",
           "done", "unlock", "gone", "idle", "push"}

TypeOK ==
  /\ queue \in Seq(Jobs)
  /\ running \in [Workers -> Jobs \cup {NoJob}]
  /\ v \in {0, 1}
  /\ rw \in Threads \cup {NoThread}
  /\ alive \in 0..Cardinality(Workers)
  /\ working \in 0..Cardinality(Workers)
  /\ keep \in BOOLEAN
  /\ pc \in [Threads -> Places]
  /\ halted \in BOOLEAN

\* A queued job always has somebody to take it: the semaphore is up, or is
\* about to be posted by the holder of rwmutex, or a thread already past it
\* has still to pull (bsem_post signals one thread, jobqueue_pull passes the
\* signal on: thpool.c:456-509).  A binary semaphore counts no posts, so no
\* post may be lost when several jobs are queued at once.
NoLostWakeup ==
  keep /\ queue # <<>> =>
    \/ v = 1
    \/ \E t \in Threads : pc[t] \in {"push", "post"}
    \/ \E w \in Workers : pc[w] \in {"check", "pull"}

\* The semaphore is never up with every thread asleep on it.
SignalHeard == v = 1 /\ keep /\ alive = Cardinality(Workers) => Asleep # Workers

\* The jobs are started in the order they were added, each once.
Queue == INSTANCE JobQueue
JobsInOrder == Queue!Spec

\* Every job added is started, as long as the pool is not destroyed: neither
\* a lost signal nor a sleeping thread keeps it in the queue.
EveryJobStarts ==
  \A j \in Jobs :
    (\E i \in DOMAIN queue : queue[i] = j) ~>
      (~keep \/ \E w \in Workers : running[w] = j)

\* thpool.h:143-144: thpool_destroy "will wait for the currently active threads
\* to finish and then 'kill' the whole threadpool".
DestroyEnds == ~keep ~> pc[Main] = "gone"

\* What thpool_destroy and handle_signal free is in no thread's hands, but for
\* one thing: a single thread, done with everything else, may have the unlock
\* of thcount_lock before it, in a pool already freed (thpool.c:240-260 reads
\* num_threads_alive without the lock, 401-403).
NobodyLeft ==
  pc[Main] = "gone" =>
    /\ \A w \in Workers : running[w] = NoJob /\ pc[w] \in {"unlock", "gone"}
    /\ \A w, x \in CountHolders : w = x
=============================================================================
