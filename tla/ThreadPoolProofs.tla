--------------------------- MODULE ThreadPoolProofs ---------------------------
(***************************************************************************)
(* Theorems about ThreadPool, for any number of threads and any jobs.      *)
(*                                                                         *)
(* IInv says, besides the types, where the counters of the pool come from  *)
(* (num_threads_alive and num_threads_working count the threads at certain *)
(* places), that a thread holds a job exactly between jobqueue_pull and    *)
(* its end, and what main having passed thpool_init or thpool_destroy      *)
(* means for the others.  The counters make thpool_destroy's test of       *)
(* num_threads_alive mean that no thread is left but the one that has just *)
(* uncounted itself and still holds thcount_lock.                          *)
(***************************************************************************)
EXTENDS ThreadPool, FiniteSetTheorems, TLAPS

WorkerPlaces == Places \ {"idle", "push"}
MainPlaces == {"start", "idle", "push", "gone"}

Living == {w \in Workers : pc[w] \notin {"start", "unlock", "gone"}}
Busy == {w \in Workers : pc[w] \in {"pull", "post", "run", "done"}}

Typed ==
  /\ queue \in Seq(Jobs)
  /\ running \in [Workers -> Jobs \cup {NoJob}]
  /\ v \in {0, 1}
  /\ rw \in Threads \cup {NoThread}
  /\ alive \in Nat
  /\ working \in Nat
  /\ keep \in BOOLEAN
  /\ halted \in BOOLEAN
  /\ pc \in [Threads -> Places]

\* Each thread is at one of its own places.
Placed ==
  /\ pc[Main] \in MainPlaces
  /\ \A w \in Workers : pc[w] \in WorkerPlaces

\* A thread holds a job from jobqueue_pull to the end of the job.
Held == \A w \in Workers : running[w] # NoJob <=> pc[w] \in {"post", "run"}

\* thpool_init waited for every thread; thpool_destroy stopped the pool, and
\* returned when no thread was left.
Phases ==
  /\ halted => pc[Main] # "start"
  /\ halted => ~keep
  /\ pc[Main] # "start" => \A w \in Workers : pc[w] # "start"
  /\ pc[Main] = "gone" => \A w \in Workers : pc[w] \in {"unlock", "gone"}

\* thcount_lock is a lock, and is kept from one step to the next only by a
\* thread that leaves.
CountLocked ==
  /\ \A w, x \in CountHolders : w = x
  /\ CountHolders # {} => ~keep

Counted ==
  /\ alive = Cardinality(Living)
  /\ working = Cardinality(Busy)

Control == Typed /\ Placed /\ Held /\ Phases /\ CountLocked
IInv == Control /\ Counted

-----------------------------------------------------------------------------
(* The counters. *)

LEMMA FiniteParts ==
  /\ IsFiniteSet(Living) /\ IsFiniteSet(Busy)
  /\ Cardinality(Living) \in 0..Cardinality(Workers)
  /\ Cardinality(Busy) \in 0..Cardinality(Workers)
<1>1. Living \subseteq Workers /\ Busy \subseteq Workers
  BY DEF Living, Busy
<1>2. /\ IsFiniteSet(Living) /\ Cardinality(Living) <= Cardinality(Workers)
      /\ IsFiniteSet(Busy) /\ Cardinality(Busy) <= Cardinality(Workers)
  BY <1>1, WorkersAssumption, FS_Subset
<1>3. Cardinality(Living) \in Nat /\ Cardinality(Busy) \in Nat /\ Cardinality(Workers) \in Nat
  BY <1>2, WorkersAssumption, FS_CardinalityType
<1> QED  BY <1>2, <1>3, SMT

\* No thread alive is what alive = 0 says.
LEMMA NoneAlive ==
  ASSUME IInv, alive = 0
  PROVE  \A w \in Workers : pc[w] \in {"start", "unlock", "gone"} /\ running[w] = NoJob
<1>1. Living = {}
  BY FiniteParts, FS_EmptySet DEF IInv, Counted
<1> QED  BY <1>1 DEF Living, IInv, Control, Held

\* Every thread alive is what alive = Cardinality(Workers) says.
LEMMA AllAlive ==
  ASSUME IInv, alive = Cardinality(Workers)
  PROVE  Living = Workers
<1>1. Living \subseteq Workers
  BY DEF Living
<1>2. Cardinality(Living) = Cardinality(Workers)
  BY DEF IInv, Counted
<1> QED  BY <1>1, <1>2, WorkersAssumption, FS_Subset

\* A step that moves no thread between the counted places keeps the counts.
LEMMA SameCounts ==
  ASSUME IInv, UNCHANGED <<alive, working>>,
         \A w \in Workers :
           /\ pc'[w] \in {"start", "unlock", "gone"} <=> pc[w] \in {"start", "unlock", "gone"}
           /\ pc'[w] \in {"pull", "post", "run", "done"}
                <=> pc[w] \in {"pull", "post", "run", "done"}
  PROVE  Counted'
<1>1. Living' = Living /\ Busy' = Busy
  BY DEF Living, Busy
<1> QED  BY <1>1 DEF IInv, Counted

-----------------------------------------------------------------------------
(* The steps. *)

LEMMA InitIInv == Init => IInv
<1> SUFFICES ASSUME Init PROVE IInv
  OBVIOUS
<1>1. Control
  <2>1. Typed
    <3>1. queue \in Seq(Jobs) /\ running \in [Workers -> Jobs \cup {NoJob}]
      BY DEF Init
    <3>2. pc \in [Threads -> Places]
      BY DEF Init, Places
    <3>3. keep \in BOOLEAN /\ halted \in BOOLEAN
      BY Zenon DEF Init
    <3>4. v \in {0, 1} /\ rw \in Threads \cup {NoThread} /\ alive \in Nat /\ working \in Nat
      BY DEF Init
    <3> QED  BY <3>1, <3>2, <3>3, <3>4 DEF Typed
  <2>2. Placed
    BY DEF Init, Placed, Threads, Places, WorkerPlaces, MainPlaces
  <2>3. Held
    BY DEF Init, Held, Threads
  <2>4. Phases
    BY DEF Init, Phases, Threads
  <2>5. CountLocked
    BY DEF Init, CountLocked, CountHolders, Threads
  <2> QED  BY <2>1, <2>2, <2>3, <2>4, <2>5 DEF Control
<1>2. Living = {} /\ Busy = {}
  BY DEF Init, Living, Busy, Threads
<1>3. Counted
  BY <1>2, FS_EmptySet DEF Init, Counted
<1> QED  BY <1>1, <1>3 DEF IInv

\* A post moves the poster and at most one sleeping thread.
LEMMA PostMoves ==
  ASSUME IInv, NEW t \in Threads, NEW from, NEW to, Post(t, from, to)
  PROVE  /\ pc[t] = from
         /\ pc' \in [Threads -> Places \cup {to}]
         /\ from # "asleep" => pc'[t] = to
         /\ \A x \in Threads \ {t} :
              pc'[x] = pc[x] \/ (x \in Workers /\ pc[x] = "asleep" /\ pc'[x] = "wait")
BY DEF IInv, Control, Typed, Post, Asleep, Places, Threads

LEMMA MainKeeps ==
  ASSUME IInv, Initialized \/ (\E j \in Jobs : Push(j)) \/ PushPost
  PROVE  IInv'
<1>1. CASE Initialized
  <2>1. Control'
    BY <1>1, AllAlive, MainAssumption
    DEF IInv, Control, Typed, Placed, Held, Phases, CountLocked, CountHolders, Initialized, Goto, Goes,
        Threads, Places, WorkerPlaces, MainPlaces, Living
  <2>2. Counted'
    BY <1>1, SameCounts, MainAssumption
    DEF Initialized, Goto, IInv, Control, Typed, Threads
  <2> QED  BY <2>1, <2>2 DEF IInv
<1>2. ASSUME NEW j \in Jobs, Push(j)  PROVE IInv'
  <2>1. Control'
    BY <1>2, MainAssumption
    DEF IInv, Control, Typed, Placed, Held, Phases, CountLocked, CountHolders, Push, Goto, Goes,
        Threads, Places, WorkerPlaces, MainPlaces
  <2>2. Counted'
    BY <1>2, SameCounts, MainAssumption
    DEF Push, Goto, IInv, Control, Typed, Threads
  <2> QED  BY <2>1, <2>2 DEF IInv
<1>3. CASE PushPost
  <2>1. /\ pc[Main] = "push" /\ pc'[Main] = "idle"
        /\ pc' \in [Threads -> Places]
        /\ \A w \in Workers : pc'[w] = pc[w] \/ (pc[w] = "asleep" /\ pc'[w] = "wait")
    BY <1>3, PostMoves, MainAssumption DEF PushPost, Threads, Places
  <2>2. Control'
    BY <1>3, <2>1
    DEF IInv, Control, Typed, Placed, Held, Phases, CountLocked, CountHolders, PushPost, Post, Threads,
        Places, WorkerPlaces, MainPlaces
  <2>3. Counted'
    BY <1>3, <2>1, SameCounts DEF PushPost
  <2> QED  BY <2>2, <2>3 DEF IInv
<1> QED  BY <1>1, <1>2, <1>3

\* The steps of a thread that cross none of the counted places.
LEMMA QuietStepsKeep ==
  ASSUME IInv, NEW w \in Workers,
         Loop(w) \/ Wait(w) \/ Sleep(w) \/ SpuriousWakeup(w) \/ PullNothing(w)
           \/ PullJob(w) \/ Run(w) \/ Unlock(w)
  PROVE  IInv'
<1>1. Control'
  <2> USE MainAssumption, NoJobAssumption DEF IInv, Control, Typed, Placed, Held,
          Phases, CountLocked, CountHolders, Goto, Goes, Threads, Places, WorkerPlaces, MainPlaces
  <2>1. CASE Wait(w)            BY <2>1 DEF Wait
  <2>2. CASE Sleep(w)           BY <2>2 DEF Sleep
  <2>3. CASE SpuriousWakeup(w)  BY <2>3 DEF SpuriousWakeup
  <2>4. CASE PullNothing(w)     BY <2>4 DEF PullNothing
  <2>5. CASE PullJob(w)
    <3>1. queue' \in Seq(Jobs) /\ Head(queue) \in Jobs
      BY <2>5 DEF PullJob
    <3> QED  BY <2>5, <3>1 DEF PullJob
  <2>6. CASE Run(w)             BY <2>6 DEF Run
  <2>7. CASE Loop(w)            BY <2>7 DEF Loop
  <2>8. CASE Unlock(w)          BY <2>8 DEF Unlock
  <2> QED  BY <2>1, <2>2, <2>3, <2>4, <2>5, <2>6, <2>7, <2>8
<1>2. UNCHANGED <<alive, working>>
  BY DEF Loop, Wait, Sleep, SpuriousWakeup, PullNothing, PullJob, Run, Unlock
<1>3. \A x \in Workers :
        /\ pc'[x] \in {"start", "unlock", "gone"} <=> pc[x] \in {"start", "unlock", "gone"}
        /\ pc'[x] \in {"pull", "post", "run", "done"}
             <=> pc[x] \in {"pull", "post", "run", "done"}
  BY DEF IInv, Control, Typed, Threads, Goto, Loop, Wait, Sleep, SpuriousWakeup,
         PullNothing, PullJob, Run, Unlock
<1> QED  BY <1>1, <1>2, <1>3, SameCounts DEF IInv

LEMMA PullPostKeeps ==
  ASSUME IInv, NEW w \in Workers, PullPost(w)
  PROVE  IInv'
<1>1. /\ pc[w] = "post" /\ pc'[w] = "run"
      /\ pc' \in [Threads -> Places]
      /\ \A x \in Threads \ {w} :
           pc'[x] = pc[x] \/ (x \in Workers /\ pc[x] = "asleep" /\ pc'[x] = "wait")
  BY PostMoves DEF PullPost, Threads, Places
<1>2. Control'
  BY <1>1, MainAssumption
  DEF IInv, Control, Typed, Placed, Held, Phases, CountLocked, CountHolders, PullPost, Post, Threads,
      Places, WorkerPlaces, MainPlaces
<1>3. Counted'
  BY <1>1, SameCounts, MainAssumption DEF PullPost, Threads
<1> QED  BY <1>2, <1>3 DEF IInv

\* The steps of a thread that count or uncount it.
LEMMA CountingStepsKeep ==
  ASSUME IInv, NEW w \in Workers, Start(w) \/ Leave(w) \/ Check(w) \/ Done(w)
  PROVE  IInv'
<1>1. Control'
  <2> USE MainAssumption DEF IInv, Control, Typed, Placed, Held, Phases, CountLocked, CountHolders, Goto, Goes,
          Threads, Places, WorkerPlaces, MainPlaces
  <2>1. CASE Start(w)  BY <2>1 DEF Start
  <2>2. CASE Leave(w)
    <3>1. alive' \in Nat
      <4>1. w \in Living
        BY <2>2 DEF Leave, Living
      <4>2. Cardinality(Living) \in Nat \ {0}
        BY <4>1, FiniteParts, FS_EmptySet, FS_CardinalityType
      <4> QED  BY <2>2, <4>2 DEF Leave, Counted
    <3> QED  BY <2>2, <3>1 DEF Leave
  <2>3. CASE Check(w)  BY <2>3 DEF Check
  <2>4. CASE Done(w)
    <3>1. working' \in Nat
      <4>1. w \in Busy
        BY <2>4 DEF Done, Busy
      <4>2. Cardinality(Busy) \in Nat \ {0}
        BY <4>1, FiniteParts, FS_EmptySet, FS_CardinalityType
      <4> QED  BY <2>4, <4>2 DEF Done, Counted
    <3> QED  BY <2>4, <3>1 DEF Done
  <2> QED  BY <2>1, <2>2, <2>3, <2>4
<1>2. Counted'
  <2> USE DEF IInv, Control, Typed, Counted, Goto, Threads
  <2>1. CASE Start(w)
    <3>1. Living' = Living \cup {w} /\ w \notin Living /\ Busy' = Busy
      BY <2>1 DEF Start, Living, Busy
    <3>2. Cardinality(Living') = Cardinality(Living) + 1
      BY <3>1, FiniteParts, FS_AddElement
    <3> QED  BY <2>1, <3>1, <3>2 DEF Start
  <2>2. CASE Leave(w)
    <3>1. Living' = Living \ {w} /\ w \in Living /\ Busy' = Busy
      BY <2>2 DEF Leave, Living, Busy
    <3>2. Cardinality(Living') = Cardinality(Living) - 1
      BY <3>1, FiniteParts, FS_RemoveElement
    <3> QED  BY <2>2, <3>1, <3>2 DEF Leave
  <2>3. CASE Check(w) /\ keep
    <3>1. Busy' = Busy \cup {w} /\ w \notin Busy /\ Living' = Living
      BY <2>3 DEF Check, Living, Busy
    <3>2. Cardinality(Busy') = Cardinality(Busy) + 1
      BY <3>1, FiniteParts, FS_AddElement
    <3> QED  BY <2>3, <3>1, <3>2 DEF Check
  <2>4. CASE Check(w) /\ ~keep
    BY <2>4, SameCounts DEF Check
  <2>5. CASE Done(w)
    <3>1. Busy' = Busy \ {w} /\ w \in Busy /\ Living' = Living
      BY <2>5 DEF Done, Living, Busy
    <3>2. Cardinality(Busy') = Cardinality(Busy) - 1
      BY <3>1, FiniteParts, FS_RemoveElement
    <3> QED  BY <2>5, <3>1, <3>2 DEF Done
  <2> QED  BY <2>1, <2>2, <2>3, <2>4, <2>5
<1> QED  BY <1>1, <1>2 DEF IInv

LEMMA DestroyKeeps ==
  ASSUME IInv, Destroy \/ PostAll \/ Destroyed
  PROVE  IInv'
<1> USE MainAssumption DEF IInv, Control, Typed, Placed, Held, Phases, CountLocked, CountHolders, Threads, Places,
        WorkerPlaces, MainPlaces
<1>1. CASE Destroy
  <2>1. Control'
    BY <1>1, InterruptibleAssumption DEF Destroy
  <2>2. Counted'
    BY <1>1, SameCounts DEF Destroy
  <2> QED  BY <2>1, <2>2
<1>2. CASE PostAll
  <2>1. Control'
    BY <1>2 DEF PostAll, Asleep
  <2>2. Counted'
    BY <1>2, SameCounts DEF PostAll, Asleep
  <2> QED  BY <2>1, <2>2
<1>3. CASE Destroyed
  <2>1. Control'
    BY <1>3, NoneAlive DEF Destroyed
  <2>2. Counted'
    BY <1>3, SameCounts DEF Destroyed
  <2> QED  BY <2>1, <2>2
<1> QED  BY <1>1, <1>2, <1>3

LEMMA NextIInv == IInv /\ [Next]_vars => IInv'
<1> SUFFICES ASSUME IInv, [Next]_vars PROVE IInv'
  OBVIOUS
<1>1. CASE UNCHANGED vars
  BY <1>1 DEF vars, IInv, Control, Typed, Placed, Held, Phases, CountLocked, CountHolders, Counted, Living, Busy
<1>2. CASE Initialized \/ (\E j \in Jobs : Push(j)) \/ PushPost
  BY <1>2, MainKeeps
<1>3. ASSUME NEW w \in Workers, WorkerStep(w) \/ SpuriousWakeup(w)  PROVE IInv'
  BY <1>3, QuietStepsKeep, PullPostKeeps, CountingStepsKeep DEF WorkerStep
<1>4. CASE Destroy \/ PostAll \/ Destroyed
  BY <1>4, DestroyKeeps
<1> QED  BY <1>1, <1>2, <1>3, <1>4 DEF Next

\* The inductive invariant of the pool (thpool.c:140-261, 336-406).
THEOREM Invariance == Spec => []IInv
<1> QED  BY InitIInv, NextIInv, PTL DEF Spec

-----------------------------------------------------------------------------
(* What follows from it. *)

\* The counters of the pool stay between zero and the number of its threads,
\* and the queue holds jobs (thpool.c:366-369, 385-397, 402-405).
THEOREM TypeCorrect == Spec => []TypeOK
<1>1. IInv => TypeOK
  BY FiniteParts DEF IInv, Control, Typed, Counted, TypeOK
<1> QED  BY <1>1, Invariance, PTL

\* When thpool_destroy frees the pool no job is being run, and no thread has
\* anything left to do but one, which may have its unlock of thcount_lock
\* before it (thpool.c:226-261, 401-403).
THEOREM NobodyIsLeft == Spec => []NobodyLeft
<1>1. IInv => NobodyLeft
  BY DEF IInv, Control, Phases, Held, CountLocked, NobodyLeft
<1> QED  BY <1>1, Invariance, PTL

-----------------------------------------------------------------------------
(* The semaphore. *)

Heard == v = 1 => Asleep # Workers

LEMMA HeardKept == IInv /\ Heard /\ [Next]_vars => Heard'
<1> SUFFICES ASSUME IInv, Heard, [Next]_vars, v' = 1  PROVE Asleep' # Workers
  BY DEF Heard
<1> USE DEF IInv, Control, Typed, Threads
<1>1. ASSUME NEW t \in Threads, NEW from, NEW to, Post(t, from, to), to # "asleep"
      PROVE  Asleep' # Workers
  <2>1. CASE Asleep = {} /\ pc' = [pc EXCEPT ![t] = to]
    BY <1>1, <2>1, WorkersAssumption DEF Asleep
  <2>2. ASSUME NEW w \in Asleep, pc' = [[pc EXCEPT ![t] = to] EXCEPT ![w] = "wait"]
        PROVE  Asleep' # Workers
    BY <2>2 DEF Asleep
  <2> QED  BY <1>1, <2>1, <2>2 DEF Post
<1>2. CASE UNCHANGED vars
  BY <1>2 DEF vars, Heard, Asleep
<1>3. CASE Initialized \/ \E j \in Jobs : Push(j)
  BY <1>3, MainAssumption DEF Initialized, Push, Goto, Heard, Asleep
<1>4. CASE PushPost
  BY <1>1, <1>4 DEF PushPost
<1>5. ASSUME NEW w \in Workers, PullPost(w)  PROVE Asleep' # Workers
  BY <1>1, <1>5 DEF PullPost
<1>6. ASSUME NEW w \in Workers, WorkerStep(w) \/ SpuriousWakeup(w), ~PullPost(w)
      PROVE  Asleep' # Workers
  <2>1. v = 1 /\ Asleep' \subseteq Asleep
    BY <1>6 DEF WorkerStep, Start, Loop, Leave, Unlock, Wait, Sleep, SpuriousWakeup, Check,
                PullNothing, PullJob, Run, Done, Goto, Asleep
  <2> QED  BY <2>1 DEF Heard, Asleep
<1>7. CASE Destroy \/ Destroyed
  BY <1>7 DEF Destroy, Destroyed, Heard, Asleep
<1>8. CASE PostAll
  <2>1. Asleep' = {}
    BY <1>8 DEF PostAll, Asleep
  <2> QED  BY <2>1, WorkersAssumption
<1> QED  BY <1>2, <1>3, <1>4, <1>5, <1>6, <1>7, <1>8 DEF Next

\* The semaphore is never up with every thread asleep on it (thpool.c:546-571).
THEOREM SignalIsHeard == Spec => []SignalHeard
<1>1. Init => Heard
  BY DEF Init, Heard
<1>2. Heard => SignalHeard
  BY DEF Heard, SignalHeard
<1> QED  BY <1>1, <1>2, HeardKept, Invariance, PTL DEF Spec

LEMMA WakeupKept == IInv /\ NoLostWakeup /\ [Next]_vars => NoLostWakeup'
<1> SUFFICES ASSUME IInv, NoLostWakeup, [Next]_vars, keep', queue' # <<>>
             PROVE  \/ v' = 1
                    \/ \E t \in Threads : pc'[t] \in {"push", "post"}
                    \/ \E w \in Workers : pc'[w] \in {"check", "pull"}
  BY DEF NoLostWakeup
<1> USE DEF IInv, Control, Typed, Threads, Goto
<1>1. CASE UNCHANGED vars
  BY <1>1 DEF vars, NoLostWakeup
<1>2. CASE Initialized
  BY <1>2, MainAssumption DEF Initialized, NoLostWakeup
<1>3. CASE \E j \in Jobs : Push(j)
  BY <1>3 DEF Push
<1>4. CASE PushPost \/ PostAll
  BY <1>4 DEF PushPost, PostAll, Post
<1>5. CASE Destroy \/ Destroyed
  BY <1>5 DEF Destroy, Destroyed
<1>6. ASSUME NEW w \in Workers, WorkerStep(w) \/ SpuriousWakeup(w)
      PROVE  \/ v' = 1
             \/ \E t \in Threads : pc'[t] \in {"push", "post"}
             \/ \E x \in Workers : pc'[x] \in {"check", "pull"}
  <2>1. CASE \/ Start(w) \/ Loop(w) \/ Leave(w) \/ Unlock(w) \/ Sleep(w)
             \/ SpuriousWakeup(w) \/ Run(w) \/ Done(w)
    BY <2>1, MainAssumption
    DEF Start, Loop, Leave, Unlock, Sleep, SpuriousWakeup, Run, Done, NoLostWakeup
  <2>2. CASE Wait(w)
    BY <2>2 DEF Wait
  <2>3. CASE Check(w)
    BY <2>3 DEF Check
  <2>4. CASE PullNothing(w)
    BY <2>4 DEF PullNothing
  <2>5. CASE PullJob(w)
    <3>1. Len(queue) > 1
      BY <2>5 DEF PullJob
    <3> QED  BY <2>5, <3>1 DEF PullJob
  <2>6. CASE PullPost(w)
    BY <2>6 DEF PullPost, Post
  <2> QED  BY <1>6, <2>1, <2>2, <2>3, <2>4, <2>5, <2>6 DEF WorkerStep
<1> QED  BY <1>1, <1>2, <1>3, <1>4, <1>5, <1>6 DEF Next

\* A queued job always has somebody to take it (thpool.c:456-509).
THEOREM NoWakeupIsLost == Spec => []NoLostWakeup
<1>1. Init => NoLostWakeup
  BY DEF Init, NoLostWakeup
<1> QED  BY <1>1, WakeupKept, Invariance, PTL DEF Spec

-----------------------------------------------------------------------------
(* The pool implements JobQueue. *)

LEMMA StepsImplement ==
  ASSUME IInv, [Next]_vars
  PROVE  [Queue!Next]_<<queue, running>>
<1>1. CASE UNCHANGED vars
  BY <1>1 DEF vars
<1>2. ASSUME NEW j \in Jobs, Push(j)  PROVE Queue!Next
  BY <1>2 DEF Push, Queue!Next, Queue!Push
<1>3. CASE Initialized \/ PushPost \/ Destroy \/ PostAll
  BY <1>3 DEF Initialized, PushPost, Destroy, PostAll
<1>4. ASSUME NEW w \in Workers, PullJob(w)  PROVE Queue!Next
  <2>1. running[w] = NoJob
    BY <1>4 DEF PullJob, Goto, IInv, Control, Held
  <2> QED  BY <1>4, <2>1 DEF PullJob, Queue!Next, Queue!Take
<1>5. ASSUME NEW w \in Workers, Run(w)  PROVE Queue!Next
  <2>1. running[w] # NoJob
    BY <1>5 DEF Run, Goto, IInv, Control, Held
  <2> QED  BY <1>5, <2>1 DEF Run, Queue!Next, Queue!Finish
<1>6. ASSUME NEW w \in Workers, WorkerStep(w) \/ SpuriousWakeup(w), ~PullJob(w), ~Run(w)
      PROVE  UNCHANGED <<queue, running>>
  BY <1>6 DEF WorkerStep, Start, Loop, Leave, Unlock, Wait, Sleep, SpuriousWakeup, Check,
              PullNothing, PullPost, Done
<1>7. CASE Destroyed
  BY <1>7, NoneAlive DEF Destroyed, Queue!Next, Queue!Discard
<1> QED  BY <1>1, <1>2, <1>3, <1>4, <1>5, <1>6, <1>7 DEF Next

\* Jobs are started in the order they were added, each once, by a thread that
\* is doing nothing else; destroying drops those nobody started
\* (thpool.c:195-212, 385-390, 440-509).
THEOREM Implements == Spec => JobsInOrder
<1>1. Init => Queue!Init
  BY DEF Init, Queue!Init
<1> QED  BY <1>1, StepsImplement, Invariance, PTL DEF Spec, JobsInOrder, Queue!Spec
=============================================================================
