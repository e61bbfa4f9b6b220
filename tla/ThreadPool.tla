----------------------------- MODULE ThreadPool -----------------------------
(***************************************************************************)
(* server/src/pool.c (GIS/server/src/pool.c is the same file): a fixed set  *)
(* of threads fed by a bounded linked list under one mutex, queue_lock,     *)
(* and the condition variables queue_not_empty, queue_not_full and          *)
(* queue_empty.                                                            *)
(*                                                                         *)
(* An action is one critical section: from pthread_mutex_lock, or the       *)
(* return of pthread_cond_wait, to the unlock, the next pthread_cond_wait   *)
(* or pthread_exit.  Calls outside the mutex (the two broadcasts and the    *)
(* joins of tpool_destroy, the handler, the frees) are actions of their     *)
(* own.  A thread asleep in pthread_cond_wait that a signal or a broadcast  *)
(* reaches is at "woken": it still has to take the mutex again and to       *)
(* repeat its test.                                                        *)
(***************************************************************************)
EXTENDS Naturals, Sequences, FiniteSets

CONSTANTS
  Worker,                  \* the threads tpool_init creates
  Producer,                \* the callers of tpool_add_work
  Destroyer,               \* the callers of tpool_destroy
  Job,                     \* the (routine, arg) pairs given to tpool_add_work
  NoJob,                   \* no job
  NoThread,                \* nobody
  max_queue_size,          \* second argument of tpool_init
  do_not_block_when_full,  \* third argument of tpool_init
  FinishArgs,              \* the values of tpool_destroy's argument finish
  MallocFails,             \* BOOLEAN: malloc may return NULL in tpool_add_work
  CallersJoined            \* BOOLEAN: the caller stops every producer before it
                           \* calls tpool_destroy once, as main does

Thread == Worker \cup Producer \cup Destroyer

ASSUME ThreadsDistinct ==
  /\ Worker \cap Producer = {}
  /\ Worker \cap Destroyer = {}
  /\ Producer \cap Destroyer = {}
  /\ NoThread \notin Thread
ASSUME NoJobIsNoJob == NoJob \notin Job
ASSUME SizeAssumption == max_queue_size \in Nat \ {0}
ASSUME FlagAssumption ==
  /\ do_not_block_when_full \in BOOLEAN
  /\ FinishArgs \subseteq BOOLEAN
  /\ MallocFails \in BOOLEAN
  /\ CallersJoined \in BOOLEAN

VARIABLES
  pc,              \* where each thread is
  work,            \* my_work of a worker, the arguments of a producer's call
  queue,           \* the list queue_head .. queue_tail
  cur_queue_size,  \* the pool's count of it
  queue_closed,    \* set by tpool_destroy
  shutdown,        \* set by tpool_destroy
  queue_lock,      \* a thread that went away with the mutex, or NoThread
  init,            \* tpool_init: "creating" threads, "ok" or "failed"
  finish,          \* the argument of each tpool_destroy call
  freed,           \* pool has been freed
  todo,            \* jobs nobody has submitted yet
  finished         \* jobs whose handler returned

vars == <<pc, work, queue, cur_queue_size, queue_closed, shutdown, queue_lock,
          init, finish, freed, todo, finished>>

-----------------------------------------------------------------------------
WorkerPC    == {"unborn", "top", "wait", "woken", "run", "exit", "ub"}
ProducerPC  == {"idle", "call", "wait", "woken", "ub"}
DestroyerPC == {"idle", "call", "wait", "woken", "bcast_not_empty",
                "bcast_not_full", "join", "free", "done", "ub"}

TypeOK ==
  /\ pc \in [Thread -> WorkerPC \cup ProducerPC \cup DestroyerPC]
  /\ \A w \in Worker : pc[w] \in WorkerPC
  /\ \A p \in Producer : pc[p] \in ProducerPC
  /\ \A d \in Destroyer : pc[d] \in DestroyerPC
  /\ work \in [Worker \cup Producer -> Job \cup {NoJob}]
  /\ queue \in Seq(Job)
  /\ cur_queue_size \in Nat
  /\ queue_closed \in BOOLEAN
  /\ shutdown \in BOOLEAN
  /\ queue_lock \in Producer \cup {NoThread}
  /\ init \in {"creating", "ok", "failed"}
  /\ finish \in [Destroyer -> BOOLEAN]
  /\ freed \in BOOLEAN
  /\ todo \subseteq Job
  /\ finished \subseteq Job

\* The list is empty, no thread exists, nobody has called anything.
Init ==
  /\ pc = [t \in Thread |-> IF t \in Worker THEN "unborn" ELSE "idle"]
  /\ work = [t \in Worker \cup Producer |-> NoJob]
  /\ queue = <<>>
  /\ cur_queue_size = 0
  /\ queue_closed = FALSE
  /\ shutdown = FALSE
  /\ queue_lock = NoThread
  /\ init = "creating"
  /\ finish = [d \in Destroyer |-> TRUE]
  /\ freed = FALSE
  /\ todo = Job
  /\ finished = {}

-----------------------------------------------------------------------------
(* Condition variables.  A waiter sleeps on the one condition its kind of
   thread waits for: a worker on queue_not_empty, a producer on
   queue_not_full, a destroyer on queue_empty.                             *)

Asleep(S) == {t \in S : pc[t] = "wait"}

\* pc after t moves to "at" and the threads of W are woken.
Moved(t, at, W) ==
  [x \in Thread |-> IF x = t THEN at ELSE IF x \in W THEN "woken" ELSE pc[x]]

\* pthread_cond_signal wakes one sleeper, if there is one.
SignalSets(S) == IF S = {} THEN {{}} ELSE {{t} : t \in S}

\* The mutex can be taken, and the pool it lives in still exists.
CanLock == queue_lock = NoThread /\ ~freed

-----------------------------------------------------------------------------
(* tpool_init                                                              *)

\* The loop creates one thread more; each starts at once.
CreateThread(w) ==
  /\ init = "creating"
  /\ pc[w] = "unborn"
  /\ pc' = [pc EXCEPT ![w] = "top"]
  /\ init' = IF \A v \in Worker \ {w} : pc[v] # "unborn" THEN "ok" ELSE init
  /\ UNCHANGED <<work, queue, cur_queue_size, queue_closed, shutdown,
                 queue_lock, finish, freed, todo, finished>>

\* pthread_create fails: NULL is returned, the threads made so far live on.
CreateFails ==
  /\ init = "creating"
  /\ init' = "failed"
  /\ UNCHANGED <<pc, work, queue, cur_queue_size, queue_closed, shutdown,
                 queue_lock, finish, freed, todo, finished>>

-----------------------------------------------------------------------------
(* tpool_add_work                                                          *)

CallAddWork(p, j) ==
  /\ init = "ok"
  /\ ~freed
  /\ CallersJoined => \A d \in Destroyer : pc[d] = "idle"
  /\ pc[p] = "idle"
  /\ j \in todo
  /\ pc' = [pc EXCEPT ![p] = "call"]
  /\ work' = [work EXCEPT ![p] = j]
  /\ todo' = todo \ {j}
  /\ UNCHANGED <<queue, cur_queue_size, queue_closed, shutdown, queue_lock,
                 init, finish, freed, finished>>

Full == cur_queue_size = max_queue_size

\* Slip: the second test forgets queue_closed.
RefusedOnlyShutdown(p) ==
  \/ pc[p] = "call" /\ Full /\ do_not_block_when_full
  \/ shutdown

\* The call refuses its job: a full list is only looked at for this on entry.
Refused(p) ==
  \/ pc[p] = "call" /\ Full /\ do_not_block_when_full
  \/ shutdown \/ queue_closed

AddWorkReturnsError(p) ==
  /\ CanLock
  /\ pc[p] \in {"call", "woken"}
  /\ Refused(p)
  /\ pc' = [pc EXCEPT ![p] = "idle"]
  /\ work' = [work EXCEPT ![p] = NoJob]
  /\ UNCHANGED <<queue, cur_queue_size, queue_closed, shutdown, queue_lock,
                 init, finish, freed, todo, finished>>

AddWorkWaits(p) ==
  /\ CanLock
  /\ pc[p] \in {"call", "woken"}
  /\ ~Refused(p)
  /\ Full
  /\ pc' = [pc EXCEPT ![p] = "wait"]
  /\ UNCHANGED <<work, queue, cur_queue_size, queue_closed, shutdown,
                 queue_lock, init, finish, freed, todo, finished>>

\* Slip: the count is taken before the test for an empty list.
EnqueueAnnouncesLate(p) ==
  /\ CanLock
  /\ pc[p] \in {"call", "woken"}
  /\ ~Refused(p)
  /\ ~Full
  /\ queue' = Append(queue, work[p])
  /\ cur_queue_size' = cur_queue_size + 1
  /\ pc' = Moved(p, "idle", IF cur_queue_size' = 0 THEN Asleep(Worker) ELSE {})
  /\ work' = [work EXCEPT ![p] = NoJob]
  /\ UNCHANGED <<queue_closed, shutdown, queue_lock, init, finish, freed,
                 todo, finished>>

\* The job is linked in; only the first one of an empty list is announced.
Enqueue(p) ==
  /\ CanLock
  /\ pc[p] \in {"call", "woken"}
  /\ ~Refused(p)
  /\ ~Full
  /\ queue' = Append(queue, work[p])
  /\ cur_queue_size' = cur_queue_size + 1
  /\ pc' = Moved(p, "idle", IF cur_queue_size = 0 THEN Asleep(Worker) ELSE {})
  /\ work' = [work EXCEPT ![p] = NoJob]
  /\ UNCHANGED <<queue_closed, shutdown, queue_lock, init, finish, freed,
                 todo, finished>>

\* malloc returns NULL: the function returns -1 and leaves queue_lock locked.
AddWorkMallocFails(p) ==
  /\ MallocFails
  /\ CanLock
  /\ pc[p] \in {"call", "woken"}
  /\ ~Refused(p)
  /\ ~Full
  /\ queue_lock' = p
  /\ pc' = [pc EXCEPT ![p] = "idle"]
  /\ work' = [work EXCEPT ![p] = NoJob]
  /\ UNCHANGED <<queue, cur_queue_size, queue_closed, shutdown, init, finish,
                 freed, todo, finished>>

-----------------------------------------------------------------------------
(* tpool_thread                                                            *)

WorkerSleeps(w) ==
  /\ CanLock
  /\ pc[w] \in {"top", "woken"}
  /\ cur_queue_size = 0
  /\ ~shutdown
  /\ pc' = [pc EXCEPT ![w] = "wait"]
  /\ UNCHANGED <<work, queue, cur_queue_size, queue_closed, shutdown,
                 queue_lock, init, finish, freed, todo, finished>>

WorkerExits(w) ==
  /\ CanLock
  /\ pc[w] \in {"top", "woken"}
  /\ shutdown
  /\ pc' = [pc EXCEPT ![w] = "exit"]
  /\ UNCHANGED <<work, queue, cur_queue_size, queue_closed, shutdown,
                 queue_lock, init, finish, freed, todo, finished>>

\* Slip: room is announced to one producer only.
WokenByTakeSignal ==
  LET notFull  == ~do_not_block_when_full /\ cur_queue_size - 1 = max_queue_size - 1
      notEmpty == cur_queue_size - 1 > 0
  IN  {T \cup S :
         T \in IF notFull THEN SignalSets(Asleep(Producer)) ELSE {{}},
         S \in IF notEmpty THEN {{}} ELSE SignalSets(Asleep(Destroyer))}

\* Slip: the count is compared as if the job were still counted.
WokenByTakeOffByOne ==
  LET notFull  == ~do_not_block_when_full /\ cur_queue_size - 1 = max_queue_size
      notEmpty == cur_queue_size - 1 > 0
  IN  {(IF notFull THEN Asleep(Producer) ELSE {}) \cup S :
         S \in IF notEmpty THEN {{}} ELSE SignalSets(Asleep(Destroyer))}

\* The threads the removal of one job wakes: every producer when the list was
\* full, and one of those that wait for an empty list when it has become empty.
WokenByTake ==
  LET notFull  == ~do_not_block_when_full /\ cur_queue_size - 1 = max_queue_size - 1
      notEmpty == cur_queue_size - 1 > 0
  IN  {(IF notFull THEN Asleep(Producer) ELSE {}) \cup S :
         S \in IF notEmpty THEN {{}} ELSE SignalSets(Asleep(Destroyer))}

\* Slip: the head is not advanced.
TakeJobKeepsHead(w) ==
  /\ CanLock
  /\ pc[w] \in {"top", "woken"}
  /\ cur_queue_size # 0
  /\ ~shutdown
  /\ work' = [work EXCEPT ![w] = Head(queue)]
  /\ cur_queue_size' = cur_queue_size - 1
  /\ \E W \in WokenByTake : pc' = Moved(w, "run", W)
  /\ UNCHANGED <<queue, queue_closed, shutdown, queue_lock, init, finish, freed,
                 todo, finished>>

TakeJob(w) ==
  /\ CanLock
  /\ pc[w] \in {"top", "woken"}
  /\ cur_queue_size # 0
  /\ ~shutdown
  /\ work' = [work EXCEPT ![w] = Head(queue)]
  /\ queue' = Tail(queue)
  /\ cur_queue_size' = cur_queue_size - 1
  /\ \E W \in WokenByTake : pc' = Moved(w, "run", W)
  /\ UNCHANGED <<queue_closed, shutdown, queue_lock, init, finish, freed,
                 todo, finished>>

\* The handler returns and the list element is freed; no lock is held.
RunJob(w) ==
  /\ pc[w] = "run"
  /\ finished' = finished \cup {work[w]}
  /\ work' = [work EXCEPT ![w] = NoJob]
  /\ pc' = [pc EXCEPT ![w] = "top"]
  /\ UNCHANGED <<queue, cur_queue_size, queue_closed, shutdown, queue_lock,
                 init, finish, freed, todo>>

-----------------------------------------------------------------------------
(* tpool_destroy                                                           *)

CallDestroy(d, f) ==
  /\ init = "ok"
  /\ ~freed
  /\ pc[d] = "idle"
  /\ CallersJoined => /\ \A p \in Producer : pc[p] = "idle"
                      /\ \A e \in Destroyer : pc[e] = "idle"
  /\ pc' = [pc EXCEPT ![d] = "call"]
  /\ finish' = [finish EXCEPT ![d] = f]
  /\ UNCHANGED <<work, queue, cur_queue_size, queue_closed, shutdown,
                 queue_lock, init, freed, todo, finished>>

\* Another call has closed the list already: this one returns 0 at once.
AlreadyClosed(d) ==
  /\ CanLock
  /\ pc[d] = "call"
  /\ queue_closed \/ shutdown
  /\ pc' = [pc EXCEPT ![d] = "done"]
  /\ UNCHANGED <<work, queue, cur_queue_size, queue_closed, shutdown,
                 queue_lock, init, finish, freed, todo, finished>>

\* Slip: the wait for an empty list is an if, not a while.
CloseQueueNoRetest(d) ==
  /\ CanLock
  /\ \/ pc[d] = "call" /\ ~queue_closed /\ ~shutdown
     \/ pc[d] = "woken"
  /\ queue_closed' = TRUE
  /\ IF pc[d] = "call" /\ finish[d] /\ cur_queue_size # 0
       THEN /\ pc' = [pc EXCEPT ![d] = "wait"]
            /\ UNCHANGED shutdown
       ELSE /\ pc' = [pc EXCEPT ![d] = "bcast_not_empty"]
            /\ shutdown' = TRUE
  /\ UNCHANGED <<work, queue, cur_queue_size, queue_lock, init, finish, freed,
                 todo, finished>>

\* Slip: no test for a list that somebody else has closed.
CloseQueueTwice(d) ==
  /\ CanLock
  /\ pc[d] \in {"call", "woken"}
  /\ queue_closed' = TRUE
  /\ IF finish[d] /\ cur_queue_size # 0
       THEN /\ pc' = [pc EXCEPT ![d] = "wait"]
            /\ UNCHANGED shutdown
       ELSE /\ pc' = [pc EXCEPT ![d] = "bcast_not_empty"]
            /\ shutdown' = TRUE
  /\ UNCHANGED <<work, queue, cur_queue_size, queue_lock, init, finish, freed,
                 todo, finished>>

\* Closing on entry and the wait loop for an empty list, then shutdown.
CloseQueue(d) ==
  /\ CanLock
  /\ \/ pc[d] = "call" /\ ~queue_closed /\ ~shutdown
     \/ pc[d] = "woken"
  /\ queue_closed' = TRUE
  /\ IF finish[d] /\ cur_queue_size # 0
       THEN /\ pc' = [pc EXCEPT ![d] = "wait"]
            /\ UNCHANGED shutdown
       ELSE /\ pc' = [pc EXCEPT ![d] = "bcast_not_empty"]
            /\ shutdown' = TRUE
  /\ UNCHANGED <<work, queue, cur_queue_size, queue_lock, init, finish, freed,
                 todo, finished>>

\* Slip: a signal, which wakes one thread, for the broadcast.
SignalNotEmpty(d) ==
  /\ pc[d] = "bcast_not_empty"
  /\ \E S \in SignalSets(Asleep(Worker)) : pc' = Moved(d, "bcast_not_full", S)
  /\ UNCHANGED <<work, queue, cur_queue_size, queue_closed, shutdown,
                 queue_lock, init, finish, freed, todo, finished>>

\* The two broadcasts come after the unlock.
BroadcastNotEmpty(d) ==
  /\ pc[d] = "bcast_not_empty"
  /\ pc' = Moved(d, "bcast_not_full", Asleep(Worker))
  /\ UNCHANGED <<work, queue, cur_queue_size, queue_closed, shutdown,
                 queue_lock, init, finish, freed, todo, finished>>

BroadcastNotFull(d) ==
  /\ pc[d] = "bcast_not_full"
  /\ pc' = Moved(d, "join", Asleep(Producer))
  /\ UNCHANGED <<work, queue, cur_queue_size, queue_closed, shutdown,
                 queue_lock, init, finish, freed, todo, finished>>

\* Slip: one thread is joined, not all of them.
JoinOneThread(d) ==
  /\ pc[d] = "join"
  /\ \E w \in Worker : pc[w] = "exit"
  /\ pc' = [pc EXCEPT ![d] = "free"]
  /\ UNCHANGED <<work, queue, cur_queue_size, queue_closed, shutdown,
                 queue_lock, init, finish, freed, todo, finished>>

JoinThreads(d) ==
  /\ pc[d] = "join"
  /\ \A w \in Worker : pc[w] = "exit"
  /\ pc' = [pc EXCEPT ![d] = "free"]
  /\ UNCHANGED <<work, queue, cur_queue_size, queue_closed, shutdown,
                 queue_lock, init, finish, freed, todo, finished>>

\* The loop frees the element after the head and then makes it the head: with
\* two elements or more it reads an element it has freed, and what follows is
\* undefined ("ub").
FreePool(d) ==
  /\ pc[d] = "free"
  /\ \/ pc' = [pc EXCEPT ![d] = "done"] /\ freed' = TRUE
     \/ Len(queue) > 1 /\ pc' = [pc EXCEPT ![d] = "ub"] /\ UNCHANGED freed
  /\ UNCHANGED <<work, queue, cur_queue_size, queue_closed, shutdown,
                 queue_lock, init, finish, todo, finished>>

-----------------------------------------------------------------------------
\* A thread that is still inside one of the functions when the pool is freed
\* locks, tests or waits on memory that is gone.
InsidePool(t) ==
  \/ t \in Worker /\ pc[t] \in {"top", "wait", "woken"}
  \/ t \in Producer \cup Destroyer /\ pc[t] \notin {"idle", "done", "ub"}

UseFreedPool(t) ==
  /\ freed
  /\ InsidePool(t)
  /\ pc' = [pc EXCEPT ![t] = "ub"]
  /\ UNCHANGED <<work, queue, cur_queue_size, queue_closed, shutdown,
                 queue_lock, init, finish, freed, todo, finished>>

\* POSIX lets pthread_cond_wait return with no signal.
SpuriousWakeup(t) ==
  /\ pc[t] = "wait"
  /\ pc' = [pc EXCEPT ![t] = "woken"]
  /\ UNCHANGED <<work, queue, cur_queue_size, queue_closed, shutdown,
                 queue_lock, init, finish, freed, todo, finished>>

-----------------------------------------------------------------------------
ProducerStep(p) ==
  \/ AddWorkReturnsError(p)
  \/ AddWorkWaits(p)
  \/ Enqueue(p)
  \/ AddWorkMallocFails(p)

WorkerStep(w) ==
  \/ WorkerSleeps(w)
  \/ WorkerExits(w)
  \/ TakeJob(w)
  \/ RunJob(w)

DestroyerStep(d) ==
  \/ AlreadyClosed(d)
  \/ CloseQueue(d)
  \/ BroadcastNotEmpty(d)
  \/ BroadcastNotFull(d)
  \/ JoinThreads(d)
  \/ FreePool(d)

Next ==
  \/ \E w \in Worker : CreateThread(w) \/ WorkerStep(w)
  \/ CreateFails
  \/ \E p \in Producer : ProducerStep(p) \/ \E j \in Job : CallAddWork(p, j)
  \/ \E d \in Destroyer : DestroyerStep(d) \/ \E f \in FinishArgs : CallDestroy(d, f)
  \/ \E t \in Thread : UseFreedPool(t) \/ SpuriousWakeup(t)

SafeSpec == Init /\ [][Next]_vars

\* A thread that can go on does: it gets the processor and, in its turn, the
\* mutex, and a handler returns.  Callers need not call and nobody is owed a
\* spurious wakeup.
Fairness ==
  /\ \A w \in Worker : WF_vars(WorkerStep(w))
  /\ \A p \in Producer : WF_vars(ProducerStep(p))
  /\ \A d \in Destroyer : WF_vars(DestroyerStep(d))

Spec == SafeSpec /\ Fairness

-----------------------------------------------------------------------------
(* What pool.c should guarantee                                            *)

QueuedJobs == {queue[i] : i \in 1..Len(queue)}

\* The count the waits test is the length of the list, and the list keeps to
\* the size given to tpool_init (pool.c:81, 91, 130, 232).
QueueCount ==
  /\ cur_queue_size = Len(queue)
  /\ cur_queue_size <= max_queue_size

\* No thread sleeps through the event it waits for, although a job announces
\* itself only on an empty list (116-124), a removal only from a full or to an
\* empty one (238-241), and tpool_destroy broadcasts after its unlock (182-191).
NoLostWakeup ==
  /\ cur_queue_size # 0 => Asleep(Worker) = {}
  /\ ~Full => Asleep(Producer) = {}
  /\ cur_queue_size = 0 => Asleep(Destroyer) = {}
  /\ shutdown /\ Asleep(Worker) # {} =>
       \E d \in Destroyer : pc[d] = "bcast_not_empty"
  /\ shutdown /\ Asleep(Producer) # {} =>
       \E d \in Destroyer : pc[d] \in {"bcast_not_empty", "bcast_not_full"}

\* However many threads call tpool_destroy, one of them shuts the pool down
\* (151-161): the frees at its end happen once.
Closing(d) == pc[d] \notin {"idle", "call", "done", "ub"}
OneCloser ==
  /\ \A d, e \in Destroyer : Closing(d) /\ Closing(e) => d = e
  /\ freed => \A d \in Destroyer : ~Closing(d)

\* A job is in one place at a time: not submitted, with the caller, in the
\* list once, with one thread, or finished.  No element is run twice or given
\* to two threads (231-243).
JobInOnePlace ==
  /\ \A i, k \in 1..Len(queue) : queue[i] = queue[k] => i = k
  /\ \A s, t \in Worker \cup Producer :
       work[s] = work[t] /\ work[s] # NoJob => s = t
  /\ QueuedJobs \cap (todo \cup finished) = {}
  /\ todo \cap finished = {}
  /\ \A t \in Worker \cup Producer :
       work[t] \notin todo \cup finished \cup QueuedJobs

\* When tpool_destroy gets to its frees (201-208) every thread has left, and
\* with finish = 1 every job that was accepted has been run.
DrainedBeforeFree ==
  \A d \in Destroyer : pc[d] = "free" =>
    /\ \A w \in Worker : pc[w] = "exit" /\ work[w] = NoJob
    /\ finish[d] => queue = <<>>

\* Nobody is left inside a pool that has been freed, and the free loop reads no
\* element it has freed (202-208).
NoUseAfterFree == \A t \in Thread : pc[t] # "ub"

\* Every accepted job is run, unless a failed malloc has left the mutex locked.
AcceptedJobsRun ==
  \A j \in Job :
    (j \in QueuedJobs) ~> (j \in finished \/ queue_lock # NoThread)

\* tpool_destroy returns: all threads are woken and leave (162-199).
DestroyReturns ==
  \A d \in Destroyer : (pc[d] = "call") ~> (pc[d] \in {"done", "ub"})

\* A caller that waits for room is woken by room or by the shutdown (91-107),
\* unless the pool is freed under it.
AddWorkReturns ==
  \A p \in Producer : (pc[p] = "call") ~> (pc[p] = "idle" \/ freed)

-----------------------------------------------------------------------------
(* The pool implements WorkPool.                                           *)

WP == INSTANCE WorkPool WITH
        Capacity <- max_queue_size,
        Drain    <- FALSE \notin FinishArgs,
        pending  <- queue,
        running  <- [w \in Worker |-> work[w]],
        phase    <- IF shutdown THEN "down"
                    ELSE IF queue_closed THEN "closed" ELSE "open"

\* Seen through the list, the threads' jobs and the two flags, every step of
\* pool.c is one of WorkPool's or none, and the threads are as live.
ImplementsWorkPool == WP!Spec

\* The same without liveness, which a failed malloc takes away.
ImplementsSafeWorkPool == WP!SafeSpec
=============================================================================
