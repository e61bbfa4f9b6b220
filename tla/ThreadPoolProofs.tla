-------------------------- MODULE ThreadPoolProofs --------------------------
(***************************************************************************)
(* Theorems about ThreadPool for any number of threads, jobs and any list   *)
(* size.  Inv1 is what makes the model well typed; Inv2, on top of it, says *)
(* where each kind of thread may be while the two flags and the list are    *)
(* in a given state; the refinement uses Inv1 only.                        *)
(***************************************************************************)
EXTENDS ThreadPool, SequenceTheorems, TLAPS

\* A worker holds a job exactly while it runs it; a producer that has not
\* returned holds the one it was called with.
WorkInv ==
  /\ \A w \in Worker : (work[w] = NoJob) <=> (pc[w] # "run")
  /\ \A p \in Producer : pc[p] \in {"call", "wait", "woken"} => work[p] \in Job

Inv1 == TypeOK /\ QueueCount /\ WorkInv

\* The pool's own threads have left before it is freed.
WorkersGone == freed => \A w \in Worker : pc[w] = "exit"

\* At most one call of tpool_destroy is past its first test; from its shutdown
\* on nothing is added and no thread falls asleep; once it has joined the
\* threads they stay away.  A pool that refuses has no producer that waits.
CloserInv ==
  /\ OneCloser
  /\ shutdown => queue_closed
  /\ \A d \in Destroyer :
       /\ Closing(d) => queue_closed
       /\ pc[d] \in {"bcast_not_empty", "bcast_not_full", "join", "free"} =>
            shutdown /\ (finish[d] => cur_queue_size = 0)
       /\ pc[d] = "free" => \A w \in Worker : pc[w] = "exit"
  /\ freed => shutdown
  /\ WorkersGone
  /\ do_not_block_when_full => \A p \in Producer : pc[p] \notin {"wait", "woken"}
  /\ \A d \in Destroyer : pc[d] # "idle" => finish[d] \in FinishArgs

Inv2 == Inv1 /\ NoLostWakeup /\ CloserInv

-----------------------------------------------------------------------------
\* The set TakeJob wakes holds sleeping producers and destroyers only.
LEMMA WokenAreAsleep ==
  ASSUME NEW W \in WokenByTake
  PROVE  W \subseteq Asleep(Producer) \cup Asleep(Destroyer)
BY DEF WokenByTake, SignalSets

\* Taking the head of a list that is not empty leaves a list one shorter.
LEMMA TailOfQueue ==
  ASSUME NEW q \in Seq(Job), q # <<>>
  PROVE  /\ Len(q) \in Nat \ {0}
         /\ Head(q) \in Job
         /\ Tail(q) \in Seq(Job)
         /\ Len(Tail(q)) = Len(q) - 1
BY HeadTailProperties, EmptySeq, LenProperties

-----------------------------------------------------------------------------
(* Inv1 is inductive.                                                      *)

LEMMA Inv1Init == Init => Inv1
<1> SUFFICES ASSUME Init PROVE Inv1
  OBVIOUS
<1>1. TypeOK
  <2>1. queue \in Seq(Job)
    BY EmptySeq DEF Init
  <2> QED
    BY <2>1, ThreadsDistinct DEF Init, TypeOK, Thread, WorkerPC, ProducerPC, DestroyerPC
<1>2. QueueCount
  BY SizeAssumption, EmptySeq DEF Init, QueueCount
<1>3. WorkInv
  BY ThreadsDistinct DEF Init, WorkInv, Thread
<1> QED
  BY <1>1, <1>2, <1>3 DEF Inv1

LEMMA Inv1Next == Inv1 /\ [Next]_vars => Inv1'
<1> SUFFICES ASSUME Inv1, [Next]_vars PROVE Inv1'
  OBVIOUS
<1> USE ThreadsDistinct, NoJobIsNoJob, SizeAssumption
    DEF Inv1, TypeOK, QueueCount, WorkInv, Thread, WorkerPC, ProducerPC, DestroyerPC
<1>1. ASSUME NEW w \in Worker, CreateThread(w) PROVE Inv1'
  BY <1>1 DEF CreateThread
<1>2. CASE CreateFails
  BY <1>2 DEF CreateFails
<1>3. ASSUME NEW p \in Producer, NEW j \in Job, CallAddWork(p, j) PROVE Inv1'
  BY <1>3 DEF CallAddWork
<1>4. ASSUME NEW p \in Producer, AddWorkReturnsError(p) PROVE Inv1'
  BY <1>4 DEF AddWorkReturnsError
<1>5. ASSUME NEW p \in Producer, AddWorkWaits(p) PROVE Inv1'
  BY <1>5 DEF AddWorkWaits
<1>6. ASSUME NEW p \in Producer, Enqueue(p) PROVE Inv1'
  BY <1>6 DEF Enqueue, Moved, Asleep, Full
<1>7. ASSUME NEW p \in Producer, AddWorkMallocFails(p) PROVE Inv1'
  BY <1>7 DEF AddWorkMallocFails
<1>8. ASSUME NEW w \in Worker, WorkerSleeps(w) PROVE Inv1'
  BY <1>8 DEF WorkerSleeps
<1>9. ASSUME NEW w \in Worker, WorkerExits(w) PROVE Inv1'
  BY <1>9 DEF WorkerExits
<1>10. ASSUME NEW w \in Worker, TakeJob(w) PROVE Inv1'
  BY <1>10, TailOfQueue, WokenAreAsleep DEF TakeJob, Moved, Asleep
<1>11. ASSUME NEW w \in Worker, RunJob(w) PROVE Inv1'
  BY <1>11 DEF RunJob
<1>12. ASSUME NEW d \in Destroyer, NEW f \in FinishArgs, CallDestroy(d, f) PROVE Inv1'
  BY <1>12, FlagAssumption DEF CallDestroy
<1>13. ASSUME NEW d \in Destroyer, AlreadyClosed(d) PROVE Inv1'
  BY <1>13 DEF AlreadyClosed
<1>14. ASSUME NEW d \in Destroyer, CloseQueue(d) PROVE Inv1'
  <2>1. CASE finish[d] /\ cur_queue_size # 0
    BY <1>14, <2>1 DEF CloseQueue
  <2>2. CASE ~(finish[d] /\ cur_queue_size # 0)
    BY ZenonT(40), <1>14, <2>2 DEF CloseQueue
  <2> QED
    BY <2>1, <2>2
<1>15. ASSUME NEW d \in Destroyer, BroadcastNotEmpty(d) PROVE Inv1'
  BY <1>15 DEF BroadcastNotEmpty, Moved, Asleep
<1>16. ASSUME NEW d \in Destroyer, BroadcastNotFull(d) PROVE Inv1'
  BY <1>16 DEF BroadcastNotFull, Moved, Asleep
<1>17. ASSUME NEW d \in Destroyer, JoinThreads(d) PROVE Inv1'
  BY <1>17 DEF JoinThreads
<1>18. ASSUME NEW d \in Destroyer, FreePool(d) PROVE Inv1'
  BY <1>18 DEF FreePool
<1>19. ASSUME NEW t \in Thread, UseFreedPool(t) PROVE Inv1'
  BY <1>19 DEF UseFreedPool, InsidePool
<1>20. ASSUME NEW t \in Thread, SpuriousWakeup(t) PROVE Inv1'
  BY <1>20 DEF SpuriousWakeup
<1>21. CASE UNCHANGED vars
  BY <1>21 DEF vars
<1> QED
  BY <1>1, <1>2, <1>3, <1>4, <1>5, <1>6, <1>7, <1>8, <1>9, <1>10, <1>11, <1>12,
     <1>13, <1>14, <1>15, <1>16, <1>17, <1>18, <1>19, <1>20, <1>21
     DEF Next, ProducerStep, WorkerStep, DestroyerStep

-----------------------------------------------------------------------------
(* Inv2 is inductive.                                                      *)

LEMMA Inv2Init == Init => Inv2
BY Inv1Init, ThreadsDistinct
   DEF Init, Inv2, NoLostWakeup, CloserInv, OneCloser, Closing,
       WorkersGone, Asleep, Thread

LEMMA Inv2Next == Inv2 /\ [Next]_vars => Inv2'
<1> SUFFICES ASSUME Inv2, [Next]_vars PROVE NoLostWakeup' /\ CloserInv'
  BY Inv1Next DEF Inv2
<1>a. Inv1'
  BY Inv1Next DEF Inv2
<1> USE ThreadsDistinct, SizeAssumption
    DEF Inv2, Inv1, TypeOK, QueueCount, Thread, WorkerPC, ProducerPC, DestroyerPC,
        NoLostWakeup, CloserInv, OneCloser, Closing, WorkersGone, Asleep,
        Full
<1> DEFINE Goal == NoLostWakeup /\ CloserInv
<1>1. ASSUME NEW w \in Worker, CreateThread(w) PROVE Goal'
  <2>1. NoLostWakeup'
    BY <1>1 DEF CreateThread
  <2>2. CloserInv'
    BY <1>1 DEF CreateThread
  <2> QED
    BY <2>1, <2>2
<1>2. CASE CreateFails
  <2>1. NoLostWakeup'
    BY <1>2 DEF CreateFails
  <2>2. CloserInv'
    BY <1>2 DEF CreateFails
  <2> QED
    BY <2>1, <2>2
<1>3. ASSUME NEW p \in Producer, NEW j \in Job, CallAddWork(p, j) PROVE Goal'
  <2>1. NoLostWakeup'
    BY <1>3 DEF CallAddWork
  <2>2. CloserInv'
    BY <1>3 DEF CallAddWork
  <2> QED
    BY <2>1, <2>2
<1>4. ASSUME NEW p \in Producer, AddWorkReturnsError(p) PROVE Goal'
  <2>1. NoLostWakeup'
    BY <1>4 DEF AddWorkReturnsError, CanLock
  <2>2. CloserInv'
    BY <1>4 DEF AddWorkReturnsError, CanLock
  <2> QED
    BY <2>1, <2>2
<1>5. ASSUME NEW p \in Producer, AddWorkWaits(p) PROVE Goal'
  <2>1. NoLostWakeup'
    BY <1>5 DEF AddWorkWaits, CanLock, Refused, Full
  <2>2. CloserInv'
    BY <1>5 DEF AddWorkWaits, CanLock, Refused, Full
  <2> QED
    BY <2>1, <2>2
<1>6. ASSUME NEW p \in Producer, Enqueue(p) PROVE Goal'
  <2>1. NoLostWakeup'
    BY <1>6 DEF Enqueue, CanLock, Refused, Full, Moved
  <2>2. CloserInv'
    BY <1>6 DEF Enqueue, CanLock, Refused, Full, Moved
  <2> QED
    BY <2>1, <2>2
<1>7. ASSUME NEW p \in Producer, AddWorkMallocFails(p) PROVE Goal'
  <2>1. NoLostWakeup'
    BY <1>7 DEF AddWorkMallocFails, CanLock
  <2>2. CloserInv'
    BY <1>7 DEF AddWorkMallocFails, CanLock
  <2> QED
    BY <2>1, <2>2
<1>8. ASSUME NEW w \in Worker, WorkerSleeps(w) PROVE Goal'
  <2>1. NoLostWakeup'
    BY <1>8 DEF WorkerSleeps, CanLock
  <2>2. CloserInv'
    BY <1>8 DEF WorkerSleeps, CanLock
  <2> QED
    BY <2>1, <2>2
<1>9. ASSUME NEW w \in Worker, WorkerExits(w) PROVE Goal'
  <2>1. NoLostWakeup'
    BY <1>9 DEF WorkerExits, CanLock
  <2>2. CloserInv'
    BY <1>9 DEF WorkerExits, CanLock
  <2> QED
    BY <2>1, <2>2
<1>10. ASSUME NEW w \in Worker, TakeJob(w) PROVE Goal'
  <2> PICK W \in WokenByTake : pc' = Moved(w, "run", W)
    BY <1>10 DEF TakeJob
  <2>1. W \subseteq Asleep(Producer) \cup Asleep(Destroyer)
    BY WokenAreAsleep
  <2>2. /\ pc'[w] = "run"
        /\ \A x \in Thread : x # w => pc'[x] = IF x \in W THEN "woken" ELSE pc[x]
    BY DEF Moved
  <2>3. /\ cur_queue_size' = cur_queue_size - 1
        /\ cur_queue_size # 0
        /\ UNCHANGED <<queue_closed, shutdown, finish, freed>>
        /\ ~shutdown
        /\ ~freed
    BY <1>10 DEF TakeJob, CanLock
  <2>4. ~Full' => Asleep(Producer)' = {}
    <3>1. CASE Full /\ ~do_not_block_when_full
      <4>1. Asleep(Producer) \subseteq W
        BY <3>1 DEF WokenByTake
      <4> QED
        BY <4>1, <2>2
    <3>2. CASE ~Full \/ do_not_block_when_full
      BY <3>2, <2>1, <2>2
    <3> QED
      BY <3>1, <3>2
  <2>5. cur_queue_size' = 0 => Asleep(Destroyer)' = {}
    <3> SUFFICES ASSUME cur_queue_size' = 0 PROVE Asleep(Destroyer)' = {}
      OBVIOUS
    <3>1. Asleep(Destroyer) \subseteq W
      BY <2>3 DEF WokenByTake, SignalSets
    <3> QED
      BY <3>1, <2>2
  <2>6. cur_queue_size' # 0 => Asleep(Worker)' = {}
    BY <2>1, <2>2, <2>3
  <2>7. NoLostWakeup'
    BY <2>3, <2>4, <2>5, <2>6
  <2>8. CloserInv'
    BY <2>1, <2>2, <2>3
  <2> QED
    BY <2>7, <2>8
<1>11. ASSUME NEW w \in Worker, RunJob(w) PROVE Goal'
  <2>1. NoLostWakeup'
    BY <1>11 DEF RunJob
  <2>2. CloserInv'
    BY <1>11 DEF RunJob
  <2> QED
    BY <2>1, <2>2
<1>12. ASSUME NEW d \in Destroyer, NEW f \in FinishArgs, CallDestroy(d, f) PROVE Goal'
  <2>1. NoLostWakeup'
    BY <1>12 DEF CallDestroy
  <2>2. CloserInv'
    BY <1>12 DEF CallDestroy
  <2> QED
    BY <2>1, <2>2
<1>13. ASSUME NEW d \in Destroyer, AlreadyClosed(d) PROVE Goal'
  <2>1. NoLostWakeup'
    BY <1>13 DEF AlreadyClosed, CanLock
  <2>2. CloserInv'
    BY <1>13 DEF AlreadyClosed, CanLock
  <2> QED
    BY <2>1, <2>2
<1>14. ASSUME NEW d \in Destroyer, CloseQueue(d) PROVE Goal'
  <2>1. NoLostWakeup'
    BY <1>14 DEF CloseQueue, CanLock
  <2>2. CloserInv'
    BY <1>14 DEF CloseQueue, CanLock
  <2> QED
    BY <2>1, <2>2
<1>15. ASSUME NEW d \in Destroyer, BroadcastNotEmpty(d) PROVE Goal'
  <2>1. NoLostWakeup'
    BY <1>15 DEF BroadcastNotEmpty, Moved
  <2>2. CloserInv'
    BY <1>15 DEF BroadcastNotEmpty, Moved
  <2> QED
    BY <2>1, <2>2
<1>16. ASSUME NEW d \in Destroyer, BroadcastNotFull(d) PROVE Goal'
  <2>1. NoLostWakeup'
    BY <1>16 DEF BroadcastNotFull, Moved
  <2>2. CloserInv'
    BY <1>16 DEF BroadcastNotFull, Moved
  <2> QED
    BY <2>1, <2>2
<1>17. ASSUME NEW d \in Destroyer, JoinThreads(d) PROVE Goal'
  <2>1. NoLostWakeup'
    BY <1>17 DEF JoinThreads
  <2>2. CloserInv'
    BY <1>17 DEF JoinThreads
  <2> QED
    BY <2>1, <2>2
<1>18. ASSUME NEW d \in Destroyer, FreePool(d) PROVE Goal'
  <2>1. NoLostWakeup'
    BY <1>18 DEF FreePool
  <2>2. CloserInv'
    BY <1>18 DEF FreePool
  <2> QED
    BY <2>1, <2>2
<1>19. ASSUME NEW t \in Thread, UseFreedPool(t) PROVE Goal'
  <2>1. NoLostWakeup'
    BY <1>19 DEF UseFreedPool, InsidePool
  <2>2. CloserInv'
    BY <1>19 DEF UseFreedPool, InsidePool
  <2> QED
    BY <2>1, <2>2
<1>20. ASSUME NEW t \in Thread, SpuriousWakeup(t) PROVE Goal'
  <2>1. NoLostWakeup'
    BY <1>20 DEF SpuriousWakeup
  <2>2. CloserInv'
    BY <1>20 DEF SpuriousWakeup
  <2> QED
    BY <2>1, <2>2
<1>21. CASE UNCHANGED vars
  BY <1>21 DEF vars
<1> QED
  BY <1>1, <1>2, <1>3, <1>4, <1>5, <1>6, <1>7, <1>8, <1>9, <1>10, <1>11, <1>12, <1>13, <1>14, <1>15, <1>16, <1>17, <1>18, <1>19, <1>20, <1>21
     DEF Next, ProducerStep, WorkerStep, DestroyerStep

-----------------------------------------------------------------------------
(* The safety invariants of the runs, for every pool.                      *)

LEMMA Inv2Always == SafeSpec => []Inv2
BY Inv2Init, Inv2Next, PTL DEF SafeSpec

\* The variables keep their types: tpool_init to tpool_destroy.
THEOREM TypeCorrect == SafeSpec => []TypeOK
BY Inv2Always, PTL DEF Inv2, Inv1

\* cur_queue_size is the length of the list, which never exceeds
\* max_queue_size (pool.c:81, 91, 130, 232).
THEOREM CountIsRight == SafeSpec => []QueueCount
BY Inv2Always, PTL DEF Inv2, Inv1

\* No thread sleeps through the event it waits for (pool.c:91-98, 116-124,
\* 162-191, 222-241), whatever the number of workers, callers and destroyers.
THEOREM WakeupsReach == SafeSpec => []NoLostWakeup
BY Inv2Always, PTL DEF Inv2

\* Of all calls of tpool_destroy one shuts the pool down and frees it
\* (pool.c:151-161, 201-208).
THEOREM CloserIsAlone == SafeSpec => []OneCloser
BY Inv2Always, PTL DEF Inv2, CloserInv

\* tpool_destroy gets to its frees with every thread gone and, with finish = 1,
\* with no job left in the list (pool.c:162-173, 192-202).
THEOREM DestroyDrains == SafeSpec => []DrainedBeforeFree
<1>1. Inv2 => DrainedBeforeFree
  <2> SUFFICES ASSUME Inv2, NEW d \in Destroyer, pc[d] = "free"
               PROVE  /\ \A w \in Worker : pc[w] = "exit" /\ work[w] = NoJob
                      /\ finish[d] => queue = <<>>
    BY DEF DrainedBeforeFree
  <2>1. \A w \in Worker : pc[w] = "exit"
    BY DEF Inv2, CloserInv
  <2>2. \A w \in Worker : work[w] = NoJob
    BY <2>1 DEF Inv2, Inv1, WorkInv
  <2>3. finish[d] => queue = <<>>
    BY EmptySeq DEF Inv2, Inv1, TypeOK, QueueCount, CloserInv
  <2> QED
    BY <2>1, <2>2, <2>3
<1> QED
  BY <1>1, Inv2Always, PTL

-----------------------------------------------------------------------------
(* No job is in two places.                                                 *)

LEMMA OnePlaceNext == Inv2 /\ JobInOnePlace /\ [Next]_vars => JobInOnePlace'
<1> SUFFICES ASSUME Inv2, JobInOnePlace, [Next]_vars PROVE JobInOnePlace'
  OBVIOUS
<1> USE ThreadsDistinct, NoJobIsNoJob
    DEF Inv2, Inv1, TypeOK, WorkInv, JobInOnePlace, QueuedJobs
<1>0. ASSUME UNCHANGED <<work, queue, todo, finished>> PROVE JobInOnePlace'
  BY <1>0
<1>1. ASSUME NEW p \in Producer, NEW j \in Job, CallAddWork(p, j) PROVE JobInOnePlace'
  BY <1>1 DEF CallAddWork
<1>2. ASSUME NEW p \in Producer, AddWorkReturnsError(p) \/ AddWorkMallocFails(p)
      PROVE  JobInOnePlace'
  <2>1. UNCHANGED <<queue, todo, finished>> /\ work' = [work EXCEPT ![p] = NoJob]
    BY <1>2 DEF AddWorkReturnsError, AddWorkMallocFails
  <2> QED
    BY <2>1, ElementOfSeq
<1>3. ASSUME NEW p \in Producer, Enqueue(p) PROVE JobInOnePlace'
  <2>1. /\ queue' = Append(queue, work[p])
        /\ work' = [work EXCEPT ![p] = NoJob]
        /\ UNCHANGED <<todo, finished>>
        /\ work[p] \in Job
    BY <1>3 DEF Enqueue
  <2>2. /\ Len(queue') = Len(queue) + 1
        /\ Len(queue) \in Nat
        /\ queue'[Len(queue) + 1] = work[p]
        /\ \A i \in 1..Len(queue) : queue'[i] = queue[i]
    BY <2>1, LenProperties, AppendProperties
  <2>3. \A i \in 1..Len(queue) : queue[i] \in Job
    BY ElementOfSeq
  <2>4. QueuedJobs' = QueuedJobs \cup {work[p]}
    <3>1. 1..Len(queue') = 1..Len(queue) \cup {Len(queue) + 1}
      BY <2>2
    <3> QED
      BY <2>2, <3>1
  <2>5. \A i, k \in 1..Len(queue') : queue'[i] = queue'[k] => i = k
    BY <2>2
  <2> QED
    BY <2>1, <2>3, <2>4, <2>5
<1>4. ASSUME NEW w \in Worker, TakeJob(w) PROVE JobInOnePlace'
  <2>1. /\ queue # <<>>
        /\ queue' = Tail(queue)
        /\ work' = [work EXCEPT ![w] = Head(queue)]
        /\ UNCHANGED <<todo, finished>>
    BY <1>4, EmptySeq DEF TakeJob, QueueCount
  <2>2. /\ Len(queue) \in Nat \ {0}
        /\ Len(queue') = Len(queue) - 1
        /\ Head(queue) = queue[1]
        /\ \A i \in 1..Len(queue) - 1 : queue'[i] = queue[i + 1]
    BY <2>1, TailOfQueue
  <2>3. \A i \in 1..Len(queue) : queue[i] \in Job
    BY ElementOfSeq
  <2>4. QueuedJobs' = QueuedJobs \ {Head(queue)}
    <3>1. ASSUME NEW i \in 1..Len(queue')
          PROVE  queue'[i] \in QueuedJobs /\ queue'[i] # Head(queue)
      <4>1. i + 1 \in 1..Len(queue) /\ queue'[i] = queue[i + 1] /\ 1 \in 1..Len(queue)
        BY <2>2
      <4> QED
        BY <4>1, <2>2
    <3>2. ASSUME NEW x \in QueuedJobs, x # Head(queue) PROVE x \in QueuedJobs'
      <4> PICK i \in 1..Len(queue) : x = queue[i]
        OBVIOUS
      <4>1. i - 1 \in 1..Len(queue) - 1 /\ queue'[i - 1] = x
        BY <2>2, <3>2
      <4> QED
        BY <4>1, <2>2
    <3>3. QueuedJobs' \subseteq QueuedJobs \ {Head(queue)}
      BY <3>1
    <3>4. QueuedJobs \ {Head(queue)} \subseteq QueuedJobs'
      BY <3>2
    <3> HIDE DEF QueuedJobs
    <3> QED
      BY <3>3, <3>4
  <2>5. \A i, k \in 1..Len(queue') : queue'[i] = queue'[k] => i = k
    BY <2>2
  <2>6. Head(queue) \in QueuedJobs
    BY <2>2
  <2> QED
    BY <2>1, <2>3, <2>4, <2>5, <2>6
<1>5. ASSUME NEW w \in Worker, RunJob(w) PROVE JobInOnePlace'
  <2>1. /\ finished' = finished \cup {work[w]}
        /\ work' = [work EXCEPT ![w] = NoJob]
        /\ UNCHANGED <<queue, todo>>
        /\ work[w] \in Job
    BY <1>5 DEF RunJob
  <2>2. \A i \in 1..Len(queue) : queue[i] \in Job
    BY ElementOfSeq
  <2>3. QueuedJobs' = QueuedJobs
    BY <2>1
  <2> QED
    BY <2>1, <2>2, <2>3
<1>6. ASSUME NEW w \in Worker, CreateThread(w) \/ WorkerSleeps(w) \/ WorkerExits(w)
      PROVE  JobInOnePlace'
  BY <1>0, <1>6 DEF CreateThread, WorkerSleeps, WorkerExits
<1>7. ASSUME NEW p \in Producer, AddWorkWaits(p) PROVE JobInOnePlace'
  BY <1>0, <1>7 DEF AddWorkWaits
<1>8. ASSUME NEW d \in Destroyer,
             DestroyerStep(d) \/ \E f \in FinishArgs : CallDestroy(d, f)
      PROVE  JobInOnePlace'
  BY <1>0, <1>8 DEF DestroyerStep, CallDestroy, AlreadyClosed, CloseQueue,
                    BroadcastNotEmpty, BroadcastNotFull, JoinThreads, FreePool
<1>9. ASSUME NEW t \in Thread, UseFreedPool(t) \/ SpuriousWakeup(t)
      PROVE  JobInOnePlace'
  BY <1>0, <1>9 DEF UseFreedPool, SpuriousWakeup
<1>10. CASE CreateFails \/ UNCHANGED vars
  BY <1>0, <1>10 DEF CreateFails, vars
<1> QED
  BY <1>1, <1>2, <1>3, <1>4, <1>5, <1>6, <1>7, <1>8, <1>9, <1>10
     DEF Next, ProducerStep, WorkerStep

\* No job is run twice, given to two threads or listed twice (pool.c:113-130,
\* 231-244).
THEOREM JobsStayApart == SafeSpec => []JobInOnePlace
<1>1. Init => JobInOnePlace
  <2> SUFFICES ASSUME Init PROVE JobInOnePlace
    OBVIOUS
  <2>1. Len(queue) = 0
    BY EmptySeq DEF Init
  <2> QED
    BY <2>1, NoJobIsNoJob DEF Init, JobInOnePlace, QueuedJobs
<1> QED
  BY <1>1, OnePlaceNext, Inv2Always, PTL DEF SafeSpec

-----------------------------------------------------------------------------
(* Callers that are stopped first never meet a freed pool.                  *)

\* While a tpool_destroy call exists it is the only one and no producer is
\* inside; the pool is freed by that call's last step.
AloneInv ==
  /\ NoUseAfterFree
  /\ \A d, e \in Destroyer : pc[d] # "idle" /\ pc[e] # "idle" => d = e
  /\ (\E d \in Destroyer : pc[d] # "idle") => \A p \in Producer : pc[p] = "idle"
  /\ freed => \E d \in Destroyer : pc[d] = "done"

LEMMA AloneNext ==
  ASSUME CallersJoined, FinishArgs = {TRUE}
  PROVE  Inv2 /\ AloneInv /\ [Next]_vars => AloneInv'
<1> SUFFICES ASSUME Inv2, AloneInv, [Next]_vars PROVE AloneInv'
  OBVIOUS
<1> USE ThreadsDistinct
    DEF Inv2, Inv1, TypeOK, QueueCount, Thread, WorkerPC, ProducerPC, DestroyerPC,
        CloserInv, OneCloser, Closing, WorkersGone, Asleep,
        AloneInv, NoUseAfterFree
<1>1. ASSUME NEW w \in Worker, CreateThread(w) PROVE AloneInv'
  BY <1>1 DEF CreateThread
<1>2. CASE CreateFails
  BY <1>2 DEF CreateFails
<1>3. ASSUME NEW p \in Producer, NEW j \in Job, CallAddWork(p, j) PROVE AloneInv'
  BY <1>3 DEF CallAddWork
<1>4. ASSUME NEW p \in Producer, AddWorkReturnsError(p) PROVE AloneInv'
  BY <1>4 DEF AddWorkReturnsError, CanLock
<1>5. ASSUME NEW p \in Producer, AddWorkWaits(p) PROVE AloneInv'
  BY <1>5 DEF AddWorkWaits, CanLock
<1>6. ASSUME NEW p \in Producer, Enqueue(p) PROVE AloneInv'
  BY <1>6 DEF Enqueue, CanLock, Moved
<1>7. ASSUME NEW p \in Producer, AddWorkMallocFails(p) PROVE AloneInv'
  BY <1>7 DEF AddWorkMallocFails, CanLock
<1>8. ASSUME NEW w \in Worker, WorkerSleeps(w) PROVE AloneInv'
  BY <1>8 DEF WorkerSleeps, CanLock
<1>9. ASSUME NEW w \in Worker, WorkerExits(w) PROVE AloneInv'
  BY <1>9 DEF WorkerExits, CanLock
<1>10. ASSUME NEW w \in Worker, TakeJob(w) PROVE AloneInv'
  <2> PICK W \in WokenByTake : pc' = Moved(w, "run", W)
    BY <1>10 DEF TakeJob
  <2>1. /\ pc'[w] = "run"
        /\ \A x \in Thread : x # w => pc'[x] = IF x \in W THEN "woken" ELSE pc[x]
        /\ \A x \in W : pc[x] = "wait"
        /\ ~freed'
    BY <1>10, WokenAreAsleep DEF Moved, TakeJob, CanLock
  <2> QED
    BY <2>1
<1>11. ASSUME NEW w \in Worker, RunJob(w) PROVE AloneInv'
  BY <1>11 DEF RunJob
<1>12. ASSUME NEW d \in Destroyer, NEW f \in FinishArgs, CallDestroy(d, f) PROVE AloneInv'
  BY <1>12 DEF CallDestroy
<1>13. ASSUME NEW d \in Destroyer, AlreadyClosed(d) PROVE AloneInv'
  BY <1>13 DEF AlreadyClosed, CanLock
<1>14. ASSUME NEW d \in Destroyer, CloseQueue(d) PROVE AloneInv'
  BY <1>14 DEF CloseQueue, CanLock
<1>15. ASSUME NEW d \in Destroyer, BroadcastNotEmpty(d) PROVE AloneInv'
  BY <1>15 DEF BroadcastNotEmpty, Moved
<1>16. ASSUME NEW d \in Destroyer, BroadcastNotFull(d) PROVE AloneInv'
  BY <1>16 DEF BroadcastNotFull, Moved
<1>17. ASSUME NEW d \in Destroyer, JoinThreads(d) PROVE AloneInv'
  BY <1>17 DEF JoinThreads
<1>18. ASSUME NEW d \in Destroyer, FreePool(d) PROVE AloneInv'
  <2>1. finish[d] /\ pc[d] = "free"
    BY <1>18 DEF FreePool
  <2>2. Len(queue) = 0
    BY <2>1
  <2>3. pc' = [pc EXCEPT ![d] = "done"]
    BY <1>18, <2>2 DEF FreePool
  <2> QED
    BY <1>18, <2>3 DEF FreePool
<1>19. ASSUME NEW t \in Thread, UseFreedPool(t) PROVE AloneInv'
  BY <1>19 DEF UseFreedPool, InsidePool
<1>20. ASSUME NEW t \in Thread, SpuriousWakeup(t) PROVE AloneInv'
  BY <1>20 DEF SpuriousWakeup
<1>21. CASE UNCHANGED vars
  BY <1>21 DEF vars
<1> QED
  BY <1>1, <1>2, <1>3, <1>4, <1>5, <1>6, <1>7, <1>8, <1>9, <1>10,
     <1>11, <1>12, <1>13, <1>14, <1>15, <1>16, <1>17, <1>18, <1>19, <1>20, <1>21
     DEF Next, ProducerStep, WorkerStep, DestroyerStep

\* With callers that are stopped before one tpool_destroy(pool, 1), as in main,
\* no thread ever touches the pool after the free (pool.c:201-208).
THEOREM MainNeverUsesFreedPool ==
  ASSUME CallersJoined, FinishArgs = {TRUE}
  PROVE  SafeSpec => []NoUseAfterFree
<1>1. Init => AloneInv
  BY ThreadsDistinct DEF Init, AloneInv, NoUseAfterFree, Thread
<1>2. Inv2 /\ AloneInv /\ [Next]_vars => AloneInv'
  BY AloneNext
<1>3. AloneInv => NoUseAfterFree
  BY DEF AloneInv
<1> QED
  BY <1>1, <1>2, <1>3, Inv2Always, PTL DEF SafeSpec

-----------------------------------------------------------------------------
(* The pool implements WorkPool.                                           *)

LEMMA StepIsAbstractStep == Inv2 /\ [Next]_vars => [WP!Next]_WP!vars
<1> SUFFICES ASSUME Inv2, [Next]_vars PROVE [WP!Next]_WP!vars
  OBVIOUS
<1> USE ThreadsDistinct, NoJobIsNoJob DEF Inv2, Inv1, TypeOK, WP!vars
<1>1. ASSUME NEW p \in Producer, Enqueue(p) PROVE WP!Submit(work[p])
  <2>1. work[p] \in Job /\ queue' = Append(queue, work[p])
    BY <1>1 DEF Enqueue, WorkInv
  <2>2. ~shutdown /\ ~queue_closed /\ UNCHANGED <<shutdown, queue_closed, finished>>
    BY <1>1 DEF Enqueue, Refused
  <2>3. Len(queue) < max_queue_size
    BY <1>1, SizeAssumption DEF Enqueue, Full, QueueCount
  <2>4. [w \in Worker |-> work[w]]' = [w \in Worker |-> work[w]]
    BY <1>1 DEF Enqueue
  <2> QED
    BY <2>1, <2>2, <2>3, <2>4 DEF WP!Submit
<1>2. ASSUME NEW w \in Worker, TakeJob(w) PROVE WP!Start(w)
  <2>1. queue # <<>>
    BY <1>2, EmptySeq DEF TakeJob, QueueCount
  <2>2. work[w] = NoJob
    BY <1>2 DEF TakeJob, WorkInv
  <2>3. ~shutdown /\ UNCHANGED <<shutdown, queue_closed, finished>>
    BY <1>2 DEF TakeJob
  <2>4. queue' = Tail(queue) /\ work' = [work EXCEPT ![w] = Head(queue)]
    BY <1>2 DEF TakeJob
  <2>5. [v \in Worker |-> work[v]]'
          = [[v \in Worker |-> work[v]] EXCEPT ![w] = Head(queue)]
    BY <2>4
  <2> QED
    BY <2>1, <2>2, <2>3, <2>4, <2>5 DEF WP!Start
<1>3. ASSUME NEW w \in Worker, RunJob(w) PROVE WP!Finish(w)
  <2>1. work[w] # NoJob
    BY <1>3 DEF RunJob, WorkInv
  <2>2. [v \in Worker |-> work[v]]'
          = [[v \in Worker |-> work[v]] EXCEPT ![w] = NoJob]
    BY <1>3 DEF RunJob
  <2>3. finished' = finished \cup {work[w]} /\ UNCHANGED <<queue, shutdown, queue_closed>>
    BY <1>3 DEF RunJob
  <2> QED
    BY <2>1, <2>2, <2>3 DEF WP!Finish
<1>4. ASSUME NEW d \in Destroyer, CloseQueue(d)
      PROVE  WP!Close \/ WP!ShutDown \/ UNCHANGED WP!vars
  <2>1. UNCHANGED <<queue, work, finished>> /\ queue_closed'
    BY <1>4 DEF CloseQueue
  <2>2. CASE finish[d] /\ cur_queue_size # 0
    <3>1. UNCHANGED shutdown
      BY <1>4, <2>2 DEF CloseQueue
    <3>2. queue_closed \/ (~queue_closed /\ ~shutdown)
      BY <1>4 DEF CloseQueue, CloserInv, Closing
    <3> QED
      BY <2>1, <3>1, <3>2 DEF WP!Close
  <2>3. CASE ~(finish[d] /\ cur_queue_size # 0)
    <3>1. shutdown'
      BY <1>4, <2>3 DEF CloseQueue
    <3>2. finish[d] \in FinishArgs
      BY <1>4 DEF CloseQueue, CloserInv
    <3>3. FALSE \notin FinishArgs => queue = <<>>
      BY <3>2, <2>3, EmptySeq, FlagAssumption DEF QueueCount
    <3>4. CASE shutdown
      BY <2>1, <3>1, <3>4
    <3>5. CASE ~shutdown
      BY <2>1, <3>1, <3>3, <3>5 DEF WP!ShutDown
    <3> QED
      BY <3>4, <3>5
  <2> QED
    BY <2>2, <2>3
<1>5. ASSUME NEW p \in Producer,
             \/ \E j \in Job : CallAddWork(p, j)
             \/ AddWorkReturnsError(p)
             \/ AddWorkWaits(p)
             \/ AddWorkMallocFails(p)
      PROVE  UNCHANGED WP!vars
  <2>1. UNCHANGED <<queue, queue_closed, shutdown, finished>>
    BY <1>5 DEF CallAddWork, AddWorkReturnsError, AddWorkWaits, AddWorkMallocFails
  <2>2. \A w \in Worker : work'[w] = work[w]
    BY <1>5 DEF CallAddWork, AddWorkReturnsError, AddWorkWaits, AddWorkMallocFails
  <2> QED
    BY <2>1, <2>2
<1>6. ASSUME NEW w \in Worker, CreateThread(w) \/ WorkerSleeps(w) \/ WorkerExits(w)
      PROVE  UNCHANGED WP!vars
  BY <1>6 DEF CreateThread, WorkerSleeps, WorkerExits
<1>7. ASSUME NEW d \in Destroyer,
             \/ \E f \in FinishArgs : CallDestroy(d, f)
             \/ AlreadyClosed(d) \/ BroadcastNotEmpty(d) \/ BroadcastNotFull(d)
             \/ JoinThreads(d) \/ FreePool(d)
      PROVE  UNCHANGED WP!vars
  BY <1>7 DEF CallDestroy, AlreadyClosed, BroadcastNotEmpty, BroadcastNotFull,
              JoinThreads, FreePool
<1>8. ASSUME NEW t \in Thread, UseFreedPool(t) \/ SpuriousWakeup(t)
      PROVE  UNCHANGED WP!vars
  BY <1>8 DEF UseFreedPool, SpuriousWakeup
<1>9. CASE CreateFails
  BY <1>9 DEF CreateFails
<1>10. CASE UNCHANGED vars
  BY <1>10 DEF vars
<1>11. ASSUME NEW p \in Producer, WP!Submit(work[p]), work[p] \in Job PROVE WP!Next
  BY <1>11 DEF WP!Next
<1>12. \A p \in Producer : Enqueue(p) => WP!Next
  BY <1>1, <1>11 DEF Enqueue, WorkInv
<1>13. \A w \in Worker : TakeJob(w) \/ RunJob(w) => WP!Next
  BY <1>2, <1>3 DEF WP!Next
<1>14. \A d \in Destroyer : CloseQueue(d) => WP!Next \/ UNCHANGED WP!vars
  BY <1>4 DEF WP!Next
<1> QED
  BY <1>5, <1>6, <1>7, <1>8, <1>9, <1>10, <1>12, <1>13, <1>14
     DEF Next, ProducerStep, WorkerStep, DestroyerStep

\* Whatever its size and its callers, the pool is a first-in first-out list of
\* at most max_queue_size jobs that takes none once it is closed and, if every
\* tpool_destroy has finish = 1, loses none (pool.c:72-247).
THEOREM PoolImplementsWorkPool == SafeSpec => ImplementsSafeWorkPool
<1>1. Init => WP!Init
  <2> SUFFICES ASSUME Init PROVE WP!Init
    OBVIOUS
  <2>1. [w \in Worker |-> work[w]] = [w \in Worker |-> NoJob]
    BY DEF Init
  <2> QED
    BY <2>1 DEF Init, WP!Init
<1>2. Inv2 /\ [Next]_vars => [WP!Next]_WP!vars
  BY StepIsAbstractStep
<1> QED
  BY <1>1, <1>2, Inv2Always, PTL DEF SafeSpec, ImplementsSafeWorkPool, WP!SafeSpec
=============================================================================
