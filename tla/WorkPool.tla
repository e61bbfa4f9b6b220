------------------------------ MODULE WorkPool ------------------------------
(***************************************************************************)
(* What server/src/pool.c promises its callers, without its mutex, its     *)
(* three condition variables and its wait loops: a bounded first-in        *)
(* first-out list of jobs, threads that each run one job at a time, and a   *)
(* shutdown that, when Drain holds, lets go of no job that was accepted.   *)
(* Module ThreadPool is shown to implement this specification.             *)
(***************************************************************************)
EXTENDS Naturals, Sequences

CONSTANTS
  Worker,     \* the pool's threads
  Job,        \* the (handler_routine, arg) pairs
  NoJob,      \* the job of a thread that has none
  Capacity,   \* the most jobs the list holds
  Drain       \* BOOLEAN: the pool only shuts down once its list is empty

VARIABLES
  pending,    \* accepted jobs that no thread has taken, oldest first
  running,    \* the job each thread runs
  finished,   \* the jobs whose handler returned
  phase       \* "open", "closed" (accepts no more) or "down" (threads leave)

vars == <<pending, running, finished, phase>>

Init ==
  /\ pending = <<>>
  /\ running = [w \in Worker |-> NoJob]
  /\ finished = {}
  /\ phase = "open"

Submit(j) ==
  /\ phase = "open"
  /\ Len(pending) < Capacity
  /\ pending' = Append(pending, j)
  /\ UNCHANGED <<running, finished, phase>>

Start(w) ==
  /\ phase # "down"
  /\ pending # <<>>
  /\ running[w] = NoJob
  /\ running' = [running EXCEPT ![w] = Head(pending)]
  /\ pending' = Tail(pending)
  /\ UNCHANGED <<finished, phase>>

Finish(w) ==
  /\ running[w] # NoJob
  /\ finished' = finished \cup {running[w]}
  /\ running' = [running EXCEPT ![w] = NoJob]
  /\ UNCHANGED <<pending, phase>>

Close ==
  /\ phase = "open"
  /\ phase' = "closed"
  /\ UNCHANGED <<pending, running, finished>>

ShutDown ==
  /\ phase \in {"open", "closed"}
  /\ Drain => pending = <<>>
  /\ phase' = "down"
  /\ UNCHANGED <<pending, running, finished>>

Next ==
  \/ \E j \in Job : Submit(j)
  \/ \E w \in Worker : Start(w) \/ Finish(w)
  \/ Close
  \/ ShutDown

SafeSpec == Init /\ [][Next]_vars

\* A job in the list is taken as long as a thread is free, and a handler returns.
Spec ==
  /\ SafeSpec
  /\ WF_vars(\E w \in Worker : Start(w))
  /\ \A w \in Worker : WF_vars(Finish(w))
=============================================================================
