----------------------------- MODULE ThreadPool -----------------------------
(***************************************************************************)
(* toolkit::ThreadPool (include/Thread/ThreadPool.h) with its TaskQueue    *)
(* and thread_group, over the counting semaphore that Semaphore.tla        *)
(* implements.  A push into the queue and the post that announces it are   *)
(* two steps (TaskQueue.h:31-37), and so are taking a permit and popping   *)
(* the queue (l.51-61); a task may submit other tasks, inline or through   *)
(* the queue, and may throw.                                               *)
(***************************************************************************)
EXTENDS Naturals, Sequences, FiniteSets

CONSTANTS
  Worker,      (* the pool's threads, thread_num of them                   *)
  Client,      (* the threads outside the pool that use it                 *)
  Task,        (* the tasks that may be submitted, each once               *)
  NoTask       (* the null Task::Ptr                                       *)

ASSUME WorkerAssumption == IsFiniteSet(Worker) /\ Worker # {}
ASSUME ClientAssumption == IsFiniteSet(Client) /\ Client \cap Worker = {}
ASSUME TaskAssumption == NoTask \notin Task

Thread == Worker \cup Client
ThreadNum == Cardinality(Worker)

VARIABLES
  pool,        (* "created", "running", "shutdown" or "joined"             *)
  queue,       (* TaskQueue::_queue                                        *)
  permits,     (* the permits of TaskQueue::_sem                           *)
  posting,     (* per thread, the task it pushed and has not announced yet *)
  pc,          (* per worker, its place in ThreadPool::run                 *)
  cur,         (* per worker, run's local variable `task`                  *)
  waitFor,     (* per client, the task it is inside sync() for             *)
  status,      (* per task, what has happened to it                        *)
  cancelled    (* the tasks whose strong reference cancel() dropped        *)

vars == <<pool, queue, permits, posting, pc, cur, waitFor, status, cancelled>>

(* "none": thread not created; "waiting": in _sem.wait(); "granted": has a *)
(* permit, before the lock of TaskQueue.h:53; "popped": has a task, before *)
(* its call; "running": inside it; "exited": run has returned.              *)
Place == {"none", "waiting", "granted", "popped", "running", "exited"}

Granted == {w \in Worker : pc[w] = "granted"}
Exited  == {w \in Worker : pc[w] = "exited"}
Posting == {t \in Thread : posting[t] # NoTask}

TypeOK ==
  /\ pool \in {"created", "running", "shutdown", "joined"}
  /\ queue \in Seq(Task)
  /\ permits \in Nat
  /\ posting \in [Thread -> Task \cup {NoTask}]
  /\ pc \in [Worker -> Place]
  /\ cur \in [Worker -> Task \cup {NoTask}]
  /\ waitFor \in [Client -> Task \cup {NoTask}]
  /\ status \in [Task -> {"new", "queued", "popped", "running", "done", "dropped"}]
  /\ cancelled \subseteq Task

Init ==
  /\ pool = "created"
  /\ queue = <<>>
  /\ permits = 0
  /\ posting = [t \in Thread |-> NoTask]
  /\ pc = [w \in Worker |-> "none"]
  /\ cur = [w \in Worker |-> NoTask]
  /\ waitFor = [c \in Client |-> NoTask]
  /\ status = [k \in Task |-> "new"]
  /\ cancelled = {}

-----------------------------------------------------------------------------
(* Submitting                                                              *)

(* Who may call async: a client of a pool that has not been destroyed, and *)
(* a worker from inside the task it runs.                                  *)
MayCall(t) ==
  /\ posting[t] = NoTask
  /\ IF t \in Worker
       THEN pc[t] = "running"
       ELSE pool \in {"created", "running"} /\ waitFor[t] = NoTask

(* The locked half of push_task and push_task_first: q is the new queue.   *)
Push(t, k, q) ==
  /\ MayCall(t)
  /\ status[k] = "new"
  /\ status' = [status EXCEPT ![k] = "queued"]
  /\ queue' = q
  /\ posting' = [posting EXCEPT ![t] = k]
  /\ UNCHANGED <<pool, permits, pc, cur, cancelled>>

Async(t, k)      == Push(t, k, Append(queue, k)) /\ UNCHANGED waitFor
AsyncFirst(t, k) == Push(t, k, <<k>> \o queue) /\ UNCHANGED waitFor

(* may_sync on a thread of the pool: the task runs inside the caller.      *)
RunInline(w, k) ==
  /\ MayCall(w)
  /\ status[k] = "new"
  /\ status' = [status EXCEPT ![k] = "done"]
  /\ UNCHANGED <<pool, queue, permits, posting, pc, cur, waitFor, cancelled>>

(* _sem.post() after the queue's lock was released.                        *)
Post(t) ==
  /\ posting[t] # NoTask
  /\ permits' = permits + 1
  /\ posting' = [posting EXCEPT ![t] = NoTask]
  /\ UNCHANGED <<pool, queue, pc, cur, waitFor, status, cancelled>>

(* sync() and sync_first() push like async, then wait for the task.        *)
Sync(c, k) ==
  /\ \E q \in {Append(queue, k), <<k>> \o queue} : Push(c, k, q)
  /\ waitFor' = [waitFor EXCEPT ![c] = k]

SyncReturn(c) ==
  /\ waitFor[c] # NoTask
  /\ posting[c] = NoTask
  /\ status[waitFor[c]] = "done"
  /\ waitFor' = [waitFor EXCEPT ![c] = NoTask]
  /\ UNCHANGED <<pool, queue, permits, posting, pc, cur, status, cancelled>>

(* The caller of async got the Task::Ptr back and cancels it; sync keeps   *)
(* its own to itself.  Once the task runs, cancel() stops nothing.         *)
Cancellable(k) ==
  /\ status[k] \in {"queued", "popped"}
  /\ k \notin cancelled
  /\ \A t \in Thread : posting[t] # k
  /\ \A c \in Client : waitFor[c] # k

(* Mutant of Cancel: a queued task also leaves the queue, its permit not.  *)
Cancel_Unqueues(k) ==
  /\ Cancellable(k)
  /\ cancelled' = cancelled \cup {k}
  /\ queue' = SelectSeq(queue, LAMBDA q : q # k)
  /\ UNCHANGED <<pool, permits, posting, pc, cur, waitFor, status>>

Cancel(k) ==
  /\ Cancellable(k)
  /\ cancelled' = cancelled \cup {k}
  /\ UNCHANGED <<pool, queue, permits, posting, pc, cur, waitFor, status>>

-----------------------------------------------------------------------------
(* The workers                                                             *)

Take(w) ==
  /\ pc[w] = "waiting"
  /\ permits > 0
  /\ permits' = permits - 1
  /\ pc' = [pc EXCEPT ![w] = "granted"]
  /\ UNCHANGED <<pool, queue, posting, cur, waitFor, status, cancelled>>

Pop(w) ==
  /\ pc[w] = "granted"
  /\ queue # <<>>
  /\ cur' = [cur EXCEPT ![w] = Head(queue)]
  /\ queue' = Tail(queue)
  /\ status' = [status EXCEPT ![Head(queue)] = "popped"]
  /\ pc' = [pc EXCEPT ![w] = "popped"]
  /\ UNCHANGED <<pool, permits, posting, waitFor, cancelled>>

(* Mutant of Exit: a worker leaves as soon as the pool is shutting down.   *)
Exit_OnFlag(w) ==
  /\ pc[w] = "granted"
  /\ queue = <<>> \/ pool = "shutdown"
  /\ cur' = [cur EXCEPT ![w] = NoTask]
  /\ pc' = [pc EXCEPT ![w] = "exited"]
  /\ UNCHANGED <<pool, queue, permits, posting, waitFor, status, cancelled>>

(* get_task returns false on an empty queue, and run leaves its loop.      *)
Exit(w) ==
  /\ pc[w] = "granted"
  /\ queue = <<>>
  /\ cur' = [cur EXCEPT ![w] = NoTask]
  /\ pc' = [pc EXCEPT ![w] = "exited"]
  /\ UNCHANGED <<pool, queue, permits, posting, waitFor, status, cancelled>>

(* Mutant of Begin: the task is called through its strong reference alone. *)
Begin_IgnoreCancel(w) ==
  /\ pc[w] = "popped"
  /\ status' = [status EXCEPT ![cur[w]] = "running"]
  /\ pc' = [pc EXCEPT ![w] = "running"]
  /\ UNCHANGED <<pool, queue, permits, posting, cur, waitFor, cancelled>>

(* Calling the task locks its weak reference: it runs unless cancelled.    *)
Begin(w) ==
  /\ pc[w] = "popped"
  /\ cur[w] \notin cancelled
  /\ status' = [status EXCEPT ![cur[w]] = "running"]
  /\ pc' = [pc EXCEPT ![w] = "running"]
  /\ UNCHANGED <<pool, queue, permits, posting, cur, waitFor, cancelled>>

SkipCancelled(w) ==
  /\ pc[w] = "popped"
  /\ cur[w] \in cancelled
  /\ status' = [status EXCEPT ![cur[w]] = "dropped"]
  /\ cur' = [cur EXCEPT ![w] = NoTask]
  /\ pc' = [pc EXCEPT ![w] = "waiting"]
  /\ UNCHANGED <<pool, queue, permits, posting, waitFor, cancelled>>

(* The task returns (c = NoTask: l.125 drops it) or throws (run keeps the  *)
(* Task::Ptr until the next one arrives).                                  *)
EndOf(w, c) ==
  /\ pc[w] = "running"
  /\ posting[w] = NoTask
  /\ status' = [status EXCEPT ![cur[w]] = "done"]
  /\ cur' = [cur EXCEPT ![w] = c]
  /\ pc' = [pc EXCEPT ![w] = "waiting"]
  /\ UNCHANGED <<pool, queue, permits, posting, waitFor, cancelled>>

Return(w) == EndOf(w, NoTask)

(* Mutant of Throw: the exception skips the post of sync's semaphore.      *)
Throw_SkipsToken(w) ==
  /\ pc[w] = "running"
  /\ posting[w] = NoTask
  /\ pc' = [pc EXCEPT ![w] = "waiting"]
  /\ UNCHANGED <<pool, queue, permits, posting, cur, waitFor, status, cancelled>>

Throw(w) == EndOf(w, cur[w])

-----------------------------------------------------------------------------
(* The pool's own life                                                     *)

Start ==
  /\ pool = "created"
  /\ pool' = "running"
  /\ pc' = [w \in Worker |-> "waiting"]
  /\ UNCHANGED <<queue, permits, posting, cur, waitFor, status, cancelled>>

(* Mutant of Shutdown: push_exit() posts a single permit.                  *)
Shutdown_OneExit ==
  /\ pool \in {"created", "running"}
  /\ \A c \in Client : posting[c] = NoTask /\ waitFor[c] = NoTask
  /\ pool' = "shutdown"
  /\ permits' = permits + 1
  /\ UNCHANGED <<queue, posting, pc, cur, waitFor, status, cancelled>>

(* The destructor posts one exit permit per thread; whoever destroys the   *)
(* pool has stopped using it, so that it is no thread of the pool: in one  *)
(* join_all throws (threadgroup.h:65-67), out of a destructor, which ends  *)
(* the process.                                                            *)
Shutdown ==
  /\ pool \in {"created", "running"}
  /\ \A c \in Client : posting[c] = NoTask /\ waitFor[c] = NoTask
  /\ pool' = "shutdown"
  /\ permits' = permits + ThreadNum
  /\ UNCHANGED <<queue, posting, pc, cur, waitFor, status, cancelled>>

(* join_all over the threads that were created.                            *)
Join ==
  /\ pool = "shutdown"
  /\ \A w \in Worker : pc[w] \in {"none", "exited"}
  /\ pool' = "joined"
  /\ UNCHANGED <<queue, permits, posting, pc, cur, waitFor, status, cancelled>>

Next ==
  \/ Start \/ Shutdown \/ Join
  \/ \E k \in Task :
       \/ Cancel(k)
       \/ \E t \in Thread : Async(t, k) \/ AsyncFirst(t, k)
       \/ \E w \in Worker : RunInline(w, k)
       \/ \E c \in Client : Sync(c, k)
  \/ \E t \in Thread : Post(t)
  \/ \E c \in Client : SyncReturn(c)
  \/ \E w \in Worker :
       Take(w) \/ Pop(w) \/ Exit(w) \/ Begin(w) \/ SkipCancelled(w) \/ Return(w) \/ Throw(w)

(* Threads are scheduled, tasks end, and the semaphore hands a permit to   *)
(* somebody who waits (CountingSemaphore!Spec), to no one in particular.   *)
Fairness ==
  /\ \A t \in Thread : WF_vars(Post(t))
  /\ WF_vars(\E w \in Worker : Take(w))
  /\ \A w \in Worker : /\ WF_vars(Pop(w) \/ Exit(w))
                       /\ WF_vars(Begin(w) \/ SkipCancelled(w))
                       /\ WF_vars(Return(w) \/ Throw(w))
  /\ \A c \in Client : WF_vars(SyncReturn(c))
  /\ WF_vars(Join)

Spec == Init /\ [][Next]_vars /\ Fairness

-----------------------------------------------------------------------------
(* Properties                                                              *)

Destroyed == pool \in {"shutdown", "joined"}

(* The exit permits not consumed by an exit yet (push_exit, l.136-138).    *)
ExitsLeft == IF Destroyed THEN ThreadNum - Cardinality(Exited) ELSE 0

(* The semaphore and the queue are two objects with two locks; this is     *)
(* what keeps them together: a permit exists for each queued task that has *)
(* been announced and for each exit still due, no more and no fewer        *)
(* (TaskQueue.h:31-61).  One too few strands a task or the destructor, one *)
(* too many ends a worker.                                                 *)
PermitAccounting ==
  permits + Cardinality(Granted) + Cardinality(Posting) = Len(queue) + ExitsLeft

(* No worker leaves run() before the pool is destroyed, whatever the order *)
(* of pushes, posts, pops and cancels (ThreadPool.h:118-121 reads an empty *)
(* queue as the order to exit).                                            *)
NoEarlyExit == Exited # {} => Destroyed

InHand(k) == status[k] \in {"queued", "popped", "running"}

(* ~ThreadPool of a pool that was started returns only when every task     *)
(* that was accepted, tasks submitted by tasks during the shutdown         *)
(* included, has ended (ThreadPool.h:43-46).                               *)
DrainedWhenJoined ==
  pool = "joined" /\ Exited # {} => \A k \in Task : ~InHand(k)

(* sync() returns, even when its task throws (TaskExecutor.h:236-268).     *)
SyncReturns ==
  \A c \in Client : waitFor[c] # NoTask /\ pool = "running" ~> waitFor[c] = NoTask

(* The pool keeps the executor's promise, the liveness part included: an   *)
(* accepted task starts, a started one ends, the destructor returns.       *)
AbsStatus(k) ==
  CASE status[k] \in {"new", "running", "done"} -> status[k]
    [] status[k] = "dropped" \/ k \in cancelled -> "cancelled"
    [] OTHER -> "accepted"

AbsPhase ==
  CASE pool = "created" -> "idle"
    [] pool = "running" -> "open"
    [] pool = "joined"  -> "closed"
    [] OTHER -> IF \E w \in Worker : pc[w] # "none" THEN "closing" ELSE "idle"

Abs == INSTANCE TaskExecutor
         WITH phase <- AbsPhase, status <- [k \in Task |-> AbsStatus(k)]

(* Refinement of TaskExecutor (ThreadPool.h:49-67 and 113-130): at most    *)
(* one run per task, none after a cancel that came first, all of them      *)
(* ended when the destructor returns.                                      *)
ImplementsTaskExecutor == Abs!Spec
=============================================================================
