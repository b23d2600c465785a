-------------------------- MODULE ThreadPool_proofs --------------------------
(***************************************************************************)
(* Theorems about ThreadPool for every number of threads, clients and      *)
(* tasks: its types, the permit accounting and what follows from it, that  *)
(* the destructor leaves no accepted task behind, and that it implements   *)
(* the safety part of TaskExecutor; and, for the semaphore that ThreadPool *)
(* takes as a counter, that it loses no wakeup and is one.                 *)
(***************************************************************************)
EXTENDS ThreadPool, SemaphoreState, FiniteSetTheorems, SequenceTheorems, TLAPS

(* The queue after a push is a sequence of tasks, one longer than before.  *)
LEMMA PushedQueue ==
  ASSUME NEW q \in Seq(Task), NEW k \in Task
  PROVE  /\ Append(q, k) \in Seq(Task) /\ Len(Append(q, k)) = Len(q) + 1
         /\ <<k>> \o q \in Seq(Task) /\ Len(<<k>> \o q) = Len(q) + 1
         /\ q \in Seq(Task) /\ Len(q) \in Nat
<1>1. <<k>> \in Seq(Task) /\ Len(<<k>>) = 1
  OBVIOUS
<1>2. QED
  BY <1>1, ConcatProperties, AppendProperties, LenProperties

(* The tasks of the queue after a push are the old ones and the new one.   *)
LEMMA PushedTasks ==
  ASSUME NEW q \in Seq(Task), NEW k \in Task,
         NEW r \in {Append(q, k), <<k>> \o q}
  PROVE  /\ \E i \in 1..Len(r) : r[i] = k
         /\ \A i \in 1..Len(q) : \E j \in 1..Len(r) : r[j] = q[i]
<1>1. CASE r = Append(q, k)
  <2>1. r[Len(q) + 1] = k /\ \A i \in 1..Len(q) : r[i] = q[i]
    BY <1>1, AppendProperties
  <2>2. QED
    BY <1>1, <2>1, PushedQueue
<1>2. CASE r = <<k>> \o q
  <2>1. Len(<<k>>) = 1 /\ <<k>> \in Seq(Task) /\ <<k>>[1] = k
    OBVIOUS
  <2>2. r[1] = k /\ \A i \in 1..Len(q) : r[i + 1] = q[i]
    BY <1>2, <2>1, ConcatProperties, LenProperties
  <2>3. QED
    BY <1>2, <2>2, PushedQueue
<1>3. QED
  BY <1>1, <1>2

(* Popping a queue that is not empty removes its head and nothing else.    *)
LEMMA PoppedQueue ==
  ASSUME NEW q \in Seq(Task), q # <<>>
  PROVE  /\ Head(q) \in Task /\ Tail(q) \in Seq(Task)
         /\ Len(Tail(q)) = Len(q) - 1 /\ Len(q) \in Nat \ {0}
         /\ \A i \in 1..Len(q) :
              q[i] # Head(q) => \E j \in 1..Len(Tail(q)) : Tail(q)[j] = q[i]
<1>1. /\ Head(q) \in Task /\ Tail(q) \in Seq(Task) /\ Head(q) = q[1]
      /\ Len(Tail(q)) = Len(q) - 1 /\ Len(q) \in Nat \ {0}
  BY HeadTailProperties, LenProperties, EmptySeq
<1>2. \A j \in 1..Len(Tail(q)) : Tail(q)[j] = q[j + 1]
  BY <1>1, HeadTailProperties
<1>3. ASSUME NEW i \in 1..Len(q), q[i] # Head(q)
      PROVE  \E j \in 1..Len(Tail(q)) : Tail(q)[j] = q[i]
  <2>1. i - 1 \in 1..Len(Tail(q))
    BY <1>1, <1>3
  <2>2. Tail(q)[i - 1] = q[i]
    BY <1>2, <2>1
  <2>3. QED
    BY <2>1, <2>2
<1>4. QED
  BY <1>1, <1>3

(* The counted sets are finite, and there is at least one thread.          *)
LEMMA CountedSetsFinite ==
  /\ IsFiniteSet(Granted) /\ Cardinality(Granted) \in Nat
  /\ IsFiniteSet(Exited) /\ Cardinality(Exited) \in Nat
  /\ IsFiniteSet(Posting) /\ Cardinality(Posting) \in Nat
  /\ ThreadNum \in Nat /\ Cardinality(Exited) <= ThreadNum
<1>1. Granted \in SUBSET Worker /\ Exited \in SUBSET Worker /\ Posting \in SUBSET Thread
  BY DEF Granted, Exited, Posting
<1>2. IsFiniteSet(Thread)
  BY WorkerAssumption, ClientAssumption, FS_Union DEF Thread
<1>3. QED
  BY <1>1, <1>2, WorkerAssumption, FS_Subset, FS_CardinalityType DEF ThreadNum

-----------------------------------------------------------------------------
(* Every variable of the pool keeps its type, for any threads and tasks.   *)
THEOREM TypeCorrect == Spec => []TypeOK
<1>1. Init => TypeOK
  BY DEF Init, TypeOK, Place
<1>2. TypeOK /\ [Next]_vars => TypeOK'
  <2> SUFFICES ASSUME TypeOK, [Next]_vars PROVE TypeOK'
    OBVIOUS
  <2> USE DEF TypeOK, Place
  <2>1. CASE Start
    BY <2>1 DEF Start
  <2>2. CASE Shutdown
    BY <2>2, CountedSetsFinite DEF Shutdown
  <2>3. CASE Join
    BY <2>3 DEF Join
  <2>4. ASSUME NEW k \in Task, Cancel(k) PROVE TypeOK'
    BY <2>4 DEF Cancel
  <2>5. ASSUME NEW k \in Task, NEW t \in Thread, Async(t, k) \/ AsyncFirst(t, k)
        PROVE  TypeOK'
    BY <2>5, PushedQueue DEF Async, AsyncFirst, Push
  <2>6. ASSUME NEW k \in Task, NEW w \in Worker, RunInline(w, k) PROVE TypeOK'
    BY <2>6 DEF RunInline
  <2>7. ASSUME NEW k \in Task, NEW c \in Client, Sync(c, k) PROVE TypeOK'
    BY <2>7, PushedQueue DEF Sync, Push
  <2>8. ASSUME NEW t \in Thread, Post(t) PROVE TypeOK'
    BY <2>8 DEF Post
  <2>9. ASSUME NEW c \in Client, SyncReturn(c) PROVE TypeOK'
    BY <2>9 DEF SyncReturn
  <2>10. ASSUME NEW w \in Worker, Take(w) PROVE TypeOK'
    BY <2>10 DEF Take
  <2>11. ASSUME NEW w \in Worker, Pop(w) PROVE TypeOK'
    BY <2>11, PoppedQueue DEF Pop
  <2>12. ASSUME NEW w \in Worker, Exit(w) \/ Begin(w) \/ SkipCancelled(w)
         PROVE  TypeOK'
    BY <2>12 DEF Exit, Begin, SkipCancelled
  <2>13. ASSUME NEW w \in Worker, Return(w) \/ Throw(w) PROVE TypeOK'
    BY <2>13 DEF Return, Throw, EndOf
  <2>14. CASE UNCHANGED vars
    BY <2>14 DEF vars
  <2>15. QED
    BY <2>1, <2>2, <2>3, <2>4, <2>5, <2>6, <2>7, <2>8, <2>9, <2>10, <2>11,
       <2>12, <2>13, <2>14 DEF Next
<1>3. QED
  BY <1>1, <1>2, PTL DEF Spec

-----------------------------------------------------------------------------
(* The inductive invariant of the accounting: before start() there is no   *)
(* worker, and nobody exits before the pool is destroyed.                  *)
NoWorkerBeforeStart == pool = "created" => \A w \in Worker : pc[w] = "none"

AccountInv == PermitAccounting /\ NoEarlyExit /\ NoWorkerBeforeStart

(* Steps that do not touch the accounted variables.                        *)
LEMMA AccountUntouched ==
  ASSUME TypeOK, AccountInv, UNCHANGED <<pool, permits, posting, pc>>,
         Len(queue') = Len(queue)
  PROVE  AccountInv'
<1>1. Granted' = Granted /\ Exited' = Exited /\ Posting' = Posting
  BY DEF Granted, Exited, Posting
<1>2. QED
  BY <1>1 DEF AccountInv, PermitAccounting, NoEarlyExit, NoWorkerBeforeStart,
              ExitsLeft, Destroyed

(* A push adds a task to the queue and a post to the ones pending.         *)
LEMMA PushKeepsAccount ==
  ASSUME TypeOK, AccountInv, NEW t \in Thread, NEW k \in Task,
         NEW q \in {Append(queue, k), <<k>> \o queue}, Push(t, k, q)
  PROVE  AccountInv'
<1>1. Len(queue') = Len(queue) + 1 /\ Len(queue) \in Nat
  BY PushedQueue DEF Push, TypeOK
<1>2. Posting' = Posting \cup {t} /\ t \notin Posting
  BY TaskAssumption DEF Push, MayCall, Posting, TypeOK
<1>3. Cardinality(Posting') = Cardinality(Posting) + 1
  BY <1>2, CountedSetsFinite, FS_AddElement
<1>4. UNCHANGED <<pool, permits, pc>> /\ Granted' = Granted /\ Exited' = Exited
  BY DEF Push, Granted, Exited
<1>5. ExitsLeft' = ExitsLeft /\ ExitsLeft \in Int
  BY <1>4, CountedSetsFinite DEF ExitsLeft, Destroyed
<1>6. QED
  BY <1>1, <1>3, <1>4, <1>5, CountedSetsFinite
  DEF AccountInv, PermitAccounting, NoEarlyExit, NoWorkerBeforeStart, Destroyed, TypeOK

(* The post pays for the push.                                             *)
LEMMA PostKeepsAccount ==
  ASSUME TypeOK, AccountInv, NEW t \in Thread, Post(t)
  PROVE  AccountInv'
<1>1. Posting' = Posting \ {t} /\ t \in Posting
  BY TaskAssumption DEF Post, Posting, TypeOK
<1>2. Cardinality(Posting') = Cardinality(Posting) - 1
  BY <1>1, CountedSetsFinite, FS_RemoveElement
<1>3. UNCHANGED <<pool, queue, pc>> /\ Granted' = Granted /\ Exited' = Exited
  BY DEF Post, Granted, Exited
<1>4. permits' = permits + 1 /\ permits \in Nat
  BY DEF Post, TypeOK
<1>5. ExitsLeft' = ExitsLeft
  BY <1>3 DEF ExitsLeft, Destroyed
<1>6. QED
  BY <1>2, <1>3, <1>4, <1>5, CountedSetsFinite
  DEF AccountInv, PermitAccounting, NoEarlyExit, NoWorkerBeforeStart, Destroyed

(* A worker changes places without entering or leaving the counted ones.   *)
LEMMA WorkerMoves ==
  ASSUME TypeOK, AccountInv, NEW w \in Worker, NEW p \in Place,
         pc[w] \in {"waiting", "popped", "running"},
         p \in {"waiting", "popped", "running"},
         pc' = [pc EXCEPT ![w] = p],
         UNCHANGED <<pool, queue, permits, posting>>
  PROVE  AccountInv'
<1>1. Granted' = Granted /\ Exited' = Exited /\ Posting' = Posting
  BY DEF Granted, Exited, Posting, TypeOK
<1>2. pool # "created"
  BY DEF AccountInv, NoWorkerBeforeStart
<1>3. QED
  BY <1>1, <1>2 DEF AccountInv, PermitAccounting, NoEarlyExit, NoWorkerBeforeStart,
                    ExitsLeft, Destroyed

(* Taking a permit moves it from the semaphore to the worker.              *)
LEMMA TakeKeepsAccount ==
  ASSUME TypeOK, AccountInv, NEW w \in Worker, Take(w)
  PROVE  AccountInv'
<1>1. Granted' = Granted \cup {w} /\ w \notin Granted /\ Exited' = Exited
      /\ Posting' = Posting
  BY DEF Take, Granted, Exited, Posting, TypeOK
<1>2. Cardinality(Granted') = Cardinality(Granted) + 1
  BY <1>1, CountedSetsFinite, FS_AddElement
<1>3. permits' = permits - 1 /\ permits \in Nat /\ UNCHANGED <<pool, queue>>
  BY DEF Take, TypeOK
<1>4. pool # "created"
  BY DEF AccountInv, NoWorkerBeforeStart, Take
<1>5. QED
  BY <1>1, <1>2, <1>3, <1>4, CountedSetsFinite
  DEF AccountInv, PermitAccounting, NoEarlyExit, NoWorkerBeforeStart, ExitsLeft, Destroyed

(* A pop uses the permit and removes the task it stood for.                *)
LEMMA PopKeepsAccount ==
  ASSUME TypeOK, AccountInv, NEW w \in Worker, Pop(w)
  PROVE  AccountInv'
<1>1. Granted' = Granted \ {w} /\ w \in Granted /\ Exited' = Exited
      /\ Posting' = Posting
  BY DEF Pop, Granted, Exited, Posting, TypeOK
<1>2. Cardinality(Granted') = Cardinality(Granted) - 1
  BY <1>1, CountedSetsFinite, FS_RemoveElement
<1>3. Len(queue') = Len(queue) - 1 /\ Len(queue) \in Nat
  BY PoppedQueue DEF Pop, TypeOK
<1>4. UNCHANGED <<pool, permits>> /\ pool # "created"
  BY DEF Pop, AccountInv, NoWorkerBeforeStart
<1>5. ExitsLeft' = ExitsLeft /\ ExitsLeft \in Int
  BY <1>1, <1>4, CountedSetsFinite DEF ExitsLeft, Destroyed
<1>6. permits \in Nat
  BY DEF TypeOK
<1>7. PermitAccounting'
  BY <1>1, <1>2, <1>3, <1>4, <1>5, <1>6, CountedSetsFinite DEF AccountInv, PermitAccounting
<1>8. QED
  BY <1>1, <1>4, <1>7 DEF AccountInv, NoEarlyExit, NoWorkerBeforeStart, Destroyed

(* A granted worker that finds the queue empty holds an exit permit, so    *)
(* the pool is being destroyed and one exit fewer is due.                  *)
LEMMA ExitKeepsAccount ==
  ASSUME TypeOK, AccountInv, NEW w \in Worker, Exit(w)
  PROVE  AccountInv'
<1>1. Granted' = Granted \ {w} /\ w \in Granted /\ Posting' = Posting
      /\ Exited' = Exited \cup {w} /\ w \notin Exited
  BY DEF Exit, Granted, Exited, Posting, TypeOK
<1>2. Cardinality(Granted') = Cardinality(Granted) - 1
      /\ Cardinality(Granted') \in Nat
  BY <1>1, CountedSetsFinite, FS_RemoveElement, FS_CardinalityType
<1>3. Cardinality(Exited') = Cardinality(Exited) + 1
  BY <1>1, CountedSetsFinite, FS_AddElement
<1>4. Len(queue) = 0 /\ UNCHANGED <<pool, permits, queue>> /\ permits \in Nat
  BY DEF Exit, TypeOK
<1>5. ExitsLeft >= 1 /\ Destroyed
  <2>1. permits + Cardinality(Granted) + Cardinality(Posting) = ExitsLeft
    BY <1>4, CountedSetsFinite DEF AccountInv, PermitAccounting, ExitsLeft
  <2>2. ExitsLeft >= 1
    BY <1>2, <1>4, <2>1, CountedSetsFinite
  <2>3. QED
    BY <2>2 DEF ExitsLeft
<1>6. ExitsLeft' = ExitsLeft - 1
  BY <1>3, <1>4, <1>5, CountedSetsFinite DEF ExitsLeft, Destroyed
<1>7. PermitAccounting'
  BY <1>1, <1>2, <1>4, <1>5, <1>6, CountedSetsFinite DEF AccountInv, PermitAccounting, ExitsLeft
<1>8. QED
  BY <1>4, <1>5, <1>7 DEF AccountInv, NoEarlyExit, NoWorkerBeforeStart, Destroyed

(* The destructor's permits are the exits it makes due.                    *)
LEMMA ShutdownKeepsAccount ==
  ASSUME TypeOK, AccountInv, Shutdown
  PROVE  AccountInv'
<1>1. Granted' = Granted /\ Exited' = Exited /\ Posting' = Posting
      /\ permits' = permits + ThreadNum /\ permits \in Nat /\ queue' = queue
  BY DEF Shutdown, Granted, Exited, Posting, TypeOK
<1>2. ~Destroyed /\ Destroyed' /\ pool' # "created"
  BY DEF Shutdown, Destroyed
<1>3. Cardinality(Exited) = 0
  BY <1>2, FS_EmptySet DEF AccountInv, NoEarlyExit
<1>4. ThreadNum' = ThreadNum
  BY DEF ThreadNum
<1>5. ExitsLeft = 0 /\ ExitsLeft' = ThreadNum
  BY <1>1, <1>2, <1>3, <1>4, CountedSetsFinite DEF ExitsLeft
<1>6. Len(queue) \in Nat
  BY LenProperties DEF TypeOK
<1>7. QED
  BY <1>1, <1>2, <1>5, <1>6, CountedSetsFinite
  DEF AccountInv, PermitAccounting, NoEarlyExit, NoWorkerBeforeStart

(* The workers start outside the counted places.                           *)
LEMMA StartKeepsAccount ==
  ASSUME TypeOK, AccountInv, Start
  PROVE  AccountInv'
<1>1. Granted = {} /\ Granted' = {} /\ Exited = {} /\ Exited' = {}
      /\ Posting' = Posting
  BY DEF Start, AccountInv, NoWorkerBeforeStart, Granted, Exited, Posting
<1>2. ~Destroyed /\ ~Destroyed' /\ pool' # "created" /\ UNCHANGED <<queue, permits>>
  BY DEF Start, Destroyed
<1>3. QED
  BY <1>1, <1>2 DEF AccountInv, PermitAccounting, NoEarlyExit, NoWorkerBeforeStart, ExitsLeft

LEMMA AccountInvInductive == TypeOK /\ AccountInv /\ [Next]_vars => AccountInv'
<1> SUFFICES ASSUME TypeOK, AccountInv, [Next]_vars PROVE AccountInv'
  OBVIOUS
<1>1. CASE Start
  BY <1>1, StartKeepsAccount
<1>2. CASE Shutdown
  BY <1>2, ShutdownKeepsAccount
<1>3. CASE Join
  <2>1. Granted' = Granted /\ Exited' = Exited /\ Posting' = Posting /\ Destroyed' /\ Destroyed
    BY <1>3 DEF Join, Granted, Exited, Posting, Destroyed
  <2>2. QED
    BY <1>3, <2>1 DEF Join, AccountInv, PermitAccounting, NoEarlyExit,
                      NoWorkerBeforeStart, ExitsLeft
<1>4. ASSUME NEW k \in Task, Cancel(k) PROVE AccountInv'
  BY <1>4, AccountUntouched DEF Cancel
<1>5. ASSUME NEW k \in Task, NEW t \in Thread, Async(t, k) \/ AsyncFirst(t, k)
      PROVE  AccountInv'
  BY <1>5, PushKeepsAccount DEF Async, AsyncFirst
<1>6. ASSUME NEW k \in Task, NEW w \in Worker, RunInline(w, k) PROVE AccountInv'
  BY <1>6, AccountUntouched DEF RunInline
<1>7. ASSUME NEW k \in Task, NEW c \in Client, Sync(c, k) PROVE AccountInv'
  BY <1>7, PushKeepsAccount DEF Sync, Thread
<1>8. ASSUME NEW t \in Thread, Post(t) PROVE AccountInv'
  BY <1>8, PostKeepsAccount
<1>9. ASSUME NEW c \in Client, SyncReturn(c) PROVE AccountInv'
  BY <1>9, AccountUntouched DEF SyncReturn
<1>10. ASSUME NEW w \in Worker, Take(w) PROVE AccountInv'
  BY <1>10, TakeKeepsAccount
<1>11. ASSUME NEW w \in Worker, Pop(w) PROVE AccountInv'
  BY <1>11, PopKeepsAccount
<1>12. ASSUME NEW w \in Worker, Exit(w) PROVE AccountInv'
  BY <1>12, ExitKeepsAccount
<1>13. ASSUME NEW w \in Worker, Begin(w) \/ SkipCancelled(w) PROVE AccountInv'
  BY <1>13, WorkerMoves DEF Begin, SkipCancelled, Place
<1>14. ASSUME NEW w \in Worker, Return(w) \/ Throw(w) PROVE AccountInv'
  BY <1>14, WorkerMoves DEF Return, Throw, EndOf, Place
<1>15. CASE UNCHANGED vars
  BY <1>15, AccountUntouched DEF vars
<1>16. QED
  BY <1>1, <1>2, <1>3, <1>4, <1>5, <1>6, <1>7, <1>8, <1>9, <1>10, <1>11, <1>12,
     <1>13, <1>14, <1>15 DEF Next

LEMMA AccountInvariant == Spec => []AccountInv
<1>1. Init => AccountInv
  <2> SUFFICES ASSUME Init PROVE AccountInv
    OBVIOUS
  <2>1. Granted = {} /\ Exited = {} /\ Posting = {} /\ Len(queue) = 0 /\ ~Destroyed
    BY DEF Init, Granted, Exited, Posting, Destroyed
  <2>2. QED
    BY <2>1, FS_EmptySet DEF Init, AccountInv, PermitAccounting, NoEarlyExit,
                             NoWorkerBeforeStart, ExitsLeft
<1>2. QED
  BY <1>1, AccountInvInductive, TypeCorrect, PTL DEF Spec

(* The semaphore holds exactly the permits the announced tasks and the     *)
(* exits still due account for, for any number of threads and tasks        *)
(* (TaskQueue.h:31-61, ThreadPool.h:136-138).                              *)
THEOREM PermitsAccounted == Spec => []PermitAccounting
<1>1. AccountInv => PermitAccounting
  BY DEF AccountInv
<1>2. QED
  BY <1>1, AccountInvariant, PTL

(* No worker takes an empty queue for the order to exit before the pool is *)
(* destroyed (ThreadPool.h:118-121).                                       *)
THEOREM NoWorkerExitsEarly == Spec => []NoEarlyExit
<1>1. AccountInv => NoEarlyExit
  BY DEF AccountInv
<1>2. QED
  BY <1>1, AccountInvariant, PTL

-----------------------------------------------------------------------------
(* The inductive invariant of the drain.  Where a task in hand is: in the  *)
(* queue or with a worker in the matching place.                           *)
QueuedInQueue ==
  \A k \in Task : status[k] = "queued" => \E i \in 1..Len(queue) : queue[i] = k

HeldByWorker ==
  \A k \in Task : status[k] \in {"popped", "running"} =>
    \E w \in Worker : cur[w] = k /\ pc[w] = status[k]

(* Start creates every thread at once, and a thread is gone for good.      *)
AllOrNoneStarted ==
  (\E w \in Worker : pc[w] = "none") => \A w \in Worker : pc[w] = "none"

(* As long as the queue holds a task, a worker that has not left is there  *)
(* to pop it: whoever leaves saw the queue empty, and after the shutdown   *)
(* only workers that have not left push.                                   *)
SomebodyStays ==
  Destroyed /\ queue # <<>> /\ Exited # {} =>
    \E w \in Worker : pc[w] \notin {"none", "exited"}

JoinedAllGone == pool = "joined" => \A w \in Worker : pc[w] \in {"none", "exited"}

DrainInv ==
  QueuedInQueue /\ HeldByWorker /\ AllOrNoneStarted /\ SomebodyStays /\ JoinedAllGone

LEMMA DrainInvSuffices == TypeOK /\ DrainInv => DrainedWhenJoined
<1> SUFFICES ASSUME TypeOK, DrainInv, pool = "joined", Exited # {}, NEW k \in Task
             PROVE  ~InHand(k)
  BY DEF DrainedWhenJoined
<1>1. \A w \in Worker : pc[w] \in {"none", "exited"}
  BY DEF DrainInv, JoinedAllGone
<1>2. queue = <<>>
  BY <1>1 DEF DrainInv, SomebodyStays, Destroyed
<1>3. status[k] # "queued"
  BY <1>2 DEF DrainInv, QueuedInQueue
<1>4. status[k] \notin {"popped", "running"}
  BY <1>1 DEF DrainInv, HeldByWorker
<1>5. QED
  BY <1>3, <1>4 DEF InHand

(* Steps that move no task between the queue and the workers.              *)
LEMMA DrainUntouched ==
  ASSUME TypeOK, DrainInv, UNCHANGED <<pool, queue, pc, cur>>,
         \A k \in Task : status'[k] \in {"queued", "popped", "running"} => status'[k] = status[k]
  PROVE  DrainInv'
<1>1. Exited' = Exited
  BY DEF Exited
<1>2. QueuedInQueue'
  BY DEF DrainInv, QueuedInQueue
<1>3. HeldByWorker'
  BY DEF DrainInv, HeldByWorker
<1>4. QED
  BY <1>1, <1>2, <1>3 DEF DrainInv, AllOrNoneStarted, SomebodyStays, JoinedAllGone, Destroyed

LEMMA PushKeepsDrain ==
  ASSUME TypeOK, DrainInv, NEW t \in Thread, NEW k \in Task,
         NEW q \in {Append(queue, k), <<k>> \o queue}, Push(t, k, q)
  PROVE  DrainInv'
<1>1. queue \in Seq(Task) /\ queue' = q /\ UNCHANGED <<pool, pc, cur>>
      /\ status' = [status EXCEPT ![k] = "queued"] /\ Exited' = Exited
  BY DEF Push, TypeOK, Exited
<1>2. QueuedInQueue'
  <2>1. \E i \in 1..Len(q) : q[i] = k
    BY <1>1, PushedTasks
  <2>2. \A i \in 1..Len(queue) : \E j \in 1..Len(q) : q[j] = queue[i]
    BY <1>1, PushedTasks
  <2>3. ASSUME NEW l \in Task, l # k, status'[l] = "queued"
        PROVE  \E j \in 1..Len(q) : q[j] = l
    <3>1. PICK i \in 1..Len(queue) : queue[i] = l
      BY <1>1, <2>3 DEF DrainInv, QueuedInQueue, TypeOK
    <3>2. QED
      BY <2>2, <3>1
  <2>4. QED
    BY <1>1, <2>1, <2>3 DEF QueuedInQueue
<1>3. HeldByWorker'
  BY <1>1 DEF DrainInv, HeldByWorker, TypeOK
<1>4. SomebodyStays'
  <2>1. CASE t \in Worker
    BY <1>1, <2>1 DEF Push, MayCall, SomebodyStays
  <2>2. CASE t \notin Worker
    BY <1>1, <2>2 DEF Push, MayCall, SomebodyStays, Destroyed
  <2>3. QED
    BY <2>1, <2>2
<1>5. QED
  BY <1>1, <1>2, <1>3, <1>4 DEF DrainInv, AllOrNoneStarted, JoinedAllGone

(* A worker that has not left moves to another place and stays; l is the   *)
(* task it had or got, if any, and ends up with status s.                  *)
LEMMA StayingWorkerKeepsDrain ==
  ASSUME TypeOK, DrainInv, NEW w \in Worker, NEW p, p \notin {"none", "exited"},
         pc[w] \notin {"none", "exited"}, pc' = [pc EXCEPT ![w] = p],
         UNCHANGED pool, QueuedInQueue', HeldByWorker'
  PROVE  DrainInv'
<1>1. AllOrNoneStarted' /\ JoinedAllGone'
  BY DEF DrainInv, AllOrNoneStarted, JoinedAllGone, TypeOK
<1>2. SomebodyStays'
  BY DEF SomebodyStays, TypeOK
<1>3. QED
  BY <1>1, <1>2 DEF DrainInv

LEMMA TakeKeepsDrain ==
  ASSUME TypeOK, DrainInv, NEW w \in Worker, Take(w)
  PROVE  DrainInv'
<1>1. QueuedInQueue' /\ HeldByWorker'
  BY DEF Take, DrainInv, QueuedInQueue, HeldByWorker, TypeOK
<1>2. QED
  BY <1>1, StayingWorkerKeepsDrain DEF Take

LEMMA PopKeepsDrain ==
  ASSUME TypeOK, DrainInv, NEW w \in Worker, Pop(w)
  PROVE  DrainInv'
<1>1. queue \in Seq(Task) /\ queue # <<>> /\ queue' = Tail(queue)
      /\ status' = [status EXCEPT ![Head(queue)] = "popped"]
      /\ pc[w] = "granted" /\ pc' = [pc EXCEPT ![w] = "popped"]
      /\ cur' = [cur EXCEPT ![w] = Head(queue)] /\ UNCHANGED pool
  BY DEF Pop, TypeOK
<1>2. Head(queue) \in Task
  BY <1>1, PoppedQueue
<1>3. QueuedInQueue'
  <2>1. SUFFICES ASSUME NEW k \in Task, status'[k] = "queued"
                 PROVE  \E j \in 1..Len(Tail(queue)) : Tail(queue)[j] = k
    BY <1>1 DEF QueuedInQueue
  <2>2. k # Head(queue) /\ status[k] = "queued"
    BY <1>1, <1>2, <2>1 DEF TypeOK
  <2>3. PICK i \in 1..Len(queue) : queue[i] = k
    BY <2>2 DEF DrainInv, QueuedInQueue
  <2>4. QED
    BY <1>1, <2>2, <2>3, PoppedQueue
<1>4. HeldByWorker'
  <2>1. SUFFICES ASSUME NEW k \in Task, status'[k] \in {"popped", "running"}
                 PROVE  \E v \in Worker : cur'[v] = k /\ pc'[v] = status'[k]
    BY DEF HeldByWorker
  <2>2. CASE k = Head(queue)
    BY <1>1, <1>2, <2>2 DEF TypeOK
  <2>3. CASE k # Head(queue)
    <3>1. status'[k] = status[k]
      BY <1>1, <2>3 DEF TypeOK
    <3>2. PICK v \in Worker : cur[v] = k /\ pc[v] = status[k]
      BY <2>1, <3>1 DEF DrainInv, HeldByWorker
    <3>3. v # w
      BY <1>1, <2>1, <3>1, <3>2
    <3>4. QED
      BY <1>1, <3>1, <3>2, <3>3 DEF TypeOK
  <2>4. QED
    BY <2>2, <2>3
<1>5. QED
  BY <1>1, <1>3, <1>4, StayingWorkerKeepsDrain

(* A worker begins, skips or ends the task it holds.                       *)
LEMMA HeldTaskKeepsDrain ==
  ASSUME TypeOK, DrainInv, NEW w \in Worker,
         Begin(w) \/ SkipCancelled(w) \/ Return(w) \/ Throw(w)
  PROVE  DrainInv'
<1>1. UNCHANGED <<pool, queue>> /\ pc[w] \in {"popped", "running"}
  BY DEF Begin, SkipCancelled, Return, Throw, EndOf
<1>2. PICK s \in {"running", "done", "dropped"}, p \in {"running", "waiting"},
           c \in Task \cup {NoTask} :
         /\ status' = [status EXCEPT ![cur[w]] = s]
         /\ pc' = [pc EXCEPT ![w] = p]
         /\ cur' = [cur EXCEPT ![w] = c]
         /\ s = "running" => p = "running" /\ c = cur[w]
  <2>1. CASE Begin(w)
    BY <2>1 DEF Begin, TypeOK
  <2>2. CASE SkipCancelled(w)
    BY <2>2 DEF SkipCancelled, TypeOK
  <2>3. CASE Return(w) \/ Throw(w)
    BY <2>3 DEF Return, Throw, EndOf, TypeOK
  <2>4. QED
    BY <2>1, <2>2, <2>3
<1>3. QueuedInQueue'
  <2>1. \A k \in Task : status'[k] = "queued" => status[k] = "queued"
    BY <1>2 DEF TypeOK
  <2>2. QED
    BY <1>1, <2>1 DEF DrainInv, QueuedInQueue
<1>4. HeldByWorker'
  <2>1. SUFFICES ASSUME NEW k \in Task, status'[k] \in {"popped", "running"}
                 PROVE  \E v \in Worker : cur'[v] = k /\ pc'[v] = status'[k]
    BY DEF HeldByWorker
  <2>2. CASE k = cur[w]
    BY <1>2, <2>1, <2>2 DEF TypeOK
  <2>3. CASE k # cur[w]
    <3>1. status'[k] = status[k]
      BY <1>2, <2>3 DEF TypeOK
    <3>2. PICK v \in Worker : cur[v] = k /\ pc[v] = status[k]
      BY <2>1, <3>1 DEF DrainInv, HeldByWorker
    <3>3. v # w
      BY <2>3, <3>2
    <3>4. QED
      BY <1>2, <3>1, <3>2, <3>3 DEF TypeOK
  <2>4. QED
    BY <2>2, <2>3
<1>5. QED
  BY <1>1, <1>2, <1>3, <1>4, StayingWorkerKeepsDrain

(* A worker leaves: it saw the queue empty, so nobody has to stay.         *)
LEMMA ExitKeepsDrain ==
  ASSUME TypeOK, DrainInv, NEW w \in Worker, Exit(w)
  PROVE  DrainInv'
<1>1. QueuedInQueue'
  BY DEF Exit, DrainInv, QueuedInQueue
<1>2. HeldByWorker'
  BY DEF Exit, DrainInv, HeldByWorker, TypeOK
<1>3. AllOrNoneStarted' /\ JoinedAllGone'
  BY DEF Exit, DrainInv, AllOrNoneStarted, JoinedAllGone, TypeOK
<1>4. SomebodyStays'
  BY DEF Exit, SomebodyStays
<1>5. QED
  BY <1>1, <1>2, <1>3, <1>4 DEF DrainInv

(* Start, Shutdown and Join move no task.                                  *)
LEMMA PoolLifeKeepsDrain ==
  ASSUME TypeOK, DrainInv, AccountInv, Start \/ Shutdown \/ Join
  PROVE  DrainInv'
<1>1. CASE Start
  <2>1. HeldByWorker'
    BY <1>1 DEF Start, DrainInv, HeldByWorker, AccountInv, NoWorkerBeforeStart
  <2>2. QED
    BY <1>1, <2>1, WorkerAssumption
    DEF Start, DrainInv, QueuedInQueue, AllOrNoneStarted, SomebodyStays,
        JoinedAllGone, Destroyed
<1>2. CASE Shutdown
  <2>1. Exited' = {}
    BY <1>2 DEF Shutdown, AccountInv, NoEarlyExit, Destroyed, Exited
  <2>2. QED
    BY <1>2, <2>1
    DEF Shutdown, DrainInv, QueuedInQueue, HeldByWorker, AllOrNoneStarted,
        SomebodyStays, JoinedAllGone
<1>3. CASE Join
  BY <1>3 DEF Join, DrainInv, QueuedInQueue, HeldByWorker, AllOrNoneStarted,
              SomebodyStays, JoinedAllGone, Destroyed, Exited
<1>4. QED
  BY <1>1, <1>2, <1>3

LEMMA DrainInvInductive ==
  TypeOK /\ AccountInv /\ DrainInv /\ [Next]_vars => DrainInv'
<1> SUFFICES ASSUME TypeOK, AccountInv, DrainInv, [Next]_vars PROVE DrainInv'
  OBVIOUS
<1>1. CASE Start \/ Shutdown \/ Join
  BY <1>1, PoolLifeKeepsDrain
<1>2. ASSUME NEW k \in Task, Cancel(k) PROVE DrainInv'
  BY <1>2, DrainUntouched DEF Cancel
<1>3. ASSUME NEW k \in Task, NEW t \in Thread, Async(t, k) \/ AsyncFirst(t, k)
      PROVE  DrainInv'
  BY <1>3, PushKeepsDrain DEF Async, AsyncFirst
<1>4. ASSUME NEW k \in Task, NEW w \in Worker, RunInline(w, k) PROVE DrainInv'
  <2>1. \A l \in Task : status'[l] \in {"queued", "popped", "running"} => status'[l] = status[l]
    BY <1>4 DEF RunInline, TypeOK
  <2>2. QED
    BY <1>4, <2>1, DrainUntouched DEF RunInline
<1>5. ASSUME NEW k \in Task, NEW c \in Client, Sync(c, k) PROVE DrainInv'
  BY <1>5, PushKeepsDrain DEF Sync, Thread
<1>6. ASSUME NEW t \in Thread, Post(t) PROVE DrainInv'
  BY <1>6, DrainUntouched DEF Post
<1>7. ASSUME NEW c \in Client, SyncReturn(c) PROVE DrainInv'
  BY <1>7, DrainUntouched DEF SyncReturn
<1>8. ASSUME NEW w \in Worker, Take(w) PROVE DrainInv'
  BY <1>8, TakeKeepsDrain
<1>9. ASSUME NEW w \in Worker, Pop(w) PROVE DrainInv'
  BY <1>9, PopKeepsDrain
<1>10. ASSUME NEW w \in Worker, Exit(w) PROVE DrainInv'
  BY <1>10, ExitKeepsDrain
<1>11. ASSUME NEW w \in Worker, Begin(w) \/ SkipCancelled(w) \/ Return(w) \/ Throw(w)
       PROVE  DrainInv'
  BY <1>11, HeldTaskKeepsDrain
<1>12. CASE UNCHANGED vars
  BY <1>12, DrainUntouched DEF vars
<1>13. QED
  BY <1>1, <1>2, <1>3, <1>4, <1>5, <1>6, <1>7, <1>8, <1>9, <1>10, <1>11, <1>12 DEF Next

LEMMA DrainInvariant == Spec => []DrainInv
<1>1. Init => DrainInv
  BY WorkerAssumption
  DEF Init, DrainInv, QueuedInQueue, HeldByWorker, AllOrNoneStarted, SomebodyStays,
      JoinedAllGone, Destroyed
<1>2. QED
  BY <1>1, DrainInvInductive, TypeCorrect, AccountInvariant, PTL DEF Spec

(* When ~ThreadPool of a started pool returns no accepted task is left in  *)
(* the queue or with a worker, for any number of threads and tasks         *)
(* (ThreadPool.h:43-46).                                                   *)
THEOREM DestructorDrains == Spec => []DrainedWhenJoined
BY DrainInvariant, DrainInvSuffices, TypeCorrect, PTL

-----------------------------------------------------------------------------
(* The inductive invariant of the refinement.  A task is in the queue once *)
(* and is marked so; a worker that holds a task is its only holder and the *)
(* mark says how far it is; cancel() came before the start; and a pool     *)
(* that runs has its threads.                                              *)
QueueOnce ==
  /\ \A i \in 1..Len(queue) : status[queue[i]] = "queued"
  /\ \A i, j \in 1..Len(queue) : queue[i] = queue[j] => i = j

Holding(w) == pc[w] \in {"popped", "running"}

HeldOnce ==
  /\ \A w \in Worker : Holding(w) => cur[w] \in Task /\ status[cur[w]] = pc[w]
  /\ \A v, w \in Worker : Holding(v) /\ Holding(w) /\ cur[v] = cur[w] => v = w

CancelledInTime == \A k \in cancelled : status[k] \in {"queued", "popped", "dropped"}

RunningHasThreads == pool = "running" => \A w \in Worker : pc[w] # "none"

OnceInv == QueueOnce /\ HeldOnce /\ CancelledInTime /\ RunningHasThreads

(* A push puts a new task once into the queue, the others stay once.       *)
LEMMA PushedOnce ==
  ASSUME NEW q \in Seq(Task), NEW k \in Task,
         NEW r, r = Append(q, k) \/ r = <<k>> \o q,
         \A i \in 1..Len(q) : q[i] # k,
         \A i, j \in 1..Len(q) : q[i] = q[j] => i = j
  PROVE  /\ \A i \in 1..Len(r) : r[i] = k \/ \E j \in 1..Len(q) : r[i] = q[j]
         /\ \A i, j \in 1..Len(r) : r[i] = r[j] => i = j
<1>1. Len(q) \in Nat /\ Len(r) = Len(q) + 1
  BY PushedQueue
<1>2. CASE r = Append(q, k)
  <2>1. r[Len(q) + 1] = k /\ \A i \in 1..Len(q) : r[i] = q[i]
    BY <1>2, AppendProperties
  <2>2. \A i \in 1..Len(r) : i = Len(q) + 1 \/ i \in 1..Len(q)
    BY <1>1
  <2>3. QED
    BY <2>1, <2>2
<1>3. CASE r = <<k>> \o q
  <2>1. Len(<<k>>) = 1 /\ <<k>> \in Seq(Task) /\ <<k>>[1] = k
    OBVIOUS
  <2>2. r[1] = k /\ \A i \in 2..Len(r) : i - 1 \in 1..Len(q) /\ r[i] = q[i - 1]
    BY <1>1, <1>3, <2>1, ConcatProperties
  <2>3. \A i \in 1..Len(r) : i = 1 \/ i \in 2..Len(r)
    BY <1>1
  <2>4. \A i \in 1..Len(r) : r[i] = k \/ \E j \in 1..Len(q) : r[i] = q[j]
    BY <2>2, <2>3
  <2>5. ASSUME NEW i \in 1..Len(r), NEW j \in 1..Len(r), r[i] = r[j] PROVE i = j
    <3>1. CASE i = 1 \/ j = 1
      BY <2>2, <2>3, <2>5, <3>1
    <3>2. CASE i \in 2..Len(r) /\ j \in 2..Len(r)
      <4>1. i - 1 = j - 1
        BY <2>2, <2>5, <3>2
      <4>2. QED
        BY <3>2, <4>1
    <3>3. QED
      BY <2>3, <3>1, <3>2
  <2>6. QED
    BY <2>4, <2>5
<1>4. QED
  BY <1>2, <1>3

LEMMA PushKeepsOnce ==
  ASSUME TypeOK, OnceInv, NEW t \in Thread, NEW k \in Task,
         NEW q \in {Append(queue, k), <<k>> \o queue}, Push(t, k, q)
  PROVE  OnceInv'
<1>1. queue \in Seq(Task) /\ queue' = q /\ UNCHANGED <<pool, pc, cur, cancelled>>
      /\ status[k] = "new" /\ status' = [status EXCEPT ![k] = "queued"]
  BY DEF Push, TypeOK
<1>2. \A i \in 1..Len(queue) : queue[i] # k /\ queue[i] \in Task
  BY <1>1, ElementOfSeq DEF OnceInv, QueueOnce
<1>3. QueueOnce'
  <2>1. /\ \A i \in 1..Len(q) : q[i] = k \/ \E j \in 1..Len(queue) : q[i] = queue[j]
        /\ \A i, j \in 1..Len(q) : q[i] = q[j] => i = j
    <3>1. \A i \in 1..Len(queue) : queue[i] # k
      BY <1>2
    <3>2. \A i, j \in 1..Len(queue) : queue[i] = queue[j] => i = j
      BY DEF OnceInv, QueueOnce
    <3>3. queue \in Seq(Task) /\ (q = Append(queue, k) \/ q = <<k>> \o queue)
      BY <1>1
    <3>4. QED
      BY ONLY <3>1, <3>2, <3>3, k \in Task, PushedOnce
  <2>2. \A i \in 1..Len(q) : status'[q[i]] = "queued"
    BY <1>1, <1>2, <2>1 DEF OnceInv, QueueOnce, TypeOK
  <2>3. QED
    BY <1>1, <2>1, <2>2 DEF QueueOnce
<1>4. HeldOnce'
  BY <1>1 DEF OnceInv, HeldOnce, Holding, TypeOK
<1>5. QED
  BY <1>1, <1>3, <1>4 DEF OnceInv, CancelledInTime, RunningHasThreads, TypeOK

(* Popping takes the head out of the queue, in which no other is equal.    *)
LEMMA PopKeepsOnce ==
  ASSUME TypeOK, OnceInv, NEW w \in Worker, Pop(w)
  PROVE  OnceInv'
<1>1. /\ queue \in Seq(Task) /\ queue # <<>> /\ queue' = Tail(queue)
      /\ status' = [status EXCEPT ![Head(queue)] = "popped"]
      /\ pc[w] = "granted" /\ pc' = [pc EXCEPT ![w] = "popped"]
      /\ cur' = [cur EXCEPT ![w] = Head(queue)] /\ UNCHANGED <<pool, cancelled>>
  BY DEF Pop, TypeOK
<1>2. /\ Head(queue) \in Task /\ Head(queue) = queue[1] /\ Len(queue) \in Nat \ {0}
      /\ Tail(queue) \in Seq(Task) /\ Len(Tail(queue)) = Len(queue) - 1
      /\ \A i \in 1..Len(Tail(queue)) : Tail(queue)[i] = queue[i + 1]
  BY <1>1, HeadTailProperties, LenProperties, EmptySeq
<1>3. status[Head(queue)] = "queued" /\ \A i \in 2..Len(queue) : queue[i] # Head(queue)
  BY <1>2 DEF OnceInv, QueueOnce
<1>4. QueueOnce'
  <2>1. ASSUME NEW i \in 1..Len(Tail(queue)) PROVE status'[Tail(queue)[i]] = "queued"
    <3>1. i + 1 \in 2..Len(queue) /\ Tail(queue)[i] = queue[i + 1]
      BY <1>2
    <3>2. queue[i + 1] \in Task /\ queue[i + 1] # Head(queue)
      BY <1>1, <1>2, <1>3, <3>1, ElementOfSeq
    <3>3. QED
      BY <1>1, <1>2, <3>1, <3>2 DEF OnceInv, QueueOnce, TypeOK
  <2>2. ASSUME NEW i \in 1..Len(Tail(queue)), NEW j \in 1..Len(Tail(queue)),
               Tail(queue)[i] = Tail(queue)[j]
        PROVE  i = j
    <3>1. i + 1 \in 1..Len(queue) /\ j + 1 \in 1..Len(queue) /\ queue[i + 1] = queue[j + 1]
      BY <1>2, <2>2
    <3>2. i + 1 = j + 1
      BY <3>1 DEF OnceInv, QueueOnce
    <3>3. QED
      BY <1>2, <3>2
  <2>3. QED
    BY <1>1, <2>1, <2>2 DEF QueueOnce
<1>5. \A v \in Worker : Holding(v) => cur[v] # Head(queue)
  BY <1>3 DEF OnceInv, HeldOnce, Holding
<1>6. HeldOnce'
  BY <1>1, <1>2, <1>5 DEF OnceInv, HeldOnce, Holding, TypeOK
<1>7. CancelledInTime' /\ RunningHasThreads'
  BY <1>1, <1>2 DEF OnceInv, CancelledInTime, RunningHasThreads, TypeOK
<1>8. QED
  BY <1>4, <1>6, <1>7 DEF OnceInv

(* A worker begins, skips or ends the task that it alone holds.            *)
LEMMA HolderKeepsOnce ==
  ASSUME TypeOK, OnceInv, NEW w \in Worker,
         Begin(w) \/ SkipCancelled(w) \/ Return(w) \/ Throw(w)
  PROVE  OnceInv'
<1>1. Holding(w) /\ UNCHANGED <<pool, queue, cancelled>>
  BY DEF Begin, SkipCancelled, Return, Throw, EndOf, Holding
<1>2. cur[w] \in Task /\ status[cur[w]] = pc[w]
  BY <1>1 DEF OnceInv, HeldOnce
<1>3. PICK s \in {"running", "done", "dropped"}, p \in {"running", "waiting"} :
         /\ status' = [status EXCEPT ![cur[w]] = s]
         /\ pc' = [pc EXCEPT ![w] = p]
         /\ s = "running" <=> p = "running"
         /\ p = "running" => cur' = cur
         /\ \A v \in Worker \ {w} : cur'[v] = cur[v]
         /\ s = "dropped" \/ cur[w] \notin cancelled
  <2>1. CASE Begin(w)
    BY <2>1 DEF Begin
  <2>2. CASE SkipCancelled(w)
    BY <2>2 DEF SkipCancelled, TypeOK
  <2>3. CASE Return(w) \/ Throw(w)
    BY <1>2, <2>3 DEF Return, Throw, EndOf, TypeOK, OnceInv, CancelledInTime
  <2>4. QED
    BY <2>1, <2>2, <2>3
<1>4. QueueOnce'
  <2>1. \A i \in 1..Len(queue) : queue[i] # cur[w]
    BY <1>1, <1>2 DEF OnceInv, QueueOnce, Holding
  <2>2. QED
    BY <1>1, <1>2, <1>3, <2>1 DEF OnceInv, QueueOnce, TypeOK
<1>5. \A v \in Worker \ {w} : Holding(v) => cur[v] # cur[w]
  BY <1>1 DEF OnceInv, HeldOnce
<1>6. HeldOnce'
  BY <1>2, <1>3, <1>5 DEF OnceInv, HeldOnce, Holding, TypeOK
<1>7. CancelledInTime'
  BY <1>1, <1>2, <1>3 DEF OnceInv, CancelledInTime, TypeOK
<1>8. RunningHasThreads'
  BY <1>1, <1>3 DEF OnceInv, RunningHasThreads, TypeOK
<1>9. QED
  BY <1>4, <1>6, <1>7, <1>8 DEF OnceInv

LEMMA OnceInvInductive ==
  TypeOK /\ AccountInv /\ OnceInv /\ [Next]_vars => OnceInv'
<1> SUFFICES ASSUME TypeOK, AccountInv, OnceInv, [Next]_vars PROVE OnceInv'
  OBVIOUS
<1> USE DEF OnceInv, QueueOnce, HeldOnce, Holding, CancelledInTime, RunningHasThreads
<1>1. CASE Start
  BY <1>1 DEF Start, AccountInv, NoWorkerBeforeStart
<1>2. CASE Shutdown \/ Join
  BY <1>2 DEF Shutdown, Join
<1>3. ASSUME NEW k \in Task, Cancel(k) PROVE OnceInv'
  BY <1>3 DEF Cancel, Cancellable
<1>4. ASSUME NEW k \in Task, NEW t \in Thread, Async(t, k) \/ AsyncFirst(t, k)
      PROVE  OnceInv'
  BY <1>4, PushKeepsOnce DEF Async, AsyncFirst
<1>5. ASSUME NEW k \in Task, NEW w \in Worker, RunInline(w, k) PROVE OnceInv'
  <2>1. \A i \in 1..Len(queue) : queue[i] \in Task
    BY ElementOfSeq DEF TypeOK
  <2>2. QED
    BY <1>5, <2>1 DEF RunInline, TypeOK
<1>6. ASSUME NEW k \in Task, NEW c \in Client, Sync(c, k) PROVE OnceInv'
  BY <1>6, PushKeepsOnce DEF Sync, Thread
<1>7. ASSUME NEW t \in Thread, Post(t) PROVE OnceInv'
  BY <1>7 DEF Post
<1>8. ASSUME NEW c \in Client, SyncReturn(c) PROVE OnceInv'
  BY <1>8 DEF SyncReturn
<1>9. ASSUME NEW w \in Worker, Take(w) \/ Exit(w) PROVE OnceInv'
  BY <1>9 DEF Take, Exit, TypeOK
<1>10. ASSUME NEW w \in Worker, Pop(w) PROVE OnceInv'
  BY <1>10, PopKeepsOnce
<1>11. ASSUME NEW w \in Worker, Begin(w) \/ SkipCancelled(w) \/ Return(w) \/ Throw(w)
       PROVE  OnceInv'
  BY <1>11, HolderKeepsOnce
<1>12. CASE UNCHANGED vars
  BY <1>12 DEF vars
<1>13. QED
  BY <1>1, <1>2, <1>3, <1>4, <1>5, <1>6, <1>7, <1>8, <1>9, <1>10, <1>11, <1>12 DEF Next

LEMMA OnceInvariant == Spec => []OnceInv
<1>1. Init => OnceInv
  BY DEF Init, OnceInv, QueueOnce, HeldOnce, Holding, CancelledInTime, RunningHasThreads
<1>2. QED
  BY <1>1, OnceInvInductive, TypeCorrect, AccountInvariant, PTL DEF Spec

-----------------------------------------------------------------------------
(* The refinement mapping.  What it makes of a task's mark, of a pool that *)
(* has threads, and of one that does not.                                  *)
LEMMA MappedStatus ==
  ASSUME TypeOK, OnceInv, NEW k \in Task
  PROVE  /\ status[k] \in {"new", "running", "done"} => AbsStatus(k) = status[k]
         /\ status[k] = "dropped" \/ k \in cancelled => AbsStatus(k) = "cancelled"
         /\ status[k] \in {"queued", "popped"} /\ k \notin cancelled =>
              AbsStatus(k) = "accepted"
BY DEF OnceInv, CancelledInTime, AbsStatus, TypeOK

LEMMA MappedPhase ==
  ASSUME TypeOK
  PROVE  /\ pool = "created" => AbsPhase = "idle"
         /\ pool = "running" => AbsPhase = "open"
         /\ pool = "joined" => AbsPhase = "closed"
         /\ pool = "shutdown" /\ (\A w \in Worker : pc[w] = "none") => AbsPhase = "idle"
         /\ pool = "shutdown" /\ (\E w \in Worker : pc[w] # "none") => AbsPhase = "closing"
BY DEF AbsPhase, TypeOK

(* A worker inside run() finds the pool open or closing.                   *)
LEMMA WorkerSeesOpenPool ==
  ASSUME TypeOK, AccountInv, DrainInv, NEW w \in Worker, pc[w] \notin {"none", "exited"}
  PROVE  AbsPhase \in {"open", "closing"}
<1>1. pool \in {"running", "shutdown"}
  BY DEF AccountInv, NoWorkerBeforeStart, DrainInv, JoinedAllGone, TypeOK
<1>2. QED
  BY <1>1, MappedPhase

(* A step of one worker that has a thread leaves the phase alone.          *)
LEMMA PhaseStays ==
  ASSUME UNCHANGED pool,
         \A w \in Worker : pc'[w] = pc[w] \/ (pc[w] # "none" /\ pc'[w] # "none")
  PROVE  AbsPhase' = AbsPhase
<1>1. (\E w \in Worker : pc'[w] # "none") <=> (\E w \in Worker : pc[w] # "none")
  OBVIOUS
<1>2. QED
  BY <1>1 DEF AbsPhase

(* The abstract step in which one task changes its status.                 *)
LEMMA MappedMove ==
  ASSUME NEW k \in Task, NEW from, NEW to, AbsPhase' = AbsPhase,
         AbsStatus(k) = from, AbsStatus(k)' = to,
         \A l \in Task \ {k} : AbsStatus(l)' = AbsStatus(l)
  PROVE  Abs!Move(k, from, to)
BY DEF Abs!Move

(* The status of the tasks that a step does not touch.                     *)
LEMMA OthersKeepStatus ==
  ASSUME NEW l \in Task, status'[l] = status[l], l \in cancelled' <=> l \in cancelled
  PROVE  AbsStatus(l)' = AbsStatus(l)
BY DEF AbsStatus

(* The abstract step, or stutter, of a task whose mark becomes s.          *)
LEMMA TaskMoves ==
  ASSUME TypeOK, OnceInv, NEW k \in Task, NEW s, AbsPhase' = AbsPhase,
         UNCHANGED cancelled, status' = [status EXCEPT ![k] = s]
  PROVE  /\ status[k] = "new" /\ s = "queued" => Abs!Move(k, "new", "accepted")
         /\ status[k] = "new" /\ s = "done" => Abs!Move(k, "new", "done")
         /\ status[k] = "popped" /\ k \notin cancelled /\ s = "running" =>
              Abs!Move(k, "accepted", "running")
         /\ status[k] = "running" /\ s = "done" => Abs!Move(k, "running", "done")
         /\ status[k] \in {"queued", "popped"} /\ k \notin cancelled /\ s = "popped" =>
              UNCHANGED Abs!vars
         /\ k \in cancelled /\ s = "dropped" => UNCHANGED Abs!vars
         /\ k \in cancelled /\ s = "popped" => UNCHANGED Abs!vars
<1>1. status'[k] = s /\ \A l \in Task \ {k} : status'[l] = status[l]
  BY DEF TypeOK
<1>2. \A l \in Task \ {k} : AbsStatus(l)' = AbsStatus(l)
  BY <1>1, OthersKeepStatus
<1>3. /\ s \in {"running", "done"} /\ k \notin cancelled => AbsStatus(k)' = s
      /\ s \in {"queued", "popped"} /\ k \notin cancelled => AbsStatus(k)' = "accepted"
      /\ s \in {"queued", "popped", "dropped"} /\ k \in cancelled =>
           AbsStatus(k)' = "cancelled"
  BY <1>1 DEF AbsStatus
<1>4. k \in cancelled => status[k] \in {"queued", "popped", "dropped"}
  BY DEF OnceInv, CancelledInTime
<1>5. AbsStatus(k)' = AbsStatus(k) => UNCHANGED Abs!vars
  BY <1>2 DEF Abs!vars
<1>6. QED
  BY <1>2, <1>3, <1>4, <1>5, MappedStatus, MappedMove

(* What the callers do is seen as Accept, RunInline or Cancel.             *)
LEMMA CallRefines ==
  ASSUME TypeOK, AccountInv, DrainInv, OnceInv, NEW k \in Task,
         \/ Cancel(k)
         \/ \E t \in Thread : Async(t, k) \/ AsyncFirst(t, k)
         \/ \E w \in Worker : RunInline(w, k)
         \/ \E c \in Client : Sync(c, k)
  PROVE  Abs!Accept(k) \/ Abs!RunInline(k) \/ Abs!Cancel(k)
<1>1. CASE Cancel(k)
  <2>1. /\ status[k] \in {"queued", "popped"} /\ k \notin cancelled
        /\ cancelled' = cancelled \cup {k} /\ UNCHANGED <<pool, pc, status>>
    BY <1>1 DEF Cancel, Cancellable
  <2>2. AbsStatus(k) = "accepted" /\ AbsPhase' = AbsPhase
    BY <2>1, MappedStatus, PhaseStays
  <2>3. AbsStatus(k)' = "cancelled"
    BY <2>1 DEF AbsStatus
  <2>4. \A l \in Task \ {k} : AbsStatus(l)' = AbsStatus(l)
    BY <2>1, OthersKeepStatus
  <2>5. QED
    BY <2>2, <2>3, <2>4, MappedMove DEF Abs!Cancel
<1>2. ASSUME NEW t \in Thread, NEW q, Push(t, k, q) PROVE Abs!Accept(k)
  <2>1. /\ status[k] = "new" /\ status' = [status EXCEPT ![k] = "queued"]
        /\ UNCHANGED <<pool, pc, cancelled>> /\ MayCall(t)
    BY <1>2 DEF Push
  <2>2. AbsPhase # "closed"
    <3>1. CASE t \in Worker
      BY <2>1, <3>1, WorkerSeesOpenPool DEF MayCall
    <3>2. CASE t \notin Worker
      BY <2>1, <3>2, MappedPhase DEF MayCall
    <3>3. QED
      BY <3>1, <3>2
  <2>3. QED
    BY <2>1, <2>2, PhaseStays, TaskMoves DEF Abs!Accept
<1>3. ASSUME NEW w \in Worker, RunInline(w, k) PROVE Abs!RunInline(k)
  <2>1. /\ status[k] = "new" /\ status' = [status EXCEPT ![k] = "done"]
        /\ UNCHANGED <<pool, pc, cancelled>> /\ pc[w] = "running"
    BY <1>3 DEF RunInline, MayCall
  <2>2. QED
    BY <2>1, WorkerSeesOpenPool, PhaseStays, TaskMoves DEF Abs!RunInline
<1>4. QED
  BY <1>1, <1>2, <1>3 DEF Async, AsyncFirst, Sync, Thread

(* A worker's steps are seen as Begin and End, or not at all.              *)
LEMMA WorkerRefines ==
  ASSUME TypeOK, AccountInv, DrainInv, OnceInv, NEW w \in Worker,
         \/ Take(w) \/ Pop(w) \/ Exit(w) \/ Begin(w) \/ SkipCancelled(w)
         \/ Return(w) \/ Throw(w)
  PROVE  (\E k \in Task : Abs!Begin(k) \/ Abs!End(k)) \/ UNCHANGED Abs!vars
<1>1. pc[w] \notin {"none", "exited"} /\ UNCHANGED <<pool, cancelled>>
  BY DEF Take, Pop, Exit, Begin, SkipCancelled, Return, Throw, EndOf
<1>2. AbsPhase' = AbsPhase
  <2>1. \A v \in Worker : pc'[v] = pc[v] \/ (pc[v] # "none" /\ pc'[v] # "none")
    BY <1>1 DEF TypeOK, Take, Pop, Exit, Begin, SkipCancelled, Return, Throw, EndOf
  <2>2. QED
    BY <1>1, <2>1, PhaseStays
<1>3. AbsPhase \in {"open", "closing"}
  BY <1>1, WorkerSeesOpenPool
<1>4. CASE Take(w) \/ Exit(w)
  <2>1. UNCHANGED status
    BY <1>4 DEF Take, Exit
  <2>2. \A l \in Task : AbsStatus(l)' = AbsStatus(l)
    BY <1>1, <2>1, OthersKeepStatus
  <2>3. QED
    BY <1>2, <2>2 DEF Abs!vars
<1>5. CASE Pop(w)
  <2>1. Head(queue) \in Task /\ status[Head(queue)] = "queued"
    BY <1>5, PoppedQueue, HeadTailProperties, LenProperties
    DEF Pop, TypeOK, OnceInv, QueueOnce
  <2>2. status' = [status EXCEPT ![Head(queue)] = "popped"]
    BY <1>5 DEF Pop
  <2>3. QED
    BY <1>1, <1>2, <2>1, <2>2, TaskMoves
<1>6. CASE Begin(w) \/ SkipCancelled(w) \/ Return(w) \/ Throw(w)
  <2>1. Holding(w)
    BY <1>6 DEF Holding, Begin, SkipCancelled, Return, Throw, EndOf
  <2>2. cur[w] \in Task /\ status[cur[w]] = pc[w]
    BY <2>1 DEF OnceInv, HeldOnce
  <2>3. CASE Begin(w)
    <3>1. /\ status[cur[w]] = "popped" /\ cur[w] \notin cancelled
          /\ status' = [status EXCEPT ![cur[w]] = "running"]
      BY <2>2, <2>3 DEF Begin
    <3>2. QED
      BY <1>1, <1>2, <1>3, <2>2, <3>1, TaskMoves DEF Abs!Begin
  <2>4. CASE SkipCancelled(w)
    <3>1. cur[w] \in cancelled /\ status' = [status EXCEPT ![cur[w]] = "dropped"]
      BY <2>4 DEF SkipCancelled
    <3>2. QED
      BY <1>1, <1>2, <2>2, <3>1, TaskMoves
  <2>5. CASE Return(w) \/ Throw(w)
    <3>1. status[cur[w]] = "running" /\ status' = [status EXCEPT ![cur[w]] = "done"]
      BY <2>2, <2>5 DEF Return, Throw, EndOf
    <3>2. QED
      BY <1>1, <1>2, <1>3, <2>2, <3>1, TaskMoves DEF Abs!End
  <2>6. QED
    BY <1>6, <2>3, <2>4, <2>5
<1>7. QED
  BY <1>4, <1>5, <1>6

(* Start opens, the destructor closes and, once all is drained, is closed; *)
(* a pool that never started is abandoned when it is joined.               *)
LEMMA PoolLifeRefines ==
  ASSUME TypeOK, AccountInv, DrainInv, OnceInv, TypeOK', DrainInv',
         Start \/ Shutdown \/ Join
  PROVE  Abs!Open \/ Abs!Close \/ Abs!Closed \/ Abs!Abandon \/ UNCHANGED Abs!vars
<1>1. UNCHANGED <<status, cancelled>>
  BY DEF Start, Shutdown, Join
<1>2. \A l \in Task : AbsStatus(l)' = AbsStatus(l)
  BY <1>1, OthersKeepStatus
<1>3. UNCHANGED [k \in Task |-> AbsStatus(k)]
  BY <1>2
<1>4. CASE Start
  <2>1. AbsPhase = "idle" /\ AbsPhase' = "open"
    BY <1>4 DEF Start, AbsPhase
  <2>2. QED
    BY <1>3, <2>1 DEF Abs!Open
<1>5. CASE Shutdown
  <2>1. pool' = "shutdown" /\ UNCHANGED pc /\ pool \in {"created", "running"}
    BY <1>5 DEF Shutdown
  <2>2. CASE pool = "created"
    <3>1. \A w \in Worker : pc[w] = "none"
      BY <2>2 DEF AccountInv, NoWorkerBeforeStart
    <3>2. AbsPhase = "idle" /\ AbsPhase' = "idle"
      BY <2>1, <2>2, <3>1 DEF AbsPhase
    <3>3. QED
      BY <1>3, <3>2 DEF Abs!vars
  <2>3. CASE pool = "running"
    <3>1. \E w \in Worker : pc[w] # "none"
      BY <2>3, WorkerAssumption DEF OnceInv, RunningHasThreads
    <3>2. AbsPhase = "open" /\ AbsPhase' = "closing"
      BY <2>1, <2>3, <3>1 DEF AbsPhase
    <3>3. QED
      BY <1>3, <3>2 DEF Abs!Close
  <2>4. QED
    BY <2>1, <2>2, <2>3
<1>6. CASE Join
  <2>1. /\ pool = "shutdown" /\ pool' = "joined" /\ UNCHANGED pc
        /\ \A w \in Worker : pc[w] \in {"none", "exited"}
    BY <1>6 DEF Join
  <2>2. AbsPhase' = "closed"
    BY <2>1 DEF AbsPhase
  <2>3. CASE \A w \in Worker : pc[w] = "none"
    <3>1. AbsPhase = "idle"
      BY <2>1, <2>3, MappedPhase
    <3>2. QED
      BY <1>3, <2>2, <3>1 DEF Abs!Abandon
  <2>4. CASE \E w \in Worker : pc[w] # "none"
    <3>1. AbsPhase = "closing"
      BY <2>1, <2>4, MappedPhase
    <3>2. Exited' # {}
      BY <2>1, <2>4 DEF Exited
    <3>3. DrainedWhenJoined'
      BY DrainInvSuffices, PTL
    <3>4. \A k \in Task : status[k] \in {"new", "done", "dropped"}
      BY <1>1, <2>1, <3>2, <3>3 DEF DrainedWhenJoined, InHand, TypeOK
    <3>5. \A k \in Task : AbsStatus(k) \notin {"accepted", "running"}
      BY <3>4, MappedStatus
    <3>6. QED
      BY <1>3, <2>2, <3>1, <3>5 DEF Abs!Closed
  <2>5. QED
    BY <2>3, <2>4
<1>7. QED
  BY <1>4, <1>5, <1>6

(* The pool is a task executor, for any number of threads, clients and     *)
(* tasks: a task runs at most once and never after a cancel() that came    *)
(* before its start, and the destructor of a started pool returns when no  *)
(* task is left (ThreadPool.h:43-67 and 113-130).                          *)
THEOREM ExecutorSafety == Spec => Abs!SafetySpec
<1>1. Init => Abs!Init
  BY DEF Init, Abs!Init, AbsPhase, AbsStatus
<1>2. TypeOK /\ AccountInv /\ DrainInv /\ OnceInv /\ TypeOK' /\ DrainInv' /\ [Next]_vars
        => [Abs!Next]_(Abs!vars)
  <2> SUFFICES ASSUME TypeOK, AccountInv, DrainInv, OnceInv, TypeOK', DrainInv', [Next]_vars
               PROVE  [Abs!Next]_(Abs!vars)
    OBVIOUS
  <2>1. CASE Start \/ Shutdown \/ Join
    BY <2>1, PoolLifeRefines DEF Abs!Next
  <2>2. ASSUME NEW k \in Task,
               \/ Cancel(k)
               \/ \E t \in Thread : Async(t, k) \/ AsyncFirst(t, k)
               \/ \E w \in Worker : RunInline(w, k)
               \/ \E c \in Client : Sync(c, k)
        PROVE  [Abs!Next]_(Abs!vars)
    BY <2>2, CallRefines DEF Abs!Next
  <2>3. CASE \/ \E t \in Thread : Post(t)
             \/ \E c \in Client : SyncReturn(c)
             \/ UNCHANGED vars
    <3>1. UNCHANGED <<pool, pc, status, cancelled>>
      BY <2>3 DEF Post, SyncReturn, vars
    <3>2. AbsPhase' = AbsPhase /\ \A l \in Task : AbsStatus(l)' = AbsStatus(l)
      BY <3>1, PhaseStays, OthersKeepStatus
    <3>3. QED
      BY <3>2 DEF Abs!vars
  <2>4. ASSUME NEW w \in Worker,
               \/ Take(w) \/ Pop(w) \/ Exit(w) \/ Begin(w) \/ SkipCancelled(w)
               \/ Return(w) \/ Throw(w)
        PROVE  [Abs!Next]_(Abs!vars)
    BY <2>4, WorkerRefines DEF Abs!Next
  <2>5. QED
    BY <2>1, <2>2, <2>3, <2>4 DEF Next
<1>3. QED
  BY <1>1, <1>2, TypeCorrect, AccountInvariant, DrainInvariant, OnceInvariant, PTL
  DEF Spec, Abs!SafetySpec

-----------------------------------------------------------------------------
(* The semaphore on which the workers sleep, whoever waits on it.          *)
CONSTANTS MaxPost, MaxCount

Sem == INSTANCE Semaphore

(* The counter is never negative and every thread is at a known place:     *)
(* wait() takes a permit only when its while loop saw one (semaphore.h:64).*)
THEOREM SemaphoreTypes ==
  ASSUME MaxPost \in Nat
  PROVE  Sem!Spec => []Sem!TypeOK
<1>1. Sem!Init => Sem!TypeOK
  BY DEF Sem!Init, Sem!TypeOK, Sem!Where
<1>2. Sem!TypeOK /\ [Sem!Next]_(Sem!vars) => Sem!TypeOK'
  <2> SUFFICES ASSUME Sem!TypeOK, [Sem!Next]_(Sem!vars) PROVE Sem!TypeOK'
    OBVIOUS
  <2>1. ASSUME NEW n \in 0..MaxPost, Sem!Post(n) PROVE Sem!TypeOK'
    BY <2>1 DEF Sem!TypeOK, Sem!Post, Sem!Wake, Sem!Where
  <2>2. ASSUME NEW t \in Caller, Sem!Call(t) PROVE Sem!TypeOK'
    BY <2>2 DEF Sem!TypeOK, Sem!Call, Sem!Where
  <2>3. ASSUME NEW t \in Caller, Sem!Sleep(t) PROVE Sem!TypeOK'
    BY <2>3 DEF Sem!TypeOK, Sem!Sleep, Sem!Where
  <2>4. ASSUME NEW t \in Caller, Sem!Take(t) PROVE Sem!TypeOK'
    BY <2>4 DEF Sem!TypeOK, Sem!Take, Sem!Where
  <2>5. ASSUME NEW t \in Caller, Sem!SpuriousWakeup(t) PROVE Sem!TypeOK'
    BY <2>5 DEF Sem!TypeOK, Sem!SpuriousWakeup, Sem!Wake, Sem!Where
  <2>6. CASE UNCHANGED Sem!vars
    BY <2>6 DEF Sem!TypeOK, Sem!vars
  <2>7. QED
    BY <2>1, <2>2, <2>3, <2>4, <2>5, <2>6 DEF Sem!Next
<1>3. QED
  BY <1>1, <1>2, PTL DEF Sem!Spec

-----------------------------------------------------------------------------
(* The count of a set of threads, in Semaphore and here.                   *)
LEMMA SameCount == \A S : Sem!Cardinality(S) = Cardinality(S)
BY DEF Sem!Cardinality, Cardinality

(* The woken threads form a finite set, before and after a step.           *)
LEMMA WokenFinite ==
  ASSUME IsFiniteSet(Caller)
  PROVE  /\ IsFiniteSet(Sem!Woken) /\ Cardinality(Sem!Woken) \in Nat
         /\ IsFiniteSet(Sem!Woken') /\ Cardinality(Sem!Woken') \in Nat
<1>1. Sem!Woken \in SUBSET Caller /\ Sem!Woken' \in SUBSET Caller
  BY DEF Sem!Woken
<1>2. QED
  BY <1>1, FS_Subset, FS_CardinalityType

(* A step that leaves the woken threads alone or adds to them does not     *)
(* make their number smaller.                                              *)
LEMMA WokenGrows ==
  ASSUME IsFiniteSet(Caller), Sem!Woken \subseteq Sem!Woken'
  PROVE  Cardinality(Sem!Woken) <= Cardinality(Sem!Woken')
BY WokenFinite, FS_Subset

(* A post keeps the wakeups matched: post(1) wakes one more sleeper for    *)
(* its permit, any other post leaves nobody asleep.                        *)
LEMMA PostNoLostWakeup ==
  ASSUME IsFiniteSet(Caller), MaxPost \in Nat, Sem!TypeOK, Sem!NoLostWakeup,
         NEW n \in 0..MaxPost, Sem!Post(n)
  PROVE  Sem!NoLostWakeup'
<1>1. PICK S \in Sem!Notified(n) : Sem!Wake(S)
  BY DEF Sem!Post
<1>2. n \in Nat /\ count \in Nat /\ count' = count + n
  BY DEF Sem!Post, Sem!TypeOK
<1>3. Sem!Woken' = Sem!Woken \cup (S \cap Caller) /\ Sem!Asleep' = Sem!Asleep \ S
  BY <1>1 DEF Sem!Wake, Sem!Woken, Sem!Asleep, Sem!TypeOK
<1>4. CASE n # 1
  <2>1. Sem!Asleep' = {}
    BY <1>3, <1>4 DEF Sem!Notified
  <2>2. QED
    BY <2>1 DEF Sem!NoLostWakeup
<1>5. CASE n = 1 /\ Sem!Asleep = {}
  BY <1>3, <1>5 DEF Sem!NoLostWakeup
<1>6. CASE n = 1 /\ Sem!Asleep # {}
  <2>1. PICK t \in Sem!Asleep : S = {t}
    BY <1>6 DEF Sem!Notified, Sem!NotifyOne
  <2>2. t \in Caller /\ t \notin Sem!Woken
    BY DEF Sem!Asleep, Sem!Woken
  <2>3. Sem!Woken' = Sem!Woken \cup {t}
    BY <1>3, <2>1, <2>2
  <2>4. Cardinality(Sem!Woken') = Cardinality(Sem!Woken) + 1
    BY <2>2, <2>3, WokenFinite, FS_AddElement
  <2>5. QED
    BY <1>2, <1>6, <2>4, WokenFinite, SameCount DEF Sem!NoLostWakeup
<1>7. QED
  BY <1>4, <1>5, <1>6

(* A thread that takes a permit uses up at most one wakeup with it.        *)
LEMMA TakeNoLostWakeup ==
  ASSUME IsFiniteSet(Caller), Sem!TypeOK, Sem!NoLostWakeup, NEW t \in Caller, Sem!Take(t)
  PROVE  Sem!NoLostWakeup'
<1>1. count \in Nat /\ count' = count - 1
  BY DEF Sem!Take, Sem!TypeOK
<1>2. Sem!Woken' = Sem!Woken \ {t} /\ Sem!Asleep' = Sem!Asleep
  BY DEF Sem!Take, Sem!HoldsMutexNext, Sem!Woken, Sem!Asleep, Sem!TypeOK
<1>3. Cardinality(Sem!Woken') >= Cardinality(Sem!Woken) - 1
  BY <1>2, WokenFinite, FS_RemoveElement
<1>4. QED
  BY <1>1, <1>2, <1>3, WokenFinite, SameCount DEF Sem!NoLostWakeup

(* While a thread sleeps, every permit on the counter has a woken thread   *)
(* on its way to it (semaphore.h:43-69).                                   *)
THEOREM NoWakeupIsLost ==
  ASSUME IsFiniteSet(Caller), MaxPost \in Nat
  PROVE  Sem!Spec => []NoLostWakeup
<1>1. Sem!Init => Sem!NoLostWakeup
  BY DEF Sem!Init, Sem!NoLostWakeup, Sem!Asleep
<1>2. Sem!TypeOK /\ Sem!NoLostWakeup /\ [Sem!Next]_(Sem!vars) => Sem!NoLostWakeup'
  <2> SUFFICES ASSUME Sem!TypeOK, Sem!NoLostWakeup, [Sem!Next]_(Sem!vars) PROVE Sem!NoLostWakeup'
    OBVIOUS
  <2>1. ASSUME NEW n \in 0..MaxPost, Sem!Post(n) PROVE Sem!NoLostWakeup'
    BY <2>1, PostNoLostWakeup
  <2>2. ASSUME NEW t \in Caller, Sem!Call(t) PROVE Sem!NoLostWakeup'
    <3>1. Sem!Asleep' = Sem!Asleep /\ Sem!Woken' = Sem!Woken /\ count' = count
      BY <2>2 DEF Sem!Call, Sem!Asleep, Sem!Woken, Sem!TypeOK
    <3>2. QED
      BY <3>1 DEF Sem!NoLostWakeup
  <2>3. ASSUME NEW t \in Caller, Sem!Sleep(t) PROVE Sem!NoLostWakeup'
    BY <2>3, WokenFinite, SameCount DEF Sem!Sleep, Sem!NoLostWakeup
  <2>4. ASSUME NEW t \in Caller, Sem!Take(t) PROVE Sem!NoLostWakeup'
    BY <2>4, TakeNoLostWakeup
  <2>5. ASSUME NEW t \in Caller, Sem!SpuriousWakeup(t) PROVE Sem!NoLostWakeup'
    <3>1. Sem!Woken \subseteq Sem!Woken' /\ Sem!Asleep' \subseteq Sem!Asleep /\ count' = count
      BY <2>5 DEF Sem!SpuriousWakeup, Sem!Wake, Sem!Asleep, Sem!Woken
    <3>2. QED
      BY <3>1, WokenGrows, WokenFinite, SameCount DEF Sem!NoLostWakeup, Sem!TypeOK
  <2>6. CASE UNCHANGED Sem!vars
    BY <2>6 DEF Sem!vars, Sem!NoLostWakeup, Sem!Asleep, Sem!Woken
  <2>7. QED
    BY <2>1, <2>2, <2>3, <2>4, <2>5, <2>6 DEF Sem!Next
<1>3. Sem!NoLostWakeup => NoLostWakeup
  BY SameCount DEF Sem!NoLostWakeup, Sem!Asleep, Sem!Woken, NoLostWakeup, Asleep, Woken
<1>4. QED
  BY <1>1, <1>2, <1>3, SemaphoreTypes, PTL DEF Sem!Spec

-----------------------------------------------------------------------------
(* Every step of the condition-variable semaphore is a step of the         *)
(* counting semaphore or changes nothing a caller can see: sleeping and    *)
(* spurious wakeups are invisible, and wait() returns exactly when it      *)
(* takes one permit (semaphore.h:43-69).                                   *)
THEOREM SemaphoreSafety ==
  ASSUME MaxPost \in Nat
  PROVE  Sem!Spec => Sem!Abs!SafetySpec
<1>1. Sem!Init => Sem!Abs!Init
  BY DEF Sem!Init, Sem!Abs!Init
<1>2. Sem!TypeOK /\ [Sem!Next]_(Sem!vars) => [Sem!Abs!Next]_(Sem!Abs!vars)
  <2> SUFFICES ASSUME Sem!TypeOK, [Sem!Next]_(Sem!vars) PROVE [Sem!Abs!Next]_(Sem!Abs!vars)
    OBVIOUS
  <2> DEFINE B == {t \in Caller : place[t] # "out"}
  <2>1. ASSUME NEW n \in 0..MaxPost, Sem!Post(n) PROVE Sem!Abs!Next
    <3>1. PICK S \in Sem!Notified(n) : Sem!Wake(S)
      BY <2>1 DEF Sem!Post
    <3>2. S \subseteq Sem!Asleep
      BY <3>1 DEF Sem!Notified, Sem!NotifyOne
    <3>3. B' = B
      BY <3>1, <3>2 DEF Sem!Wake, Sem!Asleep
    <3>4. Sem!Abs!Post(n)
      BY <2>1, <3>3 DEF Sem!Post, Sem!Abs!Post
    <3>5. QED
      BY <3>4 DEF Sem!Abs!Next
  <2>2. ASSUME NEW t \in Caller, Sem!Call(t) PROVE Sem!Abs!Next
    <3>1. B' = B \cup {t} /\ t \notin B
      BY <2>2 DEF Sem!Call, Sem!TypeOK
    <3>2. Sem!Abs!Call(t)
      BY <2>2, <3>1 DEF Sem!Call, Sem!Abs!Call
    <3>3. QED
      BY <3>2 DEF Sem!Abs!Next
  <2>3. ASSUME NEW t \in Caller, Sem!Sleep(t) PROVE UNCHANGED Sem!Abs!vars
    <3>1. B' = B
      BY <2>3 DEF Sem!Sleep, Sem!HoldsMutexNext, Sem!TypeOK
    <3>2. QED
      BY <2>3, <3>1 DEF Sem!Sleep, Sem!Abs!vars
  <2>4. ASSUME NEW t \in Caller, Sem!Take(t) PROVE Sem!Abs!Next
    <3>1. B' = B \ {t} /\ t \in B
      BY <2>4 DEF Sem!Take, Sem!HoldsMutexNext, Sem!TypeOK
    <3>2. count > 0 /\ count' = count - 1
      BY <2>4 DEF Sem!Take, Sem!TypeOK
    <3>3. Sem!Abs!Return(t)
      BY <3>1, <3>2 DEF Sem!Abs!Return
    <3>4. QED
      BY <3>3 DEF Sem!Abs!Next, Sem!Abs!SomeReturn
  <2>5. ASSUME NEW t \in Caller, Sem!SpuriousWakeup(t) PROVE UNCHANGED Sem!Abs!vars
    <3>1. B' = B
      BY <2>5 DEF Sem!SpuriousWakeup, Sem!Wake
    <3>2. QED
      BY <2>5, <3>1 DEF Sem!SpuriousWakeup, Sem!Abs!vars
  <2>6. CASE UNCHANGED Sem!vars
    BY <2>6 DEF Sem!vars, Sem!Abs!vars
  <2>7. QED
    BY <2>1, <2>2, <2>3, <2>4, <2>5, <2>6 DEF Sem!Next
<1>3. QED
  BY <1>1, <1>2, SemaphoreTypes, PTL DEF Sem!Spec, Sem!Abs!SafetySpec
==============================================================================
