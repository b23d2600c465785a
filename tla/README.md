# TcpSvr in TLA+

This directory holds TLA+ specifications of the TcpSvr repository, the TLC
configurations that check them on small instances, and TLAPS proofs of the
results that hold for every instance. Every definition is translated from the
source; where a comment or a message in the source says something else than the
code does, the model follows the code, and section 6 lists the difference.

Paths below are relative to the repository (`ctcpsvr/...`, `include/...`).

## 1. The system

The repository contains two servers and the library one of them is built on.

* `ctcpsvr/` is a C-style server: one listener thread, one thread per
  connection, a table of at most `MAX_TCP_CLIENT` sessions shared by both
  without a lock, a log file, a configuration file, and a redis client.
* `tcpsvr.cpp` is a small echo server on top of the *ZLToolKit* headers in
  `include/` (thread pool, semaphore, sessions, pools, buffers). Part of
  ZLToolKit is header-only and is modelled from its source; the rest
  (EventPoller, Socket, Timer) is declared here and linked from
  `lib/libZLToolKit.a`, for which there is no source.

### Inventory

| Component | State | Operations | Interacts with | What is hard | What makes it correct |
|---|---|---|---|---|---|
| semaphore (`include/Thread/semaphore.h`) | `_count`, the sleepers of a condition variable | `post(n)`, `wait()` | TaskQueue, `sync()` | a newcomer steals the permit of a woken thread; spurious wakeups; `post(n)` notifies one or all | no thread sleeps beside a permit; it is a counting semaphore |
| ThreadPool, TaskQueue, thread_group (`include/Thread/`) | a list of tasks, a semaphore, the threads | `async`, `async_first`, `sync`, `start`, destructor | semaphore, TaskExecutor's cancelable tasks | push and post are two steps, so are wait and pop; tasks submit, are cancelled and throw; shutdown by counting permits | permits match tasks; each accepted task runs once; the destructor returns, with nothing left |
| TaskExecutor (`include/Thread/TaskExecutor.h`) | a task's strong and weak reference; a load window | `cancel`, call, `sync`, load | ThreadPool, EventPoller | cancel against call | at most one run, none after a cancel |
| ctcpsvr server (`ctcpsvr/tcpsvr.cpp`, `netsock.cpp`, `vos.cpp`) | `gTcpIns[]`, `gTcpMainTrd`, one `entity_ctrl_t` per session, descriptors | accept, create, serve, sweep, signal | sockets, log, configuration | threads share entities with no lock; a freed block and a closed descriptor are handed out again; a signal handler destroys sessions and logs | a freed session is used only where section 6 says; descriptors are not shared; no connection and no session is stray (ended threads are: nobody joins them); ended sessions are reclaimed; the process exits |
| ctcpsvr handlers (`ctcpsvr/tcpsvr.cpp:56-152`) | the receive buffer | split, parse, answer | server | TCP splits and joins messages | no message is lost or split |
| log file (`ctcpsvr/logfile.cpp`) | a file, a mutex | write, rotate | every component | rotation against writers, same-second rotations, failing `fopen` | nothing logged is overwritten |
| configuration file (`ctcpsvr/cfgfile.cpp`) | a table of entries; the file and its POSIX lock | open, find, write, remove, commit | main; other programs | deletions and insertions by position in an array; a file shared by programs that may be killed | it is a persistent map; commits do not mix; readers see whole files |
| redis client (`ctcpsvr/redis_api.cpp`) | a connection, a mutex, a client-side queue length | push, pop, get, set, reconnect | redis server | reconnect outside the lock; a counter that drifts from the server's | the queue length is right; no use of a freed connection; a command reaches its database |
| echo server (`tcpsvr.cpp`) | sessions, a semaphore | `onRecv`, `onManager`, signals | TcpServer | a short frame; handlers that post a semaphore | each frame is answered; the process exits |
| TcpServer, TcpSession (`include/Network/`) | session map | accept, error, scan, destroy | Socket, EventPoller | a session ends while the map is scanned | told of its end once |
| ResourcePool, SqlPool (`include/Util/`) | idle objects, reference counts; queued and failed statements | obtain, recycle, quit; query, retry | database, an executor, a timer | objects come back to a pool that is being destroyed; retries while it closes | an object is in one place; a statement has one retry and runs in the end |
| NoticeCenter (`include/Util/`) | events to dispatchers to listeners, two locks | add, delete, clear, emit | any thread | removal during dispatch; a dispatcher leaves the map | a registered listener is reached; nobody is skipped |
| RingBuffer (`include/Util/`) | a cache, dispatchers per poller, readers | write, attach, listen, drop | EventPoller | caches are copied while items are under way; readers die in any thread | each reader gets the stream without gap or repetition, and its end |
| utilities, vendored code, test client | — | formatting, wrappers | — | — | — |

`PROJECT.json` lists every component with its status, and under `hazards` the
places in this code that tests hardly reach, with the properties that watch
them. A hazard without a property says why none can have one, which is mostly that
the code fails there: those are in section 6.

## 2. The modules

```
CountingSemaphore <-refines- Semaphore            ThreadPool_proofs
       (permits)
          |  used as the pool's semaphore
TaskExecutor      <-refines- ThreadPool           ThreadPool_proofs
                             TcpSvr               TcpSvr_proofs
Settings          <-refines- CfgFile              CfgFile_proofs
                             CfgStore             CfgFile_proofs
ResourcePool   <-extended by- SqlPool             SqlPool_proofs
                             NoticeCenter         NoticeCenter_proofs
                             RedisApi             RedisApi_proofs
Feed              <-refines- RingBuffer           RingBuffer_proofs
                             TcpServer            TcpServer_proofs
```

`MC*` modules only give constants finite values. Operators marked "Mutant"
(`Take_NoWait`, `Reap_AnyState`, ...) stand above the action they spoil; they
are plausible bugs used to show that each property can fail, and no
specification uses them.

### Semaphore, SemaphoreState, CountingSemaphore

`semaphore.h` as compiled (`HAVE_SEM` is commented out). One critical section
under `_mutex` is one step: `Post` adds n and notifies one sleeper or all
(l.51-55); a thread in `wait` is "locking", "asleep", "woken", and `Sleep` and
`Take` are the two outcomes of the `while` of l.64. `SpuriousWakeup` is the
condition variable's freedom. `CountingSemaphore` is what the class promises:
permits, callers, and the fairness that a caller returns when permits remain.
`SemaphoreState` holds the variables and what is said of them, for `Semaphore` and for
the theorems.

### ThreadPool, TaskExecutor

`ThreadPool.tla` composes ThreadPool, TaskQueue, thread_group and cancelable
tasks over the counting semaphore that `Semaphore` implements. `Async`,
`AsyncFirst` and `Sync` are the locked push; `Post` is the later `_sem.post()`;
`Take` is `_sem.wait()`, `Pop`/`Exit` the locked half of `get_task`; `Begin`,
`SkipCancelled`, `Return`, `Throw` are `run` (l.113-130). A running task may
submit others, inline (`RunInline`) or queued, also during shutdown. `Shutdown`
posts `thread_num` exit permits and `Join` waits. Sync callers wait on a token
that is posted even if the task throws. `TaskExecutor` is the promise: a task is
accepted, then runs once and ends, or was cancelled before its start.

### TcpSvr

`main`, the signal handler, the listener, connection threads, peers and kernel
descriptors. What is atomic is one read or write of shared memory or one system
call, since no lock protects `gTcpIns`. `main`/`lpc`/`pc` hold the places;
`slot` is `gTcpIns[i].pTrdTcb`; `mem`, `state`, `sock` are the fields of an
entity; `ent` is the pointer a thread was started with and `local` its copy of the
descriptor (l.171). A Session is a heap block, which `malloc` hands out again as
soon as it is free, whoever still names it; a Thread is created once, since its
joins are commented out (l.230, 235), and ends at "ended". Reading a freed block
gives any state or kills the process (`UseFault`), a write to it is lost or does
the same, and destroying it again aborts. A descriptor number is chosen among
those closed.
Data is abstracted to what control depends on: `Handle`, `Incomplete`, `Quiet`,
`Broken` are the outcomes of one `NET_PollAndRev`; "gone" is a connection on
which the end is next to be read. One signal is modelled, delivered to main,
which may be inside `TcpPrint` at two places (`announce`, `report`).

### CfgFile, Settings

The table of one program. A line is a section, a pair, a text or a remark, and
whether it is indented or starts with '#'. `Open` is `cfg_init`, `Find` is
`cfg_find` and `Set`, `RemoveKey`, `RemoveSection`, `IniSet` the four ways
through `cfg_write`, each with its table growth (`Room`) and the remarks it
takes away (`NotesAbove`). A bad memory access ends the program (`Crash`); after a
write outside the table (`Insert`, fault "overrun"), which a program may survive and
commit, the model ends with it and nothing is claimed.
`Settings` is the promise of `cfgfile.h`: a map from sections and keys to values,
edited in a draft, then committed or dropped.

### CfgStore, CfgDisk

The same file seen from several programs, one system call per step: `Access`,
`Creat`, `LockShared`, `Read`, `Unlock` are `cfg_init` and `cfg_refresh`; `Use`
is the change; `LockExclusive`, `Truncate`, `Write`, `Close` are `cfg_commit`.
`Write` puts any subset of keys on disk first (a stdio buffer fills when it
likes), `Close` the rest. Locks belong to a program, a second `fcntl` replaces the
first, and closing the file drops it. `Crash` kills a program anywhere.
`whole` (what the last complete write left) and `raced` (creat emptied a file
that existed) are auxiliary: no action reads them. `CfgDisk` holds the state and
two of the properties, so that a module can speak of them without the steps.

### ResourcePool, SqlPool

`ResourcePool` is the header's pool: `ObtainIdle` and `ObtainNew` are `obtain`,
`Drop` is the end of the last `ValuePtr`, whose deleter locks the weak pointer
and then recycles or deletes (`Recycle`, `Delete`). `Unref` is what a change of
the pool's reference count does: at 0 the destructor empties the list, which may
happen in a deleter (`Release`). `SqlPool` extends it: every step of its
connections is a step of the pool. `Call`, `Obtain`, `Answered`, `Throw`, `LetGo`
are `syncQuery` and `escape` in the clients and in the executor, which `Take`s
statements; `Retry` is the catch of l.128, `Swap` and `Resubmit` are `flushError`,
called by the timer or by the destructor. `Resubmit` goes through `queryString`
(SqlConnection.h:174-189) with the number of tries as an argument of the format: a
statement with a '%' comes back as another text (`own` is FALSE from then on), or its
conversions read past their arguments (`ResubmitFault`). The database goes down and
comes up, may run a statement whose answer is lost, and always rejects some statements
when it is up (`Rejected`); of a text that was altered it may do either.

### NoticeCenter

One critical section under one of the two locks is one step: `getDispatcher`
(`GetForAdd`, `GetForDel`, `GetForEmit`), the dispatcher's own operations (`AddTo`,
`Erase`, `Copy`), `DelDispatcher`. `delListener(tag)` keeps the center's lock over
its loop (`LockAll`, `Visit`, `DropVisited`, `UnlockAll`). Listeners are called from
a copy, one per step, and may throw the interruption. The locks are recursive, so a
listener that calls the center acts as another thread would. `where`, `raced` and
`due` are history.

### RedisApi

A call tests `gRedisConn.hdl` (`Enter`), takes the mutex (`Lock`), and for each
command reads `hdl` again (`Issue`; `redis_flushdb` uses what it tested) and waits for the answer. On NULL most unlock and
run `redis_Uninit` and `redis_Init` (`Lost`), which the program may call too
(`EnterInit`); there each access of the handle or of the mutex is a step (`Uninit`,
`Free`, `Forget`, `Destroy`, `InitTest`, `Publish`, `Handle`), and what happens on the
new context, which no other thread has yet, is one (`Connect`). Kinds of calls are those
that differ in control: `rpush`, `lpop`, `drain` (`redis_queue_flush`), `flushdb`,
`del`, `six` (`redis6_*`, with its three commands) and `plain` (hset, hget, append,
setex, get). `Fault` is undefined behaviour and ends the model's process. The server
answers each command, SELECT included, with a result, with an error or, after a break,
not at all; an error to a SELECT is looked at by nobody and leaves the connection in the
database it was in (`SelectRefused`, `Connect`). `overlap`, `astray` (the connections
on which a SELECT was refused) and `exact` are history.

### RingBuffer, Feed

A poller is a queue of tasks and the thread that runs them. `WriteItem` stores an
item and queues it for each poller that has a dispatcher; `RunWrite` hands it to the
readers; `Attach` makes the dispatcher, with a copy of the cache, and the reader;
`Listen` is `setReadCB`, which replays the copy. `Drop` and `DropHere` are the
reader's deleter in another thread and in the poller's. `Close` is the ring's end,
after which dispatchers live as long as a task holds them. `Feed` is the promise: a
reader joins somewhere, gets every later item once and in order, and hears of the end.

### TcpServer

The server that main starts, a clone for each other poller, and their sessions.
`start` and `cloneFrom` are main's steps (`Listen`, `StartTimer`, `CloneListen`,
`CloneTimer`, `CloneConfig`); a poller is in one callback at a time (`pc`, `cur`):
accepting (`AcceptBegin`, `Make`, `Enter`), telling and erasing (`Err`, `LockServer`,
`LockFails`, `EraseEnd`) or managing (`TickBegin`, `TickEnd`, then `OnManager` as a
task). `GiveUp` is the end of a pointer to a server; the thread with the last one
runs the destructor (`Stop`, `ClearOne`, `ClearEnd`, `ReleaseClone`, `DestroyEnd`),
which may be a callback. Callbacks that hold a plain `this` conflict with a
destructor in another thread; no step is taken from such a state (`Sound`), and the
liveness property names it as the one exception.

## 3. The runs

| Run | Instance | States | What it shows |
|---|---|---|---|
| `semaphore` | 4 threads, posts of 0-2, count up to 4 | 728 | no wakeup is lost; refinement of CountingSemaphore with liveness |
| `pool` | 3 workers, 2 clients, 3 tasks | 119,343 | permit accounting, no early exit, drained at join; refinement of TaskExecutor with liveness; `sync` returns |
| `tcpsvr_safety` | 2 slots, 2 blocks, 3 threads, 4 descriptors, timeout 1, backlog 1, no signal, symmetric | 90,569 | a freed session is used only by a thread at its last trace; sockets exclusive; no stray connection or session |
| `tcpsvr_live` | 1 slot, 1 block, 2 threads, 2 descriptors, a signal | 156,310 | a hung-up session ends, its slot is freed, the handler exits |
| `cfgfile_plain` | every unambiguous file of up to 4 lines; 2 sections, keys, values; first allocation 2, table up to 4 | 42,125 | refinement of Settings; each call changes the item it names and no other; a saved table reads back |
| `cfgstore` | 2 programs of one thread, 2 keys, with or without a file, 1 crash | 110,520 | commits do not mix, readers see whole files, all calls end |
| `sqlpool` | 1 client, the executor, 2 connections, a plain statement and one with a '%' that is rejected, pool size 0-1, 3 tries, 2 outages | 325,429 | a connection is in one place, a dead pool is empty; one retry each; the plain statement runs in the end |
| `notice` | 2 threads, 2 events, 2 tags, 2 listeners, 4 dispatchers | 236,181 | registered listeners are reached, nobody is skipped, calls return |
| `redis` | 2 threads, 2 queues, 2 contexts, queue limit 1, 2 troubles | 1,184,855 | the queue limit (in `TypeOK`); misuse only after an overlap; right database until an overlap or a refused SELECT; the counter; calls end |
| `ring` | 1 poller, 2 readers, 3 dispatchers, cache of 2, 3 items | 107,728 | order, bookkeeping, refinement of Feed; items and the end arrive |
| `tcpserver` | a server and a clone, 2 sessions | 32,642 | sessions are told before they leave; safe removal; `onManager` finds the told ones gone; everything ends |
| `cfgstore_update` | 2 programs, 2 keys | | a violation: a difference between code and comment (section 6) |

A module's `TypeOK` states what its variables hold. The runs check it where it bounds
something the code must keep in bounds (the table of `CfgFile`, the queue limit of
`RedisApi`); in the other modules it is proved, alone or inside the invariant, but for
`RingBuffer`, and for `SqlPool` outside its pool.

### Why the bounds are enough

* *Semaphore*: the hard case needs a sleeper, a woken thread and a newcomer at
  once; four threads leave one over. Posts of 0, 1 and 2 reach both branches of
  l.51. `MaxCount` caps the counter and lies above what two posts give.
* *Pool*: three workers and three tasks let one worker be woken with an empty
  queue while another runs a task that submits a third. Each task is submitted
  at most once, so the space is finite without further bound.
* *Server*: two slots and two blocks let a block be freed and reused in the
  other slot while its old thread is still in its last steps; a third thread is one
  on the block used again, and with none left `pthread_create` fails; four descriptors
  are the listening one, two sessions' and one in `accept`. `ClientTimeout` 1
  reaches the timeout branch. The safety properties speak of the time before a
  signal, so that their run has none; the liveness run has one (`MaySignal`), and
  uses no symmetry. One slot and two threads let its block be used a second time.
* *CfgFile*: four lines hold two sections with a key, or a section with a key and
  remarks above the next section; first allocations of 2 and a limit of 4
  reach the growth of the table (3, then 5 entries) and the insertion with and
  without room. `Chunk` stands for 4096/sizeof(entry); only its being small
  differs. `MaxEntries` disables calls that would make the table longer.
* *CfgStore*: two programs make every conflict of a reader or writer with a
  writer; any number is covered by the theorems
  when the file exists. One crash can hit any step.

* *SqlPool*: two connections let one be in use while the other comes back to a full
  or empty list; sizes 0 and 1 reach both branches of `recycle`. Two outages fail a
  statement twice; that the tries start again (section 6) is visible after one, and a
  statement that is always rejected comes again for ever.
* *NoticeCenter*: two threads are enough for every pair of critical sections, two
  tags for a dispatcher that is not emptied, two events for the loop of
  `delListener(tag)`; four dispatchers are two in the map and one in each hand. The
  theorem covers any number.
* *RedisApi*: two threads and one break give a thread inside a call while the other
  reconnects, and the second trouble what a refused SELECT, a program's own
  `redis_Init` or another break adds (`MaxTroubles` counts them all); two contexts are
  the old one and the new one. `MaxPops` bounds how far the counter falls below 0. A
  queue limit of 1 over two queues of 1 reaches the full branch, by the other queue
  too. The theorems cover any number of threads and troubles.
* *RingBuffer*: pollers share only the map, under its lock, and the ring's end, so
  one poller is enough for a reader's view; three dispatchers let one be replaced
  while the old one is still named by a task. Three items overflow a cache of two.
  `_max_size` is at least 32 in the code; only its being reached differs.
* *TcpServer*: one clone gives the clearing of clones by main or by a callback;
  two sessions give one that is erased while another is cleared. An address is used
  again once its session is gone. The theorems cover any number.

### Deadlock and fairness

`CHECK_DEADLOCK FALSE` appears where the system really stops: the pool once it
is joined, the server process once it has exited, the `SqlPool`, the ring and the
`TcpServer` once they are destroyed, the program of `CfgFile` after a write outside its
table, and the redis client in undefined behaviour. The
other runs check it.

Fairness is weak and only on what the operating system's scheduler runs. In the
pool, tasks end and the semaphore gives a permit to *somebody* (the promise
proved of `Semaphore`). In the server: main, the listener and each connection
thread; never the peers nor a signal. In CfgStore: each thread; `CallsEnd`
holds only once no more calls come, because POSIX locks are not fair and a
writer may be overtaken for ever; the same of the redis client's mutex, and in
NoticeCenter of threads that keep calling `delListener(tag)`. In SqlPool the
executor, the timer and the clients are fair and the database is not: `EventuallyRun`
says what holds if it stays up. In RingBuffer a poller runs its tasks; in TcpServer
callbacks and destructors go on once begun, while accepts, errors and timers need not
come. `EndedIsReclaimed` likewise holds only if
clients stop arriving, since the sweep runs only when `accept` times out.

## 4. The theorems

All proofs are checked by TLAPS, for all values of the constants that satisfy
the named assumptions in the modules.

* **ThreadPool_proofs**, the pool — `TypeCorrect`, `PermitsAccounted`,
  `NoWorkerExitsEarly`, `DestructorDrains`, `ExecutorSafety`. `PermitAccounting` alone
  is not inductive: `AccountInv` adds `NoEarlyExit` and `NoWorkerBeforeStart` (there is
  no worker before `Start`); that a worker holds a permit and finds the queue
  empty then shows, by counting, that an exit is due. For the destructor,
  `DrainInv` says where each task in hand is, in the queue or with a worker, and
  that while the queue holds a task somebody has not left (`SomebodyStays`).
  `ExecutorSafety` maps initial states and steps to TaskExecutor's: `OnceInv` says that
  a task is in one place (a client's hand, once in the queue, with one worker), what its
  status is there, and that a pool that runs has threads; each kind of step (clients,
  workers, the pool's life) has a lemma. `Join` is the step that needs the drain.
  Assumes finitely many threads and clients disjoint from workers.
* **ThreadPool_proofs**, the semaphore — `SemaphoreTypes`, `NoWakeupIsLost`,
  `SemaphoreSafety` (initial states and steps map to CountingSemaphore's), of an
  instance of Semaphore with any callers. The invariant is inductive with the types: a
  post to sleepers wakes as many threads as it adds permits, or all; a thread sleeps
  only when the count is 0; and a taken permit takes away at most one woken thread.
  The hypotheses are Semaphore's own assumptions, a finite set of threads among them.
* **TcpSvr_proofs** — `TypeCorrect`, `NoOtherUseAfterFree`, `SocketsExclusive`,
  `NoStraySession`. `IInv == TypeInv /\ (~Signalled => Sound)`; `Sound` says that each
  session has one name (a slot, or the listener's `svr`), each open connection
  one owner, and a thread before its last trace has a session of its own, live and
  in state RUN, which is what keeps the sweep's hands off it. Of a thread at its last
  trace nothing is said: its block may be free or another session's by then
  (section 6). The tick bound is needed for the types: a counter past the timeout is
  only met on the way out.
* **CfgFile_proofs**, the table — `TypeCorrect`, `SavedReadsBack`, `EditsReach`,
  `CfgFileIsSettings`, for any sections, keys, values, lengths and calls.
  CfgFile computes with recursive functions and sequences. What their induction needs
  is derived in `Least` (a set of naturals has a least element: otherwise the segments
  below its elements would descend for ever among the subsets of a finite set),
  `Induction` and `Recursion` (a function given by its first value and a step exists).
  `Tidy` says that no section starts twice, no key stands twice in a section and no key
  is written with quotes. In a tidy table `Find` answers v exactly if some entry in the
  section has the key and the value (`FindSeesWhatIsThere`); an edit either puts a value
  into one entry (`UpdatedItem`) or is a table from which, or to which, a stretch of
  entries was taken (`Without`), and where what remains stays in its section
  (`AtShifted`), all other items are as they were (`FindWithout`, `FindGone`). `Shown`
  says that an entry is no continuation line and no bare text, the two that
  `_cfg_output` writes as something else; a shown table is read back as it was
  (`OutputReadsBack`). `TidyInv` has both, of the file and of the table, and
  `SavedIsRead`, from which the steps of `Settings` follow. The hypotheses are on the
  files a run starts from: `ShownFiles` for `SavedReadsBack`, and `TidyFiles` as well
  for the two after it; `TypeCorrect` needs neither. All files of the run `cfgfile_plain`
  satisfy them. Of a file with indented pairs, quoted keys or a name twice the theorems
  say nothing: the code does not keep the promise there (section 6).
* **CfgFile_proofs**, the file on disk — `CommitsDoNotMix`, `ReadersSeeWholeFiles`,
  `StoreTypes`, of an instance of CfgStore under `OneThreadEach` (a program calls from
  one thread) and `FileExists`, without which they do not hold (section 6). Invariant: a
  reader holds a read lock, a writer a write lock; a write lock has no other beside it;
  what a writer has put so far is its own table; the file differs from `whole`
  only while someone writes.
* **SqlPool_proofs** — `ObjectsInOnePlace` for `ResourcePool` alone;
  `ConnectionsInOnePlace`, `DeadSqlPoolIsEmpty` and `RetriesAreUnique` for `SqlPool`.
  `OnePlace`, `DeadPoolIsEmpty` and `QuitIsFinal` are inductive together with the types;
  every step of SqlPool is a step of the pool or leaves it alone, so the pool's lemma
  serves both. For the statements, the invariant says where each one is (in the
  executor's queue, with its thread, in the queue of errors, in a flush's copy), that it
  is there once unless the database has run it or the text it became (`Settled`), and
  what number of tries it has there: one that fails has tries left, so none is
  dropped, one that the database always rejects included. Only that is needed of the number of tries,
  hence the hypothesis `TryCount > 1` (it is 3, SqlPool.h:122).
* **NoticeCenter_proofs** — `RegisteredIsReached`, `EventsSkipNobody`. The invariant adds
  that no two events share a dispatcher (`OneEventEach`), that `delListener(tag)` is
  alone in the center (`OneVisitor`), what calls carry between critical sections
  (`InHand`), and that whoever is in a dispatcher found empty was added since (`Emptied`).
* **RedisApi_proofs** — `SafeWithoutOverlap`, `CommandsReachTheirDb`, `TypeCorrect`,
  `CounterIsLength`.
  `Basic` (types, and that whoever waits for an answer holds the mutex) holds always.
  `Orderly` and `Located` hold until an overlap: who reconnects is alone, and who is in a
  call has the connection that `hdl` gives; and if no SELECT was refused on it, that
  connection is in the other database exactly while a `redis6_*` call is between its two
  SELECTs, a new one in the first database. `LimitInv` adds to the types that whoever
  pushes found the count below the limit, and that the pushes and pops under way still
  fit the bounds. `CountInv` says that the counter is right at every moment, not only
  while the mutex is free, but for the thread that drains a queue, and for one whom a
  misuse of memory ends while it holds the mutex. The sum over the queues is the fold of
  the community modules; `SumExists` shows that the function its definition chooses
  exists, `SumFollows` and `SumOfZeros` what a change does to it. Assumes finitely many
  threads and queues.
* **RingBuffer_proofs** — `TypeCorrect`, `StreamIsInOrder`, `HeldReaderIsServed`,
  `RingIsFeed`. `IInv` has four parts. `Owners`: a dispatcher belongs to one poller, in
  whose thread its writes, its deletion and its readers are; a deletion is its last
  task. `Readers`: a dispatcher that the map or a write holds counts its readers
  exactly; a released reader waits for one task; who is told of the end has the last
  item. `Items`: the writes that wait for a dispatcher are the items after the one it
  handled last, in order (`Chain`), and all of them if somebody reads it (`Reaches`);
  each storage is a stretch that ends where it should. `TypeOK` closes it. The steps that
  erase readers (`RunWrite`, `RunDealloc`, `RunDelete`, `DropHere`) are one case,
  `Shrinks`. For `RingIsFeed` attach is a stutter, `setReadCB` joins, a write, a deletion
  and the ring's end serve, and a drop leaves: a dispatcher that goes with its last
  reader has nobody to tell.
* **TcpServer_proofs** — `RemovedSafely`, `SessionsAreTold`, `ManagerFindsItGone`. The
  invariant says which session each callback works on, how often a session was told
  (`ToldOften`: as often as its socket erred, once more only by a server on its way
  out), why it is where it is (`Reasons`) and who runs a destructor (`Lives`).

### Model-checked only

Liveness under fairness (`SyncReturns`, `HangupEndsThread`, `EndedIsReclaimed`,
`HandlerEnds`, `CallsEnd`, `CallsReturn`, `EventuallyRun`, `EverythingArrives`,
`EverythingEnds`, and the liveness half of the refinements) and ENABLED
are out of the prover's reach. `NoUpdateIsLost`, which the code breaks, is only
model-checked as well. Every safety property of a passing run has its theorem.

## 5. What is not modelled

* *Semaphore, pool*: thread priorities, `size()`, and the memory of
  thread_group's unordered_map, which `is_this_thread_in` reads without a lock
  while threads are created (the race decides only whether a submission runs
  inline; both are allowed). A pool whose destructor runs in one of its own threads:
  `join_all` throws there (`threadgroup.h:65-67`), out of a destructor, and the process
  ends. `ThreadLoadCounter` (a sum over a window of clock
  readings) and `TaskExecutorGetterImp` (which executor is taken) are statistics.
* *Server*: a second signal nested in the handler, the log lock of other threads,
  and logging in general; `entity_ctrl_t.timeout`, which is 0 for ever, so that
  l.351-360 do nothing; the content of messages; netsock's client half.
* *CfgFile*: what a program does after it wrote outside its table (`Insert`), with the
  file it may then commit; blank lines, alignment and indented '#' lines; number conversions,
  `cfg_copy`, `list_sections` and `list_entries`, `utl_fgets`/`utl_fputs`; two
  branches that are not compiled. `Cfg_ReadInt` returns -1 with the default when a
  key is missing and `Cfg_WriteInt` ignores `cfg_write`'s result: callers here use
  neither.
* *CfgStore*: `fstat` and `read` are one step, since the lock is held.
* *SqlPool*: the text of statements, but for its being still the one given, what a
  client's own query does, and the results; `WorkThreadPool`'s executor is
  taken to be one thread. `SqlPool` is a singleton whose destructor runs at exit.
* *NoticeCenter*: exceptions other than the interruption.
* *RedisApi*: commands on a connection that was sent to another database, but for their
  not reaching the queues; values, times and log lines; the unused functions of l.66-132;
  connecting with a wrong password and not connecting are one step. The steps of
  `redis_Init` on its new context are one step too: no other thread knows it yet.
* *RingBuffer*: `setDelegate`, `_on_reader_changed`, `readerCount`; callbacks that
  attach to or drop readers of the same poller, which would change the map that the
  loop of l.197-207 walks through; two pollers at once (section 3).
* *TcpServer*: what a session does with its data, the settings it is given (`CloneConfig`
  is the step, without them), `getPort`, and steps inside a
  conflict of a callback with a destructor.
* *ctcpsvr message handlers, EchoSession::msgProc, log file*: sequential functions of
  one buffer, or of a file's size and the clock, under one lock. What we found in
  them is in section 6; TcpSvr has the log's mutex where it matters.
* *Not at all*: everything whose implementation is in `lib/libZLToolKit.a`;
  vendored JSON, hiredis, cppsock; the manual test client; utilities that format,
  wrap or count in one thread.

Of the repository's 63,630 lines 48,626 are two copies of the vendored `json.hpp`, so
that the share of lines a model stands for is small whatever is modelled. Of the rest
much is declarations of the binary library, error tables and formatting.

## 6. Differences between the code and what it says

Shown by a run:

| Run | What the source says | What the code does |
|---|---|---|
| `cfgstore_update` | "if bLock=1 will lock this file" (`cfgfile.cpp:1882`) | the lock is given up between reading and writing: one of two updates is lost |

Found while modelling, without a run of their own; the models take the step as the
code has it, unless said otherwise:

* `netsock.cpp:418-442`: `NET_Ser_Bind` closes the socket when `bind` or `listen` fails
  and returns its number; "Fail to bind to port:%d ,exit!" (`tcpsvr.cpp:303`) is not
  reached, and the listener loops on a closed descriptor (`BindFails`).
* `tcpsvr.cpp:216`: the last trace of a connection thread reads `svr->idx` after
  `state=EXIT` (l.215), on which the sweep may have freed the session (l.362-364), or
  `malloc` given it to another one: a use after free without any signal (`Trace`,
  `UseFault`; `StaleOnlyAtTrace` says that it is the only one).
* `tcpsvr.cpp:230`, l.235: the joins are commented out and no thread is detached, so
  that each ended connection keeps its thread's stack, and the handle that
  `osCreateThread` allocated, until the process exits (place "ended").
* `tcpsvr.cpp:344`: the sweep runs only when `accept` times out or fails: while clients
  keep arriving within five seconds of each other, ended sessions keep their slots and
  newcomers are turned away (`Refuse`; `EndedIsReclaimed` has clients stop).
* `tcpsvr.cpp:411`: the signal handler destroys sessions that the listener and the
  connection threads use (`CloseDestroy`, `ReapFault`, `UseFault`).
* `tcpsvr.cpp:198`: the loop continues before the count of l.209 when nothing arrives,
  so that "300*tick=2.5min" (l.160) never comes: a silent client is polled for ever
  (`Quiet`).
* `tcpsvr.cpp:429`: the handler that prints "receive signal:%d, prepare to exit!" logs
  under a mutex that the interrupted main may hold, and then never exits (`Signal`).
* `tcpsvr.cpp:183`: the length of a read must be a multiple of sizeof(MSG_CMD_T) = 30,
  while a message takes 100 bytes (l.60); TCP may also split or join messages.
  l.82 measures a message with `strlen`, which needs a NUL in it. Not modelled.
* `cfgfile.cpp:947`: "insert new entry before e" (l.943), but e stays on the old block
  when the table moved, and the move is one entry too long (`Insert`). The call may
  die of it, or return 0 with a damaged table that a commit then writes.
* `logfile.cpp:67`, l.124: "return errcode or written string length" is the length of
  the line also when `fopen` failed and nothing was written; l.101-105: two rotations
  within a second have the same name, and the second one replaces the first. Not
  modelled.
* `NoticeCenter.h:107`: a listener added while its dispatcher, found empty, leaves the
  map is never reached, nor removed by `delListener` (`AddTo`, history `raced`).
* `redis_api.cpp:258`, l.301: the counter moves with every answer, so it also counts
  errors and pops of empty queues, and it is not set back by `redis_del`,
  `redis_flushdb` or the flush of `redis_Init`: "redis-queue is full" (l.228) is said
  of queues that are not (`CountIsLength` says until when the counter is right).
  l.335 sets it to 0 for all queues when one is emptied.
* `redis_api.cpp:250-252` and alike: the context is freed, and the mutex destroyed and
  made again, outside the mutex, beside other calls (`Fault`, `FaultNeedsOverlap`). `hdl`
  is read for each of the three commands of `redis6_*` (l.596, 607, 624): reconnected in
  between, the second one runs in the wrong database.
* `redis_api.cpp:597`, l.625 (also l.650, 685, 710, 734): of the answer to a SELECT only
  NULL is noticed, and l.178-182 look at neither answer: after an error the commands
  that follow run in the wrong database (`SelectRefused`, `Connect`). `RightDb` holds
  until then, and until an overlap.
* `SqlPool.h:152`: `asyncQuery(query.sql_str,query.tryCnt)` passes the number to
  `queryString` as an argument of the format (`SqlConnection.h:174-184`). So the tries
  start again from 3: "tryCnt" (l.68, l.120, the number of tries) and the branch that
  gives up (l.134-135) never take effect, and a statement that the database always
  rejects comes again every 30 seconds for ever (`Resubmit`; `OneRetryEach` includes
  `dropped = {}`). And a statement with a '%' comes back as another one, or reads past
  its arguments (`own`, `ResubmitFault`); `EventuallyRun` is about the others.
* `SqlPool.h:37-40`: a timer's flush and queued statements may use the pool after its
  destructor (`CallDead`, `RetryDead`, `ResubmitDead`).
* `TcpServer.h:201`: a clone accepts before it has its settings (l.206):
  sessions made in between get what it has then. Not modelled but for the order
  (`Make` before `CloneConfig`).
* `TcpServer.h:136`: main destroys the server while accept and timer callbacks use it
  through a plain `this` (`Conflict`).
* `RingBuffer.h:197`: a read callback that attaches a reader, or drops one, changes the
  map that the loop walks through. Not modelled.
* `tcpsvr.cpp:140`: the signal handlers post a semaphore, whose mutex the interrupted
  `wait` may hold. Not modelled.
* `tcpsvr.cpp:50-54` (the echo server's): a frame "@@##" passes the tests of its marks
  and makes the length of its payload negative. Not modelled.
* `threadgroup.h:52`: the thread runs before it is entered in `_threads`, which
  `is_this_thread_in` reads without a lock.

* `tcpsvr.cpp:277`, l.338: a session whose `pthread_create` failed enters the
  table as a success and keeps its slot for ever (`Create` with no thread).
* `cfgfile.cpp:1032`: removing a section that starts the file, or has only remarks
  above it, looks for more remarks in the entry before the table (`RemoveSection`,
  fault "underrun").
* `cfgfile.cpp:903`: `ini_setstr` of a new key continues with the counter of the
  first search and walks off the table (`IniSet`, fault "walk"); l.862 promises
  "no [section] item added".
* `cfgfile.cpp:844`: without a section the first entry is never compared, so
  `ini_getstr` does not find the first key (`IniFind`); its return codes are not
  those of `cfgfile.h:156`. It and `Cfg_GetKeys` compare a null name when a
  section, or a pair without one, comes first.
* `cfgfile.cpp:961` against l.822: a quoted key is found by readers, not by
  writers; a write adds a second, plain one that no reader reaches.
* `cfgfile.cpp:944-956`: a key added to a section goes between the next section
  and the remark that l.1166-1168 say "sticks to section below".
* `cfgfile.cpp:614`: a line that starts with '#' is skipped as a bad definition
  although l.655 and `cfgfile.h:24` call it a comment, and is gone after a commit.
* `cfgfile.cpp:1154`: a continuation line is written back without indentation and
  is then no continuation (l.618).
* `cfgfile.cpp:230`, l.260: `creat` acts on the answer of `access` and empties a
  file another program created in between (`Creat`, counted in `raced`).
* `cfgfile.h:18`: `CFG_ThreadLock 1` is used nowhere, and POSIX locks do not
  exclude the threads of one process.

The files of `cfgfile_plain` are plain: no quotes, no '#', no indentation, no
section or key twice. Remarks are in, keys above the first section too.

`ImplementsSettings` alone would accept a call that changes one item, but the
wrong one; `EditsReachTheirItem` ties each call to the item it names.

## 7. Plan

All of the modules planned are there. What would add most, in this order:

1. the creation race as the only way into `raced` of CfgStore;
2. a RingBuffer with callbacks that change the reader map inside a dispatcher's loop,
   with the order in which an `unordered_map` is walked left open.

## 8. Running

```
tlc -config CfgStore_all.cfg MCCfgStore.tla
tlapm ThreadPool_proofs.tla
```

Each run's module, configuration and properties are in `PROJECT.json` under
`runs`; the mutants under `mutants`; which source lines each definition stands
for under `map`.
