------------------------------ MODULE RedisApi ------------------------------
(***************************************************************************)
(* The redis client of ctcpsvr (redis_api.cpp): one connection for all     *)
(* threads behind one mutex, opened again, outside of the mutex, by the    *)
(* call that finds it broken.  The server and hiredis are external: any    *)
(* command is answered with its result, with an error, or with NULL, after *)
(* which its connection answers NULL for ever.  The queues are those of    *)
(* the first database; what is pushed astray into another one is not       *)
(* counted in their lengths, and redis6_* keys are no queues.              *)
(***************************************************************************)
EXTENDS Integers, FiniteSets, FiniteSetsExt

CONSTANTS
  Thread,
  Key,            (* the queues                                            *)
  Context,        (* the addresses of redisContexts                        *)
  MAX_QUEUE_SIZE,
  MaxLength,      (* bound on what is pushed into one queue                *)
  MaxPops,        (* bound on how far pops of empty queues lower the count *)
  MaxTroubles,    (* bound on troubles                                     *)
  NULL

ASSUME NullAssumption == NULL \notin Thread \cup Context \cup {"destroyed"} /\ "destroyed" \notin Thread
ASSUME ContextAssumption == Context # {}
ASSUME ThreadAssumption == IsFiniteSet(Thread)
ASSUME KeyAssumption == IsFiniteSet(Key)
ASSUME SizeAssumption == {MAX_QUEUE_SIZE, MaxLength, MaxPops, MaxTroubles} \subseteq Nat

VARIABLES
  hdl,            (* gRedisConn.hdl                                        *)
  mutex,          (* gRedisConn.ThrdLock: its holder, NULL or "destroyed"  *)
  count,          (* gRedisQueueSize                                       *)
  ctx,            (* per context: "open", "broken" or "freed"              *)
  db,             (* per context, the database it has selected             *)
  astray,         (* the contexts on which a SELECT was refused (history)  *)
  len,            (* the lengths of the queues in the server               *)
  pc, kind, key,  (* per thread: its place, its call and the queue         *)
  mine,           (* per thread, the context it has read from hdl for the  *)
                  (* command it waits for, or has opened                   *)
  troubles,       (* how often a connection broke, a SELECT was refused,   *)
                  (* or the program called redis_Init or redis_Uninit      *)
  overlap,        (* a call ran while another one reconnected (history)    *)
  exact           (* no answer yet that the counter does not follow        *)

server == <<len, ctx, db, astray>>
client == <<hdl, mutex, count>>
thread == <<pc, kind, key, mine>>
vars == <<client, server, thread, troubles, overlap, exact>>

Home == "home"    (* gRedisConn.db                                         *)
Dvr  == "dvr"     (* REDIS_DVR_DB                                          *)
Other == "other"  (* the one a new connection has before its SELECT        *)

Kind == {"rpush", "lpop", "drain", "flushdb", "del", "plain", "six", "init", "uninit"}
InCommand == {"select", "command", "back"}
Reconnecting == {"uninit", "free", "forget", "destroy", "init", "connect", "publish", "handle"}
Place == {"idle", "lock", "undefined"} \cup InCommand \cup Reconnecting

TypeOK ==
  /\ hdl \in Context \cup {NULL}
  /\ mutex \in Thread \cup {NULL, "destroyed"}
  /\ count \in -MaxPops .. MAX_QUEUE_SIZE
  /\ ctx \in [Context -> {"open", "broken", "freed"}]
  /\ db \in [Context -> {Home, Dvr, Other}]
  /\ astray \subseteq Context
  /\ len \in [Key -> 0..MaxLength]
  /\ pc \in [Thread -> Place]
  /\ kind \in [Thread -> Kind \cup {NULL}]
  /\ key \in [Thread -> Key \cup {NULL}]
  /\ mine \in [Thread -> Context \cup {NULL}]
  /\ troubles \in 0..MaxTroubles
  /\ overlap \in BOOLEAN /\ exact \in BOOLEAN

(* After the program's first redis_Init.                                   *)
Init ==
  /\ hdl = CHOOSE c \in Context : TRUE
  /\ mutex = NULL /\ count = 0
  /\ ctx = [c \in Context |-> IF c = hdl THEN "open" ELSE "freed"]
  /\ db = [c \in Context |-> Home]
  /\ astray = {}
  /\ len = [k \in Key |-> 0]
  /\ pc = [t \in Thread |-> "idle"]
  /\ kind = [t \in Thread |-> NULL]
  /\ key = [t \in Thread |-> NULL]
  /\ mine = [t \in Thread |-> NULL]
  /\ troubles = 0
  /\ overlap = FALSE /\ exact = TRUE

-----------------------------------------------------------------------------

Goto(t, place) == pc' = [pc EXCEPT ![t] = place]

Return(t) ==
  /\ Goto(t, "idle")
  /\ mine' = [mine EXCEPT ![t] = NULL]
  /\ kind' = [kind EXCEPT ![t] = NULL]
  /\ key' = [key EXCEPT ![t] = NULL]

(* t unlocks the mutex and returns.                                        *)
UnlockAndReturn(t) == mutex' = NULL /\ Return(t)

(* Memory or the mutex is used against its rules: whatever the process     *)
(* does from here on is undefined.                                         *)
Fault ==
  /\ pc' = [t \in Thread |-> "undefined"]
  /\ kind' = [t \in Thread |-> NULL]
  /\ key' = [t \in Thread |-> NULL]
  /\ mine' = [t \in Thread |-> NULL]
  /\ UNCHANGED <<client, server, troubles, overlap, exact>>

(* t goes on to place with the context c, or without one.                  *)
With(t, c, place) ==
  /\ mine' = [mine EXCEPT ![t] = c]
  /\ Goto(t, place)
  /\ UNCHANGED <<kind, key>>

Usable(c) == c # NULL /\ ctx[c] # "freed"

(* t enters a call, or goes to reconnect in it.                            *)
Overlapping(t) ==
  overlap' = (overlap \/ \E u \in Thread \ {t} :
                /\ pc[u] # "idle"
                /\ pc'[t] \in Reconnecting \/ pc[u] \in Reconnecting)

(* For the bounds: what happens a limited number of times, and the calls   *)
(* under way.                                                              *)
Trouble == troubles < MaxTroubles /\ troubles' = troubles + 1

Entered(op, keys) == Cardinality({u \in Thread : kind[u] = op /\ key[u] \in keys})

(* The test of hdl, before the mutex is taken.  redis_flushdb has read its *)
(* own copy there.                                                         *)
Enter(t, op, k) ==
  /\ pc[t] = "idle" /\ hdl # NULL
  /\ op \in Kind \ {"init", "uninit"}
  /\ k = NULL <=> op \in {"flushdb", "plain", "six"}
  /\ op = "rpush" => len[k] + Entered("rpush", {k}) < MaxLength
  /\ op = "lpop" => Min({count, 0}) - Entered("lpop", Key) > -MaxPops
  /\ Goto(t, "lock")
  /\ kind' = [kind EXCEPT ![t] = op]
  /\ key' = [key EXCEPT ![t] = k]
  /\ mine' = [mine EXCEPT ![t] = IF op = "flushdb" THEN hdl ELSE NULL]
  /\ Overlapping(t)
  /\ UNCHANGED <<client, server, troubles, exact>>

(* redis_Init and redis_Uninit called by the program.                      *)
EnterInit(t) ==
  /\ pc[t] = "idle"
  /\ \/ kind' = [kind EXCEPT ![t] = "init"] /\ Goto(t, "init")
     \/ kind' = [kind EXCEPT ![t] = "uninit"] /\ Goto(t, "uninit")
  /\ Overlapping(t)
  /\ Trouble
  /\ UNCHANGED <<client, server, key, mine, exact>>

LockDestroyed(t) == pc[t] = "lock" /\ mutex = "destroyed" /\ Fault

(* The queue counts as full (redis_api.cpp:227).                           *)
IsFull(t) == kind[t] = "rpush" /\ count >= MAX_QUEUE_SIZE

(* Mutant of Full: the early return keeps the mutex.                       *)
Full_KeepsMutex(t) ==
  /\ pc[t] = "lock" /\ mutex = NULL /\ IsFull(t)
  /\ mutex' = t
  /\ Return(t)
  /\ UNCHANGED <<hdl, count, server, troubles, overlap, exact>>

Full(t) ==
  /\ pc[t] = "lock" /\ mutex = NULL /\ IsFull(t)
  /\ UnlockAndReturn(t)
  /\ UNCHANGED <<hdl, count, server, troubles, overlap, exact>>

(* Mutant of Lock: whether the queue is full is not tested.                *)
Lock_NoLimit(t) ==
  /\ pc[t] = "lock" /\ mutex = NULL
  /\ mutex' = t
  /\ Goto(t, IF kind[t] = "six" THEN "select" ELSE "command")
  /\ UNCHANGED <<hdl, count, server, kind, key, mine, troubles, overlap, exact>>

Lock(t) ==
  /\ pc[t] = "lock" /\ mutex = NULL /\ ~IsFull(t)
  /\ mutex' = t
  /\ Goto(t, IF kind[t] = "six" THEN "select" ELSE "command")
  /\ UNCHANGED <<hdl, count, server, kind, key, mine, troubles, overlap, exact>>

(* hdl is read for every command, each of the three of redis6_* and each   *)
(* lpop of redis_queue_flush too, and hiredis dereferences it.             *)
Issue(t) ==
  /\ pc[t] \in InCommand /\ mine[t] = NULL
  /\ IF Usable(hdl)
       THEN /\ With(t, hdl, pc[t])
            /\ UNCHANGED <<client, server, troubles, overlap, exact>>
       ELSE Fault

(* The context was freed under the thread that waits for its answer, or    *)
(* before redis_flushdb uses its copy of hdl.                              *)
WaitOnFreed(t) ==
  /\ pc[t] \in InCommand /\ mine[t] # NULL /\ ~Usable(mine[t])
  /\ Fault

-----------------------------------------------------------------------------
(* What the server does with the command of t.                             *)

Total == MapThenSumSet(LAMBDA k : len[k], Key)

Executed(t) ==
  LET k == key[t] IN
  len' = CASE db[mine[t]] # Home -> len
           [] kind[t] = "rpush" -> [len EXCEPT ![k] = @ + 1]
           [] kind[t] \in {"lpop", "drain"} /\ len[k] > 0 -> [len EXCEPT ![k] = @ - 1]
           [] kind[t] = "del" -> [len EXCEPT ![k] = 0]
           [] kind[t] = "flushdb" -> [j \in Key |-> 0]
           [] OTHER -> len

(* An answer moves the counter of a push and of a pop, whatever it is.     *)
Counted(t) ==
  count' = CASE kind[t] = "rpush" -> count + 1
             [] kind[t] = "lpop" -> count - 1
             [] OTHER -> count

Answering(t, place) == pc[t] = place /\ Usable(mine[t]) /\ ctx[mine[t]] = "open"

(* The counter follows the result of the command of t.                     *)
Followed(t) ==
  CASE kind[t] = "rpush" -> db[mine[t]] = Home
    [] kind[t] = "lpop" -> db[mine[t]] = Home /\ len[key[t]] > 0
    [] OTHER -> kind[t] \notin {"del", "flushdb"}

(* Answered with a result.  The loop of redis_queue_flush goes on.         *)
Answered(t) ==
  /\ Answering(t, "command")
  /\ kind[t] = "drain" => db[mine[t]] = Home /\ len[key[t]] > 0
  /\ Executed(t)
  /\ Counted(t)
  /\ exact' = (exact /\ Followed(t))
  /\ CASE kind[t] = "drain" -> With(t, NULL, "command") /\ UNCHANGED mutex
       [] kind[t] = "six" -> With(t, NULL, "back") /\ UNCHANGED mutex
       [] OTHER -> UnlockAndReturn(t)
  /\ UNCHANGED <<hdl, ctx, db, astray, troubles, overlap>>

(* Answered with an error.                                                 *)
Refused(t) ==
  /\ Answering(t, "command") /\ kind[t] # "drain"
  /\ Counted(t)
  /\ exact' = (exact /\ kind[t] \notin {"rpush", "lpop"})
  /\ IF kind[t] = "six"
       THEN With(t, NULL, "back") /\ UNCHANGED mutex
       ELSE UnlockAndReturn(t)
  /\ UNCHANGED <<hdl, server, troubles, overlap>>

(* Mutant of Drained: the counter goes down as after one lpop.             *)
Drained_CountsOne(t) ==
  /\ pc[t] = "command" /\ kind[t] = "drain" /\ Usable(mine[t])
  /\ count > -MaxPops
  /\ count' = count - 1
  /\ exact' = (Total = 0)
  /\ UnlockAndReturn(t)
  /\ UNCHANGED <<hdl, server, troubles, overlap>>

(* The loop of redis_queue_flush ends: the queue is empty, or the answer   *)
(* is an error or NULL.  The counter becomes 0, for all queues.            *)
Drained(t) ==
  /\ pc[t] = "command" /\ kind[t] = "drain" /\ Usable(mine[t])
  /\ count' = 0
  /\ exact' = (Total = 0)
  /\ UnlockAndReturn(t)
  /\ UNCHANGED <<hdl, server, troubles, overlap>>

(* redis6_*: the other database is selected, and the first one again.      *)
Selected(t) ==
  /\ Answering(t, "select")
  /\ db' = [db EXCEPT ![mine[t]] = Dvr]
  /\ With(t, NULL, "command")
  /\ UNCHANGED <<client, len, ctx, astray, troubles, overlap, exact>>

(* Mutant of SelectedBack: the unlock comes without the select.            *)
SelectedBack_Not(t) ==
  /\ Answering(t, "back")
  /\ UnlockAndReturn(t)
  /\ UNCHANGED <<hdl, count, server, troubles, overlap, exact>>

SelectedBack(t) ==
  /\ Answering(t, "back")
  /\ db' = [db EXCEPT ![mine[t]] = Home]
  /\ UnlockAndReturn(t)
  /\ UNCHANGED <<hdl, count, len, ctx, astray, troubles, overlap, exact>>

(* A SELECT is answered with an error, which nobody looks at: the call     *)
(* goes on in the database that was selected before.                       *)
SelectRefused(t) ==
  /\ \/ Answering(t, "select") /\ With(t, NULL, "command") /\ UNCHANGED mutex
     \/ Answering(t, "back") /\ UnlockAndReturn(t)
  /\ astray' = astray \cup {mine[t]}
  /\ Trouble
  /\ UNCHANGED <<hdl, count, len, ctx, db, overlap, exact>>

-----------------------------------------------------------------------------
(* The answer is NULL.                                                     *)

(* A connection breaks while a thread waits for an answer; the server may  *)
(* have run the command before.                                            *)
Break(t) ==
  /\ Answering(t, "select") \/ Answering(t, "command") \/ Answering(t, "back")
  /\ Trouble
  /\ ctx' = [ctx EXCEPT ![mine[t]] = "broken"]
  /\ \/ UNCHANGED <<len, exact>>
     \/ pc[t] = "command" /\ kind[t] \in {"rpush", "lpop", "drain", "del", "flushdb"}
        /\ Executed(t) /\ exact' = FALSE
  /\ UNCHANGED <<client, db, astray, thread, overlap>>

Broken(t, place) == pc[t] = place /\ Usable(mine[t]) /\ ctx[mine[t]] = "broken"

(* The call of t goes on as a redis_Uninit and a redis_Init.               *)
Reconnect(t) ==
  /\ Goto(t, "uninit")
  /\ kind' = [kind EXCEPT ![t] = "init"]
  /\ key' = [key EXCEPT ![t] = NULL]
  /\ mine' = [mine EXCEPT ![t] = NULL]
  /\ Overlapping(t)

(* Mutant of Lost: the mutex is not unlocked before the reconnection.      *)
Lost_KeepsMutex(t) ==
  /\ \/ Broken(t, "select")
     \/ Broken(t, "command") /\ kind[t] \notin {"drain", "flushdb", "six"}
  /\ Reconnect(t)
  /\ UNCHANGED <<client, server, troubles, exact>>

(* Most calls unlock the mutex and reconnect.                              *)
Lost(t) ==
  /\ \/ Broken(t, "select")
     \/ Broken(t, "command") /\ kind[t] \notin {"drain", "flushdb", "six"}
  /\ mutex' = NULL
  /\ Reconnect(t)
  /\ UNCHANGED <<hdl, count, server, troubles, exact>>

(* redis_flushdb does not look at its answer, and redis6_* reconnects only *)
(* after its first select.                                                 *)
Ignored(t) ==
  /\ \/ Broken(t, "command") /\ kind[t] = "six"
           /\ With(t, NULL, "back") /\ UNCHANGED mutex
     \/ Broken(t, "command") /\ kind[t] = "flushdb" /\ UnlockAndReturn(t)
     \/ Broken(t, "back") /\ UnlockAndReturn(t)
  /\ UNCHANGED <<hdl, count, server, troubles, overlap, exact>>

(* redis_Uninit.  A call that has found the connection broken goes on with *)
(* redis_Init.                                                             *)
Uninited(t) ==
  IF kind[t] = "uninit" THEN Return(t) ELSE Goto(t, "init") /\ UNCHANGED <<kind, key, mine>>

(* The test of hdl.                                                        *)
Uninit(t) ==
  /\ pc[t] = "uninit"
  /\ IF hdl = NULL THEN Uninited(t) ELSE Goto(t, "free") /\ UNCHANGED <<kind, key, mine>>
  /\ UNCHANGED <<client, server, troubles, overlap, exact>>

(* redisFree, of hdl as it is now: NULL is left alone.                     *)
Free(t) ==
  /\ pc[t] = "free"
  /\ IF hdl # NULL /\ ctx[hdl] = "freed"
       THEN Fault
       ELSE /\ ctx' = [c \in Context |-> IF c = hdl THEN "freed" ELSE ctx[c]]
            /\ db' = [c \in Context |-> IF c = hdl THEN Other ELSE db[c]]
            /\ astray' = astray \ {hdl}
            /\ Goto(t, "forget")
            /\ UNCHANGED <<client, len, kind, key, mine, troubles, overlap, exact>>

Forget(t) ==
  /\ pc[t] = "forget"
  /\ hdl' = NULL
  /\ Goto(t, "destroy")
  /\ UNCHANGED <<mutex, count, server, kind, key, mine, troubles, overlap, exact>>

(* pthread_mutex_destroy, of a mutex that nobody may hold.                 *)
Destroy(t) ==
  /\ pc[t] = "destroy"
  /\ IF mutex \in Thread
       THEN Fault
       ELSE /\ mutex' = "destroyed"
            /\ Uninited(t)
            /\ UNCHANGED <<hdl, count, server, troubles, overlap, exact>>

(* redis_Init, which does nothing if somebody else has connected.          *)
InitTest(t) ==
  /\ pc[t] = "init"
  /\ IF hdl # NULL THEN Return(t) ELSE Goto(t, "connect") /\ UNCHANGED <<kind, key, mine>>
  /\ UNCHANGED <<client, server, troubles, overlap, exact>>

(* The server cannot be reached or does not take the password.             *)
ConnectFails(t) ==
  /\ pc[t] = "connect"
  /\ Return(t)
  /\ UNCHANGED <<client, server, troubles, overlap, exact>>

(* redisConnect allocates a context: at an address that was freed, unless  *)
(* a thread is in hiredis with it, or at one that nobody has any more.     *)
IsNew(c) ==
  /\ c = hdl => ctx[c] = "freed"
  /\ \A t \in Thread : mine[t] = c => ctx[c] = "freed" /\ pc[t] \notin InCommand

(* Connected, the database selected and emptied.  Nobody looks at the two  *)
(* answers: the SELECT may be refused, the FLUSHDB be refused or done in   *)
(* the wrong database, and the connection break before or after it.        *)
Connect(t) ==
  /\ pc[t] = "connect"
  /\ \E c \in Context, base \in {Home, Other}, state \in {"open", "broken"} :
       /\ IsNew(c) /\ (state = "broken" => base = Home)
       /\ ctx' = [ctx EXCEPT ![c] = state]
       /\ db' = [db EXCEPT ![c] = base]
       /\ astray' = IF base = Home THEN astray \ {c} ELSE astray \cup {c}
       /\ \/ base = Home /\ len' = [k \in Key |-> 0] /\ exact' = (count = 0)
          \/ UNCHANGED <<len, exact>>
       /\ IF state = "broken" \/ base = Other THEN Trouble ELSE UNCHANGED troubles
       /\ With(t, c, "publish")
  /\ UNCHANGED <<client, overlap>>

(* pthread_mutex_init, of a mutex that nobody may hold, and then hdl.      *)
Publish(t) ==
  /\ pc[t] = "publish"
  /\ IF mutex \in Thread
       THEN Fault
       ELSE /\ mutex' = NULL
            /\ Goto(t, "handle")
            /\ UNCHANGED <<hdl, count, server, kind, key, mine, troubles, overlap, exact>>

Handle(t) ==
  /\ pc[t] = "handle"
  /\ hdl' = mine[t]
  /\ Return(t)
  /\ UNCHANGED <<mutex, count, server, troubles, overlap, exact>>

-----------------------------------------------------------------------------

Call(t) == EnterInit(t) \/ \E op \in Kind, k \in Key \cup {NULL} : Enter(t, op, k)

Run(t) ==
  \/ LockDestroyed(t) \/ Full(t) \/ Lock(t) \/ Issue(t) \/ WaitOnFreed(t)
  \/ Answered(t) \/ Refused(t) \/ Drained(t)
  \/ Selected(t) \/ SelectedBack(t) \/ SelectRefused(t)
  \/ Lost(t) \/ Ignored(t)
  \/ Uninit(t) \/ Free(t) \/ Forget(t) \/ Destroy(t)
  \/ InitTest(t) \/ ConnectFails(t) \/ Connect(t) \/ Publish(t) \/ Handle(t)

Next == \E t \in Thread : Call(t) \/ Run(t) \/ Break(t)

(* Threads are scheduled, and the server answers or the connection breaks. *)
Spec == Init /\ [][Next]_vars /\ \A t \in Thread : WF_vars(Run(t))

-----------------------------------------------------------------------------
(* Properties                                                              *)

(* As long as no call runs while another one reconnects, a call never      *)
(* uses a context that was freed or not opened, never frees one twice, and *)
(* never destroys, takes or initialises a mutex that it may not            *)
(* (redis_api.cpp:134-201, and the failing branch of every call).          *)
FaultNeedsOverlap == (\E t \in Thread : pc[t] = "undefined") => overlap

(* A command reaches the database it is meant for: redis6_* leaves the     *)
(* connection as it found it, also when its own command is refused or      *)
(* lost.  This holds on a connection on which no SELECT was refused, whose *)
(* answers nobody looks at, and as long as no call runs while another one  *)
(* reconnects: hdl is read for each of the three commands                  *)
(* (redis_api.cpp:178-179, 584-744).                                       *)
RightDb ==
  ~overlap => \A t \in Thread :
    pc[t] = "command" /\ mine[t] # NULL /\ ctx[mine[t]] = "open" /\ mine[t] \notin astray =>
      db[mine[t]] = IF kind[t] = "six" THEN Dvr ELSE Home

(* While nobody holds the mutex the counter is the number of items in the  *)
(* queues, from one emptying of the queues to the first answer that the    *)
(* counter does not follow: an error, nothing to pop, another database,    *)
(* DEL, FLUSHDB, NULL (redis_api.cpp:227-336).                             *)
CountIsLength == exact /\ mutex \notin Thread => count = Total

(* Once no more calls come, all threads end theirs: nobody keeps the mutex *)
(* and nobody reconnects for ever (redis_api.cpp:203-744).                 *)
CallsEnd ==
  <>[][\A t \in Thread : ~Call(t)]_vars => <>[](\A t \in Thread : pc[t] \in {"idle", "undefined"})
=============================================================================
