----------------------------- MODULE RingBuffer -----------------------------
(***************************************************************************)
(* toolkit::RingBuffer (include/Util/RingBuffer.h): a writer stores each   *)
(* item and hands it, as a task, to the pollers whose dispatchers have     *)
(* readers.  A dispatcher and its readers belong to the thread of their    *)
(* poller; a reader may be dropped by any thread.  A poller is external:   *)
(* a queue of tasks that one thread runs, next to the calls it makes       *)
(* itself.                                                                 *)
(***************************************************************************)
EXTENDS Integers, FiniteSets, Functions, SequencesExt

CONSTANTS
  Poller,
  Reader,       (* the addresses of RingReaders                            *)
  Dispatcher,   (* the RingReaderDispatchers                               *)
  MaxSize,      (* _max_size                                               *)
  MaxWrites,    (* bound on the items written                              *)
  NULL

ASSUME NullAssumption ==
  /\ NULL \notin Poller \cup Reader \cup Dispatcher
  /\ NULL \notin [poller : Poller, disp : Dispatcher]
ASSUME SizeAssumption == MaxSize \in Nat \ {0} /\ MaxWrites \in Nat

VARIABLES
  n, keys,      (* the items written, 1..n, and the key frames among them  *)
  storage,      (* RingBuffer::_storage                                    *)
  map,          (* _dispatcher_map                                         *)
  closed,       (* the RingBuffer is destroyed                             *)
  live,         (* the dispatchers that exist                              *)
  store,        (* per dispatcher, its _storage                            *)
  readers,      (* per dispatcher, its _reader_map                         *)
  size,         (* per dispatcher, _reader_size                            *)
  handled,      (* per dispatcher, the last item in its storage (history)  *)
  queue,        (* per poller, its tasks                                   *)
  state,        (* per reader: "free", "held", "ready" (has its callback)  *)
                (* or "dead": released and not yet deleted                 *)
  home,         (* per reader, its poller and its dispatcher               *)
  cached,       (* per reader, _use_cache                                  *)
  got,          (* per reader, the items its callback was given            *)
  from,         (* per reader, the last item before those (history)        *)
  told          (* the readers whose onDetach was called                   *)

source == <<n, keys, storage>>
owners == <<map, closed, live, queue>>
fields == <<store, readers, size, handled>>
reader == <<state, home, cached, got, from, told>>
vars == <<source, owners, fields, reader>>

Alive(r) == state[r] \in {"held", "ready"}

Task ==
  [op : {"write"}, disp : Dispatcher, arg : 1..MaxWrites]
    \cup [op : {"dealloc"}, disp : Dispatcher, arg : Reader]
    \cup [op : {"delete"}, disp : Dispatcher, arg : {NULL}]

Write(d, i)   == [op |-> "write", disp |-> d, arg |-> i]
Dealloc(d, r) == [op |-> "dealloc", disp |-> d, arg |-> r]
Delete(d)     == [op |-> "delete", disp |-> d, arg |-> NULL]

TypeOK ==
  /\ n \in 0..MaxWrites /\ keys \subseteq 1..n
  /\ storage \in Seq(1..n)
  /\ map \in [Poller -> Dispatcher \cup {NULL}]
  /\ closed \in BOOLEAN
  /\ live \subseteq Dispatcher
  /\ store \in [Dispatcher -> Seq(1..n)]
  /\ readers \in [Dispatcher -> SUBSET Reader]
  /\ size \in [Dispatcher -> Nat]
  /\ handled \in [Dispatcher -> 0..n]
  /\ queue \in [Poller -> Seq(Task)]
  /\ state \in [Reader -> {"free", "held", "ready", "dead"}]
  /\ home \in [Reader -> [poller : Poller, disp : Dispatcher] \cup {NULL}]
  /\ cached \in [Reader -> BOOLEAN]
  /\ got \in [Reader -> Seq(1..n)]
  /\ from \in [Reader -> 0..n]
  /\ told \subseteq Reader

Init ==
  /\ n = 0 /\ keys = {} /\ storage = <<>>
  /\ map = [p \in Poller |-> NULL]
  /\ closed = FALSE /\ live = {}
  /\ store = [d \in Dispatcher |-> <<>>]
  /\ readers = [d \in Dispatcher |-> {}]
  /\ size = [d \in Dispatcher |-> 0]
  /\ handled = [d \in Dispatcher |-> 0]
  /\ queue = [p \in Poller |-> <<>>]
  /\ state = [r \in Reader |-> "free"]
  /\ home = [r \in Reader |-> NULL]
  /\ cached = [r \in Reader |-> FALSE]
  /\ got = [r \in Reader |-> <<>>]
  /\ from = [r \in Reader |-> 0]
  /\ told = {}

-----------------------------------------------------------------------------

(* Mutant of Stored: beyond _max_size the newest item goes.                *)
Stored_PopsBack(s, i, isKey) ==
  LET t == IF isKey THEN <<i>> ELSE Append(s, i) IN
  IF Len(t) > MaxSize THEN Front(t) ELSE t

(* RingStorage::write: a key frame replaces what is stored, and beyond     *)
(* _max_size the oldest item goes.                                         *)
Stored(s, i, isKey) ==
  LET t == IF isKey THEN <<i>> ELSE Append(s, i) IN
  IF Len(t) > MaxSize THEN Tail(t) ELSE t

(* RingBuffer::write, under _mtx_map.                                      *)
WriteItem(isKey) ==
  /\ ~closed /\ n < MaxWrites
  /\ n' = n + 1
  /\ keys' = IF isKey THEN keys \cup {n'} ELSE keys
  /\ storage' = Stored(storage, n', isKey)
  /\ queue' = [p \in Poller |->
                 IF map[p] = NULL THEN queue[p] ELSE Append(queue[p], Write(map[p], n'))]
  /\ UNCHANGED <<map, closed, live, fields, reader>>

(* A dispatcher that no reader still has a weak pointer to; which one      *)
(* makes no difference.                                                    *)
IsNew(d) == d \notin live /\ \A r \in Reader : home[r] # NULL => home[r].disp # d

New == CHOOSE d \in Dispatcher : IsNew(d)

(* attach makes the poller a dispatcher, with a copy of the storage.       *)
MakeDispatcher(p) ==
  /\ map[p] = NULL
  /\ \E d \in Dispatcher : IsNew(d)
  /\ map' = [map EXCEPT ![p] = New]
  /\ live' = live \cup {New}
  /\ store' = [store EXCEPT ![New] = storage]
  /\ handled' = [handled EXCEPT ![New] = n]

(* attach in the thread of the poller.                                     *)
Attach(p, r, useCache) ==
  /\ ~closed /\ state[r] = "free"
  /\ \/ map[p] # NULL /\ UNCHANGED <<map, live, store, handled>>
     \/ MakeDispatcher(p)
  /\ readers' = [readers EXCEPT ![map'[p]] = @ \cup {r}]
  /\ size' = [size EXCEPT ![map'[p]] = @ + 1]
  /\ state' = [state EXCEPT ![r] = "held"]
  /\ home' = [home EXCEPT ![r] = [poller |-> p, disp |-> map'[p]]]
  /\ cached' = [cached EXCEPT ![r] = useCache]
  /\ UNCHANGED <<source, closed, queue, got, from, told>>

(* attach in another thread throws, and leaves the dispatcher it made.     *)
AttachThrows(p) ==
  /\ ~closed
  /\ MakeDispatcher(p)
  /\ UNCHANGED <<source, closed, queue, readers, size, reader>>

(* setReadCB, once, in the thread of the poller: flushGop gives the reader what   *)
(* the storage of its dispatcher has.                                      *)
Listen(r) ==
  LET s == store[home[r].disp] IN
  /\ state[r] = "held"
  /\ state' = [state EXCEPT ![r] = "ready"]
  /\ got' = [got EXCEPT ![r] = IF cached[r] THEN s ELSE <<>>]
  /\ from' = [from EXCEPT ![r] = handled[home[r].disp] - Len(got'[r])]
  /\ UNCHANGED <<source, owners, fields, home, cached, told>>

-----------------------------------------------------------------------------
(* The tasks of a poller, in its thread                                    *)

HasWrite(d, tasks) == \E k \in DOMAIN tasks : tasks[k].op = "write" /\ tasks[k].disp = d

(* A dispatcher is deleted with its last reference: ~_RingReaderDispatcher *)
(* tells the readers that are left.                                        *)
Destroy(d, rs) ==
  /\ live' = live \ {d}
  /\ readers' = [readers EXCEPT ![d] = {}]
  /\ size' = [size EXCEPT ![d] = 0]
  /\ told' = {r \in told \cup rs : state'[r] \in {"held", "ready"}}

Keep(d, rs) ==
  /\ live' = live
  /\ readers' = [readers EXCEPT ![d] = rs]
  /\ size' = [size EXCEPT ![d] = @ - Cardinality(readers[d] \ rs)]
  /\ told' = {r \in told : state'[r] \in {"held", "ready"}}

(* On poller p, whose further tasks are rest, d has the readers rs left:   *)
(* when the last of them goes onSizeChanged takes what the map has for p   *)
(* out of it, and d is deleted here once neither the map nor a task holds  *)
(* it.                                                                     *)
LeftWith(p, d, rs, rest) ==
  /\ queue' = [queue EXCEPT ![p] = rest]
  /\ map' = IF rs # readers[d] /\ size[d] = Cardinality(readers[d] \ rs)
              THEN [map EXCEPT ![p] = NULL] ELSE map
  /\ IF map'[p] # d /\ ~HasWrite(d, rest) THEN Destroy(d, rs) ELSE Keep(d, rs)

IsTask(p, op) == queue[p] # <<>> /\ Head(queue[p]).op = op

(* _RingReaderDispatcher::write: dead readers are erased, the others get   *)
(* the item, and it is stored.                                             *)
RunWrite(p) ==
  LET d == Head(queue[p]).disp
      i == Head(queue[p]).arg
      rs == {r \in readers[d] : Alive(r)} IN
  /\ IsTask(p, "write")
  /\ got' = [r \in Reader |->
               IF r \in rs /\ state[r] = "ready" THEN Append(got[r], i) ELSE got[r]]
  /\ store' = [store EXCEPT ![d] = Stored(@, i, i \in keys)]
  /\ handled' = [handled EXCEPT ![d] = i]
  /\ UNCHANGED <<source, closed, state, home, cached, from>>
  /\ LeftWith(p, d, rs, Tail(queue[p]))

(* The task of on_dealloc: if the weak pointer still finds the dispatcher  *)
(* the reader is erased from it, if it is still there; an expired entry of *)
(* a dispatcher on its way out means nothing to anybody.                   *)
Erased(p, d, r, rest) ==
  IF d \in live /\ (map[p] = d \/ HasWrite(d, rest)) /\ r \in readers[d]
    THEN LeftWith(p, d, readers[d] \ {r}, rest)
    ELSE /\ queue' = [queue EXCEPT ![p] = rest]
         /\ readers' = [readers EXCEPT ![d] = @ \ {r}]
         /\ told' = told \ {r}
         /\ UNCHANGED <<map, live, size>>

Forget(r, s) ==
  /\ state' = [state EXCEPT ![r] = s]
  /\ home' = IF s = "free" THEN [home EXCEPT ![r] = NULL] ELSE home
  /\ cached' = [cached EXCEPT ![r] = FALSE]
  /\ got' = [got EXCEPT ![r] = <<>>]
  /\ from' = [from EXCEPT ![r] = 0]

RunDealloc(p) ==
  LET r == Head(queue[p]).arg IN
  /\ IsTask(p, "dealloc")
  /\ Forget(r, "free")
  /\ Erased(p, Head(queue[p]).disp, r, Tail(queue[p]))
  /\ UNCHANGED <<source, closed, store, handled>>

RunDelete(p) ==
  LET d == Head(queue[p]).disp IN
  /\ IsTask(p, "delete")
  /\ UNCHANGED <<source, map, closed, store, handled, state, home, cached, got, from>>
  /\ Destroy(d, readers[d])
  /\ queue' = [queue EXCEPT ![p] = Tail(@)]

-----------------------------------------------------------------------------

(* The last pointer to a reader goes, in the poller's thread, where async  *)
(* runs the task at once, or in another thread.                            *)
DropHere(r) ==
  LET p == home[r].poller IN
  /\ Alive(r)
  /\ Forget(r, "free")
  /\ Erased(p, home[r].disp, r, queue[p])
  /\ UNCHANGED <<source, closed, store, handled>>

(* Mutant of Drop: on_dealloc deletes the reader outside the task.         *)
Drop_DeletesHere(r) ==
  LET p == home[r].poller IN
  /\ Alive(r)
  /\ Forget(r, "free")
  /\ told' = told \ {r}
  /\ UNCHANGED <<source, owners, fields>>

Drop(r) ==
  LET p == home[r].poller IN
  /\ Alive(r)
  /\ Forget(r, "dead")
  /\ told' = told \ {r}
  /\ queue' = [queue EXCEPT ![p] = Append(@, Dealloc(home[r].disp, r))]
  /\ UNCHANGED <<source, map, closed, live, fields>>

(* Mutant of Close: a dispatcher is deleted whatever is still to be        *)
(* written.                                                                *)
Close_DropsWrites(q) ==
  LET used == {p \in Poller : map[p] # NULL} IN
  /\ ~closed
  /\ closed' = TRUE
  /\ map' = [p \in Poller |-> NULL]
  /\ storage' = <<>>
  /\ queue' = [p \in Poller |->
                 IF p \in used
                   THEN Append(SelectSeq(queue[p], LAMBDA t : t.op # "write"), Delete(map[p]))
                   ELSE queue[p]]
  /\ UNCHANGED <<n, keys, live, fields, reader>>

(* ~RingBuffer, in the thread of poller q or in another one (NULL): the    *)
(* dispatchers without a task are deleted, each in its poller's thread.    *)
Close(q) ==
  LET idle == {p \in Poller : map[p] # NULL /\ ~HasWrite(map[p], queue[p])} IN
  /\ ~closed
  /\ closed' = TRUE
  /\ map' = [p \in Poller |-> NULL]
  /\ storage' = <<>>
  /\ queue' = [p \in Poller |->
                 IF p \in idle \ {q} THEN Append(queue[p], Delete(map[p])) ELSE queue[p]]
  /\ UNCHANGED <<n, keys, store, handled, state, home, cached, got, from>>
  /\ IF q \in idle THEN Destroy(map[q], readers[map[q]]) ELSE UNCHANGED <<live, readers, size, told>>

Run(p) == RunWrite(p) \/ RunDealloc(p) \/ RunDelete(p)

Next ==
  \/ \E isKey \in BOOLEAN : WriteItem(isKey)
  \/ \E p \in Poller : AttachThrows(p) \/ Run(p)
  \/ \E p \in Poller, r \in Reader, useCache \in BOOLEAN : Attach(p, r, useCache)
  \/ \E r \in Reader : Listen(r) \/ DropHere(r) \/ Drop(r)
  \/ \E q \in Poller \cup {NULL} : Close(q)

(* The thread of a poller runs its tasks.                                  *)
Spec == Init /\ [][Next]_vars /\ \A p \in Poller : WF_vars(Run(p))

-----------------------------------------------------------------------------
(* Properties                                                              *)

(* What a reader is given is one stretch of the stream, without a gap, a   *)
(* repetition or a swap, from the first item of the cached ones or from    *)
(* the first written after it listens (RingBuffer.h:91-99, 196-209,        *)
(* 266-280).                                                               *)
InOrder == \A r \in Reader : \A k \in DOMAIN got[r] : got[r][k] = from[r] + k

(* A reader that is held is with the dispatcher that gets the items of its *)
(* poller, until it is told of the end, and a dispatcher counts exactly    *)
(* its readers, so that it leaves the map with the last and not before,    *)
(* whichever of the writer and the task of on_dealloc finds a dead reader  *)
(* first (RingBuffer.h:196-233, 286-333).                                  *)
ReaderIsServed ==
  /\ \A r \in Reader : Alive(r) /\ r \notin told =>
       /\ r \in readers[home[r].disp]
       /\ closed \/ map[home[r].poller] = home[r].disp
  /\ \A d \in Dispatcher \cap Range(map) : size[d] = Cardinality(readers[d])

Ready(r) == state[r] = "ready"

(* The abstract feed: what a reader gets is a join, then every item once   *)
(* and in order, and word of the end after the last one.                   *)
F == INSTANCE Feed WITH
       phase <- [r \in Reader |-> IF ~Ready(r) THEN "out" ELSE IF r \in told THEN "told" ELSE "in"],
       pos <- [r \in Reader |-> from[r] + Len(got[r])]

ImplementsFeed == F!Spec

(* Each item written while a reader listens reaches it, unless it goes     *)
(* first, and each reader left is told of the end (RingBuffer.h:178-187,   *)
(* 266-280).                                                               *)
EverythingArrives ==
  \A r \in Reader :
    /\ \A i \in 1..MaxWrites :
         (Ready(r) /\ i \in from[r] + 1 .. n) ~> (~Ready(r) \/ from[r] + Len(got[r]) >= i)
    /\ closed /\ Alive(r) ~> ~Alive(r) \/ r \in told
=============================================================================
