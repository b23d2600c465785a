-------------------------- MODULE RingBuffer_proofs --------------------------
(***************************************************************************)
(* Theorems about RingBuffer for every number of pollers, readers, items   *)
(* and dispatchers: its types, that each reader is given a stretch of the  *)
(* stream in order, that a held reader is served, and that it implements   *)
(* Feed.                                                                   *)
(***************************************************************************)
EXTENDS RingBuffer, FiniteSetTheorems, TLAPS

-----------------------------------------------------------------------------
(* The tasks of a poller                                                   *)

IsWrite(d, t) == t.op = "write" /\ t.disp = d

HasDelete(d, tasks) == \E k \in DOMAIN tasks : tasks[k].op = "delete" /\ tasks[k].disp = d

(* A write of item i waits for d.                                          *)
Waits(d, i, tasks) == \E k \in DOMAIN tasks : IsWrite(d, tasks[k]) /\ tasks[k].arg = i

(* The items that wait for d come one after the other, the first is the    *)
(* one after h, and the last is at most m.                                 *)
Rising(d, tasks) ==
  \A k, l \in DOMAIN tasks :
    IsWrite(d, tasks[k]) /\ IsWrite(d, tasks[l]) /\ k < l => tasks[k].arg < tasks[l].arg

Gapless(d, h, m, tasks) ==
  \A k \in DOMAIN tasks : IsWrite(d, tasks[k]) =>
    tasks[k].arg \in h + 1 .. m /\ \A i \in h + 1 .. tasks[k].arg : Waits(d, i, tasks)

Chain(d, h, m, tasks) == Rising(d, tasks) /\ Gapless(d, h, m, tasks)

(* All the items after h up to m wait for d.                               *)
Reaches(d, h, m, tasks) == \A i \in h + 1 .. m : Waits(d, i, tasks)

(* A sequence with one element more, or without its first one.             *)
LEMMA Pushed ==
  ASSUME NEW S, NEW q \in Seq(S), NEW t \in S
  PROVE  /\ Append(q, t) \in Seq(S)
         /\ Len(q) \in Nat /\ DOMAIN q = 1..Len(q)
         /\ DOMAIN Append(q, t) = 1..Len(q) + 1
         /\ Len(Append(q, t)) = Len(q) + 1 /\ Append(q, t) # <<>>
         /\ \A k \in 1..Len(q) : Append(q, t)[k] = q[k]
         /\ Append(q, t)[Len(q) + 1] = t
OBVIOUS

LEMMA Popped ==
  ASSUME NEW S, NEW q \in Seq(S), q # <<>>
  PROVE  /\ Tail(q) \in Seq(S) /\ Head(q) \in S /\ Head(q) = q[1]
         /\ Len(q) \in Nat \ {0} /\ DOMAIN q = 1..Len(q)
         /\ DOMAIN Tail(q) = 1..Len(q) - 1 /\ Len(Tail(q)) = Len(q) - 1
         /\ \A k \in 1..Len(q) - 1 : Tail(q)[k] = q[k + 1]
OBVIOUS

(* A task that is appended adds what it asks for and nothing else.         *)
LEMMA PushedTask ==
  ASSUME NEW q \in Seq(Task), NEW t \in Task, NEW d
  PROVE  /\ HasWrite(d, Append(q, t)) <=> HasWrite(d, q) \/ IsWrite(d, t)
         /\ HasDelete(d, Append(q, t)) <=> HasDelete(d, q) \/ (t.op = "delete" /\ t.disp = d)
         /\ \A i : Waits(d, i, q) => Waits(d, i, Append(q, t))
<1> DEFINE a == Append(q, t)
<1>1. /\ Len(q) \in Nat /\ DOMAIN q = 1..Len(q) /\ DOMAIN a = 1..Len(q) + 1
      /\ \A k \in 1..Len(q) : a[k] = q[k] /\ k \in DOMAIN a
      /\ a[Len(q) + 1] = t /\ Len(q) + 1 \in DOMAIN a
      /\ \A k \in DOMAIN a : k \in DOMAIN q \/ k = Len(q) + 1
  BY Pushed
<1> HIDE DEF a
<1>2. HasWrite(d, a) <=> HasWrite(d, q) \/ IsWrite(d, t)
  BY <1>1 DEF HasWrite, IsWrite
<1>3. HasDelete(d, a) <=> HasDelete(d, q) \/ (t.op = "delete" /\ t.disp = d)
  BY <1>1 DEF HasDelete
<1>4. \A i : Waits(d, i, q) => Waits(d, i, a)
  BY <1>1 DEF Waits
<1>5. QED
  BY <1>2, <1>3, <1>4 DEF a

(* The task that is taken leaves the others.                               *)
LEMMA PoppedTask ==
  ASSUME NEW q \in Seq(Task), q # <<>>, NEW d
  PROVE  /\ HasWrite(d, q) <=> HasWrite(d, Tail(q)) \/ IsWrite(d, Head(q))
         /\ HasDelete(d, q) <=>
              HasDelete(d, Tail(q)) \/ (Head(q).op = "delete" /\ Head(q).disp = d)
         /\ \A i : Waits(d, i, q) =>
              Waits(d, i, Tail(q)) \/ (IsWrite(d, Head(q)) /\ Head(q).arg = i)
<1> DEFINE a == Tail(q)
<1>1. /\ Len(q) \in Nat \ {0} /\ DOMAIN q = 1..Len(q) /\ DOMAIN a = 1..Len(q) - 1
      /\ \A k \in DOMAIN a : a[k] = q[k + 1] /\ k + 1 \in DOMAIN q
      /\ Head(q) = q[1] /\ 1 \in DOMAIN q
      /\ \A k \in DOMAIN q : k = 1 \/ (k - 1 \in DOMAIN a /\ a[k - 1] = q[k])
  BY Popped
<1> HIDE DEF a
<1>2. HasWrite(d, q) <=> HasWrite(d, a) \/ IsWrite(d, Head(q))
  BY <1>1 DEF HasWrite, IsWrite
<1>3. HasDelete(d, q) <=> HasDelete(d, a) \/ (Head(q).op = "delete" /\ Head(q).disp = d)
  BY <1>1 DEF HasDelete
<1>4. \A i : Waits(d, i, q) => Waits(d, i, a) \/ (IsWrite(d, Head(q)) /\ Head(q).arg = i)
  BY <1>1 DEF Waits
<1>5. QED
  BY <1>2, <1>3, <1>4 DEF a

(* A task that is no write for d leaves the chain of d as it is.           *)
LEMMA ChainPushedOther ==
  ASSUME NEW q \in Seq(Task), NEW t \in Task, NEW d, NEW h \in Nat, NEW m \in Nat,
         ~IsWrite(d, t)
  PROVE  /\ Chain(d, h, m, q) => Chain(d, h, m, Append(q, t))
         /\ Reaches(d, h, m, q) => Reaches(d, h, m, Append(q, t))
<1> DEFINE a == Append(q, t)
<1>1. /\ \A k \in DOMAIN a : k \in DOMAIN q \/ a[k] = t
      /\ \A k \in DOMAIN q : a[k] = q[k]
      /\ \A i : Waits(d, i, q) => Waits(d, i, a)
  BY Pushed, PushedTask
<1> HIDE DEF a
<1>2. Rising(d, q) => Rising(d, a)
  BY <1>1 DEF Rising
<1>3. Gapless(d, h, m, q) => Gapless(d, h, m, a)
  BY <1>1 DEF Gapless
<1>4. Reaches(d, h, m, q) => Reaches(d, h, m, a)
  BY <1>1 DEF Reaches
<1>5. QED
  BY <1>2, <1>3, <1>4 DEF a, Chain

(* The next item continues a chain that has all the items before it.       *)
LEMMA ChainPushed ==
  ASSUME NEW q \in Seq(Task), NEW t \in Task, NEW d, NEW h \in Nat, NEW m \in Nat,
         IsWrite(d, t), t.arg = m + 1, h <= m,
         Chain(d, h, m, q), Reaches(d, h, m, q)
  PROVE  Chain(d, h, m + 1, Append(q, t)) /\ Reaches(d, h, m + 1, Append(q, t))
<1> DEFINE a == Append(q, t)
<1>1. /\ Len(q) \in Nat /\ DOMAIN q = 1..Len(q) /\ DOMAIN a = 1..Len(q) + 1
      /\ \A k \in 1..Len(q) : a[k] = q[k]
      /\ a[Len(q) + 1] = t
      /\ \A i : Waits(d, i, q) => Waits(d, i, a)
  BY Pushed, PushedTask
<1> HIDE DEF a
<1>2. Waits(d, m + 1, a)
  BY <1>1 DEF Waits
<1>3. Reaches(d, h, m + 1, a)
  BY <1>1, <1>2 DEF Reaches
<1>4. \A k \in DOMAIN q : IsWrite(d, q[k]) => q[k].arg \in h + 1 .. m
  BY DEF Chain, Gapless
<1>5. Rising(d, a)
  <2> SUFFICES ASSUME NEW k \in DOMAIN a, NEW l \in DOMAIN a,
                      IsWrite(d, a[k]), IsWrite(d, a[l]), k < l
               PROVE  a[k].arg < a[l].arg
    BY DEF Rising
  <2>1. k \in DOMAIN q /\ a[k] = q[k]
    BY <1>1
  <2>2. CASE l \in DOMAIN q
    BY <1>1, <2>1, <2>2 DEF Chain, Rising
  <2>3. CASE l = Len(q) + 1
    BY <1>1, <1>4, <2>1, <2>3
  <2>4. QED
    BY <1>1, <2>2, <2>3
<1>6. Gapless(d, h, m + 1, a)
  <2> SUFFICES ASSUME NEW k \in DOMAIN a, IsWrite(d, a[k])
               PROVE  a[k].arg \in h + 1 .. m + 1
                        /\ \A i \in h + 1 .. a[k].arg : Waits(d, i, a)
    BY DEF Gapless
  <2>1. a[k].arg \in h + 1 .. m + 1
    BY <1>1, <1>4
  <2>2. QED
    BY <1>3, <2>1 DEF Reaches
<1>7. QED
  BY <1>3, <1>5, <1>6 DEF a, Chain

(* The bound of a chain may grow, and where no write waits any chain is.   *)
LEMMA ChainBound ==
  ASSUME NEW q, NEW d, NEW h \in Nat, NEW m \in Nat, Chain(d, h, m, q)
  PROVE  Chain(d, h, m + 1, q)
<1>1. \A k \in DOMAIN q : IsWrite(d, q[k]) => q[k].arg \in h + 1 .. m + 1
  BY DEF Chain, Gapless
<1>2. QED
  BY <1>1 DEF Chain, Gapless

LEMMA ChainEmpty ==
  ASSUME NEW q, NEW d, NEW h, NEW m, ~HasWrite(d, q)
  PROVE  Chain(d, h, m, q)
BY DEF Chain, Rising, Gapless, HasWrite, IsWrite

LEMMA ReachesEmpty ==
  ASSUME NEW q, NEW d, NEW h \in Nat, NEW m \in Nat, ~HasWrite(d, q), h <= m
  PROVE  Reaches(d, h, m, q) <=> h = m
<1>1. \A i : ~Waits(d, i, q)
  BY DEF Waits, HasWrite, IsWrite
<1>2. h # m => h + 1 \in h + 1 .. m
  OBVIOUS
<1>3. h = m => h + 1 .. m = {}
  OBVIOUS
<1>4. QED
  BY <1>1, <1>2, <1>3 DEF Reaches

(* Another task is taken: the chain of d stays.                            *)
LEMMA ChainPoppedOther ==
  ASSUME NEW q \in Seq(Task), q # <<>>, NEW d, NEW h \in Nat, NEW m \in Nat,
         ~IsWrite(d, Head(q))
  PROVE  /\ Chain(d, h, m, q) => Chain(d, h, m, Tail(q))
         /\ Reaches(d, h, m, q) => Reaches(d, h, m, Tail(q))
<1> DEFINE a == Tail(q)
<1>1. /\ Len(q) \in Nat \ {0} /\ DOMAIN q = 1..Len(q) /\ DOMAIN a = 1..Len(q) - 1
      /\ \A k \in DOMAIN a : a[k] = q[k + 1] /\ k + 1 \in DOMAIN q
      /\ \A i : Waits(d, i, q) => Waits(d, i, a)
  BY Popped, PoppedTask
<1> HIDE DEF a
<1>2. Rising(d, q) => Rising(d, a)
  BY <1>1 DEF Rising
<1>3. Gapless(d, h, m, q) => Gapless(d, h, m, a)
  BY <1>1 DEF Gapless
<1>4. Reaches(d, h, m, q) => Reaches(d, h, m, a)
  BY <1>1 DEF Reaches
<1>5. QED
  BY <1>2, <1>3, <1>4 DEF a, Chain

(* A write of d is taken: it is the next item, and the rest follows.       *)
LEMMA ChainPopped ==
  ASSUME NEW q \in Seq(Task), q # <<>>, NEW d, NEW h \in Nat, NEW m \in Nat,
         IsWrite(d, Head(q)), Chain(d, h, m, q)
  PROVE  /\ Head(q).arg = h + 1 /\ h + 1 <= m
         /\ Chain(d, h + 1, m, Tail(q))
         /\ Reaches(d, h, m, q) => Reaches(d, h + 1, m, Tail(q))
<1> DEFINE a == Tail(q)
<1>1. /\ Len(q) \in Nat \ {0} /\ DOMAIN q = 1..Len(q) /\ DOMAIN a = 1..Len(q) - 1
      /\ \A k \in DOMAIN a : a[k] = q[k + 1] /\ k + 1 \in DOMAIN q
      /\ Head(q) = q[1] /\ 1 \in DOMAIN q
  BY Popped
<1>2. \A i : Waits(d, i, q) => Waits(d, i, a) \/ Head(q).arg = i
  BY PoppedTask
<1> HIDE DEF a
<1>3. Head(q).arg \in h + 1 .. m /\ \A i \in h + 1 .. Head(q).arg : Waits(d, i, q)
  BY <1>1 DEF Chain, Gapless
<1>4. \A k \in DOMAIN q : IsWrite(d, q[k]) => q[k].arg \in Head(q).arg .. m
  BY <1>1 DEF Chain, Gapless, Rising
<1>5. Head(q).arg = h + 1
  <2>1. Waits(d, h + 1, q)
    BY <1>3
  <2>2. QED
    BY <1>3, <1>4, <2>1 DEF Waits
<1>6. Rising(d, a)
  BY <1>1 DEF Chain, Rising
<1>7. \A k \in DOMAIN a : IsWrite(d, a[k]) => a[k].arg \in h + 2 .. m
  <2> SUFFICES ASSUME NEW k \in DOMAIN a, IsWrite(d, a[k]) PROVE a[k].arg \in h + 2 .. m
    OBVIOUS
  <2>1. k + 1 \in DOMAIN q /\ 1 < k + 1 /\ IsWrite(d, q[k + 1]) /\ a[k] = q[k + 1]
    BY <1>1
  <2>2. q[1].arg < q[k + 1].arg
    BY <1>1, <2>1 DEF Chain, Rising
  <2>3. QED
    BY <1>1, <1>4, <1>5, <2>1, <2>2
<1>8. Gapless(d, h + 1, m, a)
  <2> SUFFICES ASSUME NEW k \in DOMAIN a, IsWrite(d, a[k])
               PROVE  a[k].arg \in h + 2 .. m
                        /\ \A i \in h + 2 .. a[k].arg : Waits(d, i, a)
    BY DEF Gapless
  <2>1. k + 1 \in DOMAIN q /\ IsWrite(d, q[k + 1]) /\ a[k] = q[k + 1]
    BY <1>1
  <2>2. \A i \in h + 1 .. a[k].arg : Waits(d, i, q)
    BY <2>1 DEF Chain, Gapless
  <2>3. QED
    BY <1>2, <1>5, <1>7, <2>2
<1>9. Reaches(d, h, m, q) => Reaches(d, h + 1, m, a)
  BY <1>2, <1>5 DEF Reaches
<1>10. QED
  BY <1>3, <1>5, <1>6, <1>8, <1>9 DEF a, Chain

-----------------------------------------------------------------------------
(* The inductive invariant                                                 *)

Holds(p, d) == map[p] = d \/ HasWrite(d, queue[p])
Owns(p, d)  == Holds(p, d) \/ HasDelete(d, queue[p])

(* A dispatcher belongs to one poller: the map has it there, its writes    *)
(* and its deletion wait there, and its readers live there.                *)
OwnedIsLive == \A p \in Poller, d \in Dispatcher : Owns(p, d) => d \in live

OneOwner ==
  \A p, q \in Poller, d \in Dispatcher : Owns(p, d) /\ Owns(q, d) => p = q

HomeOwns ==
  \A r \in Reader, q \in Poller :
    home[r] # NULL /\ Owns(q, home[r].disp) => q = home[r].poller

(* A deletion is the last task of a dispatcher, and there is one of it.    *)
DeletedLast ==
  \A p \in Poller, d \in Dispatcher : HasDelete(d, queue[p]) => closed /\ ~Holds(p, d)

DeletedOnce ==
  \A p \in Poller : \A k, l \in DOMAIN queue[p] :
    /\ queue[p][k].op = "delete" /\ queue[p][l].op = "delete"
    /\ queue[p][k].disp = queue[p][l].disp
    => k = l

(* A dispatcher with readers leaves the map with the RingBuffer only.      *)
ClosedMap == closed => \A p \in Poller : map[p] = NULL
Unmapped  == \A d \in Dispatcher : ~closed /\ readers[d] # {} => \E p \in Poller : map[p] = d

DeadIsEmpty == \A d \in Dispatcher : d \notin live => readers[d] = {} /\ size[d] = 0

Owners ==
  /\ OwnedIsLive /\ OneOwner /\ HomeOwns /\ DeletedLast /\ DeletedOnce
  /\ ClosedMap /\ Unmapped /\ DeadIsEmpty

Counted ==
  \A d \in Dispatcher :
    /\ IsFiniteSet(readers[d])
    /\ \A p \in Poller : Holds(p, d) => size[d] = Cardinality(readers[d])

FreeIsNull == \A r \in Reader : state[r] = "free" <=> home[r] = NULL

Listed ==
  \A d \in Dispatcher : \A r \in readers[d] : home[r] # NULL /\ home[r].disp = d

(* Who is told of the end has got the last item.                           *)
ToldIsGone ==
  \A r \in told :
    Alive(r) /\ closed /\ home[r].disp \notin live /\ handled[home[r].disp] = n

Served ==
  \A r \in Reader : Alive(r) /\ r \notin told =>
    /\ r \in readers[home[r].disp]
    /\ closed \/ map[home[r].poller] = home[r].disp

(* A released reader waits for one task of its poller.                     *)
Deallocs ==
  \A p \in Poller : \A k \in DOMAIN queue[p] : queue[p][k].op = "dealloc" =>
    /\ state[queue[p][k].arg] = "dead"
    /\ home[queue[p][k].arg] = [poller |-> p, disp |-> queue[p][k].disp]
    /\ \A l \in DOMAIN queue[p] :
         queue[p][l].op = "dealloc" /\ queue[p][l].arg = queue[p][k].arg => k = l

Readers == Counted /\ FreeIsNull /\ Listed /\ ToldIsGone /\ Served /\ Deallocs

(* s holds the items up to m, without a gap.                               *)
EndsAt(s, m) == Len(s) <= m /\ \A k \in DOMAIN s : s[k] = m - Len(s) + k

(* What waits for a dispatcher continues what it has handled, up to the    *)
(* last item written if somebody reads it.                                 *)
Streams ==
  \A p \in Poller, d \in Dispatcher :
    /\ Chain(d, handled[d], n, queue[p])
    /\ map[p] = d \/ (Owns(p, d) /\ readers[d] # {}) => Reaches(d, handled[d], n, queue[p])

(* A reader has got all that its dispatcher has handled.                   *)
Position ==
  \A r \in Reader :
    /\ Ready(r) => from[r] + Len(got[r]) = handled[home[r].disp]
    /\ ~Ready(r) => got[r] = <<>> /\ from[r] = 0

Items ==
  /\ EndsAt(storage, n)
  /\ \A d \in Dispatcher : EndsAt(store[d], handled[d])
  /\ Streams /\ Position /\ InOrder

IInv == TypeOK /\ Owners /\ Readers /\ Items

(* It holds in the initial state.                                          *)
LEMMA InitInv == Init => IInv
<1> SUFFICES ASSUME Init PROVE IInv
  OBVIOUS
<1>1. /\ \A p \in Poller : map[p] = NULL /\ queue[p] = <<>>
      /\ \A r \in Reader : state[r] = "free" /\ home[r] = NULL /\ got[r] = <<>> /\ from[r] = 0
      /\ \A d \in Dispatcher : readers[d] = {} /\ size[d] = 0 /\ store[d] = <<>> /\ handled[d] = 0
      /\ told = {} /\ ~closed /\ storage = <<>> /\ n = 0
  BY DEF Init
<1>2. \A p \in Poller, d \in Dispatcher : ~Owns(p, d)
  BY <1>1, NullAssumption DEF Owns, Holds, HasWrite, HasDelete
<1>3. TypeOK
  <2>1. \A S : <<>> \in Seq(S)
    OBVIOUS
  <2>2. n = 0 /\ n \in 0..MaxWrites /\ keys = {}
    BY SizeAssumption DEF Init
  <2>3. got = [r \in Reader |-> <<>>] /\ store = [d \in Dispatcher |-> <<>>]
          /\ queue = [p \in Poller |-> <<>>] /\ storage = <<>>
    BY DEF Init
  <2>4. /\ n \in 0..MaxWrites /\ keys \subseteq 1..n
        /\ size \in [Dispatcher -> Nat] /\ handled \in [Dispatcher -> 0..n]
    BY <2>2 DEF Init
  <2>8. /\ map \in [Poller -> Dispatcher \cup {NULL}] /\ closed \in BOOLEAN
        /\ live \subseteq Dispatcher /\ readers \in [Dispatcher -> SUBSET Reader]
    BY DEF Init
  <2>5. /\ storage \in Seq(1..n) /\ store \in [Dispatcher -> Seq(1..n)] /\ queue \in [Poller -> Seq(Task)]
        /\ got \in [Reader -> Seq(1..n)]
    BY <2>1, <2>3
  <2>6. /\ state \in [Reader -> {"free", "held", "ready", "dead"}]
        /\ home \in [Reader -> [poller : Poller, disp : Dispatcher] \cup {NULL}]
        /\ cached \in [Reader -> BOOLEAN]
        /\ from \in [Reader -> 0..n] /\ told \subseteq Reader
    BY <2>2 DEF Init
  <2>7. QED
    BY <2>4, <2>5, <2>6, <2>8 DEF TypeOK
<1>4. Owners
  BY <1>1, <1>2 DEF Owners, OwnedIsLive, OneOwner, HomeOwns, DeletedLast, DeletedOnce,
                    ClosedMap, Unmapped, DeadIsEmpty, Owns
<1>5. Readers
  <2>1. Counted
    BY <1>1, FS_EmptySet DEF Counted
  <2>2. FreeIsNull /\ Listed /\ ToldIsGone
    BY <1>1 DEF FreeIsNull, Listed, ToldIsGone
  <2>3. Served /\ Deallocs
    BY <1>1 DEF Served, Deallocs, Alive
  <2>4. QED
    BY <2>1, <2>2, <2>3 DEF Readers
<1>6. Items
  <2>1. \A p \in Poller, d \in Dispatcher : Chain(d, 0, 0, queue[p]) /\ Reaches(d, 0, 0, queue[p])
    BY <1>2, ChainEmpty, ReachesEmpty DEF Owns, Holds
  <2>2. EndsAt(<<>>, 0)
    BY DEF EndsAt
  <2>3. Streams
    BY <1>1, <2>1 DEF Streams
  <2>4. Position /\ InOrder
    BY <1>1 DEF Position, InOrder, Ready
  <2>5. QED
    BY <1>1, <2>2, <2>3, <2>4 DEF Items
<1>7. QED
  BY <1>3, <1>4, <1>5, <1>6 DEF IInv

-----------------------------------------------------------------------------
(* The steps that take no task                                             *)

(* Where a reader is registered.                                           *)
LEMMA HomeTyped ==
  ASSUME TypeOK, NEW r \in Reader, home[r] # NULL
  PROVE  home[r].poller \in Poller /\ home[r].disp \in Dispatcher
BY DEF TypeOK

LEMMA SeqWidens ==
  ASSUME NEW m \in Nat, NEW s \in Seq(1..m)
  PROVE  s \in Seq(1..m + 1)
OBVIOUS

(* What is stored stays a stretch of the stream and ends at the new item   *)
(* (RingBuffer.h:129-141).                                                 *)
LEMMA StoredEnds ==
  ASSUME NEW m \in Nat, NEW s \in Seq(1..m), NEW h \in 0..m, EndsAt(s, h),
         NEW i \in 1..m, i = h + 1, NEW isKey \in BOOLEAN
  PROVE  Stored(s, i, isKey) \in Seq(1..m) /\ EndsAt(Stored(s, i, isKey), i)
<1> DEFINE t == IF isKey THEN <<i>> ELSE Append(s, i)
<1>1. /\ t \in Seq(1..m) /\ Len(t) \in Nat \ {0} /\ DOMAIN t = 1..Len(t) /\ t # <<>>
      /\ EndsAt(t, i)
  <2>1. CASE isKey
    <3>1. t = <<i>>
      BY <2>1
    <3>2. /\ <<i>> \in Seq(1..m) /\ Len(<<i>>) = 1 /\ DOMAIN <<i>> = 1..1
          /\ <<i>> # <<>> /\ <<i>>[1] = i
      OBVIOUS
    <3> HIDE DEF t
    <3>3. QED
      BY <3>1, <3>2 DEF EndsAt
  <2>2. CASE ~isKey
    <3>1. t = Append(s, i)
      BY <2>2
    <3> HIDE DEF t
    <3>2. /\ t \in Seq(1..m) /\ Len(s) \in Nat /\ DOMAIN s = 1..Len(s)
          /\ DOMAIN t = 1..Len(s) + 1 /\ Len(t) = Len(s) + 1 /\ t # <<>>
          /\ \A k \in 1..Len(s) : t[k] = s[k]
          /\ t[Len(s) + 1] = i
      BY <3>1, Pushed
    <3>3. QED
      BY <3>2 DEF EndsAt
  <2>3. QED
    BY <2>1, <2>2
<1> HIDE DEF t
<1> DEFINE u == Tail(t)
<1>2. /\ u \in Seq(1..m) /\ DOMAIN u = 1..Len(t) - 1
      /\ Len(u) = Len(t) - 1
      /\ \A k \in 1..Len(t) - 1 : u[k] = t[k + 1]
  BY <1>1, Popped
<1> HIDE DEF u
<1>3. EndsAt(u, i)
  <2>1. Len(t) <= i /\ \A k \in 1..Len(t) : t[k] = i - Len(t) + k
    BY <1>1 DEF EndsAt
  <2>2. \A k \in 1..Len(t) - 1 : k + 1 \in 1..Len(t) /\ u[k] = i - (Len(t) - 1) + k
    BY <1>1, <1>2, <2>1
  <2>3. QED
    BY <1>1, <1>2, <2>1, <2>2 DEF EndsAt
<1>4. Stored(s, i, isKey) \in {t, u}
  BY DEF Stored, t, u
<1>5. QED
  BY <1>1, <1>2, <1>3, <1>4

(* A write puts the same item before every dispatcher of the map.          *)
LEMMA WriteItemInv ==
  ASSUME IInv, NEW isKey \in BOOLEAN, WriteItem(isKey)
  PROVE  IInv'
<1>1. /\ n \in Nat /\ n' = n + 1 /\ n' \in 1..MaxWrites /\ ~closed /\ n < MaxWrites
      /\ keys' \subseteq 1..n' /\ storage' = Stored(storage, n', isKey)
  BY SizeAssumption DEF WriteItem, IInv, TypeOK
<1>2. /\ UNCHANGED <<map, closed, live>> /\ UNCHANGED fields /\ UNCHANGED reader
      /\ UNCHANGED <<store, readers, size, handled, state, home, cached, got, from, told>>
  BY DEF WriteItem, fields, reader
<1>3. \A p \in Poller :
        /\ queue[p] \in Seq(Task)
        /\ map[p] = NULL \/ map[p] \in Dispatcher
        /\ queue'[p] = IF map[p] = NULL THEN queue[p] ELSE Append(queue[p], Write(map[p], n'))
  BY DEF WriteItem, IInv, TypeOK
<1>4. \A p \in Poller : map[p] # NULL =>
        /\ Write(map[p], n') \in Task
        /\ \A d : IsWrite(d, Write(map[p], n')) <=> d = map[p]
        /\ Write(map[p], n').op = "write" /\ Write(map[p], n').arg = n'
  BY <1>1, <1>3 DEF Task, Write, IsWrite
<1>5. TypeOK'
  <2>1. storage' \in Seq(1..n')
    <3>1. storage \in Seq(1..n') /\ EndsAt(storage, n)
      BY <1>1, SeqWidens DEF IInv, TypeOK, Items
    <3>2. QED
      BY <1>1, <3>1, StoredEnds
  <2>2. queue' \in [Poller -> Seq(Task)]
    <3>1. DOMAIN queue' = Poller /\ queue' = [p \in Poller |-> queue'[p]]
      BY DEF WriteItem
    <3>2. ASSUME NEW p \in Poller PROVE queue'[p] \in Seq(Task)
      <4>1. map[p] # NULL => Append(queue[p], Write(map[p], n')) \in Seq(Task)
        BY <1>3, <1>4, Pushed
      <4>2. QED
        BY <1>3, <4>1
    <3>3. QED
      BY <3>1, <3>2
  <2>3. store' \in [Dispatcher -> Seq(1..n')] /\ got' \in [Reader -> Seq(1..n')]
    <3>1. \A s : s \in Seq(1..n) => s \in Seq(1..n')
      BY <1>1, SeqWidens
    <3>2. store \in [Dispatcher -> Seq(1..n)] /\ got \in [Reader -> Seq(1..n)]
      BY DEF IInv, TypeOK
    <3>3. QED
      BY ONLY <1>2, <3>1, <3>2
  <2>4. handled' \in [Dispatcher -> 0..n'] /\ from' \in [Reader -> 0..n']
    BY <1>1, <1>2 DEF IInv, TypeOK
  <2>5. QED
    BY <1>1, <1>2, <2>1, <2>2, <2>3, <2>4 DEF IInv, TypeOK
<1>6. \A p \in Poller, d \in Dispatcher :
        /\ Holds(p, d)' <=> Holds(p, d)
        /\ HasDelete(d, queue[p])' <=> HasDelete(d, queue[p])
        /\ Owns(p, d)' <=> Owns(p, d)
  <2> SUFFICES ASSUME NEW p \in Poller, NEW d \in Dispatcher
               PROVE  /\ Holds(p, d)' <=> Holds(p, d)
                      /\ HasDelete(d, queue'[p]) <=> HasDelete(d, queue[p])
    BY DEF Owns
  <2>1. CASE map[p] = NULL
    BY <1>2, <1>3, <2>1 DEF Holds
  <2>2. CASE map[p] # NULL
    <3>1. queue'[p] = Append(queue[p], Write(map[p], n'))
      BY <1>3, <2>2
    <3>2. /\ HasWrite(d, queue'[p]) <=> HasWrite(d, queue[p]) \/ d = map[p]
          /\ HasDelete(d, queue'[p]) <=> HasDelete(d, queue[p])
      <4> DEFINE w == Write(map[p], n')
      <4>1. /\ w \in Task /\ (IsWrite(d, w) <=> d = map[p]) /\ w.op # "delete"
            /\ queue[p] \in Seq(Task) /\ queue'[p] = Append(queue[p], w)
        BY <1>3, <1>4, <2>2, <3>1
      <4> HIDE DEF w
      <4>2. QED
        BY <4>1, PushedTask
    <3>3. QED
      BY <1>2, <3>2 DEF Holds
  <2>3. QED
    BY <2>1, <2>2
<1>7. \A p \in Poller : \A k \in DOMAIN queue'[p] :
        queue'[p][k].op # "write" => k \in DOMAIN queue[p] /\ queue'[p][k] = queue[p][k]
  <2> SUFFICES ASSUME NEW p \in Poller, NEW k \in DOMAIN queue'[p], queue'[p][k].op # "write"
               PROVE  k \in DOMAIN queue[p] /\ queue'[p][k] = queue[p][k]
    OBVIOUS
  <2>1. CASE map[p] = NULL
    BY <1>3, <2>1
  <2>2. CASE map[p] # NULL
    <3> DEFINE w == Write(map[p], n')
    <3>1. /\ w \in Task /\ w.op = "write"
          /\ queue[p] \in Seq(Task) /\ queue'[p] = Append(queue[p], w)
      BY <1>3, <1>4, <2>2
    <3> HIDE DEF w
    <3>2. QED
      BY <3>1, Pushed
  <2>3. QED
    BY <2>1, <2>2
<1>8. Owners'
  <2>1. DeletedOnce'
    BY <1>7 DEF IInv, Owners, DeletedOnce
  <2>2. OwnedIsLive' /\ OneOwner' /\ HomeOwns'
    BY <1>2, <1>6, HomeTyped DEF IInv, Owners, OwnedIsLive, OneOwner, HomeOwns
  <2>3. DeletedLast' /\ ClosedMap' /\ Unmapped' /\ DeadIsEmpty'
    BY <1>2, <1>6 DEF IInv, Owners, DeletedLast, ClosedMap, Unmapped, DeadIsEmpty
  <2>4. QED
    BY <2>1, <2>2, <2>3 DEF Owners
<1>9. Readers'
  <2>1. Deallocs'
    BY <1>2, <1>7 DEF IInv, Readers, Deallocs
  <2>2. Counted'
    BY <1>2, <1>6 DEF IInv, Readers, Counted
  <2>3. ToldIsGone'
    BY <1>1, <1>2 DEF IInv, Readers, ToldIsGone
  <2>4. QED
    BY <1>2, <2>1, <2>2, <2>3 DEF IInv, Readers, FreeIsNull, Listed, Served, Alive
<1>10. Items'
  <2>1. EndsAt(storage', n')
    <3>1. storage \in Seq(1..n') /\ EndsAt(storage, n)
      BY <1>1, SeqWidens DEF IInv, TypeOK, Items
    <3>2. QED
      BY <1>1, <3>1, StoredEnds
  <2>2. Streams'
    <3> SUFFICES ASSUME NEW p \in Poller, NEW d \in Dispatcher
                 PROVE  /\ Chain(d, handled[d], n', queue'[p])
                        /\ map[p] = d \/ (Owns(p, d)' /\ readers[d] # {})
                             => Reaches(d, handled[d], n', queue'[p])
      BY <1>2 DEF Streams
    <3>1. /\ Chain(d, handled[d], n, queue[p]) /\ handled[d] \in Nat /\ handled[d] <= n
          /\ map[p] = d => Reaches(d, handled[d], n, queue[p])
      BY <1>1 DEF IInv, Items, Streams, TypeOK
    <3>2. Owns(p, d) /\ readers[d] # {} => map[p] = d
      BY <1>1 DEF IInv, Owners, Unmapped, OneOwner, Owns, Holds
    <3>3. CASE map[p] = d
      <4>1. d # NULL
        BY NullAssumption
      <4>2. queue'[p] = Append(queue[p], Write(d, n'))
        BY <1>3, <3>3, <4>1
      <4>3. Write(d, n') \in Task /\ IsWrite(d, Write(d, n')) /\ Write(d, n').arg = n + 1
        BY <1>1, <1>4, <3>3, <4>1
      <4>4. QED
        BY <1>1, <1>3, <3>1, <3>3, <4>2, <4>3, ChainPushed
    <3>4. CASE map[p] # d
      <4>1. Chain(d, handled[d], n, queue'[p])
        <5>1. CASE map[p] = NULL
          BY <1>3, <3>1, <5>1
        <5>2. CASE map[p] # NULL
          <6>1. /\ queue'[p] = Append(queue[p], Write(map[p], n'))
                /\ Write(map[p], n') \in Task /\ ~IsWrite(d, Write(map[p], n'))
            BY <1>3, <1>4, <3>4, <5>2
          <6>2. QED
            BY <1>1, <1>3, <3>1, <6>1, ChainPushedOther
        <5>3. QED
          BY <5>1, <5>2
      <4>2. Chain(d, handled[d], n', queue'[p])
        BY <1>1, <3>1, <4>1, ChainBound
      <4>3. ~(Owns(p, d)' /\ readers[d] # {})
        BY <1>6, <3>2, <3>4
      <4>4. QED
        BY <3>4, <4>2, <4>3
    <3>5. QED
      BY <3>3, <3>4
  <2>3. QED
    BY <1>2, <2>1, <2>2 DEF IInv, Items, Position, InOrder, Ready
<1>11. QED
  BY <1>5, <1>8, <1>9, <1>10 DEF IInv

(* What attach does to the dispatchers: the one of the map, or a new one   *)
(* that nobody knows, with the items of the storage.                       *)
LEMMA MadeFacts ==
  ASSUME IInv, ~closed, NEW p \in Poller, UNCHANGED <<source, closed, queue>>,
         \/ map[p] # NULL /\ UNCHANGED <<map, live, store, handled>>
         \/ MakeDispatcher(p)
  PROVE  \E e \in Dispatcher :
           /\ map' = [map EXCEPT ![p] = e] /\ live' = live \cup {e}
           /\ store' \in [Dispatcher -> Seq(1..n)] /\ handled' \in [Dispatcher -> 0..n]
           /\ \/ map[p] = e /\ handled' = handled /\ store' = store
              \/ /\ map[p] = NULL /\ e \notin live /\ handled'[e] = n /\ store'[e] = storage
                 /\ \A d \in Dispatcher \ {e} : store'[d] = store[d] /\ handled'[d] = handled[d]
                 /\ \A r \in Reader : home[r] # NULL => home[r].disp # e
<1>1. CASE map[p] # NULL /\ UNCHANGED <<map, live, store, handled>>
  <2>1. map[p] \in Dispatcher /\ map' = [map EXCEPT ![p] = map[p]]
    BY <1>1 DEF IInv, TypeOK
  <2>2. map[p] \in live
    BY <2>1 DEF IInv, Owners, OwnedIsLive, Owns, Holds
  <2>3. store' \in [Dispatcher -> Seq(1..n)] /\ handled' \in [Dispatcher -> 0..n]
    BY <1>1 DEF IInv, TypeOK
  <2>4. QED
    BY <1>1, <2>1, <2>2, <2>3
<1>2. CASE MakeDispatcher(p)
  <2>1. New \in Dispatcher /\ IsNew(New)
    BY <1>2 DEF MakeDispatcher, New
  <2> HIDE DEF New
  <2>2. /\ map' = [map EXCEPT ![p] = New] /\ live' = live \cup {New} /\ map[p] = NULL
        /\ store' = [store EXCEPT ![New] = storage] /\ handled' = [handled EXCEPT ![New] = n]
    BY <1>2 DEF MakeDispatcher
  <2>3. /\ storage \in Seq(1..n) /\ n \in 0..n
        /\ store \in [Dispatcher -> Seq(1..n)] /\ handled \in [Dispatcher -> 0..n]
    BY SizeAssumption DEF IInv, TypeOK
  <2>4. store' \in [Dispatcher -> Seq(1..n)] /\ handled' \in [Dispatcher -> 0..n]
    BY <2>2, <2>3
  <2>5. QED
    BY <2>1, <2>2, <2>3, <2>4 DEF IsNew
<1>3. QED
  BY <1>1, <1>2

(* The dispatcher of attach is the poller's own, and what waits for it     *)
(* reaches the last item.                                                  *)
LEMMA MadeOwners ==
  ASSUME IInv, ~closed, NEW p \in Poller, UNCHANGED <<source, closed, queue>>,
         NEW e \in Dispatcher,
         map' = [map EXCEPT ![p] = e], live' = live \cup {e},
         \/ map[p] = e /\ handled' = handled /\ store' = store
         \/ /\ map[p] = NULL /\ e \notin live /\ handled'[e] = n /\ store'[e] = storage
            /\ \A d \in Dispatcher \ {e} : store'[d] = store[d] /\ handled'[d] = handled[d]
            /\ \A r \in Reader : home[r] # NULL => home[r].disp # e
  PROVE  /\ \A q \in Poller, d \in Dispatcher :
              /\ Holds(q, d)' <=> Holds(q, d) \/ (q = p /\ d = e)
              /\ Owns(q, d)' <=> Owns(q, d) \/ (q = p /\ d = e)
         /\ \A q \in Poller : Owns(q, e)' => q = p
         /\ OwnedIsLive' /\ OneOwner' /\ DeletedLast' /\ DeletedOnce' /\ ClosedMap'
         /\ \A d \in Dispatcher : EndsAt(store'[d], handled'[d])
         /\ \A q \in Poller, d \in Dispatcher :
              /\ Chain(d, handled'[d], n, queue[q])
              /\ d = e \/ (Owns(q, d) /\ readers[d] # {}) =>
                   (Owns(q, d)' => Reaches(d, handled'[d], n, queue[q]))
         /\ readers[e] \in SUBSET Reader /\ IsFiniteSet(readers[e])
         /\ size[e] = Cardinality(readers[e])
         /\ \A r \in Reader : home[r] # NULL /\ home[r].disp = e => home[r].poller = p
<1>1. \A q \in Poller : map[q] \in Dispatcher \cup {NULL} /\ map'[q] = IF q = p THEN e ELSE map[q]
  BY DEF IInv, TypeOK
<1>2. e # NULL /\ queue' = queue /\ n' = n /\ closed' = closed
  BY NullAssumption DEF source
<1>3. \A q \in Poller, d \in Dispatcher :
        /\ Holds(q, d)' <=> Holds(q, d) \/ (q = p /\ d = e)
        /\ Owns(q, d)' <=> Owns(q, d) \/ (q = p /\ d = e)
  <2>1. \A d \in Dispatcher : map[p] = d => d = e
    BY <1>1, NullAssumption
  <2>2. QED
    BY <1>1, <1>2, <2>1 DEF Holds, Owns
<1>4. \A q \in Poller : Owns(q, e) => q = p /\ map[p] = e
  BY DEF IInv, Owners, OwnedIsLive, OneOwner, Owns, Holds
<1>5. \A q \in Poller : Owns(q, e)' => q = p
  BY <1>3, <1>4
<1>6. OwnedIsLive'
  BY <1>3 DEF IInv, Owners, OwnedIsLive
<1>7. OneOwner'
  BY <1>3, <1>5 DEF IInv, Owners, OneOwner
<1>8. DeletedLast' /\ DeletedOnce' /\ ClosedMap'
  <2>1. \A q \in Poller, d \in Dispatcher : ~HasDelete(d, queue[q])
    BY DEF IInv, Owners, DeletedLast
  <2>2. QED
    BY <1>2, <2>1 DEF DeletedLast, DeletedOnce, ClosedMap, IInv, Owners
<1>9. \A d \in Dispatcher : EndsAt(store'[d], handled'[d])
  BY DEF IInv, Items
<1>10. ASSUME NEW q \in Poller, NEW d \in Dispatcher
       PROVE  /\ Chain(d, handled'[d], n, queue[q])
              /\ d = e \/ (Owns(q, d) /\ readers[d] # {}) =>
                   (Owns(q, d)' => Reaches(d, handled'[d], n, queue[q]))
  <2>1. CASE handled'[d] = handled[d] /\ (d = e => map[p] = e)
    BY <1>3, <1>5, <2>1 DEF IInv, Items, Streams
  <2>2. CASE d = e /\ map[p] # e
    <3>1. handled'[d] = n /\ ~HasWrite(d, queue[q]) /\ n \in Nat
      BY <1>4, <2>2, SizeAssumption DEF Owns, Holds, IInv, TypeOK
    <3>2. QED
      BY <3>1, ChainEmpty, ReachesEmpty
  <2>3. (d # e \/ map[p] = e) => handled'[d] = handled[d]
    BY <1>2
  <2>4. QED
    BY <2>1, <2>2, <2>3
<1>11. /\ readers[e] \in SUBSET Reader /\ IsFiniteSet(readers[e])
       /\ size[e] = Cardinality(readers[e])
  <2>1. readers[e] \in SUBSET Reader /\ IsFiniteSet(readers[e])
    BY DEF IInv, TypeOK, Readers, Counted
  <2>2. CASE map[p] = e
    BY <2>1, <2>2 DEF IInv, Readers, Counted, Holds
  <2>3. CASE map[p] # e
    BY <2>1, <2>3, FS_EmptySet DEF IInv, Owners, DeadIsEmpty
  <2>4. QED
    BY <2>2, <2>3
<1>12. \A r \in Reader : home[r] # NULL /\ home[r].disp = e => home[r].poller = p
  BY DEF IInv, Owners, HomeOwns, Owns, Holds
<1>13. QED
  BY ONLY <1>3, <1>5, <1>6, <1>7, <1>8, <1>9, <1>10, <1>11, <1>12

(* An attach that throws leaves a dispatcher without readers.              *)
LEMMA AttachThrowsInv ==
  ASSUME IInv, NEW p \in Poller, AttachThrows(p)
  PROVE  IInv'
<1>1. /\ ~closed /\ MakeDispatcher(p) /\ UNCHANGED <<source, closed, queue, readers, size, reader>>
      /\ UNCHANGED <<n, keys, storage, closed, queue, readers, size>>
      /\ UNCHANGED <<state, home, cached, got, from, told>>
  BY DEF AttachThrows, source, reader
<1>2. PICK e \in Dispatcher :
           /\ map' = [map EXCEPT ![p] = e] /\ live' = live \cup {e}
           /\ store' \in [Dispatcher -> Seq(1..n)] /\ handled' \in [Dispatcher -> 0..n]
           /\ \/ map[p] = e /\ handled' = handled /\ store' = store
              \/ /\ map[p] = NULL /\ e \notin live /\ handled'[e] = n /\ store'[e] = storage
                 /\ \A d \in Dispatcher \ {e} : store'[d] = store[d] /\ handled'[d] = handled[d]
                 /\ \A r \in Reader : home[r] # NULL => home[r].disp # e
  BY <1>1, MadeFacts
<1>3. /\ \A q \in Poller, d \in Dispatcher :
           /\ Holds(q, d)' <=> Holds(q, d) \/ (q = p /\ d = e)
           /\ Owns(q, d)' <=> Owns(q, d) \/ (q = p /\ d = e)
      /\ OwnedIsLive' /\ OneOwner' /\ DeletedLast' /\ DeletedOnce' /\ ClosedMap'
      /\ \A d \in Dispatcher : EndsAt(store'[d], handled'[d])
      /\ \A q \in Poller, d \in Dispatcher :
           /\ Chain(d, handled'[d], n, queue[q])
           /\ d = e \/ (Owns(q, d) /\ readers[d] # {}) =>
                (Owns(q, d)' => Reaches(d, handled'[d], n, queue[q]))
      /\ readers[e] \in SUBSET Reader /\ IsFiniteSet(readers[e])
      /\ size[e] = Cardinality(readers[e])
      /\ \A r \in Reader : home[r] # NULL /\ home[r].disp = e => home[r].poller = p
  BY <1>1, <1>2, MadeOwners
<1>4. \A q \in Poller : /\ map'[q] = IF q = p THEN e ELSE map[q]
                        /\ map[q] \in Dispatcher \cup {NULL}
  BY <1>2 DEF IInv, TypeOK
<1>5. e # NULL /\ \A d \in Dispatcher : d # NULL /\ (map[p] = d => d = e)
  BY <1>2, NullAssumption
<1>6. TypeOK'
  BY <1>1, <1>2 DEF IInv, TypeOK
<1>7. Owners'
  <2>1. HomeOwns'
    BY <1>1, <1>3, HomeTyped DEF IInv, Owners, HomeOwns
  <2>2. Unmapped' /\ DeadIsEmpty'
    <3>1. \A q \in Poller, d \in Dispatcher : map[q] = d => map'[q] = d
      BY <1>4, <1>5
    <3>2. Unmapped'
      BY <1>1, <3>1 DEF IInv, Owners, Unmapped
    <3>3. DeadIsEmpty'
      BY <1>1, <1>2 DEF IInv, Owners, DeadIsEmpty
    <3>4. QED
      BY <3>2, <3>3
  <2>3. QED
    BY <1>3, <2>1, <2>2 DEF Owners
<1>8. Readers'
  <2>1. Counted'
    BY <1>1, <1>3 DEF IInv, Readers, Counted
  <2>2. FreeIsNull' /\ Listed' /\ ToldIsGone' /\ Deallocs'
    BY <1>1 DEF IInv, Readers, FreeIsNull, Listed, ToldIsGone, Deallocs
  <2>3. Served'
    <3>1. \A r \in Reader : Alive(r) => home[r] # NULL
      BY DEF IInv, Readers, FreeIsNull, Alive
    <3>2. QED
      BY <1>1, <1>4, <1>5, <3>1, HomeTyped DEF IInv, Readers, Served, Alive
  <2>4. QED
    BY <2>1, <2>2, <2>3 DEF Readers
<1>9. Items'
  <2>1. Streams'
    <3> SUFFICES ASSUME NEW q \in Poller, NEW d \in Dispatcher
                 PROVE  /\ Chain(d, handled'[d], n, queue[q])
                        /\ map'[q] = d \/ (Owns(q, d)' /\ readers[d] # {})
                             => Reaches(d, handled'[d], n, queue[q])
      BY <1>1 DEF Streams
    <3>1. map'[q] = d => Owns(q, d)'
      BY DEF Owns, Holds
    <3>2. map'[q] = d => d = e \/ (map[q] = d /\ Reaches(d, handled[d], n, queue[q]))
      BY <1>4 DEF IInv, Items, Streams
    <3>3. d # e => handled'[d] = handled[d]
      BY <1>2
    <3>4. QED
      BY <1>3, <3>1, <3>2, <3>3
  <2>2. Position'
    <3>1. \A r \in Reader : Ready(r) => home[r] # NULL
      BY DEF IInv, Readers, FreeIsNull, Ready
    <3>2. QED
      BY <1>1, <1>2, <3>1, HomeTyped DEF IInv, Items, Position, Ready
  <2>3. QED
    BY <1>1, <1>3, <2>1, <2>2 DEF IInv, Items, InOrder
<1>10. QED
  BY <1>6, <1>7, <1>8, <1>9 DEF IInv

(* Attach adds a reader that nobody has listed to the poller's dispatcher. *)
LEMMA AttachInv ==
  ASSUME IInv, NEW p \in Poller, NEW r \in Reader, NEW useCache \in BOOLEAN,
         Attach(p, r, useCache)
  PROVE  IInv'
<1>1. /\ ~closed /\ state[r] = "free" /\ home[r] = NULL
      /\ \/ map[p] # NULL /\ UNCHANGED <<map, live, store, handled>>
         \/ MakeDispatcher(p)
      /\ UNCHANGED <<source, closed, queue>>
      /\ UNCHANGED <<n, keys, storage, closed, queue, got, from, told>>
  BY DEF Attach, source, IInv, Readers, FreeIsNull
<1>2. PICK e \in Dispatcher :
           /\ map' = [map EXCEPT ![p] = e] /\ live' = live \cup {e}
           /\ store' \in [Dispatcher -> Seq(1..n)] /\ handled' \in [Dispatcher -> 0..n]
           /\ \/ map[p] = e /\ handled' = handled /\ store' = store
              \/ /\ map[p] = NULL /\ e \notin live /\ handled'[e] = n /\ store'[e] = storage
                 /\ \A d \in Dispatcher \ {e} : store'[d] = store[d] /\ handled'[d] = handled[d]
                 /\ \A x \in Reader : home[x] # NULL => home[x].disp # e
  BY <1>1, MadeFacts
<1>3. /\ \A q \in Poller, d \in Dispatcher :
           /\ Holds(q, d)' <=> Holds(q, d) \/ (q = p /\ d = e)
           /\ Owns(q, d)' <=> Owns(q, d) \/ (q = p /\ d = e)
      /\ \A q \in Poller : Owns(q, e)' => q = p
      /\ OwnedIsLive' /\ OneOwner' /\ DeletedLast' /\ DeletedOnce' /\ ClosedMap'
      /\ \A d \in Dispatcher : EndsAt(store'[d], handled'[d])
      /\ \A q \in Poller, d \in Dispatcher :
           /\ Chain(d, handled'[d], n, queue[q])
           /\ d = e \/ (Owns(q, d) /\ readers[d] # {}) =>
                (Owns(q, d)' => Reaches(d, handled'[d], n, queue[q]))
      /\ readers[e] \in SUBSET Reader /\ IsFiniteSet(readers[e])
      /\ size[e] = Cardinality(readers[e])
      /\ \A x \in Reader : home[x] # NULL /\ home[x].disp = e => home[x].poller = p
  BY <1>1, <1>2, MadeOwners
<1>4. \A q \in Poller : /\ map'[q] = IF q = p THEN e ELSE map[q]
                        /\ map[q] \in Dispatcher \cup {NULL}
  BY <1>2 DEF IInv, TypeOK
<1>5. e # NULL /\ \A d \in Dispatcher : d # NULL /\ (map[p] = d => d = e)
  BY <1>2, NullAssumption
<1>6. /\ map'[p] = e
      /\ readers' = [readers EXCEPT ![e] = @ \cup {r}]
      /\ size' = [size EXCEPT ![e] = @ + 1]
      /\ state' = [state EXCEPT ![r] = "held"]
      /\ home' = [home EXCEPT ![r] = [poller |-> p, disp |-> e]]
      /\ cached' = [cached EXCEPT ![r] = useCache]
  BY <1>4 DEF Attach
<1>7. /\ \A d \in Dispatcher : readers'[d] = IF d = e THEN readers[e] \cup {r} ELSE readers[d]
      /\ \A d \in Dispatcher : size'[d] = IF d = e THEN size[e] + 1 ELSE size[d]
      /\ \A x \in Reader : /\ state'[x] = IF x = r THEN "held" ELSE state[x]
                           /\ home'[x] = IF x = r THEN [poller |-> p, disp |-> e] ELSE home[x]
      /\ [poller |-> p, disp |-> e] \in [poller : Poller, disp : Dispatcher]
      /\ [poller |-> p, disp |-> e] # NULL
  BY <1>6, NullAssumption DEF IInv, TypeOK
<1>8. r \notin readers[e] /\ r \notin told
  BY <1>1 DEF IInv, Readers, Listed, ToldIsGone
<1>9. TypeOK'
  <2>1. size' \in [Dispatcher -> Nat] /\ readers' \in [Dispatcher -> SUBSET Reader]
    BY <1>3, <1>6 DEF IInv, TypeOK
  <2>2. /\ state' \in [Reader -> {"free", "held", "ready", "dead"}]
        /\ home' \in [Reader -> [poller : Poller, disp : Dispatcher] \cup {NULL}]
        /\ cached' \in [Reader -> BOOLEAN]
    BY <1>6, <1>7 DEF IInv, TypeOK
  <2>3. map' \in [Poller -> Dispatcher \cup {NULL}] /\ live' \subseteq Dispatcher
    BY <1>2 DEF IInv, TypeOK
  <2>4. QED
    BY <1>1, <1>2, <2>1, <2>2, <2>3 DEF IInv, TypeOK
<1>10. Owners'
  <2>1. HomeOwns'
    <3> SUFFICES ASSUME NEW x \in Reader, NEW q \in Poller, home'[x] # NULL,
                        NEW d \in Dispatcher, d = home'[x].disp, Owns(q, d)'
                 PROVE  q = home'[x].poller
      <4>1. home' \in [Reader -> [poller : Poller, disp : Dispatcher] \cup {NULL}]
        BY <1>9 DEF TypeOK
      <4>2. QED
        BY <4>1 DEF HomeOwns
    <3>1. CASE x = r
      BY <1>3, <1>7, <3>1
    <3>2. CASE x # r
      <4>1. home'[x] = home[x] /\ home[x].disp \in Dispatcher
        BY <1>7, <3>2, HomeTyped DEF IInv
      <4>2. QED
        BY <1>3, <4>1 DEF IInv, Owners, HomeOwns
    <3>3. QED
      BY <3>1, <3>2
  <2>2. Unmapped' /\ DeadIsEmpty'
    <3>1. \A q \in Poller, d \in Dispatcher : map[q] = d => map'[q] = d
      BY <1>4, <1>5
    <3>2. Unmapped'
      BY <1>1, <1>6, <1>7, <3>1 DEF IInv, Owners, Unmapped
    <3>3. DeadIsEmpty'
      BY <1>2, <1>7 DEF IInv, Owners, DeadIsEmpty
    <3>4. QED
      BY <3>2, <3>3
  <2>3. QED
    BY <1>3, <2>1, <2>2 DEF Owners
<1>11. Readers'
  <2>1. Counted'
    <3>1. IsFiniteSet(readers[e] \cup {r}) /\ Cardinality(readers[e] \cup {r}) = size[e] + 1
      <4>1. IsFiniteSet(readers[e]) /\ size[e] = Cardinality(readers[e])
        BY <1>3
      <4>2. QED
        BY <1>8, <4>1, FS_AddElement
    <3>2. QED
      BY <1>3, <1>7, <3>1 DEF IInv, Readers, Counted
  <2>2. FreeIsNull'
    BY <1>1, <1>7 DEF IInv, Readers, FreeIsNull
  <2>7. Listed'
    <3> SUFFICES ASSUME NEW d \in Dispatcher, NEW x \in readers'[d]
                 PROVE  home'[x] # NULL /\ home'[x].disp = d
      BY DEF Listed
    <3>1. x \in Reader /\ (x \in readers[d] \/ (x = r /\ d = e))
      BY <1>7, <1>9 DEF TypeOK
    <3>2. x \in readers[d] => x # r /\ home[x] # NULL /\ home[x].disp = d
      BY <1>1 DEF IInv, Readers, Listed
    <3>3. QED
      BY <1>7, <3>1, <3>2
  <2>3. ToldIsGone'
    BY <1>1 DEF IInv, Readers, ToldIsGone
  <2>4. Served'
    <3> SUFFICES ASSUME NEW x \in Reader, Alive(x)', x \notin told
                 PROVE  /\ x \in readers'[home'[x].disp]
                        /\ map'[home'[x].poller] = home'[x].disp
      BY <1>1 DEF Served
    <3>1. CASE x = r
      BY <1>4, <1>7, <3>1
    <3>2. CASE x # r
      <4>1. Alive(x) /\ home'[x] = home[x] /\ home[x] # NULL
        BY <1>7, <3>2 DEF Alive, IInv, Readers, FreeIsNull
      <4>2. home[x].poller \in Poller /\ home[x].disp \in Dispatcher
        BY <4>1, HomeTyped DEF IInv
      <4>3. x \in readers[home[x].disp] /\ map[home[x].poller] = home[x].disp
        BY <1>1, <4>1 DEF IInv, Readers, Served
      <4>4. QED
        BY <1>4, <1>5, <1>7, <4>1, <4>2, <4>3
    <3>3. QED
      BY <3>1, <3>2
  <2>5. Deallocs'
    <3>1. \A q \in Poller : \A k \in DOMAIN queue[q] : queue[q][k].op = "dealloc" =>
            queue[q][k].arg # r /\ queue[q][k].arg \in Reader
      <4>1. \A q \in Poller : \A k \in DOMAIN queue[q] : queue[q][k] \in Task
        BY DEF IInv, TypeOK
      <4>2. QED
        BY <1>1, <4>1 DEF IInv, Readers, Deallocs, Task
    <3>2. QED
      BY <1>1, <1>7, <3>1 DEF IInv, Readers, Deallocs
  <2>6. QED
    BY <2>1, <2>2, <2>3, <2>4, <2>5, <2>7 DEF Readers
<1>12. Items'
  <2>1. Streams'
    <3> SUFFICES ASSUME NEW q \in Poller, NEW d \in Dispatcher
                 PROVE  /\ Chain(d, handled'[d], n, queue[q])
                        /\ map'[q] = d \/ (Owns(q, d)' /\ readers'[d] # {})
                             => Reaches(d, handled'[d], n, queue[q])
      BY <1>1 DEF Streams
    <3>1. map'[q] = d => Owns(q, d)'
      BY DEF Owns, Holds
    <3>2. map'[q] = d => d = e \/ (map[q] = d /\ Reaches(d, handled[d], n, queue[q]))
      BY <1>4 DEF IInv, Items, Streams
    <3>3. d # e => handled'[d] = handled[d] /\ readers'[d] = readers[d]
      BY <1>2, <1>7
    <3>4. QED
      BY <1>3, <3>1, <3>2, <3>3
  <2>2. Position'
    <3> SUFFICES ASSUME NEW x \in Reader
                 PROVE  /\ Ready(x)' => from[x] + Len(got[x]) = handled'[home'[x].disp]
                        /\ ~Ready(x)' => got[x] = <<>> /\ from[x] = 0
      BY <1>1 DEF Position
    <3>1. /\ Ready(x)' => Ready(x) /\ x # r
          /\ Ready(x) => Ready(x)'
      BY <1>1, <1>7 DEF Ready
    <3>2. Ready(x) => home[x] # NULL
      BY DEF IInv, Readers, FreeIsNull, Ready
    <3>3. QED
      BY <1>2, <1>7, <3>1, <3>2, HomeTyped DEF IInv, Items, Position
  <2>3. QED
    BY <1>1, <1>3, <2>1, <2>2 DEF IInv, Items, InOrder
<1>13. QED
  BY <1>9, <1>10, <1>11, <1>12 DEF IInv

(* A reader that begins to listen has got what its dispatcher has handled. *)
LEMMA ListenInv ==
  ASSUME IInv, NEW r \in Reader, Listen(r)
  PROVE  IInv'
<1> DEFINE d == home[r].disp
           g == IF cached[r] THEN store[d] ELSE <<>>
<1>1. /\ UNCHANGED <<n, keys, storage, map, closed, live, queue, store, readers, size, handled>>
      /\ UNCHANGED <<home, cached, told>>
      /\ state[r] = "held" /\ state' = [state EXCEPT ![r] = "ready"]
      /\ got' = [got EXCEPT ![r] = g]
      /\ from' = [from EXCEPT ![r] = handled[d] - Len(got'[r])]
  BY DEF Listen, source, owners, fields
<1>2. home[r] # NULL /\ d \in Dispatcher
  BY <1>1, HomeTyped DEF IInv, Readers, FreeIsNull
<1>3. /\ g \in Seq(1..n) /\ EndsAt(g, handled[d]) /\ handled[d] \in 0..n /\ n \in Nat
      /\ Len(g) \in Nat /\ Len(g) <= handled[d]
  <2>1. store[d] \in Seq(1..n) /\ EndsAt(store[d], handled[d]) /\ handled[d] \in 0..n /\ n \in Nat
    BY <1>2, SizeAssumption DEF IInv, TypeOK, Items
  <2>2. <<>> \in Seq(1..n) /\ Len(<<>>) = 0 /\ DOMAIN <<>> = {}
    OBVIOUS
  <2>3. EndsAt(<<>>, handled[d])
    BY <2>1, <2>2 DEF EndsAt
  <2>4. g \in Seq(1..n) /\ EndsAt(g, handled[d])
    BY <2>1, <2>2, <2>3
  <2> HIDE DEF g
  <2>5. QED
    BY <2>1, <2>4 DEF EndsAt
<1> HIDE DEF g
<1>4. /\ \A x \in Reader : state'[x] = IF x = r THEN "ready" ELSE state[x]
      /\ \A x \in Reader \ {r} : got'[x] = got[x] /\ from'[x] = from[x]
      /\ got'[r] = g /\ from'[r] = handled[d] - Len(g)
  BY <1>1 DEF IInv, TypeOK
<1>5. TypeOK'
  <2>1. handled[d] - Len(g) \in 0..n
    BY <1>3
  <2>2. got' \in [Reader -> Seq(1..n)] /\ from' \in [Reader -> 0..n]
    BY <1>1, <1>3, <1>4, <2>1 DEF IInv, TypeOK
  <2>3. state' \in [Reader -> {"free", "held", "ready", "dead"}]
    BY <1>1 DEF IInv, TypeOK
  <2>4. QED
    BY <1>1, <2>2, <2>3 DEF IInv, TypeOK
<1>6. \A x \in Reader : /\ Alive(x)' <=> Alive(x)
                        /\ state'[x] = "free" <=> state[x] = "free"
                        /\ state'[x] = "dead" <=> state[x] = "dead"
  BY <1>1, <1>4 DEF Alive
<1>7. Owners'
  BY <1>1 DEF IInv, Owners, OwnedIsLive, OneOwner, HomeOwns, DeletedLast, DeletedOnce,
              ClosedMap, Unmapped, DeadIsEmpty, Owns, Holds
<1>8. Readers'
  <2>1. Counted' /\ Listed'
    BY <1>1 DEF IInv, Readers, Counted, Listed, Holds
  <2>2. FreeIsNull' /\ ToldIsGone' /\ Served'
    <3>1. told \subseteq Reader
      BY DEF IInv, TypeOK
    <3>2. QED
      BY <1>1, <1>6, <3>1 DEF IInv, Readers, FreeIsNull, ToldIsGone, Served
  <2>3. Deallocs'
    <3>1. \A q \in Poller : \A k \in DOMAIN queue[q] : queue[q][k].op = "dealloc" =>
            queue[q][k].arg \in Reader
      <4>1. \A q \in Poller : \A k \in DOMAIN queue[q] : queue[q][k] \in Task
        BY DEF IInv, TypeOK
      <4>2. QED
        BY <4>1 DEF Task
    <3>2. QED
      BY <1>1, <1>6, <3>1 DEF IInv, Readers, Deallocs
  <2>4. QED
    BY <2>1, <2>2, <2>3 DEF Readers
<1>9. Items'
  <2>1. Streams'
    BY <1>1 DEF IInv, Items, Streams, Owns, Holds
  <2>2. Position'
    <3>1. (handled[d] - Len(g)) + Len(g) = handled[d]
      BY <1>3
    <3>2. QED
      BY <1>1, <1>4, <3>1 DEF IInv, Items, Position, Ready
  <2>3. InOrder'
    <3>1. \A k \in DOMAIN g : g[k] = (handled[d] - Len(g)) + k
      BY <1>3 DEF EndsAt
    <3>2. QED
      BY <1>4, <3>1 DEF IInv, Items, InOrder
  <2>4. QED
    BY <1>1, <2>1, <2>2, <2>3 DEF IInv, Items
<1>10. QED
  BY <1>5, <1>7, <1>8, <1>9 DEF IInv

(* A reader that goes in another thread leaves its poller a task.          *)
LEMMA DropInv ==
  ASSUME IInv, NEW r \in Reader, Drop(r)
  PROVE  IInv'
<1> DEFINE p == home[r].poller
           t == Dealloc(home[r].disp, r)
<1>1. /\ UNCHANGED <<n, keys, storage, map, closed, live, store, readers, size, handled, home>>
      /\ Alive(r) /\ state' = [state EXCEPT ![r] = "dead"]
      /\ cached' = [cached EXCEPT ![r] = FALSE]
      /\ got' = [got EXCEPT ![r] = <<>>] /\ from' = [from EXCEPT ![r] = 0]
      /\ told' = told \ {r}
      /\ queue' = [queue EXCEPT ![p] = Append(@, t)]
  BY DEF Drop, Forget, source, fields
<1>2. /\ home[r] # NULL /\ p \in Poller /\ home[r].disp \in Dispatcher
      /\ home[r] = [poller |-> p, disp |-> home[r].disp]
  <2>1. home[r] # NULL
    BY <1>1 DEF IInv, Readers, FreeIsNull, Alive
  <2>2. QED
    BY <2>1 DEF IInv, TypeOK
<1>3. /\ t \in Task /\ t.op = "dealloc" /\ t.disp = home[r].disp /\ t.arg = r
      /\ \A d : ~IsWrite(d, t)
  BY <1>2 DEF Dealloc, Task, IsWrite
<1> HIDE DEF t, p
<1>4. /\ \A q \in Poller : queue[q] \in Seq(Task)
      /\ \A q \in Poller : queue'[q] = IF q = p THEN Append(queue[p], t) ELSE queue[q]
  BY <1>1 DEF IInv, TypeOK
<1>5. \A x \in Reader : /\ state'[x] = IF x = r THEN "dead" ELSE state[x]
                        /\ got'[x] = IF x = r THEN <<>> ELSE got[x]
                        /\ from'[x] = IF x = r THEN 0 ELSE from[x]
  BY <1>1 DEF IInv, TypeOK
<1>6. TypeOK'
  <2>1. queue' \in [Poller -> Seq(Task)]
    <3>1. Append(queue[p], t) \in Seq(Task)
      BY <1>2, <1>3, <1>4, Pushed
    <3>2. QED
      BY <1>1, <3>1 DEF IInv, TypeOK
  <2>2. got' \in [Reader -> Seq(1..n)] /\ from' \in [Reader -> 0..n]
    <3>1. <<>> \in Seq(1..n) /\ 0 \in 0..n
      BY SizeAssumption DEF IInv, TypeOK
    <3>2. QED
      BY <1>1, <3>1 DEF IInv, TypeOK
  <2>3. /\ state' \in [Reader -> {"free", "held", "ready", "dead"}]
        /\ cached' \in [Reader -> BOOLEAN] /\ told' \subseteq Reader
    BY <1>1 DEF IInv, TypeOK
  <2>4. QED
    BY <1>1, <2>1, <2>2, <2>3 DEF IInv, TypeOK
<1>7. \A q \in Poller, d \in Dispatcher :
        /\ Holds(q, d)' <=> Holds(q, d)
        /\ HasDelete(d, queue'[q]) <=> HasDelete(d, queue[q])
        /\ Owns(q, d)' <=> Owns(q, d)
  <2> SUFFICES ASSUME NEW q \in Poller, NEW d \in Dispatcher
               PROVE  /\ HasWrite(d, queue'[q]) <=> HasWrite(d, queue[q])
                      /\ HasDelete(d, queue'[q]) <=> HasDelete(d, queue[q])
    BY <1>1 DEF Owns, Holds
  <2>1. CASE q = p
    <3>1. t.op # "delete" /\ ~IsWrite(d, t) /\ queue'[q] = Append(queue[q], t)
      BY <1>3, <1>4, <2>1
    <3>2. QED
      BY <1>3, <1>4, <3>1, PushedTask
  <2>2. CASE q # p
    BY <1>4, <2>2
  <2>3. QED
    BY <2>1, <2>2
<1>8. \A q \in Poller : \A k \in DOMAIN queue'[q] :
        \/ k \in DOMAIN queue[q] /\ queue'[q][k] = queue[q][k]
        \/ q = p /\ k = Len(queue[p]) + 1 /\ queue'[q][k] = t
  <2> SUFFICES ASSUME NEW q \in Poller, NEW k \in DOMAIN queue'[q]
               PROVE  \/ k \in DOMAIN queue[q] /\ queue'[q][k] = queue[q][k]
                      \/ q = p /\ k = Len(queue[p]) + 1 /\ queue'[q][k] = t
    OBVIOUS
  <2>1. CASE q = p
    <3>1. queue'[q] = Append(queue[q], t) /\ queue[q] \in Seq(Task)
      BY <1>4, <2>1
    <3>2. QED
      BY <1>3, <2>1, <3>1, Pushed
  <2>2. CASE q # p
    BY <1>4, <2>2
  <2>3. QED
    BY <2>1, <2>2
<1>9. Owners'
  <2>1. DeletedOnce'
    BY <1>3, <1>8 DEF IInv, Owners, DeletedOnce
  <2>2. OwnedIsLive' /\ OneOwner'
    BY <1>1, <1>7 DEF IInv, Owners, OwnedIsLive, OneOwner
  <2>3. HomeOwns'
    BY <1>1, <1>7, HomeTyped DEF IInv, Owners, HomeOwns
  <2>4. DeletedLast' /\ ClosedMap' /\ Unmapped' /\ DeadIsEmpty'
    BY <1>1, <1>7 DEF IInv, Owners, DeletedLast, ClosedMap, Unmapped, DeadIsEmpty
  <2>5. QED
    BY <2>1, <2>2, <2>3, <2>4 DEF Owners
<1>10. Readers'
  <2>1. Counted'
    BY <1>1, <1>7 DEF IInv, Readers, Counted
  <2>2. FreeIsNull' /\ Listed'
    BY <1>1, <1>2, <1>5 DEF IInv, Readers, FreeIsNull, Listed
  <2>3. ToldIsGone'
    <3>1. \A x \in told' : x \in told /\ x # r /\ x \in Reader
      BY <1>1 DEF IInv, TypeOK
    <3>2. QED
      BY <1>1, <1>5, <3>1 DEF IInv, Readers, ToldIsGone, Alive
  <2>4. Served'
    BY <1>1, <1>5 DEF IInv, Readers, Served, Alive
  <2>5. Deallocs'
    <3> SUFFICES ASSUME NEW q \in Poller, NEW k \in DOMAIN queue'[q],
                        queue'[q][k].op = "dealloc"
                 PROVE  /\ state'[queue'[q][k].arg] = "dead"
                        /\ home[queue'[q][k].arg] = [poller |-> q, disp |-> queue'[q][k].disp]
                        /\ \A l \in DOMAIN queue'[q] :
                             queue'[q][l].op = "dealloc" /\ queue'[q][l].arg = queue'[q][k].arg
                               => k = l
      BY <1>1 DEF Deallocs
    <3>1. \A l \in DOMAIN queue[q] : queue[q][l].op = "dealloc" =>
            queue[q][l].arg \in Reader /\ queue[q][l].arg # r
      <4>1. \A l \in DOMAIN queue[q] : queue[q][l] \in Task
        BY <1>4
      <4>2. state[r] # "dead"
        BY <1>1 DEF Alive
      <4>3. \A l \in DOMAIN queue[q] : queue[q][l].op = "dealloc" => queue[q][l].arg \in Reader
        BY <4>1 DEF Task
      <4>4. \A l \in DOMAIN queue[q] : queue[q][l].op = "dealloc" =>
              state[queue[q][l].arg] = "dead"
        BY DEF IInv, Readers, Deallocs
      <4>5. QED
        BY <4>2, <4>3, <4>4
    <3>2. CASE k \in DOMAIN queue[q] /\ queue'[q][k] = queue[q][k]
      BY <1>3, <1>5, <1>8, <3>1, <3>2 DEF IInv, Readers, Deallocs
    <3>3. CASE q = p /\ k = Len(queue[p]) + 1 /\ queue'[q][k] = t
      BY <1>2, <1>3, <1>5, <1>8, <3>1, <3>3
    <3>4. QED
      BY <1>8, <3>2, <3>3
  <2>6. QED
    BY <2>1, <2>2, <2>3, <2>4, <2>5 DEF Readers
<1>11. Items'
  <2>1. Streams'
    <3> SUFFICES ASSUME NEW q \in Poller, NEW d \in Dispatcher
                 PROVE  /\ Chain(d, handled[d], n, queue'[q])
                        /\ map[q] = d \/ (Owns(q, d) /\ readers[d] # {})
                             => Reaches(d, handled[d], n, queue'[q])
      BY <1>1, <1>7 DEF Streams
    <3>1. /\ Chain(d, handled[d], n, queue[q]) /\ handled[d] \in Nat /\ n \in Nat
          /\ map[q] = d \/ (Owns(q, d) /\ readers[d] # {}) => Reaches(d, handled[d], n, queue[q])
      BY SizeAssumption DEF IInv, Items, Streams, TypeOK
    <3>2. CASE q = p
      <4>1. queue'[q] = Append(queue[q], t) /\ queue[q] \in Seq(Task) /\ ~IsWrite(d, t)
        BY <1>3, <1>4, <3>2
      <4>2. QED
        BY <1>3, <3>1, <4>1, ChainPushedOther
    <3>3. CASE q # p
      BY <1>4, <3>1, <3>3
    <3>4. QED
      BY <3>2, <3>3
  <2>2. Position' /\ InOrder'
    BY <1>1, <1>5 DEF IInv, Items, Position, InOrder, Ready
  <2>3. QED
    BY <1>1, <2>1, <2>2 DEF IInv, Items
<1>12. QED
  BY <1>6, <1>9, <1>10, <1>11 DEF IInv

(* ~RingBuffer: a dispatcher without writes is deleted by the poller of    *)
(* its readers, which are told, and the others finish their writes first.  *)
LEMMA CloseInv ==
  ASSUME IInv, NEW c \in Poller \cup {NULL}, Close(c)
  PROVE  IInv'
<1> DEFINE idle == {p \in Poller : map[p] # NULL /\ ~HasWrite(map[p], queue[p])}
           e == map[c]
<1>1. /\ ~closed /\ closed' = TRUE /\ storage' = <<>>
      /\ map' = [p \in Poller |-> NULL]
      /\ queue' = [p \in Poller |->
                     IF p \in idle \ {c} THEN Append(queue[p], Delete(map[p])) ELSE queue[p]]
      /\ UNCHANGED <<n, keys, store, handled, state, home, cached, got, from>>
      /\ IF c \in idle THEN Destroy(e, readers[e]) ELSE UNCHANGED <<live, readers, size, told>>
  BY DEF Close
<1>2. told = {} /\ told \subseteq Reader
  BY <1>1 DEF IInv, Readers, ToldIsGone, TypeOK
<1>3. \A p \in Poller :
        /\ queue[p] \in Seq(Task) /\ map[p] \in Dispatcher \cup {NULL} /\ map'[p] = NULL
        /\ queue'[p] = IF p \in idle \ {c} THEN Append(queue[p], Delete(map[p])) ELSE queue[p]
        /\ p \in idle => map[p] \in Dispatcher /\ Delete(map[p]) \in Task
        /\ Delete(map[p]).op = "delete" /\ Delete(map[p]).disp = map[p]
        /\ \A d : ~IsWrite(d, Delete(map[p]))
  BY <1>1 DEF IInv, TypeOK, Delete, Task, IsWrite
<1>4. c \in idle => c \in Poller /\ e \in Dispatcher /\ ~HasWrite(e, queue[c]) /\ Owns(c, e)
  BY <1>3 DEF Owns, Holds
<1>5. \A d \in Dispatcher :
        /\ c \in idle /\ d = e => d \notin live' /\ readers'[d] = {} /\ size'[d] = 0
        /\ ~(c \in idle /\ d = e) =>
             (d \in live' <=> d \in live) /\ readers'[d] = readers[d] /\ size'[d] = size[d]
  BY <1>1, <1>4 DEF Destroy, IInv, TypeOK
<1>6. \A x \in Reader : x \in told' <=> c \in idle /\ x \in readers[e] /\ Alive(x)
  <2>1. CASE c \in idle
    <3>1. told' = {x \in told \cup readers[e] : state'[x] \in {"held", "ready"}}
      BY <1>1, <2>1 DEF Destroy
    <3>2. QED
      BY <1>1, <1>2, <2>1, <3>1 DEF Alive
  <2>2. CASE c \notin idle
    BY <1>1, <1>2, <2>2
  <2>3. QED
    BY <2>1, <2>2
<1>7. told' \subseteq Reader /\ live' \subseteq Dispatcher
  <2>1. c \in idle => readers[e] \subseteq Reader
    BY <1>4 DEF IInv, TypeOK
  <2>2. CASE c \in idle
    BY <1>1, <1>2, <2>1, <2>2 DEF Destroy, IInv, TypeOK
  <2>3. CASE c \notin idle
    BY <1>1, <1>2, <2>3 DEF IInv, TypeOK
  <2>4. QED
    BY <2>2, <2>3
<1>8. \A p \in Poller, d \in Dispatcher :
        /\ HasWrite(d, queue'[p]) <=> HasWrite(d, queue[p])
        /\ HasDelete(d, queue'[p]) <=> p \in idle \ {c} /\ d = map[p]
  <2> SUFFICES ASSUME NEW p \in Poller, NEW d \in Dispatcher
               PROVE  /\ HasWrite(d, queue'[p]) <=> HasWrite(d, queue[p])
                      /\ HasDelete(d, queue'[p]) <=> p \in idle \ {c} /\ d = map[p]
    OBVIOUS
  <2>1. ~HasDelete(d, queue[p])
    BY <1>1 DEF IInv, Owners, DeletedLast
  <2>2. CASE p \in idle \ {c}
    <3> DEFINE t == Delete(map[p])
    <3>1. /\ queue'[p] = Append(queue[p], t) /\ t \in Task /\ queue[p] \in Seq(Task)
          /\ ~IsWrite(d, t) /\ t.op = "delete" /\ t.disp = map[p]
      BY <1>3, <2>2
    <3> HIDE DEF t, idle
    <3>2. QED
      BY <2>1, <2>2, <3>1, PushedTask
  <2>3. CASE p \notin idle \ {c}
    BY <1>3, <2>1, <2>3
  <2>4. QED
    BY <2>2, <2>3
<1>9. \A p \in Poller, d \in Dispatcher :
        /\ Holds(p, d)' <=> HasWrite(d, queue[p])
        /\ Owns(p, d)' => Owns(p, d) /\ ~(c \in idle /\ d = e)
  <2> SUFFICES ASSUME NEW p \in Poller, NEW d \in Dispatcher
               PROVE  /\ Holds(p, d)' <=> HasWrite(d, queue[p])
                      /\ Owns(p, d)' => Owns(p, d) /\ ~(c \in idle /\ d = e)
    OBVIOUS
  <2>1. Holds(p, d)' <=> HasWrite(d, queue[p])
    BY <1>3, <1>8, NullAssumption DEF Holds
  <2>2. Owns(p, d)' => Owns(p, d)
    BY <1>8, <2>1 DEF Owns, Holds
  <2>3. c \in idle /\ d = e /\ Owns(p, d) => p = c
    BY <1>4 DEF IInv, Owners, OneOwner
  <2>4. c \in idle /\ d = e => ~Owns(c, d)'
    BY <1>3, <1>4, <1>8, NullAssumption DEF Owns, Holds
  <2>5. QED
    BY <2>1, <2>2, <2>3, <2>4
<1>10. TypeOK'
  <2>1. queue' \in [Poller -> Seq(Task)]
    <3>1. \A p \in Poller : queue'[p] \in Seq(Task)
      <4>1. \A p \in idle : Append(queue[p], Delete(map[p])) \in Seq(Task)
        BY <1>3, Pushed
      <4>2. QED
        BY <1>3, <4>1
    <3>2. QED
      BY <1>1, <3>1
  <2>2. size' \in [Dispatcher -> Nat] /\ readers' \in [Dispatcher -> SUBSET Reader]
    <3>1. size \in [Dispatcher -> Nat] /\ readers \in [Dispatcher -> SUBSET Reader]
      BY DEF IInv, TypeOK
    <3>2. CASE c \in idle
      <4>1. readers' = [readers EXCEPT ![e] = {}] /\ size' = [size EXCEPT ![e] = 0]
        BY <1>1, <3>2 DEF Destroy
      <4>2. QED
        BY ONLY <3>1, <4>1
    <3>3. CASE c \notin idle
      BY <1>1, <3>1, <3>3
    <3>4. QED
      BY <3>2, <3>3
  <2>3. storage' \in Seq(1..n) /\ map' \in [Poller -> Dispatcher \cup {NULL}]
    BY <1>1
  <2>4. QED
    BY <1>1, <1>7, <2>1, <2>2, <2>3 DEF IInv, TypeOK
<1> HIDE DEF idle
<1>11. Owners'
  <2>1. OwnedIsLive'
    BY <1>5, <1>9 DEF IInv, Owners, OwnedIsLive
  <2>2. OneOwner'
    BY <1>9 DEF IInv, Owners, OneOwner
  <2>3. HomeOwns'
    BY <1>1, <1>9, HomeTyped DEF IInv, Owners, HomeOwns
  <2>4. DeletedLast'
    BY <1>1, <1>8, <1>9 DEF DeletedLast, idle
  <2>5. DeletedOnce'
    <3>1. \A p \in Poller : \A k \in DOMAIN queue'[p] :
            queue'[p][k].op = "delete" => k = Len(queue[p]) + 1
      <4> SUFFICES ASSUME NEW p \in Poller, NEW k \in DOMAIN queue'[p],
                          queue'[p][k].op = "delete", k # Len(queue[p]) + 1
                   PROVE  FALSE
        OBVIOUS
      <4>1. k \in DOMAIN queue[p] /\ queue'[p][k] = queue[p][k]
        <5>1. CASE p \in idle \ {c}
          <6>1. /\ queue'[p] = Append(queue[p], Delete(map[p])) /\ queue[p] \in Seq(Task)
                /\ Delete(map[p]) \in Task
            BY <1>3, <5>1
          <6>2. QED
            BY <6>1, Pushed
        <5>2. CASE p \notin idle \ {c}
          BY <1>3, <5>2
        <5>3. QED
          BY <5>1, <5>2
      <4>2. queue[p][k].disp \in Dispatcher
        <5>1. queue[p][k] \in Task
          BY <1>3, <4>1
        <5>2. QED
          BY <5>1 DEF Task
      <4>3. HasDelete(queue[p][k].disp, queue[p])
        BY <4>1 DEF HasDelete
      <4>4. QED
        BY <1>1, <4>2, <4>3 DEF IInv, Owners, DeletedLast
    <3>2. QED
      BY <3>1 DEF DeletedOnce
  <2>6. ClosedMap' /\ Unmapped'
    BY <1>1, <1>3 DEF ClosedMap, Unmapped
  <2>7. DeadIsEmpty'
    BY <1>5 DEF IInv, Owners, DeadIsEmpty
  <2>8. QED
    BY <2>1, <2>2, <2>3, <2>4, <2>5, <2>6, <2>7 DEF Owners
<1>12. Readers'
  <2>1. Counted'
    <3> SUFFICES ASSUME NEW d \in Dispatcher
                 PROVE  /\ IsFiniteSet(readers'[d])
                        /\ \A p \in Poller : Holds(p, d)' => size'[d] = Cardinality(readers'[d])
      BY DEF Counted
    <3>1. CASE c \in idle /\ d = e
      BY <1>5, <3>1, FS_EmptySet
    <3>2. CASE ~(c \in idle /\ d = e)
      BY <1>5, <1>9, <3>2 DEF IInv, Readers, Counted, Holds
    <3>3. QED
      BY <3>1, <3>2
  <2>2. FreeIsNull' /\ Listed'
    BY <1>1, <1>5 DEF IInv, Readers, FreeIsNull, Listed
  <2>3. ToldIsGone'
    <3> SUFFICES ASSUME NEW x \in told'
                 PROVE  Alive(x)' /\ home[x].disp \notin live' /\ handled[home[x].disp] = n
      BY <1>1 DEF ToldIsGone
    <3>1. x \in Reader /\ c \in idle /\ x \in readers[e] /\ Alive(x)
      BY <1>6, <1>7
    <3>2. home[x].disp = e /\ e \in Dispatcher
      BY <1>4, <3>1 DEF IInv, Readers, Listed
    <3>3. Reaches(e, handled[e], n, queue[c]) /\ handled[e] \in Nat /\ n \in Nat /\ handled[e] <= n
      <4>1. Reaches(e, handled[e], n, queue[c])
        BY <1>4, <3>1 DEF IInv, Items, Streams
      <4>2. handled[e] \in Nat /\ n \in Nat /\ handled[e] <= n
        BY <3>2, SizeAssumption DEF IInv, TypeOK
      <4>3. QED
        BY <4>1, <4>2
    <3>4. handled[e] = n
      BY <1>4, <3>1, <3>3, ReachesEmpty
    <3>5. Alive(x)'
      BY <1>1, <3>1 DEF Alive
    <3>6. QED
      BY <1>5, <3>1, <3>2, <3>4, <3>5
  <2>4. Served'
    <3> SUFFICES ASSUME NEW x \in Reader, Alive(x), x \notin told'
                 PROVE  x \in readers'[home[x].disp]
      BY <1>1 DEF Served, Alive
    <3>1. x \in readers[home[x].disp] /\ home[x] # NULL
      BY <1>2 DEF IInv, Readers, Served, FreeIsNull, Alive
    <3>2. home[x].disp \in Dispatcher
      BY <3>1, HomeTyped DEF IInv
    <3>3. ~(c \in idle /\ home[x].disp = e)
      BY <1>6, <3>1
    <3>4. QED
      BY <1>5, <3>1, <3>2, <3>3
  <2>5. Deallocs'
    <3>1. \A p \in Poller : \A k \in DOMAIN queue'[p] : queue'[p][k].op = "dealloc" =>
            k \in DOMAIN queue[p] /\ queue'[p][k] = queue[p][k]
      <4> SUFFICES ASSUME NEW p \in Poller, NEW k \in DOMAIN queue'[p],
                          queue'[p][k].op = "dealloc"
                   PROVE  k \in DOMAIN queue[p] /\ queue'[p][k] = queue[p][k]
        OBVIOUS
      <4>1. CASE p \in idle \ {c}
        <5> DEFINE t == Delete(map[p])
        <5>1. /\ queue'[p] = Append(queue[p], t) /\ queue[p] \in Seq(Task)
              /\ t \in Task /\ t.op # "dealloc"
          BY <1>3, <4>1
        <5> HIDE DEF t
        <5>2. QED
          BY <5>1, Pushed
      <4>2. CASE p \notin idle \ {c}
        BY <1>3, <4>2
      <4>3. QED
        BY <4>1, <4>2
    <3>2. Deallocs /\ state' = state /\ home' = home
      BY <1>1 DEF IInv, Readers
    <3>3. QED
      BY <3>1, <3>2 DEF Deallocs
  <2>6. QED
    BY <2>1, <2>2, <2>3, <2>4, <2>5 DEF Readers
<1>13. Items'
  <2>1. Streams'
    <3> SUFFICES ASSUME NEW p \in Poller, NEW d \in Dispatcher
                 PROVE  /\ Chain(d, handled[d], n, queue'[p])
                        /\ Owns(p, d)' /\ readers'[d] # {} =>
                             Reaches(d, handled[d], n, queue'[p])
      <4>1. \A p \in Poller, d \in Dispatcher : map'[p] # d
        BY <1>3, NullAssumption
      <4>2. QED
        BY <1>1, <4>1 DEF Streams
    <3>1. /\ Chain(d, handled[d], n, queue[p]) /\ handled[d] \in Nat /\ n \in Nat
          /\ Owns(p, d) /\ readers[d] # {} => Reaches(d, handled[d], n, queue[p])
      BY SizeAssumption DEF IInv, Items, Streams, TypeOK
    <3>2. Owns(p, d)' /\ readers'[d] # {} => Owns(p, d) /\ readers[d] # {}
      BY <1>5, <1>9
    <3>3. CASE p \in idle \ {c}
      <4>1. /\ queue'[p] = Append(queue[p], Delete(map[p])) /\ queue[p] \in Seq(Task)
            /\ ~IsWrite(d, Delete(map[p])) /\ Delete(map[p]) \in Task
        BY <1>3, <3>3
      <4>2. QED
        BY <3>1, <3>2, <4>1, ChainPushedOther
    <3>4. CASE p \notin idle \ {c}
      BY <1>3, <3>1, <3>2, <3>4
    <3>5. QED
      BY <3>3, <3>4
  <2>2. EndsAt(storage', n)
    <3>1. n \in Nat /\ Len(<<>>) = 0 /\ DOMAIN <<>> = {}
      BY SizeAssumption DEF IInv, TypeOK
    <3>2. QED
      BY <1>1, <3>1 DEF EndsAt
  <2>3. Position' /\ InOrder'
    BY <1>1 DEF IInv, Items, Position, InOrder, Ready
  <2>4. QED
    BY <1>1, <2>1, <2>2, <2>3 DEF IInv, Items
<1>14. QED
  BY <1>10, <1>11, <1>12, <1>13 DEF IInv

-----------------------------------------------------------------------------
(* The steps after which a dispatcher has fewer readers                    *)

(* Poller p takes a task, or none, and of the readers of dispatcher d the  *)
(* ones in rs are left, the others being dead or gone: the map may lose d  *)
(* with the last of them, and d may be deleted, if nothing waits for it.   *)
Shrinks(p, d, rs) ==
  /\ UNCHANGED <<n, closed>>
  /\ queue' = queue \/ (queue[p] # <<>> /\ queue' = [queue EXCEPT ![p] = Tail(@)])
  /\ \A q \in Poller : Owns(q, d) => q = p
  /\ rs \subseteq readers[d]
  /\ \A x \in readers[d] \ rs : ~Alive(x)'
  /\ \A x \in Reader :
       \/ home'[x] = home[x] /\ (state'[x] = "free" <=> state[x] = "free")
            /\ (Alive(x)' <=> Alive(x))
       \/ home'[x] = NULL /\ state'[x] = "free" /\ home[x] # NULL /\ home[x].disp = d /\ x \notin rs
  /\ map' = map \/ (map[p] = d /\ rs = {} /\ map' = [map EXCEPT ![p] = NULL])
  /\ \A e \in Dispatcher : e # d => size'[e] = size[e] /\ handled'[e] = handled[e]
  /\ handled'[d] = handled[d] \/ d \in live
  /\ \/ /\ live' = live
        /\ readers' = [readers EXCEPT ![d] = rs]
        /\ size'[d] = IF Holds(p, d) THEN Cardinality(rs) ELSE size[d]
        /\ told' = {x \in told : Alive(x)'}
     \/ /\ ~Owns(p, d)'
        /\ rs = {} \/ (closed /\ handled'[d] = n)
        /\ live' = live \ {d}
        /\ readers' = [readers EXCEPT ![d] = {}]
        /\ size'[d] = 0
        /\ told' = {x \in told \cup rs : Alive(x)'}

(* Such a step adds no owner.                                              *)
LEMMA ShrinksFacts ==
  ASSUME IInv, NEW p \in Poller, NEW d \in Dispatcher, NEW rs, Shrinks(p, d, rs)
  PROVE  /\ \A q \in Poller, e \in Dispatcher :
              /\ HasWrite(e, queue'[q]) => HasWrite(e, queue[q])
              /\ HasDelete(e, queue'[q]) => HasDelete(e, queue[q])
              /\ map'[q] = e => map[q] = e
              /\ Holds(q, e)' => Holds(q, e)
              /\ Owns(q, e)' => Owns(q, e)
         /\ \A q \in Poller \ {p} : queue'[q] = queue[q] /\ map'[q] = map[q]
         /\ DeletedOnce'
         /\ rs \subseteq Reader
         /\ \A e \in Dispatcher : readers'[e] = IF e # d THEN readers[e]
                                                ELSE IF live' = live THEN rs ELSE {}
<1>1. \A q \in Poller : queue[q] \in Seq(Task)
  BY DEF IInv, TypeOK
<1>2. \A q \in Poller \ {p} : queue'[q] = queue[q] /\ map'[q] = map[q]
  BY DEF Shrinks, IInv, TypeOK
<1>3. queue'[p] = queue[p] \/ (queue[p] # <<>> /\ queue'[p] = Tail(queue[p]))
  BY DEF Shrinks, IInv, TypeOK
<1>4. \A q \in Poller, e \in Dispatcher : map'[q] = e => map[q] = e
  <2>1. map'[p] = map[p] \/ map'[p] = NULL
    BY DEF Shrinks, IInv, TypeOK
  <2>2. QED
    BY <1>2, <2>1, NullAssumption
<1>5. \A q \in Poller, e \in Dispatcher :
        /\ HasWrite(e, queue'[q]) => HasWrite(e, queue[q])
        /\ HasDelete(e, queue'[q]) => HasDelete(e, queue[q])
  <2> SUFFICES ASSUME NEW q \in Poller, NEW e \in Dispatcher, queue'[q] # queue[q]
               PROVE  /\ HasWrite(e, queue'[q]) => HasWrite(e, queue[q])
                      /\ HasDelete(e, queue'[q]) => HasDelete(e, queue[q])
    OBVIOUS
  <2>1. queue[q] \in Seq(Task) /\ queue[q] # <<>> /\ queue'[q] = Tail(queue[q])
    BY <1>1, <1>2, <1>3
  <2>2. QED
    BY <2>1, PoppedTask
<1>6. \A q \in Poller, e \in Dispatcher :
        /\ Holds(q, e)' => Holds(q, e)
        /\ Owns(q, e)' => Owns(q, e)
  BY <1>4, <1>5 DEF Holds, Owns
<1>7. DeletedOnce'
  <2> SUFFICES ASSUME NEW q \in Poller, NEW k \in DOMAIN queue'[q], NEW l \in DOMAIN queue'[q],
                      queue'[q][k].op = "delete", queue'[q][l].op = "delete",
                      queue'[q][k].disp = queue'[q][l].disp
               PROVE  k = l
    BY DEF DeletedOnce
  <2>1. CASE queue'[q] = queue[q]
    BY <2>1 DEF IInv, Owners, DeletedOnce
  <2>2. CASE queue'[q] # queue[q]
    <3>1. queue[q] \in Seq(Task) /\ queue[q] # <<>> /\ queue'[q] = Tail(queue[q])
      BY <1>1, <1>2, <1>3, <2>2
    <3>2. /\ k \in Nat /\ l \in Nat
          /\ k + 1 \in DOMAIN queue[q] /\ queue'[q][k] = queue[q][k + 1]
          /\ l + 1 \in DOMAIN queue[q] /\ queue'[q][l] = queue[q][l + 1]
      BY <3>1, Popped
    <3>3. k + 1 = l + 1
      BY <3>2 DEF IInv, Owners, DeletedOnce
    <3>4. QED
      BY <3>2, <3>3
  <2>3. QED
    BY <2>1, <2>2
<1>8. rs \subseteq Reader
  BY DEF Shrinks, IInv, TypeOK
<1>9. \A e \in Dispatcher : readers'[e] = IF e # d THEN readers[e]
                                          ELSE IF live' = live THEN rs ELSE {}
  <2>1. live' = live => readers'[d] = rs
    <3>1. readers \in [Dispatcher -> SUBSET Reader] /\ (d \notin live => readers[d] = {})
      BY DEF IInv, TypeOK, Owners, DeadIsEmpty
    <3>2. QED
      BY <3>1 DEF Shrinks
  <2>2. live' # live => readers'[d] = {}
    BY DEF Shrinks, IInv, TypeOK
  <2>3. \A e \in Dispatcher \ {d} : readers'[e] = readers[e]
    BY DEF Shrinks, IInv, TypeOK
  <2>4. QED
    BY <2>1, <2>2, <2>3
<1>10. QED
  BY <1>2, <1>4, <1>5, <1>6, <1>7, <1>8, <1>9

LEMMA ShrinksOwners ==
  ASSUME IInv, NEW p \in Poller, NEW d \in Dispatcher, NEW rs, Shrinks(p, d, rs)
  PROVE  Owners'
<1>1. /\ \A q \in Poller, e \in Dispatcher :
           /\ HasDelete(e, queue'[q]) => HasDelete(e, queue[q])
           /\ map'[q] = e => map[q] = e
           /\ Holds(q, e)' => Holds(q, e)
           /\ Owns(q, e)' => Owns(q, e)
      /\ \A q \in Poller \ {p} : queue'[q] = queue[q] /\ map'[q] = map[q]
      /\ DeletedOnce'
      /\ \A e \in Dispatcher : readers'[e] = IF e # d THEN readers[e]
                                             ELSE IF live' = live THEN rs ELSE {}
  BY ShrinksFacts
<1>2. /\ closed' = closed /\ rs \subseteq readers[d]
      /\ \A q \in Poller : Owns(q, d) => q = p
      /\ \A x \in Reader : home'[x] = home[x] \/ home'[x] = NULL
      /\ map' = map \/ (map[p] = d /\ rs = {} /\ map' = [map EXCEPT ![p] = NULL])
  BY DEF Shrinks
<1>3. live' = live \/ (live' = live \ {d} /\ ~Owns(p, d)')
  BY DEF Shrinks
<1>4. OwnedIsLive'
  BY <1>1, <1>2, <1>3 DEF IInv, Owners, OwnedIsLive
<1>5. OneOwner'
  BY <1>1 DEF IInv, Owners, OneOwner
<1>6. HomeOwns'
  <2>1. \A x \in Reader : home'[x] # NULL =>
          home'[x] = home[x] /\ home[x] # NULL /\ home[x].disp \in Dispatcher
    BY <1>2, HomeTyped DEF IInv
  <2> SUFFICES ASSUME NEW x \in Reader, NEW q \in Poller, home'[x] # NULL,
                      NEW e \in Dispatcher, e = home'[x].disp, Owns(q, e)'
               PROVE  q = home'[x].poller
    BY <2>1 DEF HomeOwns
  <2>2. QED
    BY <1>1, <2>1 DEF IInv, Owners, HomeOwns
<1>7. DeletedLast' /\ ClosedMap'
  <2>1. DeletedLast'
    BY <1>1, <1>2 DEF IInv, Owners, DeletedLast
  <2>2. ClosedMap'
    BY <1>1, <1>2 DEF IInv, Owners, ClosedMap, TypeOK
  <2>3. QED
    BY <2>1, <2>2
<1>8. Unmapped'
  <2> SUFFICES ASSUME NEW e \in Dispatcher, ~closed, readers'[e] # {}
               PROVE  \E q \in Poller : map'[q] = e
    BY <1>2 DEF Unmapped
  <2>1. PICK q \in Poller : map[q] = e
    BY <1>1, <1>2 DEF IInv, Owners, Unmapped
  <2>2. map'[q] = e
    <3>1. CASE map' = map
      BY <2>1, <3>1
    <3>2. CASE map' # map
      <4>1. map[p] = d /\ rs = {} /\ e # d
        BY <1>1, <1>2, <3>2
      <4>2. QED
        BY <1>1, <2>1, <4>1
    <3>3. QED
      BY <3>1, <3>2
  <2>3. QED
    BY <2>2
<1>9. DeadIsEmpty'
  <2> SUFFICES ASSUME NEW e \in Dispatcher, e \notin live'
               PROVE  readers'[e] = {} /\ size'[e] = 0
    BY DEF DeadIsEmpty
  <2>1. CASE e \in live
    BY <2>1 DEF Shrinks, IInv, TypeOK
  <2>2. CASE e \notin live
    <3>1. readers[e] = {} /\ size[e] = 0 /\ ~Holds(p, e)
      BY <2>2 DEF IInv, Owners, DeadIsEmpty, OwnedIsLive, Owns
    <3>2. readers'[e] = {}
      BY <1>1, <1>2, <3>1
    <3>3. size'[e] = 0
      BY <3>1 DEF Shrinks
    <3>4. QED
      BY <3>2, <3>3
  <2>3. QED
    BY <2>1, <2>2
<1>10. QED
  BY <1>1, <1>4, <1>5, <1>6, <1>7, <1>8, <1>9 DEF Owners

LEMMA ShrinksReaders ==
  ASSUME IInv, NEW p \in Poller, NEW d \in Dispatcher, NEW rs, Shrinks(p, d, rs)
  PROVE  Counted' /\ FreeIsNull' /\ Listed' /\ ToldIsGone' /\ Served'
<1>1. /\ \A q \in Poller, e \in Dispatcher : Holds(q, e)' => Holds(q, e)
      /\ \A q \in Poller \ {p} : map'[q] = map[q]
      /\ rs \subseteq Reader
      /\ \A e \in Dispatcher : readers'[e] = IF e # d THEN readers[e]
                                             ELSE IF live' = live THEN rs ELSE {}
  BY ShrinksFacts
<1>2. /\ n' = n /\ closed' = closed /\ rs \subseteq readers[d]
      /\ \A q \in Poller : Owns(q, d) => q = p
      /\ \A x \in readers[d] \ rs : ~Alive(x)'
      /\ map' = map \/ (map[p] = d /\ rs = {} /\ map' = [map EXCEPT ![p] = NULL])
      /\ \A e \in Dispatcher : e # d => size'[e] = size[e] /\ handled'[e] = handled[e]
      /\ handled'[d] = handled[d] \/ d \in live
  BY DEF Shrinks
<1>3. \A x \in Reader :
        \/ home'[x] = home[x] /\ (state'[x] = "free" <=> state[x] = "free")
             /\ (Alive(x)' <=> Alive(x))
        \/ home'[x] = NULL /\ state'[x] = "free" /\ home[x] # NULL /\ home[x].disp = d /\ x \notin rs
  BY DEF Shrinks
<1>4. \/ /\ live' = live
         /\ size'[d] = IF Holds(p, d) THEN Cardinality(rs) ELSE size[d]
         /\ told' = {x \in told : Alive(x)'}
      \/ /\ live' = live \ {d}
         /\ rs = {} \/ (closed /\ handled'[d] = n)
         /\ size'[d] = 0
         /\ told' = {x \in told \cup rs : Alive(x)'}
  BY DEF Shrinks
<1>5. told \subseteq Reader /\ live \subseteq Dispatcher
  BY DEF IInv, TypeOK
<1>6. \A x \in Reader : Alive(x)' => Alive(x) /\ home'[x] = home[x] /\ home[x] # NULL
  BY <1>3 DEF Alive, IInv, Readers, FreeIsNull
<1>7. Counted'
  <2> SUFFICES ASSUME NEW e \in Dispatcher
               PROVE  /\ IsFiniteSet(readers'[e])
                      /\ \A q \in Poller : Holds(q, e)' => size'[e] = Cardinality(readers'[e])
    BY DEF Counted
  <2>1. CASE e # d
    BY <1>1, <1>2, <2>1 DEF IInv, Readers, Counted
  <2>2. CASE e = d /\ live' = live
    <3>1. IsFiniteSet(rs) /\ readers'[e] = rs
      BY <1>1, <1>2, <2>2, FS_Subset DEF IInv, Readers, Counted
    <3>2. \A q \in Poller : Holds(q, e)' => Holds(p, d)
      BY <1>1, <1>2, <2>2 DEF Owns
    <3>3. Holds(p, d) => size'[d] = Cardinality(rs)
      <4>1. CASE d \in live
        BY <1>4, <2>2, <4>1
      <4>2. CASE d \notin live
        BY <4>2 DEF IInv, Owners, OwnedIsLive, Owns
      <4>3. QED
        BY <4>1, <4>2
    <3>4. QED
      BY <2>2, <3>1, <3>2, <3>3
  <2>3. CASE e = d /\ live' # live
    BY <1>1, <1>4, <2>3, FS_EmptySet
  <2>4. QED
    BY <2>1, <2>2, <2>3
<1>8. FreeIsNull'
  BY <1>3 DEF IInv, Readers, FreeIsNull
<1>9. Listed'
  <2> SUFFICES ASSUME NEW e \in Dispatcher, NEW x \in readers'[e]
               PROVE  home'[x] # NULL /\ home'[x].disp = e
    BY DEF Listed
  <2>1. x \in readers[e] /\ (e = d => x \in rs)
    BY <1>1, <1>2
  <2>2. x \in Reader /\ home[x] # NULL /\ home[x].disp = e
    BY <2>1 DEF IInv, Readers, Listed, TypeOK
  <2>3. home'[x] = home[x]
    BY <1>3, <2>1, <2>2
  <2>4. QED
    BY <2>2, <2>3
<1>10. ToldIsGone'
  <2> SUFFICES ASSUME NEW x \in told'
               PROVE  /\ Alive(x)' /\ closed
                      /\ home'[x].disp \notin live' /\ handled'[home'[x].disp] = n
    BY <1>2 DEF ToldIsGone
  <2>1. Alive(x)' /\ (x \in told \/ x \in rs) /\ x \in Reader
    BY <1>1, <1>4, <1>5
  <2>2. home'[x] = home[x] /\ home[x] # NULL /\ home[x].disp \in Dispatcher
    BY <1>6, <2>1, HomeTyped DEF IInv
  <2>3. CASE x \in told
    <3>1. closed /\ home[x].disp \notin live /\ handled[home[x].disp] = n
      BY <2>3 DEF IInv, Readers, ToldIsGone
    <3>2. home[x].disp \notin live'
      BY <1>4, <3>1
    <3>3. handled'[home[x].disp] = n
      BY <1>2, <2>2, <3>1
    <3>4. QED
      BY <2>1, <2>2, <3>1, <3>2, <3>3
  <2>4. CASE x \notin told
    <3>1. x \in rs /\ closed /\ handled'[d] = n /\ d \notin live'
      BY <1>4, <2>1, <2>4
    <3>2. home[x].disp = d
      BY <1>2, <3>1 DEF IInv, Readers, Listed
    <3>3. QED
      BY <2>1, <2>2, <3>1, <3>2
  <2>5. QED
    BY <2>3, <2>4
<1>11. Served'
  <2> SUFFICES ASSUME NEW x \in Reader, Alive(x)', x \notin told'
               PROVE  /\ x \in readers'[home'[x].disp]
                      /\ closed \/ map'[home'[x].poller] = home'[x].disp
    BY <1>2 DEF Served
  <2>1. Alive(x) /\ home'[x] = home[x] /\ home[x] # NULL
    BY <1>6
  <2>2. home[x].disp \in Dispatcher /\ home[x].poller \in Poller
    BY <2>1, HomeTyped DEF IInv
  <2>3. x \notin told
    BY <1>4
  <2>4. x \in readers[home[x].disp] /\ (closed \/ map[home[x].poller] = home[x].disp)
    BY <2>1, <2>3 DEF IInv, Readers, Served
  <2>5. home[x].disp = d => x \in rs
    BY <1>2, <2>4
  <2>6. home[x].disp = d => live' = live
    <3>1. x \in rs => live' = live
      BY <1>4
    <3>2. QED
      BY <2>5, <3>1
  <2>7. x \in readers'[home[x].disp]
    BY <1>1, <2>2, <2>4, <2>5, <2>6
  <2>8. map[home[x].poller] = home[x].disp => map'[home[x].poller] = home[x].disp
    <3>1. CASE map' = map
      BY <3>1
    <3>2. CASE map' # map
      <4>1. map[p] = d /\ rs = {}
        BY <1>2, <3>2
      <4>2. home[x].disp # d
        BY <2>5, <4>1
      <4>3. QED
        BY <1>1, <2>2, <4>1, <4>2
    <3>3. QED
      BY <3>1, <3>2
  <2>9. QED
    BY <2>1, <2>4, <2>7, <2>8
<1>12. QED
  BY <1>7, <1>8, <1>9, <1>10, <1>11

LEMMA ShrinksStreams ==
  ASSUME IInv, NEW p \in Poller, NEW d \in Dispatcher, NEW rs, Shrinks(p, d, rs),
         \A e \in Dispatcher :
           /\ Chain(e, handled'[e], n, queue'[p])
           /\ Reaches(e, handled[e], n, queue[p]) => Reaches(e, handled'[e], n, queue'[p])
  PROVE  Streams'
<1>1. /\ \A q \in Poller, e \in Dispatcher :
           /\ map'[q] = e => map[q] = e
           /\ Owns(q, e)' => Owns(q, e)
      /\ \A q \in Poller \ {p} : queue'[q] = queue[q]
      /\ \A e \in Dispatcher : readers'[e] = IF e # d THEN readers[e]
                                             ELSE IF live' = live THEN rs ELSE {}
  BY ShrinksFacts
<1>2. /\ n' = n /\ rs \subseteq readers[d]
      /\ \A q \in Poller : Owns(q, d) => q = p
      /\ \A e \in Dispatcher : e # d => handled'[e] = handled[e]
  BY DEF Shrinks
<1>3. SUFFICES ASSUME NEW q \in Poller, NEW e \in Dispatcher
               PROVE  /\ Chain(e, handled'[e], n, queue'[q])
                      /\ map'[q] = e \/ (Owns(q, e)' /\ readers'[e] # {})
                           => Reaches(e, handled'[e], n, queue'[q])
  BY <1>2 DEF Streams
<1>4. /\ Chain(e, handled[e], n, queue[q])
      /\ map[q] = e \/ (Owns(q, e) /\ readers[e] # {}) => Reaches(e, handled[e], n, queue[q])
  BY DEF IInv, Items, Streams
<1>5. readers'[e] # {} => readers[e] # {}
  BY <1>1, <1>2
<1>6. CASE q = p
  BY <1>1, <1>4, <1>5, <1>6
<1>7. CASE q # p /\ e # d
  BY <1>1, <1>2, <1>4, <1>5, <1>7
<1>8. CASE q # p /\ e = d
  <2>1. ~Owns(q, d)
    BY <1>2, <1>8
  <2>2. ~HasWrite(e, queue'[q]) /\ map'[q] # e /\ ~Owns(q, e)'
    BY <1>1, <1>8, <2>1 DEF Owns, Holds
  <2>3. QED
    BY <2>2, ChainEmpty
<1>9. QED
  BY <1>6, <1>7, <1>8

(* The number of readers left is right, and the map loses d with the last  *)
(* of them only; a dispatcher that is deleted with readers left has        *)
(* nothing more to give them.                                              *)
LEMMA LeftFacts ==
  ASSUME IInv, NEW p \in Poller, NEW d \in Dispatcher, NEW rs, rs \subseteq readers[d],
         NEW rest, Holds(p, d), LeftWith(p, d, rs, rest), ~HasDelete(d, rest),
         handled'[d] \in 0..n,
         Reaches(d, handled[d], n, queue[p]) => Reaches(d, handled'[d], n, rest)
  PROVE  /\ queue' = [queue EXCEPT ![p] = rest]
         /\ map' = map \/ (map[p] = d /\ rs = {} /\ map' = [map EXCEPT ![p] = NULL])
         /\ \A e \in Dispatcher : e # d => size'[e] = size[e]
         /\ size' \in [Dispatcher -> Nat] /\ map' \in [Poller -> Dispatcher \cup {NULL}]
         /\ \/ /\ live' = live
               /\ readers' = [readers EXCEPT ![d] = rs]
               /\ size'[d] = Cardinality(rs)
               /\ told' = {x \in told : Alive(x)'}
            \/ /\ ~Owns(p, d)'
               /\ rs = {} \/ (closed /\ handled'[d] = n)
               /\ live' = live \ {d}
               /\ readers' = [readers EXCEPT ![d] = {}]
               /\ size'[d] = 0
               /\ told' = {x \in told \cup rs : Alive(x)'}
<1>1. /\ queue' = [queue EXCEPT ![p] = rest]
      /\ map' = IF rs # readers[d] /\ size[d] = Cardinality(readers[d] \ rs)
                  THEN [map EXCEPT ![p] = NULL] ELSE map
      /\ IF map'[p] # d /\ ~HasWrite(d, rest) THEN Destroy(d, rs) ELSE Keep(d, rs)
  BY DEF LeftWith
<1>2. /\ IsFiniteSet(readers[d]) /\ size[d] = Cardinality(readers[d])
      /\ map \in [Poller -> Dispatcher \cup {NULL}] /\ size \in [Dispatcher -> Nat]
      /\ queue'[p] = rest /\ n \in Nat
  BY <1>1, SizeAssumption DEF IInv, TypeOK, Readers, Counted
<1>3. /\ IsFiniteSet(rs) /\ Cardinality(rs) \in Nat /\ Cardinality(readers[d]) \in Nat
      /\ Cardinality(readers[d] \ rs) = Cardinality(readers[d]) - Cardinality(rs)
      /\ Cardinality(rs) <= Cardinality(readers[d])
      /\ Cardinality(rs) = 0 => rs = {}
  <2>1. IsFiniteSet(rs) /\ Cardinality(rs) <= Cardinality(readers[d])
    BY <1>2, FS_Subset
  <2>2. Cardinality(rs) \in Nat /\ Cardinality(readers[d]) \in Nat
    BY <1>2, <2>1, FS_CardinalityType
  <2>3. readers[d] \cap rs = rs
    OBVIOUS
  <2>4. Cardinality(readers[d] \ rs) = Cardinality(readers[d]) - Cardinality(rs)
    BY <1>2, <2>3, FS_Difference
  <2>5. QED
    BY <2>1, <2>2, <2>4, FS_EmptySet
<1>4. \A q \in Poller : map[q] = d => q = p
  BY DEF IInv, Owners, OneOwner, Owns, Holds
<1>5. map[p] # d => closed \/ readers[d] = {}
  BY <1>4 DEF IInv, Owners, Unmapped
<1>6. map' = map \/ (map[p] = d /\ rs = {} /\ map' = [map EXCEPT ![p] = NULL])
  <2>1. CASE rs # readers[d] /\ size[d] = Cardinality(readers[d] \ rs)
    <3>1. rs = {} /\ readers[d] # {}
      <4>1. Cardinality(readers[d]) = Cardinality(readers[d]) - Cardinality(rs)
        BY <1>2, <1>3, <2>1
      <4>2. Cardinality(rs) = 0
        BY <1>3, <4>1
      <4>3. QED
        BY <1>3, <2>1, <4>2
    <3>2. map' = [map EXCEPT ![p] = NULL]
      BY <1>1, <2>1
    <3>3. CASE map[p] = d
      BY <3>1, <3>2, <3>3
    <3>4. CASE map[p] # d
      <4>1. map[p] = NULL
        BY <1>5, <3>1, <3>4 DEF IInv, Owners, ClosedMap
      <4>2. QED
        BY <1>2, <3>2, <4>1
    <3>5. QED
      BY <3>3, <3>4
  <2>2. CASE ~(rs # readers[d] /\ size[d] = Cardinality(readers[d] \ rs))
    BY <1>1, <2>2
  <2>3. QED
    BY <2>1, <2>2
<1>7. map' \in [Poller -> Dispatcher \cup {NULL}]
  BY <1>2, <1>6
<1>8. CASE map'[p] # d /\ ~HasWrite(d, rest)
  <2>1. Destroy(d, rs)
    BY <1>1, <1>8
  <2>2. ~Owns(p, d)'
    BY <1>2, <1>8 DEF Owns, Holds
  <2>3. rs = {} \/ (closed /\ handled'[d] = n)
    <3> SUFFICES ASSUME rs # {} PROVE closed /\ handled'[d] = n
      OBVIOUS
    <3>1. map[p] # d
      BY <1>6, <1>8
    <3>2. closed
      BY <1>5, <3>1
    <3>3. Reaches(d, handled[d], n, queue[p])
      BY DEF IInv, Items, Streams, Owns
    <3>4. Reaches(d, handled'[d], n, rest) /\ handled'[d] \in Nat /\ handled'[d] <= n
      BY <1>2, <3>3
    <3>5. QED
      BY <1>2, <1>8, <3>2, <3>4, ReachesEmpty
  <2>4. size' = [size EXCEPT ![d] = 0]
    BY <2>1 DEF Destroy
  <2>5. /\ size' \in [Dispatcher -> Nat] /\ size'[d] = 0
        /\ \A e \in Dispatcher : e # d => size'[e] = size[e]
    BY <1>2, <2>4
  <2>6. /\ live' = live \ {d} /\ readers' = [readers EXCEPT ![d] = {}]
        /\ told' = {x \in told \cup rs : Alive(x)'}
    BY <2>1 DEF Destroy, Alive
  <2>7. QED
    BY <1>1, <1>6, <1>7, <2>2, <2>3, <2>5, <2>6
<1>9. CASE ~(map'[p] # d /\ ~HasWrite(d, rest))
  <2>1. Keep(d, rs)
    BY <1>1, <1>9
  <2>2. size' = [size EXCEPT ![d] = size[d] - Cardinality(readers[d] \ rs)]
    BY <2>1 DEF Keep
  <2>3. size[d] - Cardinality(readers[d] \ rs) = Cardinality(rs)
    BY <1>2, <1>3
  <2>4. /\ size' \in [Dispatcher -> Nat] /\ size'[d] = Cardinality(rs)
        /\ \A e \in Dispatcher : e # d => size'[e] = size[e]
    BY <1>2, <1>3, <2>2, <2>3
  <2>5. /\ live' = live /\ readers' = [readers EXCEPT ![d] = rs]
        /\ told' = {x \in told : Alive(x)'}
    BY <2>1 DEF Keep, Alive
  <2>6. QED
    BY <1>1, <1>6, <1>7, <2>4, <2>5
<1>10. QED
  BY <1>8, <1>9

(* A reader that is deleted in the thread of its poller, at once or in the *)
(* task it waited for, is erased from its dispatcher.                      *)
LEMMA GoneShrinks ==
  ASSUME IInv, NEW r \in Reader, NEW p \in Poller, NEW d \in Dispatcher,
         home[r] = [poller |-> p, disp |-> d], NEW rest,
         Forget(r, "free"), Erased(p, d, r, rest), UNCHANGED <<source, closed, store, handled>>,
         \/ Alive(r) /\ rest = queue[p]
         \/ /\ queue[p] # <<>> /\ rest = Tail(queue[p])
            /\ Head(queue[p]).op = "dealloc" /\ Head(queue[p]).arg = r
  PROVE  /\ Shrinks(p, d, readers[d] \ {r})
         /\ queue' = [queue EXCEPT ![p] = rest]
         /\ size' \in [Dispatcher -> Nat] /\ map' \in [Poller -> Dispatcher \cup {NULL}]
<1> DEFINE rs == readers[d] \ {r}
<1>1. /\ n' = n /\ closed' = closed /\ handled' = handled /\ n \in Nat
      /\ queue[p] \in Seq(Task) /\ handled[d] \in 0..n
      /\ size \in [Dispatcher -> Nat] /\ map \in [Poller -> Dispatcher \cup {NULL}]
      /\ told \subseteq Reader
  BY SizeAssumption DEF source, IInv, TypeOK
<1>2. rest = queue[p] \/ (queue[p] # <<>> /\ rest = Tail(queue[p]) /\ ~IsWrite(d, Head(queue[p])))
  BY DEF IsWrite
<1>3. /\ HasWrite(d, rest) <=> HasWrite(d, queue[p])
      /\ HasDelete(d, rest) => HasDelete(d, queue[p])
  <2>1. CASE rest = queue[p]
    BY <2>1
  <2>2. CASE rest # queue[p]
    <3>1. /\ queue[p] \in Seq(Task) /\ queue[p] # <<>> /\ rest = Tail(queue[p])
          /\ ~IsWrite(d, Head(queue[p]))
      BY <1>1, <1>2, <2>2
    <3>2. QED
      BY <3>1, PoppedTask
  <2>3. QED
    BY <2>1, <2>2
<1>4. Reaches(d, handled[d], n, queue[p]) => Reaches(d, handled'[d], n, rest)
  <2>1. CASE rest = queue[p]
    BY <1>1, <2>1
  <2>2. CASE rest # queue[p]
    <3>1. /\ queue[p] \in Seq(Task) /\ queue[p] # <<>> /\ rest = Tail(queue[p])
          /\ ~IsWrite(d, Head(queue[p]))
      BY <1>1, <1>2, <2>2
    <3>2. handled[d] \in Nat /\ n \in Nat /\ handled'[d] = handled[d]
      BY <1>1
    <3>3. QED
      BY <3>1, <3>2, ChainPoppedOther
  <2>3. QED
    BY <2>1, <2>2
<1>5. \A x \in Reader : /\ state'[x] = IF x = r THEN "free" ELSE state[x]
                        /\ home'[x] = IF x = r THEN NULL ELSE home[x]
  BY DEF Forget, IInv, TypeOK
<1>6. home[r] # NULL /\ home[r].disp = d /\ home[r].poller = p
  BY NullAssumption
<1>7. /\ \A q \in Poller : Owns(q, d) => q = p
      /\ rs \subseteq readers[d] /\ r \notin rs
      /\ \A x \in readers[d] \ rs : ~Alive(x)'
      /\ \A x \in Reader :
           \/ home'[x] = home[x] /\ (state'[x] = "free" <=> state[x] = "free")
                /\ (Alive(x)' <=> Alive(x))
           \/ home'[x] = NULL /\ state'[x] = "free" /\ home[x] # NULL /\ home[x].disp = d /\ x \notin rs
  <2>1. \A q \in Poller : Owns(q, d) => q = p
    BY <1>6 DEF IInv, Owners, HomeOwns
  <2>2. \A x \in readers[d] \ rs : ~Alive(x)'
    BY <1>5 DEF Alive
  <2>3. QED
    BY <1>5, <1>6, <2>1, <2>2 DEF Alive
<1>8. CASE d \in live /\ (map[p] = d \/ HasWrite(d, rest)) /\ r \in readers[d]
  <2>1. LeftWith(p, d, rs, rest)
    BY <1>8 DEF Erased
  <2>2. Holds(p, d)
    BY <1>3, <1>8 DEF Holds
  <2>3. ~HasDelete(d, rest)
    BY <1>3, <2>2 DEF IInv, Owners, DeletedLast
  <2>4. handled'[d] \in 0..n
    BY <1>1
  <2> HIDE DEF rs
  <2>5. /\ queue' = [queue EXCEPT ![p] = rest]
        /\ map' = map \/ (map[p] = d /\ rs = {} /\ map' = [map EXCEPT ![p] = NULL])
        /\ \A e \in Dispatcher : e # d => size'[e] = size[e]
        /\ size' \in [Dispatcher -> Nat] /\ map' \in [Poller -> Dispatcher \cup {NULL}]
        /\ \/ /\ live' = live
              /\ readers' = [readers EXCEPT ![d] = rs]
              /\ size'[d] = Cardinality(rs)
              /\ told' = {x \in told : Alive(x)'}
           \/ /\ ~Owns(p, d)'
              /\ rs = {} \/ (closed /\ handled'[d] = n)
              /\ live' = live \ {d}
              /\ readers' = [readers EXCEPT ![d] = {}]
              /\ size'[d] = 0
              /\ told' = {x \in told \cup rs : Alive(x)'}
    BY <1>4, <1>7, <2>1, <2>2, <2>3, <2>4, LeftFacts
  <2>6. queue' = queue \/ (queue[p] # <<>> /\ queue' = [queue EXCEPT ![p] = Tail(@)])
    <3>1. rest = queue[p] => queue' = queue
      BY <2>5 DEF IInv, TypeOK
    <3>2. QED
      BY <1>2, <2>5, <3>1
  <2>7. Shrinks(p, d, rs)
    BY <1>1, <1>7, <2>2, <2>5, <2>6 DEF Shrinks
  <2>8. QED
    BY <2>5, <2>7 DEF rs
<1>9. CASE ~(d \in live /\ (map[p] = d \/ HasWrite(d, rest)) /\ r \in readers[d])
  <2>1. /\ queue' = [queue EXCEPT ![p] = rest]
        /\ readers' = [readers EXCEPT ![d] = rs]
        /\ told' = told \ {r}
        /\ map' = map /\ live' = live /\ size' = size
    BY <1>9 DEF Erased
  <2>2. queue' = queue \/ (queue[p] # <<>> /\ queue' = [queue EXCEPT ![p] = Tail(@)])
    <3>1. rest = queue[p] => queue' = queue
      BY <2>1 DEF IInv, TypeOK
    <3>2. QED
      BY <1>2, <2>1, <3>1
  <2>3. told' = {x \in told : Alive(x)'}
    <3>1. \A x \in told : x \in Reader /\ Alive(x)
      BY <1>1 DEF IInv, Readers, ToldIsGone
    <3>2. \A x \in told : Alive(x)' <=> x # r
      BY <1>5, <3>1 DEF Alive
    <3>3. QED
      BY <2>1, <3>2
  <2>4. Holds(p, d) => size[d] = Cardinality(rs)
    <3> SUFFICES ASSUME Holds(p, d) PROVE size[d] = Cardinality(rs)
      OBVIOUS
    <3>1. d \in live
      BY DEF IInv, Owners, OwnedIsLive, Owns
    <3>2. r \notin readers[d]
      BY <1>3, <1>9, <3>1 DEF Holds
    <3>3. rs = readers[d]
      BY <3>2
    <3>4. QED
      BY <3>3 DEF IInv, Readers, Counted
  <2> HIDE DEF rs
  <2>5. size'[d] = IF Holds(p, d) THEN Cardinality(rs) ELSE size[d]
    BY <2>1, <2>4
  <2>6. Shrinks(p, d, rs)
    BY <1>1, <1>7, <2>1, <2>2, <2>3, <2>5 DEF Shrinks
  <2>7. QED
    BY <1>1, <2>1, <2>6 DEF rs
<1>10. QED
  BY <1>8, <1>9

(* A released reader waits until its task is taken.                        *)
LEMMA ShrinksDeallocs ==
  ASSUME IInv, NEW p \in Poller, NEW d \in Dispatcher, NEW rs, Shrinks(p, d, rs),
         \A x \in Reader : state[x] = "dead" =>
           \/ state'[x] = "dead" /\ home'[x] = home[x]
           \/ /\ queue[p] # <<>> /\ queue'[p] = Tail(queue[p])
              /\ Head(queue[p]).op = "dealloc" /\ Head(queue[p]).arg = x
  PROVE  Deallocs'
<1>1. SUFFICES ASSUME NEW q \in Poller, NEW k \in DOMAIN queue'[q], queue'[q][k].op = "dealloc"
               PROVE  /\ state'[queue'[q][k].arg] = "dead"
                      /\ home'[queue'[q][k].arg] = [poller |-> q, disp |-> queue'[q][k].disp]
                      /\ \A l \in DOMAIN queue'[q] :
                           queue'[q][l].op = "dealloc" /\ queue'[q][l].arg = queue'[q][k].arg
                             => k = l
  BY DEF Deallocs
<1> DEFINE x == queue'[q][k].arg
<1>2. queue[q] \in Seq(Task)
  BY DEF IInv, TypeOK
<1>3. queue'[q] = queue[q] \/ (q = p /\ queue[q] # <<>> /\ queue'[q] = Tail(queue[q]))
  BY DEF Shrinks, IInv, TypeOK
<1>4. PICK i \in {0, 1} :
        /\ i = 0 => queue'[q] = queue[q]
        /\ i = 1 => q = p /\ queue[q] # <<>> /\ queue'[q] = Tail(queue[q])
        /\ \A l \in DOMAIN queue'[q] :
             l \in Nat \ {0} /\ l + i \in DOMAIN queue[q] /\ queue'[q][l] = queue[q][l + i]
  <2>1. CASE queue'[q] = queue[q]
    <3>1. \A l \in DOMAIN queue[q] : l \in Nat \ {0} /\ l + 0 = l
      BY <1>2
    <3>2. QED
      BY <2>1, <3>1
  <2>2. CASE queue'[q] # queue[q]
    <3>1. q = p /\ queue[q] # <<>> /\ queue'[q] = Tail(queue[q])
      BY <1>3, <2>2
    <3>2. /\ Len(queue[q]) \in Nat \ {0} /\ DOMAIN queue[q] = 1..Len(queue[q])
          /\ DOMAIN queue'[q] = 1..Len(queue[q]) - 1
          /\ \A l \in 1..Len(queue[q]) - 1 : queue'[q][l] = queue[q][l + 1]
      BY <1>2, <3>1, Popped
    <3>3. \A l \in DOMAIN queue'[q] :
            l \in Nat \ {0} /\ l + 1 \in DOMAIN queue[q] /\ queue'[q][l] = queue[q][l + 1]
      BY <3>2
    <3>4. QED
      BY <3>1, <3>3
  <2>3. QED
    BY <2>1, <2>2
<1>5. k + i \in DOMAIN queue[q] /\ queue[q][k + i] = queue'[q][k] /\ k \in Nat \ {0}
  BY <1>4
<1>6. x \in Reader
  <2>1. queue[q][k + i] \in Task
    BY <1>2, <1>5
  <2>2. QED
    BY <1>1, <1>5, <2>1 DEF Task
<1>7. /\ state[x] = "dead" /\ home[x] = [poller |-> q, disp |-> queue'[q][k].disp]
      /\ \A l \in DOMAIN queue[q] : queue[q][l].op = "dealloc" /\ queue[q][l].arg = x => k + i = l
  BY <1>1, <1>5 DEF IInv, Readers, Deallocs
<1>8. state'[x] = "dead" /\ home'[x] = home[x]
  <2> SUFFICES ASSUME queue[p] # <<>>, queue'[p] = Tail(queue[p]),
                      Head(queue[p]).op = "dealloc", Head(queue[p]).arg = x
               PROVE  FALSE
    BY <1>6, <1>7
  <2>1. queue[p] \in Seq(Task)
    BY DEF IInv, TypeOK
  <2>2. 1 \in DOMAIN queue[p] /\ queue[p][1] = Head(queue[p]) /\ queue'[p] # queue[p]
    <3>1. /\ Len(queue[p]) \in Nat \ {0} /\ DOMAIN queue[p] = 1..Len(queue[p])
          /\ Head(queue[p]) = queue[p][1] /\ Len(queue'[p]) = Len(queue[p]) - 1
      BY <2>1, Popped
    <3>2. queue'[p] # queue[p]
      <4>1. \A m \in Nat \ {0} : m - 1 # m
        OBVIOUS
      <4>2. Len(queue'[p]) # Len(queue[p])
        BY <3>1, <4>1
      <4>3. QED
        BY ONLY <4>2
    <3>3. 1 \in DOMAIN queue[p]
      BY <3>1
    <3>4. QED
      BY <3>1, <3>2, <3>3
  <2>3. home[x].poller = p
    <3>1. queue[p][1].op = "dealloc" /\ queue[p][1].arg = x
      BY <2>2
    <3>2. home[x] = [poller |-> p, disp |-> queue[p][1].disp]
      BY <2>2, <3>1 DEF IInv, Readers, Deallocs
    <3>3. QED
      BY <3>2
  <2>4. q = p
    BY <1>7, <2>3
  <2>5. k + i = 1
    BY <1>7, <2>2, <2>4
  <2>6. i = 1
    BY <1>4, <2>2, <2>4
  <2>7. QED
    BY <1>5, <2>5, <2>6
<1>9. \A l \in DOMAIN queue'[q] :
        queue'[q][l].op = "dealloc" /\ queue'[q][l].arg = x => k = l
  <2> SUFFICES ASSUME NEW l \in DOMAIN queue'[q], queue'[q][l].op = "dealloc",
                      queue'[q][l].arg = x
               PROVE  k = l
    OBVIOUS
  <2>1. l + i \in DOMAIN queue[q] /\ queue[q][l + i] = queue'[q][l] /\ l \in Nat \ {0}
    BY <1>4
  <2>2. k + i = l + i
    BY <1>7, <2>1
  <2>3. QED
    BY <1>5, <2>1, <2>2
<1>10. QED
  BY <1>7, <1>8, <1>9

LEMMA GoneInv ==
  ASSUME IInv, NEW r \in Reader, NEW p \in Poller, NEW d \in Dispatcher,
         home[r] = [poller |-> p, disp |-> d], NEW rest,
         Forget(r, "free"), Erased(p, d, r, rest), UNCHANGED <<source, closed, store, handled>>,
         \/ Alive(r) /\ rest = queue[p]
         \/ /\ queue[p] # <<>> /\ rest = Tail(queue[p])
            /\ Head(queue[p]).op = "dealloc" /\ Head(queue[p]).arg = r
  PROVE  IInv'
<1> DEFINE rs == readers[d] \ {r}
<1>1. /\ Shrinks(p, d, rs) /\ queue' = [queue EXCEPT ![p] = rest]
      /\ size' \in [Dispatcher -> Nat] /\ map' \in [Poller -> Dispatcher \cup {NULL}]
  BY GoneShrinks
<1> HIDE DEF rs
<1>2. /\ UNCHANGED <<n, keys, storage, closed, store, handled>> /\ n \in Nat
      /\ queue[p] \in Seq(Task) /\ queue'[p] = rest
      /\ \A e \in Dispatcher : handled[e] \in Nat
  BY <1>1, SizeAssumption DEF source, IInv, TypeOK
<1>3. /\ \A x \in Reader : /\ state'[x] = IF x = r THEN "free" ELSE state[x]
                           /\ home'[x] = IF x = r THEN NULL ELSE home[x]
                           /\ got'[x] = IF x = r THEN <<>> ELSE got[x]
                           /\ from'[x] = IF x = r THEN 0 ELSE from[x]
      /\ state' \in [Reader -> {"free", "held", "ready", "dead"}]
      /\ home' \in [Reader -> [poller : Poller, disp : Dispatcher] \cup {NULL}]
      /\ cached' \in [Reader -> BOOLEAN]
  BY DEF Forget, IInv, TypeOK
<1>4. rest = queue[p] \/ (queue[p] # <<>> /\ rest = Tail(queue[p])
                            /\ \A e : ~IsWrite(e, Head(queue[p])))
  BY DEF IsWrite
<1>5. TypeOK'
  <2>1. rest \in Seq(Task)
    BY <1>2, <1>4, Popped
  <2>2. queue' \in [Poller -> Seq(Task)]
    BY <1>1, <2>1 DEF IInv, TypeOK
  <2>3. got' \in [Reader -> Seq(1..n)] /\ from' \in [Reader -> 0..n]
    <3>1. <<>> \in Seq(1..n) /\ 0 \in 0..n
      BY <1>2
    <3>2. got' = [got EXCEPT ![r] = <<>>] /\ from' = [from EXCEPT ![r] = 0]
      BY DEF Forget
    <3>3. QED
      BY <3>1, <3>2 DEF IInv, TypeOK
  <2>4. live' \subseteq Dispatcher /\ told' \subseteq Reader
    <3>1. rs \subseteq Reader /\ live \subseteq Dispatcher /\ told \subseteq Reader
      BY DEF IInv, TypeOK, rs
    <3>2. QED
      BY <1>1, <3>1 DEF Shrinks
  <2>5. readers' \in [Dispatcher -> SUBSET Reader]
    <3>1. rs \in SUBSET Reader /\ {} \in SUBSET Reader /\ readers \in [Dispatcher -> SUBSET Reader]
      BY DEF IInv, TypeOK, rs
    <3>2. readers' = [readers EXCEPT ![d] = rs] \/ readers' = [readers EXCEPT ![d] = {}]
      BY <1>1 DEF Shrinks
    <3>3. QED
      BY ONLY <3>1, <3>2
  <2>6. QED
    BY <1>1, <1>2, <1>3, <2>2, <2>3, <2>4, <2>5 DEF IInv, TypeOK
<1>6. Owners'
  BY <1>1, ShrinksOwners
<1>7. Readers'
  <2>1. \A x \in Reader : state[x] = "dead" =>
           \/ state'[x] = "dead" /\ home'[x] = home[x]
           \/ /\ queue[p] # <<>> /\ queue'[p] = Tail(queue[p])
              /\ Head(queue[p]).op = "dealloc" /\ Head(queue[p]).arg = x
    BY <1>2, <1>3 DEF Alive
  <2>2. Deallocs'
    BY <1>1, <2>1, ShrinksDeallocs
  <2>3. QED
    BY <1>1, <2>2, ShrinksReaders DEF Readers
<1>8. Items'
  <2>1. Streams'
    <3>1. \A e \in Dispatcher :
            /\ Chain(e, handled'[e], n, queue'[p])
            /\ Reaches(e, handled[e], n, queue[p]) => Reaches(e, handled'[e], n, queue'[p])
      <4> SUFFICES ASSUME NEW e \in Dispatcher
                   PROVE  /\ Chain(e, handled[e], n, rest)
                          /\ Reaches(e, handled[e], n, queue[p]) => Reaches(e, handled[e], n, rest)
        BY <1>2
      <4>1. Chain(e, handled[e], n, queue[p])
        BY DEF IInv, Items, Streams
      <4>2. CASE rest = queue[p]
        BY <4>1, <4>2
      <4>3. CASE rest # queue[p]
        <5>1. queue[p] # <<>> /\ rest = Tail(queue[p]) /\ ~IsWrite(e, Head(queue[p]))
          BY <1>4, <4>3
        <5>2. QED
          BY <1>2, <4>1, <5>1, ChainPoppedOther
      <4>4. QED
        BY <4>2, <4>3
    <3>2. QED
      BY <1>1, <3>1, ShrinksStreams
  <2>2. Position' /\ InOrder'
    BY <1>2, <1>3 DEF IInv, Items, Position, InOrder, Ready
  <2>3. QED
    BY <1>2, <2>1, <2>2 DEF IInv, Items
<1>9. QED
  BY <1>5, <1>6, <1>7, <1>8 DEF IInv

LEMMA DropHereInv ==
  ASSUME IInv, NEW r \in Reader, DropHere(r)
  PROVE  IInv'
<1>1. home[r] # NULL
  BY DEF DropHere, IInv, Readers, FreeIsNull, Alive
<1>2. /\ home[r].poller \in Poller /\ home[r].disp \in Dispatcher
      /\ home[r] = [poller |-> home[r].poller, disp |-> home[r].disp]
  BY <1>1 DEF IInv, TypeOK
<1>3. QED
  BY <1>2, GoneInv DEF DropHere

LEMMA RunDeallocInv ==
  ASSUME IInv, NEW p \in Poller, RunDealloc(p)
  PROVE  IInv'
<1> DEFINE r == Head(queue[p]).arg
           d == Head(queue[p]).disp
<1>1. queue[p] \in Seq(Task) /\ queue[p] # <<>> /\ Head(queue[p]).op = "dealloc"
  BY DEF RunDealloc, IsTask, IInv, TypeOK
<1>2. Head(queue[p]) \in Task /\ Head(queue[p]) = queue[p][1] /\ 1 \in DOMAIN queue[p]
  BY <1>1, Popped
<1>3. r \in Reader /\ d \in Dispatcher
  BY <1>1, <1>2 DEF Task
<1>4. home[r] = [poller |-> p, disp |-> d]
  BY <1>1, <1>2 DEF IInv, Readers, Deallocs
<1>5. QED
  BY <1>1, <1>3, <1>4, GoneInv DEF RunDealloc

(* The deletion of a dispatcher, after its last write.                     *)
LEMMA DeleteShrinks ==
  ASSUME IInv, NEW p \in Poller, RunDelete(p), NEW d \in Dispatcher, d = Head(queue[p]).disp
  PROVE  /\ Shrinks(p, d, readers[d])
         /\ queue[p] \in Seq(Task) /\ queue[p] # <<>> /\ queue' = [queue EXCEPT ![p] = Tail(queue[p])]
         /\ \A e : ~IsWrite(e, Head(queue[p]))
         /\ readers' = [readers EXCEPT ![d] = {}] /\ size' = [size EXCEPT ![d] = 0]
         /\ live' = live \ {d} /\ told' = {x \in told \cup readers[d] : Alive(x)'}
         /\ readers[d] = {} \/ (closed /\ handled[d] = n)
<1>1. /\ queue[p] \in Seq(Task) /\ queue[p] # <<>> /\ Head(queue[p]).op = "delete"
      /\ queue' = [queue EXCEPT ![p] = Tail(queue[p])]
      /\ UNCHANGED <<n, keys, storage, map, closed, store, handled, state, home, cached, got, from>>
  BY DEF RunDelete, IsTask, source, IInv, TypeOK
<1>2. /\ readers' = [readers EXCEPT ![d] = {}] /\ size' = [size EXCEPT ![d] = 0]
      /\ live' = live \ {d}
      /\ told' = {x \in told \cup readers[d] : Alive(x)'}
  BY DEF RunDelete, Destroy, Alive
<1>3. queue'[p] = Tail(queue[p]) /\ \A e : ~IsWrite(e, Head(queue[p]))
  BY <1>1 DEF IsWrite, IInv, TypeOK
<1>4. /\ Len(queue[p]) \in Nat \ {0} /\ DOMAIN queue[p] = 1..Len(queue[p])
      /\ Head(queue[p]) = queue[p][1] /\ 1 \in DOMAIN queue[p]
      /\ DOMAIN Tail(queue[p]) = 1..Len(queue[p]) - 1
      /\ \A k \in 1..Len(queue[p]) - 1 : Tail(queue[p])[k] = queue[p][k + 1]
  BY <1>1, Popped
<1>5. HasDelete(d, queue[p])
  BY <1>1, <1>4 DEF HasDelete
<1>6. closed /\ ~Holds(p, d) /\ Owns(p, d) /\ d \in live /\ \A q \in Poller : Owns(q, d) => q = p
  BY <1>5 DEF IInv, Owners, DeletedLast, OwnedIsLive, OneOwner, Owns
<1>7. ~HasDelete(d, Tail(queue[p]))
  <2> SUFFICES ASSUME NEW k \in DOMAIN Tail(queue[p]), Tail(queue[p])[k].op = "delete",
                      Tail(queue[p])[k].disp = d
               PROVE  FALSE
    BY DEF HasDelete
  <2>1. /\ k + 1 \in DOMAIN queue[p] /\ queue[p][k + 1] = Tail(queue[p])[k]
        /\ k + 1 # 1 /\ queue[p][1].op = "delete" /\ queue[p][1].disp = d
    BY <1>1, <1>4
  <2>2. k + 1 = 1
    BY <1>4, <2>1 DEF IInv, Owners, DeletedOnce
  <2>3. QED
    BY <2>1, <2>2
<1>8. ~HasWrite(d, queue[p]) /\ map[p] # d /\ ~HasWrite(d, Tail(queue[p]))
  BY <1>1, <1>6, PoppedTask DEF Holds
<1>9. ~Owns(p, d)'
  BY <1>1, <1>3, <1>7, <1>8 DEF Owns, Holds
<1>10. readers[d] = {} \/ (closed /\ handled[d] = n)
  <2>1. handled[d] \in Nat /\ n \in Nat /\ handled[d] <= n
    BY SizeAssumption DEF IInv, TypeOK
  <2>2. readers[d] # {} => Reaches(d, handled[d], n, queue[p])
    BY <1>6 DEF IInv, Items, Streams
  <2>3. QED
    BY <1>6, <1>8, <2>1, <2>2, ReachesEmpty
<1>11. /\ \A e \in Dispatcher : e # d => size'[e] = size[e] /\ handled'[e] = handled[e]
       /\ size'[d] = 0 /\ handled'[d] = handled[d]
       /\ \A x \in Reader : home'[x] = home[x] /\ (state'[x] = "free" <=> state[x] = "free")
                              /\ (Alive(x)' <=> Alive(x))
  BY <1>1, <1>2 DEF IInv, TypeOK, Alive
<1>12. Shrinks(p, d, readers[d])
  BY <1>1, <1>2, <1>6, <1>9, <1>10, <1>11 DEF Shrinks
<1>13. QED
  BY <1>1, <1>2, <1>3, <1>10, <1>12

LEMMA RunDeleteInv ==
  ASSUME IInv, NEW p \in Poller, RunDelete(p)
  PROVE  IInv'
<1>0. Head(queue[p]).disp \in Dispatcher
  <2>1. Head(queue[p]) \in Task
    BY Popped DEF RunDelete, IsTask, IInv, TypeOK
  <2>2. QED
    BY <2>1 DEF Task
<1> SUFFICES ASSUME NEW d \in Dispatcher, d = Head(queue[p]).disp
             PROVE  IInv'
  BY <1>0
<1>2. /\ Shrinks(p, d, readers[d])
      /\ queue[p] \in Seq(Task) /\ queue[p] # <<>> /\ queue' = [queue EXCEPT ![p] = Tail(queue[p])]
      /\ \A e : ~IsWrite(e, Head(queue[p]))
      /\ readers' = [readers EXCEPT ![d] = {}] /\ size' = [size EXCEPT ![d] = 0]
      /\ live' = live \ {d} /\ told' = {x \in told \cup readers[d] : Alive(x)'}
  BY DeleteShrinks
<1>3. /\ UNCHANGED <<n, keys, storage, map, closed, store, handled, state, home, cached, got, from>>
      /\ queue'[p] = Tail(queue[p])
      /\ n \in Nat /\ \A e \in Dispatcher : handled[e] \in Nat
  BY <1>2, SizeAssumption DEF RunDelete, source, IInv, TypeOK
<1>4. TypeOK'
  <2>1. Tail(queue[p]) \in Seq(Task)
    BY <1>2, Popped
  <2>2. queue' \in [Poller -> Seq(Task)]
    BY <1>2, <2>1 DEF IInv, TypeOK
  <2>3. readers' \in [Dispatcher -> SUBSET Reader] /\ size' \in [Dispatcher -> Nat]
    BY <1>2 DEF IInv, TypeOK
  <2>4. live' \subseteq Dispatcher /\ told' \subseteq Reader
    <3>1. readers[d] \subseteq Reader /\ live \subseteq Dispatcher /\ told \subseteq Reader
      BY DEF IInv, TypeOK
    <3>2. QED
      BY <1>2, <3>1
  <2>5. QED
    BY <1>3, <2>2, <2>3, <2>4 DEF IInv, TypeOK
<1>5. Owners'
  BY <1>2, ShrinksOwners
<1>6. Readers'
  <2>1. Deallocs'
    BY <1>2, <1>3, ShrinksDeallocs
  <2>2. QED
    BY <1>2, <2>1, ShrinksReaders DEF Readers
<1>7. Items'
  <2>1. Streams'
    <3>1. \A e \in Dispatcher :
            /\ Chain(e, handled'[e], n, queue'[p])
            /\ Reaches(e, handled[e], n, queue[p]) => Reaches(e, handled'[e], n, queue'[p])
      <4> SUFFICES ASSUME NEW e \in Dispatcher
                   PROVE  /\ Chain(e, handled[e], n, Tail(queue[p]))
                          /\ Reaches(e, handled[e], n, queue[p])
                               => Reaches(e, handled[e], n, Tail(queue[p]))
        BY <1>3
      <4>1. Chain(e, handled[e], n, queue[p]) /\ ~IsWrite(e, Head(queue[p]))
        BY <1>2 DEF IInv, Items, Streams
      <4>2. QED
        BY <1>2, <1>3, <4>1, ChainPoppedOther
    <3>2. QED
      BY <1>2, <3>1, ShrinksStreams
  <2>2. Position' /\ InOrder'
    BY <1>3 DEF IInv, Items, Position, InOrder, Ready
  <2>3. QED
    BY <1>3, <2>1, <2>2 DEF IInv, Items
<1>8. QED
  BY <1>4, <1>5, <1>6, <1>7 DEF IInv

(* A write: the item is the next one, and those who get it are the readers *)
(* of the dispatcher that are alive.                                       *)
Writes(p, d, i, rs) ==
  /\ RunWrite(p) /\ d = Head(queue[p]).disp /\ i = Head(queue[p]).arg
  /\ rs = {x \in readers[d] : Alive(x)}

LEMMA WriteShrinks ==
  ASSUME IInv, NEW p \in Poller, NEW d \in Dispatcher, NEW i, NEW rs, Writes(p, d, i, rs)
  PROVE  /\ Shrinks(p, d, rs)
         /\ queue[p] \in Seq(Task) /\ queue[p] # <<>> /\ queue' = [queue EXCEPT ![p] = Tail(queue[p])]
         /\ IsWrite(d, Head(queue[p])) /\ \A e \in Dispatcher \ {d} : ~IsWrite(e, Head(queue[p]))
         /\ size' \in [Dispatcher -> Nat] /\ map' \in [Poller -> Dispatcher \cup {NULL}]
         /\ handled' = [handled EXCEPT ![d] = i] /\ handled'[d] = i
         /\ i = handled[d] + 1 /\ i \in 1..n /\ d \in live
         /\ \A x \in Reader :
              got'[x] = IF x \in rs /\ state[x] = "ready" THEN Append(got[x], i) ELSE got[x]
<1>0. /\ RunWrite(p) /\ d = Head(queue[p]).disp /\ i = Head(queue[p]).arg
      /\ rs = {x \in readers[d] : Alive(x)}
  BY DEF Writes
<1>1. /\ queue[p] \in Seq(Task) /\ queue[p] # <<>> /\ Head(queue[p]).op = "write"
      /\ LeftWith(p, d, rs, Tail(queue[p]))
      /\ UNCHANGED <<n, keys, storage, closed, state, home, cached, from>>
      /\ handled' = [handled EXCEPT ![d] = i] /\ handled'[d] = i
      /\ \A x \in Reader :
           got'[x] = IF x \in rs /\ state[x] = "ready" THEN Append(got[x], i) ELSE got[x]
  BY <1>0 DEF RunWrite, IsTask, source, IInv, TypeOK
<1>2. IsWrite(d, Head(queue[p])) /\ \A e \in Dispatcher \ {d} : ~IsWrite(e, Head(queue[p]))
  BY <1>0, <1>1 DEF IsWrite
<1>3. n \in Nat /\ handled[d] \in Nat /\ handled \in [Dispatcher -> 0..n]
  BY SizeAssumption DEF IInv, TypeOK
<1>4. Chain(d, handled[d], n, queue[p])
  BY DEF IInv, Items, Streams
<1>5. /\ i = handled[d] + 1 /\ i <= n
      /\ Reaches(d, handled[d], n, queue[p]) => Reaches(d, handled[d] + 1, n, Tail(queue[p]))
  BY <1>0, <1>1, <1>2, <1>3, <1>4, ChainPopped
<1>6. i \in 1..n /\ handled'[d] \in 0..n
  BY <1>1, <1>3, <1>5
<1>7. Holds(p, d) /\ ~HasDelete(d, Tail(queue[p]))
  <2>1. HasWrite(d, queue[p]) /\ (HasDelete(d, Tail(queue[p])) => HasDelete(d, queue[p]))
    BY <1>1, <1>2, PoppedTask
  <2>2. QED
    BY <2>1 DEF IInv, Owners, DeletedLast, Holds
<1>8. d \in live /\ \A q \in Poller : Owns(q, d) => q = p
  BY <1>7 DEF IInv, Owners, OwnedIsLive, OneOwner, Owns
<1>9. rs \subseteq readers[d]
  BY <1>0
<1>10. Reaches(d, handled[d], n, queue[p]) => Reaches(d, handled'[d], n, Tail(queue[p]))
  BY <1>1, <1>5
<1>11. /\ queue' = [queue EXCEPT ![p] = Tail(queue[p])]
       /\ map' = map \/ (map[p] = d /\ rs = {} /\ map' = [map EXCEPT ![p] = NULL])
       /\ \A e \in Dispatcher : e # d => size'[e] = size[e]
       /\ size' \in [Dispatcher -> Nat] /\ map' \in [Poller -> Dispatcher \cup {NULL}]
       /\ \/ /\ live' = live
             /\ readers' = [readers EXCEPT ![d] = rs]
             /\ size'[d] = Cardinality(rs)
             /\ told' = {x \in told : Alive(x)'}
          \/ /\ ~Owns(p, d)'
             /\ rs = {} \/ (closed /\ handled'[d] = n)
             /\ live' = live \ {d}
             /\ readers' = [readers EXCEPT ![d] = {}]
             /\ size'[d] = 0
             /\ told' = {x \in told \cup rs : Alive(x)'}
  <2> DEFINE rest == Tail(queue[p])
  <2>1. /\ IInv /\ p \in Poller /\ d \in Dispatcher /\ rs \subseteq readers[d]
        /\ Holds(p, d) /\ LeftWith(p, d, rs, rest) /\ ~HasDelete(d, rest)
        /\ handled'[d] \in 0..n
        /\ Reaches(d, handled[d], n, queue[p]) => Reaches(d, handled'[d], n, rest)
        /\ rest = Tail(queue[p])
    BY <1>1, <1>6, <1>7, <1>9, <1>10
  <2> HIDE DEF rest
  <2>2. queue' = [queue EXCEPT ![p] = rest]
    BY <2>1 DEF LeftWith
  <2>3. QED
    BY ONLY <2>1, <2>2, LeftFacts
<1>12. /\ \A e \in Dispatcher : e # d => handled'[e] = handled[e]
       /\ \A x \in Reader : home'[x] = home[x] /\ (state'[x] = "free" <=> state[x] = "free")
                              /\ (Alive(x)' <=> Alive(x))
       /\ \A x \in readers[d] \ rs : ~Alive(x)'
  BY <1>0, <1>1, <1>3 DEF Alive
<1>13. Shrinks(p, d, rs)
  BY <1>1, <1>7, <1>8, <1>9, <1>11, <1>12 DEF Shrinks
<1>14. QED
  BY <1>1, <1>2, <1>5, <1>6, <1>8, <1>11, <1>13

(* Who has got all before the item has got it all after it.                *)
LEMMA WrittenTo ==
  ASSUME IInv, NEW d \in Dispatcher, d \in live, NEW x \in Reader, Ready(x)
  PROVE  home[x] # NULL /\ home[x].disp \in Dispatcher
           /\ (home[x].disp = d <=> x \in readers[d]) /\ (x \in readers[d] => x \notin told)
<1>1. Alive(x) /\ home[x] # NULL
  BY DEF Ready, Alive, IInv, Readers, FreeIsNull
<1>2. home[x].disp \in Dispatcher
  BY <1>1, HomeTyped DEF IInv
<1>3. x \in readers[d] => home[x].disp = d
  BY DEF IInv, Readers, Listed
<1>4. home[x].disp = d => x \notin told
  BY DEF IInv, Readers, ToldIsGone
<1>5. home[x].disp = d => x \in readers[d]
  BY <1>1, <1>4 DEF IInv, Readers, Served
<1>6. QED
  BY <1>1, <1>2, <1>3, <1>4, <1>5

LEMMA RunWriteInv ==
  ASSUME IInv, NEW p \in Poller, RunWrite(p)
  PROVE  IInv'
<1>0. Head(queue[p]).disp \in Dispatcher
  <2>1. Head(queue[p]) \in Task
    BY Popped DEF RunWrite, IsTask, IInv, TypeOK
  <2>2. QED
    BY <2>1 DEF Task
<1> SUFFICES ASSUME NEW d \in Dispatcher, NEW i, NEW rs, Writes(p, d, i, rs)
             PROVE  IInv'
  BY <1>0 DEF Writes
<1>1. d \in Dispatcher
  OBVIOUS
<1>2. /\ store' = [store EXCEPT ![d] = Stored(store[d], i, i \in keys)]
      /\ UNCHANGED <<n, keys, storage, closed, state, home, cached, from>>
      /\ got' = [x \in Reader |->
                   IF x \in rs /\ state[x] = "ready" THEN Append(got[x], i) ELSE got[x]]
  BY DEF Writes, RunWrite, source
<1>3. /\ Shrinks(p, d, rs)
      /\ queue[p] \in Seq(Task) /\ queue[p] # <<>> /\ queue' = [queue EXCEPT ![p] = Tail(queue[p])]
      /\ IsWrite(d, Head(queue[p])) /\ \A e \in Dispatcher \ {d} : ~IsWrite(e, Head(queue[p]))
      /\ size' \in [Dispatcher -> Nat] /\ map' \in [Poller -> Dispatcher \cup {NULL}]
      /\ handled' = [handled EXCEPT ![d] = i] /\ handled'[d] = i
      /\ i = handled[d] + 1 /\ i \in 1..n /\ d \in live
      /\ \A x \in Reader :
           got'[x] = IF x \in rs /\ state[x] = "ready" THEN Append(got[x], i) ELSE got[x]
  BY WriteShrinks
<1>4. /\ n \in Nat /\ \A e \in Dispatcher : handled[e] \in Nat
      /\ handled \in [Dispatcher -> 0..n] /\ store \in [Dispatcher -> Seq(1..n)]
      /\ got \in [Reader -> Seq(1..n)] /\ from \in [Reader -> 0..n]
      /\ rs \subseteq Reader /\ rs \subseteq readers[d]
  BY <1>1, SizeAssumption DEF Writes, IInv, TypeOK
<1>5. queue'[p] = Tail(queue[p]) /\ \A e \in Dispatcher \ {d} : handled'[e] = handled[e]
  BY <1>3, <1>4 DEF IInv, TypeOK
<1>6. /\ Stored(store[d], i, i \in keys) \in Seq(1..n)
      /\ EndsAt(Stored(store[d], i, i \in keys), i)
  <2>1. store[d] \in Seq(1..n) /\ handled[d] \in 0..n /\ EndsAt(store[d], handled[d])
    BY <1>1, <1>4 DEF IInv, Items
  <2>2. (i \in keys) \in BOOLEAN /\ n \in Nat /\ i \in 1..n /\ i = handled[d] + 1
    BY <1>3, <1>4
  <2>3. QED
    BY ONLY <2>1, <2>2, StoredEnds
<1>7. TypeOK'
  <2>1. Tail(queue[p]) \in Seq(Task)
    BY <1>3, Popped
  <2>2. queue' \in [Poller -> Seq(Task)]
    BY <1>3, <2>1 DEF IInv, TypeOK
  <2>3. store' \in [Dispatcher -> Seq(1..n)]
    BY <1>2, <1>4, <1>6
  <2>4. got' \in [Reader -> Seq(1..n)]
    <3>1. \A x \in Reader : Append(got[x], i) \in Seq(1..n)
      BY <1>3, <1>4
    <3>2. QED
      BY <1>2, <1>4, <3>1
  <2>5. handled' \in [Dispatcher -> 0..n]
    <3>1. i \in 0..n
      BY <1>3
    <3>2. QED
      BY <1>3, <1>4, <3>1
  <2>6. live' \subseteq Dispatcher /\ told' \subseteq Reader
    <3>1. live \subseteq Dispatcher /\ told \subseteq Reader
      BY DEF IInv, TypeOK
    <3>2. QED
      BY <1>3, <1>4, <3>1 DEF Shrinks
  <2>7. readers' \in [Dispatcher -> SUBSET Reader]
    <3>1. rs \in SUBSET Reader /\ {} \in SUBSET Reader /\ readers \in [Dispatcher -> SUBSET Reader]
      BY <1>4 DEF IInv, TypeOK
    <3>2. readers' = [readers EXCEPT ![d] = rs] \/ readers' = [readers EXCEPT ![d] = {}]
      BY <1>3 DEF Shrinks
    <3>3. QED
      BY ONLY <3>1, <3>2
  <2>8. QED
    BY <1>2, <1>3, <2>2, <2>3, <2>4, <2>5, <2>6, <2>7 DEF IInv, TypeOK
<1>8. Owners'
  BY <1>1, <1>3, ShrinksOwners
<1>9. Readers'
  <2>1. Deallocs'
    BY <1>1, <1>2, <1>3, ShrinksDeallocs
  <2>2. QED
    BY <1>1, <1>3, <2>1, ShrinksReaders DEF Readers
<1>10. Items'
  <2>1. Streams'
    <3>1. \A e \in Dispatcher :
            /\ Chain(e, handled'[e], n, queue'[p])
            /\ Reaches(e, handled[e], n, queue[p]) => Reaches(e, handled'[e], n, queue'[p])
      <4> SUFFICES ASSUME NEW e \in Dispatcher
                   PROVE  /\ Chain(e, handled'[e], n, Tail(queue[p]))
                          /\ Reaches(e, handled[e], n, queue[p])
                               => Reaches(e, handled'[e], n, Tail(queue[p]))
        BY <1>5
      <4>1. Chain(e, handled[e], n, queue[p])
        BY DEF IInv, Items, Streams
      <4>2. CASE e = d
        <5>1. handled'[e] = handled[e] + 1 /\ IsWrite(e, Head(queue[p])) /\ handled[e] \in Nat
          BY <1>3, <1>4, <4>2
        <5>2. QED
          BY <1>3, <1>4, <4>1, <5>1, ChainPopped
      <4>3. CASE e # d
        <5>1. handled'[e] = handled[e] /\ ~IsWrite(e, Head(queue[p])) /\ handled[e] \in Nat
          BY <1>3, <1>4, <1>5, <4>3
        <5>2. QED
          BY <1>3, <1>4, <4>1, <5>1, ChainPoppedOther
      <4>4. QED
        BY <4>2, <4>3
    <3>2. QED
      BY <1>1, <1>3, <3>1, ShrinksStreams
  <2>2. \A x \in Reader : Ready(x) =>
          /\ home[x] # NULL /\ home[x].disp \in Dispatcher
          /\ home[x].disp = d <=> x \in rs
    <3>1. \A x \in Reader : Ready(x) => Alive(x)
      BY DEF Ready, Alive
    <3>2. QED
      BY <1>3, <3>1, WrittenTo DEF Writes
  <2>3. \A x \in Reader : Ready(x) => from[x] + Len(got[x]) = handled[home[x].disp]
    BY DEF IInv, Items, Position
  <2>4. Position'
    <3> SUFFICES ASSUME NEW x \in Reader
                 PROVE  /\ Ready(x) => from[x] + Len(got'[x]) = handled'[home[x].disp]
                        /\ ~Ready(x) => got'[x] = <<>> /\ from[x] = 0
      BY <1>2 DEF Position, Ready
    <3>1. ~Ready(x) => got'[x] = <<>> /\ from[x] = 0
      BY <1>3 DEF IInv, Items, Position, Ready
    <3>2. CASE Ready(x) /\ x \in rs
      <4>1. got'[x] = Append(got[x], i) /\ got[x] \in Seq(1..n) /\ i \in 1..n
        BY <1>3, <1>4, <3>2 DEF Ready
      <4>2. Len(got'[x]) = Len(got[x]) + 1 /\ Len(got[x]) \in Nat /\ from[x] \in Nat
        BY <1>4, <4>1, Pushed
      <4>3. from[x] + Len(got[x]) = handled[d] /\ home[x].disp = d
        BY <2>2, <2>3, <3>2
      <4>4. from[x] + Len(got'[x]) = i
        BY <1>1, <1>3, <1>4, <4>2, <4>3
      <4>5. QED
        BY <1>3, <3>2, <4>3, <4>4
    <3>3. CASE Ready(x) /\ x \notin rs
      <4>1. got'[x] = got[x] /\ handled'[home[x].disp] = handled[home[x].disp]
        BY <1>3, <1>5, <2>2, <3>3
      <4>2. QED
        BY <2>3, <3>3, <4>1
    <3>4. QED
      BY <3>1, <3>2, <3>3
  <2>5. InOrder'
    <3> SUFFICES ASSUME NEW x \in Reader, NEW k \in DOMAIN got'[x]
                 PROVE  got'[x][k] = from[x] + k
      BY <1>2 DEF InOrder
    <3>1. CASE x \in rs /\ state[x] = "ready"
      <4>1. got'[x] = Append(got[x], i) /\ got[x] \in Seq(1..n) /\ i \in 1..n
        BY <1>3, <1>4, <3>1
      <4>2. /\ Len(got[x]) \in Nat /\ DOMAIN got[x] = 1..Len(got[x])
            /\ DOMAIN got'[x] = 1..Len(got[x]) + 1
            /\ \A l \in 1..Len(got[x]) : got'[x][l] = got[x][l]
            /\ got'[x][Len(got[x]) + 1] = i
        BY <4>1, Pushed
      <4>3. from[x] + Len(got[x]) = handled[d] /\ from[x] \in Nat
        <5>1. Ready(x)
          BY <3>1 DEF Ready
        <5>2. home[x].disp = d
          BY <2>2, <3>1, <5>1
        <5>3. from[x] \in Nat
          BY <1>4
        <5>4. QED
          BY <2>3, <5>1, <5>2, <5>3
      <4>4. i = from[x] + (Len(got[x]) + 1)
        BY <1>3, <4>2, <4>3
      <4>5. \A l \in DOMAIN got[x] : got[x][l] = from[x] + l
        BY DEF IInv, Items, InOrder
      <4>6. QED
        BY <4>2, <4>4, <4>5
    <3>2. CASE ~(x \in rs /\ state[x] = "ready")
      BY <1>3, <3>2 DEF IInv, Items, InOrder
    <3>3. QED
      BY <3>1, <3>2
  <2>6. \A e \in Dispatcher : EndsAt(store'[e], handled'[e])
    <3>1. \A e \in Dispatcher \ {d} : store'[e] = store[e]
      BY <1>2, <1>4
    <3>2. store'[d] = Stored(store[d], i, i \in keys)
      BY <1>1, <1>2, <1>4
    <3>3. QED
      BY <1>3, <1>5, <1>6, <3>1, <3>2 DEF IInv, Items
  <2>7. QED
    BY <1>2, <2>1, <2>4, <2>5, <2>6 DEF IInv, Items
<1>11. QED
  BY <1>7, <1>8, <1>9, <1>10 DEF IInv

-----------------------------------------------------------------------------
(* The theorems                                                            *)

LEMMA StutterInv ==
  ASSUME IInv, UNCHANGED vars
  PROVE  IInv'
<1>1. /\ UNCHANGED <<n, keys, storage, map, closed, live, queue, store, readers, size, handled>>
      /\ UNCHANGED <<state, home, cached, got, from, told>>
  BY DEF vars, source, owners, fields, reader
<1>2. \A p \in Poller, d \in Dispatcher : (Holds(p, d)' <=> Holds(p, d)) /\ (Owns(p, d)' <=> Owns(p, d))
  BY <1>1 DEF Holds, Owns
<1>3. TypeOK'
  BY <1>1 DEF IInv, TypeOK
<1>4. Owners'
  BY <1>1, <1>2 DEF IInv, Owners, OwnedIsLive, OneOwner, HomeOwns, DeletedLast, DeletedOnce, ClosedMap,
                    Unmapped, DeadIsEmpty, Owns, Holds
<1>5. Readers'
  BY <1>1, <1>2 DEF IInv, Readers, Counted, FreeIsNull, Listed, ToldIsGone, Served, Deallocs, Alive
<1>6. Items'
  BY <1>1, <1>2 DEF IInv, Items, Streams, Position, InOrder, Ready
<1>7. QED
  BY <1>3, <1>4, <1>5, <1>6 DEF IInv

LEMMA NextInv == IInv /\ [Next]_vars => IInv'
<1> SUFFICES ASSUME IInv, [Next]_vars PROVE IInv'
  OBVIOUS
<1>1. CASE UNCHANGED vars
  BY <1>1, StutterInv
<1>2. ASSUME NEW isKey \in BOOLEAN, WriteItem(isKey) PROVE IInv'
  BY <1>2, WriteItemInv
<1>3. ASSUME NEW p \in Poller, AttachThrows(p) PROVE IInv'
  BY <1>3, AttachThrowsInv
<1>4. ASSUME NEW p \in Poller, Run(p) PROVE IInv'
  BY <1>4, RunWriteInv, RunDeallocInv, RunDeleteInv DEF Run
<1>5. ASSUME NEW p \in Poller, NEW r \in Reader, NEW useCache \in BOOLEAN, Attach(p, r, useCache)
      PROVE  IInv'
  BY <1>5, AttachInv
<1>6. ASSUME NEW r \in Reader, Listen(r) \/ DropHere(r) \/ Drop(r) PROVE IInv'
  BY <1>6, ListenInv, DropHereInv, DropInv
<1>7. ASSUME NEW q \in Poller \cup {NULL}, Close(q) PROVE IInv'
  BY <1>7, CloseInv
<1>8. QED
  BY <1>1, <1>2, <1>3, <1>4, <1>5, <1>6, <1>7 DEF Next

LEMMA Invariant == Spec => []IInv
<1>1. QED
  BY InitInv, NextInv, PTL DEF Spec

(* Every variable keeps its type: the items given and stored are items     *)
(* that were written, the tasks name dispatchers and readers, and a reader *)
(* count is never negative (RingBuffer.h:91-99, 178-187, 196-233).         *)
THEOREM TypeCorrect == Spec => []TypeOK
<1>1. IInv => TypeOK
  BY DEF IInv
<1>2. QED
  BY <1>1, Invariant, PTL

(* What a reader is given is one stretch of the stream, without a gap, a   *)
(* repetition or a swap, for any number of pollers, readers and items      *)
(* (RingBuffer.h:91-99, 196-209, 266-280).                                 *)
THEOREM StreamIsInOrder == Spec => []InOrder
<1>1. IInv => InOrder
  BY DEF IInv, Items
<1>2. QED
  BY <1>1, Invariant, PTL

(* A reader that is held is with the dispatcher of its poller until it is  *)
(* told of the end, and a dispatcher in the map counts its readers exactly *)
(* (RingBuffer.h:196-233, 286-333).                                        *)
THEOREM HeldReaderIsServed == Spec => []ReaderIsServed
<1>1. ASSUME IInv PROVE ReaderIsServed
  <2>1. \A r \in Reader : Alive(r) /\ r \notin told =>
          /\ r \in readers[home[r].disp]
          /\ closed \/ map[home[r].poller] = home[r].disp
    BY <1>1 DEF IInv, Readers, Served
  <2>2. ASSUME NEW d \in Dispatcher \cap Range(map) PROVE size[d] = Cardinality(readers[d])
    <3>1. PICK p \in Poller : map[p] = d
      BY <1>1 DEF Range, IInv, TypeOK
    <3>2. QED
      BY <1>1, <3>1 DEF IInv, Readers, Counted, Holds
  <2>3. QED
    BY <2>1, <2>2 DEF ReaderIsServed
<1>2. QED
  BY <1>1, Invariant, PTL

-----------------------------------------------------------------------------
(* The refinement of Feed                                                  *)

Phase(r) == IF ~Ready(r) THEN "out" ELSE IF r \in told THEN "told" ELSE "in"
Pos(r)   == from[r] + Len(got[r])

(* A step after which every reader is where it was.                        *)
LEMMA SameReaders ==
  ASSUME \A x \in Reader : (Ready(x)' <=> Ready(x)) /\ (Ready(x) => (x \in told' <=> x \in told)),
         \A x \in Reader : Pos(x)' = Pos(x)
  PROVE  /\ [r \in Reader |-> Phase(r)'] = [r \in Reader |-> Phase(r)]
         /\ [r \in Reader |-> Pos(r)'] = [r \in Reader |-> Pos(r)]
<1>1. \A x \in Reader : Phase(x)' = Phase(x)
  BY DEF Phase
<1>2. QED
  BY <1>1


(* A reader leaves and the others stay where they were.                    *)
LEMMA LeaveRefines ==
  ASSUME NEW r \in Reader, ~Ready(r)', Pos(r)' = 0, n' = n, closed' = closed,
         \A x \in Reader \ {r} : (Ready(x)' <=> Ready(x)) /\ (Ready(x) => (x \in told' <=> x \in told)),
         \A x \in Reader \ {r} : Pos(x)' = Pos(x)
  PROVE  F!Leave(r)
<1>1. \A x \in Reader : Phase(x)' = (IF x = r THEN "out" ELSE Phase(x))
                          /\ Pos(x)' = (IF x = r THEN 0 ELSE Pos(x))
  BY DEF Phase
<1>2. /\ [x \in Reader |-> Phase(x)'] = [[x \in Reader |-> Phase(x)] EXCEPT ![r] = "out"]
      /\ [x \in Reader |-> Pos(x)'] = [[x \in Reader |-> Pos(x)] EXCEPT ![r] = 0]
  BY <1>1
<1>3. QED
  BY <1>2 DEF F!Leave, Phase, Pos

(* Nobody comes or goes, and who gets an item gets the next one.           *)
LEMMA ServeRefines ==
  ASSUME IInv', n' = n, closed' \in {closed, TRUE},
         \A x \in Reader : (Ready(x)' <=> Ready(x)) /\ (Ready(x) /\ x \in told => x \in told'),
         \A x \in Reader :
           \/ Pos(x)' = Pos(x)
           \/ Pos(x)' = Pos(x) + 1 /\ Pos(x)' <= n /\ Ready(x) /\ x \notin told
  PROVE  F!Serve
<1>1. \A x \in Reader : Phase(x)' # Phase(x) =>
        Phase(x) = "in" /\ Phase(x)' = "told" /\ closed' /\ Pos(x)' = n
  <2> SUFFICES ASSUME NEW x \in Reader, Phase(x)' # Phase(x)
               PROVE  Phase(x) = "in" /\ Phase(x)' = "told" /\ closed' /\ Pos(x)' = n
    OBVIOUS
  <2>1. Ready(x) /\ Ready(x)' /\ x \notin told /\ x \in told'
    BY DEF Phase
  <2>2. closed' /\ handled'[home'[x].disp] = n'
    BY <2>1 DEF IInv, Readers, ToldIsGone
  <2>3. from'[x] + Len(got'[x]) = handled'[home'[x].disp]
    BY <2>1 DEF IInv, Items, Position
  <2>4. QED
    BY <2>1, <2>2, <2>3 DEF Phase, Pos
<1>2. \A x \in Reader : Pos(x)' # Pos(x) => Phase(x) = "in" /\ Pos(x)' <= n
  BY DEF Phase
<1>3. \A x \in Reader : Pos(x)' \in {Pos(x), Pos(x) + 1}
  OBVIOUS
<1>4. \A r \in Reader :
        /\ [x \in Reader |-> Pos(x)'][r] = Pos(r)' /\ [x \in Reader |-> Pos(x)][r] = Pos(r)
        /\ [x \in Reader |-> Phase(x)'][r] = Phase(r)' /\ [x \in Reader |-> Phase(x)][r] = Phase(r)
  OBVIOUS
<1>5. F!Serve <=>
        /\ n' = n /\ closed' \in {closed, TRUE}
        /\ \A r \in Reader :
             /\ [x \in Reader |-> Pos(x)'][r]
                  \in {[x \in Reader |-> Pos(x)][r], [x \in Reader |-> Pos(x)][r] + 1}
             /\ [x \in Reader |-> Pos(x)'][r] # [x \in Reader |-> Pos(x)][r] =>
                  [x \in Reader |-> Phase(x)][r] = "in" /\ [x \in Reader |-> Pos(x)'][r] <= n
             /\ [x \in Reader |-> Phase(x)'][r] # [x \in Reader |-> Phase(x)][r] =>
                  /\ [x \in Reader |-> Phase(x)][r] = "in" /\ [x \in Reader |-> Phase(x)'][r] = "told"
                  /\ closed' /\ [x \in Reader |-> Pos(x)'][r] = n
  BY DEF F!Serve, Phase, Pos
<1>6. QED
  BY <1>1, <1>2, <1>3, <1>4, <1>5

(* setReadCB joins, with what the storage of the dispatcher has.           *)
LEMMA ListenRefines ==
  ASSUME IInv, IInv', NEW r \in Reader, Listen(r)
  PROVE  F!Join(r)
<1>1. /\ UNCHANGED <<n, closed, handled, home, told>>
      /\ state[r] = "held" /\ state' = [state EXCEPT ![r] = "ready"]
      /\ \A x \in Reader \ {r} : got'[x] = got[x] /\ from'[x] = from[x] /\ state'[x] = state[x]
      /\ state'[r] = "ready"
  BY DEF Listen, source, owners, fields, IInv, TypeOK
<1>2. \A x \in Reader \ {r} : Phase(x)' = Phase(x) /\ Pos(x)' = Pos(x)
  BY <1>1 DEF Phase, Pos, Ready
<1>3. Phase(r) = "out" /\ Phase(r)' \in {"in", "told"} /\ (Phase(r)' = "told" => r \in told)
  BY <1>1 DEF Phase, Ready
<1>4. Pos(r)' = handled[home[r].disp]
  BY <1>1 DEF Pos, Ready, IInv, Items, Position
<1>5. home[r] # NULL
  BY <1>1 DEF IInv, Readers, FreeIsNull
<1>6. Pos(r)' \in 0..n
  BY <1>4, <1>5, HomeTyped DEF IInv, TypeOK
<1>7. r \in told => closed /\ Pos(r)' = n
  BY <1>4 DEF IInv, Readers, ToldIsGone
<1>8. /\ [x \in Reader |-> Phase(x)'] = [[x \in Reader |-> Phase(x)] EXCEPT ![r] = Phase(r)']
      /\ [x \in Reader |-> Pos(x)'] = [[x \in Reader |-> Pos(x)] EXCEPT ![r] = Pos(r)']
  BY <1>2
<1>9. F!Join(r) <=>
        /\ [x \in Reader |-> Phase(x)][r] = "out"
        /\ \E p \in 0..n, s \in {"in", "told"} :
             /\ s = "told" => closed /\ p = n
             /\ [x \in Reader |-> Phase(x)'] = [[x \in Reader |-> Phase(x)] EXCEPT ![r] = s]
             /\ [x \in Reader |-> Pos(x)'] = [[x \in Reader |-> Pos(x)] EXCEPT ![r] = p]
        /\ n' = n /\ closed' = closed
  BY DEF F!Join, Phase, Pos
<1>10. [x \in Reader |-> Phase(x)][r] = "out"
  BY <1>3
<1>11. QED
  BY <1>1, <1>3, <1>6, <1>7, <1>8, <1>9, <1>10


(* A released reader leaves: told and ready are its own affair, unless a   *)
(* dispatcher goes with its last reader, and then nobody is told.          *)
LEMMA DropHereRefines ==
  ASSUME IInv, NEW r \in Reader, DropHere(r)
  PROVE  F!Leave(r)
<1>1. home[r] # NULL
  BY DEF DropHere, IInv, Readers, FreeIsNull, Alive
<1>2. /\ home[r].poller \in Poller /\ home[r].disp \in Dispatcher
      /\ home[r] = [poller |-> home[r].poller, disp |-> home[r].disp]
  BY <1>1 DEF IInv, TypeOK
<1> SUFFICES ASSUME NEW p \in Poller, NEW d \in Dispatcher, home[r] = [poller |-> p, disp |-> d]
             PROVE  F!Leave(r)
  BY <1>2
<1>3. /\ Forget(r, "free") /\ Erased(p, d, r, queue[p]) /\ Alive(r)
      /\ UNCHANGED <<source, closed, store, handled>>
  BY DEF DropHere
<1>4. Shrinks(p, d, readers[d] \ {r}) /\ queue' = [queue EXCEPT ![p] = queue[p]]
  BY <1>3, GoneShrinks
<1>5. /\ n' = n /\ closed' = closed /\ state'[r] = "free" /\ got'[r] = <<>> /\ from'[r] = 0
      /\ \A x \in Reader \ {r} : got'[x] = got[x] /\ from'[x] = from[x] /\ state'[x] = state[x]
  BY <1>3 DEF Forget, source, IInv, TypeOK
<1>6. \A x \in Reader \ {r} : x \in told' <=> x \in told
  <2>1. \A x \in told : Alive(x)
    BY DEF IInv, Readers, ToldIsGone
  <2>2. \A x \in told \ {r} : Alive(x)'
    BY <1>5, <2>1 DEF Alive, IInv, TypeOK
  <2>3. CASE told' = told \ {r}
    BY <2>3
  <2>4. CASE told' # told \ {r}
    <3>1. map[p] = d \/ HasWrite(d, queue[p])
      BY <1>3, <2>4 DEF Erased
    <3>2. CASE told' = {x \in told : Alive(x)'}
      BY <2>2, <3>2
    <3>3. CASE ~Owns(p, d)' /\ told' = {x \in told \cup (readers[d] \ {r}) : Alive(x)'}
      <4>1. ~HasWrite(d, queue'[p]) /\ map'[p] # d
        BY <3>3 DEF Owns, Holds
      <4>2. queue'[p] = queue[p]
        BY <1>4 DEF IInv, TypeOK
      <4>3. map' # map
        BY <3>1, <4>1, <4>2
      <4>4. readers[d] \ {r} = {}
        BY <1>4, <4>3 DEF Shrinks
      <4>5. QED
        BY <2>2, <3>3, <4>4
    <3>4. QED
      BY <1>4, <3>2, <3>3 DEF Shrinks
  <2>5. QED
    BY <2>3, <2>4
<1>7. ~Ready(r)' /\ Pos(r)' = 0
  BY <1>5 DEF Ready, Pos
<1>8. \A x \in Reader \ {r} :
        (Ready(x)' <=> Ready(x)) /\ (x \in told' <=> x \in told) /\ Pos(x)' = Pos(x)
  BY <1>5, <1>6 DEF Ready, Pos
<1>9. QED
  BY <1>5, <1>7, <1>8, LeaveRefines

LEMMA DropRefines ==
  ASSUME IInv, NEW r \in Reader, Drop(r)
  PROVE  F!Leave(r)
<1>1. /\ n' = n /\ closed' = closed /\ state'[r] = "dead" /\ got'[r] = <<>> /\ from'[r] = 0
      /\ \A x \in Reader \ {r} : got'[x] = got[x] /\ from'[x] = from[x] /\ state'[x] = state[x]
      /\ told' = told \ {r}
  BY DEF Drop, Forget, source, IInv, TypeOK
<1>2. ~Ready(r)' /\ Pos(r)' = 0
  BY <1>1 DEF Ready, Pos
<1>3. \A x \in Reader \ {r} :
        (Ready(x)' <=> Ready(x)) /\ (x \in told' <=> x \in told) /\ Pos(x)' = Pos(x)
  BY <1>1 DEF Ready, Pos
<1>4. QED
  BY <1>1, <1>2, <1>3, LeaveRefines

(* A write gives the readers that are ready the next item, and they have   *)
(* not been told of the end.                                               *)
LEMMA RunWriteRefines ==
  ASSUME IInv, IInv', NEW p \in Poller, RunWrite(p)
  PROVE  F!Serve
<1>0. Head(queue[p]).disp \in Dispatcher
  <2>1. Head(queue[p]) \in Task
    BY Popped DEF RunWrite, IsTask, IInv, TypeOK
  <2>2. QED
    BY <2>1 DEF Task
<1> SUFFICES ASSUME NEW d \in Dispatcher, NEW i, NEW rs, Writes(p, d, i, rs)
             PROVE  F!Serve
  BY <1>0 DEF Writes
<1>1. /\ Shrinks(p, d, rs)
      /\ i = handled[d] + 1 /\ i \in 1..n /\ d \in live
      /\ \A x \in Reader :
           got'[x] = IF x \in rs /\ state[x] = "ready" THEN Append(got[x], i) ELSE got[x]
  BY WriteShrinks
<1>2. /\ n' = n /\ closed' = closed /\ state' = state /\ from' = from
      /\ got \in [Reader -> Seq(1..n)] /\ from \in [Reader -> 0..n] /\ handled \in [Dispatcher -> 0..n]
      /\ n \in Nat /\ rs \subseteq readers[d] /\ rs \subseteq Reader
  BY SizeAssumption DEF Writes, RunWrite, source, IInv, TypeOK
<1>3. \A x \in Reader : (Ready(x)' <=> Ready(x)) /\ (Ready(x) /\ x \in told => x \in told')
  BY <1>1, <1>2 DEF Shrinks, Ready, Alive
<1>4. ASSUME NEW x \in Reader
      PROVE  \/ Pos(x)' = Pos(x)
             \/ Pos(x)' = Pos(x) + 1 /\ Pos(x)' <= n /\ Ready(x) /\ x \notin told
  <2>1. CASE x \in rs /\ Ready(x)
    <3>1. x \notin told /\ home[x].disp = d
      BY <1>1, <1>2, <2>1, WrittenTo
    <3>2. from[x] + Len(got[x]) = handled[d]
      BY <2>1, <3>1 DEF IInv, Items, Position
    <3>3. got'[x] = Append(got[x], i) /\ got[x] \in Seq(1..n) /\ i \in 1..n /\ from'[x] = from[x]
      BY <1>1, <1>2, <2>1 DEF Ready
    <3>4. Len(got'[x]) = Len(got[x]) + 1 /\ Len(got[x]) \in Nat /\ from[x] \in Nat
      BY <1>2, <3>3, Pushed
    <3>5. Pos(x)' = Pos(x) + 1 /\ Pos(x)' = i
      <4>1. Pos(x)' = from[x] + (Len(got[x]) + 1) /\ Pos(x) = handled[d] /\ i = handled[d] + 1
        BY <1>1, <3>2, <3>3, <3>4 DEF Pos
      <4>2. from[x] + (Len(got[x]) + 1) = i
        BY ONLY <4>1, <3>2, <3>4
      <4>3. QED
        BY <4>1, <4>2
    <3>6. QED
      BY <1>1, <1>2, <2>1, <3>1, <3>5
  <2>2. CASE ~(x \in rs /\ Ready(x))
    BY <1>1, <1>2, <2>2 DEF Ready, Pos
  <2>3. QED
    BY <2>1, <2>2
<1>5. QED
  BY <1>2, <1>3, <1>4, ServeRefines

(* The steps that give nobody an item and let nobody go.                   *)
LEMMA EndRefines ==
  ASSUME IInv, IInv', n' = n, closed' \in {closed, TRUE}, state' = state, got' = got, from' = from,
         \A x \in told : Alive(x)' => x \in told'
  PROVE  F!Serve
<1>1. \A x \in Reader :
        (Ready(x)' <=> Ready(x)) /\ (Ready(x) /\ x \in told => x \in told') /\ Pos(x)' = Pos(x)
  BY DEF Ready, Alive, Pos
<1>2. QED
  BY <1>1, ServeRefines

LEMMA RunDeleteRefines ==
  ASSUME IInv, IInv', NEW p \in Poller, RunDelete(p)
  PROVE  F!Serve
<1>1. /\ UNCHANGED <<n, closed, state, got, from>>
      /\ \A x \in told : Alive(x)' => x \in told'
  BY DEF RunDelete, Destroy, source, Alive
<1>2. QED
  BY <1>1, EndRefines

LEMMA CloseRefines ==
  ASSUME IInv, IInv', NEW q \in Poller \cup {NULL}, Close(q)
  PROVE  F!Serve
<1>1. /\ n' = n /\ closed' = TRUE /\ state' = state /\ got' = got /\ from' = from /\ told = {}
  BY DEF Close, IInv, Readers, ToldIsGone
<1>2. QED
  BY <1>1, EndRefines

(* The reader that is deleted had left before.                             *)
LEMMA RunDeallocRefines ==
  ASSUME IInv, IInv', NEW p \in Poller, RunDealloc(p)
  PROVE  F!Serve
<1>1. /\ queue[p] \in Seq(Task) /\ queue[p] # <<>> /\ Head(queue[p]).op = "dealloc"
  BY DEF RunDealloc, IsTask, IInv, TypeOK
<1>2. Head(queue[p]) \in Task /\ Head(queue[p]) = queue[p][1] /\ 1 \in DOMAIN queue[p]
  BY <1>1, Popped
<1>3. /\ Head(queue[p]).arg \in Reader /\ Head(queue[p]).disp \in Dispatcher
      /\ state[Head(queue[p]).arg] = "dead"
  <2>1. Head(queue[p]).arg \in Reader /\ Head(queue[p]).disp \in Dispatcher
    BY <1>1, <1>2 DEF Task
  <2>2. state[queue[p][1].arg] = "dead"
    <3>1. queue[p][1].op = "dealloc" /\ 1 \in DOMAIN queue[p] /\ Deallocs
      BY <1>1, <1>2 DEF IInv, Readers
    <3>2. QED
      BY <3>1 DEF Deallocs
  <2>3. QED
    BY <1>2, <2>1, <2>2
<1> SUFFICES ASSUME NEW r \in Reader, r = Head(queue[p]).arg, NEW d \in Dispatcher,
                    d = Head(queue[p]).disp
             PROVE  F!Serve
  BY <1>3
<1>4. /\ Forget(r, "free") /\ Erased(p, d, r, Tail(queue[p]))
      /\ UNCHANGED <<source, closed, store, handled>>
  BY DEF RunDealloc
<1>5. /\ n' = n /\ closed' = closed /\ state'[r] = "free" /\ got'[r] = <<>> /\ from'[r] = 0
      /\ state[r] = "dead"
      /\ \A x \in Reader \ {r} : got'[x] = got[x] /\ from'[x] = from[x] /\ state'[x] = state[x]
  BY <1>3, <1>4 DEF Forget, source, IInv, TypeOK
<1>6. \A x \in told : Alive(x)' => x \in told'
  <2>1. r \notin told
    BY <1>5 DEF IInv, Readers, ToldIsGone, Alive
  <2>2. home[r] = [poller |-> p, disp |-> d]
    BY <1>1, <1>2 DEF IInv, Readers, Deallocs
  <2>3. Shrinks(p, d, readers[d] \ {r})
    BY <1>1, <1>4, <2>2, GoneShrinks
  <2>4. QED
    BY <2>3 DEF Shrinks
<1>7. \A x \in Reader : (Ready(x)' <=> Ready(x)) /\ (Ready(x) /\ x \in told => x \in told')
  BY <1>5, <1>6 DEF Ready, Alive
<1>8. \A x \in Reader : Pos(x)' = Pos(x)
  <2>1. got[r] = <<>> /\ from[r] = 0
    BY <1>5 DEF IInv, Items, Position, Ready
  <2>2. QED
    BY <1>5, <2>1 DEF Pos
<1>9. QED
  BY <1>5, <1>7, <1>8, ServeRefines


(* What attach does is nobody's business but the dispatcher's.             *)
LEMMA AttachRefines ==
  ASSUME IInv, NEW p \in Poller, NEW r \in Reader, NEW useCache \in BOOLEAN,
         Attach(p, r, useCache)
  PROVE  UNCHANGED F!vars
<1>1. /\ UNCHANGED <<n, closed, got, from, told>>
      /\ state[r] = "free" /\ state' = [state EXCEPT ![r] = "held"]
  BY DEF Attach, source
<1>2. \A x \in Reader :
        (Ready(x)' <=> Ready(x)) /\ (Ready(x) => (x \in told' <=> x \in told)) /\ Pos(x)' = Pos(x)
  BY <1>1 DEF Ready, Pos, IInv, TypeOK
<1>3. QED
  BY <1>1, <1>2, SameReaders DEF F!vars, Phase, Pos

LEMMA WriteItemRefines ==
  ASSUME NEW isKey \in BOOLEAN, WriteItem(isKey)
  PROVE  F!Publish
<1>1. n' = n + 1 /\ closed' = closed /\ ~closed /\ UNCHANGED <<state, got, from, told>>
  BY DEF WriteItem, reader
<1>2. QED
  BY <1>1 DEF F!Publish, Ready

LEMMA NextRefines == IInv /\ IInv' /\ [Next]_vars => [F!Next]_F!vars
<1> SUFFICES ASSUME IInv, IInv', [Next]_vars PROVE [F!Next]_F!vars
  OBVIOUS
<1>1. CASE UNCHANGED vars
  BY <1>1 DEF vars, source, owners, reader, F!vars, Ready
<1>2. ASSUME NEW isKey \in BOOLEAN, WriteItem(isKey) PROVE F!Next
  BY <1>2, WriteItemRefines DEF F!Next
<1>3. ASSUME NEW p \in Poller, AttachThrows(p) PROVE UNCHANGED F!vars
  BY <1>3 DEF AttachThrows, source, reader, F!vars, Ready
<1>4. ASSUME NEW p \in Poller, Run(p) PROVE F!Next
  BY <1>4, RunWriteRefines, RunDeallocRefines, RunDeleteRefines DEF Run, F!Next
<1>5. ASSUME NEW p \in Poller, NEW r \in Reader, NEW useCache \in BOOLEAN, Attach(p, r, useCache)
      PROVE  UNCHANGED F!vars
  BY <1>5, AttachRefines
<1>6. ASSUME NEW r \in Reader, Listen(r) \/ DropHere(r) \/ Drop(r) PROVE F!Next
  BY <1>6, ListenRefines, DropHereRefines, DropRefines DEF F!Next
<1>7. ASSUME NEW q \in Poller \cup {NULL}, Close(q) PROVE F!Next
  BY <1>7, CloseRefines DEF F!Next
<1>8. QED
  BY <1>1, <1>2, <1>3, <1>4, <1>5, <1>6, <1>7 DEF Next

(* A RingBuffer is a feed: a reader joins at a place of the stream, gets   *)
(* every item from there on once and in order, and is told of the end      *)
(* after the last one and never before (RingBuffer.h:91-99, 178-187,       *)
(* 196-233, 266-333).                                                      *)
THEOREM RingIsFeed == Spec => ImplementsFeed
<1>1. Init => F!Init
  <2> SUFFICES ASSUME Init PROVE F!Init
    OBVIOUS
  <2>1. n = 0 /\ closed = FALSE /\ \A r \in Reader : ~Ready(r) /\ from[r] = 0 /\ Len(got[r]) = 0
    BY DEF Init, Ready
  <2>2. QED
    BY <2>1 DEF F!Init
<1>2. IInv /\ IInv' /\ [Next]_vars => [F!Next]_F!vars
  BY NextRefines
<1>3. QED
  BY <1>1, <1>2, Invariant, PTL DEF Spec, ImplementsFeed, F!Spec

=============================================================================
