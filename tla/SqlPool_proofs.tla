--------------------------- MODULE SqlPool_proofs ---------------------------
(* The ownership of pooled objects, for any pool, of the connections of    *)
(* SqlPool, which uses one, and of the statements it queues and retries.   *)
EXTENDS SqlPool, TLAPS

LEMMA HeadAndTail ==
  ASSUME NEW S, NEW s \in Seq(S), s # <<>>, IsInjective(s)
  PROVE  /\ ToSet(s) = ToSet(Tail(s)) \cup {Head(s)}
         /\ Head(s) \notin ToSet(Tail(s))
         /\ IsInjective(Tail(s))
         /\ Tail(s) \in Seq(S) /\ Head(s) \in S
<1>1. /\ Len(s) \in Nat \ {0} /\ DOMAIN s = 1..Len(s)
      /\ DOMAIN Tail(s) = 1..(Len(s) - 1)
      /\ \A i \in 1..(Len(s) - 1) : Tail(s)[i] = s[i + 1]
  OBVIOUS
<1>2. Head(s) = s[1] /\ 1 \in DOMAIN s
  BY <1>1
<1>3. ASSUME NEW i \in DOMAIN s PROVE s[i] = Head(s) \/ s[i] \in ToSet(Tail(s))
  <2>1. CASE i = 1
    BY <2>1, <1>2
  <2>2. CASE i # 1
    <3>1. i - 1 \in DOMAIN Tail(s) /\ Tail(s)[i - 1] = s[i]
      BY <2>2, <1>1
    <3> QED BY <3>1 DEF ToSet
  <2> QED BY <2>1, <2>2
<1>4. ASSUME NEW i \in DOMAIN Tail(s)
      PROVE  i + 1 \in DOMAIN s /\ Tail(s)[i] = s[i + 1] /\ i + 1 # 1
  BY <1>1
<1>5. ToSet(s) = ToSet(Tail(s)) \cup {Head(s)}
  BY <1>2, <1>3, <1>4 DEF ToSet
<1>6. Head(s) \notin ToSet(Tail(s))
  BY <1>2, <1>4 DEF ToSet, IsInjective
<1>7. IsInjective(Tail(s))
  BY <1>1, <1>4 DEF IsInjective
<1> QED BY <1>5, <1>6, <1>7

LEMMA Appended ==
  ASSUME NEW S, NEW s \in Seq(S), NEW x \in S
  PROVE  /\ ToSet(Append(s, x)) = ToSet(s) \cup {x}
         /\ Append(s, x) \in Seq(S)
         /\ IsInjective(s) /\ x \notin ToSet(s) => IsInjective(Append(s, x))
<1>1. /\ Len(s) \in Nat /\ DOMAIN s = 1..Len(s)
      /\ DOMAIN Append(s, x) = 1..(Len(s) + 1)
      /\ \A i \in 1..Len(s) : Append(s, x)[i] = s[i]
      /\ Append(s, x)[Len(s) + 1] = x
  OBVIOUS
<1>2. \A i \in DOMAIN Append(s, x) : i \in DOMAIN s \/ i = Len(s) + 1
  BY <1>1
<1>3. ToSet(Append(s, x)) = ToSet(s) \cup {x}
  BY <1>1, <1>2 DEF ToSet
<1>4. IsInjective(s) /\ x \notin ToSet(s) => IsInjective(Append(s, x))
  BY <1>1, <1>2 DEF IsInjective, ToSet
<1> QED BY <1>1, <1>3, <1>4

-----------------------------------------------------------------------------
(* Any pool                                                                *)

PoolInv == PoolTypeOK /\ OnePlace /\ DeadPoolIsEmpty /\ QuitIsFinal

LEMMA PoolInitInv == PoolInit => PoolInv
<1> SUFFICES ASSUME PoolInit PROVE PoolInv
  OBVIOUS
<1>1. objs = <<>> /\ ToSet(objs) = {} /\ IsInjective(objs)
  BY DEF PoolInit, ToSet, IsInjective
<1>2. InHand = {}
  BY DEF PoolInit, InHand
<1>3. PoolTypeOK
  BY NullAssumption, SizeAssumption DEF PoolInit, PoolTypeOK
<1> QED BY <1>1, <1>2, <1>3, NullAssumption
        DEF PoolInit, PoolInv, OnePlace, DeadPoolIsEmpty, QuitIsFinal

(* What lending an object o asks of the list q and the heap it leaves.     *)
LEMMA Lending ==
  ASSUME PoolInv, NEW o \in Object, Lend(o),
         objs' \in Seq(Object), IsInjective(objs'), heap' \subseteq Object,
         ToSet(objs') = ToSet(objs) \ {o}, heap' = heap \cup {o},
         o \notin lent, o \notin InHand, objs # <<>> \/ objs' = <<>>, owner
  PROVE  PoolInv'
<1>1. InHand' = InHand
  BY DEF Lend, InHand
<1>2. PoolTypeOK'
  BY DEF PoolInv, PoolTypeOK, Lend
<1>3. OnePlace'
  BY <1>1 DEF PoolInv, PoolTypeOK, OnePlace, Lend
<1>4. DeadPoolIsEmpty'
  BY DEF PoolInv, DeadPoolIsEmpty, Lend, PoolExists
<1>5. QuitIsFinal'
  BY DEF PoolInv, QuitIsFinal, Lend
<1> QED BY <1>2, <1>3, <1>4, <1>5 DEF PoolInv

(* What a deleter of object o does to the places: o leaves the hand.       *)
LEMMA HandEmpties ==
  ASSUME PoolInv, NEW t \in Thread, hand[t] # NULL,
         hand' = [hand EXCEPT ![t] = NULL]
  PROVE  /\ InHand' = InHand \ {hand[t]}
         /\ hand[t] \in Object /\ hand[t] \in InHand
         /\ hand[t] \notin lent /\ hand[t] \notin ToSet(objs)
         /\ \A u, v \in Thread : hand'[u] = hand'[v] /\ hand'[u] # NULL => u = v
<1>1. hand[t] \in Object /\ hand[t] \in InHand
  BY DEF PoolInv, PoolTypeOK, InHand
<1>2. \A u \in Thread : hand'[u] = IF u = t THEN NULL ELSE hand[u]
  BY DEF PoolInv, PoolTypeOK
<1>3. \A u \in Thread : u # t => hand[u] # hand[t]
  BY DEF PoolInv, OnePlace
<1>4. InHand' = InHand \ {hand[t]}
  BY <1>2, <1>3 DEF InHand
<1> QED BY <1>1, <1>2, <1>4 DEF PoolInv, OnePlace

LEMMA RefsInv ==
  ASSUME PoolInv, NEW own \in BOOLEAN, NEW str \in SUBSET Thread, Unref(own, str),
         PoolExists
  PROVE  PoolInv'
<1>1. InHand' = InHand /\ lent' = lent /\ quit' = quit
  BY DEF Unref, InHand
<1>2. CASE own \/ str # {}
  BY <1>1, <1>2 DEF PoolInv, PoolTypeOK, OnePlace, DeadPoolIsEmpty, PoolExists, QuitIsFinal, Unref
<1>3. CASE ~(own \/ str # {})
  <2>1. objs' = <<>> /\ ToSet(objs') = {} /\ IsInjective(objs')
    BY <1>3 DEF Unref, ToSet, IsInjective
  <2>2. heap' = heap \ ToSet(objs) /\ owner' = own /\ strong' = str
    BY <1>3 DEF Unref
  <2>3. PoolTypeOK'
    BY <2>1, <2>2 DEF PoolInv, PoolTypeOK, Unref
  <2>4. OnePlace'
    BY <1>1, <2>1, <2>2 DEF PoolInv, OnePlace, Unref
  <2> QED BY <1>1, <2>1, <2>3, <2>4 DEF PoolInv, DeadPoolIsEmpty, QuitIsFinal
<1> QED BY <1>2, <1>3

LEMMA PoolNextInv == PoolInv /\ [PoolNext]_poolVars => PoolInv'
<1> SUFFICES ASSUME PoolInv, [PoolNext]_poolVars PROVE PoolInv'
  OBVIOUS
<1>1. CASE DropOwner
  BY <1>1, RefsInv DEF DropOwner, PoolInv, PoolTypeOK, PoolExists
<1>2. ASSUME NEW n \in 0..MaxPoolSize, SetSize(n) PROVE PoolInv'
  BY <1>2 DEF SetSize, PoolInv, PoolTypeOK, OnePlace, DeadPoolIsEmpty, QuitIsFinal, PoolExists, InHand
<1>3. ASSUME NEW o \in Object, Quit(o) PROVE PoolInv'
  BY <1>3 DEF Quit, PoolInv, PoolTypeOK, OnePlace, DeadPoolIsEmpty, QuitIsFinal, PoolExists, InHand
<1>4. ASSUME NEW t \in Thread, Recycle(t) PROVE PoolInv'
  <2>1. /\ InHand' = InHand \ {hand[t]} /\ hand[t] \in Object /\ hand[t] \in InHand
        /\ hand[t] \notin lent /\ hand[t] \notin ToSet(objs)
        /\ \A u, v \in Thread : hand'[u] = hand'[v] /\ hand'[u] # NULL => u = v
    BY <1>4, HandEmpties DEF Recycle
  <2>2. hand' \in [Thread -> Object \cup {NULL}] /\ lent' = lent
    BY <1>4 DEF Recycle, PoolInv, PoolTypeOK
  <2>3. CASE Len(objs) >= poolsize
    BY <1>4, <2>1, <2>2, <2>3 DEF Recycle, PoolInv, PoolTypeOK, OnePlace, DeadPoolIsEmpty, QuitIsFinal, PoolExists
  <2>4. CASE ~(Len(objs) >= poolsize)
    <3>1. objs' = Append(objs, hand[t]) /\ heap' = heap /\ objs \in Seq(Object)
      BY <1>4, <2>4 DEF Recycle, PoolInv, PoolTypeOK
    <3>2. ToSet(objs') = ToSet(objs) \cup {hand[t]} /\ objs' \in Seq(Object) /\ IsInjective(objs')
      BY <3>1, <2>1, Appended DEF PoolInv, OnePlace
    <3>3. OnePlace'
      BY <2>1, <2>2, <3>1, <3>2 DEF PoolInv, OnePlace
    <3>4. PoolTypeOK' /\ DeadPoolIsEmpty' /\ QuitIsFinal'
      BY <1>4, <2>2, <3>1, <3>2 DEF Recycle, PoolInv, PoolTypeOK, DeadPoolIsEmpty, PoolExists, QuitIsFinal
    <3> QED BY <3>3, <3>4 DEF PoolInv
  <2> QED BY <2>3, <2>4
<1>5. ASSUME NEW t \in Thread, Delete(t) PROVE PoolInv'
  <2>1. /\ InHand' = InHand \ {hand[t]} /\ hand[t] \in Object /\ hand[t] \in InHand
        /\ hand[t] \notin lent /\ hand[t] \notin ToSet(objs)
        /\ \A u, v \in Thread : hand'[u] = hand'[v] /\ hand'[u] # NULL => u = v
    BY <1>5, HandEmpties DEF Delete
  <2> QED BY <1>5, <2>1 DEF Delete, PoolInv, PoolTypeOK, OnePlace, DeadPoolIsEmpty, QuitIsFinal, PoolExists
<1>6. ASSUME NEW t \in Thread, Release(t) PROVE PoolInv'
  <2>1. owner \in BOOLEAN /\ strong \ {t} \in SUBSET Thread /\ PoolExists
    BY <1>6 DEF Release, PoolInv, PoolTypeOK, PoolExists
  <2> QED BY <1>6, <2>1, RefsInv DEF Release
<1>7. ASSUME NEW t \in Thread, NEW o \in Object, ObtainIdle(t, o) PROVE PoolInv'
  <2>1. /\ ToSet(objs) = ToSet(Tail(objs)) \cup {o} /\ o \notin ToSet(Tail(objs))
        /\ IsInjective(Tail(objs)) /\ Tail(objs) \in Seq(Object)
    BY <1>7, HeadAndTail DEF ObtainIdle, PoolInv, PoolTypeOK, OnePlace
  <2>2. o \in ToSet(objs) /\ o \in heap /\ o \notin lent /\ o \notin InHand
    BY <2>1 DEF PoolInv, OnePlace
  <2> QED BY <1>7, <2>1, <2>2, Lending DEF ObtainIdle, PoolInv, PoolTypeOK
<1>8. ASSUME NEW t \in Thread, NEW o \in Object, ObtainNew(t, o) PROVE PoolInv'
  <2>1. o \notin lent /\ o \notin InHand /\ o \notin ToSet(objs)
    BY <1>8 DEF ObtainNew, PoolInv, OnePlace
  <2> QED BY <1>8, <2>1, Lending DEF ObtainNew, PoolInv, PoolTypeOK, OnePlace
<1>9. ASSUME NEW t \in Thread, NEW o \in Object, Drop(t, o) PROVE PoolInv'
  <2>1. hand[t] = NULL /\ o # NULL /\ o \in lent /\ o \notin InHand
    BY <1>9, NullAssumption DEF Drop, Free, PoolInv, OnePlace
  <2>2. \A u \in Thread : hand'[u] = IF u = t THEN o ELSE hand[u]
    BY <1>9 DEF Drop, PoolInv, PoolTypeOK
  <2>3. InHand' = InHand \cup {o}
    BY <2>1, <2>2 DEF InHand
  <2>4. \A u, v \in Thread : hand'[u] = hand'[v] /\ hand'[u] # NULL => u = v
    BY <2>1, <2>2 DEF InHand, PoolInv, OnePlace
  <2>5. OnePlace'
    BY <1>9, <2>1, <2>3, <2>4 DEF Drop, PoolInv, OnePlace
  <2> QED BY <1>9, <2>5 DEF Drop, PoolInv, PoolTypeOK, DeadPoolIsEmpty, QuitIsFinal, PoolExists
<1>10. CASE UNCHANGED poolVars
  BY <1>10 DEF poolVars, PoolInv, PoolTypeOK, OnePlace, DeadPoolIsEmpty, QuitIsFinal, PoolExists, InHand
<1> QED BY <1>1, <1>2, <1>3, <1>4, <1>5, <1>6, <1>7, <1>8, <1>9, <1>10 DEF PoolNext

(* Every object of a resource pool is in exactly one place, a dead pool    *)
(* holds none, and an object that was given up is never idle, for any      *)
(* number of objects and threads (ResourcePool.h:80-156).                  *)
THEOREM ObjectsInOnePlace == PoolSpec => [](OnePlace /\ DeadPoolIsEmpty /\ QuitIsFinal)
<1>1. PoolInv => OnePlace /\ DeadPoolIsEmpty /\ QuitIsFinal
  BY DEF PoolInv
<1> QED BY <1>1, PoolInitInv, PoolNextInv, PTL DEF PoolSpec

-----------------------------------------------------------------------------
(* The connections of SqlPool                                              *)

LEMMA SqlInit == Init => PoolInv
<1> SUFFICES ASSUME Init PROVE PoolInv
  OBVIOUS
<1>1. PICK o \in Object : heap = {o} /\ objs = <<o>>
  BY DEF Init
<1>2. ToSet(objs) = {o} /\ IsInjective(objs) /\ objs \in Seq(Object)
  BY <1>1 DEF ToSet, IsInjective
<1>3. InHand = {}
  BY DEF Init, InHand
<1>4. PoolTypeOK
  BY <1>1, <1>2 DEF Init, PoolTypeOK
<1> QED BY <1>1, <1>2, <1>3, <1>4 DEF Init, PoolInv, OnePlace, DeadPoolIsEmpty, QuitIsFinal, PoolExists

(* A step of SqlPool is a step of the pool, or leaves the pool alone.      *)
LEMMA SqlStep == PoolTypeOK /\ [Next]_vars => [PoolNext]_poolVars
<1> SUFFICES ASSUME PoolTypeOK, [Next]_vars PROVE [PoolNext]_poolVars
  OBVIOUS
<1>1. ASSUME NEW t \in Thread, Step(t) PROVE [PoolNext]_poolVars
  <2>1. CASE Obtain(t)
    <3>1. PICK o \in Object : ObtainIdle(t, o) \/ ObtainNew(t, o)
      BY <2>1 DEF Obtain
    <3> QED BY <3>1 DEF PoolNext
  <2>2. CASE Refused(t) \/ AnswerLost(t)
    <3>1. Quit(conn[t]) /\ conn[t] \in Object
      BY <2>2 DEF Refused, AnswerLost, Throw, Quit, PoolTypeOK
    <3> QED BY <3>1 DEF PoolNext
  <2>3. CASE LetGo(t)
    <3>1. Drop(t, conn[t]) /\ conn[t] \in Object
      BY <2>3 DEF LetGo, Drop, PoolTypeOK
    <3> QED BY <3>1 DEF PoolNext
  <2>4. CASE Deleter(t)
    BY <2>4 DEF Deleter, PoolNext
  <2>5. CASE ObtainFails(t) \/ CallDead(t) \/ Answered(t) \/ Escaped(t)
    BY <2>5 DEF ObtainFails, CallDead, Answered, Escaped
  <2> QED BY <1>1, <2>1, <2>2, <2>3, <2>4, <2>5 DEF Step
<1>2. CASE ExecStep
  BY <1>1, <1>2, ThreadAssumption DEF ExecStep, Take, Finish, Retry, RetryDead
<1>3. ASSUME NEW c \in Client, Call(c) \/ Step(c) \/ Return(c) PROVE [PoolNext]_poolVars
  BY <1>1, <1>3, ThreadAssumption DEF Call, Return
<1>4. ASSUME NEW f \in Flusher, FlushStep(f) PROVE [PoolNext]_poolVars
  BY <1>4 DEF FlushStep, Swap, Resubmit, ResubmitFault, ResubmitDead
<1>5. CASE ClosePool \/ Resize
  BY <1>5 DEF ClosePool, Resize, PoolNext
<1>6. CASE Destroy \/ GoDown \/ ComeUp \/ (\E s \in Statement : AsyncQuery(s)) \/ UNCHANGED vars
  BY <1>6 DEF Destroy, GoDown, ComeUp, AsyncQuery, vars
<1> QED BY <1>2, <1>3, <1>4, <1>5, <1>6 DEF Next

LEMMA SqlPoolInv == Spec => []PoolInv
<1>1. PoolInv => PoolTypeOK
  BY DEF PoolInv
<1>2. PoolInv /\ [Next]_vars => PoolInv'
  BY <1>1, SqlStep, PoolNextInv
<1> QED BY <1>2, SqlInit, PTL DEF Spec

(* No two threads ever use the same connection, none is closed twice or    *)
(* leaked, and one whose statement failed is never lent again, in any      *)
(* order of queries, failures, resizings and the end of the SqlPool        *)
(* (SqlPool.h:84-106).                                                     *)
THEOREM ConnectionsInOnePlace == Spec => [](OnePlace /\ QuitIsFinal)
<1>1. PoolInv => OnePlace /\ QuitIsFinal
  BY DEF PoolInv
<1> QED BY <1>1, SqlPoolInv, PTL

(* The end of the SqlPool, and the end of the last thread that returns a   *)
(* connection after it, leave no idle connection open                      *)
(* (ResourcePool.h:80-90 and 149-155).                                     *)
THEOREM DeadSqlPoolIsEmpty == Spec => []DeadPoolIsEmpty
<1>1. PoolInv => DeadPoolIsEmpty
  BY DEF PoolInv
<1> QED BY <1>1, SqlPoolInv, PTL

-----------------------------------------------------------------------------
(* The statements.  Which ones a queue holds, and that it holds none twice.*)
Stmts(s) == {s[i].stmt : i \in DOMAIN s}

Distinct(s) == \A i, j \in DOMAIN s : s[i].stmt = s[j].stmt => i = j

LEMMA NoStatement == Stmts(<<>>) = {} /\ Distinct(<<>>)
BY DEF Stmts, Distinct

LEMMA OneStatement ==
  ASSUME NEW x \in Token
  PROVE  Stmts(<<x>>) = {x.stmt} /\ Distinct(<<x>>) /\ <<x>>[1] = x /\ Len(<<x>>) = 1
<1>1. DOMAIN <<x>> = {1} /\ <<x>>[1] = x
  OBVIOUS
<1>2. QED
  BY <1>1 DEF Stmts, Distinct

LEMMA StatementAppended ==
  ASSUME NEW s \in Seq(Token), NEW x \in Token
  PROVE  /\ Append(s, x) \in Seq(Token)
         /\ Stmts(Append(s, x)) = Stmts(s) \cup {x.stmt}
         /\ Distinct(s) /\ x.stmt \notin Stmts(s) => Distinct(Append(s, x))
         /\ \A i \in DOMAIN Append(s, x) :
              Append(s, x)[i] = x \/ \E j \in DOMAIN s : Append(s, x)[i] = s[j]
<1>1. /\ Len(s) \in Nat /\ DOMAIN s = 1..Len(s)
      /\ DOMAIN Append(s, x) = 1..(Len(s) + 1)
      /\ \A i \in 1..Len(s) : Append(s, x)[i] = s[i]
      /\ Append(s, x)[Len(s) + 1] = x
  OBVIOUS
<1>2. \A i \in DOMAIN Append(s, x) : i \in DOMAIN s \/ i = Len(s) + 1
  BY <1>1
<1>3. Stmts(Append(s, x)) = Stmts(s) \cup {x.stmt}
  BY <1>1, <1>2 DEF Stmts
<1>4. Distinct(s) /\ x.stmt \notin Stmts(s) => Distinct(Append(s, x))
  BY <1>1, <1>2 DEF Distinct, Stmts
<1>5. QED
  BY <1>1, <1>2, <1>3, <1>4

LEMMA StatementTaken ==
  ASSUME NEW s \in Seq(Token), s # <<>>, Distinct(s)
  PROVE  /\ Head(s) \in Token /\ Tail(s) \in Seq(Token)
         /\ Head(s).stmt \in Stmts(s) /\ 1 \in DOMAIN s /\ Head(s) = s[1]
         /\ Stmts(Tail(s)) = Stmts(s) \ {Head(s).stmt}
         /\ Distinct(Tail(s))
         /\ \A i \in DOMAIN Tail(s) : i + 1 \in DOMAIN s /\ Tail(s)[i] = s[i + 1]
<1>1. /\ Len(s) \in Nat \ {0} /\ DOMAIN s = 1..Len(s)
      /\ DOMAIN Tail(s) = 1..(Len(s) - 1)
      /\ \A i \in 1..(Len(s) - 1) : Tail(s)[i] = s[i + 1]
      /\ Head(s) = s[1] /\ Head(s) \in Token /\ Tail(s) \in Seq(Token)
  OBVIOUS
<1>2. 1 \in DOMAIN s /\ Head(s).stmt \in Stmts(s)
  BY <1>1 DEF Stmts
<1>3. \A i \in DOMAIN Tail(s) : i \in Nat /\ i + 1 \in DOMAIN s /\ i + 1 # 1 /\ Tail(s)[i] = s[i + 1]
  BY <1>1
<1>4. \A i \in DOMAIN s : i = 1 \/ (i - 1 \in DOMAIN Tail(s) /\ Tail(s)[i - 1] = s[i])
  BY <1>1
<1>5. Distinct(Tail(s))
  <2>1. ASSUME NEW i \in DOMAIN Tail(s), NEW j \in DOMAIN Tail(s),
               Tail(s)[i].stmt = Tail(s)[j].stmt
        PROVE  i = j
    <3>1. i + 1 = j + 1
      BY <1>3, <2>1 DEF Distinct
    <3>2. QED
      BY <1>3, <3>1
  <2>2. QED
    BY <2>1 DEF Distinct
<1>6. Stmts(Tail(s)) = Stmts(s) \ {Head(s).stmt}
  <2>1. ASSUME NEW i \in DOMAIN Tail(s)
        PROVE  Tail(s)[i].stmt \in Stmts(s) \ {Head(s).stmt}
    BY <1>1, <1>2, <1>3 DEF Stmts, Distinct
  <2>2. ASSUME NEW i \in DOMAIN s, s[i].stmt # Head(s).stmt
        PROVE  s[i].stmt \in Stmts(Tail(s))
    BY <1>1, <1>4, <2>2 DEF Stmts
  <2>3. QED
    BY <2>1, <2>2 DEF Stmts
<1>7. QED
  BY <1>1, <1>2, <1>3, <1>5, <1>6

LEMMA StatementsJoined ==
  ASSUME NEW s \in Seq(Token), NEW r \in Seq(Token)
  PROVE  /\ s \o r \in Seq(Token)
         /\ Stmts(s \o r) = Stmts(s) \cup Stmts(r)
         /\ Distinct(s) /\ Distinct(r) /\ Stmts(s) \cap Stmts(r) = {} => Distinct(s \o r)
<1>1. /\ Len(s) \in Nat /\ DOMAIN s = 1..Len(s)
      /\ Len(r) \in Nat /\ DOMAIN r = 1..Len(r)
      /\ s \o r \in Seq(Token) /\ DOMAIN (s \o r) = 1..(Len(s) + Len(r))
      /\ \A i \in 1..(Len(s) + Len(r)) :
           (s \o r)[i] = IF i <= Len(s) THEN s[i] ELSE r[i - Len(s)]
  OBVIOUS
<1>2. \A i \in DOMAIN (s \o r) :
        \/ i \in DOMAIN s /\ (s \o r)[i] = s[i]
        \/ i - Len(s) \in DOMAIN r /\ (s \o r)[i] = r[i - Len(s)] /\ i \in Nat
  BY <1>1
<1>3. /\ \A i \in DOMAIN s : i \in DOMAIN (s \o r) /\ (s \o r)[i] = s[i]
      /\ \A i \in DOMAIN r : i + Len(s) \in DOMAIN (s \o r) /\ (s \o r)[i + Len(s)] = r[i]
  BY <1>1
<1>4. Stmts(s \o r) = Stmts(s) \cup Stmts(r)
  <2>1. \A i \in DOMAIN (s \o r) : (s \o r)[i].stmt \in Stmts(s) \cup Stmts(r)
    BY <1>2 DEF Stmts
  <2>2. \A i \in DOMAIN s : s[i].stmt \in Stmts(s \o r)
    BY <1>3 DEF Stmts
  <2>3. \A i \in DOMAIN r : r[i].stmt \in Stmts(s \o r)
    BY <1>3 DEF Stmts
  <2>4. QED
    BY <2>1, <2>2, <2>3 DEF Stmts
<1>5. ASSUME Distinct(s), Distinct(r), Stmts(s) \cap Stmts(r) = {},
             NEW i \in DOMAIN (s \o r), NEW j \in DOMAIN (s \o r),
             (s \o r)[i].stmt = (s \o r)[j].stmt
      PROVE  i = j
  <2>1. CASE i \in DOMAIN s /\ (s \o r)[i] = s[i]
    <3>1. j \in DOMAIN s /\ (s \o r)[j] = s[j]
      <4>1. (s \o r)[j].stmt \in Stmts(s)
        BY <1>5, <2>1 DEF Stmts
      <4>2. ASSUME j - Len(s) \in DOMAIN r, (s \o r)[j] = r[j - Len(s)] PROVE FALSE
        BY <1>5, <4>1, <4>2 DEF Stmts
      <4>3. QED
        BY <1>2, <4>2
    <3>2. QED
      BY <1>5, <2>1, <3>1 DEF Distinct
  <2>2. CASE i - Len(s) \in DOMAIN r /\ (s \o r)[i] = r[i - Len(s)] /\ i \in Nat
    <3>1. j - Len(s) \in DOMAIN r /\ (s \o r)[j] = r[j - Len(s)] /\ j \in Nat
      <4>1. (s \o r)[j].stmt \in Stmts(r)
        BY <1>5, <2>2 DEF Stmts
      <4>2. ASSUME j \in DOMAIN s, (s \o r)[j] = s[j] PROVE FALSE
        BY <1>5, <4>1, <4>2 DEF Stmts
      <4>3. QED
        BY <1>2, <4>2
    <3>2. i - Len(s) = j - Len(s)
      BY <1>5, <2>2, <3>1 DEF Distinct
    <3>3. QED
      BY <1>1, <2>2, <3>1, <3>2
  <2>3. QED
    BY <1>2, <2>1, <2>2
<1>6. QED
  BY <1>1, <1>4, <1>5 DEF Distinct

(* The inductive invariant of the retries.  The five places a statement    *)
(* waits in are disjoint and hold it once; the lambda that Exec runs is    *)
(* there while Exec is busy and has run its text unless it failed;         *)
(* and whatever is handed over has all its tries, so none is given up.     *)
InHands  == Stmts(job) \cup Stmts(tasks) \cup Stmts(errors)
InCopies == Stmts(copy["timer"]) \cup Stmts(copy["exit"])

QueueTypes ==
  /\ tasks \in Seq(Token) /\ job \in Seq(Token) /\ errors \in Seq(Token)
  /\ copy \in [Flusher -> Seq(Token)]
  /\ accepted \subseteq Statement
  /\ pc \in [Thread -> {"idle", "call", "query", "escape", "ending"}]

SpreadOnce ==
  /\ Distinct(job) /\ Distinct(tasks) /\ Distinct(errors)
  /\ \A f \in Flusher : Distinct(copy[f]) /\ Stmts(copy[f]) \cap InHands = {}
  /\ Stmts(job) \cap (Stmts(tasks) \cup Stmts(errors)) = {}
  /\ Stmts(tasks) \cap Stmts(errors) = {}
  /\ Stmts(copy["timer"]) \cap Stmts(copy["exit"]) = {}

NoneLost ==
  /\ InHands \cup InCopies \subseteq accepted
  /\ accepted \ (ran \cup altered) \subseteq InHands \cup InCopies
  /\ dropped = {}

JobOfExec ==
  /\ pc[Exec] = "idle" => job = <<>>
  /\ pc[Exec] # "idle" => Len(job) = 1
  /\ Exec \in failed => pc[Exec] = "ending"
  /\ pc[Exec] # "escape"
  /\ pc[Exec] = "ending" /\ Exec \notin failed => job[1].stmt \in ran \cup altered

FullTries ==
  /\ \A i \in DOMAIN tasks : tasks[i].tries = TryCount
  /\ \A i \in DOMAIN job : job[i].tries = TryCount

RetryInv == QueueTypes /\ SpreadOnce /\ NoneLost /\ JobOfExec /\ FullTries

(* The places together are the sequence of which the property speaks.      *)
LEMMA RetryInvSuffices == RetryInv => OneRetryEach
<1> SUFFICES ASSUME RetryInv PROVE OneRetryEach
  OBVIOUS
<1> USE DEF RetryInv, QueueTypes
<1>1. copy["timer"] \in Seq(Token) /\ copy["exit"] \in Seq(Token)
  BY DEF Flusher
<1>2. /\ job \o tasks \in Seq(Token)
      /\ Stmts(job \o tasks) = Stmts(job) \cup Stmts(tasks)
      /\ Distinct(job \o tasks)
  BY StatementsJoined DEF SpreadOnce
<1>3. /\ job \o tasks \o errors \in Seq(Token)
      /\ Stmts(job \o tasks \o errors) = InHands
      /\ Distinct(job \o tasks \o errors)
  BY <1>2, StatementsJoined DEF SpreadOnce, InHands
<1>4. /\ job \o tasks \o errors \o copy["timer"] \in Seq(Token)
      /\ Stmts(job \o tasks \o errors \o copy["timer"]) = InHands \cup Stmts(copy["timer"])
      /\ Distinct(job \o tasks \o errors \o copy["timer"])
  BY <1>1, <1>3, StatementsJoined DEF SpreadOnce, Flusher
<1>5. Stmts(Pending) = InHands \cup InCopies /\ Distinct(Pending)
  <2>1. /\ Distinct(copy["exit"])
        /\ (InHands \cup Stmts(copy["timer"])) \cap Stmts(copy["exit"]) = {}
    BY DEF SpreadOnce, Flusher
  <2> DEFINE r == job \o tasks \o errors \o copy["timer"]
  <2>2. Stmts(r \o copy["exit"]) = Stmts(r) \cup Stmts(copy["exit"]) /\ Distinct(r \o copy["exit"])
    <3> HIDE DEF r
    <3>1. r \in Seq(Token) /\ Distinct(r) /\ Stmts(r) = InHands \cup Stmts(copy["timer"])
      BY <1>4 DEF r
    <3>2. QED
      BY <1>1, <2>1, <3>1, StatementsJoined
  <2>3. QED
    BY <1>4, <2>2 DEF Pending, InCopies
<1> DEFINE stmts == [i \in DOMAIN Pending |-> Pending[i].stmt]
<1>6. IsInjective(stmts) /\ Range(stmts) = Stmts(Pending)
  BY <1>5 DEF IsInjective, Distinct, Range, Stmts
<1>7. QED
  BY <1>5, <1>6 DEF OneRetryEach, NoneLost

Settled == ran \cup altered

(* Steps that leave the queues alone.                                      *)
LEMMA QueuesStay ==
  ASSUME RetryInv, UNCHANGED <<queues, accepted, dropped>>, Settled \subseteq Settled',
         pc' \in [Thread -> {"idle", "call", "query", "escape", "ending"}], JobOfExec'
  PROVE  RetryInv'
BY DEF RetryInv, QueueTypes, SpreadOnce, NoneLost, FullTries, InHands, InCopies, Settled, queues

(* A thread on its way through a query; Exec has a lambda then.            *)
LEMMA StepKeepsRetry ==
  ASSUME RetryInv, NEW t \in Thread, Step(t)
  PROVE  RetryInv'
<1> USE ThreadAssumption
<1> DEFINE Pcs == {"idle", "call", "query", "escape", "ending"}
<1>1. UNCHANGED <<queues, accepted, dropped>> /\ Settled \subseteq Settled'
  BY DEF Step, Obtain, ObtainFails, CallDead, Answered, Refused, AnswerLost, Escaped, LetGo,
         Deleter, Throw, Execute, log, queues, Settled
<1>2. job' = job /\ pc \in [Thread -> Pcs] /\ JobOfExec
  BY <1>1 DEF queues, RetryInv, QueueTypes
<1>3. CASE Obtain(t)
  <2>1. PICK p \in {"query", "escape"} : (t = Exec => p = "query") /\ pc' = [pc EXCEPT ![t] = p]
    BY <1>3 DEF Obtain, Go
  <2>2. pc[t] = "call" /\ failed' = failed
    BY <1>3 DEF Obtain, At
  <2>3. JobOfExec' /\ pc' \in [Thread -> Pcs]
    BY <1>1, <1>2, <2>1, <2>2 DEF JobOfExec, Settled
  <2>4. QED
    BY <1>1, <2>3, QueuesStay
<1>4. CASE ObtainFails(t) \/ Answered(t) \/ Refused(t) \/ AnswerLost(t) \/ Escaped(t)
  <2>1. /\ pc[t] \in {"call", "query", "escape"} /\ pc' = [pc EXCEPT ![t] = "ending"]
        /\ failed' = failed \/ failed' = failed \cup {t}
    BY <1>4 DEF ObtainFails, Answered, Refused, AnswerLost, Throw, Escaped, At, Go
  <2>2. t = Exec => job[1].stmt \in Settled' \/ Exec \in failed'
    BY <1>2, <1>4 DEF ObtainFails, Answered, Refused, AnswerLost, Throw, Execute, Escaped, At,
                      JobOfExec, Settled
  <2>3. JobOfExec' /\ pc' \in [Thread -> Pcs]
    BY <1>1, <1>2, <2>1, <2>2 DEF JobOfExec, Settled
  <2>4. QED
    BY <1>1, <2>3, QueuesStay
<1>5. CASE CallDead(t) \/ LetGo(t) \/ Deleter(t)
  <2>1. UNCHANGED <<pc, failed, ran, altered>>
    BY <1>5 DEF CallDead, LetGo, Deleter, work, log
  <2>2. QED
    BY <1>1, <1>2, <2>1, QueuesStay DEF JobOfExec
<1>6. QED
  BY <1>3, <1>4, <1>5 DEF Step

(* A client comes or goes.                                                 *)
LEMMA ClientKeepsRetry ==
  ASSUME RetryInv, NEW c \in Client, Call(c) \/ Return(c)
  PROVE  RetryInv'
<1>1. /\ UNCHANGED <<queues, accepted, dropped, ran, altered>> /\ c # Exec /\ c \in Thread
      /\ pc' \in [Thread -> {"idle", "call", "query", "escape", "ending"}]
      /\ pc'[Exec] = pc[Exec] /\ (Exec \in failed' <=> Exec \in failed)
  BY ThreadAssumption DEF Call, Return, Go, log, RetryInv, QueueTypes
<1>2. JobOfExec'
  BY <1>1 DEF queues, RetryInv, JobOfExec
<1>3. QED
  BY <1>1, <1>2, QueuesStay DEF Settled

(* A statement is new to every queue.                                      *)
LEMMA SubmitKeepsRetry ==
  ASSUME RetryInv, NEW s \in Statement, AsyncQuery(s)
  PROVE  RetryInv'
<1> DEFINE x == [stmt |-> s, tries |-> TryCount, own |-> TRUE]
<1>1. /\ tasks' = Append(tasks, x) /\ x \in Token /\ x.stmt = s /\ x.tries = TryCount
      /\ s \notin accepted /\ accepted' = accepted \cup {s}
      /\ UNCHANGED <<job, errors, copy, pc, failed, ran, altered, dropped>>
  BY TryAssumption DEF AsyncQuery, Enqueue, Token, work
<1> HIDE DEF x
<1>2. s \notin InHands \cup InCopies
  BY <1>1 DEF RetryInv, NoneLost
<1>3. /\ tasks' \in Seq(Token) /\ Stmts(tasks') = Stmts(tasks) \cup {s} /\ Distinct(tasks')
      /\ \A i \in DOMAIN tasks' : tasks'[i] = x \/ \E j \in DOMAIN tasks : tasks'[i] = tasks[j]
  BY <1>1, <1>2, StatementAppended DEF RetryInv, QueueTypes, SpreadOnce, InHands
<1>4. InHands' = InHands \cup {s} /\ InCopies' = InCopies
  BY <1>1, <1>3 DEF InHands, InCopies
<1>5. SpreadOnce'
  BY <1>1, <1>2, <1>3, <1>4 DEF RetryInv, SpreadOnce, InHands, InCopies, Flusher
<1>6. FullTries'
  BY <1>1, <1>3 DEF RetryInv, FullTries
<1>7. NoneLost' /\ QueueTypes' /\ JobOfExec'
  BY <1>1, <1>3, <1>4 DEF RetryInv, NoneLost, QueueTypes, JobOfExec
<1>8. QED
  BY <1>5, <1>6, <1>7 DEF RetryInv

(* Exec takes the next lambda.                                             *)
LEMMA TakeKeepsRetry ==
  ASSUME RetryInv, Take
  PROVE  RetryInv'
<1>1. /\ tasks # <<>> /\ job' = <<Head(tasks)>> /\ tasks' = Tail(tasks)
      /\ pc[Exec] = "idle" /\ pc' = [pc EXCEPT ![Exec] = "call"]
      /\ UNCHANGED <<errors, copy, failed, accepted, ran, altered, dropped>>
  BY DEF Take, At, Go, log
<1>2. /\ Head(tasks) \in Token /\ Tail(tasks) \in Seq(Token)
      /\ Head(tasks).stmt \in Stmts(tasks) /\ 1 \in DOMAIN tasks /\ Head(tasks) = tasks[1]
      /\ Stmts(Tail(tasks)) = Stmts(tasks) \ {Head(tasks).stmt}
      /\ Distinct(Tail(tasks))
      /\ \A i \in DOMAIN Tail(tasks) :
           i + 1 \in DOMAIN tasks /\ Tail(tasks)[i] = tasks[i + 1]
  BY <1>1, StatementTaken DEF RetryInv, QueueTypes, SpreadOnce
<1>3. /\ job = <<>> /\ Stmts(job) = {}
      /\ Stmts(job') = {Head(tasks).stmt} /\ Distinct(job') /\ job' \in Seq(Token)
      /\ Len(job') = 1 /\ job'[1] = Head(tasks) /\ DOMAIN job' = {1}
  BY <1>1, <1>2, NoStatement, OneStatement DEF RetryInv, JobOfExec
<1>4. InHands' = InHands /\ InCopies' = InCopies
  BY <1>1, <1>2, <1>3 DEF InHands, InCopies
<1>5. SpreadOnce'
  BY <1>1, <1>2, <1>3, <1>4 DEF RetryInv, SpreadOnce, Flusher
<1>6. FullTries'
  BY <1>1, <1>2, <1>3 DEF RetryInv, FullTries
<1>7. NoneLost' /\ QueueTypes' /\ JobOfExec'
  BY <1>1, <1>2, <1>3, <1>4, ThreadAssumption
  DEF RetryInv, NoneLost, QueueTypes, JobOfExec
<1>8. QED
  BY <1>5, <1>6, <1>7 DEF RetryInv

(* Exec has a lambda when it ends one.                                     *)
LEMMA JobEnds ==
  ASSUME RetryInv, Ending
  PROVE  /\ job[1] \in Token /\ Stmts(job) = {job[1].stmt} /\ 1 \in DOMAIN job
         /\ job[1].tries = TryCount /\ pc[Exec] = "ending"
<1>1. pc[Exec] = "ending" /\ Len(job) = 1 /\ job \in Seq(Token)
  BY DEF Ending, At, RetryInv, JobOfExec, QueueTypes
<1>2. DOMAIN job = {1} /\ job[1] \in Token
  BY <1>1
<1>3. QED
  BY <1>1, <1>2 DEF Stmts, RetryInv, FullTries

(* The statement that Exec ran leaves the job.                             *)
LEMMA FinishKeepsRetry ==
  ASSUME RetryInv, Finish
  PROVE  RetryInv'
<1>1. /\ job' = <<>> /\ Exec \notin failed /\ pc' = [pc EXCEPT ![Exec] = "idle"]
      /\ UNCHANGED <<tasks, errors, copy, failed, accepted, ran, altered, dropped>> /\ Ending
  BY DEF Finish, Go, log
<1>2. Stmts(job) = {job[1].stmt} /\ job[1].stmt \in ran \cup altered
  BY <1>1, JobEnds DEF RetryInv, JobOfExec
<1>3. Stmts(job') = {} /\ Distinct(job') /\ job' \in Seq(Token) /\ DOMAIN job' = {}
  BY <1>1, NoStatement
<1>4. InHands' = Stmts(tasks) \cup Stmts(errors) /\ InCopies' = InCopies
  BY <1>1, <1>3 DEF InHands, InCopies
<1>5. SpreadOnce'
  BY <1>1, <1>3, <1>4 DEF RetryInv, SpreadOnce, InHands, Flusher
<1>6. NoneLost'
  BY <1>1, <1>2, <1>4 DEF RetryInv, NoneLost, InHands
<1>7. FullTries' /\ QueueTypes' /\ JobOfExec'
  BY <1>1, <1>3, ThreadAssumption DEF RetryInv, FullTries, QueueTypes, JobOfExec
<1>8. QED
  BY <1>5, <1>6, <1>7 DEF RetryInv

(* The failed statement goes to the queue of errors, with a try left.      *)
LEMMA RetryKeepsRetry ==
  ASSUME TryCount > 1, RetryInv, Retry
  PROVE  RetryInv'
<1> DEFINE x == [job[1] EXCEPT !.tries = job[1].tries - 1]
<1>1. Ending /\ job' = <<>> /\ Exec \in failed /\ failed' = failed \ {Exec}
      /\ pc' = [pc EXCEPT ![Exec] = "idle"]
      /\ UNCHANGED <<tasks, copy, accepted, ran, altered>>
  BY DEF Retry, Go
<1>2. /\ job[1] \in Token /\ Stmts(job) = {job[1].stmt} /\ job[1].tries = TryCount
  BY <1>1, JobEnds
<1>3. errors' = Append(errors, x) /\ dropped' = dropped
  BY <1>2, TryAssumption DEF Retry
<1>4. x \in Token /\ x.stmt = job[1].stmt
  BY <1>2, TryAssumption DEF Token
<1> HIDE DEF x
<1>5. x.stmt \notin Stmts(errors) /\ x.stmt \notin Stmts(tasks) /\ x.stmt \notin InCopies
  BY <1>2, <1>4 DEF RetryInv, SpreadOnce, InHands, InCopies, Flusher
<1>6. errors' \in Seq(Token) /\ Stmts(errors') = Stmts(errors) \cup {x.stmt} /\ Distinct(errors')
  BY <1>3, <1>4, <1>5, StatementAppended DEF RetryInv, QueueTypes, SpreadOnce
<1>7. Stmts(job') = {} /\ Distinct(job') /\ job' \in Seq(Token) /\ DOMAIN job' = {}
  BY <1>1, NoStatement
<1>8. InHands' = InHands /\ InCopies' = InCopies
  BY <1>1, <1>2, <1>4, <1>6, <1>7 DEF InHands, InCopies
<1>9. SpreadOnce'
  BY <1>1, <1>5, <1>6, <1>7, <1>8 DEF RetryInv, SpreadOnce, Flusher
<1>10. NoneLost' /\ FullTries' /\ QueueTypes' /\ JobOfExec'
  BY <1>1, <1>3, <1>6, <1>7, <1>8, ThreadAssumption
  DEF RetryInv, NoneLost, FullTries, QueueTypes, JobOfExec
<1>11. QED
  BY <1>9, <1>10 DEF RetryInv

(* flushError exchanges the queue of errors with its empty copy.           *)
LEMMA SwapKeepsRetry ==
  ASSUME RetryInv, NEW f \in Flusher, Swap(f)
  PROVE  RetryInv'
<1>1. /\ copy[f] = <<>> /\ copy' = [copy EXCEPT ![f] = errors] /\ errors' = <<>>
      /\ UNCHANGED <<tasks, job, pc, failed, accepted, ran, altered, dropped>>
  BY DEF Swap, work, log
<1>2. Stmts(copy[f]) = {} /\ Stmts(errors') = {} /\ Distinct(errors') /\ errors' \in Seq(Token)
  BY <1>1, NoStatement
<1>3. /\ copy'[f] = errors /\ \A g \in Flusher : g # f => copy'[g] = copy[g]
      /\ copy' \in [Flusher -> Seq(Token)]
  BY <1>1 DEF RetryInv, QueueTypes
<1>4. InHands' = Stmts(job) \cup Stmts(tasks)
  BY <1>1, <1>2 DEF InHands
<1>5. InHands' \cup InCopies' = InHands \cup InCopies
  BY <1>2, <1>3, <1>4 DEF InHands, InCopies, Flusher
<1>6. SpreadOnce'
  BY <1>1, <1>2, <1>3, <1>4 DEF RetryInv, SpreadOnce, InHands, Flusher
<1>7. NoneLost' /\ FullTries' /\ QueueTypes' /\ JobOfExec'
  BY <1>1, <1>2, <1>3, <1>5 DEF RetryInv, NoneLost, FullTries, QueueTypes, JobOfExec
<1>8. QED
  BY <1>6, <1>7 DEF RetryInv

(* A statement goes from the copy back to the lambdas, with all its tries. *)
LEMMA ResubmitKeepsRetry ==
  ASSUME RetryInv, NEW f \in Flusher, Resubmit(f)
  PROVE  RetryInv'
<1> DEFINE q == Head(copy[f])
<1> DEFINE x == [stmt |-> q.stmt, tries |-> TryCount,
                 own |-> q.own /\ q.stmt \notin WithPercent]
<1>1. /\ copy[f] # <<>> /\ copy' = [copy EXCEPT ![f] = Tail(copy[f])]
      /\ tasks' = Append(tasks, x)
      /\ UNCHANGED <<job, errors, pc, failed, accepted, ran, altered, dropped>>
  BY DEF Resubmit, Enqueue, work, log
<1>2. copy[f] \in Seq(Token) /\ Distinct(copy[f])
  BY DEF RetryInv, QueueTypes, SpreadOnce
<1>3. /\ Head(copy[f]) \in Token /\ Tail(copy[f]) \in Seq(Token)
      /\ Head(copy[f]).stmt \in Stmts(copy[f])
      /\ Stmts(Tail(copy[f])) = Stmts(copy[f]) \ {Head(copy[f]).stmt}
      /\ Distinct(Tail(copy[f]))
  BY <1>1, <1>2, StatementTaken
<1>4. x \in Token /\ x.stmt = Head(copy[f]).stmt /\ x.tries = TryCount
  BY <1>3, TryAssumption DEF Token
<1> HIDE DEF x
<1>5. x.stmt \notin InHands /\ \A g \in Flusher : g # f => x.stmt \notin Stmts(copy[g])
  BY <1>3, <1>4 DEF RetryInv, SpreadOnce, Flusher
<1>6. /\ tasks' \in Seq(Token) /\ Stmts(tasks') = Stmts(tasks) \cup {x.stmt} /\ Distinct(tasks')
      /\ \A i \in DOMAIN tasks' : tasks'[i] = x \/ \E j \in DOMAIN tasks : tasks'[i] = tasks[j]
  BY <1>1, <1>4, <1>5, StatementAppended DEF RetryInv, QueueTypes, SpreadOnce, InHands
<1>7. /\ copy'[f] = Tail(copy[f]) /\ \A g \in Flusher : g # f => copy'[g] = copy[g]
      /\ copy' \in [Flusher -> Seq(Token)]
  BY <1>1, <1>3 DEF RetryInv, QueueTypes
<1>8. InHands' = InHands \cup {x.stmt}
  BY <1>1, <1>6 DEF InHands
<1>9. InHands' \cup InCopies' = InHands \cup InCopies
  BY <1>3, <1>4, <1>7, <1>8 DEF InCopies, Flusher
<1>10. SpreadOnce'
  <2>1. Distinct(job') /\ Distinct(tasks') /\ Distinct(errors')
    BY <1>1, <1>6 DEF RetryInv, SpreadOnce
  <2>2. \A g \in Flusher : Distinct(copy'[g]) /\ Stmts(copy'[g]) \cap InHands' = {}
    BY <1>3, <1>4, <1>5, <1>7, <1>8 DEF RetryInv, SpreadOnce
  <2>3. /\ Stmts(job') \cap (Stmts(tasks') \cup Stmts(errors')) = {}
        /\ Stmts(tasks') \cap Stmts(errors') = {}
    BY <1>1, <1>5, <1>6 DEF RetryInv, SpreadOnce, InHands
  <2>4. Stmts(copy'["timer"]) \cap Stmts(copy'["exit"]) = {}
    BY <1>3, <1>7 DEF RetryInv, SpreadOnce, Flusher
  <2>5. QED
    BY <2>1, <2>2, <2>3, <2>4 DEF SpreadOnce
<1>11. FullTries'
  BY <1>1, <1>4, <1>6 DEF RetryInv, FullTries
<1>12. NoneLost' /\ QueueTypes' /\ JobOfExec'
  BY <1>1, <1>6, <1>7, <1>9 DEF RetryInv, NoneLost, QueueTypes, JobOfExec
<1>13. QED
  BY <1>10, <1>11, <1>12 DEF RetryInv

LEMMA RetryInvInductive == TryCount > 1 /\ RetryInv /\ [Next]_vars => RetryInv'
<1> SUFFICES ASSUME TryCount > 1, RetryInv, [Next]_vars PROVE RetryInv'
  OBVIOUS
<1>1. CASE ExecStep
  <2>1. CASE Finish \/ Retry \/ Take \/ Step(Exec)
    BY <2>1, FinishKeepsRetry, RetryKeepsRetry, TakeKeepsRetry, StepKeepsRetry,
       ThreadAssumption
  <2>2. CASE RetryDead
    BY <2>2, QueuesStay DEF RetryDead, Settled, queues, work, log, RetryInv, QueueTypes, JobOfExec
  <2>3. QED
    BY <1>1, <2>1, <2>2 DEF ExecStep
<1>2. ASSUME NEW c \in Client, Call(c) \/ Step(c) \/ Return(c) PROVE RetryInv'
  BY <1>2, ClientKeepsRetry, StepKeepsRetry, ThreadAssumption
<1>3. ASSUME NEW f \in Flusher, FlushStep(f) PROVE RetryInv'
  <2>1. CASE Swap(f) \/ Resubmit(f)
    BY <2>1, SwapKeepsRetry, ResubmitKeepsRetry
  <2>2. CASE ResubmitDead(f) \/ ResubmitFault(f)
    BY <2>2, QueuesStay DEF ResubmitDead, ResubmitFault, Settled, queues, work, log, RetryInv, QueueTypes, JobOfExec
  <2>3. QED
    BY <1>3, <2>1, <2>2 DEF FlushStep
<1>4. ASSUME NEW s \in Statement, AsyncQuery(s) PROVE RetryInv'
  BY <1>4, SubmitKeepsRetry
<1>5. CASE Destroy \/ ClosePool \/ Resize \/ GoDown \/ ComeUp \/ UNCHANGED vars
  <2>1. UNCHANGED <<queues, work, log>>
    BY <1>5 DEF Destroy, ClosePool, Resize, GoDown, ComeUp, vars
  <2>2. QED
    BY <2>1, QueuesStay DEF Settled, queues, work, log, RetryInv, QueueTypes, JobOfExec
<1>6. QED
  BY <1>1, <1>2, <1>3, <1>4, <1>5 DEF Next

(* A statement given to asyncQuery and not yet run is queued, running, in  *)
(* the queue of errors or in a flush's copy, in one of them and once, and  *)
(* none is ever given up: the retries start again from all their tries,    *)
(* whatever number of them above one is the default (SqlPool.h:122-154).   *)
THEOREM RetriesAreUnique ==
  ASSUME TryCount > 1
  PROVE  Spec => []OneRetryEach
<1>1. Init => RetryInv
  <2> SUFFICES ASSUME Init PROVE RetryInv
    OBVIOUS
  <2>1. /\ tasks = <<>> /\ job = <<>> /\ errors = <<>>
        /\ copy = [f \in Flusher |-> <<>>] /\ pc = [t \in Thread |-> "idle"]
        /\ accepted = {} /\ dropped = {} /\ failed = {}
    BY DEF Init
  <2>2. InHands = {} /\ InCopies = {} /\ SpreadOnce
    BY <2>1, NoStatement DEF InHands, InCopies, SpreadOnce, Flusher
  <2>3. QueueTypes /\ JobOfExec /\ FullTries
    BY <2>1, ThreadAssumption DEF QueueTypes, JobOfExec, FullTries
  <2>4. QED
    BY <2>1, <2>2, <2>3 DEF RetryInv, NoneLost
<1>2. RetryInv /\ [Next]_vars => RetryInv'
  BY RetryInvInductive
<1>3. QED
  BY <1>1, <1>2, RetryInvSuffices, PTL DEF Spec
=============================================================================
