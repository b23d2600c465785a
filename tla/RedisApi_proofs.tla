-------------------------- MODULE RedisApi_proofs --------------------------
(* The redis client, for any number of threads, queues and contexts: its   *)
(* types and limits, what an overlap of calls can break and what it        *)
(* cannot, and the counter of the queues.                                  *)
EXTENDS RedisApi, FiniteSetTheorems, TLAPS

USE NullAssumption

Types ==
  /\ hdl \in Context \cup {NULL}
  /\ mutex \in Thread \cup {NULL, "destroyed"}
  /\ ctx \in [Context -> {"open", "broken", "freed"}]
  /\ db \in [Context -> {Home, Dvr, Other}]
  /\ astray \in SUBSET Context
  /\ pc \in [Thread -> Place]
  /\ kind \in [Thread -> Kind \cup {NULL}]
  /\ mine \in [Thread -> Context \cup {NULL}]
  /\ overlap \in BOOLEAN

(* The mutex does its work, whatever happens to the context.               *)
OneHolder == \A t \in Thread : pc[t] \in InCommand => mutex = t

SixSelects == \A t \in Thread : pc[t] = "select" => kind[t] = "six"

Basic == Types /\ OneHolder /\ SixSelects

(* Whoever reconnects is alone, and whoever is in a call relies on the     *)
(* connection that hdl gives.                                              *)
Alone ==
  /\ \A t \in Thread :
       /\ pc[t] # "undefined"
       /\ pc[t] \in Reconnecting => \A u \in Thread \ {t} : pc[u] = "idle"
       /\ pc[t] \in InCommand \cup {"lock"} =>
            Usable(hdl) /\ mutex # "destroyed" /\ mine[t] \in {hdl, NULL}
       /\ pc[t] = "free" => hdl # NULL
       /\ pc[t] \in {"destroy", "connect", "publish", "handle"} => hdl = NULL
       /\ pc[t] \in {"publish", "handle"} => Usable(mine[t])
       /\ pc[t] = "handle" => mutex = NULL
       /\ mutex = t => pc[t] \in InCommand
  /\ hdl # NULL /\ (\A t \in Thread : pc[t] # "forget") => Usable(hdl) /\ mutex # "destroyed"

Orderly == overlap \/ Alone

(* The connection is in the other database exactly while a redis6_* call   *)
(* is past its first SELECT.                                               *)
Away == \E t \in Thread : kind[t] = "six" /\ pc[t] \in {"command", "back"}

Known(c) == c \in Context /\ ctx[c] = "open" /\ c \notin astray

Located ==
  overlap \/
    /\ Known(hdl) => db[hdl] = IF Away THEN Dvr ELSE Home
    /\ \A t \in Thread : pc[t] \in {"publish", "handle"} /\ Known(mine[t]) => db[mine[t]] = Home

IInv == Basic /\ Orderly /\ Located

LEMMA InitIInv == Init => IInv
<1> SUFFICES ASSUME Init PROVE IInv
  OBVIOUS
<1>1. hdl \in Context
  BY ContextAssumption DEF Init
<1>2. ctx[hdl] = "open" /\ db[hdl] = Home
  BY <1>1 DEF Init
<1>3. Basic
  BY <1>1 DEF Init, Basic, Types, Place, Kind, OneHolder, SixSelects, InCommand
<1>4. Alone
  BY <1>1, <1>2 DEF Init, Alone, InCommand, Reconnecting, Usable
<1>5. Located
  BY <1>2 DEF Init, Located, Away
<1> QED BY <1>3, <1>4, <1>5 DEF IInv, Orderly

-----------------------------------------------------------------------------
(* The types, and the mutex                                                *)

LEMMA FaultStep == IInv /\ Fault => Basic'
BY DEF Fault, client, server, IInv, Basic, Types, OneHolder, SixSelects, Place, InCommand

LEMMA LockStep ==
  ASSUME IInv, NEW t \in Thread, Lock(t) \/ Full(t) \/ Issue(t), ~Fault
  PROVE  Basic'
<1>1. Types'
  BY DEF Lock, Full, Issue, UnlockAndReturn, Return, Goto, With, Usable, client, server,
         IInv, Basic, Types, Place, InCommand
<1>2. OneHolder' /\ SixSelects'
  BY DEF Lock, Full, Issue, UnlockAndReturn, Return, Goto, With, Usable, client, server,
         IInv, Basic, Types, OneHolder, SixSelects, InCommand
<1> QED BY <1>1, <1>2 DEF Basic

LEMMA EnterStep ==
  ASSUME IInv, NEW t \in Thread,
         (\E op \in Kind, k \in Key \cup {NULL} : Enter(t, op, k)) \/ EnterInit(t)
  PROVE  Basic'
<1>1. /\ pc[t] = "idle" /\ UNCHANGED <<hdl, mutex, ctx, db, astray>>
      /\ \E place \in {"lock", "init", "uninit"} : pc' = [pc EXCEPT ![t] = place]
      /\ \E op \in Kind : kind' = [kind EXCEPT ![t] = op]
      /\ \E c \in Context \cup {NULL} : mine' = [mine EXCEPT ![t] = c]
      /\ overlap' \in BOOLEAN
  <2>1. ASSUME NEW op \in Kind, NEW k \in Key \cup {NULL}, Enter(t, op, k) PROVE <1>1!:
    BY <2>1 DEF Enter, Goto, Overlapping, client, server, IInv, Basic, Types
  <2>2. ASSUME EnterInit(t) PROVE <1>1!:
    <3>1. mine' = [mine EXCEPT ![t] = mine[t]] /\ mine[t] \in Context \cup {NULL}
      BY <2>2 DEF EnterInit, IInv, Basic, Types
    <3> QED BY <2>2, <3>1 DEF EnterInit, Goto, Overlapping, client, server, Kind, IInv, Basic,
    Types
  <2> QED BY <2>1, <2>2
<1>2. Types'
  BY <1>1 DEF IInv, Basic, Types, Place, Reconnecting
<1>3. OneHolder' /\ SixSelects'
  BY <1>1 DEF IInv, Basic, Types, OneHolder, SixSelects, InCommand
<1> QED BY <1>2, <1>3 DEF Basic

LEMMA AnswerStep ==
  ASSUME IInv, NEW t \in Thread, Answered(t) \/ Refused(t) \/ Drained(t)
  PROVE  Basic'
<1>1. Types'
  BY DEF Answered, Refused, Drained, Answering, With, UnlockAndReturn, Return, Goto, client,
         server, thread,
         IInv, Basic, Types, Place, Kind, Home, Dvr, InCommand
<1>2. OneHolder' /\ SixSelects'
  BY DEF Answered, Refused, Drained, Answering, With, UnlockAndReturn, Return, Goto, client,
         server, thread,
         IInv, Basic, Types, OneHolder, SixSelects, InCommand
<1> QED BY <1>1, <1>2 DEF Basic

LEMMA SelectStep ==
  ASSUME IInv, NEW t \in Thread, Selected(t) \/ SelectedBack(t) \/ SelectRefused(t)
  PROVE  Basic'
<1>1. Types'
  BY DEF Selected, SelectedBack, SelectRefused, Answering, Usable, With, UnlockAndReturn,
         Return, Goto, client, server, thread,
         IInv, Basic, Types, Place, Kind, Home, Dvr, InCommand
<1>2. OneHolder' /\ SixSelects'
  BY DEF Selected, SelectedBack, SelectRefused, Answering, Usable, With, UnlockAndReturn,
         Return, Goto, client, server, thread,
         IInv, Basic, Types, OneHolder, SixSelects, InCommand
<1> QED BY <1>1, <1>2 DEF Basic

LEMMA BreakStep ==
  ASSUME IInv, NEW t \in Thread, Break(t)
  PROVE  Basic'
<1>1. Types'
  BY DEF Break, Answering, client, server, thread,
         IInv, Basic, Types, Place, Kind, Home, Dvr
<1>2. OneHolder' /\ SixSelects'
  BY DEF Break, Answering, client, server, thread,
         IInv, Basic, Types, OneHolder, SixSelects, InCommand
<1> QED BY <1>1, <1>2 DEF Basic

LEMMA LostStep ==
  ASSUME IInv, NEW t \in Thread, Lost(t) \/ Ignored(t)
  PROVE  Basic'
<1>1. Types'
  BY DEF Lost, Ignored, Broken, Reconnect, Overlapping, With, UnlockAndReturn, Return, Goto,
         client, server, thread,
         IInv, Basic, Types, Place, Kind, Home, Dvr, InCommand, Reconnecting
<1>2. OneHolder' /\ SixSelects'
  BY DEF Lost, Ignored, Broken, Reconnect, Overlapping, With, UnlockAndReturn, Return, Goto,
         client, server, thread,
         IInv, Basic, Types, OneHolder, SixSelects, InCommand
<1> QED BY <1>1, <1>2 DEF Basic

LEMMA UninitStep ==
  ASSUME IInv, NEW t \in Thread, Uninit(t) \/ Free(t) \/ Forget(t) \/ Destroy(t), ~Fault
  PROVE  Basic'
<1>1. Types'
  BY DEF Uninit, Free, Forget, Destroy, Uninited, Return, Goto, client, server, thread,
         IInv, Basic, Types, Place, Kind, Home, Dvr, Other, Reconnecting
<1>2. OneHolder' /\ SixSelects'
  BY DEF Uninit, Free, Forget, Destroy, Uninited, Return, Goto, client, server, thread,
         IInv, Basic, Types, OneHolder, SixSelects, InCommand
<1> QED BY <1>1, <1>2 DEF Basic

LEMMA InitStep ==
  ASSUME IInv, NEW t \in Thread,
         InitTest(t) \/ ConnectFails(t) \/ Connect(t) \/ Publish(t) \/ Handle(t), ~Fault
  PROVE  Basic'
<1>1. Types'
  BY DEF InitTest, ConnectFails, Connect, Publish, Handle, With, Return, Goto, client, server,
         thread,
         IInv, Basic, Types, Place, Kind, Home, Dvr, Other, Reconnecting
<1>2. OneHolder' /\ SixSelects'
  BY DEF InitTest, ConnectFails, Connect, Publish, Handle, With, Return, Goto, client, server,
         thread,
         IInv, Basic, Types, OneHolder, SixSelects, InCommand
<1> QED BY <1>1, <1>2 DEF Basic

LEMMA BasicNext == IInv /\ [Next]_vars => Basic'
<1> SUFFICES ASSUME IInv, [Next]_vars PROVE Basic'
  OBVIOUS
<1>1. CASE UNCHANGED vars
  BY <1>1 DEF vars, client, server, thread, IInv, Basic, Types, OneHolder, SixSelects
<1>2. CASE Fault
  BY <1>2, FaultStep
<1>3. ASSUME ~Fault, NEW t \in Thread, Call(t) \/ Run(t) \/ Break(t) PROVE Basic'
  BY <1>3, EnterStep, LockStep, AnswerStep, SelectStep, BreakStep, LostStep, UninitStep,
     InitStep DEF Call, Run, LockDestroyed, WaitOnFreed
<1> QED BY <1>1, <1>2, <1>3 DEF Next

-----------------------------------------------------------------------------
(* Without an overlap                                                      *)

LEMMA EnterAlone ==
  ASSUME IInv, NEW t \in Thread, ~overlap', NEW op \in Kind, NEW k \in Key \cup {NULL},
         Enter(t, op, k)
  PROVE  Alone'
  BY DEF Enter, Goto, Overlapping, client, server, thread,
         IInv, Basic, Types, OneHolder, InCommand, Orderly, Alone, Reconnecting, Usable

LEMMA EnterInitAlone ==
  ASSUME IInv, NEW t \in Thread, ~overlap', EnterInit(t)
  PROVE  Alone'
<1>1. /\ pc[t] = "idle" /\ UNCHANGED <<hdl, mutex, ctx, mine>>
      /\ \E place \in {"init", "uninit"} : pc' = [pc EXCEPT ![t] = place]
  BY DEF EnterInit, Goto, client, server, IInv, Basic, Types
<1>2. pc' \in [Thread -> Place] /\ pc'[t] \in {"init", "uninit"}
  BY <1>1 DEF IInv, Basic, Types, Place, Reconnecting
<1>3. ~overlap /\ \A u \in Thread \ {t} : pc[u] = "idle"
  BY <1>2 DEF EnterInit, Overlapping, Reconnecting, IInv, Basic, Types
<1>4. \A u \in Thread \ {t} : pc'[u] = "idle"
  BY <1>1, <1>3 DEF IInv, Basic, Types
<1>5. hdl # NULL => Usable(hdl) /\ mutex # "destroyed"
  BY <1>1, <1>3 DEF IInv, Orderly, Alone
<1>6. mutex \notin Thread
  BY <1>1, <1>3 DEF IInv, Orderly, Alone, InCommand
<1> QED
  BY <1>1, <1>2, <1>4, <1>5, <1>6 DEF Alone, Usable, InCommand, Reconnecting

LEMMA LockAlone ==
  ASSUME IInv, NEW t \in Thread, ~overlap', Lock(t)
  PROVE  Alone'
  BY DEF Lock, Goto, client, server, thread,
         IInv, Basic, Types, OneHolder, InCommand, Orderly, Alone, Reconnecting, Usable

LEMMA FullAlone ==
  ASSUME IInv, NEW t \in Thread, ~overlap', Full(t)
  PROVE  Alone'
  BY DEF Full, UnlockAndReturn, Return, Goto, client, server, thread,
         IInv, Basic, Types, OneHolder, InCommand, Orderly, Alone, Reconnecting, Usable

LEMMA IssueAlone ==
  ASSUME IInv, NEW t \in Thread, ~overlap', Issue(t)
  PROVE  Alone'
  BY DEF Issue, With, Goto, Fault, client, server, thread,
         IInv, Basic, Types, OneHolder, InCommand, Orderly, Alone, Reconnecting, Usable

LEMMA NoFaultAlone ==
  ASSUME IInv, NEW t \in Thread, ~overlap', LockDestroyed(t) \/ WaitOnFreed(t)
  PROVE  Alone'
  BY DEF LockDestroyed, WaitOnFreed, Fault, client, server, thread,
         IInv, Basic, Types, OneHolder, InCommand, Orderly, Alone, Reconnecting, Usable

LEMMA AnsweredAlone ==
  ASSUME IInv, NEW t \in Thread, ~overlap', Answered(t)
  PROVE  Alone'
  BY DEF Answered, Answering, With, UnlockAndReturn, Return, Goto, client, server, thread,
         IInv, Basic, Types, OneHolder, InCommand, Orderly, Alone, Reconnecting, Usable

LEMMA RefusedAlone ==
  ASSUME IInv, NEW t \in Thread, ~overlap', Refused(t)
  PROVE  Alone'
  BY DEF Refused, Answering, With, UnlockAndReturn, Return, Goto, client, server, thread,
         IInv, Basic, Types, OneHolder, InCommand, Orderly, Alone, Reconnecting, Usable

LEMMA DrainedAlone ==
  ASSUME IInv, NEW t \in Thread, ~overlap', Drained(t)
  PROVE  Alone'
  BY DEF Drained, UnlockAndReturn, Return, Goto, client, server, thread,
         IInv, Basic, Types, OneHolder, InCommand, Orderly, Alone, Reconnecting, Usable

LEMMA SelectAlone ==
  ASSUME IInv, NEW t \in Thread, ~overlap', Selected(t) \/ SelectedBack(t) \/ SelectRefused(t)
  PROVE  Alone'
  BY DEF Selected, SelectedBack, SelectRefused, Answering, With, UnlockAndReturn, Return, Goto,
         client, server, thread,
         IInv, Basic, Types, OneHolder, InCommand, Orderly, Alone, Reconnecting, Usable

LEMMA BreakAlone ==
  ASSUME IInv, NEW t \in Thread, ~overlap', Break(t)
  PROVE  Alone'
  BY DEF Break, Answering, client, server, thread,
         IInv, Basic, Types, OneHolder, InCommand, Orderly, Alone, Reconnecting, Usable

LEMMA LostAlone ==
  ASSUME IInv, NEW t \in Thread, ~overlap', Lost(t)
  PROVE  Alone'
<1>1. /\ pc[t] \in InCommand /\ pc' = [pc EXCEPT ![t] = "uninit"]
      /\ mine' = [mine EXCEPT ![t] = NULL] /\ mutex' = NULL
      /\ UNCHANGED <<hdl, ctx>>
  BY DEF Lost, Broken, Reconnect, Goto, server, InCommand
<1>2. pc'[t] = "uninit" /\ \A u \in Thread \ {t} : pc'[u] = pc[u]
  BY <1>1 DEF IInv, Basic, Types
<1>3. ~overlap /\ \A u \in Thread \ {t} : pc[u] = "idle"
  BY <1>2 DEF Lost, Reconnect, Overlapping, Reconnecting
<1>4. Usable(hdl)
  BY <1>1, <1>3 DEF IInv, Orderly, Alone
<1> QED
  BY <1>1, <1>2, <1>3, <1>4 DEF Alone, Usable, InCommand, Reconnecting

LEMMA IgnoredAlone ==
  ASSUME IInv, NEW t \in Thread, ~overlap', Ignored(t)
  PROVE  Alone'
  BY DEF Ignored, Broken, With, UnlockAndReturn, Return, Goto, client, server, thread,
         IInv, Basic, Types, OneHolder, InCommand, Orderly, Alone, Reconnecting, Usable

LEMMA UninitAlone ==
  ASSUME IInv, NEW t \in Thread, ~overlap', Uninit(t)
  PROVE  Alone'
  BY DEF Uninit, Uninited, Return, Goto, client, server, thread,
         IInv, Basic, Types, OneHolder, InCommand, Orderly, Alone, Reconnecting, Usable

LEMMA FreeAlone ==
  ASSUME IInv, NEW t \in Thread, ~overlap', Free(t)
  PROVE  Alone'
  BY DEF Free, Goto, Fault, client, server, thread,
         IInv, Basic, Types, OneHolder, InCommand, Orderly, Alone, Reconnecting, Usable

LEMMA ForgetAlone ==
  ASSUME IInv, NEW t \in Thread, ~overlap', Forget(t)
  PROVE  Alone'
  BY DEF Forget, Goto, client, server, thread,
         IInv, Basic, Types, OneHolder, InCommand, Orderly, Alone, Reconnecting, Usable

LEMMA DestroyAlone ==
  ASSUME IInv, NEW t \in Thread, ~overlap', Destroy(t)
  PROVE  Alone'
  BY DEF Destroy, Uninited, Return, Goto, Fault, client, server, thread,
         IInv, Basic, Types, OneHolder, InCommand, Orderly, Alone, Reconnecting, Usable

LEMMA InitAlone ==
  ASSUME IInv, NEW t \in Thread, ~overlap', InitTest(t) \/ ConnectFails(t)
  PROVE  Alone'
  BY DEF InitTest, ConnectFails, Return, Goto, client, server, thread,
         IInv, Basic, Types, OneHolder, InCommand, Orderly, Alone, Reconnecting, Usable

LEMMA PublishAlone ==
  ASSUME IInv, NEW t \in Thread, ~overlap', Publish(t)
  PROVE  Alone'
  BY DEF Publish, Goto, Fault, client, server, thread,
         IInv, Basic, Types, OneHolder, InCommand, Orderly, Alone, Reconnecting, Usable

LEMMA HandleAlone ==
  ASSUME IInv, NEW t \in Thread, ~overlap', Handle(t)
  PROVE  Alone'
  BY DEF Handle, Return, Goto, client, server, thread,
         IInv, Basic, Types, OneHolder, InCommand, Orderly, Alone, Reconnecting, Usable

LEMMA ConnectAlone ==
  ASSUME IInv, NEW t \in Thread, ~overlap', Connect(t)
  PROVE  Alone'
<1>1. PICK c \in Context, base \in {Home, Other}, state \in {"open", "broken"} :
        /\ pc[t] = "connect" /\ pc' = [pc EXCEPT ![t] = "publish"]
        /\ mine' = [mine EXCEPT ![t] = c]
        /\ ctx' = [ctx EXCEPT ![c] = state]
        /\ UNCHANGED <<hdl, mutex, overlap>>
  BY DEF Connect, With, Goto, client
<1> QED
  BY <1>1 DEF IInv, Basic, Types, InCommand, Orderly, Alone, Reconnecting, Usable

LEMMA AloneNext == IInv /\ [Next]_vars => Orderly'
<1> SUFFICES ASSUME IInv, [Next]_vars, ~overlap' PROVE Alone'
  BY DEF Orderly
<1>1. CASE UNCHANGED vars
  BY <1>1 DEF vars, client, server, thread, IInv, Orderly, Alone, Usable
<1>2. ASSUME NEW t \in Thread, Call(t) PROVE Alone'
  BY <1>2, EnterAlone, EnterInitAlone DEF Call
<1>3. ASSUME NEW t \in Thread, Run(t) \/ Break(t) PROVE Alone'
  BY <1>3, LockAlone, FullAlone, IssueAlone, NoFaultAlone, AnsweredAlone, RefusedAlone,
     DrainedAlone, SelectAlone, BreakAlone, LostAlone, IgnoredAlone, UninitAlone, FreeAlone,
     ForgetAlone, DestroyAlone, InitAlone, ConnectAlone, PublishAlone, HandleAlone DEF Run
<1> QED BY <1>1, <1>2, <1>3 DEF Next

-----------------------------------------------------------------------------
(* The databases                                                           *)

LEMMA EnterLocated ==
  ASSUME IInv, NEW t \in Thread, ~overlap', NEW op \in Kind, NEW k \in Key \cup {NULL},
         Enter(t, op, k)
  PROVE  Located'
  BY DEF Enter, Goto, Overlapping, client, server, thread,
         IInv, Basic, Types, OneHolder, SixSelects, InCommand, Orderly, Alone, Located, Known,
         Away, Reconnecting, Usable, Home, Dvr

LEMMA EnterInitLocated ==
  ASSUME IInv, NEW t \in Thread, ~overlap', EnterInit(t)
  PROVE  Located'
  BY DEF EnterInit, Goto, Overlapping, client, server, thread,
         IInv, Basic, Types, OneHolder, SixSelects, InCommand, Orderly, Alone, Located, Known,
         Away, Reconnecting, Usable, Home, Dvr

LEMMA LockLocated ==
  ASSUME IInv, NEW t \in Thread, ~overlap', Lock(t) \/ Full(t)
  PROVE  Located'
  BY DEF Lock, Full, UnlockAndReturn, Return, Goto, client, server, thread,
         IInv, Basic, Types, OneHolder, SixSelects, InCommand, Orderly, Alone, Located, Known,
         Away, Reconnecting, Usable, Home, Dvr

LEMMA IssueLocated ==
  ASSUME IInv, NEW t \in Thread, ~overlap', Issue(t)
  PROVE  Located'
  BY DEF Issue, With, Goto, Fault, client, server, thread,
         IInv, Basic, Types, OneHolder, SixSelects, InCommand, Orderly, Alone, Located, Known,
         Away, Reconnecting, Usable, Home, Dvr

LEMMA NoFaultLocated ==
  ASSUME IInv, NEW t \in Thread, ~overlap', LockDestroyed(t) \/ WaitOnFreed(t)
  PROVE  Located'
  BY DEF LockDestroyed, WaitOnFreed, Fault, client, server, thread,
         IInv, Basic, Types, OneHolder, SixSelects, InCommand, Orderly, Alone, Located, Known,
         Away, Reconnecting, Usable, Home, Dvr

LEMMA AnsweredLocated ==
  ASSUME IInv, NEW t \in Thread, ~overlap', Answered(t) \/ Refused(t) \/ Drained(t)
  PROVE  Located'
  BY DEF Answered, Refused, Drained, Answering, With, UnlockAndReturn, Return, Goto, client,
         server, thread,
         IInv, Basic, Types, OneHolder, SixSelects, InCommand, Orderly, Alone, Located, Known,
         Away, Reconnecting, Usable, Home, Dvr

LEMMA SelectedLocated ==
  ASSUME IInv, NEW t \in Thread, ~overlap', Selected(t)
  PROVE  Located'
  BY DEF Selected, Answering, With, Goto, client, server, thread,
         IInv, Basic, Types, OneHolder, SixSelects, InCommand, Orderly, Alone, Located, Known,
         Away, Reconnecting, Usable, Home, Dvr

LEMMA SelectedBackLocated ==
  ASSUME IInv, NEW t \in Thread, ~overlap', SelectedBack(t)
  PROVE  Located'
  BY DEF SelectedBack, Answering, UnlockAndReturn, Return, Goto, client, server, thread,
         IInv, Basic, Types, OneHolder, SixSelects, InCommand, Orderly, Alone, Located, Known,
         Away, Reconnecting, Usable, Home, Dvr

LEMMA SelectRefusedLocated ==
  ASSUME IInv, NEW t \in Thread, ~overlap', SelectRefused(t)
  PROVE  Located'
  BY DEF SelectRefused, Answering, With, UnlockAndReturn, Return, Goto, client, server, thread,
         IInv, Basic, Types, OneHolder, SixSelects, InCommand, Orderly, Alone, Located, Known,
         Away, Reconnecting, Usable, Home, Dvr

LEMMA BreakLocated ==
  ASSUME IInv, NEW t \in Thread, ~overlap', Break(t)
  PROVE  Located'
  BY DEF Break, Answering, client, server, thread,
         IInv, Basic, Types, OneHolder, SixSelects, InCommand, Orderly, Alone, Located, Known,
         Away, Reconnecting, Usable, Home, Dvr

LEMMA LostLocated ==
  ASSUME IInv, NEW t \in Thread, ~overlap', Lost(t)
  PROVE  Located'
  BY DEF Lost, Broken, Reconnect, Overlapping, Goto, client, server, thread,
         IInv, Basic, Types, OneHolder, SixSelects, InCommand, Orderly, Alone, Located, Known,
         Away, Reconnecting, Usable, Home, Dvr

LEMMA IgnoredLocated ==
  ASSUME IInv, NEW t \in Thread, ~overlap', Ignored(t)
  PROVE  Located'
  BY DEF Ignored, Broken, With, UnlockAndReturn, Return, Goto, client, server, thread,
         IInv, Basic, Types, OneHolder, SixSelects, InCommand, Orderly, Alone, Located, Known,
         Away, Reconnecting, Usable, Home, Dvr

LEMMA UninitLocated ==
  ASSUME IInv, NEW t \in Thread, ~overlap', Uninit(t) \/ Forget(t) \/ Destroy(t)
  PROVE  Located'
  BY DEF Uninit, Forget, Destroy, Uninited, Return, Goto, Fault, client, server, thread,
         IInv, Basic, Types, OneHolder, SixSelects, InCommand, Orderly, Alone, Located, Known,
         Away, Reconnecting, Usable, Home, Dvr

LEMMA FreeLocated ==
  ASSUME IInv, NEW t \in Thread, ~overlap', Free(t)
  PROVE  Located'
  BY DEF Free, Goto, Fault, client, server, thread,
         IInv, Basic, Types, OneHolder, SixSelects, InCommand, Orderly, Alone, Located, Known,
         Away, Reconnecting, Usable, Home, Dvr

LEMMA InitLocated ==
  ASSUME IInv, NEW t \in Thread, ~overlap', InitTest(t) \/ ConnectFails(t)
  PROVE  Located'
  BY DEF InitTest, ConnectFails, Return, Goto, client, server, thread,
         IInv, Basic, Types, OneHolder, SixSelects, InCommand, Orderly, Alone, Located, Known,
         Away, Reconnecting, Usable, Home, Dvr

LEMMA PublishLocated ==
  ASSUME IInv, NEW t \in Thread, ~overlap', Publish(t)
  PROVE  Located'
  BY DEF Publish, Goto, Fault, client, server, thread,
         IInv, Basic, Types, OneHolder, SixSelects, InCommand, Orderly, Alone, Located, Known,
         Away, Reconnecting, Usable, Home, Dvr

LEMMA HandleLocated ==
  ASSUME IInv, NEW t \in Thread, ~overlap', Handle(t)
  PROVE  Located'
  BY DEF Handle, Return, Goto, client, server, thread,
         IInv, Basic, Types, OneHolder, SixSelects, InCommand, Orderly, Alone, Located, Known,
         Away, Reconnecting, Usable, Home, Dvr

LEMMA ConnectLocated ==
  ASSUME IInv, NEW t \in Thread, ~overlap', Connect(t)
  PROVE  Located'
  BY DEF Connect, With, Goto, Other, client, server, thread,
         IInv, Basic, Types, OneHolder, SixSelects, InCommand, Orderly, Alone, Located, Known,
         Away, Reconnecting, Usable, Home, Dvr

LEMMA LocatedNext == IInv /\ [Next]_vars => Located'
<1> SUFFICES ASSUME IInv, [Next]_vars, ~overlap' PROVE Located'
  BY DEF Located
<1>1. CASE UNCHANGED vars
  BY <1>1 DEF vars, client, server, thread, IInv, Located, Known, Away
<1>2. ASSUME NEW t \in Thread, Call(t) PROVE Located'
  BY <1>2, EnterLocated, EnterInitLocated DEF Call
<1>3. ASSUME NEW t \in Thread, Run(t) \/ Break(t) PROVE Located'
  BY <1>3, LockLocated, IssueLocated, NoFaultLocated, AnsweredLocated, SelectedLocated,
     SelectedBackLocated, SelectRefusedLocated, BreakLocated, LostLocated, IgnoredLocated,
     UninitLocated, FreeLocated, InitLocated, ConnectLocated, PublishLocated,
     HandleLocated DEF Run
<1> QED BY <1>1, <1>2, <1>3 DEF Next

LEMMA IInvariant == Spec => []IInv
<1>1. IInv /\ [Next]_vars => IInv'
  BY BasicNext, AloneNext, LocatedNext DEF IInv
<1> QED BY <1>1, InitIInv, PTL DEF Spec

LEMMA IInvImplies == IInv => FaultNeedsOverlap /\ RightDb
<1> SUFFICES ASSUME IInv PROVE FaultNeedsOverlap /\ RightDb
  OBVIOUS
<1>1. FaultNeedsOverlap
  BY DEF IInv, Orderly, Alone, FaultNeedsOverlap
<1>2. ASSUME ~overlap, NEW t \in Thread, pc[t] = "command", mine[t] # NULL,
             ctx[mine[t]] = "open", mine[t] \notin astray
      PROVE  db[mine[t]] = IF kind[t] = "six" THEN Dvr ELSE Home
  <2>1. mine[t] = hdl /\ Known(hdl)
    BY <1>2 DEF IInv, Basic, Types, Orderly, Alone, InCommand, Known
  <2>2. db[hdl] = IF Away THEN Dvr ELSE Home
    BY <1>2, <2>1 DEF IInv, Located
  <2>3. \A u \in Thread : pc[u] \in InCommand => u = t
    BY <1>2 DEF IInv, Basic, OneHolder, InCommand
  <2>4. Away <=> kind[t] = "six"
    BY <1>2, <2>3 DEF Away, InCommand
  <2> QED BY <2>1, <2>2, <2>4
<1> QED BY <1>1, <1>2 DEF RightDb

(* Used by one thread at a time around reconnections, the client never     *)
(* touches a freed context or a mutex it may not                           *)
(* (redis_api.cpp:134-201, and the failing branch of every call).          *)
THEOREM SafeWithoutOverlap == Spec => []FaultNeedsOverlap
<1>1. IInv => FaultNeedsOverlap
  BY IInvImplies
<1> QED BY <1>1, IInvariant, PTL

(* Used by several threads, as long as no call runs while another one      *)
(* reconnects, every command on a connection without a refused SELECT      *)
(* reaches the database it is meant for, whatever becomes of the commands  *)
(* before it (redis_api.cpp:178-179, 584-744).                             *)
THEOREM CommandsReachTheirDb == Spec => []RightDb
<1>1. IInv => RightDb
  BY IInvImplies
<1> QED BY <1>1, IInvariant, PTL

-----------------------------------------------------------------------------
(* The limits.  The pushes that the server may still carry out, and the    *)
(* pops that may still lower the counter.                                  *)
Pushing(k) ==
  {t \in Thread : /\ kind[t] = "rpush" /\ key[t] = k
                  /\ \/ pc[t] = "lock"
                     \/ pc[t] = "command" /\ (mine[t] = NULL \/ ctx[mine[t]] = "open")}

Popping == {t \in Thread : kind[t] = "lpop" /\ pc[t] \in {"lock", "command"}}

(* Whoever pushes found room, and holds the mutex since then.              *)
PushHasRoom ==
  \A t \in Thread : pc[t] = "command" /\ kind[t] = "rpush" => count < MAX_QUEUE_SIZE

PushesFit == \A k \in Key : len[k] + Cardinality(Pushing(k)) <= MaxLength

PopsFit == Cardinality(Popping) <= MaxPops /\ Cardinality(Popping) <= count + MaxPops

CallsNameQueue ==
  \A t \in Thread :
    kind[t] \in {"rpush", "lpop"} /\ pc[t] \in {"lock", "command"} => key[t] \in Key

Limits ==
  /\ count \in Int /\ count <= MAX_QUEUE_SIZE
  /\ len \in [Key -> Nat]
  /\ key \in [Thread -> Key \cup {NULL}]
  /\ troubles \in 0..MaxTroubles /\ exact \in BOOLEAN

LimitInv == Limits /\ PushHasRoom /\ PushesFit /\ PopsFit /\ CallsNameQueue

LEMMA TroubleFits ==
  ASSUME LimitInv, Trouble
  PROVE  troubles' \in 0..MaxTroubles
BY SizeAssumption DEF Trouble, LimitInv, Limits

LEMMA CountedSets ==
  ASSUME NEW S \in SUBSET Thread
  PROVE  /\ IsFiniteSet(S) /\ Cardinality(S) \in Nat
         /\ \A T \in SUBSET S : Cardinality(T) <= Cardinality(S) /\ Cardinality(T) \in Nat
         /\ \A t \in Thread : Cardinality(S \cup {t}) <= Cardinality(S) + 1
         /\ \A t \in S : Cardinality(S \ {t}) = Cardinality(S) - 1
<1>1. IsFiniteSet(S)
  BY ThreadAssumption, FS_Subset
<1>2. \A T \in SUBSET S : IsFiniteSet(T) /\ Cardinality(T) <= Cardinality(S)
  BY <1>1, FS_Subset
<1>3. \A T \in SUBSET S : Cardinality(T) \in Nat
  BY <1>2, FS_CardinalityType
<1>4. Cardinality(S) \in Nat
  BY <1>3
<1>5. \A t \in Thread : Cardinality(S \cup {t}) <= Cardinality(S) + 1
  <2>1. \A t \in Thread :
          Cardinality(S \cup {t}) = IF t \in S THEN Cardinality(S) ELSE Cardinality(S) + 1
    BY <1>1, FS_AddElement
  <2>2. QED
    BY <1>4, <2>1
<1>6. \A t \in S : Cardinality(S \ {t}) = Cardinality(S) - 1
  BY <1>1, FS_RemoveElement
<1> QED BY <1>1, <1>2, <1>3, <1>4, <1>5, <1>6

LEMMA LimitInvSuffices == IInv /\ LimitInv => TypeOK
<1> SUFFICES ASSUME IInv, LimitInv PROVE TypeOK
  OBVIOUS
<1>1. {MAX_QUEUE_SIZE, MaxLength, MaxPops, MaxTroubles} \subseteq Nat
  BY SizeAssumption
<1>2. Popping \in SUBSET Thread /\ \A k \in Key : Pushing(k) \in SUBSET Thread
  BY DEF Popping, Pushing
<1>3. Cardinality(Popping) \in Nat /\ \A k \in Key : Cardinality(Pushing(k)) \in Nat
  BY <1>2, CountedSets
<1>4. count \in -MaxPops .. MAX_QUEUE_SIZE
  BY <1>1, <1>3 DEF LimitInv, Limits, PopsFit
<1>5. len \in [Key -> 0..MaxLength]
  BY <1>1, <1>3 DEF LimitInv, Limits, PushesFit
<1> QED BY <1>4, <1>5 DEF TypeOK, IInv, Basic, Types, LimitInv, Limits

(* Steps that start no push or pop and leave counter and queues alone.     *)
LEMMA NoNewCalls ==
  ASSUME IInv, LimitInv, UNCHANGED <<count, len>>,
         \A k \in Key : Pushing(k)' \subseteq Pushing(k), Popping' \subseteq Popping,
         PushHasRoom', CallsNameQueue',
         key' \in [Thread -> Key \cup {NULL}], troubles' \in 0..MaxTroubles, exact' \in BOOLEAN
  PROVE  LimitInv'
<1>1. {MAX_QUEUE_SIZE, MaxLength, MaxPops, MaxTroubles} \subseteq Nat
  BY SizeAssumption
<1>2. Popping \in SUBSET Thread /\ \A k \in Key : Pushing(k) \in SUBSET Thread
  BY DEF Popping, Pushing
<1>3. PopsFit'
  <2>1. /\ Cardinality(Popping') <= Cardinality(Popping)
        /\ Cardinality(Popping') \in Nat /\ Cardinality(Popping) \in Nat
    BY <1>2, CountedSets
  <2>2. QED
    BY <1>1, <2>1 DEF LimitInv, Limits, PopsFit
<1>4. PushesFit'
  <2>1. ASSUME NEW k \in Key PROVE len'[k] + Cardinality(Pushing(k)') <= MaxLength
    <3>1. /\ Cardinality(Pushing(k)') <= Cardinality(Pushing(k))
          /\ Cardinality(Pushing(k)') \in Nat /\ Cardinality(Pushing(k)) \in Nat
      BY <1>2, CountedSets
    <3>2. QED
      BY <1>1, <3>1 DEF LimitInv, Limits, PushesFit
  <2>2. QED
    BY <2>1 DEF PushesFit
<1> QED BY <1>3, <1>4 DEF LimitInv, Limits

LEMMA FaultLimits == IInv /\ LimitInv /\ Fault => LimitInv'
<1> SUFFICES ASSUME IInv, LimitInv, Fault PROVE LimitInv'
  OBVIOUS
<1>1. /\ \A t \in Thread : pc'[t] = "undefined"
      /\ key' = [t \in Thread |-> NULL] /\ UNCHANGED <<count, len, troubles, exact>>
  BY DEF Fault, client, server
<1>2. (\A k \in Key : Pushing(k)' = {}) /\ Popping' = {} /\ PushHasRoom' /\ CallsNameQueue'
  BY <1>1 DEF Pushing, Popping, PushHasRoom, CallsNameQueue
<1>3. key' \in [Thread -> Key \cup {NULL}] /\ troubles' \in 0..MaxTroubles /\ exact' \in BOOLEAN
  BY <1>1 DEF LimitInv, Limits
<1> QED BY <1>1, <1>2, <1>3, NoNewCalls

(* The counted sets after a step of t that starts no push or pop: of the   *)
(* others nothing changes, and t itself is in no set that it was not in.   *)
LEMMA OthersStay ==
  ASSUME IInv, LimitInv, NEW t \in Thread, UNCHANGED <<count, len, ctx>>,
         \A u \in Thread \ {t} :
           /\ pc'[u] = pc[u] /\ kind'[u] = kind[u] /\ key'[u] = key[u] /\ mine'[u] = mine[u],
         \/ pc'[t] \notin {"lock", "command"}
         \/ pc'[t] = "command" /\ kind'[t] \notin {"rpush", "lpop"}
         \/ /\ pc[t] = "lock" /\ pc'[t] = "command" /\ kind'[t] = kind[t] /\ key'[t] = key[t]
            /\ kind[t] = "rpush" => count < MAX_QUEUE_SIZE,
         key' \in [Thread -> Key \cup {NULL}], troubles' \in 0..MaxTroubles, exact' \in BOOLEAN
  PROVE  LimitInv'
<1>1. \A k \in Key : Pushing(k)' \subseteq Pushing(k)
  BY DEF Pushing
<1>2. Popping' \subseteq Popping
  BY DEF Popping
<1>3. PushHasRoom' /\ CallsNameQueue'
  BY DEF LimitInv, PushHasRoom, CallsNameQueue
<1> QED BY <1>1, <1>2, <1>3, NoNewCalls

LEMMA LockLimits ==
  ASSUME IInv, LimitInv, NEW t \in Thread, Lock(t) \/ Full(t), ~Fault
  PROVE  LimitInv'
<1>1. CASE Lock(t)
  <2>1. /\ pc[t] = "lock" /\ UNCHANGED <<count, len, ctx, kind, key, troubles, exact>>
        /\ \E p \in {"select", "command"} : pc' = [pc EXCEPT ![t] = p]
        /\ \A u \in Thread \ {t} : mine'[u] = mine[u]
        /\ kind[t] = "rpush" => ~(count >= MAX_QUEUE_SIZE)
    BY <1>1 DEF Lock, IsFull, Goto, server, IInv, Basic, Types
  <2>2. kind[t] = "rpush" => count < MAX_QUEUE_SIZE
    BY <2>1, SizeAssumption DEF LimitInv, Limits
  <2>3. QED
    BY <2>1, <2>2, OthersStay DEF IInv, Basic, Types, LimitInv, Limits
<1>2. CASE Full(t)
  <2>1. /\ UNCHANGED <<count, len, ctx, troubles, exact>> /\ pc' = [pc EXCEPT ![t] = "idle"]
        /\ mine' = [mine EXCEPT ![t] = NULL] /\ kind' = [kind EXCEPT ![t] = NULL]
        /\ key' = [key EXCEPT ![t] = NULL]
    BY <1>2 DEF Full, UnlockAndReturn, Return, Goto, server
  <2>2. QED
    BY <2>1, OthersStay DEF IInv, Basic, Types, LimitInv, Limits
<1> QED BY <1>1, <1>2

(* From now on the context counts for the push.                            *)
LEMMA IssueLimits ==
  ASSUME IInv, LimitInv, NEW t \in Thread, Issue(t), ~Fault
  PROVE  LimitInv'
<1>1. /\ mine[t] = NULL /\ mine' = [mine EXCEPT ![t] = hdl] /\ pc[t] # "lock"
      /\ pc' = [pc EXCEPT ![t] = pc[t]]
      /\ UNCHANGED <<count, len, ctx, kind, key, troubles, exact>>
  BY DEF Issue, With, Goto, client, server, InCommand
<1>2. pc' = pc
  BY <1>1 DEF IInv, Basic, Types
<1>3. /\ \A k \in Key : Pushing(k)' \subseteq Pushing(k)
      /\ Popping' \subseteq Popping
  BY <1>1, <1>2 DEF Pushing, Popping, IInv, Basic, Types
<1>4. PushHasRoom' /\ CallsNameQueue'
  BY <1>1, <1>2 DEF LimitInv, PushHasRoom, CallsNameQueue
<1> QED BY <1>1, <1>3, <1>4, NoNewCalls DEF LimitInv, Limits

LEMMA ReconnectLimits ==
  ASSUME IInv, LimitInv, NEW t \in Thread, ~Fault,
         \/ EnterInit(t) \/ Selected(t) \/ SelectedBack(t) \/ SelectRefused(t) \/ Lost(t) \/ Ignored(t)
         \/ Uninit(t) \/ Forget(t) \/ Destroy(t)
         \/ InitTest(t) \/ ConnectFails(t) \/ Publish(t) \/ Handle(t)
  PROVE  LimitInv'
<1> USE DEF IInv, Basic, Types, LimitInv, Limits, Goto, client, server
<1>1. /\ UNCHANGED <<count, len, ctx, exact>>
      /\ troubles' = troubles \/ Trouble
      /\ pc'[t] \notin {"lock", "command"} \/ (pc'[t] = "command" /\ kind'[t] = "six")
      /\ key' \in [Thread -> Key \cup {NULL}]
      /\ \A u \in Thread \ {t} :
           /\ pc'[u] = pc[u] /\ kind'[u] = kind[u] /\ key'[u] = key[u] /\ mine'[u] = mine[u]
  <2>1. CASE EnterInit(t)
    BY <2>1 DEF EnterInit
  <2>2. CASE Selected(t)
    BY <2>2 DEF Selected, Answering, With, SixSelects
  <2>3. CASE SelectedBack(t)
    BY <2>3 DEF SelectedBack, UnlockAndReturn, Return
  <2>4. CASE SelectRefused(t)
    BY <2>4 DEF SelectRefused, Answering, With, UnlockAndReturn, Return, SixSelects
  <2>5. CASE Lost(t)
    BY <2>5 DEF Lost, Reconnect
  <2>6. CASE Ignored(t)
    BY <2>6 DEF Ignored, With, UnlockAndReturn, Return
  <2>7. CASE Uninit(t)
    BY <2>7 DEF Uninit, Uninited, Return
  <2>8. CASE Forget(t) \/ Destroy(t)
    BY <2>8 DEF Forget, Destroy, Uninited, Return
  <2>9. CASE InitTest(t) \/ ConnectFails(t)
    BY <2>9 DEF InitTest, ConnectFails, Return
  <2>10. CASE Publish(t) \/ Handle(t)
    BY <2>10 DEF Publish, Handle, Return
  <2> QED BY <2>1, <2>2, <2>3, <2>4, <2>5, <2>6, <2>7, <2>8, <2>9, <2>10
<1>2. exact' \in BOOLEAN /\ troubles' \in 0..MaxTroubles
  BY <1>1, TroubleFits
<1> QED BY ONLY IInv, LimitInv, t \in Thread, <1>1, <1>2, OthersStay

LEMMA LowerOf ==
  ASSUME NEW n \in Int
  PROVE  Min({n, 0}) \in Int /\ Min({n, 0}) <= n /\ Min({n, 0}) <= 0
<1>1. \E m \in {n, 0} : \A i \in {n, 0} : m <= i
  <2>1. CASE n <= 0
    BY <2>1
  <2>2. CASE ~(n <= 0)
    BY <2>2
  <2> QED BY <2>1, <2>2
<1>2. Min({n, 0}) \in {n, 0} /\ \A i \in {n, 0} : Min({n, 0}) <= i
  BY <1>1 DEF Min
<1> QED BY <1>2

(* A call that would exceed a bound is not made.                           *)
LEMMA EnterLimits ==
  ASSUME IInv, LimitInv, NEW t \in Thread, NEW op \in Kind, NEW k \in Key \cup {NULL},
         Enter(t, op, k)
  PROVE  LimitInv'
<1>1. {MAX_QUEUE_SIZE, MaxLength, MaxPops, MaxTroubles} \subseteq Nat
  BY SizeAssumption
<1>2. /\ pc[t] = "idle" /\ pc' = [pc EXCEPT ![t] = "lock"]
      /\ kind' = [kind EXCEPT ![t] = op] /\ key' = [key EXCEPT ![t] = k]
      /\ op \in {"rpush", "lpop"} => k \in Key
      /\ \A u \in Thread \ {t} : mine'[u] = mine[u]
      /\ UNCHANGED <<count, len, ctx, troubles, exact>>
  BY DEF Enter, Goto, client, server, IInv, Basic, Types
<1>3. /\ key' \in [Thread -> Key \cup {NULL}]
      /\ \A u \in Thread \ {t} :
           /\ pc'[u] = pc[u] /\ kind'[u] = kind[u] /\ key'[u] = key[u] /\ mine'[u] = mine[u]
      /\ pc'[t] = "lock" /\ kind'[t] = op /\ key'[t] = k
  BY <1>2 DEF IInv, Basic, Types, LimitInv, Limits
<1>4. PushHasRoom' /\ CallsNameQueue'
  BY <1>2, <1>3 DEF LimitInv, PushHasRoom, CallsNameQueue
<1>5. PushesFit'
  <2>1. ASSUME NEW j \in Key PROVE len'[j] + Cardinality(Pushing(j)') <= MaxLength
    <3>1. Pushing(j) \in SUBSET Thread /\ Pushing(j)' \in SUBSET Thread
      BY DEF Pushing
    <3>2. CASE op = "rpush" /\ k = j
      <4> DEFINE E == {u \in Thread : kind[u] = "rpush" /\ key[u] \in {j}}
      <4>1. len[j] + Cardinality(E) < MaxLength
        BY <3>2 DEF Enter, Entered
      <4>2. E \in SUBSET Thread /\ Pushing(j)' \subseteq E \cup {t} /\ E \cup {t} \in SUBSET Thread
        BY <1>2, <1>3 DEF Pushing
      <4>3. /\ Cardinality(E \cup {t}) <= Cardinality(E) + 1 /\ Cardinality(E) \in Nat
            /\ Cardinality(E \cup {t}) \in Nat
            /\ Cardinality(Pushing(j)') <= Cardinality(E \cup {t})
            /\ Cardinality(Pushing(j)') \in Nat
        <5> HIDE DEF E
        <5> QED BY <4>2, CountedSets
      <4>4. QED
        BY <1>1, <1>2, <4>1, <4>3 DEF LimitInv, Limits
    <3>3. CASE ~(op = "rpush" /\ k = j)
      <4>1. Pushing(j)' \subseteq Pushing(j)
        BY <1>2, <1>3, <3>3 DEF Pushing
      <4>2. /\ Cardinality(Pushing(j)') <= Cardinality(Pushing(j))
            /\ Cardinality(Pushing(j)') \in Nat /\ Cardinality(Pushing(j)) \in Nat
        BY <3>1, <4>1, CountedSets
      <4>3. QED
        BY <1>1, <1>2, <4>2 DEF LimitInv, Limits, PushesFit
    <3> QED BY <3>2, <3>3
  <2> QED BY <2>1 DEF PushesFit
<1>6. PopsFit'
  <2>1. Popping \in SUBSET Thread /\ Popping' \in SUBSET Thread
    BY DEF Popping
  <2>2. CASE op = "lpop"
    <3> DEFINE E == {u \in Thread : kind[u] = "lpop" /\ key[u] \in Key}
    <3>1. Min({count, 0}) - Cardinality(E) > -MaxPops
      BY <2>2 DEF Enter, Entered
    <3>2. E \in SUBSET Thread /\ Popping' \subseteq E \cup {t} /\ E \cup {t} \in SUBSET Thread
      BY <1>2, <1>3 DEF Popping, LimitInv, CallsNameQueue
    <3>3. /\ Cardinality(E \cup {t}) <= Cardinality(E) + 1 /\ Cardinality(E) \in Nat
          /\ Cardinality(E \cup {t}) \in Nat
          /\ Cardinality(Popping') <= Cardinality(E \cup {t})
          /\ Cardinality(Popping') \in Nat
      <4> HIDE DEF E
      <4> QED BY <3>2, CountedSets
    <3>4. count \in Int /\ Min({count, 0}) \in Int /\ Min({count, 0}) <= count /\ Min({count,
    0}) <= 0
      BY LowerOf DEF LimitInv, Limits
    <3>5. QED
      <4> HIDE DEF E
      <4> QED BY <1>1, <1>2, <3>1, <3>3, <3>4 DEF PopsFit
  <2>3. CASE op # "lpop"
    <3>1. Popping' \subseteq Popping
      BY <1>2, <1>3, <2>3 DEF Popping
    <3>2. /\ Cardinality(Popping') <= Cardinality(Popping)
          /\ Cardinality(Popping') \in Nat /\ Cardinality(Popping) \in Nat
      BY <2>1, <3>1, CountedSets
    <3>3. QED
      BY <1>1, <1>2, <3>2 DEF LimitInv, Limits, PopsFit
  <2> QED BY <2>2, <2>3
<1> QED BY <1>2, <1>3, <1>4, <1>5, <1>6 DEF LimitInv, Limits

LEMMA FreeLimits ==
  ASSUME IInv, LimitInv, NEW t \in Thread, Free(t), ~Fault
  PROVE  LimitInv'
<1>1. /\ pc' = [pc EXCEPT ![t] = "forget"]
      /\ ctx' = [c \in Context |-> IF c = hdl THEN "freed" ELSE ctx[c]]
      /\ UNCHANGED <<count, len, kind, key, mine, troubles, exact>>
  BY DEF Free, Goto, client
<1>2. /\ \A k \in Key : Pushing(k)' \subseteq Pushing(k)
      /\ Popping' \subseteq Popping
  BY <1>1 DEF Pushing, Popping, IInv, Basic, Types
<1>3. PushHasRoom' /\ CallsNameQueue'
  BY <1>1 DEF LimitInv, PushHasRoom, CallsNameQueue, IInv, Basic, Types
<1> QED BY <1>1, <1>2, <1>3, NoNewCalls DEF LimitInv, Limits

LEMMA ConnectLimits ==
  ASSUME IInv, LimitInv, NEW t \in Thread, Connect(t)
  PROVE  LimitInv'
<1>1. {MAX_QUEUE_SIZE, MaxLength, MaxPops, MaxTroubles} \subseteq Nat
  BY SizeAssumption
<1>2. PICK c \in Context, base \in {Home, Other}, state \in {"open", "broken"} :
        /\ IsNew(c)
        /\ pc[t] = "connect" /\ pc' = [pc EXCEPT ![t] = "publish"] /\ mine' = [mine EXCEPT ![t] = c]
        /\ ctx' = [ctx EXCEPT ![c] = state]
        /\ \/ len' = [k \in Key |-> 0] /\ exact' = (count = 0)
           \/ UNCHANGED <<len, exact>>
        /\ troubles' = troubles \/ Trouble
        /\ UNCHANGED <<count, kind, key>>
  BY DEF Connect, With, Goto, client
<1>3. \A u \in Thread : pc[u] = "command" => mine[u] # c
  BY <1>2 DEF IsNew, InCommand
<1>4. troubles' \in 0..MaxTroubles /\ exact' \in BOOLEAN
  BY <1>2, TroubleFits DEF LimitInv, Limits
<1>5. /\ \A k \in Key : Pushing(k)' \subseteq Pushing(k)
      /\ Popping' \subseteq Popping
  <2>1. pc'[t] = "publish" /\ \A u \in Thread \ {t} : pc'[u] = pc[u] /\ mine'[u] = mine[u]
    BY <1>2 DEF IInv, Basic, Types
  <2>2. \A u \in Thread \ {t} : pc[u] = "command" => mine[u] = NULL \/ ctx'[mine[u]] = ctx[mine[u]]
    BY <1>2, <1>3 DEF IInv, Basic, Types
  <2>3. \A k \in Key : Pushing(k)' \subseteq Pushing(k)
    BY <1>2, <2>1, <2>2 DEF Pushing
  <2>4. Popping' \subseteq Popping
    BY <1>2, <2>1 DEF Popping
  <2> QED BY <2>3, <2>4
<1>6. PushHasRoom' /\ CallsNameQueue'
  BY <1>2 DEF LimitInv, PushHasRoom, CallsNameQueue, IInv, Basic, Types
<1>7. Popping \in SUBSET Thread /\ \A k \in Key : Pushing(k) \in SUBSET Thread
  BY DEF Popping, Pushing
<1>8. PopsFit'
  <2>1. /\ Cardinality(Popping') <= Cardinality(Popping)
        /\ Cardinality(Popping') \in Nat /\ Cardinality(Popping) \in Nat
    BY <1>5, <1>7, CountedSets
  <2>2. QED
    BY <1>1, <1>2, <2>1 DEF LimitInv, Limits, PopsFit
<1>9. PushesFit'
  <2>1. ASSUME NEW k \in Key PROVE len'[k] + Cardinality(Pushing(k)') <= MaxLength
    <3>1. /\ Cardinality(Pushing(k)') <= Cardinality(Pushing(k))
          /\ Cardinality(Pushing(k)') \in Nat /\ Cardinality(Pushing(k)) \in Nat
      BY <1>5, <1>7, CountedSets
    <3>2. len[k] \in Nat /\ (len'[k] = len[k] \/ len'[k] = 0)
      BY <1>2 DEF LimitInv, Limits
    <3>3. QED
      BY <1>1, <3>1, <3>2 DEF LimitInv, PushesFit
  <2> QED BY <2>1 DEF PushesFit
<1> QED BY <1>2, <1>4, <1>6, <1>8, <1>9 DEF LimitInv, Limits

(* What the server does to the queues: a push lengthens its own by one,    *)
(* nothing else lengthens any.                                             *)
LEMMA ExecutedQueues ==
  ASSUME LimitInv, NEW t \in Thread, Executed(t)
  PROVE  \/ kind[t] = "rpush" /\ len' = [len EXCEPT ![key[t]] = @ + 1]
         \/ len' \in [Key -> Nat] /\ \A k \in Key : len'[k] <= len[k]
<1>1. len \in [Key -> Nat]
  BY DEF LimitInv, Limits
<1>2. CASE len' = len \/ (kind[t] = "rpush" /\ len' = [len EXCEPT ![key[t]] = @ + 1])
  BY <1>1, <1>2
<1>3. CASE len[key[t]] > 0 /\ len' = [len EXCEPT ![key[t]] = @ - 1]
  <2>1. len' = [k \in Key |-> IF k = key[t] THEN len[k] - 1 ELSE len[k]]
    BY <1>1, <1>3
  <2>2. \A k \in Key : len'[k] \in Nat /\ len'[k] <= len[k]
    BY <1>1, <1>3, <2>1
  <2> QED BY <2>1, <2>2
<1>4. CASE len' = [len EXCEPT ![key[t]] = 0]
  <2>1. len' = [k \in Key |-> IF k = key[t] THEN 0 ELSE len[k]]
    BY <1>1, <1>4
  <2>2. \A k \in Key : len'[k] \in Nat /\ len'[k] <= len[k]
    BY <1>1, <2>1
  <2> QED BY <2>1, <2>2
<1>5. CASE len' = [k \in Key |-> 0]
  BY <1>1, <1>5
<1>6. \/ len' = len \/ (kind[t] = "rpush" /\ len' = [len EXCEPT ![key[t]] = @ + 1])
      \/ len[key[t]] > 0 /\ len' = [len EXCEPT ![key[t]] = @ - 1]
      \/ len' = [len EXCEPT ![key[t]] = 0]
      \/ len' = [k \in Key |-> 0]
  BY DEF Executed
<1> QED BY <1>2, <1>3, <1>4, <1>5, <1>6

(* The push of t is carried out, or another command of t; t pushes no more *)
(* and nobody else begins to.                                              *)
LEMMA ExecutedFits ==
  ASSUME LimitInv, NEW t \in Thread, Executed(t) \/ len' = len,
         kind[t] = "rpush" => key[t] \in Key /\ t \in Pushing(key[t]),
         \A k \in Key : Pushing(k)' \subseteq Pushing(k) \ {t}
  PROVE  PushesFit' /\ len' \in [Key -> Nat]
<1>1. {MAX_QUEUE_SIZE, MaxLength, MaxPops, MaxTroubles} \subseteq Nat
  BY SizeAssumption
<1>2. len \in [Key -> Nat]
  BY DEF LimitInv, Limits
<1>3. \A k \in Key : Pushing(k) \in SUBSET Thread
  BY DEF Pushing
<1>4. ASSUME NEW k \in Key PROVE
        /\ Cardinality(Pushing(k)) \in Nat /\ Cardinality(Pushing(k)') \in Nat
        /\ Cardinality(Pushing(k)') <= Cardinality(Pushing(k))
        /\ t \in Pushing(k) => Cardinality(Pushing(k)') <= Cardinality(Pushing(k)) - 1
  <2>1. /\ Pushing(k)' \subseteq Pushing(k) /\ Pushing(k) \in SUBSET Thread
        /\ Pushing(k) \ {t} \in SUBSET Thread /\ Pushing(k)' \subseteq Pushing(k) \ {t}
    BY <1>3
  <2>2. /\ Cardinality(Pushing(k)) \in Nat /\ Cardinality(Pushing(k)') \in Nat
        /\ Cardinality(Pushing(k)') <= Cardinality(Pushing(k))
        /\ Cardinality(Pushing(k)') <= Cardinality(Pushing(k) \ {t})
        /\ t \in Pushing(k) => Cardinality(Pushing(k) \ {t}) = Cardinality(Pushing(k)) - 1
    BY <2>1, CountedSets
  <2> QED BY <2>2
<1>5. CASE len' \in [Key -> Nat] /\ \A k \in Key : len'[k] <= len[k]
  <2>1. len' \in [Key -> Nat] /\ \A k \in Key : len'[k] <= len[k]
    BY <1>5
  <2>2. ASSUME NEW k \in Key PROVE len'[k] + Cardinality(Pushing(k)') <= MaxLength
    BY <1>1, <1>2, <1>4, <2>1 DEF LimitInv, PushesFit
  <2> QED BY <2>1, <2>2 DEF PushesFit
<1>6. CASE kind[t] = "rpush" /\ len' = [len EXCEPT ![key[t]] = @ + 1]
  <2>1. len' = [len EXCEPT ![key[t]] = @ + 1]
    BY <1>6
  <2>2. /\ len' \in [Key -> Nat] /\ len'[key[t]] = len[key[t]] + 1
        /\ \A k \in Key \ {key[t]} : len'[k] = len[k]
    BY <1>2, <1>6, <2>1
  <2>3. ASSUME NEW k \in Key PROVE len'[k] + Cardinality(Pushing(k)') <= MaxLength
    <3>1. CASE k = key[t]
      BY <1>1, <1>2, <1>4, <1>6, <2>2, <3>1 DEF LimitInv, PushesFit
    <3>2. CASE k # key[t]
      BY <1>1, <1>2, <1>4, <2>2, <3>2 DEF LimitInv, PushesFit
    <3> QED BY <3>1, <3>2
  <2> QED BY <2>2, <2>3 DEF PushesFit
<1>7. CASE len' = len
  BY <1>2, <1>5, <1>7
<1> QED BY <1>5, <1>6, <1>7, ExecutedQueues

(* The command of t, who holds the mutex, is answered.                     *)
LEMMA CommandEnds ==
  ASSUME IInv, LimitInv, NEW t \in Thread, pc[t] = "command", UNCHANGED ctx,
         \A u \in Thread \ {t} :
           /\ pc'[u] = pc[u] /\ kind'[u] = kind[u] /\ key'[u] = key[u] /\ mine'[u] = mine[u],
         \/ pc'[t] \notin {"lock", "command"}
         \/ kind'[t] \notin {"rpush", "lpop"} /\ kind'[t] = kind[t]
  PROVE  /\ \A k \in Key : Pushing(k)' \subseteq Pushing(k) \ {t}
         /\ Popping' \subseteq Popping \ {t}
         /\ PushHasRoom' /\ CallsNameQueue'
<1>1. \A u \in Thread \ {t} : pc[u] # "command"
  BY DEF IInv, Basic, OneHolder, InCommand
<1>2. \A k \in Key : Pushing(k)' \subseteq Pushing(k) \ {t}
  BY DEF Pushing
<1>3. Popping' \subseteq Popping \ {t}
  BY DEF Popping
<1>4. PushHasRoom'
  BY <1>1 DEF PushHasRoom
<1>5. CallsNameQueue'
  BY DEF LimitInv, CallsNameQueue
<1> QED BY <1>2, <1>3, <1>4, <1>5

LEMMA CountedFits ==
  ASSUME LimitInv, NEW t \in Thread, pc[t] = "command", Counted(t),
         Popping' \subseteq Popping \ {t}
  PROVE  count' \in Int /\ count' <= MAX_QUEUE_SIZE /\ PopsFit'
<1>1. {MAX_QUEUE_SIZE, MaxLength, MaxPops, MaxTroubles} \subseteq Nat
  BY SizeAssumption
<1>2. count \in Int /\ count <= MAX_QUEUE_SIZE
  BY DEF LimitInv, Limits
<1>3. /\ Popping' \subseteq Popping /\ Popping \in SUBSET Thread /\ Popping \ {t} \in SUBSET Thread
  BY DEF Popping
<1>4. /\ Cardinality(Popping) \in Nat /\ Cardinality(Popping') \in Nat
      /\ Cardinality(Popping') <= Cardinality(Popping)
      /\ Cardinality(Popping') <= Cardinality(Popping \ {t})
      /\ t \in Popping => Cardinality(Popping \ {t}) = Cardinality(Popping) - 1
  BY <1>3, CountedSets
<1>5. CASE kind[t] = "rpush"
  <2>1. count' = count + 1 /\ count < MAX_QUEUE_SIZE
    BY <1>5 DEF Counted, LimitInv, PushHasRoom
  <2> QED BY <1>1, <1>2, <1>4, <2>1 DEF LimitInv, PopsFit
<1>6. CASE kind[t] = "lpop"
  <2>1. count' = count - 1 /\ t \in Popping
    BY <1>6 DEF Counted, Popping
  <2> QED BY <1>1, <1>2, <1>4, <2>1 DEF LimitInv, PopsFit
<1>7. CASE kind[t] \notin {"rpush", "lpop"}
  <2>1. count' = count
    BY <1>7 DEF Counted
  <2> QED BY <1>1, <1>2, <1>4, <2>1 DEF LimitInv, PopsFit
<1> QED BY <1>5, <1>6, <1>7

LEMMA AnswerLimits ==
  ASSUME IInv, LimitInv, NEW t \in Thread, Answered(t) \/ Refused(t)
  PROVE  LimitInv'
<1> DEFINE Others == \A u \in Thread \ {t} :
             /\ pc'[u] = pc[u] /\ kind'[u] = kind[u] /\ key'[u] = key[u] /\ mine'[u] = mine[u]
           Over == \/ pc'[t] \notin {"lock", "command"}
                   \/ kind'[t] \notin {"rpush", "lpop"} /\ kind'[t] = kind[t]
<1>1. /\ pc[t] = "command" /\ mine[t] \in Context /\ ctx[mine[t]] = "open"
      /\ Counted(t) /\ (Executed(t) \/ len' = len) /\ UNCHANGED <<ctx, troubles>>
  BY DEF Answered, Refused, Answering, Usable, server, IInv, Basic, Types
<1>2. exact' \in BOOLEAN
  <2>1. CASE Answered(t)
    BY <2>1 DEF Answered, LimitInv, Limits
  <2>2. CASE Refused(t)
    BY <2>2 DEF Refused, LimitInv, Limits
  <2> QED BY <2>1, <2>2
<1>3. \/ With(t, NULL, "command") /\ kind[t] = "drain"
      \/ With(t, NULL, "back")
      \/ Return(t)
  <2>1. CASE Answered(t)
    BY <2>1 DEF Answered, UnlockAndReturn
  <2>2. CASE Refused(t)
    BY <2>2 DEF Refused, UnlockAndReturn
  <2> QED BY <2>1, <2>2
<1>4. Others /\ Over /\ key' \in [Thread -> Key \cup {NULL}]
  BY <1>3 DEF With, Return, Goto, IInv, Basic, Types, LimitInv, Limits
<1>5. /\ \A k \in Key : Pushing(k)' \subseteq Pushing(k) \ {t}
      /\ Popping' \subseteq Popping \ {t}
      /\ PushHasRoom' /\ CallsNameQueue'
  BY <1>1, <1>4, CommandEnds
<1>6. kind[t] = "rpush" => key[t] \in Key /\ t \in Pushing(key[t])
  BY <1>1 DEF LimitInv, CallsNameQueue, Pushing
<1>7. PushesFit' /\ len' \in [Key -> Nat]
  BY <1>1, <1>5, <1>6, ExecutedFits
<1>8. count' \in Int /\ count' <= MAX_QUEUE_SIZE /\ PopsFit'
  BY <1>1, <1>5, CountedFits
<1> QED BY <1>1, <1>2, <1>4, <1>5, <1>7, <1>8 DEF LimitInv, Limits

LEMMA DrainedLimits ==
  ASSUME IInv, LimitInv, NEW t \in Thread, Drained(t)
  PROVE  LimitInv'
<1> DEFINE Others == \A u \in Thread \ {t} :
             /\ pc'[u] = pc[u] /\ kind'[u] = kind[u] /\ key'[u] = key[u] /\ mine'[u] = mine[u]
<1>1. {MAX_QUEUE_SIZE, MaxLength, MaxPops, MaxTroubles} \subseteq Nat
  BY SizeAssumption
<1>2. /\ pc[t] = "command" /\ kind[t] = "drain" /\ count' = 0 /\ exact' \in BOOLEAN
      /\ UNCHANGED <<len, ctx, troubles>> /\ Return(t)
  BY DEF Drained, UnlockAndReturn, server
<1>3. Others /\ pc'[t] = "idle" /\ key' \in [Thread -> Key \cup {NULL}]
  BY <1>2 DEF Return, Goto, IInv, Basic, Types, LimitInv, Limits
<1>4. /\ \A k \in Key : Pushing(k)' \subseteq Pushing(k) \ {t}
      /\ Popping' \subseteq Popping \ {t}
      /\ PushHasRoom' /\ CallsNameQueue'
  BY <1>2, <1>3, CommandEnds
<1>5. PushesFit'
  BY <1>2, <1>4, ExecutedFits
<1>6. PopsFit'
  <2>1. Popping' \subseteq Popping /\ Popping \in SUBSET Thread
    BY <1>4 DEF Popping
  <2>2. /\ Cardinality(Popping) \in Nat /\ Cardinality(Popping') \in Nat
        /\ Cardinality(Popping') <= Cardinality(Popping)
    BY <2>1, CountedSets
  <2> QED BY <1>1, <1>2, <2>2 DEF LimitInv, PopsFit
<1> QED BY <1>1, <1>2, <1>3, <1>4, <1>5, <1>6 DEF LimitInv, Limits

(* The server may have carried out the command before the connection broke;*)
(* it will not do so a second time.                                        *)
LEMMA BreakLimits ==
  ASSUME IInv, LimitInv, NEW t \in Thread, Break(t)
  PROVE  LimitInv'
<1>1. {MAX_QUEUE_SIZE, MaxLength, MaxPops, MaxTroubles} \subseteq Nat
  BY SizeAssumption
<1>2. /\ ctx' = [ctx EXCEPT ![mine[t]] = "broken"] /\ mine[t] \in Context
      /\ ctx[mine[t]] = "open" /\ pc[t] \in InCommand
      /\ UNCHANGED <<count, pc, kind, key, mine>>
  BY DEF Break, Answering, Usable, InCommand, client, thread, IInv, Basic, Types
<1>3. troubles' \in 0..MaxTroubles /\ exact' \in BOOLEAN
  <2>1. troubles' \in 0..MaxTroubles
    BY TroubleFits DEF Break
  <2>2. exact' = exact \/ exact' = FALSE
    BY DEF Break
  <2>3. exact' \in BOOLEAN
    BY <2>2 DEF LimitInv, Limits
  <2> QED BY <2>1, <2>3
<1>4. \/ len' = len
      \/ pc[t] = "command" /\ Executed(t)
  BY DEF Break
<1>5. \A k \in Key : Pushing(k)' \subseteq Pushing(k) \ {t}
  <2>1. \A u \in Thread \ {t} : pc[u] # "command"
    BY <1>2 DEF IInv, Basic, OneHolder, InCommand
  <2>2. pc[t] # "lock"
    BY <1>2 DEF InCommand
  <2>3. ctx'[mine[t]] # "open" /\ mine[t] # NULL
    BY <1>2 DEF IInv, Basic, Types
  <2> QED BY <1>2, <2>1, <2>2, <2>3 DEF Pushing
<1>6. Popping' = Popping /\ PushHasRoom' /\ CallsNameQueue'
  BY <1>2 DEF Popping, LimitInv, PushHasRoom, CallsNameQueue
<1>7. PopsFit'
  BY <1>2, <1>6 DEF LimitInv, PopsFit
<1>8. PushesFit' /\ len' \in [Key -> Nat]
  <2>1. CASE pc[t] = "command" /\ Executed(t)
    <3>1. kind[t] = "rpush" => key[t] \in Key /\ t \in Pushing(key[t])
      BY <1>2, <2>1 DEF LimitInv, CallsNameQueue, Pushing
    <3> QED BY <1>5, <2>1, <3>1, ExecutedFits
  <2>2. CASE len' = len
    <3>1. len \in [Key -> Nat] /\ \A k \in Key : Pushing(k) \in SUBSET Thread
      BY DEF LimitInv, Limits, Pushing
    <3>2. ASSUME NEW k \in Key PROVE len'[k] + Cardinality(Pushing(k)') <= MaxLength
      <4>1. Pushing(k)' \subseteq Pushing(k)
        BY <1>5
      <4>2. /\ Cardinality(Pushing(k)) \in Nat /\ Cardinality(Pushing(k)') \in Nat
            /\ Cardinality(Pushing(k)') <= Cardinality(Pushing(k))
        BY <3>1, <4>1, CountedSets
      <4> QED BY <1>1, <2>2, <3>1, <4>2 DEF LimitInv, PushesFit
    <3> QED BY <2>2, <3>1, <3>2 DEF PushesFit
  <2> QED BY <1>4, <2>1, <2>2
<1> QED BY <1>2, <1>3, <1>6, <1>7, <1>8 DEF LimitInv, Limits

LEMMA LimitsNext == IInv /\ LimitInv /\ [Next]_vars => LimitInv'
<1> SUFFICES ASSUME IInv, LimitInv, [Next]_vars PROVE LimitInv'
  OBVIOUS
<1>1. CASE UNCHANGED vars
  <2>1. UNCHANGED <<count, len, ctx, pc, kind, key, mine, troubles, exact>>
    BY <1>1 DEF vars, client, server, thread
  <2>2. (\A k \in Key : Pushing(k)' = Pushing(k)) /\ Popping' = Popping
    BY <2>1 DEF Pushing, Popping
  <2> QED BY <2>1, <2>2 DEF LimitInv, Limits, PushHasRoom, PushesFit, PopsFit, CallsNameQueue
<1>2. CASE Fault
  BY <1>2, FaultLimits
<1>3. ASSUME ~Fault, NEW t \in Thread, Call(t) \/ Run(t) \/ Break(t) PROVE LimitInv'
  BY <1>3, EnterLimits, LockLimits, IssueLimits, ReconnectLimits, FreeLimits, ConnectLimits,
     AnswerLimits, DrainedLimits, BreakLimits DEF Call, Run, LockDestroyed, WaitOnFreed
<1> QED BY <1>1, <1>2, <1>3 DEF Next

LEMMA LimitsHold == Spec => []LimitInv
<1>1. Init => LimitInv
  <2> SUFFICES ASSUME Init PROVE LimitInv
    OBVIOUS
  <2>1. {MAX_QUEUE_SIZE, MaxLength, MaxPops, MaxTroubles} \subseteq Nat
    BY SizeAssumption
  <2>2. /\ count = 0 /\ len = [k \in Key |-> 0] /\ troubles = 0 /\ exact = TRUE
        /\ pc = [t \in Thread |-> "idle"] /\ key = [t \in Thread |-> NULL]
    BY DEF Init
  <2>3. Popping = {} /\ \A k \in Key : Pushing(k) = {}
    BY <2>2 DEF Popping, Pushing
  <2> QED BY <2>1, <2>2, <2>3, FS_EmptySet
          DEF LimitInv, Limits, PushHasRoom, PushesFit, PopsFit, CallsNameQueue
<1> QED BY <1>1, LimitsNext, IInvariant, PTL DEF Spec

(* Type correctness, in which the limits count: the counter of the queues  *)
(* never exceeds MAX_QUEUE_SIZE, whatever the threads push, pop and        *)
(* reconnect, since the test and the count are under one lock              *)
(* (redis_api.cpp:227-262).                                                *)
THEOREM TypeCorrect == Spec => []TypeOK
BY LimitsHold, IInvariant, LimitInvSuffices, PTL

-----------------------------------------------------------------------------
(* Total as a recursive function over the sets of queues, of which it has  *)
(* to be shown that it exists.                                             *)
First(s) == CHOOSE k \in s : TRUE
Rest(s) == s \ {First(s)}
SumOf(f, g, s) == IF s = {} THEN 0 ELSE f[First(s)] + g[Rest(s)]
Sum(f) == CHOOSE g : g = [s \in SUBSET Key |-> SumOf(f, g, s)]

LEMMA TotalIsSum == Total = Sum(len)[Key] /\ Total' = Sum(len')[Key]
<1>1. Total = Sum(len)[Key]
  BY DEF Total, MapThenSumSet, MapThenFoldSet, Sum, SumOf, Rest, First
<1>2. Total' = Sum(len')[Key]
  BY DEF Total, MapThenSumSet, MapThenFoldSet, Sum, SumOf, Rest, First
<1> QED BY <1>1, <1>2

(* A family of sets of queues has a minimal member.                        *)
LEMMA Minimal ==
  ASSUME NEW B \in SUBSET (SUBSET Key), B # {}
  PROVE  \E s \in B : \A u \in SUBSET s : u # s => u \notin B
<1>1. IsWellFoundedOn(StrictSubsetOrdering(Key), SUBSET Key)
  <2>1. FiniteSubsetsOf(Key) = SUBSET Key
    BY KeyAssumption, FS_FiniteSubsetsOfFinite
  <2> QED BY <2>1, FS_StrictSubsetOrderingWellFounded
<1>2. PICK s \in B : \A u \in B : ~(<<u, s>> \in StrictSubsetOrdering(Key))
  BY <1>1, WFMin
<1> QED BY <1>2 DEF StrictSubsetOrdering

LEMMA RestIsLess ==
  ASSUME NEW s \in SUBSET Key, s # {}
  PROVE  /\ First(s) \in s /\ Rest(s) \in SUBSET Key /\ Rest(s) \in SUBSET s /\ Rest(s) # s
         /\ Cardinality(s) \in Nat /\ Cardinality(Rest(s)) = Cardinality(s) - 1
<1>1. First(s) \in s
  BY DEF First
<1>2. IsFiniteSet(s)
  BY KeyAssumption, FS_Subset
<1> QED BY <1>1, <1>2, FS_RemoveElement, FS_CardinalityType DEF Rest

LEMMA SumExists ==
  ASSUME NEW f \in [Key -> Int]
  PROVE  \E g : g = [s \in SUBSET Key |-> SumOf(f, g, s)]
<1> DEFINE UpTo(n) == \E g \in [SUBSET Key -> Int] :
                        \A s \in SUBSET Key : Cardinality(s) <= n => g[s] = SumOf(f, g, s)
           B == {s \in SUBSET Key : ~UpTo(Cardinality(s))}
<1>1. \A s \in SUBSET Key : IsFiniteSet(s) /\ Cardinality(s) \in Nat
  BY KeyAssumption, FS_Subset, FS_CardinalityType
<1>2. ASSUME B # {} PROVE FALSE
  <2>1. PICK s \in B : \A u \in SUBSET s : u # s => u \notin B
    <3> HIDE DEF B
    <3>1. B \in SUBSET (SUBSET Key)
      BY DEF B
    <3> QED BY <1>2, <3>1, Minimal
  <2>2. s \in SUBSET Key /\ ~UpTo(Cardinality(s))
    OBVIOUS
  <2>3. CASE s = {}
    <3> DEFINE g == [u \in SUBSET Key |-> 0]
    <3>1. \A u \in SUBSET Key : Cardinality(u) <= Cardinality(s) => u = {}
      BY <1>1, <2>3, FS_EmptySet
    <3>2. g \in [SUBSET Key -> Int]
      OBVIOUS
    <3>3. \A u \in SUBSET Key : Cardinality(u) <= Cardinality(s) => g[u] = SumOf(f, g, u)
      BY <3>1 DEF SumOf
    <3> HIDE DEF g
    <3> QED BY <2>2, <3>2, <3>3
  <2>4. CASE s # {}
    <3>1. UpTo(Cardinality(Rest(s)))
      BY <2>1, <2>2, <2>4, RestIsLess
    <3>2. PICK g \in [SUBSET Key -> Int] :
            \A u \in SUBSET Key : Cardinality(u) <= Cardinality(Rest(s)) => g[u] = SumOf(f, g, u)
      BY <3>1
    <3> DEFINE h == [u \in SUBSET Key |-> SumOf(f, g, u)]
    <3>3. \A u \in SUBSET Key : SumOf(f, g, u) \in Int
      BY RestIsLess DEF SumOf
    <3>4. h \in [SUBSET Key -> Int]
      BY <3>3
    <3>5. ASSUME NEW u \in SUBSET Key, Cardinality(u) <= Cardinality(s)
          PROVE  h[u] = SumOf(f, h, u)
      <4>1. CASE u = {}
        BY <4>1 DEF SumOf
      <4>2. CASE u # {}
        <5>1. Rest(u) \in SUBSET Key /\ Cardinality(Rest(u)) <= Cardinality(Rest(s))
          BY <1>1, <2>2, <2>4, <3>5, <4>2, RestIsLess
        <5>2. g[Rest(u)] = h[Rest(u)]
          BY <3>2, <5>1
        <5>3. SumOf(f, g, u) = SumOf(f, h, u)
          BY <5>2 DEF SumOf
        <5> QED BY <5>3
      <4> QED BY <4>1, <4>2
    <3> HIDE DEF h
    <3> QED BY <2>2, <3>4, <3>5
  <2> QED BY <2>3, <2>4
<1>3. UpTo(Cardinality(Key))
  BY <1>2
<1>4. PICK g \in [SUBSET Key -> Int] :
        \A s \in SUBSET Key : Cardinality(s) <= Cardinality(Key) => g[s] = SumOf(f, g, s)
  BY <1>3
<1>5. \A s \in SUBSET Key : Cardinality(s) <= Cardinality(Key)
  BY KeyAssumption, FS_Subset
<1>6. g = [s \in SUBSET Key |-> SumOf(f, g, s)]
  BY <1>4, <1>5
<1> QED BY <1>6

LEMMA SumIs ==
  ASSUME NEW f \in [Key -> Int]
  PROVE  /\ Sum(f)[{}] = 0
         /\ \A s \in SUBSET Key : s # {} => Sum(f)[s] = f[First(s)] + Sum(f)[Rest(s)]
         /\ \A s \in SUBSET Key : Sum(f)[s] \in Int
<1>1. Sum(f) = [s \in SUBSET Key |-> SumOf(f, Sum(f), s)]
  <2> DEFINE P(g) == g = [s \in SUBSET Key |-> SumOf(f, g, s)]
  <2>1. \E g : P(g)
    BY SumExists
  <2>2. P(CHOOSE g : P(g))
    <3> HIDE DEF P
    <3> QED BY <2>1
  <2> QED BY <2>2 DEF Sum
<1>2. \A s \in SUBSET Key : Sum(f)[s] = SumOf(f, Sum(f), s)
  <2> DEFINE g == Sum(f)
  <2>1. g = [s \in SUBSET Key |-> SumOf(f, g, s)]
    BY <1>1
  <2> HIDE DEF g
  <2>2. \A s \in SUBSET Key : g[s] = SumOf(f, g, s)
    BY <2>1
  <2> QED BY <2>2 DEF g
<1>3. Sum(f)[{}] = 0
  BY <1>2 DEF SumOf
<1>4. \A s \in SUBSET Key : s # {} => Sum(f)[s] = f[First(s)] + Sum(f)[Rest(s)]
  BY <1>2 DEF SumOf
<1> DEFINE B == {s \in SUBSET Key : Sum(f)[s] \notin Int}
<1>5. ASSUME B # {} PROVE FALSE
  <2>1. PICK s \in B : \A u \in SUBSET s : u # s => u \notin B
    <3> HIDE DEF B
    <3>1. B \in SUBSET (SUBSET Key)
      BY DEF B
    <3> QED BY <1>5, <3>1, Minimal
  <2>2. s # {}
    BY <1>3
  <2>3. First(s) \in Key /\ Rest(s) \in SUBSET Key /\ Rest(s) \notin B
    BY <2>1, <2>2, RestIsLess
  <2> QED BY <1>4, <2>2, <2>3
<1> QED BY <1>3, <1>4, <1>5

(* The sum follows a change of one of the numbers.                         *)
LEMMA SumFollows ==
  ASSUME NEW f \in [Key -> Int], NEW h \in [Key -> Int], NEW k \in Key, NEW d \in Int,
         h[k] = f[k] + d, \A j \in Key \ {k} : h[j] = f[j]
  PROVE  Sum(h)[Key] = Sum(f)[Key] + d
<1> DEFINE B == {s \in SUBSET Key : Sum(h)[s] # Sum(f)[s] + (IF k \in s THEN d ELSE 0)}
<1>1. ASSUME B # {} PROVE FALSE
  <2>1. PICK s \in B : \A u \in SUBSET s : u # s => u \notin B
    <3> HIDE DEF B
    <3>1. B \in SUBSET (SUBSET Key)
      BY DEF B
    <3> QED BY <1>1, <3>1, Minimal
  <2>2. s # {}
    <3>1. SUFFICES ASSUME s = {} PROVE FALSE
      OBVIOUS
    <3>2. Sum(h)[s] = 0 /\ Sum(f)[s] = 0 /\ k \notin s
      BY <3>1, SumIs
    <3> QED BY <3>2
  <2>3. /\ First(s) \in Key /\ First(s) \in s /\ Rest(s) \in SUBSET Key /\ Rest(s) \notin B
        /\ Rest(s) = s \ {First(s)}
    BY <2>1, <2>2, RestIsLess DEF Rest
  <2>4. Sum(h)[Rest(s)] = Sum(f)[Rest(s)] + (IF k \in Rest(s) THEN d ELSE 0)
    BY <2>3
  <2>5. /\ Sum(h)[s] = h[First(s)] + Sum(h)[Rest(s)]
        /\ Sum(f)[s] = f[First(s)] + Sum(f)[Rest(s)]
        /\ Sum(f)[Rest(s)] \in Int
    BY <2>2, <2>3, SumIs
  <2>6. Sum(h)[s] # Sum(f)[s] + (IF k \in s THEN d ELSE 0)
    OBVIOUS
  <2>7. CASE First(s) = k
    BY <2>3, <2>4, <2>5, <2>6, <2>7
  <2>8. CASE First(s) # k
    BY <2>3, <2>4, <2>5, <2>6, <2>8
  <2> QED BY <2>7, <2>8
<1> QED BY <1>1

LEMMA SumOfZeros ==
  ASSUME NEW f \in [Key -> Int], \A k \in Key : f[k] = 0
  PROVE  Sum(f)[Key] = 0
<1> DEFINE B == {s \in SUBSET Key : Sum(f)[s] # 0}
<1>1. ASSUME B # {} PROVE FALSE
  <2>1. PICK s \in B : \A u \in SUBSET s : u # s => u \notin B
    <3> HIDE DEF B
    <3>1. B \in SUBSET (SUBSET Key)
      BY DEF B
    <3> QED BY <1>1, <3>1, Minimal
  <2>2. s # {}
    BY SumIs
  <2>3. First(s) \in Key /\ Rest(s) \in SUBSET Key /\ Rest(s) \notin B
    BY <2>1, <2>2, RestIsLess
  <2> QED BY <2>2, <2>3, SumIs
<1> QED BY <1>1

-----------------------------------------------------------------------------
(* The counter.  Who drains a queue holds the mutex until the counter is   *)
(* set; whom the end meets while he holds it keeps it.                     *)
Draining ==
  \E t \in Thread :
    /\ mutex = t
    /\ pc[t] = "undefined" \/ (pc[t] = "command" /\ kind[t] = "drain")

CountInv == exact => count = Total \/ Draining

(* Steps of anybody but who drains that leave counter and queues alone.    *)
LEMMA CountStays ==
  ASSUME IInv, LimitInv, CountInv, NEW t \in Thread, UNCHANGED <<count, len>>,
         exact' => exact,
         \A u \in Thread \ {t} : pc'[u] = pc[u] /\ kind'[u] = kind[u],
         mutex' = mutex \/ mutex \notin Thread \/ mutex = t,
         pc[t] # "undefined", ~(pc[t] = "command" /\ kind[t] = "drain")
  PROVE  CountInv'
<1>1. Total' = Total
  BY TotalIsSum
<1>2. Draining => Draining'
  BY DEF Draining
<1> QED BY <1>1, <1>2 DEF CountInv

LEMMA FaultCount == IInv /\ CountInv /\ Fault => CountInv'
<1> SUFFICES ASSUME IInv, CountInv, Fault PROVE CountInv'
  OBVIOUS
<1>1. UNCHANGED <<mutex, count, len, exact>> /\ \A t \in Thread : pc'[t] = "undefined"
  BY DEF Fault, client, server
<1>2. Total' = Total
  BY <1>1, TotalIsSum
<1>3. Draining => Draining'
  BY <1>1 DEF Draining
<1> QED BY <1>1, <1>2, <1>3 DEF CountInv

LEMMA AnsweredCount ==
  ASSUME IInv, LimitInv, CountInv, NEW t \in Thread, Answered(t)
  PROVE  CountInv'
<1>1. SUFFICES ASSUME exact' PROVE count' = Total' \/ Draining'
  BY DEF CountInv
<1>2. /\ pc[t] = "command" /\ mutex = t /\ Executed(t) /\ Counted(t)
      /\ exact /\ Followed(t) /\ (kind[t] = "drain" => db[mine[t]] = Home)
  BY <1>1 DEF Answered, Answering, IInv, Basic, OneHolder, InCommand
<1>3. /\ count \in Int /\ len \in [Key -> Int]
      /\ kind[t] \in {"rpush", "lpop"} => key[t] \in Key
  BY <1>2 DEF LimitInv, Limits, CallsNameQueue
<1>4. kind[t] # "drain" => count = Total
  BY <1>2 DEF CountInv, Draining
<1>5. CASE kind[t] = "drain"
  <2>1. With(t, NULL, "command") /\ mutex' = mutex
    BY <1>5 DEF Answered
  <2> QED BY <1>2, <1>5, <2>1 DEF With, Goto, Draining, IInv, Basic, Types
<1>6. CASE kind[t] = "rpush"
  <2>1. count' = count + 1 /\ len' = [len EXCEPT ![key[t]] = @ + 1]
    BY <1>2, <1>6 DEF Counted, Executed, Followed
  <2>2. /\ len' \in [Key -> Int] /\ len'[key[t]] = len[key[t]] + 1
        /\ \A k \in Key \ {key[t]} : len'[k] = len[k]
    BY <1>3, <1>6, <2>1
  <2>3. Sum(len')[Key] = Sum(len)[Key] + 1
    BY <1>3, <1>6, <2>2, SumFollows
  <2> QED BY <1>4, <1>6, <2>1, <2>3, TotalIsSum
<1>7. CASE kind[t] = "lpop"
  <2>1. count' = count - 1 /\ len' = [len EXCEPT ![key[t]] = @ - 1]
    BY <1>2, <1>7 DEF Counted, Executed, Followed
  <2>2. /\ len' \in [Key -> Int] /\ len'[key[t]] = len[key[t]] + (-1)
        /\ \A k \in Key \ {key[t]} : len'[k] = len[k]
    BY <1>3, <1>7, <2>1
  <2>3. Sum(len')[Key] = Sum(len)[Key] + (-1)
    BY <1>3, <1>7, <2>2, SumFollows
  <2>4. Sum(len)[Key] \in Int
    BY <1>3, SumIs
  <2> QED BY <1>3, <1>4, <1>7, <2>1, <2>3, <2>4, TotalIsSum
<1>8. CASE kind[t] \notin {"drain", "rpush", "lpop"}
  <2>1. count' = count /\ len' = len
    BY <1>2, <1>8 DEF Counted, Executed, Followed
  <2> QED BY <1>4, <1>8, <2>1, TotalIsSum
<1> QED BY <1>5, <1>6, <1>7, <1>8

LEMMA DrainedCount ==
  ASSUME IInv, LimitInv, CountInv, NEW t \in Thread, Drained(t)
  PROVE  CountInv'
<1>1. count' = 0 /\ exact' = (Total = 0) /\ len' = len
  BY DEF Drained, server
<1>2. Total' = Total
  BY <1>1, TotalIsSum
<1> QED BY <1>1, <1>2 DEF CountInv

(* A command that ran and whose answer is lost ends the account.           *)
LEMMA BreakCount ==
  ASSUME IInv, LimitInv, CountInv, NEW t \in Thread, Break(t)
  PROVE  CountInv'
<1>1. SUFFICES ASSUME exact' PROVE count' = Total' \/ Draining'
  BY DEF CountInv
<1>2. UNCHANGED <<mutex, count, len, exact, pc, kind>>
  BY <1>1 DEF Break, client, thread
<1>3. Total' = Total
  BY <1>2, TotalIsSum
<1> QED BY <1>1, <1>2, <1>3 DEF CountInv, Draining

LEMMA ConnectCount ==
  ASSUME IInv, LimitInv, CountInv, NEW t \in Thread, Connect(t)
  PROVE  CountInv'
<1>1. CASE len' = [k \in Key |-> 0] /\ exact' = (count = 0)
  <2>1. Sum(len')[Key] = 0
    BY <1>1, SumOfZeros
  <2>2. count' = count
    BY DEF Connect, client
  <2> QED BY <1>1, <2>1, <2>2, TotalIsSum DEF CountInv
<1>2. CASE UNCHANGED <<len, exact>>
  <2>1. /\ pc[t] = "connect" /\ UNCHANGED <<mutex, count, kind>>
        /\ \A u \in Thread \ {t} : pc'[u] = pc[u]
    BY DEF Connect, With, Goto, client, IInv, Basic, Types
  <2> QED BY <1>2, <2>1, CountStays
<1> QED BY <1>1, <1>2 DEF Connect

LEMMA IssueCount ==
  ASSUME IInv, CountInv, NEW t \in Thread, Issue(t), ~Fault
  PROVE  CountInv'
<1>1. pc' = pc /\ UNCHANGED <<mutex, count, len, kind, exact>>
  BY DEF Issue, With, Goto, client, server, IInv, Basic, Types
<1>2. Total' = Total
  BY <1>1, TotalIsSum
<1> QED BY <1>1, <1>2 DEF CountInv, Draining

LEMMA CallCount ==
  ASSUME IInv, LimitInv, CountInv, NEW t \in Thread, ~Fault,
         Call(t) \/ Lock(t) \/ Full(t) \/ Refused(t)
  PROVE  CountInv'
<1> USE DEF IInv, Basic, Types, Goto, client, server
<1> DEFINE Others == \A u \in Thread \ {t} : pc'[u] = pc[u] /\ kind'[u] = kind[u]
<1>1. /\ UNCHANGED <<count, len>> \/ (Refused(t) /\ ~exact')
      /\ (exact' => exact) /\ Others
      /\ mutex' = mutex \/ mutex \notin Thread \/ mutex = t
      /\ pc[t] # "undefined" /\ ~(pc[t] = "command" /\ kind[t] = "drain")
  <2>1. CASE EnterInit(t)
    BY <2>1 DEF EnterInit
  <2>2. ASSUME NEW op \in Kind, NEW k \in Key \cup {NULL}, Enter(t, op, k) PROVE <1>1!:
    BY <2>2 DEF Enter
  <2>3. CASE Lock(t)
    BY <2>3 DEF Lock
  <2>4. CASE Full(t)
    BY <2>4 DEF Full, UnlockAndReturn, Return
  <2>5. CASE Refused(t)
    <3>1. mutex = t
      BY <2>5 DEF Refused, Answering, OneHolder, InCommand
    <3>2. exact' => count' = count
      BY <2>5 DEF Refused, Counted
    <3> QED BY <2>5, <3>1, <3>2 DEF Refused, Answering, With, UnlockAndReturn, Return
  <2> QED BY <2>1, <2>2, <2>3, <2>4, <2>5 DEF Call
<1>2. CASE exact'
  BY ONLY IInv, LimitInv, CountInv, t \in Thread, <1>1, <1>2, CountStays
<1>3. CASE ~exact'
  BY <1>3 DEF CountInv
<1> QED BY <1>2, <1>3

LEMMA ReconnectCount ==
  ASSUME IInv, LimitInv, CountInv, NEW t \in Thread, ~Fault,
         \/ Selected(t) \/ SelectedBack(t) \/ SelectRefused(t) \/ Lost(t) \/ Ignored(t)
         \/ Uninit(t) \/ Free(t) \/ Forget(t) \/ Destroy(t)
         \/ InitTest(t) \/ ConnectFails(t) \/ Publish(t) \/ Handle(t)
  PROVE  CountInv'
<1> USE DEF IInv, Basic, Types, Goto, client, server
<1>1. /\ UNCHANGED <<count, len, exact>>
      /\ \A u \in Thread \ {t} : pc'[u] = pc[u] /\ kind'[u] = kind[u]
      /\ mutex' = mutex \/ mutex \notin Thread \/ mutex = t
      /\ pc[t] # "undefined" /\ ~(pc[t] = "command" /\ kind[t] = "drain")
  <2>1. CASE Selected(t)
    BY <2>1 DEF Selected, Answering, With
  <2>2. CASE SelectedBack(t)
    BY <2>2 DEF SelectedBack, Answering, UnlockAndReturn, Return, OneHolder, InCommand
  <2>3. CASE SelectRefused(t)
    BY <2>3 DEF SelectRefused, Answering, With, UnlockAndReturn, Return, OneHolder, InCommand
  <2>4. CASE Lost(t)
    BY <2>4 DEF Lost, Broken, Reconnect, OneHolder, InCommand
  <2>5. CASE Ignored(t)
    BY <2>5 DEF Ignored, Broken, With, UnlockAndReturn, Return, OneHolder, InCommand
  <2>6. CASE Uninit(t)
    BY <2>6 DEF Uninit, Uninited, Return
  <2>7. CASE Free(t)
    BY <2>7 DEF Free
  <2>8. CASE Forget(t) \/ Destroy(t)
    BY <2>8 DEF Forget, Destroy, Uninited, Return
  <2>9. CASE InitTest(t) \/ ConnectFails(t)
    BY <2>9 DEF InitTest, ConnectFails, Return
  <2>10. CASE Publish(t) \/ Handle(t)
    BY <2>10 DEF Publish, Handle, Return
  <2> QED BY <2>1, <2>2, <2>3, <2>4, <2>5, <2>6, <2>7, <2>8, <2>9, <2>10
<1> QED BY ONLY IInv, LimitInv, CountInv, t \in Thread, <1>1, CountStays

LEMMA CountNext == IInv /\ LimitInv /\ CountInv /\ [Next]_vars => CountInv'
<1> SUFFICES ASSUME IInv, LimitInv, CountInv, [Next]_vars PROVE CountInv'
  OBVIOUS
<1>1. CASE UNCHANGED vars
  <2>1. UNCHANGED <<mutex, count, len, exact, pc, kind>>
    BY <1>1 DEF vars, client, server, thread
  <2>2. Total' = Total
    BY <2>1, TotalIsSum
  <2> QED BY <2>1, <2>2 DEF CountInv, Draining
<1>2. CASE Fault
  BY <1>2, FaultCount
<1>3. ASSUME ~Fault, NEW t \in Thread, Call(t) \/ Run(t) \/ Break(t) PROVE CountInv'
  BY <1>3, CallCount, IssueCount, AnsweredCount, DrainedCount, BreakCount, ConnectCount,
  ReconnectCount
     DEF Run, LockDestroyed, WaitOnFreed
<1> QED BY <1>1, <1>2, <1>3 DEF Next

(* As long as the account is kept and nobody holds the mutex, the counter  *)
(* is the number of items in all the queues together, however the pushes,  *)
(* pops, drains and reconnections of the threads interleave                *)
(* (redis_api.cpp:227-336).                                                *)
THEOREM CounterIsLength == Spec => []CountIsLength
<1>1. Init => CountInv
  <2> SUFFICES ASSUME Init PROVE CountInv
    OBVIOUS
  <2>1. count = 0 /\ len = [k \in Key |-> 0]
    BY DEF Init
  <2>2. Sum(len)[Key] = 0
    BY <2>1, SumOfZeros
  <2> QED BY <2>1, <2>2, TotalIsSum DEF CountInv
<1>2. CountInv => CountIsLength
  BY DEF CountInv, Draining, CountIsLength
<1>3. Spec => []LimitInv
  BY LimitsHold
<1> QED BY <1>1, <1>2, <1>3, CountNext, IInvariant, PTL DEF Spec
=============================================================================
