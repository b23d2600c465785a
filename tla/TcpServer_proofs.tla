--------------------------- MODULE TcpServer_proofs ---------------------------
(* How sessions leave a TcpServer, for any number of pollers and sessions. *)
EXTENDS TcpServer, TLAPS

USE PrimaryAssumption, NullAssumption

(* The session a callback works on.                                        *)
AtWork ==
  \A p \in Poller :
    /\ pc[p] \in {"idle", "managing", "destroying"} => cur[p] = NULL
    /\ pc[p] = "accepting" => sess[cur[p]] = "free"
    /\ pc[p] = "entering" => sess[cur[p]] = "made"
    /\ pc[p] \in {"telling", "erasing"} =>
         home[cur[p]] = p /\ cur[p] \in erred /\ told[cur[p]] > 0
    /\ pc[p] = "telling" => sess[cur[p]] \in {"in", "out"}
    /\ pc[p] \in {"telling", "erasing"} /\ stage[p] = "up" => sess[cur[p]] = "in"
    /\ cur[p] # NULL => \A q \in Poller : cur[q] = cur[p] => q = p

(* A session has been told as often as its socket reported an error, or    *)
(* once more by the helper, outside of a server on its way out.            *)
Reports(s) == IF s \in erred THEN 1 ELSE 0

Leaving(s) == stage[home[s]] # "up"

ToldOften ==
  \A s \in Session :
    \/ told[s] = Reports(s)
    \/ told[s] = Reports(s) + 1 /\ sess[s] \in {"out", "free"} /\ Leaving(s)

(* Why a session is where it is.                                           *)
Reasons ==
  \A s \in Session :
    /\ sess[s] = "out" => s \in found \/ \E p \in Poller : pc[p] = "telling" /\ cur[p] = s
    /\ sess[s] = "out" /\ s \notin erred => Leaving(s)
    /\ sess[s] = "made" => s \notin erred
    /\ sess[s] = "in" /\ s \in erred /\ stage[home[s]] = "up" =>
         pc[home[s]] \in {"telling", "erasing"} /\ cur[home[s]] = s

(* Nobody is served before there is a server, and a poller that runs the   *)
(* destructor of its server does nothing else.                             *)
Lives ==
  /\ stage[Primary] # "none"
  /\ by[Primary] \in {MAIN, Primary, NULL}
  /\ \A s \in Session : stage[home[s]] # "none"
  /\ \A p \in Poller :
       /\ setup[p] = "none" /\ p # Primary => stage[p] = "none"
       /\ stage[p] = "none" => p \notin own /\ pc[p] = "idle"
       /\ by[p] = p /\ stage[p] \in {"stopping", "clearing", "releasing"} => pc[p] = "destroying"

IInv == TypeOK /\ RemovalIsAlone /\ AtWork /\ ToldOften /\ Reasons /\ Lives

LEMMA InitIInv == Init => IInv
  BY DEF Init, IInv, TypeOK, RemovalIsAlone, AtWork, ToldOften, Reports, Leaving, Reasons, Lives, Clone

-----------------------------------------------------------------------------
LEMMA ListenStep == ASSUME IInv, Listen PROVE IInv'
<1> USE DEF IInv, Listen, Clone, server, run, session
<1>1. TypeOK'
  BY DEF TypeOK, ToldOften, Reports
<1>2. RemovalIsAlone' /\ Lives'
  BY DEF TypeOK, RemovalIsAlone, Lives, AtWork
<1>3. AtWork'
  BY <1>1 DEF TypeOK, AtWork, Lives
<1>4. ToldOften'
  BY <1>1 DEF TypeOK, AtWork, ToldOften, Reports, Leaving, Lives, RemovalIsAlone
<1>5. Reasons'
  BY <1>1 DEF TypeOK, AtWork, Reasons, ToldOften, Reports, Leaving, Lives, RemovalIsAlone
<1> QED BY <1>1, <1>2, <1>3, <1>4, <1>5

LEMMA ListenFailsStep == ASSUME IInv, ListenFails PROVE IInv'
<1> USE DEF IInv, ListenFails, GiveUp, Clone, server, run, session
<1>1. TypeOK'
  BY DEF TypeOK, ToldOften, Reports
<1>2. RemovalIsAlone' /\ Lives'
  BY DEF TypeOK, RemovalIsAlone, Lives, AtWork
<1>3. AtWork'
  BY <1>1 DEF TypeOK, AtWork, Lives
<1>4. ToldOften'
  BY <1>1 DEF TypeOK, AtWork, ToldOften, Reports, Leaving, Lives, RemovalIsAlone
<1>5. Reasons'
  BY <1>1 DEF TypeOK, AtWork, Reasons, ToldOften, Reports, Leaving, Lives, RemovalIsAlone
<1> QED BY <1>1, <1>2, <1>3, <1>4, <1>5

LEMMA StartTimerStep == ASSUME IInv, StartTimer PROVE IInv'
<1> USE DEF IInv, StartTimer, Clone, server, run, session
<1>1. TypeOK'
  BY DEF TypeOK, ToldOften, Reports
<1>2. RemovalIsAlone' /\ Lives'
  BY DEF TypeOK, RemovalIsAlone, Lives, AtWork
<1>3. AtWork'
  BY <1>1 DEF TypeOK, AtWork, Lives
<1>4. ToldOften'
  BY <1>1 DEF TypeOK, AtWork, ToldOften, Reports, Leaving, Lives, RemovalIsAlone
<1>5. Reasons'
  BY <1>1 DEF TypeOK, AtWork, Reasons, ToldOften, Reports, Leaving, Lives, RemovalIsAlone
<1> QED BY <1>1, <1>2, <1>3, <1>4, <1>5

LEMMA CloneListenStep == ASSUME IInv, NEW p \in Clone, CloneListen(p) PROVE IInv'
<1> USE DEF IInv, CloneListen, Clone, server, run, session
<1>1. TypeOK'
  BY DEF TypeOK, ToldOften, Reports
<1>2. RemovalIsAlone' /\ Lives'
  BY DEF TypeOK, RemovalIsAlone, Lives, AtWork
<1>3. AtWork'
  BY <1>1 DEF TypeOK, AtWork, Lives
<1>4. ToldOften'
  BY <1>1 DEF TypeOK, AtWork, ToldOften, Reports, Leaving, Lives, RemovalIsAlone
<1>5. Reasons'
  BY <1>1 DEF TypeOK, AtWork, Reasons, ToldOften, Reports, Leaving, Lives, RemovalIsAlone
<1> QED BY <1>1, <1>2, <1>3, <1>4, <1>5

LEMMA CloneTimerStep == ASSUME IInv, NEW p \in Clone, CloneTimer(p) PROVE IInv'
<1> USE DEF IInv, CloneTimer, Clone, server, run, session
<1>1. TypeOK'
  BY DEF TypeOK, ToldOften, Reports
<1>2. RemovalIsAlone' /\ Lives'
  BY DEF TypeOK, RemovalIsAlone, Lives, AtWork
<1>3. AtWork'
  BY <1>1 DEF TypeOK, AtWork, Lives
<1>4. ToldOften'
  BY <1>1 DEF TypeOK, AtWork, ToldOften, Reports, Leaving, Lives, RemovalIsAlone
<1>5. Reasons'
  BY <1>1 DEF TypeOK, AtWork, Reasons, ToldOften, Reports, Leaving, Lives, RemovalIsAlone
<1> QED BY <1>1, <1>2, <1>3, <1>4, <1>5

LEMMA CloneConfigStep == ASSUME IInv, NEW p \in Clone, CloneConfig(p) PROVE IInv'
<1> USE DEF IInv, CloneConfig, Clone, server, run, session
<1>1. TypeOK'
  BY DEF TypeOK, ToldOften, Reports
<1>2. RemovalIsAlone' /\ Lives'
  BY DEF TypeOK, RemovalIsAlone, Lives, AtWork
<1>3. AtWork'
  BY <1>1 DEF TypeOK, AtWork, Lives
<1>4. ToldOften'
  BY <1>1 DEF TypeOK, AtWork, ToldOften, Reports, Leaving, Lives, RemovalIsAlone
<1>5. Reasons'
  BY <1>1 DEF TypeOK, AtWork, Reasons, ToldOften, Reports, Leaving, Lives, RemovalIsAlone
<1> QED BY <1>1, <1>2, <1>3, <1>4, <1>5

LEMMA ReleaseStep == ASSUME IInv, Release PROVE IInv'
<1> USE DEF IInv, Release, GiveUp, Clone, server, run, session
<1>1. TypeOK'
  BY DEF TypeOK, ToldOften, Reports
<1>2. RemovalIsAlone' /\ Lives'
  BY DEF TypeOK, RemovalIsAlone, Lives, AtWork
<1>3. AtWork'
  BY <1>1 DEF TypeOK, AtWork, Lives
<1>4. ToldOften'
  BY <1>1 DEF TypeOK, AtWork, ToldOften, Reports, Leaving, Lives, RemovalIsAlone
<1>5. Reasons'
  BY <1>1 DEF TypeOK, AtWork, Reasons, ToldOften, Reports, Leaving, Lives, RemovalIsAlone
<1> QED BY <1>1, <1>2, <1>3, <1>4, <1>5

LEMMA AcceptBeginStep == ASSUME IInv, NEW p \in Poller, NEW s \in Session, AcceptBegin(p, s) PROVE IInv'
<1> USE DEF IInv, AcceptBegin, Go, Clone, server, run, session
<1>1. TypeOK'
  BY DEF TypeOK, ToldOften, Reports
<1>2. RemovalIsAlone' /\ Lives'
  BY DEF TypeOK, RemovalIsAlone, Lives, AtWork
<1>3. AtWork'
  BY <1>1 DEF TypeOK, AtWork, Lives
<1>4. ToldOften'
  BY <1>1 DEF TypeOK, AtWork, ToldOften, Reports, Leaving, Lives, RemovalIsAlone
<1>5. Reasons'
  BY <1>1 DEF TypeOK, AtWork, Reasons, ToldOften, Reports, Leaving, Lives, RemovalIsAlone
<1> QED BY <1>1, <1>2, <1>3, <1>4, <1>5

LEMMA AcceptThrowsStep == ASSUME IInv, NEW p \in Poller, AcceptThrows(p) PROVE IInv'
<1> USE DEF IInv, AcceptThrows, Go, Clone, server, run, session
<1>1. TypeOK'
  BY DEF TypeOK, ToldOften, Reports
<1>2. RemovalIsAlone' /\ Lives'
  BY DEF TypeOK, RemovalIsAlone, Lives, AtWork
<1>3. AtWork'
  BY <1>1 DEF TypeOK, AtWork, Lives
<1>4. ToldOften'
  BY <1>1 DEF TypeOK, AtWork, ToldOften, Reports, Leaving, Lives, RemovalIsAlone
<1>5. Reasons'
  BY <1>1 DEF TypeOK, AtWork, Reasons, ToldOften, Reports, Leaving, Lives, RemovalIsAlone
<1> QED BY <1>1, <1>2, <1>3, <1>4, <1>5

LEMMA MakeStep == ASSUME IInv, NEW p \in Poller, Make(p) PROVE IInv'
<1> USE DEF IInv, Make, Go, Clone, server, run, session
<1>1. TypeOK'
  BY DEF TypeOK, ToldOften, Reports
<1>2. RemovalIsAlone' /\ Lives'
  BY DEF TypeOK, RemovalIsAlone, Lives, AtWork
<1>3. AtWork'
  BY <1>1 DEF TypeOK, AtWork, Lives
<1>4. ToldOften'
  BY <1>1 DEF TypeOK, AtWork, ToldOften, Reports, Leaving, Lives, RemovalIsAlone
<1>5. Reasons'
  BY <1>1 DEF TypeOK, AtWork, Reasons, ToldOften, Reports, Leaving, Lives, RemovalIsAlone
<1> QED BY <1>1, <1>2, <1>3, <1>4, <1>5

LEMMA EnterStep == ASSUME IInv, NEW p \in Poller, Enter(p) PROVE IInv'
<1> USE DEF IInv, Enter, Go, Clone, server, run, session
<1>1. TypeOK'
  BY DEF TypeOK, ToldOften, Reports
<1>2. RemovalIsAlone' /\ Lives'
  BY DEF TypeOK, RemovalIsAlone, Lives, AtWork
<1>3. AtWork'
  BY <1>1 DEF TypeOK, AtWork, Lives
<1>4. ToldOften'
  BY <1>1 DEF TypeOK, AtWork, ToldOften, Reports, Leaving, Lives, RemovalIsAlone
<1>5. Reasons'
  BY <1>1 DEF TypeOK, AtWork, Reasons, ToldOften, Reports, Leaving, Lives, RemovalIsAlone
<1> QED BY <1>1, <1>2, <1>3, <1>4, <1>5

LEMMA ErrStep == ASSUME IInv, NEW p \in Poller, NEW s \in Session, Err(p, s) PROVE IInv'
<1> USE DEF IInv, Err, Go, Clone, server, run, session
<1>1. TypeOK'
  BY DEF TypeOK, ToldOften, Reports
<1>2. RemovalIsAlone' /\ Lives'
  BY DEF TypeOK, RemovalIsAlone, Lives, AtWork
<1>3. AtWork'
  <2>1. \A q \in Poller : cur[q] # s
    BY DEF TypeOK, AtWork, Lives
  <2> QED
    BY <1>1, <2>1 DEF TypeOK, AtWork, Lives, Reasons, Leaving, ToldOften, Reports
<1>4. ToldOften'
  BY <1>1 DEF TypeOK, AtWork, ToldOften, Reports, Leaving, Lives, RemovalIsAlone
<1>5. Reasons'
  BY <1>1 DEF TypeOK, AtWork, Reasons, ToldOften, Reports, Leaving, Lives, RemovalIsAlone
<1> QED BY <1>1, <1>2, <1>3, <1>4, <1>5

LEMMA LockServerStep == ASSUME IInv, NEW p \in Poller, LockServer(p) PROVE IInv'
<1> USE DEF IInv, LockServer, Go, Clone, server, run, session
<1>1. TypeOK'
  BY DEF TypeOK, ToldOften, Reports
<1>2. RemovalIsAlone' /\ Lives'
  BY DEF TypeOK, RemovalIsAlone, Lives, AtWork
<1>3. AtWork'
  BY <1>1 DEF TypeOK, AtWork, Lives
<1>4. ToldOften'
  BY <1>1 DEF TypeOK, AtWork, ToldOften, Reports, Leaving, Lives, RemovalIsAlone
<1>5. Reasons'
  BY <1>1 DEF TypeOK, AtWork, Reasons, ToldOften, Reports, Leaving, Lives, RemovalIsAlone
<1> QED BY <1>1, <1>2, <1>3, <1>4, <1>5

LEMMA LockFailsStep == ASSUME IInv, NEW p \in Poller, LockFails(p) PROVE IInv'
<1> USE DEF IInv, LockFails, Go, Without, Clone, server, run, session
<1>1. TypeOK'
  BY DEF TypeOK, ToldOften, Reports
<1>2. RemovalIsAlone' /\ Lives'
  BY DEF TypeOK, RemovalIsAlone, Lives, AtWork
<1>3. AtWork'
  BY <1>1 DEF TypeOK, AtWork, Lives
<1>4. ToldOften'
  BY <1>1 DEF TypeOK, AtWork, ToldOften, Reports, Leaving, Lives, RemovalIsAlone
<1>5. Reasons'
  BY <1>1 DEF TypeOK, AtWork, Reasons, ToldOften, Reports, Leaving, Lives, RemovalIsAlone
<1> QED BY <1>1, <1>2, <1>3, <1>4, <1>5

LEMMA EraseEndStep == ASSUME IInv, NEW p \in Poller, EraseEnd(p) PROVE IInv'
<1> USE DEF IInv, EraseEnd, Go, DropHelper, Without, Clone, server, run, session
<1>1. TypeOK'
  BY DEF TypeOK, ToldOften, Reports
<1>2. RemovalIsAlone' /\ Lives'
  BY DEF TypeOK, RemovalIsAlone, Lives, AtWork
<1>3. AtWork'
  BY <1>1 DEF TypeOK, AtWork, Lives
<1>4. ToldOften'
  BY <1>1 DEF TypeOK, AtWork, ToldOften, Reports, Leaving, Lives, RemovalIsAlone
<1>5. Reasons'
  BY <1>1 DEF TypeOK, AtWork, Reasons, ToldOften, Reports, Leaving, Lives, RemovalIsAlone
<1> QED BY <1>1, <1>2, <1>3, <1>4, <1>5

LEMMA TickBeginStep == ASSUME IInv, NEW p \in Poller, TickBegin(p) PROVE IInv'
<1> USE DEF IInv, TickBegin, Go, Clone, server, run, session
<1>1. TypeOK'
  BY DEF TypeOK, ToldOften, Reports
<1>2. RemovalIsAlone' /\ Lives'
  BY DEF TypeOK, RemovalIsAlone, Lives, AtWork
<1>3. AtWork'
  BY <1>1 DEF TypeOK, AtWork, Lives
<1>4. ToldOften'
  BY <1>1 DEF TypeOK, AtWork, ToldOften, Reports, Leaving, Lives, RemovalIsAlone
<1>5. Reasons'
  BY <1>1 DEF TypeOK, AtWork, Reasons, ToldOften, Reports, Leaving, Lives, RemovalIsAlone
<1> QED BY <1>1, <1>2, <1>3, <1>4, <1>5

LEMMA TickEndStep == ASSUME IInv, NEW p \in Poller, TickEnd(p) PROVE IInv'
<1> USE DEF IInv, TickEnd, Go, Clone, server, run, session
<1>1. TypeOK'
  BY DEF TypeOK, ToldOften, Reports
<1>2. RemovalIsAlone' /\ Lives'
  BY DEF TypeOK, RemovalIsAlone, Lives, AtWork
<1>3. AtWork'
  BY <1>1 DEF TypeOK, AtWork, Lives
<1>4. ToldOften'
  BY <1>1 DEF TypeOK, AtWork, ToldOften, Reports, Leaving, Lives, RemovalIsAlone
<1>5. Reasons'
  BY <1>1 DEF TypeOK, AtWork, Reasons, ToldOften, Reports, Leaving, Lives, RemovalIsAlone
<1> QED BY <1>1, <1>2, <1>3, <1>4, <1>5

LEMMA OnManagerStep == ASSUME IInv, NEW s \in Session, OnManager(s) PROVE IInv'
<1> USE DEF IInv, OnManager, Clone, server, run, session
<1>1. TypeOK'
  BY DEF TypeOK, ToldOften, Reports
<1>2. RemovalIsAlone' /\ Lives'
  BY DEF TypeOK, RemovalIsAlone, Lives, AtWork
<1>3. AtWork'
  BY <1>1 DEF TypeOK, AtWork, Lives
<1>4. ToldOften'
  BY <1>1 DEF TypeOK, AtWork, ToldOften, Reports, Leaving, Lives, RemovalIsAlone
<1>5. Reasons'
  BY <1>1 DEF TypeOK, AtWork, Reasons, ToldOften, Reports, Leaving, Lives, RemovalIsAlone
<1> QED BY <1>1, <1>2, <1>3, <1>4, <1>5

LEMMA StopStep == ASSUME IInv, NEW p \in Poller, Stop(p) PROVE IInv'
<1> USE DEF IInv, Stop, Clone, server, run, session
<1>1. TypeOK'
  BY DEF TypeOK, ToldOften, Reports
<1>2. RemovalIsAlone' /\ Lives'
  BY DEF TypeOK, RemovalIsAlone, Lives, AtWork
<1>3. AtWork'
  BY <1>1 DEF TypeOK, AtWork, Lives
<1>4. ToldOften'
  BY <1>1 DEF TypeOK, AtWork, ToldOften, Reports, Leaving, Lives, RemovalIsAlone
<1>5. Reasons'
  BY <1>1 DEF TypeOK, AtWork, Reasons, ToldOften, Reports, Leaving, Lives, RemovalIsAlone
<1> QED BY <1>1, <1>2, <1>3, <1>4, <1>5

LEMMA ClearOneStep == ASSUME IInv, NEW p \in Poller, NEW s \in Session, ClearOne(p, s) PROVE IInv'
<1> USE DEF IInv, ClearOne, DropHelper, Without, Clone, server, run, session
<1>1. TypeOK'
  BY DEF TypeOK, ToldOften, Reports
<1>2. RemovalIsAlone' /\ Lives'
  BY DEF TypeOK, RemovalIsAlone, Lives, AtWork
<1>3. AtWork'
  BY <1>1 DEF TypeOK, AtWork, Lives
<1>4. ToldOften'
  BY <1>1 DEF TypeOK, AtWork, ToldOften, Reports, Leaving, Lives, RemovalIsAlone
<1>5. Reasons'
  BY <1>1 DEF TypeOK, AtWork, Reasons, ToldOften, Reports, Leaving, Lives, RemovalIsAlone
<1> QED BY <1>1, <1>2, <1>3, <1>4, <1>5

LEMMA ClearEndStep == ASSUME IInv, NEW p \in Poller, ClearEnd(p) PROVE IInv'
<1> USE DEF IInv, ClearEnd, End, Go, Clone, server, run, session
<1>1. TypeOK'
  BY DEF TypeOK, ToldOften, Reports
<1>2. RemovalIsAlone' /\ Lives'
  BY DEF TypeOK, RemovalIsAlone, Lives, AtWork
<1>3. AtWork'
  BY <1>1 DEF TypeOK, AtWork, Lives
<1>4. ToldOften'
  BY <1>1 DEF TypeOK, AtWork, ToldOften, Reports, Leaving, Lives, RemovalIsAlone
<1>5. Reasons'
  BY <1>1 DEF TypeOK, AtWork, Reasons, ToldOften, Reports, Leaving, Lives, RemovalIsAlone
<1> QED BY <1>1, <1>2, <1>3, <1>4, <1>5

LEMMA ReleaseCloneStep == ASSUME IInv, NEW q \in Clone, ReleaseClone(q) PROVE IInv'
<1> USE DEF IInv, ReleaseClone, GiveUp, Clone, server, run, session
<1>1. TypeOK'
  BY DEF TypeOK, ToldOften, Reports
<1>2. RemovalIsAlone' /\ Lives'
  BY DEF TypeOK, RemovalIsAlone, Lives, AtWork
<1>3. AtWork'
  BY <1>1 DEF TypeOK, AtWork, Lives
<1>4. ToldOften'
  BY <1>1 DEF TypeOK, AtWork, ToldOften, Reports, Leaving, Lives, RemovalIsAlone
<1>5. Reasons'
  BY <1>1 DEF TypeOK, AtWork, Reasons, ToldOften, Reports, Leaving, Lives, RemovalIsAlone
<1> QED BY <1>1, <1>2, <1>3, <1>4, <1>5

LEMMA DestroyEndStep == ASSUME IInv, DestroyEnd PROVE IInv'
<1> USE DEF IInv, DestroyEnd, End, Go, Clone, server, run, session
<1>1. TypeOK'
  BY DEF TypeOK, ToldOften, Reports
<1>2. RemovalIsAlone' /\ Lives'
  BY DEF TypeOK, RemovalIsAlone, Lives, AtWork
<1>3. AtWork'
  BY <1>1 DEF TypeOK, AtWork, Lives
<1>4. ToldOften'
  BY <1>1 DEF TypeOK, AtWork, ToldOften, Reports, Leaving, Lives, RemovalIsAlone
<1>5. Reasons'
  BY <1>1 DEF TypeOK, AtWork, Reasons, ToldOften, Reports, Leaving, Lives, RemovalIsAlone
<1> QED BY <1>1, <1>2, <1>3, <1>4, <1>5

LEMMA GetStep == ASSUME IInv, NEW s \in Session, Get(s) PROVE IInv'
<1> USE DEF IInv, Get, Clone, server, run, session
<1>1. TypeOK'
  BY DEF TypeOK, ToldOften, Reports
<1>2. RemovalIsAlone' /\ Lives'
  BY DEF TypeOK, RemovalIsAlone, Lives, AtWork
<1>3. AtWork'
  BY <1>1 DEF TypeOK, AtWork, Lives
<1>4. ToldOften'
  BY <1>1 DEF TypeOK, AtWork, ToldOften, Reports, Leaving, Lives, RemovalIsAlone
<1>5. Reasons'
  BY <1>1 DEF TypeOK, AtWork, Reasons, ToldOften, Reports, Leaving, Lives, RemovalIsAlone
<1> QED BY <1>1, <1>2, <1>3, <1>4, <1>5

LEMMA PutStep == ASSUME IInv, NEW s \in Session, Put(s) PROVE IInv'
<1> USE DEF IInv, Put, Without, Clone, server, run, session
<1>1. TypeOK'
  BY DEF TypeOK, ToldOften, Reports
<1>2. RemovalIsAlone' /\ Lives'
  BY DEF TypeOK, RemovalIsAlone, Lives, AtWork
<1>3. AtWork'
  BY <1>1 DEF TypeOK, AtWork, Lives
<1>4. ToldOften'
  BY <1>1 DEF TypeOK, AtWork, ToldOften, Reports, Leaving, Lives, RemovalIsAlone
<1>5. Reasons'
  BY <1>1 DEF TypeOK, AtWork, Reasons, ToldOften, Reports, Leaving, Lives, RemovalIsAlone
<1> QED BY <1>1, <1>2, <1>3, <1>4, <1>5


LEMMA NextIInv == IInv /\ [Next]_vars => IInv'
<1> SUFFICES ASSUME IInv, [Next]_vars PROVE IInv'
  OBVIOUS
<1>1. CASE UNCHANGED vars
  BY <1>1 DEF vars, server, run, session, IInv, TypeOK, RemovalIsAlone, AtWork, ToldOften,
              Reports, Leaving, Reasons, Lives
<1>2. CASE Starting
  BY <1>2, ListenStep, ListenFailsStep, StartTimerStep, CloneListenStep, CloneTimerStep,
     CloneConfigStep DEF Starting
<1>3. ASSUME NEW p \in Poller, Serving(p) PROVE IInv'
  BY <1>3, AcceptThrowsStep, MakeStep, EnterStep, LockServerStep, LockFailsStep, EraseEndStep,
     TickEndStep DEF Serving
<1>4. ASSUME NEW p \in Poller, Event(p) PROVE IInv'
  BY <1>4, TickBeginStep, AcceptBeginStep, ErrStep DEF Event
<1>5. ASSUME NEW p \in Poller, Ending(p) PROVE IInv'
  BY <1>5, StopStep, ClearOneStep, ClearEndStep DEF Ending
<1> QED
  BY <1>1, <1>2, <1>3, <1>4, <1>5, ReleaseStep, ReleaseCloneStep, DestroyEndStep,
     OnManagerStep, GetStep, PutStep DEF Next

LEMMA Always == Spec => []IInv
  BY InitIInv, NextIInv, PTL DEF Spec

(* The error callback removes a session only from a server whose           *)
(* destructor has not begun, and a session hears twice of its end only     *)
(* from a server on its way out, for any number of pollers and sessions.   *)
THEOREM RemovedSafely == Spec => [](TypeOK /\ RemovalIsAlone /\ ToldOnceByAServer)
<1>1. IInv => TypeOK /\ RemovalIsAlone /\ ToldOnceByAServer
  BY DEF IInv, TypeOK, ToldOften, Reports, Leaving, ToldOnceByAServer
<1> QED BY <1>1, Always, PTL

LEMMA ToldStep ==
  ASSUME IInv, [Next]_vars, NEW s \in Session, sess[s] = "in", sess'[s] # "in"
  PROVE  told'[s] > 0
<1> USE DEF IInv, TypeOK
<1>1. ASSUME NEW p \in Poller, EraseEnd(p) PROVE told'[s] > 0
  BY <1>1 DEF EraseEnd, DropHelper, Without, AtWork
<1>2. ASSUME NEW p \in Poller, NEW x \in Session, ClearOne(p, x) PROVE told'[s] > 0
  BY <1>2 DEF ClearOne, DropHelper, Without
<1>3. ASSUME NEW p \in Poller, Make(p) \/ Enter(p) \/ LockFails(p) PROVE told'[s] > 0
  BY <1>3 DEF Make, Enter, LockFails, Without, AtWork
<1>4. ASSUME NEW x \in Session, Put(x) PROVE told'[s] > 0
  BY <1>4 DEF Put, Without
<1> QED
  BY <1>1, <1>2, <1>3, <1>4
     DEF Next, Starting, Serving, Event, Ending, Listen, ListenFails, StartTimer, CloneListen,
         CloneTimer, CloneConfig, Release, AcceptBegin, AcceptThrows, Err, LockServer, TickBegin,
         TickEnd, OnManager, Stop, ClearEnd, ReleaseClone, DestroyEnd, Get, vars, session

(* No session leaves its server without a call of onError.                 *)
THEOREM SessionsAreTold == Spec => ToldBeforeItLeaves
<1>1. IInv /\ [Next]_vars =>
        [\A s \in Session : sess[s] = "in" /\ sess'[s] # "in" => told'[s] > 0]_vars
  BY ToldStep
<1> QED BY <1>1, Always, PTL DEF Spec, ToldBeforeItLeaves

LEMMA ManagedStep ==
  ASSUME IInv, NEW s \in Session, OnManager(s), told[s] > 0
  PROVE  s \in found \/ stage[home[s]] # "up"
  BY DEF IInv, TypeOK, OnManager, AtWork, Reasons, ToldOften, Reports, Leaving

(* A task of the manager finds a session that was told of its end gone,    *)
(* unless somebody keeps it or the server is on its way out.               *)
THEOREM ManagerFindsItGone == Spec => ManagedWhileServed
<1>1. IInv /\ [Next]_vars =>
        [\A s \in Session : OnManager(s) /\ told[s] > 0 => s \in found \/ stage[home[s]] # "up"]_vars
  BY ManagedStep
<1> QED BY <1>1, Always, PTL DEF Spec, ManagedWhileServed
=============================================================================
