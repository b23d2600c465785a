--------------------------- MODULE TcpSvr_proofs ---------------------------
(***************************************************************************)
(* Theorems about TcpSvr for any table length, any heap, any threads and   *)
(* any set of descriptors: type correctness, and, until a signal arrives,  *)
(* that a freed session is used at the last trace of a thread only, that   *)
(* sockets are used by one thread each and that no session is lost.        *)
(***************************************************************************)
EXTENDS TcpSvr, TLAPS

(* A counter past the timeout is met only on the way out of the loop.      *)
TickBound == \A t \in Thread : pc[t] # "leave" => tick[t] <= ClientTimeout

(* A running thread was started on a session.                              *)
EntBound == \A t \in Thread : Running(t) => ent[t] \in Session

TypeInv == TypeOK /\ TickBound /\ EntBound

(* Each name of the table, of the listener and of a thread is the only one *)
(* of its session, and each session is the only owner of its socket.       *)
TableSound ==
  /\ \A i \in Slot : slot[i] # NULL => mem[slot[i]] = "live"
  /\ \A i, j \in Slot : slot[i] = slot[j] /\ slot[i] # NULL => i = j

ListenerSound ==
  /\ lpc = "publish" => /\ lsvr # NULL /\ mem[lsvr] = "live"
                        /\ slot[li] = NULL /\ \A i \in Slot : slot[i] # lsvr
  /\ lpc = "judge" => lsvr # NULL /\ slot[li] = lsvr
  /\ lpc = "create" => /\ lconn \in Fd /\ fd[lconn] \in {"up", "gone"}
                       /\ \A s \in Session : sock[s] # lconn
  /\ lpc # "create" => lconn = NULL

ThreadSound ==
  \A t \in Thread : Serving(t) =>
    /\ mem[ent[t]] = "live" /\ state[ent[t]] = THREAD_STATE_RUN
    /\ pc[t] # "enter" => local[t] = sock[ent[t]]
    /\ \A u \in Thread \ {t} : Serving(u) => ent[u] # ent[t]

SocketSound ==
  /\ \A s \in Session : mem[s] = "free" => sock[s] = NULL
  /\ \A s \in Session : mem[s] = "live" => sock[s] \in Fd /\ fd[sock[s]] \in {"up", "gone"}
  /\ \A s, t \in Session : sock[s] = sock[t] /\ sock[s] # NULL => s = t

NoStray ==
  /\ \A f \in Fd : fd[f] \in {"up", "gone"} =>
       lconn = f \/ \E s \in Session : mem[s] = "live" /\ sock[s] = f
  /\ \A s \in Session : mem[s] = "live" =>
       (lpc = "publish" /\ lsvr = s) \/ \E i \in Slot : slot[i] = s

Sound ==
  /\ TableSound /\ ListenerSound /\ ThreadSound /\ SocketSound /\ NoStray
  /\ flagged = FALSE
  /\ main \in {"read", "announce", "spawn"} => lpc = "none"

IInv == TypeInv /\ (~Signalled => Sound)

-----------------------------------------------------------------------------
(* Type correctness                                                        *)

LEMMA TypeInit == Init => TypeInv
<1> SUFFICES ASSUME Init PROVE TypeInv
  OBVIOUS
<1> USE ClientAssumption, TimeoutAssumption, BacklogAssumption
    DEF Init, MainPlace, HandlerPlace, ListenPlace, Place, THREAD_STATE_RUN, THREAD_STATE_EXIT
<1>1. mi \in Slot /\ li \in Slot
  BY DEF Slot
<1>2. backlog \in 0 .. MaxBacklog /\ tick \in [Thread -> 0 .. ClientTimeout + 1]
  OBVIOUS
<1>3. TickBound
  BY DEF TickBound
<1>4. EntBound
  BY DEF EntBound, Running
<1> QED
  BY <1>1, <1>2, <1>3, <1>4 DEF TypeInv, TypeOK

(* _TcpSvr_destroy leaves entities and descriptors well typed.             *)
LEMMA DestroyType ==
  ASSUME TypeOK, NEW s \in Session \cup {NULL}, Destroy(s)
  PROVE  /\ fd' \in [Fd -> {"closed", "listen", "up", "gone"}]
         /\ mem' \in [Session -> {"free", "live"}]
         /\ sock' \in [Session -> Fd \cup {NULL}]
         /\ state' \in [Session -> {THREAD_STATE_RUN, THREAD_STATE_EXIT}]
<1>1. fd' \in [Fd -> {"closed", "listen", "up", "gone"}]
  BY DEF TypeOK, Destroy, NET_CloseSock
<1>2. mem' \in [Session -> {"free", "live"}]
  BY DEF TypeOK, Destroy
<1>3. sock' \in [Session -> Fd \cup {NULL}]
  BY DEF TypeOK, Destroy
<1>4. state' \in [Session -> {THREAD_STATE_RUN, THREAD_STATE_EXIT}]
  BY DEF TypeOK, Destroy, THREAD_STATE_EXIT, THREAD_STATE_RUN
<1> QED
  BY <1>1, <1>2, <1>3, <1>4

LEMMA TypeMain == TypeInv /\ (Main \/ Signal) => TypeInv'
<1> SUFFICES ASSUME TypeInv, Main \/ Signal PROVE TypeInv'
  OBVIOUS
<1> USE ClientAssumption, NullAssumption
    DEF TypeInv, TypeOK, TickBound, EntBound, Running, Slot, MainPlace, HandlerPlace, THREAD_STATE_RUN,
        THREAD_STATE_EXIT, mainVars, lisVars, entVars, trdVars, netVars
<1>1. CASE ReadCfg \/ Announce \/ Report \/ Signal
  BY <1>1 DEF ReadCfg, Announce, Report, Signal
<1>2. CASE Spawn
  BY <1>2 DEF Spawn, ListenPlace
<1>3. CASE CloseSkip
  BY <1>3 DEF CloseSkip, NextClose
<1>4. CASE CloseMark
  BY <1>4 DEF CloseMark
<1>5. CASE CloseDestroy
  <2>1. main' \in MainPlace /\ mi' \in Slot
    BY <1>5 DEF CloseDestroy, NextClose
  <2> QED
    BY <1>5, <2>1, DestroyType DEF CloseDestroy
<1>6. CASE CloseFault \/ Flag \/ Exit
  BY <1>6 DEF CloseFault, Flag, Exit
<1> QED
  BY <1>1, <1>2, <1>3, <1>4, <1>5, <1>6 DEF Main, HandlerStep

LEMMA TypeListener == TypeInv /\ Listener => TypeInv'
<1> SUFFICES ASSUME TypeInv, Listener PROVE TypeInv'
  OBVIOUS
<1> USE ClientAssumption, NullAssumption, BacklogAssumption
    DEF TypeInv, TypeOK, TickBound, EntBound, Running, Slot, ListenPlace, THREAD_STATE_RUN,
        THREAD_STATE_EXIT, mainVars, lisVars, entVars, trdVars, netVars
<1>1. ASSUME NEW f \in Fd, Bind(f) \/ BindFails(f) PROVE TypeInv'
  BY <1>1 DEF Bind, BindFails
<1>9. ASSUME NEW f \in Fd, Accept(f) PROVE TypeInv'
  BY <1>9 DEF Accept
<1>2. CASE NoSocket \/ Loop \/ StopListening \/ AcceptFails \/ Refuse
  BY <1>2 DEF NoSocket, Loop, StopListening, AcceptFails, Refuse, NET_CloseSock
<1>3. CASE Publish
  BY <1>3 DEF Publish
<1>4. ASSUME NEW i \in Slot, NEW s \in Session, Create(i, s) PROVE TypeInv'
  <2>1. CASE UNCHANGED <<pc, ent>>
    BY <1>4, <2>1 DEF Create
  <2>2. CASE StartThread(s)
    BY <1>4, <2>2 DEF Create, StartThread, Place
  <2> QED
    BY <1>4, <2>1, <2>2 DEF Create
<1>5. CASE SweepSkip \/ Spare
  BY <1>5 DEF SweepSkip, Spare, NextSweep
<1>6. CASE SweepLoad
  BY <1>6 DEF SweepLoad
<1>7. CASE Reap
  <2>1. lpc' \in ListenPlace /\ li' \in Slot
    BY <1>7 DEF Reap, NextSweep
  <2> QED
    BY <1>7, <2>1, DestroyType DEF Reap
<1>8. CASE ReapFault
  BY <1>8 DEF ReapFault, MainPlace
<1> QED
  BY <1>1, <1>2, <1>3, <1>4, <1>5, <1>6, <1>7, <1>8, <1>9 DEF Listener

LEMMA TypeConnection ==
  ASSUME NEW t \in Thread, TypeInv, Connection(t)
  PROVE  TypeInv'
<1> USE TimeoutAssumption
    DEF TypeInv, TypeOK, TickBound, EntBound, Running, Place, THREAD_STATE_RUN, Goto,
        THREAD_STATE_EXIT, mainVars, lisVars, entVars, trdVars, netVars
<1>1. CASE Enter(t)
  BY <1>1 DEF Enter
<1>2. CASE CheckRun(t) \/ CheckExit(t) \/ Quiet(t) \/ Broken(t) \/ Trace(t)
  BY <1>2 DEF CheckRun, CheckExit, Quiet, Broken, Trace
<1>3. CASE Handle(t) \/ Incomplete(t)
  BY <1>3 DEF Handle, Incomplete, CountTick
<1>4. CASE Leave(t)
  BY <1>4 DEF Leave
<1>5. CASE UseFault(t)
  BY <1>5 DEF UseFault, MainPlace
<1> QED
  BY <1>1, <1>2, <1>3, <1>4, <1>5 DEF Connection

LEMMA TypePeers == TypeInv /\ Peers => TypeInv'
BY BacklogAssumption
   DEF TypeInv, TypeOK, TickBound, EntBound, Running, Peers, Connect, Hangup,
       mainVars, lisVars, entVars, trdVars, netVars

LEMMA TypeStep == TypeInv /\ [Next]_vars => TypeInv'
<1>1. TypeInv /\ UNCHANGED vars => TypeInv'
  BY DEF TypeInv, TypeOK, TickBound, EntBound, Running, vars, mainVars, lisVars, entVars, trdVars, netVars
<1> QED
  BY <1>1, TypeMain, TypeListener, TypeConnection, TypePeers DEF Next

(* Every variable keeps its type (tcpsvr.cpp:155-434).                     *)
THEOREM TypeCorrect == Spec => []TypeOK
<1>1. TypeInv => TypeOK
  BY DEF TypeInv
<1> QED
  BY <1>1, TypeInit, TypeStep, PTL DEF Spec

-----------------------------------------------------------------------------
(* The inductive invariant                                                 *)

LEMMA SoundInit == Init => Sound
BY NullAssumption
   DEF Init, Sound, TableSound, ListenerSound, ThreadSound, SocketSound, NoStray, Serving

(* A signal cannot be taken back.                                          *)
LEMMA SignalStays == Signalled /\ [Next]_vars => Signalled'
<1> SUFFICES ASSUME Signalled, [Next]_vars PROVE Signalled'
  OBVIOUS
<1> USE DEF Signalled, HandlerPlace, mainVars
<1>1. CASE UNCHANGED vars
  BY <1>1 DEF vars
<1>2. CASE Main \/ Signal
  BY <1>2 DEF Main, Signal, HandlerStep, ReadCfg, Announce, Report, Spawn, CloseSkip,
       CloseMark, CloseDestroy, CloseFault, NextClose, Flag, Exit
<1>3. CASE Listener
  BY <1>3 DEF Listener, Bind, BindFails, Accept, NoSocket, Loop, StopListening, AcceptFails,
       Refuse, Publish, Create, SweepSkip, SweepLoad, Spare, Reap, ReapFault
<1>4. CASE Peers
  BY <1>4 DEF Peers, Connect, Hangup
<1>5. ASSUME NEW t \in Thread, Connection(t) PROVE Signalled'
  BY <1>5 DEF Connection, Enter, CheckRun, CheckExit, Handle, Incomplete, Quiet, Broken,
       Leave, Trace, UseFault
<1> QED
  BY <1>1, <1>2, <1>3, <1>4, <1>5 DEF Next

LEMMA SoundMain ==
  ASSUME TypeInv, Sound, Main \/ Signal, ~Signalled, ~Signalled'
  PROVE  Sound'
<1> USE DEF Sound, TableSound, ListenerSound, ThreadSound, SocketSound, NoStray, Serving,
        mainVars, lisVars, entVars, trdVars, netVars
<1>1. CASE ReadCfg \/ Announce \/ Report
  BY <1>1 DEF ReadCfg, Announce, Report
<1>2. CASE Spawn
  BY <1>2 DEF Spawn
<1>3. CASE Signal \/ HandlerStep
  BY <1>3 DEF Signal, HandlerStep, CloseSkip, CloseMark, CloseDestroy, CloseFault, Flag, Exit,
       Signalled, HandlerPlace
<1> QED
  BY <1>1, <1>2, <1>3 DEF Main

LEMMA SoundPeers ==
  ASSUME TypeInv, Sound, Peers
  PROVE  Sound'
<1> USE DEF TypeInv, TypeOK, Sound, TableSound, ListenerSound, ThreadSound, SocketSound,
        NoStray, Serving, mainVars, lisVars, entVars, trdVars, netVars
<1>1. CASE Connect
  BY <1>1 DEF Connect
<1>2. ASSUME NEW f \in Fd, Hangup(f) PROVE Sound'
  BY <1>2 DEF Hangup
<1> QED
  BY <1>1, <1>2 DEF Peers

LEMMA SoundConnection ==
  ASSUME TypeInv, Sound, NEW t \in Thread, Connection(t), ~Signalled'
  PROVE  Sound'
<1> USE DEF TypeInv, TypeOK, EntBound, Running, Sound, TableSound, ListenerSound, ThreadSound, SocketSound,
        NoStray, Serving, Goto, mainVars, lisVars, entVars, trdVars, netVars
<1>1. CASE Enter(t)
  BY <1>1 DEF Enter
<1>2. CASE CheckRun(t)
  BY <1>2 DEF CheckRun
<1>3. CASE CheckExit(t)
  BY <1>3 DEF CheckExit, THREAD_STATE_EXIT, THREAD_STATE_RUN
<1>4. CASE Quiet(t) \/ Broken(t)
  BY <1>4 DEF Quiet, Broken
<1>5. CASE Handle(t) \/ Incomplete(t)
  BY <1>5 DEF Handle, Incomplete, CountTick
<1>6. CASE Leave(t)
  BY <1>6 DEF Leave
<1>7. CASE Trace(t)
  BY <1>7 DEF Trace
<1>8. CASE UseFault(t)
  BY <1>8 DEF UseFault, Signalled
<1> QED
  BY <1>1, <1>2, <1>3, <1>4, <1>5, <1>6, <1>7, <1>8 DEF Connection

(* The sweep frees a session that no thread serves, and closes the socket  *)
(* of nobody else.                                                         *)
LEMMA SoundReap ==
  ASSUME TypeInv, Sound, Reap
  PROVE  Sound'
<1> DEFINE d == lsvr
<1> USE DEF TypeInv, TypeOK, Sound
<1>1. d \in Session /\ d # NULL /\ slot[li] = d /\ li \in Slot /\ mem[d] = "live"
  BY DEF Reap, ListenerSound
<1>2. sock[d] \in Fd /\ sock[d] # NULL /\ \A t \in Thread : Serving(t) => ent[t] # d
  BY <1>1, NullAssumption
     DEF Reap, SocketSound, ThreadSound, THREAD_STATE_EXIT, THREAD_STATE_RUN
<1>3. /\ mem' = [mem EXCEPT ![d] = "free"]
      /\ sock' = [sock EXCEPT ![d] = NULL]
      /\ state' = [state EXCEPT ![d] = THREAD_STATE_EXIT]
      /\ slot' = [slot EXCEPT ![li] = NULL]
      /\ fd' = [fd EXCEPT ![sock[d]] = "closed"]
      /\ pc' = pc /\ ent' = ent /\ local' = local /\ main' = main /\ flagged' = flagged /\ lconn' = lconn
      /\ lpc = "judge" /\ lpc' \in {"loop", "sweep"}
  BY DEF Reap, Destroy, NET_CloseSock, NextSweep, mainVars, trdVars
<1> HIDE DEF d
<1>4. TableSound'
  BY <1>1, <1>3 DEF TableSound
<1>5. ListenerSound'
  BY <1>3 DEF ListenerSound
<1>6. ThreadSound'
  BY <1>1, <1>2, <1>3 DEF ThreadSound, Serving
<1>7. SocketSound'
  BY <1>1, <1>2, <1>3 DEF SocketSound
<1>8. NoStray'
  <2>1. ASSUME NEW f \in Fd, fd'[f] \in {"up", "gone"}
        PROVE  lconn' = f \/ \E s \in Session : mem'[s] = "live" /\ sock'[s] = f
    <3>1. f # sock[d] /\ fd[f] \in {"up", "gone"}
      BY <1>2, <1>3, <2>1
    <3>2. CASE lconn = f
      BY <1>3, <3>2
    <3>3. CASE \E s \in Session : mem[s] = "live" /\ sock[s] = f
      BY <1>3, <3>1, <3>3
    <3> QED
      BY <3>1, <3>2, <3>3 DEF NoStray
  <2>2. ASSUME NEW s \in Session, mem'[s] = "live"
        PROVE  \E i \in Slot : slot'[i] = s
    <3>1. s # d /\ mem[s] = "live"
      BY <1>1, <1>3, <2>2
    <3>2. PICK i \in Slot : slot[i] = s
      BY <1>3, <3>1 DEF NoStray
    <3> QED
      BY <1>1, <1>3, <3>1, <3>2
  <2> QED
    BY <2>1, <2>2 DEF NoStray
<1> QED
  BY <1>3, <1>4, <1>5, <1>6, <1>7, <1>8

LEMMA SoundListener ==
  ASSUME TypeInv, Sound, Listener, ~Signalled'
  PROVE  Sound'
<1> USE NullAssumption
    DEF TypeInv, TypeOK, Sound, TableSound, ListenerSound, ThreadSound, SocketSound,
        NoStray, Serving, mainVars, lisVars, entVars, trdVars, netVars
<1>1. ASSUME NEW f \in Fd, Bind(f) \/ BindFails(f) PROVE Sound'
  BY <1>1 DEF Bind, BindFails
<1>2. ASSUME NEW f \in Fd, Accept(f) PROVE Sound'
  BY <1>2 DEF Accept
<1>3. CASE NoSocket \/ Loop \/ StopListening \/ AcceptFails
  BY <1>3 DEF NoSocket, Loop, StopListening, AcceptFails
<1>4. CASE Refuse
  BY <1>4 DEF Refuse, NET_CloseSock
<1>5. ASSUME NEW i \in Slot, NEW s \in Session, Create(i, s) PROVE Sound'
  BY <1>5 DEF Create, StartThread, FirstFree
<1>6. CASE Publish
  BY <1>6 DEF Publish
<1>7. CASE SweepSkip \/ Spare
  BY <1>7 DEF SweepSkip, Spare, NextSweep
<1>8. CASE SweepLoad
  BY <1>8 DEF SweepLoad
<1>9. CASE Reap
  BY <1>9, SoundReap
<1>10. CASE ReapFault
  BY <1>10 DEF ReapFault, Signalled
<1> QED
  BY <1>1, <1>2, <1>3, <1>4, <1>5, <1>6, <1>7, <1>8, <1>9, <1>10 DEF Listener

LEMMA Inductive == IInv /\ [Next]_vars => IInv'
<1> SUFFICES ASSUME IInv, [Next]_vars, ~Signalled' PROVE Sound'
  BY TypeStep DEF IInv
<1>1. TypeInv /\ Sound /\ ~Signalled
  BY SignalStays DEF IInv
<1>2. CASE UNCHANGED vars
  BY <1>1, <1>2 DEF vars, Sound, TableSound, ListenerSound, ThreadSound, SocketSound,
       NoStray, Serving, mainVars, lisVars, entVars, trdVars, netVars
<1> QED
  BY <1>1, <1>2, SoundMain, SoundListener, SoundConnection, SoundPeers DEF Next

LEMMA Invariance == Spec => []IInv
<1>1. Init => IInv
  BY TypeInit, SoundInit DEF IInv
<1> QED
  BY <1>1, Inductive, PTL DEF Spec

-----------------------------------------------------------------------------
(* Before a signal the last trace of a thread is the only place where a    *)
(* freed session is used: the thread marks its session last but for that   *)
(* trace (tcpsvr.cpp:215-216), the sweep is the only place that frees, and *)
(* it frees marked sessions only (l.362-366).                              *)
THEOREM NoOtherUseAfterFree == Spec => []StaleOnlyAtTrace
<1>1. IInv => StaleOnlyAtTrace
  <2> SUFFICES ASSUME IInv, ~Signalled PROVE StaleOnlyAtTrace
    BY DEF StaleOnlyAtTrace
  <2>1. ASSUME NEW t \in Thread, Running(t), pc[t] # "trace" PROVE Serving(t)
    BY <2>1 DEF Running, Serving, IInv, TypeInv, TypeOK, Place
  <2> QED
    BY <2>1, NullAssumption
       DEF IInv, TypeInv, TypeOK, Sound, TableSound, ListenerSound, ThreadSound, StaleOnlyAtTrace
<1> QED
  BY <1>1, Invariance, PTL

(* Before a signal no two threads poll one descriptor, nor one that was    *)
(* closed under them and handed out again (tcpsvr.cpp:171-217, 239-242).   *)
THEOREM SocketsExclusive == Spec => []SocketExclusive
<1>1. IInv => SocketExclusive
  BY NullAssumption DEF IInv, TypeInv, TypeOK, EntBound, Running, Sound, ListenerSound,
     ThreadSound, SocketSound, SocketExclusive, Serving
<1> QED
  BY <1>1, Invariance, PTL

(* Before a signal every open connection and every allocated session is    *)
(* within the reach of the listener (tcpsvr.cpp:316-341, 362-366).         *)
THEOREM NoStraySession == Spec => []NothingStray
<1>1. IInv => NothingStray
  BY DEF IInv, Sound, TableSound, NoStray, NothingStray
<1> QED
  BY <1>1, Invariance, PTL
=============================================================================
