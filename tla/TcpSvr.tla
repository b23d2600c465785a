------------------------------- MODULE TcpSvr -------------------------------
(***************************************************************************)
(* The server of ctcpsvr/tcpsvr.cpp over netsock.cpp and vos.cpp: main and *)
(* its signal handler, the listener thread, one thread per connection, the *)
(* peers, and the descriptors that the kernel hands out again as soon as   *)
(* they are closed.  No lock protects gTcpIns or an entity_ctrl_t; what is *)
(* atomic here is one read or one write of them.                           *)
(*                                                                         *)
(* A Session is a heap block that malloc hands out and takes back, a       *)
(* Thread one the process creates, once: its joins are commented out       *)
(* (l.230, 235), so that an ended thread keeps its stack until the process *)
(* exits, and when no Thread is left pthread_create fails.  A thread       *)
(* follows its pointer wherever the block has gone.  Reading a freed block *)
(* yields any value or kills the process, a write to it is lost or kills   *)
(* the process, destroying it again aborts.  entity_ctrl_t.timeout is left *)
(* out: it is 0 from its birth (l.267), so that l.351-360 do nothing.      *)
(***************************************************************************)
EXTENDS Naturals

CONSTANTS
  MaxTcpClient,   (* MAX_TCP_CLIENT, the length of gTcpIns                  *)
  Session,        (* the blocks malloc may return                          *)
  Thread,         (* the connection threads the process can ever create    *)
  Fd,             (* the descriptors the process may have open             *)
  ClientTimeout,  (* clientTimeout, 300 in the code                        *)
  MaxBacklog,     (* bound on the connections that wait for accept         *)
  MaySignal,      (* whether a signal may arrive                           *)
  NULL            (* a null pointer, and -1 for a descriptor               *)

ASSUME ClientAssumption == MaxTcpClient \in Nat \ {0}
ASSUME TimeoutAssumption == ClientTimeout \in Nat \ {0}
ASSUME BacklogAssumption == MaxBacklog \in Nat \ {0}
ASSUME SignalAssumption == MaySignal \in BOOLEAN
ASSUME NullAssumption == NULL \notin Session \cup Fd

VARIABLES
  main,     (* where main, TcpSvr_Init or the signal handler is            *)
  mi,       (* the handler's slot number                                   *)
  msvr,     (* the entity the handler is about to destroy                  *)
  flagged,  (* gTcpMainTrd.state = THREAD_STATE_EXIT                       *)
  lpc,      (* where the listener thread is                                *)
  li,       (* its slot number i                                           *)
  lsvr,     (* its local svr                                               *)
  lconn,    (* its local ConnTcpSock                                       *)
  lsock,    (* its local TcpSock                                           *)
  slot,     (* gTcpIns[i].pTrdTcb                                          *)
  mem,      (* per session, whether its block is allocated                 *)
  state,    (* its field state: THREAD_STATE_RUN or THREAD_STATE_EXIT      *)
  sock,     (* its field ConnTcpSock                                       *)
  pc,       (* per thread, where it is                                     *)
  ent,      (* its svr, the session it was started on                      *)
  local,    (* its copy of ConnTcpSock                                     *)
  tick,     (* its tickCount                                               *)
  fd,       (* per descriptor, what it refers to                           *)
  backlog   (* connections the kernel completed and accept has not fetched *)

mainVars == <<main, mi, msvr, flagged>>
lisVars  == <<lpc, li, lsvr, lconn, lsock>>
entVars  == <<mem, state, sock>>
trdVars  == <<pc, ent, local, tick>>
netVars  == <<fd, backlog>>
vars == <<mainVars, lisVars, slot, entVars, trdVars, netVars>>

Slot == 1 .. MaxTcpClient
THREAD_STATE_RUN  == "run"
THREAD_STATE_EXIT == "exit"

(* "announce" and "report" are inside TcpPrint, "stuck" is the handler     *)
(* waiting for the log mutex that the code it interrupted holds.           *)
HandlerPlace == {"closing", "destroying", "flag", "exit", "stuck"}
MainPlace == {"read", "announce", "spawn", "report", "sleep", "exited", "crashed"}
               \cup HandlerPlace
ListenPlace == {"none", "bind", "loop", "accept", "create", "publish", "sweep", "judge", "done"}
Place == {"none", "enter", "check", "poll", "leave", "trace", "ended"}

TypeOK ==
  /\ main \in MainPlace /\ mi \in Slot /\ msvr \in Session \cup {NULL}
  /\ flagged \in BOOLEAN
  /\ lpc \in ListenPlace /\ li \in Slot /\ lsvr \in Session \cup {NULL}
  /\ lconn \in Fd \cup {NULL} /\ lsock \in Fd \cup {NULL}
  /\ slot \in [Slot -> Session \cup {NULL}]
  /\ mem \in [Session -> {"free", "live"}]
  /\ state \in [Session -> {THREAD_STATE_RUN, THREAD_STATE_EXIT}]
  /\ sock \in [Session -> Fd \cup {NULL}]
  /\ pc \in [Thread -> Place]
  /\ ent \in [Thread -> Session \cup {NULL}]
  /\ local \in [Thread -> Fd \cup {NULL}]
  /\ tick \in [Thread -> 0 .. ClientTimeout + 1]
  /\ fd \in [Fd -> {"closed", "listen", "up", "gone"}]
  /\ backlog \in 0 .. MaxBacklog

Init ==
  /\ main = "read" /\ mi = 1 /\ msvr = NULL /\ flagged = FALSE
  /\ lpc = "none" /\ li = 1 /\ lsvr = NULL /\ lconn = NULL /\ lsock = NULL
  /\ slot = [i \in Slot |-> NULL]
  /\ mem = [s \in Session |-> "free"]
  /\ state = [s \in Session |-> THREAD_STATE_EXIT]
  /\ sock = [s \in Session |-> NULL]
  /\ pc = [t \in Thread |-> "none"]
  /\ ent = [t \in Thread |-> NULL]
  /\ local = [t \in Thread |-> NULL]
  /\ tick = [t \in Thread |-> 0]
  /\ fd = [f \in Fd |-> "closed"]
  /\ backlog = 0

Alive == main \notin {"exited", "crashed"}
Signalled == main \in HandlerPlace \cup {"exited", "crashed"}
ClosedFds == {f \in Fd : fd[f] = "closed"}
Listening == lsock # NULL /\ fd[lsock] = "listen"

(* NET_CloseSock, and _TcpSvr_destroy of a block that is allocated: it     *)
(* joins no thread and waits for none.                                     *)
NET_CloseSock(f) == fd' = [fd EXCEPT ![f] = "closed"]

(* Mutant: _TcpSvr_destroy leaves the socket open.                         *)
Destroy_KeepsSocket(s) ==
  /\ fd' = fd
  /\ mem' = [mem EXCEPT ![s] = "free"]
  /\ sock' = [sock EXCEPT ![s] = NULL]
  /\ state' = [state EXCEPT ![s] = THREAD_STATE_EXIT]

Destroy(s) ==
  /\ NET_CloseSock(sock[s])
  /\ mem' = [mem EXCEPT ![s] = "free"]
  /\ sock' = [sock EXCEPT ![s] = NULL]
  /\ state' = [state EXCEPT ![s] = THREAD_STATE_EXIT]

-----------------------------------------------------------------------------
(* main, TcpSvr_Init and the signal handler                                *)

(* Cfg_ReadInt returns 0 or an error, and an error leaves no server.       *)
ReadCfg ==
  /\ main = "read"
  /\ main' \in {"announce", "report"}
  /\ UNCHANGED <<mi, msvr, flagged, lisVars, slot, entVars, trdVars, netVars>>

(* TcpPrint returns and releases the log mutex.                            *)
Announce ==
  /\ main = "announce"
  /\ main' = "spawn"
  /\ UNCHANGED <<mi, msvr, flagged, lisVars, slot, entVars, trdVars, netVars>>

Report ==
  /\ main = "report"
  /\ main' = "sleep"
  /\ UNCHANGED <<mi, msvr, flagged, lisVars, slot, entVars, trdVars, netVars>>

(* osCreateThread for the listener; it may fail.                           *)
Spawn ==
  /\ main = "spawn"
  /\ main' = "report"
  /\ lpc' \in {"none", "bind"}
  /\ UNCHANGED <<mi, msvr, flagged, li, lsvr, lconn, lsock, slot, entVars, trdVars, netVars>>

(* SIGINT, SIGTERM or SIGUSR1: TcpSvr_sigExit logs, then TcpSvr_close.     *)
Signal ==
  /\ MaySignal /\ ~Signalled
  /\ main' = IF main \in {"announce", "report"} THEN "stuck" ELSE "closing"
  /\ UNCHANGED <<mi, msvr, flagged, lisVars, slot, entVars, trdVars, netVars>>

(* Mutant: the loop of TcpSvr_close does not go on after the last slot.    *)
NextClose_NoEnd ==
  main' = "closing" /\ mi' = IF mi = MaxTcpClient THEN 1 ELSE mi + 1

(* The loop of TcpSvr_close goes on with the next slot.                    *)
NextClose ==
  IF mi = MaxTcpClient
    THEN main' = "flag" /\ mi' = mi
    ELSE main' = "closing" /\ mi' = mi + 1

CloseSkip ==
  /\ main = "closing"
  /\ slot[mi] = NULL
  /\ NextClose
  /\ UNCHANGED <<msvr, flagged, lisVars, slot, entVars, trdVars, netVars>>

(* state = EXIT, and the argument of _TcpSvr_destroy is read.              *)
CloseMark ==
  /\ main = "closing"
  /\ slot[mi] # NULL
  /\ main' = "destroying"
  /\ msvr' = slot[mi]
  /\ state' = [state EXCEPT ![slot[mi]] = THREAD_STATE_EXIT]
  /\ UNCHANGED <<mi, flagged, lisVars, slot, mem, sock, trdVars, netVars>>

CloseDestroy ==
  /\ main = "destroying"
  /\ mem[msvr] = "live"
  /\ Destroy(msvr)
  /\ slot' = [slot EXCEPT ![mi] = NULL]
  /\ NextClose
  /\ msvr' = NULL
  /\ UNCHANGED <<flagged, lisVars, trdVars, backlog>>

(* The listener destroyed it in between: the second free() aborts.         *)
CloseFault ==
  /\ main = "destroying"
  /\ mem[msvr] = "free"
  /\ main' = "crashed"
  /\ UNCHANGED <<mi, msvr, flagged, lisVars, slot, entVars, trdVars, netVars>>

(* gTcpMainTrd.pTrd is not NULL once the listener was created.             *)
Flag ==
  /\ main = "flag"
  /\ main' = "exit"
  /\ flagged' = (lpc # "none")
  /\ UNCHANGED <<mi, msvr, lisVars, slot, entVars, trdVars, netVars>>

Exit ==
  /\ main = "exit"
  /\ main' = "exited"
  /\ UNCHANGED <<mi, msvr, flagged, lisVars, slot, entVars, trdVars, netVars>>

HandlerStep == CloseSkip \/ CloseMark \/ CloseDestroy \/ CloseFault \/ Flag \/ Exit

Main == ReadCfg \/ Announce \/ Report \/ Spawn \/ HandlerStep

-----------------------------------------------------------------------------
(* The listener thread                                                     *)

(* NET_Ser_Bind: the port is bound and listened to.                        *)
Bind(f) ==
  /\ lpc = "bind"
  /\ fd[f] = "closed"
  /\ fd' = [fd EXCEPT ![f] = "listen"]
  /\ lsock' = f
  /\ lpc' = "loop"
  /\ UNCHANGED <<mainVars, li, lsvr, lconn, slot, entVars, trdVars, backlog>>

(* bind() or listen() fails: NET_Ser_Bind closes the socket and returns    *)
(* its number all the same, which the listener takes for a success.        *)
BindFails(f) ==
  /\ lpc = "bind"
  /\ fd[f] = "closed"
  /\ lsock' = f
  /\ lpc' = "loop"
  /\ UNCHANGED <<mainVars, li, lsvr, lconn, slot, entVars, trdVars, netVars>>

(* socket() fails, the one failure that the listener sees.                 *)
NoSocket ==
  /\ lpc = "bind"
  /\ lpc' = "done"
  /\ UNCHANGED <<mainVars, li, lsvr, lconn, lsock, slot, entVars, trdVars, netVars>>

Loop ==
  /\ lpc = "loop"
  /\ ~flagged
  /\ lpc' = "accept"
  /\ UNCHANGED <<mainVars, li, lsvr, lconn, lsock, slot, entVars, trdVars, netVars>>

StopListening ==
  /\ lpc = "loop"
  /\ flagged
  /\ lpc' = "done"
  /\ NET_CloseSock(lsock)
  /\ UNCHANGED <<mainVars, li, lsvr, lconn, lsock, slot, entVars, trdVars, backlog>>

(* Any descriptor that is closed may come back from accept().              *)
Accept(f) ==
  /\ lpc = "accept"
  /\ Listening
  /\ backlog > 0
  /\ fd[f] = "closed"
  /\ backlog' = backlog - 1
  /\ fd' = [fd EXCEPT ![f] = "up"]
  /\ lconn' = f
  /\ lpc' = "create"
  /\ UNCHANGED <<mainVars, li, lsvr, lsock, slot, entVars, trdVars>>

(* Mutant: a timeout goes back to the head of the loop.                    *)
AcceptFails_NoSweep ==
  /\ lpc = "accept"
  /\ ~Listening \/ backlog = 0 \/ ClosedFds = {}
  /\ lpc' = "loop"
  /\ UNCHANGED <<mainVars, li, lsvr, lconn, lsock, slot, entVars, trdVars, netVars>>

(* select() times out or fails, or accept() is out of descriptors.         *)
AcceptFails ==
  /\ lpc = "accept"
  /\ ~Listening \/ backlog = 0 \/ ClosedFds = {}
  /\ lpc' = "sweep"
  /\ UNCHANGED <<mainVars, li, lsvr, lconn, lsock, slot, entVars, trdVars, netVars>>

(* The table is full, or malloc fails: the connection is closed again.     *)
Refuse ==
  /\ lpc = "create"
  /\ NET_CloseSock(lconn)
  /\ lconn' = NULL
  /\ lpc' = "loop"
  /\ UNCHANGED <<mainVars, li, lsvr, lsock, slot, entVars, trdVars, backlog>>

FirstFree(i) ==
  /\ slot[i] = NULL
  /\ \A j \in 1 .. i - 1 : slot[j] # NULL

(* osCreateThread(21, TcpConnection_thread, svr).                          *)
StartThread(s) ==
  \E t \in Thread :
    /\ pc[t] = "none"
    /\ pc' = [pc EXCEPT ![t] = "enter"]
    /\ ent' = [ent EXCEPT ![t] = s]

(* _TcpSvr_create on any free block, the one that a thread still names     *)
(* included.  Nobody looks whether pthread_create succeeded.  The thread   *)
(* runs before the slot is written.                                        *)
Create(i, s) ==
  /\ lpc = "create"
  /\ FirstFree(i)
  /\ mem[s] = "free"
  /\ mem' = [mem EXCEPT ![s] = "live"]
  /\ state' = [state EXCEPT ![s] = THREAD_STATE_RUN]
  /\ sock' = [sock EXCEPT ![s] = lconn]
  /\ StartThread(s) \/ UNCHANGED <<pc, ent>>
  /\ lsvr' = s
  /\ li' = i
  /\ lconn' = NULL
  /\ lpc' = "publish"
  /\ UNCHANGED <<mainVars, lsock, slot, local, tick, netVars>>

Publish ==
  /\ lpc = "publish"
  /\ slot' = [slot EXCEPT ![li] = lsvr]
  /\ lsvr' = NULL
  /\ li' = 1
  /\ lpc' = "loop"
  /\ UNCHANGED <<mainVars, lconn, lsock, entVars, trdVars, netVars>>

NextSweep ==
  IF li = MaxTcpClient
    THEN lpc' = "loop" /\ li' = 1
    ELSE lpc' = "sweep" /\ li' = li + 1

SweepSkip ==
  /\ lpc = "sweep"
  /\ slot[li] = NULL
  /\ NextSweep
  /\ UNCHANGED <<mainVars, lsvr, lconn, lsock, slot, entVars, trdVars, netVars>>

SweepLoad ==
  /\ lpc = "sweep"
  /\ slot[li] # NULL
  /\ lsvr' = slot[li]
  /\ lpc' = "judge"
  /\ UNCHANGED <<mainVars, li, lconn, lsock, slot, entVars, trdVars, netVars>>

Spare ==
  /\ lpc = "judge"
  /\ state[lsvr] = THREAD_STATE_RUN \/ mem[lsvr] = "free"
  /\ lsvr' = NULL
  /\ NextSweep
  /\ UNCHANGED <<mainVars, lconn, lsock, slot, entVars, trdVars, netVars>>

(* Mutant: the sweep reaps without looking at the state.                   *)
Reap_AnyState ==
  /\ lpc = "judge"
  /\ mem[lsvr] = "live"
  /\ Destroy(lsvr)
  /\ slot' = [slot EXCEPT ![li] = NULL]
  /\ lsvr' = NULL
  /\ NextSweep
  /\ UNCHANGED <<mainVars, lconn, lsock, trdVars, backlog>>

Reap ==
  /\ lpc = "judge"
  /\ mem[lsvr] = "live"
  /\ state[lsvr] = THREAD_STATE_EXIT
  /\ Destroy(lsvr)
  /\ slot' = [slot EXCEPT ![li] = NULL]
  /\ lsvr' = NULL
  /\ NextSweep
  /\ UNCHANGED <<mainVars, lconn, lsock, trdVars, backlog>>

(* The handler destroyed the session since it was loaded.                  *)
ReapFault ==
  /\ lpc = "judge"
  /\ mem[lsvr] = "free"
  /\ main' = "crashed"
  /\ UNCHANGED <<mi, msvr, flagged, lisVars, slot, entVars, trdVars, netVars>>

Listener ==
  \/ \E f \in Fd : Bind(f) \/ BindFails(f) \/ Accept(f)
  \/ NoSocket \/ Loop \/ StopListening \/ AcceptFails \/ Refuse \/ Publish
  \/ \E i \in Slot, s \in Session : Create(i, s)
  \/ SweepSkip \/ SweepLoad \/ Spare \/ Reap \/ ReapFault

-----------------------------------------------------------------------------
(* A connection thread                                                     *)

Goto(t, place) == pc' = [pc EXCEPT ![t] = place]

(* The descriptor is copied; from a freed block comes any number.          *)
Enter(t) ==
  /\ pc[t] = "enter"
  /\ Goto(t, "check")
  /\ \E f \in IF mem[ent[t]] = "live" THEN {sock[ent[t]]} ELSE Fd \cup {NULL} :
       local' = [local EXCEPT ![t] = f]
  /\ UNCHANGED <<mainVars, lisVars, slot, entVars, ent, tick, netVars>>

CheckRun(t) ==
  /\ pc[t] = "check"
  /\ state[ent[t]] = THREAD_STATE_RUN \/ mem[ent[t]] = "free"
  /\ Goto(t, "poll")
  /\ UNCHANGED <<mainVars, lisVars, slot, entVars, ent, local, tick, netVars>>

CheckExit(t) ==
  /\ pc[t] = "check"
  /\ state[ent[t]] = THREAD_STATE_EXIT
  /\ Goto(t, "leave")
  /\ UNCHANGED <<mainVars, lisVars, slot, entVars, ent, local, tick, netVars>>

Link(t) == IF local[t] = NULL THEN "closed" ELSE fd[local[t]]

(* `if (tickCount++ >= clientTimeout)` with n the count before it.         *)
CountTick(t, n) ==
  /\ tick' = [tick EXCEPT ![t] = n + 1]
  /\ Goto(t, IF n >= ClientTimeout THEN "leave" ELSE "check")

(* NET_PollAndRev returned whole messages: _Msg_handler1 never fails.      *)
Handle(t) ==
  /\ pc[t] = "poll"
  /\ Link(t) = "up"
  /\ CountTick(t, 0)
  /\ UNCHANGED <<mainVars, lisVars, slot, entVars, ent, local, netVars>>

(* It returned a number of bytes that is no multiple of sizeof(MSG_CMD_T). *)
Incomplete(t) ==
  /\ pc[t] = "poll"
  /\ Link(t) = "up"
  /\ CountTick(t, tick[t])
  /\ UNCHANGED <<mainVars, lisVars, slot, entVars, ent, local, netVars>>

(* Mutant: a read of 0 bytes counts as silence without NET_CheckTcpLink.   *)
Quiet_NoLinkCheck(t) ==
  /\ pc[t] = "poll"
  /\ Link(t) \in {"up", "gone"}
  /\ Goto(t, "check")
  /\ UNCHANGED <<mainVars, lisVars, slot, entVars, ent, local, tick, netVars>>

(* select() timed out and the link is established: no tick is counted.     *)
Quiet(t) ==
  /\ pc[t] = "poll"
  /\ Link(t) = "up"
  /\ Goto(t, "check")
  /\ UNCHANGED <<mainVars, lisVars, slot, entVars, ent, local, tick, netVars>>

(* Mutant: the thread closes its socket before it marks the session.       *)
Broken_Closes(t) ==
  /\ pc[t] = "poll"
  /\ Link(t) # "up"
  /\ Goto(t, "leave")
  /\ NET_CloseSock(local[t])
  /\ UNCHANGED <<mainVars, lisVars, slot, entVars, ent, local, tick, backlog>>

(* End of file, an error, or a link that is not established.               *)
Broken(t) ==
  /\ pc[t] = "poll"
  /\ Link(t) # "up"
  /\ Goto(t, "leave")
  /\ UNCHANGED <<mainVars, lisVars, slot, entVars, ent, local, tick, netVars>>

(* svr->state = THREAD_STATE_EXIT, lost on a freed block.                  *)
Leave(t) ==
  /\ pc[t] = "leave"
  /\ Goto(t, "trace")
  /\ state' = [state EXCEPT ![ent[t]] = THREAD_STATE_EXIT]
  /\ local' = [local EXCEPT ![t] = NULL]
  /\ tick' = [tick EXCEPT ![t] = 0]
  /\ UNCHANGED <<mainVars, lisVars, slot, mem, sock, ent, netVars>>

(* The last TcpPrint reads svr->idx, and the thread ends for nobody to     *)
(* join.                                                                   *)
Trace(t) ==
  /\ pc[t] = "trace"
  /\ Goto(t, "ended")
  /\ ent' = [ent EXCEPT ![t] = NULL]
  /\ UNCHANGED <<mainVars, lisVars, slot, entVars, local, tick, netVars>>

Running(t) == pc[t] \notin {"none", "ended"}

(* A running thread uses its session at every place, and this one is       *)
(* freed: the access may kill the process.                                 *)
UseFault(t) ==
  /\ Running(t)
  /\ mem[ent[t]] = "free"
  /\ main' = "crashed"
  /\ UNCHANGED <<mi, msvr, flagged, lisVars, slot, entVars, trdVars, netVars>>

Connection(t) ==
  \/ Enter(t) \/ CheckRun(t) \/ CheckExit(t) \/ Handle(t) \/ Incomplete(t)
  \/ Quiet(t) \/ Broken(t) \/ Leave(t) \/ Trace(t) \/ UseFault(t)

-----------------------------------------------------------------------------
(* The peers: one connects, one closes or resets its connection            *)

Connect ==
  /\ Listening
  /\ backlog < MaxBacklog
  /\ backlog' = backlog + 1
  /\ UNCHANGED <<mainVars, lisVars, slot, entVars, trdVars, fd>>

Hangup(f) ==
  /\ fd[f] = "up"
  /\ fd' = [fd EXCEPT ![f] = "gone"]
  /\ UNCHANGED <<mainVars, lisVars, slot, entVars, trdVars, backlog>>

Peers == Connect \/ \E f \in Fd : Hangup(f)

Next ==
  /\ Alive
  /\ Main \/ Signal \/ Listener \/ Peers \/ \E t \in Thread : Connection(t)

(* The threads are scheduled; nothing makes a peer or a signal come.       *)
Fairness ==
  /\ WF_vars(Alive /\ Main)
  /\ WF_vars(Alive /\ Listener)
  /\ \A t \in Thread : WF_vars(Alive /\ Connection(t))

Spec == Init /\ [][Next]_vars /\ Fairness

-----------------------------------------------------------------------------
(* Properties                                                              *)

(* Up to svr->state = THREAD_STATE_EXIT included.                          *)
Serving(t) == pc[t] \in {"enter", "check", "poll", "leave"}

(* Until a signal arrives a freed session is used by nobody but a thread   *)
(* at its last trace, which does it (tcpsvr.cpp:216): not by a thread      *)
(* earlier on, whose session is live, running and its own alone, not       *)
(* through the table, not by the listener between its load of a slot and   *)
(* its verdict (l.171-215, 338-339, 346-367).                              *)
StaleOnlyAtTrace ==
  ~Signalled =>
    /\ \A t \in Thread : Running(t) => pc[t] = "trace" \/
         /\ mem[ent[t]] = "live"
         /\ state[ent[t]] = THREAD_STATE_RUN
         /\ \A u \in Thread \ {t} : Serving(u) => ent[u] # ent[t]
    /\ \A i \in Slot : slot[i] # NULL => mem[slot[i]] = "live"
    /\ lpc \in {"publish", "judge"} => lsvr # NULL /\ mem[lsvr] = "live"

(* Until a signal arrives a thread that still serves polls a descriptor    *)
(* that is open and its own, although the kernel hands a number out again  *)
(* as soon as the sweep closes it (tcpsvr.cpp:171, 215, 239-242, 362-366). *)
SocketExclusive ==
  ~Signalled => \A t \in Thread : Serving(t) =>
    /\ sock[ent[t]] \in Fd /\ fd[sock[ent[t]]] \in {"up", "gone"}
    /\ pc[t] # "enter" => local[t] = sock[ent[t]]
    /\ sock[ent[t]] # lconn
    /\ \A s \in Session \ {ent[t]} : sock[s] # sock[ent[t]]

(* Until a signal arrives no connection and no session is lost, on the     *)
(* error paths either: an open connection belongs to the accept in         *)
(* progress or to a session, and a session is in one slot or about to be   *)
(* put there (l.316-341, 362-366).  Threads are lost: nobody joins them.   *)
NothingStray ==
  ~Signalled =>
    /\ \A f \in Fd : fd[f] \in {"up", "gone"} =>
         lconn = f \/ \E s \in Session : mem[s] = "live" /\ sock[s] = f
    /\ \A s \in Session : mem[s] = "live" =>
         (lpc = "publish" /\ lsvr = s) \/ \E i \in Slot : slot[i] = s
    /\ \A i, j \in Slot : slot[i] = slot[j] /\ slot[i] # NULL => i = j

(* A thread whose peer has hung up ends (tcpsvr.cpp:193-207).              *)
HangupEndsThread ==
  \A t \in Thread :
    pc[t] = "poll" /\ Link(t) = "gone" ~> ~Alive \/ ~Serving(t)

(* If clients stop arriving, the sweep frees the slot of every session     *)
(* that has ended (tcpsvr.cpp:344-368); while they keep arriving within    *)
(* five seconds of each other it never runs.                               *)
EndedIsReclaimed ==
  <>[](backlog = 0) =>
    \A i \in Slot : slot[i] # NULL /\ state[slot[i]] = THREAD_STATE_EXIT
                      ~> ~Alive \/ slot[i] = NULL

(* A signal that finds main outside of its own logging ends the process    *)
(* (tcpsvr.cpp:404-434).                                                   *)
HandlerEnds == main = "closing" ~> ~Alive
=============================================================================
