------------------------------ MODULE TcpServer ------------------------------
(***************************************************************************)
(* toolkit::TcpServer and its sessions (include/Network/TcpServer.h): the  *)
(* server that main starts, a clone of it on every other poller, the       *)
(* sessions each of them serves in the thread of its poller, the SessionMap *)
(* by which anybody finds a session, and the end, which starts in main     *)
(* while the pollers go on.  Socket, Timer and EventPoller are external: a *)
(* poller runs one callback at a time, a socket reports its error once,    *)
(* and a timer that is reset does not stop a callback that has begun.      *)
(***************************************************************************)
EXTENDS Naturals

CONSTANTS
  Poller,
  Primary,     (* the poller of the server that main has                   *)
  Session,     (* the addresses of TcpSessions                             *)
  MAIN, NULL

ASSUME PrimaryAssumption == Primary \in Poller
ASSUME NullAssumption == NULL \notin Session \cup Poller /\ MAIN \notin Poller

VARIABLES
  setup,       (* how far start and cloneFrom are with each poller         *)
  stage,       (* per poller, the life of its server                       *)
  own,         (* the servers that main, or the primary one, holds         *)
  by,          (* per server, the thread that runs its destructor          *)
  pc, cur,     (* per poller, the callback it is in, and the session there *)
  sess,        (* "in" has a helper in _sessionMap, "made" one outside of  *)
               (* it, "out" exists without one                             *)
  home,        (* per session, its poller                                  *)
  erred,       (* the sessions whose socket has reported an error          *)
  told,        (* per session, how often onError was called                *)
  found,       (* the sessions that somebody got from the SessionMap       *)
  tasks        (* the sessions with an onManager task                      *)

server == <<stage, own, by>>
run == <<pc, cur>>
session == <<sess, home, erred, told, found, tasks>>
vars == <<setup, server, run, session>>

Clone == Poller \ {Primary}

TypeOK ==
  /\ setup \in [Poller -> {"none", "listening", "timed", "ready"}]
  /\ stage \in [Poller -> {"none", "up", "stopping", "clearing", "releasing", "gone"}]
  /\ own \subseteq Poller
  /\ by \in [Poller -> Poller \cup {MAIN, NULL}]
  /\ pc \in [Poller -> {"idle", "accepting", "entering", "telling", "erasing", "managing", "destroying"}]
  /\ cur \in [Poller -> Session \cup {NULL}]
  /\ \A p \in Poller : pc[p] \in {"accepting", "entering", "telling", "erasing"} => cur[p] # NULL
  /\ sess \in [Session -> {"free", "made", "in", "out"}]
  /\ home \in [Session -> Poller]
  /\ erred \subseteq Session
  /\ told \in [Session -> 0..2]
  /\ found \subseteq Session /\ tasks \subseteq Session
  /\ \A s \in found \cup tasks : sess[s] # "free"

Init ==
  /\ setup = [p \in Poller |-> "none"]
  /\ stage = [p \in Poller |-> IF p = Primary THEN "up" ELSE "none"]
  /\ own = {Primary}
  /\ by = [p \in Poller |-> NULL]
  /\ pc = [p \in Poller |-> "idle"]
  /\ cur = [p \in Poller |-> NULL]
  /\ sess = [s \in Session |-> "free"]
  /\ home = [s \in Session |-> Primary]
  /\ erred = {}
  /\ told = [s \in Session |-> 0]
  /\ found = {} /\ tasks = {}

(* A callback works on a server that is being destroyed in another thread, *)
(* or enters one that is gone: undefined, and no step is taken from there. *)
Conflict(p) ==
  \/ pc[p] \in {"entering", "managing"} /\ stage[p] \notin {"up", "stopping"}
  \/ pc[p] = "accepting" /\ stage[p] = "gone"

Sound == \A p \in Poller : ~Conflict(p)

-----------------------------------------------------------------------------
(* start, in main; a poller accepts as soon as its socket listens.         *)

(* Mutant of GiveUp: nobody is left to run the destructor.                 *)
GiveUp_Leaks(t, p) ==
  /\ own' = own \ {p}
  /\ IF pc[p] # "idle"
       THEN UNCHANGED <<stage, by>>
       ELSE stage' = [stage EXCEPT ![p] = "stopping"] /\ by' = [by EXCEPT ![p] = t]

(* The pointer to the server of p is given up by thread t; whoever has the *)
(* last one runs the destructor.                                           *)
GiveUp(t, p) ==
  /\ own' = own \ {p}
  /\ IF pc[p] = "erasing"
       THEN UNCHANGED <<stage, by>>
       ELSE stage' = [stage EXCEPT ![p] = "stopping"] /\ by' = [by EXCEPT ![p] = t]

Listen ==
  /\ Sound /\ setup[Primary] = "none" /\ Primary \in own
  /\ setup' = [setup EXCEPT ![Primary] = "listening"]
  /\ UNCHANGED <<server, run, session>>

ListenFails ==
  /\ Sound /\ setup[Primary] = "none" /\ Primary \in own
  /\ GiveUp(MAIN, Primary)
  /\ UNCHANGED <<setup, run, session>>

StartTimer ==
  /\ Sound /\ setup[Primary] = "listening"
  /\ setup' = [setup EXCEPT ![Primary] = "ready"]
  /\ UNCHANGED <<server, run, session>>

(* cloneFrom: the session maker and the socket, the timer, the settings.   *)
(* What the settings are, and which sessions miss them, is left out.       *)
CloneListen(p) ==
  /\ Sound /\ setup[p] = "none"
  /\ \A q \in Poller \ {p} : setup[q] \in {"none", "ready"}
  /\ setup[Primary] = "ready"
  /\ setup' = [setup EXCEPT ![p] = "listening"]
  /\ stage' = [stage EXCEPT ![p] = "up"]
  /\ own' = own \cup {p}
  /\ UNCHANGED <<by, run, session>>

CloneTimer(p) ==
  /\ Sound /\ setup[p] = "listening"
  /\ setup' = [setup EXCEPT ![p] = "timed"]
  /\ UNCHANGED <<server, run, session>>

CloneConfig(p) ==
  /\ Sound /\ setup[p] = "timed"
  /\ setup' = [setup EXCEPT ![p] = "ready"]
  /\ UNCHANGED <<server, run, session>>

(* main is done with the server.                                           *)
Release ==
  /\ Sound /\ Primary \in own
  /\ \A p \in Poller : setup[p] = "ready"
  /\ GiveUp(MAIN, Primary)
  /\ UNCHANGED <<setup, run, session>>

-----------------------------------------------------------------------------
(* The callbacks of a poller                                               *)

Go(p, place, s) ==
  /\ pc' = [pc EXCEPT ![p] = place]
  /\ cur' = [cur EXCEPT ![p] = s]

(* onAcceptConnection is called with a plain this.                         *)
AcceptBegin(p, s) ==
  /\ Sound /\ pc[p] = "idle"
  /\ setup[p] # "none" /\ stage[p] \in {"up", "stopping"}
  /\ sess[s] = "free" /\ \A q \in Poller : cur[q] # s
  /\ Go(p, "accepting", s)
  /\ UNCHANGED <<setup, server, session>>

(* shared_from_this throws once the destructor has begun.                  *)
AcceptThrows(p) ==
  /\ Sound /\ pc[p] = "accepting" /\ stage[p] # "up"
  /\ Go(p, "idle", NULL)
  /\ UNCHANGED <<setup, server, session>>

(* The session and its helper, which enters it in the SessionMap.          *)
Make(p) ==
  LET s == cur[p] IN
  /\ Sound /\ pc[p] = "accepting" /\ stage[p] = "up"
  /\ Go(p, "entering", s)
  /\ sess' = [sess EXCEPT ![s] = "made"]
  /\ home' = [home EXCEPT ![s] = p]
  /\ erred' = erred \ {s}
  /\ told' = [told EXCEPT ![s] = 0]
  /\ UNCHANGED <<setup, server, found, tasks>>

(* _sessionMap.emplace, and the socket's callbacks.                        *)
Enter(p) ==
  /\ Sound /\ pc[p] = "entering"
  /\ sess' = [sess EXCEPT ![cur[p]] = "in"]
  /\ Go(p, "idle", NULL)
  /\ UNCHANGED <<setup, server, home, erred, told, found, tasks>>

(* The socket's error: the session is told.                                *)
Err(p, s) ==
  /\ Sound /\ pc[p] = "idle"
  /\ sess[s] \in {"in", "out"} /\ home[s] = p /\ s \notin erred
  /\ Go(p, "telling", s)
  /\ erred' = erred \cup {s}
  /\ told' = [told EXCEPT ![s] = @ + 1]
  /\ UNCHANGED <<setup, server, sess, home, found, tasks>>

(* A session without a helper exists as long as somebody has a pointer to  *)
(* it: one of those in keep, or who found it.                              *)
Without(s, keep) ==
  /\ sess' = [sess EXCEPT ![s] = IF s \in keep THEN "out" ELSE "free"]
  /\ tasks' = {x \in tasks : sess'[x] # "free"}

(* The pointer of the error callback goes; then it removes the session if  *)
(* it still gets hold of the server (in this thread, so at once).          *)

(* Mutant of LockServer: the server is used without a pointer to it.       *)
LockServer_Raw(p) ==
  /\ Sound /\ pc[p] = "telling"
  /\ Go(p, "erasing", cur[p])
  /\ UNCHANGED <<setup, server, session>>

LockServer(p) ==
  /\ Sound /\ pc[p] = "telling" /\ stage[p] = "up"
  /\ Go(p, "erasing", cur[p])
  /\ UNCHANGED <<setup, server, session>>

LockFails(p) ==
  LET s == cur[p] IN
  /\ Sound /\ pc[p] = "telling" /\ stage[p] # "up"
  /\ Go(p, "idle", NULL)
  /\ IF sess[s] = "out" THEN Without(s, found) ELSE UNCHANGED <<sess, tasks>>
  /\ UNCHANGED <<setup, server, home, erred, told, found>>

(* Mutant of DropHelper: the test of the server is the wrong way round.    *)
DropHelper_Negated(s, serverGone, keep) ==
  /\ told' = IF serverGone THEN told ELSE [told EXCEPT ![s] = @ + 1]
  /\ Without(s, keep)

(* ~TcpSessionHelper, which tells the session once more if the server is   *)
(* no longer there.                                                        *)
DropHelper(s, serverGone, keep) ==
  /\ told' = IF serverGone THEN [told EXCEPT ![s] = @ + 1] ELSE told
  /\ Without(s, keep)

(* Mutant of EraseEnd: the session stays in _sessionMap.                   *)
EraseEnd_Keeps(p) ==
  /\ Sound /\ pc[p] = "erasing"
  /\ IF p \in own
       THEN Go(p, "idle", NULL) /\ UNCHANGED <<stage, by>>
       ELSE /\ Go(p, "destroying", NULL)
            /\ stage' = [stage EXCEPT ![p] = "stopping"]
            /\ by' = [by EXCEPT ![p] = p]
  /\ UNCHANGED <<setup, own, session>>

(* The pointer to the server may be the last one by now.                   *)
EraseEnd(p) ==
  /\ Sound /\ pc[p] = "erasing"
  /\ IF sess[cur[p]] = "in" THEN DropHelper(cur[p], FALSE, found) ELSE UNCHANGED <<sess, told, tasks>>
  /\ IF p \in own
       THEN Go(p, "idle", NULL) /\ UNCHANGED <<stage, by>>
       ELSE /\ Go(p, "destroying", NULL)
            /\ stage' = [stage EXCEPT ![p] = "stopping"]
            /\ by' = [by EXCEPT ![p] = p]
  /\ UNCHANGED <<setup, own, home, erred, found>>

(* The timer's callback walks through _sessionMap and has onManager called *)
(* in each session's thread.                                               *)
TickBegin(p) ==
  /\ Sound /\ pc[p] = "idle"
  /\ setup[p] \in {"timed", "ready"} /\ stage[p] \in {"up", "stopping"}
  /\ Go(p, "managing", NULL)
  /\ UNCHANGED <<setup, server, session>>

TickEnd(p) ==
  /\ Sound /\ pc[p] = "managing"
  /\ tasks' = tasks \cup {s \in Session : sess[s] = "in" /\ home[s] = p}
  /\ Go(p, "idle", NULL)
  /\ UNCHANGED <<setup, server, sess, home, erred, told, found>>

OnManager(s) ==
  /\ Sound /\ s \in tasks /\ pc[home[s]] = "idle"
  /\ tasks' = tasks \ {s}
  /\ UNCHANGED <<setup, server, run, sess, home, erred, told, found>>

-----------------------------------------------------------------------------
(* ~TcpServer                                                              *)

(* The timer and the listening socket go.                                  *)
Stop(p) ==
  /\ Sound /\ stage[p] = "stopping"
  /\ stage' = [stage EXCEPT ![p] = "clearing"]
  /\ UNCHANGED <<setup, own, by, run, session>>

(* _sessionMap.clear, helper by helper.                                    *)
ClearOne(p, s) ==
  /\ Sound /\ stage[p] = "clearing"
  /\ sess[s] = "in" /\ home[s] = p
  /\ DropHelper(s, TRUE, found \cup {x \in Session : pc[p] = "telling" /\ cur[p] = x})
  /\ UNCHANGED <<setup, server, run, home, erred, found>>

(* The destructor of the server of p ends in the thread that runs it.      *)
End(p) ==
  /\ stage' = [stage EXCEPT ![p] = "gone"]
  /\ IF by[p] = p THEN Go(p, "idle", NULL) ELSE UNCHANGED run

ClearEnd(p) ==
  /\ Sound /\ stage[p] = "clearing"
  /\ \A s \in Session : ~(sess[s] = "in" /\ home[s] = p)
  /\ IF p = Primary
       THEN stage' = [stage EXCEPT ![p] = "releasing"] /\ UNCHANGED run
       ELSE End(p)
  /\ UNCHANGED <<setup, own, by, session>>

(* _clonedServer.clear of the primary server, one after the other.         *)
InTurn == \A q \in Clone \ own : by[q] = by[Primary] => stage[q] = "gone"

ReleaseClone(q) ==
  /\ Sound /\ stage[Primary] = "releasing" /\ InTurn
  /\ q \in Clone \cap own
  /\ GiveUp(by[Primary], q)
  /\ UNCHANGED <<setup, run, session>>

DestroyEnd ==
  /\ Sound /\ stage[Primary] = "releasing" /\ InTurn
  /\ Clone \cap own = {}
  /\ End(Primary)
  /\ UNCHANGED <<setup, own, by, session>>

-----------------------------------------------------------------------------
(* SessionMap, for any thread: the sessions that have a helper.            *)

Get(s) ==
  /\ Sound /\ sess[s] \in {"made", "in"} /\ s \notin found
  /\ found' = found \cup {s}
  /\ UNCHANGED <<setup, server, run, sess, home, erred, told, tasks>>

Put(s) ==
  /\ Sound /\ s \in found
  /\ found' = found \ {s}
  /\ IF sess[s] = "out"
       THEN Without(s, {x \in Session : \E p \in Poller : pc[p] = "telling" /\ cur[p] = x})
       ELSE UNCHANGED <<sess, tasks>>
  /\ UNCHANGED <<setup, server, run, home, erred, told>>

Starting == Listen \/ ListenFails \/ StartTimer \/ \E p \in Clone : CloneListen(p) \/ CloneTimer(p) \/ CloneConfig(p)

Serving(p) ==
  \/ AcceptThrows(p) \/ Make(p) \/ Enter(p)
  \/ LockServer(p) \/ LockFails(p) \/ EraseEnd(p) \/ TickEnd(p)

Ending(p) == Stop(p) \/ (\E s \in Session : ClearOne(p, s)) \/ ClearEnd(p)

Event(p) == TickBegin(p) \/ \E s \in Session : AcceptBegin(p, s) \/ Err(p, s)

Next ==
  \/ Starting \/ Release
  \/ \E p \in Poller : Serving(p) \/ Event(p) \/ Ending(p)
  \/ (\E q \in Clone : ReleaseClone(q)) \/ DestroyEnd
  \/ \E s \in Session : OnManager(s) \/ Get(s) \/ Put(s)

(* Threads are scheduled: callbacks and destructors go on.                 *)
Spec ==
  /\ Init /\ [][Next]_vars
  /\ \A p \in Poller : WF_vars(Serving(p)) /\ WF_vars(Ending(p))
  /\ WF_vars(DestroyEnd \/ \E q \in Clone : ReleaseClone(q))

-----------------------------------------------------------------------------
(* Properties                                                              *)

(* A session is removed by its error callback only from a server whose     *)
(* destructor has not begun, although main may give the server up at any   *)
(* moment: the callback holds it, and then runs the destructor itself      *)
(* (TcpServer.h:238-264).                                                  *)
RemovalIsAlone == \A p \in Poller : pc[p] = "erasing" => stage[p] = "up"

(* A session leaves the server after it has been told so, by the error     *)
(* callback or by the helper (TcpServer.h:93-97, 240-241).                 *)
ToldBeforeItLeaves ==
  [][\A s \in Session : sess[s] = "in" /\ sess'[s] # "in" => told'[s] > 0]_vars

(* Twice it is told only by a server on its way out.                       *)
ToldOnceByAServer == \A s \in Session : told[s] = 2 => stage[home[s]] # "up"

(* onManager is called on a session that was told of its end only if       *)
(* somebody else keeps it, or the server is on its way out: a task that    *)
(* waited finds the session gone (TcpServer.h:299-310).                    *)
ManagedWhileServed ==
  [][\A s \in Session : OnManager(s) /\ told[s] > 0 => s \in found \/ stage[home[s]] # "up"]_vars

(* Once main is done with the server, it and its clones are destroyed,     *)
(* whichever threads have the last pointers, and a session whose socket    *)
(* reports an error leaves it, unless a callback got into the destructor's *)
(* way (TcpServer.h:136-149, 238-264).                                     *)
EverythingEnds ==
  /\ Primary \notin own ~> (\A p \in Poller : stage[p] \in {"none", "gone"}) \/ ~Sound
  /\ \A s \in Session : (s \in erred /\ sess[s] = "in") ~> sess[s] # "in" \/ ~Sound

=============================================================================
