---------------------------- MODULE NoticeCenter ----------------------------
(***************************************************************************)
(* toolkit::NoticeCenter and its EventDispatchers                          *)
(* (include/Util/NoticeCenter.h).  The center's lock and a dispatcher's    *)
(* lock are taken one after the other, so a dispatcher may leave the map   *)
(* between the two; one step is one critical section.  No lock is held     *)
(* while listeners are called: what a listener does to the center is what  *)
(* another thread may do at that moment.                                   *)
(***************************************************************************)
EXTENDS FiniteSets, Functions

CONSTANTS
  Event, Tag,
  Listener,    (* the functions passed to addListener                      *)
  TagOf,       (* the tag each of them is added under                      *)
  Dispatcher,  (* the addresses of EventDispatchers                        *)
  Thread,
  NULL

ASSUME TagAssumption == TagOf \in [Listener -> Tag]
ASSUME NullAssumption == NULL \notin Dispatcher \cup Event \cup Thread

VARIABLES
  map,         (* NoticeCenter::_mapListener                               *)
  regs,        (* per dispatcher, its _mapListener                         *)
  center,      (* the thread in delListener(tag), which keeps the lock     *)
  pc,          (* per thread, its place                                    *)
  ev, arg,     (* per thread, the call's event, and its listener or tag    *)
  disp,        (* per thread, its local pointer to a dispatcher            *)
  copy,        (* per thread, the listeners emitEvent has yet to call      *)
  todo,        (* per thread, the events delListener(tag) has yet to visit *)
  where,       (* per listener, the event it is registered for (history)   *)
  raced,       (* listeners added while their dispatcher left the map      *)
  due          (* per thread, who must still hear the event (history)      *)

vars == <<map, regs, center, pc, ev, arg, disp, copy, todo, where, raced, due>>

Place == {"idle", "adding", "deleting", "unmapping", "copying", "calling", "visiting", "dropping"}

TypeOK ==
  /\ map \in [Event -> Dispatcher \cup {NULL}]
  /\ regs \in [Dispatcher -> SUBSET Listener]
  /\ center \in Thread \cup {NULL}
  /\ pc \in [Thread -> Place]
  /\ ev \in [Thread -> Event \cup {NULL}]
  /\ arg \in [Thread -> Listener \cup Tag \cup {NULL}]
  /\ disp \in [Thread -> Dispatcher \cup {NULL}]
  /\ \A t \in Thread : pc[t] \in {"adding", "deleting", "unmapping", "calling"} => disp[t] # NULL
  /\ copy \in [Thread -> SUBSET Listener]
  /\ todo \in [Thread -> SUBSET Event]
  /\ where \in [Listener -> Event \cup {NULL}]
  /\ raced \subseteq Listener
  /\ due \in [Thread -> SUBSET Listener]

Init ==
  /\ map = [e \in Event |-> NULL]
  /\ regs = [d \in Dispatcher |-> {}]
  /\ center = NULL
  /\ pc = [t \in Thread |-> "idle"]
  /\ ev = [t \in Thread |-> NULL]
  /\ arg = [t \in Thread |-> NULL]
  /\ disp = [t \in Thread |-> NULL]
  /\ copy = [t \in Thread |-> {}]
  /\ todo = [t \in Thread |-> {}]
  /\ where = [l \in Listener |-> NULL]
  /\ raced = {}
  /\ due = [t \in Thread |-> {}]

-----------------------------------------------------------------------------

(* The center's lock is free for t, which enters a call with event e,      *)
(* argument x and dispatcher d, and goes on at place p.                    *)
Enter(t, e, x, d, p) ==
  /\ center = NULL /\ pc[t] = "idle"
  /\ pc' = [pc EXCEPT ![t] = p]
  /\ ev' = [ev EXCEPT ![t] = e]
  /\ arg' = [arg EXCEPT ![t] = x]
  /\ disp' = [disp EXCEPT ![t] = d]

Leave(t) ==
  /\ pc' = [pc EXCEPT ![t] = "idle"]
  /\ ev' = [ev EXCEPT ![t] = NULL]
  /\ arg' = [arg EXCEPT ![t] = NULL]
  /\ disp' = [disp EXCEPT ![t] = NULL]

Held(d) == d \in Range(map) \cup Range(disp)

(* A new EventDispatcher is at an address that nobody holds; at which one  *)
(* makes no difference.                                                    *)
New == CHOOSE d \in Dispatcher : ~Held(d)

(* The function made of the argument of addListener: nobody has it yet.    *)
IsNew(l) ==
  /\ where[l] = NULL
  /\ \A d \in Dispatcher : Held(d) => l \notin regs[d]
  /\ \A u \in Thread : arg[u] # l /\ l \notin copy[u]

(* addListener: getDispatcher(event, true) finds the dispatcher or enters  *)
(* a new one.                                                              *)
GetForAdd(t, e, l) ==
  /\ IsNew(l)
  /\ IF map[e] # NULL
       THEN Enter(t, e, l, map[e], "adding") /\ UNCHANGED <<map, regs>>
       ELSE /\ \E d \in Dispatcher : ~Held(d)
            /\ Enter(t, e, l, New, "adding")
            /\ map' = [map EXCEPT ![e] = New]
            /\ regs' = [regs EXCEPT ![New] = {}]
  /\ UNCHANGED <<center, copy, todo, where, raced, due>>

(* Somebody has found d empty and is about to take it out of the map.      *)
Removing(u, d) ==
  \/ pc[u] = "unmapping" /\ disp[u] = d
  \/ pc[u] = "dropping" /\ map[ev[u]] = d

(* EventDispatcher::addListener.                                           *)
AddTo(t) ==
  /\ pc[t] = "adding"
  /\ regs' = [regs EXCEPT ![disp[t]] = @ \cup {arg[t]}]
  /\ where' = [where EXCEPT ![arg[t]] = ev[t]]
  /\ raced' = IF map[ev[t]] # disp[t] \/ \E u \in Thread : Removing(u, disp[t])
                THEN raced \cup {arg[t]} ELSE raced
  /\ Leave(t)
  /\ UNCHANGED <<map, center, copy, todo, due>>

Tagged(g) == {l \in Listener : TagOf[l] = g}

(* EventDispatcher::delListener on d.                                      *)
EraseFrom(d, g) ==
  LET gone == regs[d] \cap Tagged(g) IN
  /\ regs' = [regs EXCEPT ![d] = @ \ gone]
  /\ where' = [l \in Listener |-> IF l \in gone THEN NULL ELSE where[l]]
  /\ raced' = raced \ gone
  /\ due' = [t \in Thread |-> due[t] \ gone]

(* delListener(tag, event): find, erase, take an empty dispatcher out.     *)

GetForDel(t, e, g) ==
  /\ map[e] # NULL
  /\ Enter(t, e, g, map[e], "deleting")
  /\ UNCHANGED <<map, regs, center, copy, todo, where, raced, due>>

Erase(t) ==
  /\ pc[t] = "deleting"
  /\ EraseFrom(disp[t], arg[t])
  /\ IF regs'[disp[t]] = {}
       THEN pc' = [pc EXCEPT ![t] = "unmapping"] /\ UNCHANGED <<ev, arg, disp>>
       ELSE Leave(t)
  /\ UNCHANGED <<map, center, copy, todo>>

(* Mutant of DelDispatcher: whatever is in the map now is taken out.       *)
DelDispatcher_Any(t) ==
  /\ pc[t] = "unmapping" /\ center = NULL
  /\ map' = [map EXCEPT ![ev[t]] = NULL]
  /\ Leave(t)
  /\ UNCHANGED <<regs, center, copy, todo, where, raced, due>>

DelDispatcher(t) ==
  /\ pc[t] = "unmapping" /\ center = NULL
  /\ map' = IF map[ev[t]] = disp[t] THEN [map EXCEPT ![ev[t]] = NULL] ELSE map
  /\ Leave(t)
  /\ UNCHANGED <<regs, center, copy, todo, where, raced, due>>

-----------------------------------------------------------------------------
(* delListener(tag) keeps the center's lock over its loop.                 *)

LockAll(t, g) ==
  /\ Enter(t, NULL, g, NULL, "visiting")
  /\ center' = t
  /\ todo' = [todo EXCEPT ![t] = {e \in Event : map[e] # NULL}]
  /\ UNCHANGED <<map, regs, copy, where, raced, due>>

(* Mutant of Visit: ++it is forgotten.                                     *)
Visit_NoAdvance(t, e) ==
  /\ pc[t] = "visiting" /\ e \in todo[t]
  /\ EraseFrom(map[e], arg[t])
  /\ IF regs'[map[e]] = {}
       THEN /\ todo' = [todo EXCEPT ![t] = @ \ {e}]
            /\ pc' = [pc EXCEPT ![t] = "dropping"] /\ ev' = [ev EXCEPT ![t] = e]
       ELSE UNCHANGED <<pc, ev, todo>>
  /\ UNCHANGED <<map, center, arg, disp, copy>>

Visit(t, e) ==
  /\ pc[t] = "visiting" /\ e \in todo[t]
  /\ EraseFrom(map[e], arg[t])
  /\ todo' = [todo EXCEPT ![t] = @ \ {e}]
  /\ IF regs'[map[e]] = {}
       THEN pc' = [pc EXCEPT ![t] = "dropping"] /\ ev' = [ev EXCEPT ![t] = e]
       ELSE UNCHANGED <<pc, ev>>
  /\ UNCHANGED <<map, center, arg, disp, copy>>

DropVisited(t) ==
  /\ pc[t] = "dropping"
  /\ map' = [map EXCEPT ![ev[t]] = NULL]
  /\ pc' = [pc EXCEPT ![t] = "visiting"]
  /\ ev' = [ev EXCEPT ![t] = NULL]
  /\ UNCHANGED <<regs, center, arg, disp, copy, todo, where, raced, due>>

UnlockAll(t) ==
  /\ pc[t] = "visiting" /\ todo[t] = {}
  /\ center' = NULL
  /\ Leave(t)
  /\ UNCHANGED <<map, regs, copy, todo, where, raced, due>>

(* clearAll: a dispatcher that no call holds is destroyed; who could be    *)
(* reached is no longer registered.                                        *)
ClearAll ==
  /\ center = NULL
  /\ map' = [e \in Event |-> NULL]
  /\ where' = [l \in Listener |->
                 IF \E e \in Event : map[e] # NULL /\ l \in regs[map[e]] THEN NULL ELSE where[l]]
  /\ regs' = [d \in Dispatcher |-> IF d \in Range(disp) THEN regs[d] ELSE {}]
  /\ raced' = {l \in raced : where'[l] # NULL}
  /\ UNCHANGED <<center, pc, ev, arg, disp, copy, todo, due>>

-----------------------------------------------------------------------------
(* emitEvent                                                               *)

(* getDispatcher(event): the dispatcher, or NULL.                          *)
GetForEmit(t, e) ==
  /\ Enter(t, NULL, NULL, map[e], "copying")
  /\ due' = [due EXCEPT ![t] = IF map[e] = NULL THEN {} ELSE regs[map[e]]]
  /\ UNCHANGED <<map, regs, center, copy, todo, where, raced>>

(* No dispatcher: nobody listens to the event, and 0 is returned.          *)
EmitNone(t) ==
  /\ pc[t] = "copying" /\ disp[t] = NULL
  /\ due' = [due EXCEPT ![t] = {}]
  /\ Leave(t)
  /\ UNCHANGED <<map, regs, center, copy, todo, where, raced>>

(* Mutant of Copy: the listeners are swapped out instead of copied.        *)
Copy_Swaps(t) ==
  /\ pc[t] = "copying" /\ disp[t] # NULL
  /\ copy' = [copy EXCEPT ![t] = regs[disp[t]]]
  /\ regs' = [regs EXCEPT ![disp[t]] = {}]
  /\ pc' = [pc EXCEPT ![t] = "calling"]
  /\ UNCHANGED <<map, center, ev, arg, disp, todo, where, raced, due>>

Copy(t) ==
  /\ pc[t] = "copying" /\ disp[t] # NULL
  /\ copy' = [copy EXCEPT ![t] = regs[disp[t]]]
  /\ pc' = [pc EXCEPT ![t] = "calling"]
  /\ UNCHANGED <<map, regs, center, ev, arg, disp, todo, where, raced, due>>

CallNext(t, l) ==
  /\ pc[t] = "calling" /\ l \in copy[t]
  /\ copy' = [copy EXCEPT ![t] = @ \ {l}]
  /\ due' = [due EXCEPT ![t] = @ \ {l}]
  /\ UNCHANGED <<map, regs, center, pc, ev, arg, disp, todo, where, raced>>

(* The listener threw an InterruptException: the rest is given up.         *)
Interrupt(t, l) ==
  /\ pc[t] = "calling" /\ l \in copy[t]
  /\ copy' = [copy EXCEPT ![t] = {}]
  /\ due' = [due EXCEPT ![t] = {}]
  /\ Leave(t)
  /\ UNCHANGED <<map, regs, center, todo, where, raced>>

EmitEnd(t) ==
  /\ pc[t] = "calling" /\ copy[t] = {}
  /\ Leave(t)
  /\ UNCHANGED <<map, regs, center, copy, todo, where, raced, due>>

Run(t) ==
  \/ AddTo(t) \/ Erase(t) \/ DelDispatcher(t)
  \/ (\E e \in Event : Visit(t, e)) \/ DropVisited(t) \/ UnlockAll(t)
  \/ EmitNone(t) \/ Copy(t) \/ (\E l \in Listener : CallNext(t, l) \/ Interrupt(t, l)) \/ EmitEnd(t)

Call(t) ==
  \/ \E e \in Event :
       \/ \E l \in Listener : GetForAdd(t, e, l)
       \/ \E g \in Tag : GetForDel(t, e, g)
       \/ GetForEmit(t, e)
  \/ \E g \in Tag : LockAll(t, g)

Next == ClearAll \/ \E t \in Thread : Call(t) \/ Run(t)

(* Threads are scheduled; a thread waits for the center's lock only while  *)
(* another one runs its loop.                                              *)
Spec == Init /\ [][Next]_vars /\ \A t \in Thread : WF_vars(Run(t))

-----------------------------------------------------------------------------
(* Properties                                                              *)

Reached(l) == map[where[l]] # NULL /\ l \in regs[map[where[l]]]

(* A registered listener is in the dispatcher that the map gives for its   *)
(* event, so that the next event reaches it, unless it was added in the    *)
(* moment in which its dispatcher, found empty, left the map: taking a     *)
(* dispatcher out never takes another one, or a listener, with it          *)
(* (NoticeCenter.h:105-135, 157-164).                                      *)
ReachedUnlessRaced == \A l \in Listener : where[l] # NULL => l \in raced \/ Reached(l)

(* Whoever was in the dispatcher that an event found, and is not removed   *)
(* before its turn, is still to be called, whatever is added, deleted,     *)
(* cleared or emitted meanwhile (NoticeCenter.h:44-65).                    *)
NobodyIsSkipped ==
  \A t \in Thread :
    /\ pc[t] = "copying" /\ disp[t] # NULL => due[t] \subseteq regs[disp[t]]
    /\ pc[t] # "copying" => due[t] \subseteq copy[t]

(* The loop of delListener(tag) gives the center's lock back, and while    *)
(* nobody runs it every call returns: no two locks are waited for in a     *)
(* ring, and no listener is called for ever (NoticeCenter.h:44-65,         *)
(* 123-135).  A recursive_mutex is not fair, so that those who keep        *)
(* calling delListener(tag) can make another call wait.                    *)
CallsReturn ==
  /\ []<>(center = NULL)
  /\ \A t \in Thread : <>[](center = NULL) => (pc[t] # "idle" ~> pc[t] = "idle")
=============================================================================
