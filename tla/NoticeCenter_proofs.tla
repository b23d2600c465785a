------------------------ MODULE NoticeCenter_proofs ------------------------
(* Who is registered is reached and no event skips anybody, for any number *)
(* of threads, events and listeners.                                       *)
EXTENDS NoticeCenter, TLAPS

USE NullAssumption

(* What a call carries from one critical section to the next.              *)
InHand ==
  \A t \in Thread :
    /\ pc[t] \in {"adding", "deleting", "unmapping", "dropping"} => ev[t] \in Event
    /\ pc[t] = "adding" => arg[t] \in Listener
    /\ pc[t] \in {"adding", "deleting", "unmapping"} =>
         \A e \in Event : map[e] = disp[t] => e = ev[t]

OneEventEach == \A e, f \in Event : map[e] # NULL /\ map[e] = map[f] => e = f

(* delListener(tag) has the center for itself.                             *)
OneVisitor ==
  \A t \in Thread :
    /\ pc[t] \in {"visiting", "dropping"} => center = t
    /\ pc[t] \in {"visiting", "dropping"} => \A e \in todo[t] : map[e] # NULL
    /\ pc[t] = "dropping" => map[ev[t]] # NULL /\ ev[t] \notin todo[t]

(* A dispatcher that was found empty and is about to leave the map has     *)
(* only listeners that were added since.                                   *)
Emptied ==
  \A t \in Thread, l \in Listener :
    /\ \/ pc[t] = "unmapping" /\ map[ev[t]] = disp[t]
       \/ pc[t] = "dropping"
    /\ where[l] = ev[t]
    => l \in raced

IInv == TypeOK /\ InHand /\ OneEventEach /\ OneVisitor /\ Emptied
        /\ ReachedUnlessRaced /\ NobodyIsSkipped

LEMMA InitIInv == Init => IInv
  BY DEF Init, IInv, TypeOK, Place, InHand, OneEventEach, OneVisitor, Emptied,
         ReachedUnlessRaced, NobodyIsSkipped, Reached

LEMMA NewIsNotHeld ==
  ASSUME TypeOK, \E d \in Dispatcher : ~Held(d)
  PROVE  /\ New \in Dispatcher
         /\ \A e \in Event : map[e] # New
         /\ \A t \in Thread : disp[t] # New
  BY DEF New, Held, Range, TypeOK

-----------------------------------------------------------------------------
LEMMA GetForAddStep ==
  ASSUME IInv, NEW t \in Thread, NEW e \in Event, NEW l \in Listener, GetForAdd(t, e, l)
  PROVE  IInv'
<1> USE DEF GetForAdd, Enter
<1>1. CASE map[e] # NULL
  <2>1. TypeOK'
    BY <1>1 DEF IInv, TypeOK, Place
  <2> QED
    BY <1>1, <2>1 DEF IInv, TypeOK, InHand, OneEventEach, OneVisitor, Emptied,
                      ReachedUnlessRaced, NobodyIsSkipped, Reached
<1>2. CASE map[e] = NULL
  <2>1. /\ New \in Dispatcher
        /\ \A f \in Event : map[f] # New
        /\ \A u \in Thread : disp[u] # New
    BY <1>2, NewIsNotHeld DEF IInv
  <2> HIDE DEF New
  <2>2. /\ map' = [map EXCEPT ![e] = New] /\ regs' = [regs EXCEPT ![New] = {}]
        /\ disp' = [disp EXCEPT ![t] = New]
    BY <1>2
  <2>3. TypeOK'
    BY <1>2, <2>1, <2>2 DEF IInv, TypeOK, Place
  <2>4. InHand' /\ OneEventEach' /\ OneVisitor'
    BY <2>1, <2>2 DEF IInv, TypeOK, InHand, OneEventEach, OneVisitor
  <2>5. Emptied'
    BY <2>1, <2>2 DEF IInv, TypeOK, Emptied
  <2>6. ReachedUnlessRaced'
    BY <1>2, <2>1, <2>2 DEF IInv, TypeOK, ReachedUnlessRaced, Reached
  <2>7. NobodyIsSkipped'
    BY <2>1, <2>2 DEF IInv, TypeOK, NobodyIsSkipped
  <2> QED BY <2>3, <2>4, <2>5, <2>6, <2>7 DEF IInv
<1> QED BY <1>1, <1>2

LEMMA AddToStep ==
  ASSUME IInv, NEW t \in Thread, AddTo(t)
  PROVE  IInv'
<1> DEFINE l == arg[t]
           d == disp[t]
<1>1. l \in Listener /\ d \in Dispatcher /\ ev[t] \in Event
  BY DEF IInv, TypeOK, InHand, AddTo
<1>2. /\ pc[t] = "adding" /\ pc' = [pc EXCEPT ![t] = "idle"]
      /\ regs' = [regs EXCEPT ![d] = @ \cup {l}]
      /\ where' = [where EXCEPT ![l] = ev[t]]
      /\ raced' = IF map[ev[t]] # d \/ \E u \in Thread : Removing(u, d)
                    THEN raced \cup {l} ELSE raced
      /\ disp' = [disp EXCEPT ![t] = NULL] /\ ev' = [ev EXCEPT ![t] = NULL]
      /\ arg' = [arg EXCEPT ![t] = NULL]
      /\ UNCHANGED <<map, center, copy, todo, due>>
  BY DEF AddTo, Leave
<1> HIDE DEF l, d
<1>3. raced \subseteq raced'
  BY <1>2
<1>4. TypeOK'
  BY <1>1, <1>2 DEF IInv, TypeOK, Place
<1>5. InHand' /\ OneEventEach' /\ OneVisitor'
  BY <1>2 DEF IInv, TypeOK, InHand, OneEventEach, OneVisitor
<1>6. Emptied'
  <2>1. ASSUME NEW u \in Thread, NEW m \in Listener, where'[m] = ev'[u],
               \/ pc'[u] = "unmapping" /\ map'[ev'[u]] = disp'[u]
               \/ pc'[u] = "dropping"
        PROVE  m \in raced'
    <3>1. u # t /\ pc'[u] = pc[u] /\ ev'[u] = ev[u] /\ disp'[u] = disp[u]
      BY <2>1, <1>2 DEF IInv, TypeOK
    <3>2. CASE m = l
      <4>1. ev[u] = ev[t]
        BY <3>1, <3>2, <2>1, <1>1, <1>2 DEF IInv, TypeOK
      <4>2. map[ev[t]] # d \/ Removing(u, d)
        BY <4>1, <3>1, <2>1, <1>2 DEF Removing
      <4> QED BY <4>2, <3>2, <1>2
    <3>3. CASE m # l
      BY <3>1, <3>3, <2>1, <1>2, <1>3 DEF IInv, TypeOK, Emptied
    <3> QED BY <3>2, <3>3
  <2> QED BY <2>1 DEF Emptied
<1>7. ReachedUnlessRaced'
  <2>1. ASSUME NEW m \in Listener, where'[m] # NULL, m \notin raced'
        PROVE  Reached(m)'
    <3>1. CASE m = l
      BY <3>1, <2>1, <1>1, <1>2 DEF IInv, TypeOK, Reached
    <3>2. CASE m # l
      BY <3>2, <2>1, <1>1, <1>2, <1>3 DEF IInv, TypeOK, ReachedUnlessRaced, Reached
    <3> QED BY <3>1, <3>2
  <2> QED BY <2>1 DEF ReachedUnlessRaced
<1>8. NobodyIsSkipped'
  BY <1>1, <1>2 DEF IInv, TypeOK, NobodyIsSkipped
<1> QED BY <1>4, <1>5, <1>6, <1>7, <1>8 DEF IInv

-----------------------------------------------------------------------------
(* What erasing a tag from one dispatcher leaves true.                     *)
LEMMA Erased ==
  ASSUME IInv, NEW d \in Dispatcher, NEW g, EraseFrom(d, g),
         UNCHANGED <<map, copy>>
  PROVE  /\ regs' \in [Dispatcher -> SUBSET Listener]
         /\ where' \in [Listener -> Event \cup {NULL}]
         /\ raced' \subseteq Listener
         /\ due' \in [Thread -> SUBSET Listener]
         /\ \A m \in Listener : where'[m] # NULL => where'[m] = where[m] /\ (m \in raced => m \in raced')
         /\ ReachedUnlessRaced'
         /\ \A t \in Thread : disp[t] # NULL => (due[t] \subseteq regs[disp[t]] => due'[t] \subseteq regs'[disp[t]])
         /\ \A t \in Thread : due[t] \subseteq copy[t] => due'[t] \subseteq copy'[t]
<1> DEFINE gone == regs[d] \cap Tagged(g)
<1>1. /\ regs' = [regs EXCEPT ![d] = @ \ gone]
      /\ where' = [l \in Listener |-> IF l \in gone THEN NULL ELSE where[l]]
      /\ raced' = raced \ gone
      /\ due' = [t \in Thread |-> due[t] \ gone]
  BY DEF EraseFrom
<1> HIDE DEF gone
<1>2. \A m \in Listener : where'[m] # NULL => where'[m] = where[m] /\ m \notin gone
  BY <1>1
<1>3. ReachedUnlessRaced'
  <2>1. ASSUME NEW m \in Listener, where'[m] # NULL, m \notin raced'
        PROVE  Reached(m)'
    <3>1. where'[m] = where[m] /\ m \notin gone /\ m \notin raced
      BY <2>1, <1>1, <1>2
    <3>2. Reached(m)
      BY <3>1, <2>1 DEF IInv, ReachedUnlessRaced
    <3> QED BY <3>1, <3>2, <1>1 DEF IInv, TypeOK, Reached
  <2> QED BY <2>1 DEF ReachedUnlessRaced
<1>4. ASSUME NEW t \in Thread
      PROVE  /\ disp[t] # NULL => (due[t] \subseteq regs[disp[t]] => due'[t] \subseteq regs'[disp[t]])
             /\ due[t] \subseteq copy[t] => due'[t] \subseteq copy'[t]
  BY <1>1 DEF IInv, TypeOK
<1> QED BY <1>1, <1>2, <1>3, <1>4 DEF IInv, TypeOK

LEMMA EraseStep ==
  ASSUME IInv, NEW t \in Thread, Erase(t)
  PROVE  IInv'
<1>1. disp[t] \in Dispatcher /\ pc[t] = "deleting" /\ ev[t] \in Event
  BY DEF IInv, TypeOK, InHand, Erase
<1>2. /\ EraseFrom(disp[t], arg[t])
      /\ IF regs'[disp[t]] = {}
           THEN pc' = [pc EXCEPT ![t] = "unmapping"] /\ UNCHANGED <<ev, arg, disp>>
           ELSE /\ pc' = [pc EXCEPT ![t] = "idle"] /\ ev' = [ev EXCEPT ![t] = NULL]
                /\ arg' = [arg EXCEPT ![t] = NULL] /\ disp' = [disp EXCEPT ![t] = NULL]
      /\ UNCHANGED <<map, center, copy, todo>>
  BY DEF Erase, Leave
<1>3. /\ regs' \in [Dispatcher -> SUBSET Listener]
      /\ where' \in [Listener -> Event \cup {NULL}]
      /\ raced' \subseteq Listener
      /\ due' \in [Thread -> SUBSET Listener]
      /\ \A m \in Listener : where'[m] # NULL => where'[m] = where[m] /\ (m \in raced => m \in raced')
      /\ ReachedUnlessRaced'
      /\ \A u \in Thread : disp[u] # NULL => (due[u] \subseteq regs[disp[u]] => due'[u] \subseteq regs'[disp[u]])
      /\ \A u \in Thread : due[u] \subseteq copy[u] => due'[u] \subseteq copy'[u]
  BY <1>1, <1>2, Erased
<1>4. CASE regs'[disp[t]] = {}
  <2>1. pc' = [pc EXCEPT ![t] = "unmapping"] /\ UNCHANGED <<ev, arg, disp>>
    BY <1>2, <1>4
  <2>2. TypeOK' /\ InHand' /\ OneEventEach' /\ OneVisitor' /\ NobodyIsSkipped'
    BY <1>1, <1>2, <1>3, <2>1 DEF IInv, TypeOK, Place, InHand, OneEventEach, OneVisitor, NobodyIsSkipped
  <2>3. Emptied'
    <3>1. ASSUME NEW u \in Thread, NEW m \in Listener, where'[m] = ev'[u],
                 \/ pc'[u] = "unmapping" /\ map'[ev'[u]] = disp'[u]
                 \/ pc'[u] = "dropping"
          PROVE  m \in raced'
      <4>1. ev[u] \in Event /\ where'[m] # NULL
        BY <3>1, <2>1, <2>2 DEF InHand
      <4>2. CASE u = t
        <5>1. map'[ev[t]] # NULL /\ regs'[map'[ev[t]]] = {} /\ where'[m] = ev[t]
          BY <4>2, <3>1, <2>1, <1>1, <1>4 DEF IInv, TypeOK
        <5> QED BY <5>1, <1>1, <1>3 DEF ReachedUnlessRaced, Reached
      <4>3. CASE u # t
        BY <4>1, <4>3, <3>1, <2>1, <1>2, <1>3 DEF IInv, TypeOK, Emptied
      <4> QED BY <4>2, <4>3
    <3> QED BY <3>1 DEF Emptied
  <2> QED BY <1>3, <2>2, <2>3 DEF IInv
<1>5. CASE regs'[disp[t]] # {}
  <2>1. /\ pc' = [pc EXCEPT ![t] = "idle"] /\ ev' = [ev EXCEPT ![t] = NULL]
        /\ arg' = [arg EXCEPT ![t] = NULL] /\ disp' = [disp EXCEPT ![t] = NULL]
    BY <1>2, <1>5
  <2>2. TypeOK' /\ InHand' /\ OneEventEach' /\ OneVisitor' /\ NobodyIsSkipped'
    BY <1>1, <1>2, <1>3, <2>1 DEF IInv, TypeOK, Place, InHand, OneEventEach, OneVisitor, NobodyIsSkipped
  <2>3. Emptied'
    <3>1. ASSUME NEW u \in Thread, NEW m \in Listener, where'[m] = ev'[u],
                 \/ pc'[u] = "unmapping" /\ map'[ev'[u]] = disp'[u]
                 \/ pc'[u] = "dropping"
          PROVE  m \in raced'
      <4>1. u # t /\ ev[u] \in Event
        BY <3>1, <2>1 DEF IInv, TypeOK, InHand
      <4> QED BY <4>1, <3>1, <2>1, <1>2, <1>3 DEF IInv, TypeOK, Emptied
    <3> QED BY <3>1 DEF Emptied
  <2> QED BY <1>3, <2>2, <2>3 DEF IInv
<1> QED BY <1>4, <1>5

LEMMA VisitStep ==
  ASSUME IInv, NEW t \in Thread, NEW e \in Event, Visit(t, e)
  PROVE  IInv'
<1>1. map[e] \in Dispatcher /\ pc[t] = "visiting" /\ e \in todo[t] /\ center = t
  BY DEF IInv, TypeOK, OneVisitor, Visit
<1>2. /\ EraseFrom(map[e], arg[t])
      /\ todo' = [todo EXCEPT ![t] = @ \ {e}]
      /\ IF regs'[map[e]] = {}
           THEN pc' = [pc EXCEPT ![t] = "dropping"] /\ ev' = [ev EXCEPT ![t] = e]
           ELSE UNCHANGED <<pc, ev>>
      /\ UNCHANGED <<map, center, arg, disp, copy>>
  BY DEF Visit
<1>3. /\ regs' \in [Dispatcher -> SUBSET Listener]
      /\ where' \in [Listener -> Event \cup {NULL}]
      /\ raced' \subseteq Listener
      /\ due' \in [Thread -> SUBSET Listener]
      /\ \A m \in Listener : where'[m] # NULL => where'[m] = where[m] /\ (m \in raced => m \in raced')
      /\ ReachedUnlessRaced'
      /\ \A u \in Thread : disp[u] # NULL => (due[u] \subseteq regs[disp[u]] => due'[u] \subseteq regs'[disp[u]])
      /\ \A u \in Thread : due[u] \subseteq copy[u] => due'[u] \subseteq copy'[u]
  BY <1>1, <1>2, Erased
<1>4. CASE regs'[map[e]] = {}
  <2>1. pc' = [pc EXCEPT ![t] = "dropping"] /\ ev' = [ev EXCEPT ![t] = e]
    BY <1>2, <1>4
  <2>2. TypeOK' /\ InHand' /\ OneEventEach' /\ OneVisitor' /\ NobodyIsSkipped'
    BY <1>1, <1>2, <1>3, <2>1 DEF IInv, TypeOK, Place, InHand, OneEventEach, OneVisitor, NobodyIsSkipped
  <2>3. Emptied'
    <3>1. ASSUME NEW u \in Thread, NEW m \in Listener, where'[m] = ev'[u],
                 \/ pc'[u] = "unmapping" /\ map'[ev'[u]] = disp'[u]
                 \/ pc'[u] = "dropping"
          PROVE  m \in raced'
      <4>1. ev'[u] \in Event /\ where'[m] # NULL
        BY <3>1, <2>2 DEF InHand
      <4>2. CASE u = t
        <5>1. map'[e] # NULL /\ regs'[map'[e]] = {} /\ where'[m] = e
          BY <4>2, <3>1, <2>1, <1>1, <1>2, <1>4 DEF IInv, TypeOK
        <5> QED BY <5>1, <1>3 DEF ReachedUnlessRaced, Reached
      <4>3. CASE u # t
        BY <4>1, <4>3, <3>1, <2>1, <1>2, <1>3 DEF IInv, TypeOK, Emptied
      <4> QED BY <4>2, <4>3
    <3> QED BY <3>1 DEF Emptied
  <2> QED BY <1>3, <2>2, <2>3 DEF IInv
<1>5. CASE regs'[map[e]] # {}
  <2>1. UNCHANGED <<pc, ev>>
    BY <1>2, <1>5
  <2>2. TypeOK' /\ InHand' /\ OneEventEach' /\ OneVisitor' /\ NobodyIsSkipped'
    BY <1>1, <1>2, <1>3, <2>1 DEF IInv, TypeOK, Place, InHand, OneEventEach, OneVisitor, NobodyIsSkipped
  <2>3. Emptied'
    <3>1. ASSUME NEW u \in Thread, NEW m \in Listener, where'[m] = ev'[u],
                 \/ pc'[u] = "unmapping" /\ map'[ev'[u]] = disp'[u]
                 \/ pc'[u] = "dropping"
          PROVE  m \in raced'
      <4>1. ev[u] \in Event
        BY <3>1, <2>1 DEF IInv, InHand
      <4> QED BY <4>1, <3>1, <2>1, <1>2, <1>3 DEF IInv, TypeOK, Emptied
    <3> QED BY <3>1 DEF Emptied
  <2> QED BY <1>3, <2>2, <2>3 DEF IInv
<1> QED BY <1>4, <1>5

-----------------------------------------------------------------------------
LEMMA GetForDelStep ==
  ASSUME IInv, NEW t \in Thread, NEW e \in Event, NEW g \in Tag, GetForDel(t, e, g)
  PROVE  IInv'
<1> USE DEF GetForDel, Enter
<1>1. TypeOK'
  BY DEF IInv, TypeOK, Place
<1> QED
  BY <1>1 DEF IInv, TypeOK, InHand, OneEventEach, OneVisitor, Emptied,
              ReachedUnlessRaced, NobodyIsSkipped, Reached

LEMMA DelDispatcherStep ==
  ASSUME IInv, NEW t \in Thread, DelDispatcher(t)
  PROVE  IInv'
<1>1. /\ pc[t] = "unmapping" /\ center = NULL /\ ev[t] \in Event
      /\ map' = IF map[ev[t]] = disp[t] THEN [map EXCEPT ![ev[t]] = NULL] ELSE map
      /\ pc' = [pc EXCEPT ![t] = "idle"] /\ ev' = [ev EXCEPT ![t] = NULL]
      /\ arg' = [arg EXCEPT ![t] = NULL] /\ disp' = [disp EXCEPT ![t] = NULL]
      /\ UNCHANGED <<regs, center, copy, todo, where, raced, due>>
  BY DEF DelDispatcher, Leave, IInv, InHand
<1>2. TypeOK'
  BY <1>1 DEF IInv, TypeOK, Place
<1>3. \A e \in Event : map'[e] # NULL => map'[e] = map[e]
  BY <1>1 DEF IInv, TypeOK
<1>4. InHand' /\ OneEventEach'
  BY <1>1, <1>3 DEF IInv, TypeOK, InHand, OneEventEach
<1>5. OneVisitor'
  <2>1. \A u \in Thread : pc[u] \notin {"visiting", "dropping"}
    BY <1>1 DEF IInv, OneVisitor
  <2> QED BY <1>1, <2>1 DEF IInv, TypeOK, OneVisitor
<1>6. Emptied'
  BY <1>1, <1>3 DEF IInv, TypeOK, Emptied, InHand
<1>7. ReachedUnlessRaced'
  <2>1. ASSUME NEW l \in Listener, where[l] # NULL, l \notin raced
        PROVE  Reached(l)'
    <3>1. Reached(l)
      BY <2>1 DEF IInv, ReachedUnlessRaced
    <3>2. map'[where[l]] = map[where[l]]
      BY <2>1, <3>1, <1>1 DEF IInv, TypeOK, Emptied
    <3> QED BY <3>1, <3>2, <1>1 DEF Reached
  <2> QED BY <2>1, <1>1 DEF ReachedUnlessRaced
<1>8. NobodyIsSkipped'
  BY <1>1 DEF IInv, TypeOK, NobodyIsSkipped
<1> QED BY <1>2, <1>4, <1>5, <1>6, <1>7, <1>8 DEF IInv

LEMMA LockAllStep ==
  ASSUME IInv, NEW t \in Thread, NEW g \in Tag, LockAll(t, g)
  PROVE  IInv'
<1> USE DEF LockAll, Enter
<1>1. TypeOK'
  BY DEF IInv, TypeOK, Place
<1>2. OneVisitor'
  <2>1. \A u \in Thread : pc[u] \notin {"visiting", "dropping"}
    BY DEF IInv, OneVisitor
  <2> QED BY <2>1 DEF IInv, TypeOK, OneVisitor
<1> QED
  BY <1>1, <1>2 DEF IInv, TypeOK, InHand, OneEventEach, Emptied,
                    ReachedUnlessRaced, NobodyIsSkipped, Reached

LEMMA DropVisitedStep ==
  ASSUME IInv, NEW t \in Thread, DropVisited(t)
  PROVE  IInv'
<1>1. /\ pc[t] = "dropping" /\ center = t /\ ev[t] \in Event /\ ev[t] \notin todo[t]
      /\ map' = [map EXCEPT ![ev[t]] = NULL]
      /\ pc' = [pc EXCEPT ![t] = "visiting"]
      /\ ev' = [ev EXCEPT ![t] = NULL]
      /\ UNCHANGED <<regs, center, arg, disp, copy, todo, where, raced, due>>
  BY DEF DropVisited, IInv, InHand, OneVisitor
<1>2. TypeOK'
  BY <1>1 DEF IInv, TypeOK, Place
<1>3. InHand' /\ OneEventEach'
  BY <1>1 DEF IInv, TypeOK, InHand, OneEventEach
<1>4. OneVisitor'
  BY <1>1 DEF IInv, TypeOK, OneVisitor
<1>5. Emptied'
  BY <1>1 DEF IInv, TypeOK, InHand, Emptied, OneVisitor
<1>6. ReachedUnlessRaced'
  <2>1. ASSUME NEW l \in Listener, where[l] # NULL, l \notin raced
        PROVE  Reached(l)'
    <3>1. Reached(l) /\ where[l] # ev[t]
      BY <2>1, <1>1 DEF IInv, ReachedUnlessRaced, Emptied
    <3> QED BY <3>1, <2>1, <1>1 DEF IInv, TypeOK, Reached
  <2> QED BY <2>1, <1>1 DEF ReachedUnlessRaced
<1>7. NobodyIsSkipped'
  BY <1>1 DEF IInv, TypeOK, NobodyIsSkipped
<1> QED BY <1>2, <1>3, <1>4, <1>5, <1>6, <1>7 DEF IInv

LEMMA UnlockAllStep ==
  ASSUME IInv, NEW t \in Thread, UnlockAll(t)
  PROVE  IInv'
<1> USE DEF UnlockAll, Leave
<1>1. TypeOK'
  BY DEF IInv, TypeOK, Place
<1>2. OneVisitor'
  BY DEF IInv, TypeOK, OneVisitor
<1> QED
  BY <1>1, <1>2 DEF IInv, TypeOK, InHand, OneEventEach, Emptied,
                    ReachedUnlessRaced, NobodyIsSkipped, Reached

LEMMA ClearAllStep ==
  ASSUME IInv, ClearAll
  PROVE  IInv'
<1>1. /\ center = NULL
      /\ map' = [e \in Event |-> NULL]
      /\ where' \in [Listener -> Event \cup {NULL}]
      /\ \A l \in Listener : where'[l] # NULL => where'[l] = where[l] /\ ~Reached(l)
      /\ regs' = [d \in Dispatcher |-> IF d \in Range(disp) THEN regs[d] ELSE {}]
      /\ raced' = {l \in raced : where'[l] # NULL}
      /\ UNCHANGED <<center, pc, ev, arg, disp, copy, todo, due>>
  BY DEF ClearAll, IInv, TypeOK, Reached
<1>2. TypeOK'
  BY <1>1 DEF IInv, TypeOK, Place
<1>3. \A u \in Thread : pc[u] \notin {"visiting", "dropping"}
  BY <1>1 DEF IInv, OneVisitor
<1>4. InHand' /\ OneEventEach' /\ OneVisitor'
  BY <1>1, <1>3 DEF IInv, TypeOK, InHand, OneEventEach, OneVisitor
<1>5. Emptied'
  BY <1>1, <1>3 DEF IInv, TypeOK, InHand, Emptied
<1>6. ReachedUnlessRaced'
  BY <1>1 DEF IInv, TypeOK, ReachedUnlessRaced
<1>7. NobodyIsSkipped'
  BY <1>1 DEF IInv, TypeOK, NobodyIsSkipped, Range
<1> QED BY <1>2, <1>4, <1>5, <1>6, <1>7 DEF IInv

-----------------------------------------------------------------------------
LEMMA EmitStep ==
  ASSUME IInv, NEW t \in Thread,
         \/ \E e \in Event : GetForEmit(t, e)
         \/ EmitNone(t) \/ Copy(t) \/ EmitEnd(t)
         \/ \E l \in Listener : CallNext(t, l) \/ Interrupt(t, l)
  PROVE  IInv'
<1>1. ASSUME NEW e \in Event, GetForEmit(t, e) PROVE IInv'
  <2>1. TypeOK'
    BY <1>1 DEF GetForEmit, Enter, IInv, TypeOK, Place
  <2> QED
    BY <1>1, <2>1 DEF GetForEmit, Enter, IInv, TypeOK, InHand, OneEventEach, OneVisitor,
                      Emptied, ReachedUnlessRaced, NobodyIsSkipped, Reached
<1>2. ASSUME EmitNone(t) \/ EmitEnd(t) PROVE IInv'
  <2>1. due'[t] \subseteq copy[t] /\ due' \in [Thread -> SUBSET Listener]
        /\ \A u \in Thread \ {t} : due'[u] = due[u]
    BY <1>2 DEF EmitNone, EmitEnd, IInv, TypeOK, NobodyIsSkipped
  <2>2. TypeOK'
    BY <1>2 DEF EmitNone, EmitEnd, Leave, IInv, TypeOK, Place
  <2> QED
    BY <1>2, <2>1, <2>2 DEF EmitNone, EmitEnd, Leave, IInv, TypeOK, InHand, OneEventEach,
                      OneVisitor, Emptied, ReachedUnlessRaced, NobodyIsSkipped, Reached
<1>3. ASSUME Copy(t) PROVE IInv'
  <2>1. TypeOK'
    BY <1>3 DEF Copy, IInv, TypeOK, Place
  <2> QED
    BY <1>3, <2>1 DEF Copy, IInv, TypeOK, InHand, OneEventEach, OneVisitor, Emptied,
                      ReachedUnlessRaced, NobodyIsSkipped, Reached
<1>4. ASSUME NEW l \in Listener, CallNext(t, l) PROVE IInv'
  <2>1. TypeOK'
    BY <1>4 DEF CallNext, IInv, TypeOK, Place
  <2> QED
    BY <1>4, <2>1 DEF CallNext, IInv, TypeOK, InHand, OneEventEach, OneVisitor, Emptied,
                      ReachedUnlessRaced, NobodyIsSkipped, Reached
<1>5. ASSUME NEW l \in Listener, Interrupt(t, l) PROVE IInv'
  <2>1. TypeOK'
    BY <1>5 DEF Interrupt, Leave, IInv, TypeOK, Place
  <2> QED
    BY <1>5, <2>1 DEF Interrupt, Leave, IInv, TypeOK, InHand, OneEventEach, OneVisitor,
                      Emptied, ReachedUnlessRaced, NobodyIsSkipped, Reached
<1> QED BY <1>1, <1>2, <1>3, <1>4, <1>5

LEMMA NextIInv == IInv /\ [Next]_vars => IInv'
<1> SUFFICES ASSUME IInv, [Next]_vars PROVE IInv'
  OBVIOUS
<1>1. CASE UNCHANGED vars
  BY <1>1 DEF vars, IInv, TypeOK, InHand, OneEventEach, OneVisitor, Emptied,
              ReachedUnlessRaced, NobodyIsSkipped, Reached
<1>2. CASE ClearAll
  BY <1>2, ClearAllStep
<1>3. ASSUME NEW t \in Thread, Call(t) PROVE IInv'
  BY <1>3, GetForAddStep, GetForDelStep, EmitStep, LockAllStep DEF Call
<1>4. ASSUME NEW t \in Thread, Run(t) PROVE IInv'
  BY <1>4, AddToStep, EraseStep, DelDispatcherStep, VisitStep, DropVisitedStep,
     UnlockAllStep, EmitStep DEF Run
<1> QED BY <1>1, <1>2, <1>3, <1>4 DEF Next

LEMMA IInvariant == Spec => []IInv
BY InitIInv, NextIInv, PTL DEF Spec

(* A registered listener stays where the next event finds it, unless it    *)
(* was added while its dispatcher left the map, for any number of threads, *)
(* events and listeners (NoticeCenter.h:105-135, 157-164).                 *)
THEOREM RegisteredIsReached == Spec => [](TypeOK /\ ReachedUnlessRaced)
<1>1. IInv => TypeOK /\ ReachedUnlessRaced
  BY DEF IInv
<1> QED BY <1>1, IInvariant, PTL

(* An event skips nobody who was there when it looked, whatever the        *)
(* listeners that it calls add and delete (NoticeCenter.h:44-65).          *)
THEOREM EventsSkipNobody == Spec => []NobodyIsSkipped
<1>1. IInv => NobodyIsSkipped
  BY DEF IInv
<1> QED BY <1>1, IInvariant, PTL
=============================================================================
