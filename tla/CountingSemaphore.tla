------------------------- MODULE CountingSemaphore -------------------------
(***************************************************************************)
(* What toolkit::semaphore (include/Thread/semaphore.h) promises its       *)
(* callers: a counter of permits; post(n) adds n of them and never blocks; *)
(* wait() returns once, after it has taken exactly one permit; and while   *)
(* there are permits some blocked caller gets one.  Which caller is not    *)
(* promised.                                                               *)
(***************************************************************************)
EXTENDS Naturals

CONSTANTS
  Thread,      (* the threads that call wait()                             *)
  MaxPost      (* the largest n a caller passes to post(n)                 *)

VARIABLES
  permits,     (* permits posted and not taken yet                         *)
  blocked      (* the threads inside wait()                                *)

vars == <<permits, blocked>>

Init ==
  /\ permits = 0
  /\ blocked = {}

Post(n) ==
  /\ permits' = permits + n
  /\ UNCHANGED blocked

Call(t) ==
  /\ t \notin blocked
  /\ blocked' = blocked \cup {t}
  /\ UNCHANGED permits

Return(t) ==
  /\ t \in blocked
  /\ permits > 0
  /\ permits' = permits - 1
  /\ blocked' = blocked \ {t}

SomeReturn == \E t \in Thread : Return(t)

Next ==
  \/ \E n \in 0..MaxPost : Post(n)
  \/ \E t \in Thread : Call(t)
  \/ SomeReturn

SafetySpec == Init /\ [][Next]_vars

(* A permit does not stay on the counter for ever while someone waits.     *)
Spec == SafetySpec /\ WF_vars(SomeReturn)
=============================================================================
