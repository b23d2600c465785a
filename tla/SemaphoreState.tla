--------------------------- MODULE SemaphoreState ---------------------------
(***************************************************************************)
(* What toolkit::semaphore (include/Thread/semaphore.h) consists of: its   *)
(* counter and the threads inside wait(), who sleep on its condition       *)
(* variable or are on their way out.  Semaphore has the steps.             *)
(***************************************************************************)
EXTENDS Integers, FiniteSets

CONSTANT Caller   (* the threads that call wait()                          *)

VARIABLES
  count,          (* _count                                                *)
  place           (* where each thread is with respect to wait()           *)

(* "out": not in wait(); "locking": called, before its first lock;         *)
(* "asleep": inside _condition.wait; "woken": leaving _condition.wait,     *)
(* about to hold the mutex again.                                          *)
Where == {"out", "locking", "asleep", "woken"}

Asleep == {t \in Caller : place[t] = "asleep"}
Woken  == {t \in Caller : place[t] = "woken"}

(* No wakeup is lost: while somebody sleeps, each permit on the counter is *)
(* matched by a thread that has been woken and has not looked yet, even    *)
(* when a newcomer steals the permit a wakeup was meant for (post/wait,    *)
(* l.43-69).  Breaking it strands a pool worker beside a queued task.      *)
NoLostWakeup == Asleep # {} => count <= Cardinality(Woken)
=============================================================================
