----------------------------- MODULE Semaphore -----------------------------
(***************************************************************************)
(* toolkit::semaphore (include/Thread/semaphore.h) as it is built: the     *)
(* HAVE_SEM branch is commented out (l.14-20), so a semaphore is an int, a *)
(* mutex and a condition variable.  Every access to _count is made with    *)
(* _mutex held, so one critical section is one step; the condition         *)
(* variable may wake a sleeper spuriously, and a thread that was woken     *)
(* competes for the mutex with threads that only just called wait().       *)
(***************************************************************************)
EXTENDS SemaphoreState

CONSTANTS
  MaxPost,     (* the largest n passed to post(n): thread_num in the pool  *)
  MaxCount     (* bound on _count, so that TLC's state space is finite     *)

ASSUME CallerFinite == IsFiniteSet(Caller)
ASSUME PostAssumption == MaxPost \in Nat /\ MaxCount \in Nat

vars == <<count, place>>

TypeOK ==
  /\ count \in Nat
  /\ place \in [Caller -> Where]

Init ==
  /\ count = 0
  /\ place = [t \in Caller |-> "out"]

(* The sets of sleepers _condition.notify_one may wake.                    *)
NotifyOne == IF Asleep = {} THEN {{}} ELSE {{t} : t \in Asleep}

(* Mutant of Notified: notify only when the counter leaves 0.              *)
Notified_FromZero(n) ==
  IF count # 0 THEN {{}} ELSE IF n = 1 THEN NotifyOne ELSE {Asleep}

(* l.51-55: post(1) notifies one sleeper, any other n all of them.         *)
Notified(n) == IF n = 1 THEN NotifyOne ELSE {Asleep}

Wake(S) == place' = [t \in Caller |-> IF t \in S THEN "woken" ELSE place[t]]

(* l.43-55                                                                 *)
Post(n) ==
  /\ count + n <= MaxCount
  /\ count' = count + n
  /\ \E S \in Notified(n) : Wake(S)

(* l.59, before the lock of l.63.                                          *)
Call(t) ==
  /\ place[t] = "out"
  /\ place' = [place EXCEPT ![t] = "locking"]
  /\ UNCHANGED count

HoldsMutexNext(t) == place[t] \in {"locking", "woken"}

(* l.64-65: the while condition is true, the thread sleeps.                *)
Sleep(t) ==
  /\ HoldsMutexNext(t)
  /\ count = 0
  /\ place' = [place EXCEPT ![t] = "asleep"]
  /\ UNCHANGED count

(* Mutant of Take: `if` in place of `while`, no second look when woken.    *)
Take_IfNotWhile(t) ==
  /\ HoldsMutexNext(t)
  /\ count # 0 \/ place[t] = "woken"
  /\ count' = count - 1
  /\ place' = [place EXCEPT ![t] = "out"]

(* l.64, l.67: the while condition is false, one permit is taken.          *)
Take(t) ==
  /\ HoldsMutexNext(t)
  /\ count # 0
  /\ count' = count - 1
  /\ place' = [place EXCEPT ![t] = "out"]

(* A condition variable may return from wait without a notification.       *)
SpuriousWakeup(t) ==
  /\ place[t] = "asleep"
  /\ Wake({t})
  /\ UNCHANGED count

Next ==
  \/ \E n \in 0..MaxPost : Post(n)
  \/ \E t \in Caller : Call(t) \/ Sleep(t) \/ Take(t) \/ SpuriousWakeup(t)

(* A thread that wants the mutex gets it and runs its critical section.    *)
Fairness == \A t \in Caller : WF_vars(Sleep(t) \/ Take(t))

Spec == Init /\ [][Next]_vars /\ Fairness

-----------------------------------------------------------------------------
(* The condition-variable semaphore implements the counting semaphore.     *)
Abs == INSTANCE CountingSemaphore
         WITH Thread <- Caller, permits <- count,
              blocked <- {t \in Caller : place[t] # "out"}

(* Refinement, with the promise that a permit is not left on the counter   *)
(* while somebody waits (semaphore.h:43-69).                               *)
ImplementsCountingSemaphore == Abs!Spec
=============================================================================
