---------------------------- MODULE TaskExecutor ----------------------------
(***************************************************************************)
(* What TaskExecutorInterface (include/Thread/TaskExecutor.h:209-269)      *)
(* promises of the tasks handed to it: a task runs at most once, never     *)
(* after cancel() took hold of it before its start; once the executor has  *)
(* been started every accepted task starts and ends; and its destructor    *)
(* returns only when no task is left.  An executor that was never started  *)
(* drops what it holds.                                                    *)
(***************************************************************************)
CONSTANT Task        (* the tasks callers may submit                       *)

VARIABLES
  phase,             (* "idle", "open", "closing" or "closed"              *)
  status             (* what has become of each task                       *)

vars == <<phase, status>>

Init ==
  /\ phase = "idle"
  /\ status = [k \in Task |-> "new"]

Open ==
  /\ phase = "idle"
  /\ phase' = "open"
  /\ UNCHANGED status

Move(k, from, to) ==
  /\ status[k] = from
  /\ status' = [status EXCEPT ![k] = to]
  /\ UNCHANGED phase

Accept(k)    == phase # "closed" /\ Move(k, "new", "accepted")
RunInline(k) == phase \in {"open", "closing"} /\ Move(k, "new", "done")
Cancel(k)    == Move(k, "accepted", "cancelled")
Begin(k)     == phase \in {"open", "closing"} /\ Move(k, "accepted", "running")
End(k)       == phase \in {"open", "closing"} /\ Move(k, "running", "done")

Close ==
  /\ phase = "open"
  /\ phase' = "closing"
  /\ UNCHANGED status

Closed ==
  /\ phase = "closing"
  /\ \A k \in Task : status[k] \notin {"accepted", "running"}
  /\ phase' = "closed"
  /\ UNCHANGED status

(* Destroyed before it was started.                                        *)
Abandon ==
  /\ phase = "idle"
  /\ phase' = "closed"
  /\ UNCHANGED status

Next ==
  \/ Open \/ Close \/ Closed \/ Abandon
  \/ \E k \in Task : Accept(k) \/ RunInline(k) \/ Cancel(k) \/ Begin(k) \/ End(k)

SafetySpec == Init /\ [][Next]_vars

Progress ==
  /\ \A k \in Task : WF_vars(Begin(k)) /\ WF_vars(End(k))
  /\ WF_vars(Closed)

Spec == SafetySpec /\ Progress
=============================================================================
