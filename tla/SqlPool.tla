------------------------------ MODULE SqlPool ------------------------------
(***************************************************************************)
(* toolkit::SqlPool (include/Util/SqlPool.h) over the ResourcePool of its  *)
(* connections.  asyncQuery hands a statement to an executor of one        *)
(* thread; a statement that fails waits in _error_query until the timer    *)
(* hands it over again.  Clients query and escape on their own threads.    *)
(* The database is external: it is up or down, may go down after it ran a  *)
(* statement and before it answered, and rejects some statements (no such  *)
(* table) however often they come.                                         *)
(***************************************************************************)
EXTENDS ResourcePool

CONSTANTS
  Client,      (* the threads that call syncQuery and escape               *)
  Exec,        (* the thread of _threadPool                                *)
  Statement,   (* the statements given to asyncQuery, each once            *)
  WithPercent, (* those whose text contains a '%'                          *)
  Rejected,    (* those the database rejects when it is up                 *)
  TryCount,    (* the default of asyncQuery_l's tryCnt, 3 in the code      *)
  MaxOutages   (* bound on how often the database goes down                *)

ASSUME ThreadAssumption == Thread = Client \cup {Exec} /\ Exec \notin Client
ASSUME StatementAssumption == WithPercent \subseteq Statement /\ Rejected \subseteq Statement
ASSUME TryAssumption == TryCount \in Nat \ {0}

VARIABLES
  phase,       (* of the SqlPool: "open", "closing", "flushed", "gone"     *)
  tasks,       (* the lambdas queued in _threadPool                        *)
  job,         (* the lambda that Exec runs, a sequence of one or none     *)
  errors,      (* _error_query                                             *)
  copy,        (* flushError's query_copy: the timer's, the destructor's   *)
  pc,          (* per thread: "idle", "call", "query", "escape", "ending"  *)
  conn,        (* per thread, its local variable mysql                     *)
  failed,      (* the threads that an exception unwinds                    *)
  accepted,    (* the statements given to asyncQuery                       *)
  ran,         (* the statements the database has run at least once        *)
  altered,     (* those of which it has run another text instead           *)
  dropped,     (* the statements given up with a warning (l.135)           *)
  fault,       (* the SqlPool was used after its end, or a text that is no *)
               (* format was used as one: nothing is said of what follows  *)
  up,          (* the database answers                                     *)
  outages      (* how often it went down                                   *)

queues == <<tasks, job, errors, copy>>
work   == <<pc, conn, failed>>
log    == <<accepted, ran, altered, dropped>>
db     == <<up, outages>>
vars   == <<poolVars, phase, queues, work, log, fault, db>>

Flusher == {"timer", "exit"}

(* A lambda or an sqlQuery: a statement, the tries that it has left, and   *)
(* whether its text is still the one that asyncQuery was given.            *)
Token == [stmt : Statement, tries : 1..TryCount, own : BOOLEAN]

TypeOK ==
  /\ PoolTypeOK
  /\ phase \in {"open", "closing", "flushed", "gone"}
  /\ tasks \in Seq(Token) /\ job \in Seq(Token) /\ Len(job) <= 1
  /\ errors \in Seq(Token) /\ copy \in [Flusher -> Seq(Token)]
  /\ pc \in [Thread -> {"idle", "call", "query", "escape", "ending"}]
  /\ conn \in [Thread -> Object \cup {NULL}]
  /\ failed \subseteq Thread
  /\ accepted \subseteq Statement
  /\ ran \subseteq accepted /\ altered \subseteq accepted /\ dropped \subseteq accepted
  /\ fault \in BOOLEAN /\ up \in BOOLEAN /\ outages \in 0..MaxOutages

(* Init() obtains one connection and lets it go at once: it is idle.       *)
Init ==
  /\ \E o \in Object : heap = {o} /\ objs = <<o>>
  /\ poolsize \in 0..MaxPoolSize
  /\ lent = {} /\ quit = {} /\ owner = TRUE /\ strong = {}
  /\ hand = [t \in Thread |-> NULL]
  /\ phase = "open"
  /\ tasks = <<>> /\ job = <<>> /\ errors = <<>>
  /\ copy = [f \in Flusher |-> <<>>]
  /\ pc = [t \in Thread |-> "idle"]
  /\ conn = [t \in Thread |-> NULL]
  /\ failed = {}
  /\ accepted = {} /\ ran = {} /\ altered = {} /\ dropped = {}
  /\ fault = FALSE /\ up = TRUE /\ outages = 0

At(t, p) == ~fault /\ pc[t] = p
Go(t, p) == pc' = [pc EXCEPT ![t] = p]

(* asyncQuery_l: a lambda that knows the statement, all its tries left.    *)
Enqueue(s, own) == tasks' = Append(tasks, [stmt |-> s, tries |-> TryCount, own |-> own])

-----------------------------------------------------------------------------
(* Queries                                                                 *)

AsyncQuery(s) ==
  /\ phase = "open" /\ s \notin accepted
  /\ Enqueue(s, TRUE)
  /\ accepted' = accepted \cup {s}
  /\ UNCHANGED <<poolVars, phase, job, errors, copy, work, ran, altered, dropped, fault, db>>

(* A client enters syncQuery or escape, Exec the lambda.                   *)
Call(c) ==
  /\ c \in Client /\ phase = "open" /\ At(c, "idle")
  /\ Go(c, "call")
  /\ UNCHANGED <<poolVars, phase, queues, conn, failed, log, fault, db>>

Take ==
  /\ At(Exec, "idle") /\ tasks # <<>>
  /\ job' = <<Head(tasks)>>
  /\ tasks' = Tail(tasks)
  /\ Go(Exec, "call")
  /\ UNCHANGED <<poolVars, phase, errors, copy, conn, failed, log, fault, db>>

Obtain(t) ==
  /\ At(t, "call") /\ phase # "gone"
  /\ \E o \in Object :
       /\ ObtainIdle(t, o) \/ (up /\ ObtainNew(t, o))
       /\ conn' = [conn EXCEPT ![t] = o]
  /\ \E p \in IF t = Exec THEN {"query"} ELSE {"query", "escape"} : Go(t, p)
  /\ UNCHANGED <<phase, queues, failed, log, fault, db>>

(* The constructor of SqlConnection throws out of obtain().                *)
ObtainFails(t) ==
  /\ At(t, "call") /\ phase # "gone"
  /\ objs = <<>> /\ ~up
  /\ failed' = failed \cup {t}
  /\ Go(t, "ending")
  /\ UNCHANGED <<poolVars, phase, queues, conn, log, fault, db>>

(* checkInited() of an SqlPool that is gone.                               *)
CallDead(t) ==
  /\ At(t, "call") /\ phase = "gone"
  /\ fault' = TRUE
  /\ UNCHANGED <<poolVars, phase, queues, work, log, db>>

(* What the database, up, may do with the statement of thread t: it always *)
(* rejects some, it may reject a text that was altered, and of the clients'*)
(* own queries nothing is known.                                           *)
MayRun(t)    == t = Exec /\ job[1].own => job[1].stmt \notin Rejected
MayReject(t) == t = Exec /\ job[1].own => job[1].stmt \in Rejected

(* The database runs the lambda's text.                                    *)
Execute(t) ==
  /\ ran' = IF t = Exec /\ job[1].own THEN ran \cup {job[1].stmt} ELSE ran
  /\ altered' = IF t = Exec /\ ~job[1].own THEN altered \cup {job[1].stmt} ELSE altered

Answered(t) ==
  /\ At(t, "query") /\ up /\ MayRun(t)
  /\ Execute(t)
  /\ Go(t, "ending")
  /\ UNCHANGED <<poolVars, phase, queues, conn, failed, accepted, dropped, fault, db>>

(* ping or the query fails: quit(), and the exception goes on.             *)
Throw(t) ==
  /\ Quit(conn[t])
  /\ failed' = failed \cup {t}
  /\ Go(t, "ending")
  /\ UNCHANGED <<phase, queues, conn, accepted, dropped, fault>>

Refused(t) ==
  /\ At(t, "query") /\ (~up \/ MayReject(t))
  /\ Throw(t)
  /\ UNCHANGED <<ran, altered, db>>

(* The statement was run, the answer is lost.                              *)
AnswerLost(t) ==
  /\ At(t, "query") /\ up /\ MayRun(t)
  /\ outages < MaxOutages
  /\ up' = FALSE /\ outages' = outages + 1
  /\ Execute(t)
  /\ Throw(t)

Escaped(t) ==
  /\ At(t, "escape")
  /\ Go(t, "ending")
  /\ UNCHANGED <<poolVars, phase, queues, conn, failed, log, fault, db>>

(* The local variable mysql goes, on either way out.                       *)
LetGo(t) ==
  /\ At(t, "ending") /\ conn[t] # NULL
  /\ Drop(t, conn[t])
  /\ conn' = [conn EXCEPT ![t] = NULL]
  /\ UNCHANGED <<phase, queues, pc, failed, log, fault, db>>

Deleter(t) ==
  /\ Recycle(t) \/ Delete(t) \/ Release(t)
  /\ UNCHANGED <<phase, queues, work, log, fault, db>>

Return(c) ==
  /\ c \in Client /\ At(c, "ending") /\ conn[c] = NULL /\ Free(c)
  /\ failed' = failed \ {c}
  /\ Go(c, "idle")
  /\ UNCHANGED <<poolVars, phase, queues, conn, log, fault, db>>

Ending == At(Exec, "ending") /\ conn[Exec] = NULL /\ Free(Exec)

Finish ==
  /\ Ending /\ Exec \notin failed
  /\ job' = <<>>
  /\ Go(Exec, "idle")
  /\ UNCHANGED <<poolVars, phase, tasks, errors, copy, conn, failed, log, fault, db>>

(* Mutant of Retry: the last but one try is the last.                      *)
Retry_GivesUp ==
  /\ Ending /\ Exec \in failed
  /\ phase # "gone"
  /\ dropped' = dropped \cup {job[1].stmt}
  /\ errors' = errors
  /\ job' = <<>>
  /\ failed' = failed \ {Exec}
  /\ Go(Exec, "idle")
  /\ UNCHANGED <<poolVars, phase, tasks, copy, conn, accepted, ran, altered, fault, db>>

(* The catch of l.128: back to the queue of errors with one try less.      *)
Retry ==
  /\ Ending /\ Exec \in failed
  /\ phase # "gone"
  /\ LET cnt == job[1].tries - 1 IN
     IF cnt > 0
       THEN errors' = Append(errors, [job[1] EXCEPT !.tries = cnt]) /\ UNCHANGED dropped
       ELSE dropped' = dropped \cup {job[1].stmt} /\ UNCHANGED errors
  /\ job' = <<>>
  /\ failed' = failed \ {Exec}
  /\ Go(Exec, "idle")
  /\ UNCHANGED <<poolVars, phase, tasks, copy, conn, accepted, ran, altered, fault, db>>

RetryDead ==
  /\ Ending /\ Exec \in failed
  /\ phase = "gone"
  /\ fault' = TRUE
  /\ UNCHANGED <<poolVars, phase, queues, work, log, db>>

-----------------------------------------------------------------------------
(* flushError, called by the timer and by the destructor                   *)

MayFlush(f) == phase = IF f = "timer" THEN "open" ELSE "closing"

(* Mutant of Swap: the queue is copied and not emptied.                    *)
Swap_Copies(f) ==
  /\ ~fault /\ MayFlush(f) /\ copy[f] = <<>>
  /\ f = "timer" => errors # <<>>
  /\ copy' = [copy EXCEPT ![f] = errors]
  /\ phase' = IF f = "exit" THEN "flushed" ELSE phase
  /\ UNCHANGED <<poolVars, tasks, job, errors, work, log, fault, db>>

Swap(f) ==
  /\ ~fault /\ MayFlush(f) /\ copy[f] = <<>>
  /\ f = "timer" => errors # <<>>
  /\ copy' = [copy EXCEPT ![f] = errors]
  /\ errors' = <<>>
  /\ phase' = IF f = "exit" THEN "flushed" ELSE phase
  /\ UNCHANGED <<poolVars, tasks, job, work, log, fault, db>>

(* asyncQuery(sql_str, tryCnt): the number goes to queryString as an       *)
(* argument of the format that the text then is.  So the tries start again *)
(* from the default, and a text with a '%' becomes another one; if its     *)
(* conversions ask for more than one int, any other one.                   *)
Resubmit(f) ==
  /\ ~fault /\ copy[f] # <<>>
  /\ phase # "gone"
  /\ LET query == Head(copy[f]) IN
     Enqueue(query.stmt, query.own /\ query.stmt \notin WithPercent)
  /\ copy' = [copy EXCEPT ![f] = Tail(@)]
  /\ UNCHANGED <<poolVars, phase, job, errors, work, log, fault, db>>

(* asprintf takes the number for the address of a string.                  *)
ResubmitFault(f) ==
  /\ ~fault /\ copy[f] # <<>>
  /\ phase # "gone"
  /\ Head(copy[f]).stmt \in WithPercent
  /\ fault' = TRUE
  /\ UNCHANGED <<poolVars, phase, queues, work, log, db>>

ResubmitDead(f) ==
  /\ ~fault /\ copy[f] # <<>>
  /\ phase = "gone"
  /\ fault' = TRUE
  /\ UNCHANGED <<poolVars, phase, queues, work, log, db>>

-----------------------------------------------------------------------------
(* The pool's end, and the database                                        *)

(* ~SqlPool: the timer is reset, which stops no callback that runs.        *)
Destroy ==
  /\ phase = "open" /\ \A c \in Client : pc[c] = "idle"
  /\ phase' = "closing"
  /\ UNCHANGED <<poolVars, queues, work, log, fault, db>>

(* _threadPool and _pool are reset; the executor runs on.                  *)
ClosePool ==
  /\ phase = "flushed" /\ copy["exit"] = <<>>
  /\ DropOwner
  /\ phase' = "gone"
  /\ UNCHANGED <<queues, work, log, fault, db>>

Resize ==
  /\ phase = "open"
  /\ \E n \in 0..MaxPoolSize : n # poolsize /\ SetSize(n)
  /\ UNCHANGED <<phase, queues, work, log, fault, db>>

GoDown ==
  /\ up /\ outages < MaxOutages
  /\ up' = FALSE /\ outages' = outages + 1
  /\ UNCHANGED <<poolVars, phase, queues, work, log, fault>>

ComeUp ==
  /\ ~up
  /\ up' = TRUE
  /\ UNCHANGED <<poolVars, phase, queues, work, log, fault, outages>>

Step(t) ==
  \/ Obtain(t) \/ ObtainFails(t) \/ CallDead(t)
  \/ Answered(t) \/ Refused(t) \/ AnswerLost(t) \/ Escaped(t)
  \/ LetGo(t) \/ Deleter(t)

ExecStep  == Step(Exec) \/ Take \/ Finish \/ Retry \/ RetryDead
FlushStep(f) == Swap(f) \/ Resubmit(f) \/ ResubmitFault(f) \/ ResubmitDead(f)

Next ==
  /\ ~fault
  /\ \/ ExecStep
     \/ \E c \in Client : Call(c) \/ Step(c) \/ Return(c)
     \/ \E f \in Flusher : FlushStep(f)
     \/ \E s \in Statement : AsyncQuery(s)
     \/ Destroy \/ ClosePool \/ Resize \/ GoDown \/ ComeUp

(* The executor, the timer and the calling threads are scheduled.          *)
Fairness ==
  /\ WF_vars(~fault /\ ExecStep)
  /\ \A c \in Client : WF_vars(~fault /\ (Step(c) \/ Return(c)))
  /\ \A f \in Flusher : WF_vars(~fault /\ FlushStep(f))

Spec == Init /\ [][Next]_vars /\ Fairness

-----------------------------------------------------------------------------
(* Properties                                                              *)

Pending == job \o tasks \o errors \o copy["timer"] \o copy["exit"]

(* A statement given to asyncQuery of which the database has run no text   *)
(* is in one place: queued, running, in the queue of errors, or in a       *)
(* flush's copy.  None is lost between a failure and its retry, none has   *)
(* two retries on the way, and none is ever given up, a statement that the *)
(* database always rejects included (SqlPool.h:122-154).                   *)
OneRetryEach ==
  LET stmts == [i \in DOMAIN Pending |-> Pending[i].stmt] IN
  /\ IsInjective(stmts)
  /\ accepted \ (ran \cup altered) \subseteq Range(stmts) \cup dropped
  /\ dropped = {}

(* Once the database stays up and the pool open, each accepted statement   *)
(* that the database takes and that has no '%' is run in the end, however  *)
(* often it failed before, and although those that the database rejects    *)
(* come again for ever (SqlPool.h:122-154, SqlConnection.h:98-107).        *)
EventuallyRun ==
  <>[](up /\ phase = "open" /\ ~fault) =>
    \A s \in Statement \ (WithPercent \cup Rejected) : s \in accepted ~> s \in ran
=============================================================================
