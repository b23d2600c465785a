------------------------------ MODULE CfgStore ------------------------------
(***************************************************************************)
(* The configuration file on disk, shared by programs that call the        *)
(* Cfg_Read... and Cfg_Write... functions of ctcpsvr/cfgfile.cpp.  Each    *)
(* call opens the file, reads it under a shared POSIX lock and gives the   *)
(* lock up; a writing call then changes its table and writes the whole     *)
(* file again under an exclusive lock.  POSIX locks belong to a process:   *)
(* its threads do not exclude each other, a new lock of the process        *)
(* replaces its old one, and closing any descriptor of the file drops it.  *)
(* What a table does with its items is the business of CfgFile; here a     *)
(* file is a map, and a truncated or half-written one lacks keys.          *)
(***************************************************************************)
EXTENDS CfgDisk

CONSTANTS
  Key, Value,
  NULL          (* no value; no file                                       *)

Items == [Key -> Value \cup {NULL}]
Empty == [k \in Key |-> NULL]

ASSUME NullAssumption  == NULL \notin Value /\ NULL \notin Items
ASSUME DiskAssumption  == InitialDisks \subseteq Items \cup {NULL}

(* A call reads a key, or gives it a value (NULL removes it).              *)
Job == [kind : {"read"}, key : Key]
         \cup [kind : {"write"}, key : Key, value : Value \cup {NULL}]

vars == store

Places == {"idle", "access", "creat", "open", "fstat", "unlock", "use",
           "reopen", "fopen", "write", "fclose"}

Init ==
  /\ disk \in InitialDisks
  /\ lock = [p \in Program |-> "none"]
  /\ pc = [a \in Actor |-> "idle"]
  /\ job = [a \in Actor |-> NULL]
  /\ items = [a \in Actor |-> Empty]
  /\ put = [a \in Actor |-> {}]
  /\ crashes = 0
  /\ whole = disk
  /\ raced = FALSE

Goto(a, from, to) == pc[a] = from /\ pc' = [pc EXCEPT ![a] = to]

(* The call ends, and cfg_done frees its table.                            *)
End(A) ==
  /\ pc' = [a \in Actor |-> IF a \in A THEN "idle" ELSE pc[a]]
  /\ job' = [a \in Actor |-> IF a \in A THEN NULL ELSE job[a]]
  /\ items' = [a \in Actor |-> IF a \in A THEN Empty ELSE items[a]]
  /\ put' = [a \in Actor |-> IF a \in A THEN {} ELSE put[a]]

Locks(a, l)       == lock' = [lock EXCEPT ![ProgramOf[a]] = l]
Others(a)         == Program \ {ProgramOf[a]}
-----------------------------------------------------------------------------
(* The system calls of cfg_init, cfg_refresh and cfg_commit.               *)

Call(a, j) ==
  /\ Goto(a, "idle", "access")
  /\ job' = [job EXCEPT ![a] = j]
  /\ UNCHANGED <<disk, lock, items, put, crashes, whole, raced>>

(* Without a file a reading call ends, a writing one creates it.           *)
Access(a) ==
  /\ pc[a] = "access"
  /\ \/ disk # NULL /\ Goto(a, "access", "open") /\ UNCHANGED <<job, items, put>>
     \/ disk = NULL /\ job[a].kind = "write" /\ Goto(a, "access", "creat") /\ UNCHANGED <<job, items, put>>
     \/ disk = NULL /\ job[a].kind = "read" /\ End({a})
  /\ UNCHANGED <<disk, lock, crashes, whole, raced>>

(* creat() empties a file that has come into being meanwhile.              *)
Creat(a) ==
  /\ Goto(a, "creat", "open")
  /\ disk' = Empty
  /\ Locks(a, "none")
  /\ whole' = Empty
  /\ raced' = (raced \/ disk # NULL)
  /\ UNCHANGED <<job, items, put, crashes>>

(* Mutant: the shared lock is asked for with F_SETLK, its failure ignored. *)
LockShared_Skipped(a) ==
  /\ Goto(a, "open", "fstat")
  /\ UNCHANGED <<disk, lock, job, items, put, crashes, whole, raced>>

LockShared(a) ==
  /\ \A p \in Others(a) : lock[p] # "write"
  /\ Goto(a, "open", "fstat")
  /\ Locks(a, "read")
  /\ UNCHANGED <<disk, job, items, put, crashes, whole, raced>>

Read(a) ==
  /\ Goto(a, "fstat", "unlock")
  /\ items' = [items EXCEPT ![a] = disk]
  /\ UNCHANGED <<disk, lock, job, put, crashes, whole, raced>>

(* Mutant: the descriptor, and the lock with it, is left open.             *)
Unlock_Leaks(a) ==
  /\ Goto(a, "unlock", "use")
  /\ UNCHANGED <<disk, lock, job, items, put, crashes, whole, raced>>

Unlock(a) ==
  /\ Goto(a, "unlock", "use")
  /\ Locks(a, "none")
  /\ UNCHANGED <<disk, job, items, put, crashes, whole, raced>>

Removed(a) == job[a].kind = "write" /\ job[a].value = NULL /\ items[a][job[a].key] = NULL

(* A reading call takes its value and ends, and so does one that removed   *)
(* what is not there.  Another changes its table and goes on to commit it. *)
Use(a) ==
  /\ pc[a] = "use"
  /\ IF job[a].kind = "read" \/ Removed(a)
     THEN End({a})
     ELSE /\ Goto(a, "use", "reopen")
          /\ items' = [items EXCEPT ![a][job[a].key] = job[a].value]
          /\ UNCHANGED <<job, put>>
  /\ UNCHANGED <<disk, lock, crashes, whole, raced>>

(* Mutant: the writer locks with F_RDLCK.                                  *)
LockExclusive_Shared(a) ==
  /\ \A p \in Others(a) : lock[p] # "write"
  /\ Goto(a, "reopen", "fopen")
  /\ Locks(a, "read")
  /\ UNCHANGED <<disk, job, items, put, crashes, whole, raced>>

LockExclusive(a) ==
  /\ \A p \in Others(a) : lock[p] = "none"
  /\ Goto(a, "reopen", "fopen")
  /\ Locks(a, "write")
  /\ UNCHANGED <<disk, job, items, put, crashes, whole, raced>>

Truncate(a) ==
  /\ Goto(a, "fopen", "write")
  /\ disk' = Empty
  /\ UNCHANGED <<lock, job, items, put, crashes, whole, raced>>

(* disk with the items of a under the keys D.                              *)
Written(a, D) == [k \in Key |-> IF k \in D THEN items[a][k] ELSE disk[k]]

(* A full buffer of stdio reaches the disk before the rest.                *)
Write(a) ==
  /\ Goto(a, "write", "fclose")
  /\ \E D \in SUBSET Key : put' = [put EXCEPT ![a] = D] /\ disk' = Written(a, D)
  /\ UNCHANGED <<lock, job, items, crashes, whole, raced>>

(* fclose writes the rest and, closing the descriptor, drops the lock.     *)
Close(a) ==
  /\ pc[a] = "fclose"
  /\ End({a})
  /\ disk' = Written(a, Key \ put[a])
  /\ whole' = items[a]
  /\ Locks(a, "none")
  /\ UNCHANGED <<crashes, raced>>

(* open() or fopen() fails for want of a descriptor; the call ends.        *)
OpenFails(a) ==
  /\ pc[a] \in {"open", "reopen", "fopen"}
  /\ End({a})
  /\ lock' = IF pc[a] = "fopen" THEN [lock EXCEPT ![ProgramOf[a]] = "none"] ELSE lock
  /\ UNCHANGED <<disk, crashes, whole, raced>>

(* A process is killed: its locks go, what it has written stays.           *)
Crash(p) ==
  LET mine == {a \in Actor : ProgramOf[a] = p}
  IN  /\ crashes < MaxCrash
      /\ crashes' = crashes + 1
      /\ End(mine)
      /\ lock' = [lock EXCEPT ![p] = "none"]
      /\ whole' = IF \E a \in mine : Writing(a) THEN disk ELSE whole
      /\ UNCHANGED <<disk, raced>>

Step(a) ==
  \/ Access(a)
  \/ Creat(a)
  \/ LockShared(a)
  \/ Read(a)
  \/ Unlock(a)
  \/ Use(a)
  \/ LockExclusive(a)
  \/ Truncate(a)
  \/ Write(a)
  \/ Close(a)

Next ==
  \/ \E a \in Actor : Step(a) \/ OpenFails(a) \/ \E j \in Job : Call(a, j)
  \/ \E p \in Program : Crash(p)

(* The scheduler runs each thread that can go on.                          *)
Fairness == \A a \in Actor : WF_vars(Step(a))

Spec == Init /\ [][Next]_vars /\ Fairness
-----------------------------------------------------------------------------
(* Properties.                                                             *)

TypeOK ==
  /\ disk \in Items \cup {NULL}
  /\ lock \in [Program -> {"none", "read", "write"}]
  /\ pc \in [Actor -> Places]
  /\ job \in [Actor -> Job \cup {NULL}]
  /\ items \in [Actor -> Items]
  /\ put \in [Actor -> SUBSET Key]
  /\ crashes \in 0..MaxCrash
  /\ whole \in Items \cup {NULL}
  /\ raced \in BOOLEAN

(* A commit changes the items it was asked to change and no others: what   *)
(* another program has stored since the file was read stays ("if bLock=1   *)
(* will lock this file", cfgfile.cpp:1882).                                *)
NoUpdateIsLost ==
  [][\A a \in Actor : Truncate(a) =>
       \A k \in Key \ {job[a].key} : items[a][k] = disk[k]]_vars

(* No call waits for ever: once no more calls come, all threads end theirs *)
(* (nobody waits for a lock while holding another, and a killed process    *)
(* leaves none).                                                           *)
CallsEnd ==
  <>[][\A a \in Actor, j \in Job : ~Call(a, j)]_vars
    => <>[](\A a \in Actor : pc[a] = "idle")
=============================================================================
