------------------------------- MODULE CfgDisk -------------------------------
(***************************************************************************)
(* The configuration file on disk and the programs that share it through   *)
(* the Cfg_Read... and Cfg_Write... functions of ctcpsvr/cfgfile.cpp: what *)
(* there is, and what a reader and a writer may rely on.  CfgStore has the *)
(* steps.                                                                  *)
(***************************************************************************)
EXTENDS Naturals

CONSTANTS
  Program,      (* the processes                                           *)
  Actor,        (* their threads that call the API                         *)
  ProgramOf,    (* the process of each thread                              *)
  InitialDisks, (* the files a run starts from                             *)
  MaxCrash      (* bound: how often a process is killed                    *)

ASSUME ActorAssumption == ProgramOf \in [Actor -> Program]
ASSUME CrashAssumption == MaxCrash \in Nat

VARIABLES
  disk,         (* the file                                                *)
  lock,         (* the lock each process has on it                         *)
  pc,           (* where each thread is                                    *)
  job,          (* what it was asked                                       *)
  items,        (* the items it has read                                   *)
  put,          (* the keys it has written to the disk                     *)
  crashes,      (* processes killed so far                                 *)
  whole,        (* no code: what the last complete write left on disk      *)
  raced         (* no code: creat() has emptied a file that existed        *)

store == <<disk, lock, pc, job, items, put, crashes, whole, raced>>

(* Between fopen(.., "w") and fclose the file is not what it will be.      *)
Writing(a) == pc[a] \in {"write", "fclose"}

(* The step in which cfg_refresh reads the file.                           *)
Refreshes(a) == pc[a] = "fstat" /\ pc'[a] = "unlock"
-----------------------------------------------------------------------------
(* Properties.                                                             *)

(* No call takes an empty or half-written file for the configuration: what *)
(* cfg_refresh reads under its lock is what the last commit left complete, *)
(* or what a killed writer left.  This and the next property hold until    *)
(* creat(), which takes no lock, empties a file that another program has   *)
(* made since access() (cfgfile.cpp:230, l.260).                           *)
ReadsWhole ==
  [][\A a \in Actor : Refreshes(a) /\ ~raced => items'[a] = whole]_store

(* While nobody is writing, the file is what the last writer meant: two    *)
(* commits do not mix.                                                     *)
WritesDoNotMix == ~raced /\ (\A a \in Actor : ~Writing(a)) => disk = whole
=============================================================================
