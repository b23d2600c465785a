------------------------------ MODULE Settings ------------------------------
(***************************************************************************)
(* What the configuration file promises the programs that use it through   *)
(* cfgfile.h: a persistent map from sections and keys to values, edited in *)
(* a draft that a program opens, changes and then either commits or gives  *)
(* up.                                                                     *)
(***************************************************************************)
CONSTANTS
  Section, Key, Value,   (* what programs name and store                   *)
  NULL                   (* no value; no draft                             *)

VARIABLES
  saved,                 (* the settings on disk                           *)
  draft                  (* the settings being edited, or NULL             *)

vars == <<saved, draft>>

Init ==
  /\ saved \in [Section -> [Key -> Value \cup {NULL}]]
  /\ draft = NULL

Open ==
  /\ draft = NULL
  /\ draft' = saved
  /\ UNCHANGED saved

(* A draft d with the value v for a key, NULL to remove it; and without    *)
(* the keys of a section.                                                  *)
Set(d, s, k, v)     == [d EXCEPT ![s][k] = v]
RemoveSection(d, s) == [d EXCEPT ![s] = [k \in Key |-> NULL]]

Edits(d) ==
  {Set(d, s, k, v) : s \in Section, k \in Key, v \in Value \cup {NULL}}
    \cup {RemoveSection(d, s) : s \in Section}

(* One call changes one item or one section.                               *)
Edit ==
  /\ draft # NULL
  /\ draft' \in Edits(draft)
  /\ UNCHANGED saved

Commit ==
  /\ draft # NULL
  /\ saved' = draft
  /\ UNCHANGED draft

(* The program closes its draft, or dies with it.                          *)
Close ==
  /\ draft' = NULL
  /\ UNCHANGED saved

Next == Open \/ Edit \/ Commit \/ Close

Spec == Init /\ [][Next]_vars
=============================================================================
