-------------------------------- MODULE Feed --------------------------------
(***************************************************************************)
(* What a RingBuffer promises its readers: a reader joins at some place of *)
(* the stream, from there on it gets every item, once and in order, and it *)
(* is told of the end after the last one.                                  *)
(***************************************************************************)
EXTENDS Naturals

CONSTANT Reader

VARIABLES
  n,         (* the number of items written                                *)
  closed,    (* no more items will come                                    *)
  phase,     (* per reader: "out", "in" or "told" of the end               *)
  pos        (* per reader, the last item before those it still gets       *)

vars == <<n, closed, phase, pos>>

Init ==
  /\ n = 0 /\ closed = FALSE
  /\ phase = [r \in Reader |-> "out"]
  /\ pos = [r \in Reader |-> 0]

Publish == ~closed /\ n' = n + 1 /\ UNCHANGED <<closed, phase, pos>>

(* Somebody who joins after the end is told as it joins.                   *)
Join(r) ==
  /\ phase[r] = "out"
  /\ \E p \in 0..n, s \in {"in", "told"} :
       /\ s = "told" => closed /\ p = n
       /\ phase' = [phase EXCEPT ![r] = s]
       /\ pos' = [pos EXCEPT ![r] = p]
  /\ UNCHANGED <<n, closed>>

Leave(r) ==
  /\ phase' = [phase EXCEPT ![r] = "out"]
  /\ pos' = [pos EXCEPT ![r] = 0]
  /\ UNCHANGED <<n, closed>>

(* Some readers get their next item; after its last one a reader may be    *)
(* told of the end.                                                        *)
Serve ==
  /\ n' = n /\ closed' \in {closed, TRUE}
  /\ \A r \in Reader :
       /\ pos'[r] \in {pos[r], pos[r] + 1}
       /\ pos'[r] # pos[r] => phase[r] = "in" /\ pos'[r] <= n
       /\ phase'[r] # phase[r] =>
            phase[r] = "in" /\ phase'[r] = "told" /\ closed' /\ pos'[r] = n

Next == Publish \/ (\E r \in Reader : Join(r) \/ Leave(r)) \/ Serve

Spec == Init /\ [][Next]_vars
=============================================================================
