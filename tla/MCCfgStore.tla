----------------------------- MODULE MCCfgStore -----------------------------
(* CfgStore with two programs of one thread each.                          *)
EXTENDS CfgStore, TLC

CONSTANTS p1, p2, a1, a2, k1, k2, v1

TwoPrograms == {p1, p2}
TwoActors   == {a1, a2}
OneEach     == (a1 :> p1) @@ (a2 :> p2)
TwoKeys     == {k1, k2}
OneValue    == {v1}

SomeFile    == {[k \in Key |-> v1]}
MaybeFile   == SomeFile \cup {NULL}
=============================================================================
