---------------------------- MODULE MCRingBuffer ----------------------------
(* RingBuffer with small sets of model values.                             *)
EXTENDS RingBuffer

CONSTANTS p1, r1, r2, d1, d2, d3
=============================================================================
