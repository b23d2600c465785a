---------------------------- MODULE MCThreadPool ----------------------------
(* ThreadPool with its threads and tasks as model values.                  *)
EXTENDS ThreadPool

CONSTANTS w1, w2, w3, c1, c2, k1, k2, k3
=============================================================================
