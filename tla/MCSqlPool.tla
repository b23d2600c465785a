----------------------------- MODULE MCSqlPool -----------------------------
(* SqlPool with its threads, connections and statements as model values;   *)
(* b has a '%' and is rejected as long as that is its text.                *)
EXTENDS SqlPool

CONSTANTS c1, x, o1, o2, a, b

Clients     == {c1}
Threads     == {c1, x}
Connections == {o1, o2}
Statements  == {a, b}
Troublesome == {b}
=============================================================================
