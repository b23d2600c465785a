--------------------------- MODULE MCNoticeCenter ---------------------------
(* NoticeCenter with small sets of model values.                           *)
EXTENDS NoticeCenter, TLC

CONSTANTS t1, t2, e1, e2, d4, l1, l2, d1, d2, d3, g1, g2

Tags == (l1 :> g1) @@ (l2 :> g2)
=============================================================================
