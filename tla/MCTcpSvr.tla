------------------------------ MODULE MCTcpSvr ------------------------------
(* TcpSvr with its heap blocks, threads and descriptors as model values.   *)
EXTENDS TcpSvr, TLC

CONSTANTS s1, s2, t1, t2, t3, f1, f2, f3, f4

OneSession    == {s1}
TwoSessions   == {s1, s2}
TwoThreads    == {t1, t2}
ThreeThreads  == {t1, t2, t3}
TwoFds        == {f1, f2}
FourFds       == {f1, f2, f3, f4}

(* All of them are only compared, so they are interchangeable.             *)
TcpSymmetry ==
  Permutations(TwoSessions) \cup Permutations(ThreeThreads) \cup Permutations(FourFds)
=============================================================================
