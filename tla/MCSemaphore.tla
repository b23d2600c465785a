---------------------------- MODULE MCSemaphore ----------------------------
(* Semaphore on four threads: a pool of waiters larger than any post, so   *)
(* that a newcomer, a sleeper and two woken threads meet.                  *)
EXTENDS Semaphore

CONSTANTS t1, t2, t3, t4

MCCaller == {t1, t2, t3, t4}
=============================================================================
