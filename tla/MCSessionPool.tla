---------------------------- MODULE MCSessionPool ----------------------------
(***************************************************************************)
(* Four threads over two sessions: more callers than sessions, so threads  *)
(* block, barge and are woken; two calls each, so sessions are recycled.   *)
(***************************************************************************)
EXTENDS SessionPool, TLC

CONSTANTS t1, t2, t3, t4

MCThreads == {t1, t2, t3, t4}
==============================================================================
