--------------------------- MODULE MCTcpConnection ---------------------------
(* TcpConnection with its constants as model values, for TLC. *)
EXTENDS TcpConnection

CONSTANTS m1, m2, w1, w2, base, io

OneMsg == {m1}
TwoMsgs == {m1, m2}
OneWorker == {w1}
TwoWorkers == {w1, w2}

(* With and without a thread pool. *)
TwoLoops == {base, io}
PoolLoop == {io}
==============================================================================
