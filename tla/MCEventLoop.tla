----------------------------- MODULE MCEventLoop -----------------------------
(* EventLoop with its constants as model values, for TLC. *)
EXTENDS EventLoop

CONSTANTS f1, f2, f3, t1, t2, c1

ThreeTasks == {f1, f2, f3}
TwoThreads == {t1, t2}
OneChannel == {c1}
==============================================================================
