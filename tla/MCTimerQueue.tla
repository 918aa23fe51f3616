---------------------------- MODULE MCTimerQueue -----------------------------
(* TimerQueue with its constants as model values, for TLC. *)
EXTENDS TimerQueue

CONSTANTS a1, a2, t1

TwoAddrs == {a1, a2}
OneThread == {t1}
NoSkew == {0}
ZeroOrOne == {0, 1}
==============================================================================
