----------------------------- MODULE TimerService -----------------------------
(***************************************************************************)
(* What the users of runAt, runAfter, runEvery and cancel rely on: timers   *)
(* that are known by their sequence numbers only.  A timer is a record of   *)
(* its number, when it is due by the wall clock, and its interval (0 for a  *)
(* timer that fires once).  TimerQueue is shown to implement this.          *)
(***************************************************************************)
EXTENDS Integers

VARIABLES
  created,   \* how many timers there have been
  coming,    \* timers that another thread created and the loop has not started
  waiting,   \* timers that wait for their time
  round,     \* timers whose time has come, until all their callbacks have run
  toCall,    \* those of them whose callback is still to run
  stopped,   \* those of them that were cancelled meanwhile
  cancelled, \* the numbers of the timers that were cancelled
  began,     \* the wall-clock time at which the round began
  wall       \* the wall clock

vars == <<created, coming, waiting, round, toCall, stopped, cancelled, began, wall>>

Init ==
  /\ created = 0 /\ coming = {} /\ waiting = {}
  /\ round = {} /\ toCall = {} /\ stopped = {} /\ cancelled = {}
  /\ began = 0 /\ wall = 1

(* A new timer has the next number, is not due before now, and waits, or    *)
(* has to get to the loop first.                                            *)
Create ==
  /\ created' = created + 1
  /\ \E t \in waiting' \cup coming' :
       /\ t.seq = created' /\ t.exp >= wall /\ t.interval >= 0
       /\ \/ waiting' = waiting \cup {t} /\ coming' = coming
          \/ coming' = coming \cup {t} /\ waiting' = waiting
  /\ UNCHANGED <<round, toCall, stopped, cancelled, began, wall>>

Start(t) ==
  /\ coming' = coming \ {t} /\ waiting' = waiting \cup {t}
  /\ UNCHANGED <<created, round, toCall, stopped, cancelled, began, wall>>

(* The timer with this number, and no other, waits no more.  One that is    *)
(* being called in this round is not called in another.  A cancel that      *)
(* overtakes its timer on the way to the loop does nothing.                 *)
Cancel(seq) ==
  /\ \A t \in coming : t.seq # seq
  /\ cancelled' = cancelled \cup {seq}
  /\ waiting' = {t \in waiting : t.seq # seq}
  /\ stopped' = stopped \cup {t \in round : t.seq = seq}
  /\ UNCHANGED <<created, coming, round, toCall, began, wall>>

(* Every timer whose time has come, and no other. *)
Expire ==
  /\ round = {}
  /\ round' = {t \in waiting : t.exp <= wall} /\ waiting' = waiting \ round'
  /\ toCall' = round' /\ stopped' = {} /\ began' = wall
  /\ UNCHANGED <<created, coming, cancelled, wall>>

(* Callbacks run in the order in which the timers were due, each once. *)
Fire(t) ==
  /\ \A u \in toCall : t.exp <= u.exp
  /\ toCall' = toCall \ {t}
  /\ UNCHANGED <<created, coming, waiting, round, stopped, cancelled, began, wall>>

(* A timer with an interval that was not cancelled waits again. *)
Finish ==
  /\ toCall = {} /\ round' = {} /\ stopped' = {}
  /\ waiting' = waiting \cup
       {[t EXCEPT !.exp = began + t.interval] : t \in {u \in round \ stopped : u.interval > 0}}
  /\ UNCHANGED <<created, coming, toCall, cancelled, began, wall>>

(* The wall clock goes on, or is set. *)
Clock ==
  UNCHANGED <<created, coming, waiting, round, toCall, stopped, cancelled, began>>

Next ==
  \/ Create \/ (\E t \in coming : Start(t))
  \/ (\E seq \in 0 .. created : Cancel(seq))
  \/ Expire \/ (\E t \in toCall : Fire(t)) \/ Finish \/ Clock

Spec == Init /\ [][Next]_vars
==============================================================================
