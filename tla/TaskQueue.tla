------------------------------ MODULE TaskQueue ------------------------------
(***************************************************************************)
(* What an EventLoop promises the callers of queueInLoop: functors are kept *)
(* in the order in which they were handed over, one thread takes them from *)
(* the front and runs each of them once, one at a time.                     *)
(***************************************************************************)
EXTENDS Sequences, Functions

CONSTANTS Tasks, NoTask

VARIABLES queue,    \* functors handed over and not yet started
          running   \* the functor being run, or NoTask

vars == <<queue, running>>

Init == queue = <<>> /\ running = NoTask

Submit(f) ==
  /\ f \notin Range(queue)
  /\ queue' = Append(queue, f)
  /\ UNCHANGED running

Execute ==
  /\ running = NoTask
  /\ queue # <<>>
  /\ running' = Head(queue)
  /\ queue' = Tail(queue)

Finish ==
  /\ running # NoTask
  /\ running' = NoTask
  /\ UNCHANGED queue

Next == (\E f \in Tasks : Submit(f)) \/ Execute \/ Finish

Spec == Init /\ [][Next]_vars
==============================================================================
