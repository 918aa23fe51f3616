------------------------------ MODULE EventLoop ------------------------------
(***************************************************************************)
(* One EventLoop (net/EventLoop.cc): the thread that owns it polls its      *)
(* channels, dispatches their events and runs the functors that any thread  *)
(* handed over with queueInLoop.  Threads synchronise on the mutex around   *)
(* pendingFunctors_, on the eventfd behind wakeup() and on nothing else, so *)
(* every step below is one critical section, one system call or one store. *)
(*                                                                         *)
(* A functor is a member of Tasks.  It may be queued again once the loop    *)
(* has taken it, by anybody, itself included.  runInLoop needs no action:   *)
(* on the owning thread it calls the functor on the spot, as part of the    *)
(* callback that is running, and on any other thread it is queueInLoop.     *)
(***************************************************************************)
EXTENDS Naturals, Sequences, Functions, FiniteSets

CONSTANTS Tasks,        \* functors
          NoTask,
          Threads,      \* the threads that share the loop but do not own it
          Loop,         \* the thread that created the loop
          Channels,     \* the channels of the poller besides the wakeup channel
          Wakeup,       \* the wakeup channel
          EventFdMax    \* largest value of the eventfd's counter

ASSUME LoopAssumption == Loop \notin Threads
ASSUME WakeupAssumption == Wakeup \notin Channels
ASSUME TaskAssumption == NoTask \notin Tasks
ASSUME EventFdAssumption == EventFdMax \in Nat \ {0}

VARIABLES
  pc,          \* where the owning thread stands in loop()
  user,        \* it is in user code: before loop(), in a channel callback, in a functor
  running,     \* the functor it is running, or NoTask
  quit,        \* quit_
  calling,     \* callingPendingFunctors_
  pending,     \* pendingFunctors_
  functors,    \* what doPendingFunctors still has to run of its local vector
  active,      \* activeChannels_ not yet handled
  ready,       \* the channels whose fd has an event
  wakeupFd,    \* the eventfd's counter
  step,        \* per thread: "notify" between the first and the second half of
               \* queueInLoop or quit, "idle" otherwise
  early        \* functors in pending that Loop queued before it called loop()

loopVars == <<pc, user, running, quit, calling, functors, active>>
vars == <<pc, user, running, quit, calling, pending, functors, active, ready,
          wakeupFd, step, early>>

AllThreads == Threads \cup {Loop}

(* EventLoop::EventLoop(): nothing pending, the wakeup channel is reading. *)
Init ==
  /\ pc = "setup" /\ user = TRUE /\ running = NoTask
  /\ quit = FALSE /\ calling = FALSE
  /\ pending = <<>> /\ functors = <<>>
  /\ active = {} /\ ready = {}
  /\ wakeupFd = 0
  /\ step = [t \in AllThreads |-> "idle"]
  /\ early = {}

-----------------------------------------------------------------------------
(* Called by any thread.                                                    *)

(* The write of 1 to the eventfd in wakeup(); at its limit the counter of a *)
(* non-blocking eventfd refuses the write and stays readable.               *)
Bump(n) == IF n < EventFdMax THEN n + 1 ELSE n

(* User code runs on t: another thread always, Loop only inside a callback. *)
CanCall(t) == step[t] = "idle" /\ (t = Loop => user)

(* queueInLoop: the critical section. *)
QueueInLoop(t, f) ==
  /\ CanCall(t)
  /\ f \notin Range(pending) \cup Range(functors)
  /\ pending' = Append(pending, f)
  /\ step' = [step EXCEPT ![t] = "notify"]
  /\ early' = IF t = Loop /\ pc = "setup" THEN early \cup {f} ELSE early
  /\ UNCHANGED <<loopVars, ready, wakeupFd>>

(* Mutants: the condition forgets the flag, or the other threads. *)
MustWakeNoFlag(t) == t # Loop
MustWakeFlagOnly(t) == calling

(* The condition of queueInLoop: isInLoopThread is false or the loop is in  *)
(* doPendingFunctors.                                                       *)
MustWake(t) == t # Loop \/ calling

(* The end of queueInLoop, and of quit on a thread that is not Loop. *)
Notify(t) ==
  /\ step[t] = "notify"
  /\ wakeupFd' = IF MustWake(t) THEN Bump(wakeupFd) ELSE wakeupFd
  /\ step' = [step EXCEPT ![t] = "idle"]
  /\ UNCHANGED <<loopVars, pending, ready, early>>

(* quit(): the store to quit_, of false, so that no loop ever stops; then   *)
(* wakeup() unless Loop is the caller.                                      *)
Quit(t) ==
  /\ CanCall(t)
  /\ quit' = FALSE
  /\ step' = IF t = Loop THEN step ELSE [step EXCEPT ![t] = "notify"]
  /\ UNCHANGED <<pc, user, running, calling, pending, functors, active, ready,
                 wakeupFd, early>>

-----------------------------------------------------------------------------
(* The owning thread.                                                       *)

StartLoop ==
  /\ pc = "setup" /\ step[Loop] = "idle"
  /\ pc' = "test" /\ user' = FALSE /\ quit' = FALSE
  /\ UNCHANGED <<running, calling, pending, functors, active, ready, wakeupFd,
                 step, early>>

TestQuit ==
  /\ pc = "test"
  /\ pc' = IF quit THEN "stopped" ELSE "poll"
  /\ UNCHANGED <<user, running, quit, calling, pending, functors, active, ready,
                 wakeupFd, step, early>>

Readable == ready \cup (IF wakeupFd > 0 THEN {Wakeup} ELSE {})

(* epoll_wait with something to report. *)
PollReady ==
  /\ pc = "poll" /\ Readable # {}
  /\ pc' = "handle" /\ active' = Readable
  /\ UNCHANGED <<user, running, quit, calling, pending, functors, ready,
                 wakeupFd, step, early>>

(* kPollTimeMs went by with nothing to report, or a signal interrupted. *)
PollTimeout ==
  /\ pc = "poll" /\ Readable = {}
  /\ pc' = "handle"
  /\ UNCHANGED <<user, running, quit, calling, pending, functors, active, ready,
                 wakeupFd, step, early>>

(* EventLoop::handleRead: the read resets the counter. *)
HandleWakeup ==
  /\ pc = "handle" /\ ~user /\ Wakeup \in active
  /\ wakeupFd' = 0
  /\ active' = active \ {Wakeup}
  /\ UNCHANGED <<pc, user, running, quit, calling, pending, functors, ready,
                 step, early>>

(* The callback of a channel consumes its event and runs user code. *)
HandleEvent(c) ==
  /\ pc = "handle" /\ ~user /\ c \in active
  /\ active' = active \ {c}
  /\ ready' = ready \ {c}
  /\ user' = TRUE
  /\ UNCHANGED <<pc, running, quit, calling, pending, functors, wakeupFd, step,
                 early>>

CallbackReturns ==
  /\ pc \in {"handle", "run"} /\ user /\ step[Loop] = "idle"
  /\ user' = FALSE /\ running' = NoTask
  /\ UNCHANGED <<pc, quit, calling, pending, functors, active, ready, wakeupFd,
                 step, early>>

(* doPendingFunctors: the flag, the swap under the mutex, the functors. *)
BeginFunctors ==
  /\ pc = "handle" /\ ~user /\ active = {}
  /\ pc' = "swap" /\ calling' = TRUE
  /\ UNCHANGED <<user, running, quit, pending, functors, active, ready, wakeupFd,
                 step, early>>

(* Mutant: copied instead of swapped. *)
SwapFunctorsCopy ==
  /\ pc = "swap"
  /\ pc' = "run"
  /\ functors' = pending /\ early' = {}
  /\ UNCHANGED <<user, running, quit, calling, pending, active, ready, wakeupFd,
                 step>>

SwapFunctors ==
  /\ pc = "swap"
  /\ pc' = "run"
  /\ functors' = pending /\ pending' = <<>> /\ early' = {}
  /\ UNCHANGED <<user, running, quit, calling, active, ready, wakeupFd, step>>

RunFunctor ==
  /\ pc = "run" /\ ~user /\ functors # <<>>
  /\ running' = Head(functors) /\ functors' = Tail(functors)
  /\ user' = TRUE
  /\ UNCHANGED <<pc, quit, calling, pending, active, ready, wakeupFd, step,
                 early>>

(* Mutant: the round goes on until nothing is pending. *)
EndFunctorsDrain ==
  /\ pc = "run" /\ ~user /\ functors = <<>>
  /\ pc' = IF pending = <<>> THEN "test" ELSE "swap"
  /\ calling' = (pending # <<>>)
  /\ UNCHANGED <<user, running, quit, pending, functors, active, ready, wakeupFd,
                 step, early>>

EndFunctors ==
  /\ pc = "run" /\ ~user /\ functors = <<>>
  /\ pc' = "test" /\ calling' = FALSE
  /\ UNCHANGED <<user, running, quit, pending, functors, active, ready, wakeupFd,
                 step, early>>

(* The kernel: an event arrives on the fd of c. *)
EventArrives(c) ==
  /\ c \notin ready
  /\ ready' = ready \cup {c}
  /\ UNCHANGED <<loopVars, pending, wakeupFd, step, early>>

-----------------------------------------------------------------------------
LoopStep ==
  \/ StartLoop \/ TestQuit \/ PollReady \/ HandleWakeup
  \/ \E c \in Channels : HandleEvent(c)
  \/ CallbackReturns \/ BeginFunctors \/ SwapFunctors \/ RunFunctor \/ EndFunctors

Next ==
  \/ LoopStep \/ PollTimeout
  \/ \E t \in AllThreads : Notify(t) \/ Quit(t) \/ \E f \in Tasks : QueueInLoop(t, f)
  \/ \E c \in Channels : EventArrives(c)

Spec == Init /\ [][Next]_vars

(* Threads keep running, callbacks return and a poll that has something to  *)
(* report reports it; nobody has to call anything.                          *)
PromptFairness ==
  /\ WF_vars(LoopStep)
  /\ \A t \in AllThreads : WF_vars(Notify(t))

(* PromptSpec lets a poll with nothing to report sleep for ever: what it    *)
(* guarantees does not rest on the ten seconds of kPollTimeMs.              *)
PromptSpec == Spec /\ PromptFairness

-----------------------------------------------------------------------------
(* Properties.                                                              *)

PCs == {"setup", "test", "poll", "handle", "swap", "run", "stopped"}

(* Every variable has the type its C++ counterpart has. *)
TypeOK ==
  /\ pc \in PCs
  /\ user \in BOOLEAN /\ quit \in BOOLEAN /\ calling \in BOOLEAN
  /\ running \in Tasks \cup {NoTask}
  /\ pending \in Seq(Tasks) /\ functors \in Seq(Tasks)
  /\ active \subseteq Channels \cup {Wakeup} /\ ready \subseteq Channels
  /\ wakeupFd \in 0 .. EventFdMax
  /\ step \in [AllThreads -> {"idle", "notify"}]
  /\ early \subseteq Tasks

(* A wakeup is on its way to the poller: the eventfd is readable, or a      *)
(* thread that has pushed its functor is about to write to it.              *)
WakeupComing ==
  \/ wakeupFd > 0
  \/ \E t \in AllThreads : step[t] = "notify" /\ MustWake(t)

(* Some functor is pending that was not queued by Loop before loop(). *)
LatePending == \E i \in 1 .. Len(pending) : pending[i] \notin early

(* The loop never sleeps in poll on a functor without a wakeup on its way   *)
(* (EventLoop.cc:111, callingPendingFunctors_ and the eventfd together),    *)
(* except for functors Loop itself queued before it called loop().          *)
(* (Checked with it: the types.)                                            *)
NoLostWakeup == TypeOK /\ (pc = "poll" /\ LatePending => WakeupComing)

(* A functor that was queued, by a thread, a callback or another functor,   *)
(* gets run although no poll ever times out.                                *)
QueuedRuns ==
  \A f \in Tasks :
    (\E i \in 1 .. Len(pending) : pending[i] = f /\ f \notin early) ~> (running = f)

(* Functors that queue functors for ever do not starve the channels: the    *)
(* swap of doPendingFunctors bounds a round (EventLoop.cc:142-148).         *)
EventsHandled == \A c \in Channels : (c \in ready /\ pc # "setup") ~> (c \notin ready)

(* What is left of the round, then what is pending. *)
TQ == INSTANCE TaskQueue WITH queue <- functors \o pending, running <- running

(* Functors that any threads hand over are run one at a time, each once and *)
(* in the order of queueInLoop, across the swap of doPendingFunctors.       *)
ImplementsTaskQueue == TQ!Spec
==============================================================================
