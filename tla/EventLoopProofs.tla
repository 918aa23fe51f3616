--------------------------- MODULE EventLoopProofs ---------------------------
(* Proofs about EventLoop, for any number of threads, functors and channels. *)
EXTENDS EventLoop, TLAPS

(* Appending a functor is the only way an element gets into pending. *)
LEMMA AppendElements ==
  ASSUME NEW s \in Seq(Tasks), NEW f \in Tasks
  PROVE  /\ Append(s, f) \in Seq(Tasks)
         /\ Len(Append(s, f)) = Len(s) + 1
         /\ \A i \in 1 .. Len(s) : Append(s, f)[i] = s[i]
         /\ Append(s, f)[Len(s) + 1] = f
OBVIOUS

(* The counter of the eventfd stays within its bound and is positive after  *)
(* a write (EventLoop::wakeup).                                             *)
LEMMA BumpPositive ==
  ASSUME NEW n \in 0 .. EventFdMax
  PROVE  Bump(n) \in 0 .. EventFdMax /\ Bump(n) > 0
BY EventFdAssumption DEF Bump

(* EventLoop.cc: every variable keeps its type, whatever the threads do. *)
THEOREM TypeCorrect == Spec => []TypeOK
<1>1. Init => TypeOK
  <2> SUFFICES ASSUME Init PROVE TypeOK
    OBVIOUS
  <2>1. pc \in PCs /\ pending \in Seq(Tasks) /\ functors \in Seq(Tasks)
    BY DEF Init, PCs
  <2>2. wakeupFd \in 0 .. EventFdMax
    BY EventFdAssumption DEF Init
  <2>3. step \in [AllThreads -> {"idle", "notify"}]
    BY DEF Init
  <2> QED
    BY <2>1, <2>2, <2>3, Zenon DEF Init, TypeOK
<1>2. TypeOK /\ [Next]_vars => TypeOK'
  <2> SUFFICES ASSUME TypeOK, [Next]_vars PROVE TypeOK'
    OBVIOUS
  <2> USE DEF TypeOK, PCs, AllThreads
  <2>1. ASSUME NEW t \in AllThreads, NEW f \in Tasks, QueueInLoop(t, f) PROVE TypeOK'
    BY <2>1, AppendElements DEF QueueInLoop, loopVars
  <2>2. ASSUME NEW t \in AllThreads, Notify(t) PROVE TypeOK'
    BY <2>2, BumpPositive DEF Notify, loopVars
  <2>3. ASSUME NEW t \in AllThreads, Quit(t) PROVE TypeOK'
    BY <2>3 DEF Quit
  <2>4. CASE StartLoop
    BY <2>4 DEF StartLoop
  <2>5. CASE TestQuit
    BY <2>5 DEF TestQuit
  <2>6. CASE PollReady
    BY <2>6 DEF PollReady, Readable
  <2>7. CASE PollTimeout
    BY <2>7 DEF PollTimeout
  <2>8. CASE HandleWakeup
    BY <2>8, EventFdAssumption DEF HandleWakeup
  <2>9. ASSUME NEW c \in Channels, HandleEvent(c) PROVE TypeOK'
    BY <2>9 DEF HandleEvent
  <2>10. CASE CallbackReturns
    BY <2>10 DEF CallbackReturns
  <2>11. CASE BeginFunctors
    BY <2>11 DEF BeginFunctors
  <2>12. CASE SwapFunctors
    BY <2>12 DEF SwapFunctors
  <2>13. CASE RunFunctor
    BY <2>13 DEF RunFunctor
  <2>14. CASE EndFunctors
    BY <2>14 DEF EndFunctors
  <2>15. ASSUME NEW c \in Channels, EventArrives(c) PROVE TypeOK'
    BY <2>15 DEF EventArrives, loopVars
  <2>16. CASE UNCHANGED vars
    BY <2>16 DEF vars
  <2> QED
    BY <2>1, <2>2, <2>3, <2>4, <2>5, <2>6, <2>7, <2>8, <2>9, <2>10, <2>11,
       <2>12, <2>13, <2>14, <2>15, <2>16 DEF Next, LoopStep
<1> QED
  BY <1>1, <1>2, PTL DEF Spec

(* The control of loop(): the flag is up exactly in doPendingFunctors, user *)
(* code runs in callbacks and functors, and a round is empty outside the    *)
(* loop over it.                                                            *)
ControlInv ==
  /\ calling <=> (pc \in {"swap", "run"})
  /\ user => pc \in {"setup", "handle", "run"}
  /\ pc = "setup" => user
  /\ step[Loop] = "notify" => user
  /\ running # NoTask => pc = "run" /\ user
  /\ pc = "run" /\ user => running # NoTask
  /\ functors # <<>> => pc = "run"

(* A functor is pending without a wakeup on its way only while channels are *)
(* dispatched and up to the swap, which is still to come.                   *)
WakeInv ==
  pc \in {"setup", "test", "poll", "run"} /\ LatePending => WakeupComing

(* Why no wakeup is lost, as an inductive invariant. *)
LoopInv == ControlInv /\ WakeInv

(* The owning thread is one of the threads (EventLoop::isInLoopThread). *)
LEMMA LoopIsAThread == Loop \in AllThreads
BY DEF AllThreads

(* A thread between the halves of queueInLoop keeps the wakeup coming until *)
(* it has written to the eventfd, which then is readable.                   *)
LEMMA NotifyKeepsWakeup ==
  ASSUME TypeOK, NEW t \in AllThreads, Notify(t), WakeupComing
  PROVE  WakeupComing'
<1>1. CASE MustWake(t)
  BY <1>1, BumpPositive DEF Notify, TypeOK, WakeupComing
<1>2. CASE ~MustWake(t) /\ wakeupFd > 0
  BY <1>2 DEF Notify, WakeupComing
<1>3. CASE ~MustWake(t) /\ ~(wakeupFd > 0)
  <2>1. PICK u \in AllThreads : step[u] = "notify" /\ MustWake(u)
    BY <1>3 DEF WakeupComing
  <2>2. u # t /\ step'[u] = "notify" /\ MustWake(u)'
    BY <1>3, <2>1 DEF Notify, TypeOK, MustWake, loopVars
  <2> QED
    BY <2>2 DEF WakeupComing
<1> QED
  BY <1>1, <1>2, <1>3

(* Steps that leave pending, early, the eventfd and the threads alone, and  *)
(* do not take the flag down while the owner has to notify, keep a wakeup.  *)
LEMMA FrameWakeup ==
  ASSUME UNCHANGED <<wakeupFd, step>>, calling => calling' \/ step[Loop] = "idle",
         WakeupComing
  PROVE  WakeupComing'
BY DEF WakeupComing, MustWake

(* No step of any thread breaks what LoopInv says of the control of loop(). *)
LEMMA ControlStep ==
  ASSUME TypeOK, ControlInv, [Next]_vars
  PROVE  ControlInv'
<1> USE DEF ControlInv, TypeOK, AllThreads
<1>1. ASSUME NEW t \in AllThreads, NEW f \in Tasks, QueueInLoop(t, f) PROVE ControlInv'
  BY <1>1, LoopAssumption DEF QueueInLoop, CanCall, loopVars
<1>2. ASSUME NEW t \in AllThreads, Notify(t) PROVE ControlInv'
  BY <1>2 DEF Notify, loopVars
<1>3. ASSUME NEW t \in AllThreads, Quit(t) PROVE ControlInv'
  BY <1>3 DEF Quit, CanCall
<1>4. CASE StartLoop
  BY <1>4 DEF StartLoop
<1>5. CASE TestQuit
  BY <1>5 DEF TestQuit
<1>6. CASE PollReady
  BY <1>6 DEF PollReady
<1>7. CASE PollTimeout
  BY <1>7 DEF PollTimeout
<1>8. CASE HandleWakeup
  BY <1>8 DEF HandleWakeup
<1>9. ASSUME NEW c \in Channels, HandleEvent(c) PROVE ControlInv'
  BY <1>9 DEF HandleEvent
<1>10. CASE CallbackReturns
  BY <1>10 DEF CallbackReturns
<1>11. CASE BeginFunctors
  BY <1>11 DEF BeginFunctors
<1>12. CASE SwapFunctors
  BY <1>12 DEF SwapFunctors
<1>13. CASE RunFunctor
  <2>1. Head(functors) \in Tasks
    BY <1>13 DEF RunFunctor
  <2> QED
    BY <1>13, <2>1, TaskAssumption DEF RunFunctor
<1>14. CASE EndFunctors
  BY <1>14 DEF EndFunctors
<1>15. ASSUME NEW c \in Channels, EventArrives(c) PROVE ControlInv'
  BY <1>15 DEF EventArrives, loopVars
<1>16. CASE UNCHANGED vars
  BY <1>16 DEF vars
<1> QED
  BY <1>1, <1>2, <1>3, <1>4, <1>5, <1>6, <1>7, <1>8, <1>9, <1>10, <1>11,
     <1>12, <1>13, <1>14, <1>15, <1>16 DEF Next, LoopStep

(* No step of any thread puts the loop to sleep on a functor. *)
LEMMA WakeStep ==
  ASSUME TypeOK, ControlInv, WakeInv, [Next]_vars
  PROVE  WakeInv'
<1>1. ASSUME NEW t \in AllThreads, NEW f \in Tasks, QueueInLoop(t, f) PROVE WakeInv'
  <2>0. /\ UNCHANGED <<pc, calling, wakeupFd>>
        /\ step[t] = "idle" /\ step' = [step EXCEPT ![t] = "notify"]
        /\ pending' = Append(pending, f)
    BY <1>1 DEF QueueInLoop, CanCall, loopVars
  <2>1. WakeupComing => WakeupComing'
    BY <2>0 DEF WakeupComing, MustWake, TypeOK
  <2>2. CASE MustWake(t)
    BY <2>0, <2>2 DEF WakeInv, WakeupComing, MustWake, TypeOK
  <2>3. CASE ~MustWake(t) /\ pc = "setup"
    <3>1. early' = early \cup {f}
      BY <1>1, <2>3 DEF QueueInLoop, MustWake
    <3>2. LatePending' => LatePending
      BY <3>1, <2>0, AppendElements DEF LatePending, TypeOK
    <3> QED
      BY <2>0, <2>1, <2>3, <3>2 DEF WakeInv
  <2>4. CASE ~MustWake(t) /\ pc # "setup"
    BY <1>1, <2>0, <2>4 DEF WakeInv, MustWake, ControlInv, QueueInLoop, CanCall
  <2> QED
    BY <2>2, <2>3, <2>4
<1>2. ASSUME NEW t \in AllThreads, Notify(t) PROVE WakeInv'
  BY <1>2, NotifyKeepsWakeup DEF Notify, WakeInv, LatePending, loopVars
<1>3. ASSUME NEW t \in AllThreads, Quit(t) PROVE WakeInv'
  <2>1. WakeupComing => WakeupComing'
    BY <1>3 DEF Quit, CanCall, WakeupComing, MustWake, TypeOK
  <2> QED
    BY <1>3, <2>1 DEF Quit, WakeInv, LatePending
<1>4. CASE StartLoop
  BY <1>4, FrameWakeup DEF StartLoop, WakeInv, LatePending
<1>5. CASE TestQuit
  BY <1>5, FrameWakeup DEF TestQuit, WakeInv, LatePending
<1>6. CASE PollReady
  BY <1>6 DEF PollReady, WakeInv
<1>7. CASE PollTimeout
  BY <1>7 DEF PollTimeout, WakeInv
<1>8. CASE HandleWakeup
  BY <1>8 DEF HandleWakeup, WakeInv
<1>9. ASSUME NEW c \in Channels, HandleEvent(c) PROVE WakeInv'
  BY <1>9 DEF HandleEvent, WakeInv
<1>10. CASE CallbackReturns
  BY <1>10, FrameWakeup DEF CallbackReturns, WakeInv, LatePending
<1>11. CASE BeginFunctors
  BY <1>11 DEF BeginFunctors, WakeInv
<1>12. CASE SwapFunctors
  BY <1>12 DEF SwapFunctors, WakeInv, LatePending
<1>13. CASE RunFunctor
  BY <1>13, FrameWakeup DEF RunFunctor, WakeInv, LatePending
<1>14. CASE EndFunctors
  <2>1. step[Loop] = "idle"
    BY <1>14, LoopIsAThread DEF EndFunctors, ControlInv, TypeOK
  <2> QED
    BY <1>14, <2>1, FrameWakeup DEF EndFunctors, WakeInv, LatePending
<1>15. ASSUME NEW c \in Channels, EventArrives(c) PROVE WakeInv'
  BY <1>15, FrameWakeup DEF EventArrives, WakeInv, LatePending, loopVars
<1>16. CASE UNCHANGED vars
  BY <1>16, FrameWakeup DEF vars, WakeInv, LatePending
<1> QED
  BY <1>1, <1>2, <1>3, <1>4, <1>5, <1>6, <1>7, <1>8, <1>9, <1>10, <1>11,
     <1>12, <1>13, <1>14, <1>15, <1>16 DEF Next, LoopStep

(* The invariant that rules out a lost wakeup holds in every state: the     *)
(* flag, the swap and the order of push and wakeup (EventLoop.cc:103-150).  *)
THEOREM LoopInvCorrect == Spec => []LoopInv
<1>1. Init => LoopInv
  <2> SUFFICES ASSUME Init PROVE LoopInv
    OBVIOUS
  <2>1. /\ pc = "setup" /\ user /\ ~calling
        /\ running = NoTask /\ functors = <<>> /\ ~LatePending
    BY DEF Init, LatePending
  <2>2. pc \notin {"swap", "run"} /\ (calling = FALSE)
    BY <2>1 DEF Init
  <2>3. calling <=> (pc \in {"swap", "run"})
    BY <2>2
  <2> QED
    BY <2>1, <2>3 DEF LoopInv, ControlInv, WakeInv
<1>2. TypeOK /\ LoopInv /\ [Next]_vars => LoopInv'
  <2> SUFFICES ASSUME TypeOK, LoopInv, [Next]_vars PROVE LoopInv'
    OBVIOUS
  <2>1. ControlInv' /\ WakeInv'
    BY ControlStep, WakeStep DEF LoopInv
  <2> QED
    BY <2>1 DEF LoopInv
<1> QED
  BY <1>1, <1>2, TypeCorrect, PTL DEF Spec

(* However many threads queue functors, the loop never sleeps in poll on a  *)
(* functor without a wakeup on its way (queueInLoop, EventLoop.cc:103-114). *)
THEOREM NoLostWakeupCorrect == Spec => []NoLostWakeup
<1>1. TypeOK /\ LoopInv => NoLostWakeup
  BY DEF LoopInv, WakeInv, NoLostWakeup
<1> QED
  BY <1>1, TypeCorrect, LoopInvCorrect, PTL

-----------------------------------------------------------------------------
(* The elements of a concatenation are the elements of its parts. *)
LEMMA ConcatElements ==
  ASSUME NEW s \in Seq(Tasks), NEW u \in Seq(Tasks)
  PROVE  /\ s \o u \in Seq(Tasks)
         /\ Range(s \o u) \subseteq Range(s) \cup Range(u)
<1>1. s \o u \in Seq(Tasks) /\ DOMAIN (s \o u) = 1 .. Len(s) + Len(u)
  OBVIOUS
<1>2. ASSUME NEW i \in 1 .. Len(s) + Len(u)
      PROVE  (s \o u)[i] \in Range(s) \cup Range(u)
  <2>1. CASE i <= Len(s)
    BY <2>1 DEF Range
  <2>2. CASE i > Len(s)
    <3>1. i - Len(s) \in DOMAIN u /\ (s \o u)[i] = u[i - Len(s)]
      BY <2>2
    <3> QED
      BY <3>1 DEF Range
  <2> QED
    BY <2>1, <2>2
<1> QED
  BY <1>1, <1>2 DEF Range

(* Appending to the second part appends to the whole. *)
LEMMA ConcatAppend ==
  ASSUME NEW s \in Seq(Tasks), NEW u \in Seq(Tasks), NEW f \in Tasks
  PROVE  s \o Append(u, f) = Append(s \o u, f)
<1> DEFINE l == s \o Append(u, f)
           r == Append(s \o u, f)
<1>1. l \in Seq(Tasks) /\ r \in Seq(Tasks) /\ Len(l) = Len(r)
  OBVIOUS
<1>2. ASSUME NEW i \in 1 .. Len(l) PROVE l[i] = r[i]
  OBVIOUS
<1> QED
  BY <1>1, <1>2

(* Taking the head of the first part takes the head of the whole. *)
LEMMA ConcatHeadTail ==
  ASSUME NEW s \in Seq(Tasks), NEW u \in Seq(Tasks), s # <<>>
  PROVE  /\ s \o u # <<>>
         /\ Head(s \o u) = Head(s)
         /\ Tail(s \o u) = Tail(s) \o u
<1> DEFINE l == Tail(s \o u)
           r == Tail(s) \o u
<1>1. s \o u # <<>> /\ Head(s \o u) = Head(s)
  OBVIOUS
<1>2. l \in Seq(Tasks) /\ r \in Seq(Tasks) /\ Len(l) = Len(r)
  OBVIOUS
<1>3. ASSUME NEW i \in 1 .. Len(l) PROVE l[i] = r[i]
  OBVIOUS
<1> QED
  BY <1>1, <1>2, <1>3

(* The empty sequence is neutral on either side: a swap into an empty round *)
(* does not change the queue of functors.                                   *)
LEMMA ConcatEmpty ==
  ASSUME NEW s \in Seq(Tasks)
  PROVE  <<>> \o s = s /\ s \o <<>> = s
OBVIOUS

(* Every step of the loop or of a caller is a step of the queue of functors *)
(* or leaves it alone: queueInLoop appends, the round takes from the front, *)
(* and the swap of doPendingFunctors neither loses nor reorders anything.   *)
THEOREM ImplementsQueue == Spec => ImplementsTaskQueue
<1>1. Init => TQ!Init
  BY DEF Init, TQ!Init
<1>2. TypeOK /\ LoopInv /\ [Next]_vars => [TQ!Next]_(TQ!vars)
  <2> SUFFICES ASSUME TypeOK, LoopInv, [Next]_vars PROVE [TQ!Next]_(TQ!vars)
    OBVIOUS
  <2> USE DEF TQ!vars
  <2>1. ASSUME NEW t \in AllThreads, NEW f \in Tasks, QueueInLoop(t, f)
        PROVE  TQ!Submit(f)
    <3>1. f \notin Range(functors \o pending)
      BY <2>1, ConcatElements DEF QueueInLoop, TypeOK
    <3>2. functors' \o pending' = Append(functors \o pending, f)
      BY <2>1, ConcatAppend DEF QueueInLoop, TypeOK, loopVars
    <3> QED
      BY <2>1, <3>1, <3>2 DEF TQ!Submit, TQ!Range, Range, QueueInLoop, loopVars
  <2>2. ASSUME NEW t \in AllThreads, Notify(t) \/ Quit(t)
        PROVE  UNCHANGED TQ!vars
    BY <2>2 DEF Notify, Quit, loopVars
  <2>3. ASSUME \/ StartLoop \/ TestQuit \/ PollReady \/ PollTimeout
               \/ HandleWakeup \/ BeginFunctors \/ EndFunctors
        PROVE  UNCHANGED TQ!vars
    BY <2>3 DEF StartLoop, TestQuit, PollReady, PollTimeout, HandleWakeup,
       BeginFunctors, EndFunctors
  <2>4. ASSUME NEW c \in Channels, HandleEvent(c) \/ EventArrives(c)
        PROVE  UNCHANGED TQ!vars
    BY <2>4 DEF HandleEvent, EventArrives, loopVars
  <2>5. CASE CallbackReturns
    BY <2>5 DEF CallbackReturns, TQ!Next, TQ!Finish
  <2>6. CASE SwapFunctors
    <3>1. functors = <<>>
      BY <2>6 DEF SwapFunctors, LoopInv, ControlInv
    <3>2. functors' \o pending' = functors \o pending
      BY <2>6, <3>1, ConcatEmpty DEF SwapFunctors, TypeOK
    <3> QED
      BY <2>6, <3>2 DEF SwapFunctors
  <2>7. CASE RunFunctor
    <3>1. running = NoTask
      BY <2>7 DEF RunFunctor, LoopInv, ControlInv
    <3>2. /\ functors \o pending # <<>>
          /\ running' = Head(functors \o pending)
          /\ functors' \o pending' = Tail(functors \o pending)
      BY <2>7, ConcatHeadTail DEF RunFunctor, TypeOK
    <3> QED
      BY <3>1, <3>2 DEF TQ!Next, TQ!Execute
  <2>8. CASE UNCHANGED vars
    BY <2>8 DEF vars
  <2> QED
    BY <2>1, <2>2, <2>3, <2>4, <2>5, <2>6, <2>7, <2>8
       DEF Next, LoopStep, TQ!Next
<1> QED
  BY <1>1, <1>2, TypeCorrect, LoopInvCorrect, PTL DEF Spec, ImplementsTaskQueue, TQ!Spec
==============================================================================
