------------------------- MODULE EventLoopThreadPool -------------------------
(* The start of the I/O threads of a TcpServer: EventLoopThreadPool::start    *)
(* makes one EventLoopThread after the other; its startLoop waits for the     *)
(* thread to be there (Thread, CountDownLatch) and for the address of the     *)
(* EventLoop on that thread's stack.                                          *)
EXTENDS Integers, Sequences

CONSTANT MaxThreads  \* bound: the I/O threads of a pool

ASSUME MaxThreadsAssumption == MaxThreads \in Nat

(* Loops as addresses: those of the threads, the one of the main thread and  *)
(* nullptr.                                                                   *)
Null == 0
Threads == 1 .. MaxThreads
baseLoop == MaxThreads + 1

VARIABLES
  numThreads_, \* as setThreadNum left it
  main,     \* the main thread: "start", in "latch" or "cond", "serving" when it listens
  asleep,   \* the condition variable it sleeps on: "no", "latch", "cond"
  loops_,   \* loops_ of the pool
  thread,   \* each I/O thread: "none", "born", "counted", "built", "published", "looping"
  count,    \* count_ of its latch
  loop_     \* loop_ of its EventLoopThread

poolVars == <<numThreads_, main, asleep, loops_, thread, count, loop_>>

PoolInit ==
  /\ numThreads_ \in {0, MaxThreads}
  /\ main = "start" /\ asleep = "no" /\ loops_ = <<>>
  /\ thread = [i \in Threads |-> "none"]
  /\ count = [i \in Threads |-> 1]
  /\ loop_ = [i \in Threads |-> Null]

(* The thread that start() is at. *)
current == Len(loops_) + 1

(* Mutant of Notified: nobody is told. *)
NotifiedNobody(cond, i) == asleep

(* Thread i notifies a condition variable of its own EventLoopThread. *)
Notified(cond, i) == IF asleep = cond /\ current = i THEN "no" ELSE asleep

(* Thread::start creates the std::thread. *)
StartThread ==
  /\ main = "start" /\ current <= numThreads_
  /\ main' = "latch"
  /\ thread' = [thread EXCEPT ![current] = "born"]
  /\ UNCHANGED <<numThreads_, asleep, loops_, count, loop_>>

(* CountDownLatch::wait, one turn of its loop. *)
LatchWait ==
  /\ main = "latch" /\ asleep = "no"
  /\ IF count[current] > 0 THEN asleep' = "latch" /\ main' = main
                           ELSE main' = "cond" /\ asleep' = asleep
  /\ UNCHANGED <<numThreads_, loops_, thread, count, loop_>>

(* Mutant of Published: startLoop does not wait for the loop. *)
PublishedOrNot(i) == TRUE

(* The predicate of the wait in startLoop. *)
Published(i) == loop_[i] # Null

(* EventLoopThread::startLoop, one turn of the wait; then push_back. *)
LoopWait ==
  /\ main = "cond" /\ asleep = "no"
  /\ IF Published(current)
     THEN loops_' = Append(loops_, loop_[current]) /\ main' = "start" /\ asleep' = asleep
     ELSE asleep' = "cond" /\ UNCHANGED <<loops_, main>>
  /\ UNCHANGED <<numThreads_, thread, count, loop_>>

(* A condition variable may wake its waiter for no reason. *)
SpuriousWakeup ==
  /\ asleep # "no" /\ asleep' = "no"
  /\ UNCHANGED <<numThreads_, main, loops_, thread, count, loop_>>

(* The new thread knows its tid and counts the latch down. *)
CountDown(i) ==
  /\ thread[i] = "born"
  /\ thread' = [thread EXCEPT ![i] = "counted"]
  /\ count' = [count EXCEPT ![i] = @ - 1]
  /\ asleep' = IF count'[i] = 0 THEN Notified("latch", i) ELSE asleep
  /\ UNCHANGED <<numThreads_, main, loops_, loop_>>

(* threadFunc constructs its EventLoop and calls the init callback. *)
BuildLoop(i) ==
  /\ thread[i] = "counted"
  /\ thread' = [thread EXCEPT ![i] = "built"]
  /\ UNCHANGED <<numThreads_, main, asleep, loops_, count, loop_>>

(* threadFunc publishes the loop and notifies, under mutex_. *)
Publish(i) ==
  /\ thread[i] = "built"
  /\ thread' = [thread EXCEPT ![i] = "published"]
  /\ loop_' = [loop_ EXCEPT ![i] = i]
  /\ asleep' = Notified("cond", i)
  /\ UNCHANGED <<numThreads_, main, loops_, count>>

(* threadFunc has let go of mutex_ and calls loop(): the main thread may     *)
(* have the address, and even connections for the loop, long before that.     *)
EnterLoop(i) ==
  /\ thread[i] = "published"
  /\ thread' = [thread EXCEPT ![i] = "looping"]
  /\ UNCHANGED <<numThreads_, main, asleep, loops_, count, loop_>>

(* TcpServer::start goes on to listen, and main to loop(). *)
Listen ==
  /\ main = "start" /\ current > numThreads_
  /\ main' = "serving"
  /\ UNCHANGED <<numThreads_, asleep, loops_, thread, count, loop_>>

PoolMain == StartThread \/ LatchWait \/ LoopWait \/ Listen
PoolThread(i) == CountDown(i) \/ BuildLoop(i) \/ Publish(i) \/ EnterLoop(i)
PoolNext == PoolMain \/ SpuriousWakeup \/ \E i \in Threads : PoolThread(i)

(* getNextLoop: the loop for the n-th connection and the index for the next. *)
getNextLoop(next) == IF loops_ = <<>> THEN baseLoop ELSE loops_[next + 1]

nextAfter(next) == IF loops_ = <<>> \/ next + 1 >= Len(loops_) THEN 0 ELSE next + 1
==============================================================================
