------------------------------- MODULE Startup -------------------------------
(***************************************************************************)
(* How the threads come up: Server::start makes the pool's threads one by  *)
(* one and waits for each to publish its loop, and whichever thread logs   *)
(* first makes the log and its thread under pthread_once.                  *)
(*                                                                         *)
(* All waiting is on a gate: a mutex, a condition variable and a flag set  *)
(* once under the mutex.  The gates are the latch of each Thread, the      *)
(* loop_ of each EventLoopThread and the latch of AsyncLogging.  A call on *)
(* a gate is made of the steps of MutexLock and Condition.                 *)
(***************************************************************************)
EXTENDS Naturals, Sequences

CONSTANTS
  NumThreads,  \* threadNum_
  CreateFails  \* pthread_create may fail

ASSUME NumThreadsAssumption == NumThreads \in Nat
ASSUME CreateFailsAssumption == CreateFails \in BOOLEAN

\* Threads by their tid.  A tid_ or holder_ of Nobody is not set.
Nobody == 0
Main == 1
Pool == 2..(NumThreads + 1)
Log == NumThreads + 2
Threads == Main..Log
Done == Log + 1        \* pthread_once is done

Latch(t) == <<"latch", t>>     \* Thread::latch_ of t
LoopOf(t) == <<"loop", t>>     \* EventLoopThread::loop_ of t
Ready == <<"ready", Log>>      \* AsyncLogging::latch_
Gates == {Latch(t) : t \in Pool \union {Log}} \union {LoopOf(t) : t \in Pool} \union {Ready}

VARIABLES
  step,     \* per thread: where it is in its own function
  k,        \* the thread of the pool that main starts next
  loops,    \* loops_: the threads whose loop was pushed, or Nobody for NULL
  tid,      \* per thread: tid_ of its Thread
  log,      \* per thread: where it is in a LOG
  logged,   \* the threads that logged (bound: each does so once of itself)
  once,     \* once_control_: Nobody, the thread that runs once_init, or Done
  running,  \* AsyncLogging::running_
  failed,   \* history: pthread_create failed
  call,     \* per thread: the gate it calls, what it wants there and where it is
  open,     \* per gate: count_ is 0, or loop_ is set
  owner,    \* per gate: the thread that has its mutex
  holder    \* per gate: holder_ of its mutex

gateVars == <<open, owner, holder>>
logVars == <<log, logged, once, running>>
vars == <<step, k, loops, tid, logVars, failed, call, gateVars>>

Idle == [gate |-> Ready, op |-> "none", at |-> "idle"]

Init ==
  /\ step = [t \in Threads |-> IF t = Main THEN "init" ELSE "none"]
  /\ k = 2
  /\ loops = <<>>
  /\ tid = [t \in Pool \union {Log} |-> Nobody]
  /\ log = [t \in Threads |-> "none"]
  /\ logged = {}
  /\ once = Nobody
  /\ running = FALSE
  /\ failed = FALSE
  /\ call = [t \in Threads |-> Idle]
  /\ open = [g \in Gates |-> FALSE]
  /\ owner = [g \in Gates |-> Nobody]
  /\ holder = [g \in Gates |-> Nobody]

-----------------------------------------------------------------------------
(* A call on a gate                                                        *)

At(t, where) == call[t].at = where

Goto(t, where) == call' = [call EXCEPT ![t].at = where]

\* CountDownLatch::countDown, or the block of threadFunc that sets loop_.
Open(t, g) == call' = [call EXCEPT ![t] = [gate |-> g, op |-> "open", at |-> "lock"]]

\* CountDownLatch::wait, or the block of startLoop.
Wait(t, g) == call' = [call EXCEPT ![t] = [gate |-> g, op |-> "wait", at |-> "lock"]]

\* Mutant: "if" for "while": the condition is not tested again after the wait.
LockNoRetest(t) ==
  LET g == call[t].gate IN
  /\ owner[g] = Nobody
  /\ owner' = [owner EXCEPT ![g] = t]
  /\ \/ At(t, "lock") /\ Goto(t, "assign")
     \/ At(t, "relock") /\ Goto(t, "unassign")
  /\ UNCHANGED <<open, holder>>

\* pthread_mutex_lock, and the same at the end of pthread_cond_wait.
Lock(t) ==
  LET g == call[t].gate IN
  /\ owner[g] = Nobody
  /\ owner' = [owner EXCEPT ![g] = t]
  /\ \/ At(t, "lock") /\ Goto(t, "assign")
     \/ At(t, "relock") /\ Goto(t, "in")
  /\ UNCHANGED <<open, holder>>

AssignHolder(t) ==
  /\ At(t, "assign")
  /\ holder' = [holder EXCEPT ![call[t].gate] = t]
  /\ Goto(t, "in")
  /\ UNCHANGED <<open, owner>>

\* while (...) wait(): pthread_cond_wait gives up the mutex; holder_ stays as it is.
Check(t) ==
  LET g == call[t].gate IN
  /\ At(t, "in") /\ call[t].op = "wait"
  /\ IF open[g]
       THEN Goto(t, "unassign") /\ UNCHANGED owner
       ELSE Goto(t, "asleep") /\ owner' = [owner EXCEPT ![g] = Nobody]
  /\ UNCHANGED <<open, holder>>

\* A thread may wake without a notification.
WakeSpuriously(t) ==
  /\ At(t, "asleep")
  /\ Goto(t, "relock")
  /\ UNCHANGED gateVars

SetOpen(t) ==
  /\ At(t, "in") /\ call[t].op = "open"
  /\ open' = [open EXCEPT ![call[t].gate] = TRUE]
  /\ Goto(t, "notify")
  /\ UNCHANGED <<owner, holder>>

\* notify or notifyAll: a gate has one waiting thread at most.
Notify(t) ==
  /\ At(t, "notify")
  /\ call' = [u \in Threads |->
       IF u = t THEN [call[t] EXCEPT !.at = "unassign"]
       ELSE IF At(u, "asleep") /\ call[u].gate = call[t].gate THEN [call[u] EXCEPT !.at = "relock"]
       ELSE call[u]]
  /\ UNCHANGED gateVars

\* Mutant: the mutex is given up first.
UnlockFirst(t) ==
  LET g == call[t].gate IN
  /\ \/ /\ At(t, "unassign")
        /\ owner' = [owner EXCEPT ![g] = Nobody]
        /\ Goto(t, "unlock")
        /\ UNCHANGED holder
     \/ /\ At(t, "unlock")
        /\ holder' = [holder EXCEPT ![g] = Nobody]
        /\ call' = [call EXCEPT ![t] = Idle]
        /\ UNCHANGED owner
  /\ UNCHANGED open

\* MutexLock::unlock
Unlock(t) ==
  LET g == call[t].gate IN
  /\ \/ /\ At(t, "unassign")
        /\ holder' = [holder EXCEPT ![g] = Nobody]
        /\ Goto(t, "unlock")
        /\ UNCHANGED owner
     \/ /\ At(t, "unlock")
        /\ owner' = [owner EXCEPT ![g] = Nobody]
        /\ call' = [call EXCEPT ![t] = Idle]
        /\ UNCHANGED holder
  /\ UNCHANGED open

GateStep(t) ==
  /\ Lock(t) \/ AssignHolder(t) \/ Check(t) \/ SetOpen(t) \/ Notify(t) \/ Unlock(t)
  /\ UNCHANGED <<step, k, loops, tid, logVars, failed>>

Spurious(t) ==
  WakeSpuriously(t) /\ UNCHANGED <<step, k, loops, tid, logVars, failed>>

-----------------------------------------------------------------------------
(* Server::start on the main thread                                        *)

Free(t) == call[t].at = "idle" /\ log[t] = "none"

Step(t, from, to) == Free(t) /\ step[t] = from /\ step' = [step EXCEPT ![t] = to]

InitDone == Step(Main, "init", "start") /\ UNCHANGED <<k, loops, tid, logVars, failed, call, gateVars>>

\* Thread::start of the next thread of the pool: it waits for the thread to be there, or
\* logs and returns if there is no thread.
StartThread ==
  /\ k \in Pool
  /\ Free(Main) /\ step[Main] = "start"
  /\ \/ /\ step' = [step EXCEPT ![Main] = "assert", ![k] = "tid"]
        /\ Wait(Main, Latch(k))
        /\ UNCHANGED <<log, failed>>
     \/ /\ CreateFails
        /\ step' = [step EXCEPT ![Main] = "startLoop"]
        /\ log' = [log EXCEPT ![Main] = "once"]
        /\ failed' = TRUE
        /\ UNCHANGED call
  /\ UNCHANGED <<k, loops, tid, logged, once, running, gateVars>>

\* assert(tid_ > 0)
AssertTid ==
  Step(Main, "assert", "startLoop") /\ UNCHANGED <<k, loops, tid, logVars, failed, call, gateVars>>

\* startLoop waits for loop_ ...
WaitLoop ==
  /\ Step(Main, "startLoop", "return")
  /\ Wait(Main, LoopOf(k))
  /\ UNCHANGED <<k, loops, tid, logVars, failed, gateVars>>

\* ... and returns it, read again without the mutex.
PushLoop ==
  /\ Step(Main, "return", "start")
  /\ loops' = Append(loops, IF open[LoopOf(k)] THEN k ELSE Nobody)
  /\ k' = k + 1
  /\ UNCHANGED <<tid, logVars, failed, call, gateVars>>

Serve ==
  /\ k \notin Pool
  /\ Step(Main, "start", "serving")
  /\ UNCHANGED <<k, loops, tid, logVars, failed, call, gateVars>>

MainStep == InitDone \/ StartThread \/ AssertTid \/ WaitLoop \/ PushLoop \/ Serve

-----------------------------------------------------------------------------
(* A new thread                                                            *)

\* Mutant: the latch is counted down before tid_ is set.
RunInThreadLate(t) ==
  \/ /\ Step(t, "tid", "latch")
     /\ Open(t, Latch(t))
     /\ UNCHANGED <<k, loops, tid, logVars, failed, gateVars>>
  \/ /\ Step(t, "latch", "func")
     /\ tid' = [tid EXCEPT ![t] = t]
     /\ UNCHANGED <<k, loops, logVars, failed, call, gateVars>>

\* ThreadData::runInThread, up to the call of func_.
RunInThread(t) ==
  \/ /\ Step(t, "tid", "latch")
     /\ tid' = [tid EXCEPT ![t] = t]
     /\ UNCHANGED <<k, loops, logVars, failed, call, gateVars>>
  \/ /\ Step(t, "latch", "func")
     /\ Open(t, Latch(t))
     /\ UNCHANGED <<k, loops, tid, logVars, failed, gateVars>>

\* Mutant: the log's thread does not count its latch down.
ThreadFuncSilent(t) ==
  /\ Step(t, "func", "run")
  /\ IF t = Log THEN UNCHANGED call ELSE Open(t, LoopOf(t))
  /\ UNCHANGED <<k, loops, tid, logVars, failed, gateVars>>

\* threadFunc of an EventLoopThread, with its EventLoop made, or of AsyncLogging.
ThreadFunc(t) ==
  /\ Step(t, "func", "run")
  /\ Open(t, IF t = Log THEN Ready ELSE LoopOf(t))
  /\ UNCHANGED <<k, loops, tid, logVars, failed, gateVars>>

-----------------------------------------------------------------------------
(* LOG                                                                     *)

LogStep(t, from, to) ==
  call[t].at = "idle" /\ log[t] = from /\ log' = [log EXCEPT ![t] = to]

\* A thread logs while it sets up, or when it serves.
BeginLog(t) ==
  /\ t \notin logged
  /\ step[t] \in (IF t = Main THEN {"init", "serving"} ELSE {"func", "run"})
  /\ LogStep(t, "none", "once")
  /\ logged' = logged \union {t}
  /\ UNCHANGED <<step, k, loops, tid, once, running, failed, call, gateVars>>

\* Mutant: a flag that is set at the beginning, and no waiting.
OnceFlag(t) ==
  /\ LogStep(t, "once", IF once = Nobody THEN "new" ELSE "append")
  /\ once' = IF once = Nobody THEN t ELSE once
  /\ UNCHANGED <<step, k, loops, tid, logged, running, failed, call, gateVars>>

\* pthread_once: the first runs once_init, the others wait until it has returned.
Once(t) ==
  /\ once \in {Nobody, Done}
  /\ LogStep(t, "once", IF once = Nobody THEN "new" ELSE "append")
  /\ once' = IF once = Nobody THEN t ELSE once
  /\ UNCHANGED <<step, k, loops, tid, logged, running, failed, call, gateVars>>

\* once_init makes the AsyncLogging, whose start() sets running_ ...
NewLog(t) ==
  /\ LogStep(t, "new", "create")
  /\ running' = TRUE
  /\ UNCHANGED <<step, k, loops, tid, logged, once, failed, call, gateVars>>

\* ... and starts the thread, as StartThread does.  If that fails its LOG is inside
\* once_init.
CreateLog(t) ==
  /\ \/ /\ LogStep(t, "create", "assert")
        /\ step' = [step EXCEPT ![Log] = "tid"]
        /\ Wait(t, Latch(Log))
        /\ UNCHANGED failed
     \/ /\ CreateFails
        /\ LogStep(t, "create", "once")
        /\ failed' = TRUE
        /\ UNCHANGED <<step, call>>
  /\ UNCHANGED <<k, loops, tid, logged, once, running, gateVars>>

\* assert(tid_ > 0), and start() waits for the thread's own latch.
WaitReady(t) ==
  /\ LogStep(t, "assert", "return")
  /\ Wait(t, Ready)
  /\ UNCHANGED <<step, k, loops, tid, logged, once, running, failed, gateVars>>

OnceDone(t) ==
  /\ LogStep(t, "return", "append")
  /\ once' = Done
  /\ UNCHANGED <<step, k, loops, tid, logged, running, failed, call, gateVars>>

\* AsyncLogger_->append, which is in AsyncLogging.
AppendLine(t) ==
  /\ LogStep(t, "append", "none")
  /\ UNCHANGED <<step, k, loops, tid, logged, once, running, failed, call, gateVars>>

LogSteps(t) == Once(t) \/ NewLog(t) \/ CreateLog(t) \/ WaitReady(t) \/ OnceDone(t) \/ AppendLine(t)

-----------------------------------------------------------------------------
ThreadStep(t) ==
  \/ t = Main /\ MainStep
  \/ t # Main /\ (RunInThread(t) \/ ThreadFunc(t))
  \/ LogSteps(t)
  \/ GateStep(t)

Next ==
  \/ \E t \in Threads : ThreadStep(t) \/ Spurious(t)
  \/ \E t \in Threads \ {Log} : BeginLog(t)

SafeSpec == Init /\ [][Next]_vars

\* Each thread is scheduled, and gets a mutex that is free again and again.
Spec == SafeSpec /\ \A t \in Threads : SF_vars(ThreadStep(t))

-----------------------------------------------------------------------------
(* Properties                                                              *)

Steps == {"none", "init", "start", "assert", "startLoop", "return", "serving",
          "tid", "latch", "func", "run"}

Calls == [gate : Gates, op : {"none", "wait", "open"},
          at : {"idle", "lock", "relock", "assign", "in", "asleep", "notify", "unassign", "unlock"}]

\* The variables keep to their ranges.
TypeOK ==
  /\ step \in [Threads -> Steps]
  /\ k \in 2..Log
  /\ loops \in Seq(Pool)
  /\ tid \in [Pool \union {Log} -> Threads \union {Nobody}]
  /\ log \in [Threads -> {"none", "once", "new", "create", "assert", "return", "append"}]
  /\ logged \subseteq Threads
  /\ once \in Threads \union {Nobody, Done}
  /\ running \in BOOLEAN /\ failed \in BOOLEAN
  /\ call \in [Threads -> Calls]
  /\ open \in [Gates -> BOOLEAN]
  /\ owner \in [Gates -> Threads \union {Nobody}]
  /\ holder \in [Gates -> Threads \union {Nobody}]

\* The assertions of Thread::start and of AsyncLogging::threadFunc hold: a thread whose
\* start() returns has its tid, and the log's thread finds running_ set.
AssertsHold ==
  /\ step[Main] = "assert" /\ call[Main].at = "idle" => tid[k] = k
  /\ \A t \in Threads : log[t] = "assert" /\ call[t].at = "idle" => tid[Log] = Log
  /\ step[Log] = "func" => running

\* Whatever one thread uses of another is there by then.  Every loop that getNextLoop may
\* return is one that its thread has made, all of them when the server takes connections,
\* and whoever appends to the log finds it started, though another thread may have begun to
\* make it: AsyncLogging's model begins where start() returned.
UsedWhenMade ==
  /\ \A i \in 1..Len(loops) : loops[i] = i + 1 /\ step[loops[i]] = "run"
  /\ step[Main] = "serving" => Len(loops) = NumThreads
  /\ \A t \in Threads : log[t] = "append" => open[Ready] /\ once = Done

AsleepAt(t, g) == call[t].gate = g /\ call[t].at \in {"asleep", "relock"}

\* holder_ tells the truth to a thread that asks, in spite of Condition::wait, which gives
\* up and takes the mutex behind its back: it names a thread only while that thread owns
\* the mutex or sleeps, so that isLockedByThisThread() is never true for a thread without
\* the mutex, and ~MutexLock finds it 0 on a mutex that is not in use.
HolderTrue ==
  \A g \in Gates : holder[g] # Nobody => owner[g] = holder[g] \/ AsleepAt(holder[g], g)

\* The server comes up and no LOG is left hanging, whatever the order of the threads and
\* whichever logs first, if pthread_create works.
ComesUp ==
  /\ <>(step[Main] = "serving" \/ failed)
  /\ \A t \in Threads : log[t] # "none" ~> log[t] = "none" \/ failed
=============================================================================
