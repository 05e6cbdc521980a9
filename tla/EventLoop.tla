------------------------------ MODULE EventLoop ------------------------------
(***************************************************************************)
(* One I/O thread of deon: the EventLoop object that EventLoopThread's     *)
(* threadFunc builds on its stack, publishes, runs and leaves, and the     *)
(* threads that hand it functors (runInLoop, queueInLoop) or stop it       *)
(* (quit, called by the destructor of EventLoopThread).                    *)
(*                                                                         *)
(* pendingFunctors_ is only touched under mutex_, so a critical section is *)
(* one action; the write to the eventfd that follows it outside the mutex  *)
(* is an action of its own.  I/O events other than the wakeup are an       *)
(* environment choice: their callbacks matter here only because they may   *)
(* call the loop again.                                                    *)
(***************************************************************************)
EXTENDS Naturals, Sequences

CONSTANTS Functors,   \* the callbacks handed to the loop, each at most once
          Threads,    \* the threads other than the loop's own that call it
          Owner       \* the one of them that destroys the EventLoopThread

ASSUME OwnerAssumption == Owner \in Threads

VARIABLES
  lpc,        \* where the loop's thread is in threadFunc and loop()
  loopPtr,    \* EventLoopThread::loop_ is set
  quit,       \* quit_
  pending,    \* pendingFunctors_
  functors,   \* the local vector of doPendingFunctors, what is left of it
  active,     \* activeChannels_, what is left to handle of it
  inChannels, \* EpollPoller::channels_ has an entry for the wakeup descriptor
  inEpoll,    \* the wakeup descriptor is in the epoll interest list
  ready,      \* the wakeup descriptor is on the epoll ready list
  efd,        \* the counter of the eventfd
  pc,         \* what each other thread is in the middle of
  fresh,      \* history: the functors nobody has handed over yet
  ran         \* history: the functors that ran, oldest first

vars == <<lpc, loopPtr, quit, pending, functors, active, inChannels, inEpoll,
          ready, efd, pc, fresh, ran>>

loopVars == <<functors, active, inChannels, inEpoll>>   \* private to the loop's thread

Init ==
  /\ lpc = "construct"
  /\ loopPtr = FALSE
  /\ quit = FALSE
  /\ pending = <<>>
  /\ functors = <<>>
  /\ active = {}
  /\ inChannels = FALSE
  /\ inEpoll = FALSE
  /\ ready = FALSE
  /\ efd = 0
  /\ pc = [t \in Threads |-> "idle"]
  /\ fresh = Functors
  /\ ran = <<>>

-----------------------------------------------------------------------------
(* epoll and the eventfd, edge-triggered                                   *)

\* A write to the eventfd; a registered descriptor becomes ready on each write.
WriteEventfd ==
  /\ efd' = efd + 1
  /\ ready' = (ready \/ inEpoll)

\* epoll_wait reports the wakeup descriptor: on the ready list and readable.
WakeupReady == ready /\ efd > 0

\* EpollPoller::addChannel of the wakeup channel.  EPOLL_CTL_ADD of a descriptor
\* that is registered fails, and update() then erases the entry just written.
AddWakeupChannel ==
  /\ inChannels' = ~inEpoll
  /\ inEpoll' = TRUE
  /\ ready' = IF inEpoll THEN ready ELSE efd > 0

-----------------------------------------------------------------------------
(* The loop's thread                                                       *)

\* EventLoop::EventLoop
Construct ==
  /\ lpc = "construct"
  /\ AddWakeupChannel
  /\ lpc' = "publish"
  /\ UNCHANGED <<loopPtr, quit, pending, functors, active, efd, pc, fresh, ran>>

\* threadFunc sets loop_ and notifies startLoop.
Publish ==
  /\ lpc = "publish"
  /\ loopPtr' = TRUE
  /\ lpc' = "enter"
  /\ UNCHANGED <<quit, pending, loopVars, ready, efd, pc, fresh, ran>>

\* The first statements of loop().
EnterLoop ==
  /\ lpc = "enter"
  /\ quit' = FALSE
  /\ lpc' = "check"
  /\ UNCHANGED <<loopPtr, pending, loopVars, ready, efd, pc, fresh, ran>>

\* while(!quit_)
CheckQuit ==
  /\ lpc = "check"
  /\ lpc' = IF quit THEN "leave" ELSE "poll"
  /\ UNCHANGED <<loopPtr, quit, pending, loopVars, ready, efd, pc, fresh, ran>>

\* epoll_wait returns and fillActiveChannels collects the channels it knows.
\* io says whether another descriptor had an event; neither is a timeout (or an
\* error), which leaves activeChannels_ empty.
Poll(io) ==
  /\ lpc = "poll"
  /\ active' = (IF WakeupReady /\ inChannels THEN {"wakeup"} ELSE {})
                 \union (IF io THEN {"io"} ELSE {})
  /\ ready' = FALSE
  /\ lpc' = "handle"
  /\ UNCHANGED <<loopPtr, quit, pending, functors, inChannels, inEpoll, efd, pc, fresh, ran>>

PollWakeup == WakeupReady /\ \E io \in BOOLEAN : Poll(io)
PollOther  == ~WakeupReady /\ \E io \in BOOLEAN : Poll(io)

\* Mutant: the eventfd counts down one per read and is read on every round.
HandleReadEachRound ==
  /\ lpc = "handle"
  /\ efd' = efd - 1
  /\ lpc' = "register"
  /\ UNCHANGED <<loopPtr, quit, pending, loopVars, ready, pc, fresh, ran>>

\* The read callback of the wakeup channel: reading an eventfd resets its counter.
HandleRead ==
  /\ lpc = "handle"
  /\ "wakeup" \in active
  /\ efd' = 0
  /\ lpc' = "register"
  /\ UNCHANGED <<loopPtr, quit, pending, loopVars, ready, pc, fresh, ran>>

\* The register callback of the wakeup channel.
HandleRegister ==
  /\ lpc = "register"
  /\ AddWakeupChannel
  /\ active' = active \ {"wakeup"}
  /\ lpc' = "handle"
  /\ UNCHANGED <<loopPtr, quit, pending, functors, efd, pc, fresh, ran>>

\* Channel::handleEvents of any other channel calls its callbacks.
HandleIo ==
  /\ lpc = "handle"
  /\ "io" \in active
  /\ active' = active \ {"io"}
  /\ lpc' = "callback"
  /\ UNCHANGED <<loopPtr, quit, pending, functors, inChannels, inEpoll, ready, efd,
                 pc, fresh, ran>>

\* Mutant: the batch is a copy, pendingFunctors_ keeps what it holds.
CopyFunctors ==
  /\ lpc = "handle"
  /\ active = {}
  /\ functors' = pending
  /\ lpc' = "run"
  /\ UNCHANGED <<loopPtr, quit, pending, active, inChannels, inEpoll, ready, efd, pc, fresh, ran>>

\* The critical section of doPendingFunctors.
SwapFunctors ==
  /\ lpc = "handle"
  /\ active = {}
  /\ functors' = pending
  /\ pending' = <<>>
  /\ lpc' = "run"
  /\ UNCHANGED <<loopPtr, quit, active, inChannels, inEpoll, ready, efd, pc, fresh, ran>>

RunFunctor ==
  /\ lpc = "run"
  /\ functors # <<>>
  /\ ran' = Append(ran, Head(functors))
  /\ functors' = Tail(functors)
  /\ lpc' = "functor"
  /\ UNCHANGED <<loopPtr, quit, pending, active, inChannels, inEpoll, ready, efd, pc, fresh>>

\* A callback or a functor returns to the loop.
Return ==
  /\ \/ lpc = "callback" /\ lpc' = "handle"
     \/ lpc = "functor" /\ lpc' = "run"
  /\ UNCHANGED <<loopPtr, quit, pending, loopVars, ready, efd, pc, fresh, ran>>

EndFunctors ==
  /\ lpc = "run"
  /\ functors = <<>>
  /\ lpc' = "check"
  /\ UNCHANGED <<loopPtr, quit, pending, loopVars, ready, efd, pc, fresh, ran>>

\* threadFunc clears loop_ after loop() returned; the EventLoop is destroyed.
LeaveLoop ==
  /\ lpc = "leave"
  /\ loopPtr' = FALSE
  /\ lpc' = "exited"
  /\ UNCHANGED <<quit, pending, loopVars, ready, efd, pc, fresh, ran>>

-----------------------------------------------------------------------------
(* Calls made on the loop's own thread, from a callback or from a functor  *)

InUserCode == lpc \in {"callback", "functor"}

\* runInLoop on the loop's thread calls the functor.
RunInLoopHere(f) ==
  /\ InUserCode
  /\ f \in fresh
  /\ fresh' = fresh \ {f}
  /\ ran' = Append(ran, f)
  /\ UNCHANGED <<lpc, loopPtr, quit, pending, loopVars, ready, efd, pc>>

\* Mutant: callingPendingFunctors_ is not looked at.
QueueInLoopHereSilently(f) ==
  /\ InUserCode
  /\ f \in fresh
  /\ fresh' = fresh \ {f}
  /\ pending' = Append(pending, f)
  /\ UNCHANGED <<lpc, loopPtr, quit, loopVars, ready, efd, pc, ran>>

\* queueInLoop on the loop's thread wakes the loop only while doPendingFunctors
\* runs (callingPendingFunctors_): before that the swap is still to come.
QueueInLoopHere(f) ==
  /\ InUserCode
  /\ f \in fresh
  /\ fresh' = fresh \ {f}
  /\ pending' = Append(pending, f)
  /\ IF lpc = "functor" THEN WriteEventfd ELSE UNCHANGED <<efd, ready>>
  /\ UNCHANGED <<lpc, loopPtr, quit, loopVars, pc, ran>>

QuitHere ==
  /\ InUserCode
  /\ quit' = TRUE
  /\ UNCHANGED <<lpc, loopPtr, pending, loopVars, ready, efd, pc, fresh, ran>>

-----------------------------------------------------------------------------
(* The other threads                                                       *)

\* runInLoop, hence queueInLoop, up to the end of its critical section.
QueueInLoop(t, f) ==
  /\ loopPtr
  /\ pc[t] = "idle"
  /\ f \in fresh
  /\ fresh' = fresh \ {f}
  /\ pending' = Append(pending, f)
  /\ pc' = [pc EXCEPT ![t] = "wakeup"]
  /\ UNCHANGED <<lpc, loopPtr, quit, loopVars, ready, efd, ran>>

\* Mutant: quit() sets the flag and does not wake the loop.
QuitSilently(t) ==
  /\ t = Owner
  /\ pc[t] = "idle"
  /\ loopPtr
  /\ quit' = TRUE
  /\ pc' = [pc EXCEPT ![t] = "join"]
  /\ UNCHANGED <<lpc, loopPtr, pending, loopVars, ready, efd, fresh, ran>>

\* ~EventLoopThread, up to the assignment in quit().
Quit(t) ==
  /\ t = Owner
  /\ pc[t] = "idle"
  /\ loopPtr
  /\ quit' = TRUE
  /\ pc' = [pc EXCEPT ![t] = "quitWakeup"]
  /\ UNCHANGED <<lpc, loopPtr, pending, loopVars, ready, efd, fresh, ran>>

\* wakeup(), after either of the two; the destructor goes on to join.
Wakeup(t) ==
  /\ \/ pc[t] = "wakeup" /\ pc' = [pc EXCEPT ![t] = "idle"]
     \/ pc[t] = "quitWakeup" /\ pc' = [pc EXCEPT ![t] = "join"]
  /\ WriteEventfd
  /\ UNCHANGED <<lpc, loopPtr, quit, pending, loopVars, fresh, ran>>

Join(t) ==
  /\ pc[t] = "join"
  /\ lpc = "exited"
  /\ pc' = [pc EXCEPT ![t] = "joined"]
  /\ UNCHANGED <<lpc, loopPtr, quit, pending, loopVars, ready, efd, fresh, ran>>

-----------------------------------------------------------------------------
\* The steps the loop's thread takes without waiting for anything.
LoopStep ==
  \/ Construct \/ Publish \/ EnterLoop \/ CheckQuit
  \/ HandleRead \/ HandleRegister \/ HandleIo
  \/ SwapFunctors \/ RunFunctor \/ Return \/ EndFunctors \/ LeaveLoop

Next ==
  \/ LoopStep
  \/ PollWakeup \/ PollOther
  \/ QuitHere
  \/ \E f \in Functors : RunInLoopHere(f) \/ QueueInLoopHere(f)
  \/ \E t \in Threads : Quit(t) \/ Wakeup(t) \/ Join(t)
  \/ \E t \in Threads, f \in Functors : QueueInLoop(t, f)

SafeSpec == Init /\ [][Next]_vars

\* The scheduler runs the loop's thread and a thread about to write the eventfd,
\* and epoll_wait returns when the wakeup descriptor is ready.  Nothing is assumed
\* of PollOther: neither I/O nor the 10 s timeout of epoll_wait is relied upon.
Fairness ==
  /\ WF_vars(LoopStep)
  /\ WF_vars(PollWakeup)
  /\ \A t \in Threads : WF_vars(Wakeup(t))

Spec == SafeSpec /\ Fairness

-----------------------------------------------------------------------------
LoopPcs == {"construct", "publish", "enter", "check", "poll", "handle", "register",
            "callback", "run", "functor", "leave", "exited"}

ThreadPcs == {"idle", "wakeup", "quitWakeup", "join", "joined"}

\* The variables of the loop and of its callers keep to their ranges; the eventfd
\* counter is never negative.
TypeOK ==
  /\ lpc \in LoopPcs
  /\ loopPtr \in BOOLEAN
  /\ quit \in BOOLEAN
  /\ pending \in Seq(Functors)
  /\ functors \in Seq(Functors)
  /\ active \in SUBSET {"wakeup", "io"}
  /\ inChannels \in BOOLEAN
  /\ inEpoll \in BOOLEAN
  /\ ready \in BOOLEAN
  /\ efd \in Nat
  /\ pc \in [Threads -> ThreadPcs]
  /\ fresh \in SUBSET Functors
  /\ ran \in Seq(Functors)

WakeupComing(reason) == WakeupReady \/ \E t \in Threads : pc[t] = reason

\* No lost wakeup.  The loop never waits in epoll_wait on a queued functor or on a
\* quit_ that is set unless the event that ends the wait is there already or its
\* caller is about to write it: queueInLoop pushes before it wakes, and the loop
\* reads the eventfd before it swaps the queue.
NoLostWakeup ==
  lpc = "poll" =>
    /\ pending # <<>> => WakeupComing("wakeup")
    /\ quit => WakeupComing("quitWakeup")

\* The queue of an event loop: the swapped batch, then what was queued since.
Queue == INSTANCE FunctorQueue
           WITH queue <- functors \o pending, closed <- lpc \in {"leave", "exited"}

\* The loop runs every queued functor once, in order, and promptly, the fairness of
\* FunctorQueue included.
RunsFunctors == Queue!Spec

\* A quit() made once loop() is entered is obeyed, without help from a timeout.
QuitObeyed ==
  quit /\ lpc \notin {"construct", "publish", "enter"} ~> lpc = "exited"

\* The destructor's quit() makes the I/O thread exit, whenever it comes
\* (EventLoopThread.cpp:18 and :19).
QuitEndsLoop == pc[Owner] = "quitWakeup" ~> lpc = "exited"
=============================================================================
