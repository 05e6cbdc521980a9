-------------------------- MODULE EventLoopProofs --------------------------
(***************************************************************************)
(* What holds of EventLoop for every set of functors and of threads: the   *)
(* types, that no wakeup is lost, and that the loop implements the safety  *)
(* part of FunctorQueue.  One inductive invariant, IInv, carries all three.*)
(***************************************************************************)
EXTENDS EventLoop, SequenceTheorems, TLAPS

\* From the return of loop()'s doPendingFunctors' swap to the next epoll_wait, and
\* before the first epoll_wait, a queued functor has its wakeup there or coming.  In
\* between the wakeup may have been consumed: the swap is then still to come.
WakeupKept ==
  lpc \in {"publish", "enter", "check", "poll", "run", "functor"} =>
    (pending # <<>> => WakeupComing("wakeup"))

QuitKept == lpc = "poll" => (quit => WakeupComing("quitWakeup"))

\* Nobody can call the loop before threadFunc publishes it.
NotPublished == lpc = "construct" => ~loopPtr /\ pending = <<>>

WakeupRegistered == lpc # "construct" => inEpoll

\* The batch is empty outside the loop of doPendingFunctors that runs it.
BatchEmpty == lpc \notin {"run", "functor"} => functors = <<>>

IInv ==
  /\ TypeOK
  /\ NotPublished
  /\ WakeupRegistered
  /\ WakeupKept
  /\ QuitKept
  /\ BatchEmpty

-----------------------------------------------------------------------------
\* EpollPoller::addChannel leaves Boolean flags, whether or not its ADD succeeds.
LEMMA AddTyped ==
  ASSUME TypeOK, AddWakeupChannel
  PROVE  inChannels' \in BOOLEAN /\ inEpoll' \in BOOLEAN /\ ready' \in BOOLEAN
<1>1. inEpoll \in BOOLEAN /\ ready \in BOOLEAN /\ (efd > 0) \in BOOLEAN
  BY DEF TypeOK
<1>2. inChannels' \in BOOLEAN
  BY <1>1, Zenon DEF AddWakeupChannel
<1>3. ready' \in BOOLEAN
  <2>1. CASE inEpoll
    BY <1>1, <2>1, Zenon DEF AddWakeupChannel
  <2>2. CASE ~inEpoll
    BY <1>1, <2>2, Zenon DEF AddWakeupChannel
  <2>3. QED
    BY <2>1, <2>2
<1>4. QED
  BY <1>2, <1>3, Zenon DEF AddWakeupChannel

\* So does a write to the eventfd, and the event it raises is there to be polled.
LEMMA WriteTyped ==
  ASSUME TypeOK, WriteEventfd
  PROVE  efd' \in Nat /\ efd' > 0 /\ ready' \in BOOLEAN /\ (inEpoll => ready')
<1>1. efd' \in Nat /\ efd' > 0
  BY DEF TypeOK, WriteEventfd
<1>2. ready' \in BOOLEAN /\ (inEpoll => ready')
  BY Zenon DEF WriteEventfd
<1>3. QED
  BY <1>1, <1>2

\* The variables keep their types in every step of the loop and of its callers.
LEMMA TypeStep == TypeOK /\ [Next]_vars => TypeOK'
<1> SUFFICES ASSUME TypeOK, [Next]_vars PROVE TypeOK'
  OBVIOUS
<1> USE DEF TypeOK, LoopPcs, ThreadPcs
<1>1. CASE LoopStep
  <2>1. CASE Construct
    BY <2>1, AddTyped DEF Construct, loopVars
  <2>2. CASE Publish \/ EnterLoop \/ CheckQuit
    BY <2>2 DEF Publish, EnterLoop, CheckQuit, loopVars
  <2>3. CASE HandleRead
    BY <2>3 DEF HandleRead, loopVars
  <2>4. CASE HandleRegister
    BY <2>4, AddTyped DEF HandleRegister
  <2>5. CASE HandleIo
    BY <2>5 DEF HandleIo
  <2>6. CASE SwapFunctors
    BY <2>6 DEF SwapFunctors
  <2>7. CASE RunFunctor
    <3>1. Head(functors) \in Functors /\ Tail(functors) \in Seq(Functors)
      BY <2>7, HeadTailProperties DEF RunFunctor
    <3>2. QED
      BY <2>7, <3>1 DEF RunFunctor
  <2>8. CASE Return \/ EndFunctors \/ LeaveLoop
    BY <2>8 DEF Return, EndFunctors, LeaveLoop, loopVars
  <2>9. QED
    BY <1>1, <2>1, <2>2, <2>3, <2>4, <2>5, <2>6, <2>7, <2>8 DEF LoopStep
<1>2. CASE PollWakeup \/ PollOther
  BY <1>2 DEF PollWakeup, PollOther, Poll
<1>3. CASE QuitHere
  BY <1>3 DEF QuitHere, loopVars
<1>4. ASSUME NEW f \in Functors, RunInLoopHere(f) \/ QueueInLoopHere(f)
      PROVE  TypeOK'
  <2>1. CASE RunInLoopHere(f)
    BY <2>1 DEF RunInLoopHere, loopVars
  <2>2. CASE QueueInLoopHere(f)
    <3>1. efd' \in Nat /\ ready' \in BOOLEAN
      BY <2>2, WriteTyped DEF QueueInLoopHere
    <3>2. QED
      BY <2>2, <3>1 DEF QueueInLoopHere, loopVars
  <2>3. QED
    BY <1>4, <2>1, <2>2
<1>5. ASSUME NEW t \in Threads, Quit(t) \/ Wakeup(t) \/ Join(t)
      PROVE  TypeOK'
  <2>1. CASE Quit(t)
    BY <2>1 DEF Quit, loopVars
  <2>2. CASE Wakeup(t)
    <3>1. efd' \in Nat /\ ready' \in BOOLEAN
      BY <2>2, WriteTyped DEF Wakeup
    <3>2. QED
      BY <2>2, <3>1 DEF Wakeup, loopVars
  <2>3. CASE Join(t)
    BY <2>3 DEF Join, loopVars
  <2>4. QED
    BY <1>5, <2>1, <2>2, <2>3
<1>6. ASSUME NEW t \in Threads, NEW f \in Functors, QueueInLoop(t, f)
      PROVE  TypeOK'
  BY <1>6 DEF QueueInLoop, loopVars
<1>7. CASE UNCHANGED vars
  BY <1>7 DEF vars
<1>8. QED
  BY <1>1, <1>2, <1>3, <1>4, <1>5, <1>6, <1>7 DEF Next

-----------------------------------------------------------------------------
\* No step leaves the loop waiting on a functor or on quit_ that nobody announces.
LEMMA IInvInit == Init => IInv
<1> SUFFICES ASSUME Init PROVE IInv
  OBVIOUS
<1>1. TypeOK
  <2>1. lpc \in LoopPcs /\ pc \in [Threads -> ThreadPcs]
    BY DEF Init, LoopPcs, ThreadPcs
  <2>2. <<>> \in Seq(Functors)
    OBVIOUS
  <2>3. QED
    BY <2>1, <2>2 DEF Init, TypeOK
<1>2. NotPublished /\ WakeupRegistered
  BY DEF Init, NotPublished, WakeupRegistered
<1>3. WakeupKept /\ QuitKept /\ BatchEmpty
  BY DEF Init, WakeupKept, QuitKept, BatchEmpty
<1>4. QED
  BY <1>1, <1>2, <1>3 DEF IInv

LEMMA IInvStep == IInv /\ [Next]_vars => IInv'
<1> SUFFICES ASSUME IInv, [Next]_vars PROVE IInv'
  OBVIOUS
<1>t. TypeOK /\ TypeOK'
  BY TypeStep DEF IInv
<1> USE DEF IInv, NotPublished, WakeupRegistered, WakeupKept, QuitKept, BatchEmpty,
            WakeupComing, WakeupReady
<1>1. CASE LoopStep
  <2>1. CASE Construct
    BY <1>t, <2>1 DEF Construct, AddWakeupChannel
  <2>2. CASE Publish \/ EnterLoop \/ CheckQuit
    BY <1>t, <2>2 DEF Publish, EnterLoop, CheckQuit, loopVars
  <2>3. CASE HandleRead
    BY <1>t, <2>3 DEF HandleRead, loopVars
  <2>4. CASE HandleRegister
    BY <1>t, <2>4 DEF HandleRegister, AddWakeupChannel
  <2>5. CASE HandleIo
    BY <1>t, <2>5 DEF HandleIo
  <2>6. CASE SwapFunctors
    BY <1>t, <2>6 DEF SwapFunctors
  <2>7. CASE RunFunctor
    BY <1>t, <2>7 DEF RunFunctor
  <2>8. CASE Return \/ EndFunctors \/ LeaveLoop
    BY <1>t, <2>8 DEF Return, EndFunctors, LeaveLoop, loopVars
  <2>9. QED
    BY <1>1, <2>1, <2>2, <2>3, <2>4, <2>5, <2>6, <2>7, <2>8 DEF LoopStep
<1>2. CASE PollWakeup \/ PollOther
  BY <1>t, <1>2 DEF PollWakeup, PollOther, Poll
<1>3. CASE QuitHere
  BY <1>t, <1>3 DEF QuitHere, InUserCode, loopVars
<1>4. ASSUME NEW f \in Functors, RunInLoopHere(f) \/ QueueInLoopHere(f)
      PROVE  IInv'
  <2>1. CASE RunInLoopHere(f)
    BY <1>t, <2>1 DEF RunInLoopHere, InUserCode, loopVars
  <2>2. CASE QueueInLoopHere(f) /\ lpc = "functor"
    <3>1. efd' > 0 /\ ready'
      BY <1>t, <2>2, WriteTyped DEF QueueInLoopHere
    <3>2. QED
      BY <1>t, <2>2, <3>1 DEF QueueInLoopHere, loopVars
  <2>3. CASE QueueInLoopHere(f) /\ lpc = "callback"
    BY <1>t, <2>3 DEF QueueInLoopHere, loopVars
  <2>4. QED
    BY <1>4, <2>1, <2>2, <2>3 DEF QueueInLoopHere, InUserCode
<1>5. ASSUME NEW t \in Threads, Quit(t) \/ Wakeup(t) \/ Join(t)
      PROVE  IInv'
  <2>1. CASE Quit(t)
    <3>1. WakeupComing("wakeup") => WakeupComing("wakeup")'
      BY <1>t, <2>1 DEF Quit, TypeOK
    <3>2. WakeupComing("quitWakeup")'
      BY <1>t, <2>1 DEF Quit, TypeOK
    <3>3. QED
      BY <1>t, <2>1, <3>1, <3>2 DEF Quit, loopVars
  <2>2. CASE Wakeup(t)
    <3>1. inEpoll => efd' > 0 /\ ready'
      BY <1>t, <2>2, WriteTyped DEF Wakeup
    <3>2. QED
      BY <1>t, <2>2, <3>1 DEF Wakeup, loopVars
  <2>3. CASE Join(t)
    <3>1. ASSUME NEW r \in {"wakeup", "quitWakeup"}
          PROVE  WakeupComing(r) => WakeupComing(r)'
      BY <1>t, <2>3 DEF Join, TypeOK
    <3>2. QED
      BY <1>t, <2>3, <3>1 DEF Join, loopVars
  <2>4. QED
    BY <1>5, <2>1, <2>2, <2>3
<1>6. ASSUME NEW t \in Threads, NEW f \in Functors, QueueInLoop(t, f)
      PROVE  IInv'
  <2>1. WakeupComing("wakeup")'
    BY <1>t, <1>6 DEF QueueInLoop, TypeOK
  <2>2. WakeupComing("quitWakeup") => WakeupComing("quitWakeup")'
    BY <1>t, <1>6 DEF QueueInLoop, TypeOK
  <2>3. QED
    BY <1>t, <1>6, <2>1, <2>2 DEF QueueInLoop, loopVars
<1>7. CASE UNCHANGED vars
  BY <1>t, <1>7 DEF vars
<1>8. QED
  BY <1>1, <1>2, <1>3, <1>4, <1>5, <1>6, <1>7 DEF Next

\* The inductive invariant holds of every behaviour of the loop and its callers.
THEOREM Inductive == SafeSpec => []IInv
BY IInvInit, IInvStep, PTL DEF SafeSpec

\* Type correctness, for every set of functors and of threads.
THEOREM TypeCorrect == SafeSpec => []TypeOK
<1>1. IInv => TypeOK
  BY DEF IInv
<1>2. QED
  BY <1>1, Inductive, PTL

\* The loop never waits on a functor or a quit() without a wakeup there or coming,
\* whatever the number of threads that call it and of functors they queue.
THEOREM WakeupNotLost == SafeSpec => []NoLostWakeup
<1>1. IInv => NoLostWakeup
  BY DEF IInv, NoLostWakeup, WakeupKept, QuitKept
<1>2. QED
  BY <1>1, Inductive, PTL

-----------------------------------------------------------------------------
(* EventLoop implements FunctorQueue *)

\* Facts about the queue seen by FunctorQueue, functors \o pending.
LEMMA PushAtEnd ==
  ASSUME NEW S, NEW a \in Seq(S), NEW b \in Seq(S), NEW x \in S
  PROVE  a \o Append(b, x) = Append(a \o b, x)
<1>1. Append(b, x) = b \o <<x>> /\ Append(a \o b, x) = (a \o b) \o <<x>>
  BY AppendIsConcat, ConcatProperties
<1>2. QED
  BY <1>1, ConcatAssociative

LEMMA PopAtFront ==
  ASSUME NEW S, NEW a \in Seq(S), NEW b \in Seq(S), a # <<>>
  PROVE  /\ a \o b # <<>>
         /\ Head(a \o b) = Head(a)
         /\ Tail(a \o b) = Tail(a) \o b
OBVIOUS

LEMMA RefinesInit == Init => Queue!Init
<1> SUFFICES ASSUME Init PROVE Queue!Init
  OBVIOUS
<1>1. functors \o pending = <<>>
  BY DEF Init
<1>2. QED
  BY <1>1 DEF Init, Queue!Init

\* Every step of the loop or of a caller is a step of the abstract queue or leaves
\* it alone.
LEMMA RefinesStep ==
  IInv /\ [Next]_vars => [Queue!Next]_Queue!vars
<1> SUFFICES ASSUME IInv, [Next]_vars
             PROVE  Queue!Next \/ UNCHANGED Queue!vars
  OBVIOUS
<1> DEFINE q == functors \o pending
           closed == lpc \in {"leave", "exited"}
<1>t. functors \in Seq(Functors) /\ pending \in Seq(Functors)
  BY DEF IInv, TypeOK
<1>s. ASSUME q' = q, fresh' = fresh, ran' = ran, closed' = closed
      PROVE  UNCHANGED Queue!vars
  BY <1>s DEF Queue!vars
<1>p. ASSUME NEW f \in Functors, f \in fresh, fresh' = fresh \ {f}, ran' = ran,
             closed' = closed, functors' = functors, pending' = Append(pending, f)
      PROVE  Queue!Next
  <2>1. q' = Append(q, f)
    BY <1>t, <1>p, PushAtEnd
  <2>2. Queue!Post(f)
    BY <1>p, <2>1 DEF Queue!Post
  <2>3. QED
    BY <2>2 DEF Queue!Next
<1>1. CASE LoopStep
  <2>1. CASE Construct \/ Publish \/ EnterLoop \/ HandleRead \/ HandleRegister \/ HandleIo
               \/ Return \/ EndFunctors \/ LeaveLoop
    BY <2>1, <1>s DEF Construct, Publish, EnterLoop, HandleRead, HandleRegister, HandleIo,
                      Return, EndFunctors, LeaveLoop, loopVars
  <2>2. CASE CheckQuit /\ ~quit
    BY <2>2, <1>s DEF CheckQuit, loopVars
  <2>3. CASE CheckQuit /\ quit
    BY <2>3 DEF CheckQuit, loopVars, Queue!Next, Queue!Close
  <2>4. CASE SwapFunctors
    <3>1. functors = <<>>
      BY <2>4 DEF SwapFunctors, IInv, BatchEmpty
    <3>2. q' = q
      BY <1>t, <2>4, <3>1, ConcatEmptySeq DEF SwapFunctors
    <3>3. QED
      BY <2>4, <3>2, <1>s DEF SwapFunctors
  <2>5. CASE RunFunctor
    <3>1. q # <<>> /\ Head(q) = Head(functors) /\ q' = Tail(q)
      BY <1>t, <2>5, PopAtFront DEF RunFunctor
    <3>2. Queue!Run
      BY <2>5, <3>1 DEF RunFunctor, Queue!Run
    <3>3. QED
      BY <3>2 DEF Queue!Next
  <2>6. QED
    BY <1>1, <2>1, <2>2, <2>3, <2>4, <2>5 DEF LoopStep, CheckQuit, IInv, TypeOK
<1>2. CASE PollWakeup \/ PollOther
  BY <1>2, <1>s DEF PollWakeup, PollOther, Poll
<1>3. CASE QuitHere
  BY <1>3, <1>s DEF QuitHere, loopVars
<1>4. ASSUME NEW f \in Functors, RunInLoopHere(f) \/ QueueInLoopHere(f)
      PROVE  Queue!Next
  <2>1. CASE RunInLoopHere(f)
    <3>1. Queue!RunDirectly(f)
      BY <2>1 DEF RunInLoopHere, InUserCode, loopVars, Queue!RunDirectly
    <3>2. QED
      BY <3>1 DEF Queue!Next
  <2>2. CASE QueueInLoopHere(f)
    BY <2>2, <1>p DEF QueueInLoopHere, loopVars
  <2>3. QED
    BY <1>4, <2>1, <2>2
<1>5. ASSUME NEW t \in Threads, Quit(t) \/ Wakeup(t) \/ Join(t)
      PROVE  UNCHANGED Queue!vars
  BY <1>5, <1>s DEF Quit, Wakeup, Join, loopVars
<1>6. ASSUME NEW t \in Threads, NEW f \in Functors, QueueInLoop(t, f)
      PROVE  Queue!Next
  BY <1>6, <1>p DEF QueueInLoop, loopVars
<1>7. CASE UNCHANGED vars
  BY <1>7, <1>s DEF vars
<1>8. QED
  BY <1>1, <1>2, <1>3, <1>4, <1>5, <1>6, <1>7 DEF Next

\* EventLoop implements the safety part of FunctorQueue: every functor handed over
\* runs at most once and in the order of the queue, for every set of functors and of
\* threads.
THEOREM ImplementsQueue == SafeSpec => Queue!SafeSpec
BY RefinesInit, RefinesStep, Inductive, PTL DEF SafeSpec, Queue!SafeSpec
=============================================================================
