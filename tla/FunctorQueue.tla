---------------------------- MODULE FunctorQueue ----------------------------
(***************************************************************************)
(* What deon/net/EventLoop promises to the threads that hand it work: a    *)
(* functor queued by queueInLoop runs on the loop's thread, once, in the   *)
(* order of the queue, and it does run unless the loop is left first.  The *)
(* wakeup descriptor, epoll and the batch that doPendingFunctors swaps out *)
(* are details of EventLoop, which implements this specification.          *)
(***************************************************************************)
EXTENDS Sequences

CONSTANT Functors     \* the callbacks handed to the loop, each at most once

VARIABLES fresh,      \* the functors nobody has handed over yet
          queue,      \* the functors handed over and not run, oldest first
          ran,        \* the functors run so far, oldest first
          closed      \* the loop has been left

vars == <<fresh, queue, ran, closed>>

Init ==
  /\ fresh = Functors
  /\ queue = <<>>
  /\ ran = <<>>
  /\ closed = FALSE

\* Any thread queues f.  A functor queued after the loop was left stays queued.
Post(f) ==
  /\ f \in fresh
  /\ fresh' = fresh \ {f}
  /\ queue' = Append(queue, f)
  /\ UNCHANGED <<ran, closed>>

\* The loop's own thread calls runInLoop(f): f runs at once, ahead of the queue.
RunDirectly(f) ==
  /\ ~closed
  /\ f \in fresh
  /\ fresh' = fresh \ {f}
  /\ ran' = Append(ran, f)
  /\ UNCHANGED <<queue, closed>>

\* The loop's thread runs the oldest queued functor.
Run ==
  /\ ~closed
  /\ queue # <<>>
  /\ ran' = Append(ran, Head(queue))
  /\ queue' = Tail(queue)
  /\ UNCHANGED <<fresh, closed>>

Close ==
  /\ ~closed
  /\ closed' = TRUE
  /\ UNCHANGED <<fresh, queue, ran>>

Next ==
  \/ \E f \in Functors : Post(f) \/ RunDirectly(f)
  \/ Run
  \/ Close

SafeSpec == Init /\ [][Next]_vars

Spec == SafeSpec /\ WF_vars(Run)
=============================================================================
