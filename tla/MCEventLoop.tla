---------------------------- MODULE MCEventLoop ----------------------------
(* The instance of EventLoop that TLC checks: three functors, so that one may be  *)
(* running, one swapped and one queued, and two callers, one of which also quits. *)
EXTENDS EventLoop

MCFunctors == {"f1", "f2", "f3"}
MCOwner == "main"
MCThreads == {MCOwner, "peer"}
=============================================================================
