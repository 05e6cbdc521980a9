---------------------------- MODULE MCConnTimers ----------------------------
(* Two descriptors whose connections come and go while the clock wraps around. *)
EXTENDS ConnTimers

MCFds == {"fd1", "fd2"}
=============================================================================
