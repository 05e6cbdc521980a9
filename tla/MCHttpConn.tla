----------------------------- MODULE MCHttpConn -----------------------------
(* The peers of HttpConn that TLC checks against. *)
EXTENDS HttpConn

\* Every kind but "hello", which may overwrite output that is left over.
MostKinds == AllKinds \ {"hello"}
=============================================================================
