--------------------------- MODULE MCAsyncLogging ---------------------------
(* The instances of AsyncLogging that TLC checks. *)
EXTENDS AsyncLogging

\* Enough buffers for every `new': each queued one holds Capacity lines.
MCBuf == 1..9
=============================================================================
