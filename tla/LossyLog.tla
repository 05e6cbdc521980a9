------------------------------ MODULE LossyLog ------------------------------
(***************************************************************************)
(* What the asynchronous log promises to the threads that call LOG: lines  *)
(* reach the file in the order they were accepted, each at most once, and  *)
(* they do reach it while the log is not stopped.  Lines are given up only *)
(* when the backlog is large, and then its oldest part is kept.            *)
(*                                                                         *)
(* A line is its number in the order of acceptance.                        *)
(***************************************************************************)
EXTENDS Naturals, Sequences, FiniteSets

CONSTANTS Overload,   \* how many lines must be waiting before any is given up
          Kept        \* how many of the oldest ones are written all the same

VARIABLES accepted,   \* how many lines were accepted: the next one is accepted + 1
          pending,    \* the lines accepted and not in the file
          file,       \* the lines in the file
          stopped     \* the logging thread has ended

vars == <<accepted, pending, file, stopped>>

\* How many of the lines are older than l.
Older(lines, l) == Cardinality({k \in lines : k < l})

\* The lines, one behind the other, the oldest first.
InOrder(lines) ==
  [i \in 1..Cardinality(lines) |-> CHOOSE l \in lines : Older(lines, l) = i - 1]

Init ==
  /\ accepted = 0
  /\ pending = {}
  /\ file = <<>>
  /\ stopped = FALSE

Accept ==
  /\ accepted' = accepted + 1
  /\ pending' = pending \union {accepted + 1}
  /\ UNCHANGED <<file, stopped>>

\* The oldest pending lines, up to one of them, reach the file.
Write ==
  /\ ~stopped
  /\ \E last \in pending :
       LET oldest == {l \in pending : l <= last}
       IN  /\ file' = file \o InOrder(oldest)
           /\ pending' = pending \ oldest
  /\ UNCHANGED <<accepted, stopped>>

\* The pending lines from one to another are given up.
Drop ==
  /\ ~stopped
  /\ Cardinality(pending) >= Overload
  /\ \E first, last \in pending :
       /\ Older(pending, first) >= Kept
       /\ pending' = pending \ (first..last)
  /\ UNCHANGED <<accepted, file, stopped>>

Stop ==
  /\ ~stopped
  /\ stopped' = TRUE
  /\ UNCHANGED <<accepted, pending, file>>

Next == Accept \/ Write \/ Drop \/ Stop

SafeSpec == Init /\ [][Next]_vars

Spec == SafeSpec /\ WF_vars(Write)
=============================================================================
