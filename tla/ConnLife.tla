------------------------------ MODULE ConnLife ------------------------------
(***************************************************************************)
(* What the server promises of a connection: connections are accepted in   *)
(* the order in which they arrived, each on a descriptor of its own that   *)
(* it keeps for all of its life, and an accepted one is soon watched by    *)
(* its loop, unless a system call fails for it or the loop hangs.          *)
(***************************************************************************)
EXTENDS Naturals

CONSTANTS
  MaxConns,  \* connections are numbered in the order in which they arrive
  Fds        \* the descriptors

Conns == 1..MaxConns

VARIABLES
  status,    \* per connection
  desc       \* per connection: its descriptor, 0 while it has none

vars == <<status, desc>>

Statuses == {"new", "backlog", "accepted", "open", "closed", "lost"}

Init ==
  /\ status = [c \in Conns |-> "new"]
  /\ desc = [c \in Conns |-> 0]

Become(c, from, to) == status[c] = from /\ status' = [status EXCEPT ![c] = to]

Arrive(c) ==
  /\ Become(c, "new", "backlog")
  /\ \A d \in 1..(c - 1) : status[d] # "new"
  /\ UNCHANGED desc

TakeFd(c) == \E f \in Fds : (\A d \in Conns : desc[d] # f) /\ desc' = [desc EXCEPT ![c] = f]

\* The first of the backlog is accepted, or the descriptor it got is lost with it.
Accept(c) ==
  /\ \A d \in 1..(c - 1) : status[d] # "backlog"
  /\ Become(c, "backlog", "accepted") \/ Become(c, "backlog", "open") \/ Become(c, "backlog", "lost")
  /\ TakeFd(c)

Open(c) == Become(c, "accepted", "open") /\ UNCHANGED desc

\* Connections are left open and unattended: one that its loop could not register, or all
\* that wait for a loop when it hangs.
Lose ==
  /\ status' \in [Conns -> Statuses]
  /\ \A c \in Conns : status'[c] = status[c] \/ (status[c] \in {"accepted", "open"} /\ status'[c] = "lost")
  /\ UNCHANGED desc

Close(c) == Become(c, "open", "closed") /\ desc' = [desc EXCEPT ![c] = 0]

Next ==
  \/ Lose
  \/ \E c \in Conns : Arrive(c) \/ Accept(c) \/ Open(c) \/ Close(c)

\* An accepted connection does not stay so.
Settles(c) == []<>(status[c] # "accepted")

SafeSpec == Init /\ [][Next]_vars

Spec == SafeSpec /\ \A c \in Conns : Settles(c)
=============================================================================
