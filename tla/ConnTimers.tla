----------------------------- MODULE ConnTimers -----------------------------
(***************************************************************************)
(* The timers of one I/O loop: the heap of TimerManager, the connections   *)
(* that hold a node of it, and the registry of EpollPoller.                *)
(*                                                                         *)
(* Every event of a connection gives up its node, which stays in the heap  *)
(* without a connection until its time comes, and pushes a new one.  Only  *)
(* TimerManager::handleExpiredEvent pops nodes, and the destructor of a    *)
(* node that still has a connection closes it.  Expiry is computed on a    *)
(* clock of milliseconds that goes back to 0 every Wrap (10^7) of them.    *)
(* A connection whose epoll_ctl failed is not closed by anything: its node *)
(* meets an assertion that fails.                                          *)
(***************************************************************************)
EXTENDS Naturals, FiniteSets

CONSTANTS
  Fds,           \* the descriptors connections get
  ShortTimeout,  \* DEFAULT_EXPIRED_TIME
  LongTimeout,   \* DEFAULT_KEEP_ALIVE_TIME
  Wrap,          \* the period of the clock
  Sweeps,        \* EpollPoller::handleExpired is called (nothing in the program does)
  CtlFails,      \* EPOLL_CTL_ADD and EPOLL_CTL_MOD may fail
  MaxTime,       \* bound: how long the run lasts
  MaxNodes       \* bound: how many nodes are made

ASSUME TimeoutsAssumption == ShortTimeout \in Nat /\ LongTimeout \in Nat
ASSUME WrapAssumption == Wrap \in Nat \ {0}
ASSUME FlagsAssumption == Sweeps \in BOOLEAN /\ CtlFails \in BOOLEAN
ASSUME BoundsAssumption == MaxTime \in Nat /\ MaxNodes \in Nat

VARIABLES
  now,      \* real time
  clock,    \* what gettimeofday() gives, modulo Wrap
  pc,       \* "events", "sweep" in handleExpiredEvent, or "aborted" by an assertion
  heap,     \* timerNodeQueue: nodes with an id, an expiry and their http_ (0: reset)
  made,     \* how many nodes were made
  opened,   \* how many Http objects were made; each is known by its number
  conn,     \* per descriptor: the Http in https_ (0: none), the id of its timer_, its
            \* keepAlive_ and (history) the time of its last event
  channels, \* per descriptor: the Http whose channel is in channels_ (0: none)
  failed    \* history: the Https for which epoll_ctl failed

vars == <<now, clock, pc, heap, made, opened, conn, channels, failed>>

NoConn == [http |-> 0, timer |-> 0, keepAlive |-> FALSE, idleSince |-> 0]

Init ==
  /\ now = 0
  /\ clock \in 0..(Wrap - 1)
  /\ pc = "events"
  /\ heap = {}
  /\ made = 0
  /\ opened = 0
  /\ conn = [f \in Fds |-> NoConn]
  /\ channels = [f \in Fds |-> 0]
  /\ failed = {}

Open(f) == conn[f].http # 0

-----------------------------------------------------------------------------
Timeout(alive) == IF alive THEN LongTimeout ELSE ShortTimeout

\* A node for Http h on descriptor f; nothing takes the sum modulo Wrap.
Node(f, h, alive) ==
  [id |-> made + 1, fd |-> f, http |-> h, expiry |-> clock + Timeout(alive)]

\* Mutant: the old node keeps its connection.
DeleteTimerKept(f) == heap

\* Http::deleteTimer: the node stays in the heap but has no connection any more.
DeleteTimer(f) ==
  {IF n.id = conn[f].timer THEN [n EXCEPT !.http = 0] ELSE n : n \in heap}

\* EpollPoller::addTimer, with f left to Http h.
AddTimer(nodes, f, h, alive) ==
  /\ made < MaxNodes
  /\ made' = made + 1
  /\ heap' = nodes \union {Node(f, h, alive)}
  /\ conn' = [conn EXCEPT ![f] = [http |-> h, timer |-> made + 1, keepAlive |-> alive,
                                  idleSince |-> now]]

\* EpollPoller::update for Http h: a failing EPOLL_CTL_ADD or EPOLL_CTL_MOD takes the
\* channel out of channels_, when its node is in the heap and its Http in https_ already.
Update(f, h) ==
  \/ channels' = [channels EXCEPT ![f] = h] /\ UNCHANGED failed
  \/ CtlFails /\ channels' = [channels EXCEPT ![f] = 0] /\ failed' = failed \union {h}

\* Http::registerHttp on a descriptor that is free.
RegisterHttp(f) ==
  /\ pc = "events"
  /\ ~Open(f)
  /\ opened' = opened + 1
  /\ AddTimer(heap, f, opened + 1, FALSE)
  /\ Update(f, opened + 1)
  /\ UNCHANGED <<now, clock, pc>>

\* An event is handled only by a channel that is in channels_ (fillActiveChannels).
Reported(f) == pc = "events" /\ channels[f] # 0

\* An event, after which handleRegister goes on with the connection.  A request may
\* have asked for Keep-Alive, and nothing takes that back.
HandleRegister(f) ==
  /\ Reported(f)
  /\ \E alive \in {conn[f].keepAlive, TRUE} :
       AddTimer(DeleteTimer(f), f, conn[f].http, alive)
  /\ Update(f, conn[f].http)
  /\ UNCHANGED <<now, clock, pc, opened>>

\* deleteChannel, whose assertions hold: the connection is in neither map any more, and
\* its Http is destroyed.
DeleteChannel(f) ==
  /\ conn' = [conn EXCEPT ![f] = NoConn]
  /\ channels' = [channels EXCEPT ![f] = 0]

\* An event after which handleRegister closes the connection.
HandleClose(f) ==
  /\ Reported(f)
  /\ heap' = DeleteTimer(f)
  /\ DeleteChannel(f)
  /\ UNCHANGED <<now, clock, pc, made, opened, failed>>

\* Mutant: the clock does not go back to 0.
NextClockOn == clock + 1

NextClock == IF clock = Wrap - 1 THEN 0 ELSE clock + 1

Tick ==
  /\ now < MaxTime
  /\ pc # "aborted"
  /\ now' = now + 1
  /\ clock' = NextClock
  /\ UNCHANGED <<pc, heap, made, opened, conn, channels, failed>>

-----------------------------------------------------------------------------
(* TimerManager::handleExpiredEvent                                        *)

Sweep ==
  /\ Sweeps
  /\ pc = "events"
  /\ pc' = "sweep"
  /\ UNCHANGED <<now, clock, heap, made, opened, conn, channels, failed>>

\* Mutant: the comparator of the heap the wrong way round.
IsTopLatest(n) == n \in heap /\ \A m \in heap : m.expiry <= n.expiry

\* TimerCmp makes the queue a heap with the earliest expiry on top.
IsTop(n) == n \in heap /\ \A m \in heap : n.expiry <= m.expiry

\* Mutant: a node is taken for expired one tick before it is.
IsValidLess(n) == clock + 1 < n.expiry

IsValid(n) == clock < n.expiry

\* The assertions of deleteChannel.
Deletable(n) == channels[n.fd] = n.http

\* ~TimerNode: a connection that the node still has is closed.
CloseHttp(n) ==
  \/ n.http = 0 /\ UNCHANGED <<conn, channels>>
  \/ n.http # 0 /\ Deletable(n) /\ DeleteChannel(n.fd)

PopExpired ==
  /\ pc = "sweep"
  /\ \E n \in heap :
       /\ IsTop(n) /\ ~IsValid(n)
       /\ heap' = heap \ {n}
       /\ CloseHttp(n)
  /\ UNCHANGED <<now, clock, pc, made, opened, failed>>

\* Or an assertion of deleteChannel fails, and the process with it.
PopAborts ==
  /\ pc = "sweep"
  /\ \E n \in heap : IsTop(n) /\ ~IsValid(n) /\ n.http # 0 /\ ~Deletable(n)
  /\ pc' = "aborted"
  /\ UNCHANGED <<now, clock, heap, made, opened, conn, channels, failed>>

EndSweep ==
  /\ pc = "sweep"
  /\ \A n \in heap : IsTop(n) => IsValid(n)
  /\ pc' = "events"
  /\ UNCHANGED <<now, clock, heap, made, opened, conn, channels, failed>>

-----------------------------------------------------------------------------
Sweeping == Sweep \/ PopExpired \/ PopAborts \/ EndSweep

Next ==
  \/ \E f \in Fds : RegisterHttp(f) \/ HandleRegister(f) \/ HandleClose(f)
  \/ Tick
  \/ Sweeping

SafeSpec == Init /\ [][Next]_vars

\* Time passes, and a loop that calls handleExpired calls it again and again.
Spec == SafeSpec /\ WF_vars(Tick) /\ WF_vars(Sweeping)

-----------------------------------------------------------------------------
Nodes == [id : Nat, fd : Fds, http : Nat, expiry : Nat]

\* The variables keep to their ranges, and the clock below its period.
TypeOK ==
  /\ now \in Nat
  /\ clock \in 0..(Wrap - 1)
  /\ pc \in {"events", "sweep", "aborted"}
  /\ heap \in SUBSET Nodes
  /\ made \in Nat /\ opened \in Nat
  /\ conn \in [Fds -> [http : Nat, timer : Nat, keepAlive : BOOLEAN, idleSince : Nat]]
  /\ channels \in [Fds -> Nat]
  /\ failed \in SUBSET Nat

\* A node that has a connection has the one of its descriptor, and is the node that
\* connection would give up: it is closed once, also when the descriptor was used before.
NodesAreCurrent ==
  \A n \in heap : n.http # 0 => conn[n.fd].http = n.http /\ conn[n.fd].timer = n.id

\* A node closes its connection past the assertions of deleteChannel, unless epoll_ctl
\* failed for that very connection: then a sweep of the node aborts the process, and
\* nothing else does.
NodesDeletable ==
  /\ \A n \in heap : n.http # 0 => Deletable(n) \/ n.http \in failed
  /\ pc = "aborted" => failed # {}

\* Every open connection has a node in the heap that will close it.
OpenHaveTimer ==
  \A f \in Fds : Open(f) => \E n \in heap : n.fd = f /\ n.http = conn[f].http

\* The heap and the registry agree, in both directions, whatever connections came and went
\* on a descriptor, and however many calls of epoll_ctl failed for others.
RegistryAgrees == NodesAreCurrent /\ NodesDeletable /\ OpenHaveTimer

\* f was idle for its timeout.
Idle(f) == Open(f) /\ now >= conn[f].idleSince + Timeout(conn[f].keepAlive)

\* A sweep closes a connection only if it was idle for all of its timeout, even if the
\* clock went back to 0 meanwhile.
NoEarlyClose ==
  [][pc = "sweep" => \A f \in Fds : Open(f) /\ ~Open(f)' => Idle(f)]_vars

Expired(i) == \E n \in heap : n.id = i /\ ~IsValid(n)

\* A sweep leaves no expired node behind, whatever else is in the heap, unless the clock
\* goes back to 0 first or the sweep aborts.  A node whose expiry is not below Wrap is
\* never expired: this says nothing of it.
ExpiredLeave == \A i \in 1..MaxNodes : Expired(i) ~> ~Expired(i) \/ pc = "aborted"

\* A connection that was idle for its timeout is closed, unless it has another event
\* (README.md:32).
IdleClosed == \A f \in Fds : Idle(f) ~> ~Idle(f)
=============================================================================
