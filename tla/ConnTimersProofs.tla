-------------------------- MODULE ConnTimersProofs --------------------------
(***************************************************************************)
(* The registry and the heap agree, and no sweep closes a connection       *)
(* early, for every number of descriptors, all timeouts and every period   *)
(* of the clock, whichever calls of epoll_ctl fail.                        *)
(***************************************************************************)
EXTENDS ConnTimers, TLAPS

\* Nodes are told apart by their ids.
UniqueIds ==
  /\ \A n \in heap : n.id <= made
  /\ \A m, n \in heap : m.id = n.id => m = n

\* The expiry of a node that has a connection is late enough on the clock: the clock may
\* have fallen behind real time since it was computed, but never runs ahead of it.
ExpiryLate ==
  \A n \in heap : n.http # 0 =>
    clock + (conn[n.fd].idleSince + Timeout(conn[n.fd].keepAlive)) <= now + n.expiry

\* A channel in channels_ is that of the Http in https_, and it is there but for the Https
\* whose epoll_ctl failed.
MapsMatch ==
  \A f \in Fds :
    /\ channels[f] # 0 => channels[f] = conn[f].http
    /\ Open(f) => channels[f] # 0 \/ conn[f].http \in failed

Aborted == pc = "aborted" => failed # {}

NodesInv == UniqueIds /\ NodesAreCurrent /\ OpenHaveTimer /\ ExpiryLate

Inv == TypeOK /\ NodesInv /\ MapsMatch /\ Aborted

LEMMA TimeoutNat == \A alive : Timeout(alive) \in Nat
BY TimeoutsAssumption DEF Timeout

LEMMA NodeFields ==
  ASSUME NEW f, NEW h, NEW alive
  PROVE  /\ Node(f, h, alive).id = made + 1
         /\ Node(f, h, alive).fd = f
         /\ Node(f, h, alive).http = h
         /\ Node(f, h, alive).expiry = clock + Timeout(alive)
BY DEF Node

LEMMA NodeType ==
  ASSUME TypeOK, NEW f \in Fds, NEW h \in Nat, NEW alive
  PROVE  Node(f, h, alive) \in Nodes
<1>1. Timeout(alive) \in Nat /\ clock \in Nat /\ made \in Nat
  BY TimeoutNat, WrapAssumption DEF TypeOK
<1> QED
  BY <1>1 DEF Node, Nodes

\* What deleteTimer does to an open connection's nodes: each node is an old one, the
\* same but for the connection of f that it lost.
LEMMA DeletedNodes ==
  ASSUME Inv, NEW f \in Fds, NEW m \in DeleteTimer(f)
  PROVE  \E n \in heap :
           /\ m \in Nodes /\ n \in Nodes
           /\ m.id = n.id /\ m.fd = n.fd /\ m.expiry = n.expiry
           /\ m.http # 0 => m = n
           /\ n.id = conn[f].timer => m = [n EXCEPT !.http = 0]
           /\ n.id # conn[f].timer => m = n
<1>1. PICK n \in heap : m = IF n.id = conn[f].timer THEN [n EXCEPT !.http = 0] ELSE n
  BY DEF DeleteTimer
<1>2. n \in Nodes
  BY DEF Inv, NodesInv, TypeOK
<1> QED
  BY <1>1, <1>2 DEF Nodes

\* After deleteTimer no node is left with the connection of f.
LEMMA DeletedIsFree ==
  ASSUME Inv, NEW f \in Fds, NEW m \in DeleteTimer(f), m.http # 0
  PROVE  m \in heap /\ m.fd # f
<1>1. PICK n \in heap :
        /\ m \in Nodes /\ n \in Nodes
        /\ m.http # 0 => m = n
        /\ n.id = conn[f].timer => m = [n EXCEPT !.http = 0]
  BY DeletedNodes
<1>2. m = n
  BY <1>1
<1>3. n.id # conn[f].timer
  BY <1>1, <1>2 DEF Nodes
<1> QED
  BY <1>2, <1>3 DEF Inv, NodesInv, NodesAreCurrent

\* The node of another open connection is not touched.
LEMMA OthersKept ==
  ASSUME Inv, NEW f \in Fds, Open(f), NEW n \in heap, n.fd # f
  PROVE  n \in DeleteTimer(f)
<1>1. PICK k \in heap : k.fd = f /\ k.http = conn[f].http
  BY DEF Inv, NodesInv, OpenHaveTimer
<1>2. k.id = conn[f].timer
  BY <1>1 DEF Inv, NodesInv, NodesAreCurrent, Open
<1>3. n.id # conn[f].timer
  BY <1>1, <1>2 DEF Inv, NodesInv, UniqueIds
<1> QED
  BY <1>3 DEF DeleteTimer

LEMMA DeletedIds ==
  ASSUME Inv, NEW f \in Fds
  PROVE  /\ DeleteTimer(f) \in SUBSET Nodes
         /\ \A n \in DeleteTimer(f) : n.id <= made
         /\ \A m, n \in DeleteTimer(f) : m.id = n.id => m = n
<1>1. ASSUME NEW m \in DeleteTimer(f), NEW n \in DeleteTimer(f), m.id = n.id
      PROVE  m = n
  <2>1. PICK k \in heap :
          /\ m.id = k.id
          /\ k.id = conn[f].timer => m = [k EXCEPT !.http = 0]
          /\ k.id # conn[f].timer => m = k
    BY DeletedNodes
  <2>2. PICK l \in heap :
          /\ n.id = l.id
          /\ l.id = conn[f].timer => n = [l EXCEPT !.http = 0]
          /\ l.id # conn[f].timer => n = l
    BY DeletedNodes
  <2>3. k = l
    BY <1>1, <2>1, <2>2 DEF Inv, NodesInv, UniqueIds
  <2> QED
    BY <2>1, <2>2, <2>3
<1>2. \A n \in DeleteTimer(f) : n \in Nodes /\ n.id <= made
  BY DeletedNodes DEF Inv, NodesInv, UniqueIds
<1> QED
  BY <1>1, <1>2

-----------------------------------------------------------------------------
\* addTimer keeps the invariant if it is given nodes of the old heap none of which has
\* the connection of f, and all nodes of the other connections.
LEMMA AddTimerInv ==
  ASSUME Inv, NEW f \in Fds, NEW h \in Nat \ {0}, NEW alive \in BOOLEAN, NEW nodes,
         nodes \in SUBSET Nodes,
         \A n \in nodes : n.id <= made,
         \A m, n \in nodes : m.id = n.id => m = n,
         \A n \in nodes : n.http # 0 => n \in heap /\ n.fd # f,
         \A n \in heap : n.http # 0 /\ n.fd # f => n \in nodes,
         AddTimer(nodes, f, h, alive), Update(f, h), pc = "events",
         UNCHANGED <<now, clock, pc>>, opened' \in Nat
  PROVE  Inv'
<1> DEFINE new == Node(f, h, alive)
           c == [http |-> h, timer |-> made + 1, keepAlive |-> alive, idleSince |-> now]
<1>1. /\ heap' = nodes \union {new} /\ made' = made + 1
      /\ conn' = [conn EXCEPT ![f] = c]
  BY DEF AddTimer
<1>2. new \in Nodes
  BY NodeType DEF Inv, NodesInv
<1>3. /\ new.id = made + 1 /\ new.fd = f /\ new.http = h
      /\ new.expiry = clock + Timeout(alive)
  BY NodeFields
<1>4. /\ made \in Nat /\ now \in Nat /\ clock \in Nat
      /\ conn \in [Fds -> [http : Nat, timer : Nat, keepAlive : BOOLEAN, idleSince : Nat]]
  BY WrapAssumption DEF Inv, NodesInv, TypeOK
<1>5. conn'[f] = c /\ \A g \in Fds : g # f => conn'[g] = conn[g]
  BY <1>1, <1>4
<1> HIDE DEF new
<1>5a. /\ channels' \in [Fds -> Nat] /\ failed' \in SUBSET Nat /\ failed \subseteq failed'
       /\ channels'[f] = h \/ (channels'[f] = 0 /\ h \in failed')
       /\ \A g \in Fds : g # f => channels'[g] = channels[g]
  <2>1. channels \in [Fds -> Nat] /\ failed \in SUBSET Nat
    BY DEF Inv, TypeOK
  <2>2. CASE channels' = [channels EXCEPT ![f] = h] /\ UNCHANGED failed
    BY <2>1, <2>2
  <2>3. CASE channels' = [channels EXCEPT ![f] = 0] /\ failed' = failed \union {h}
    BY <2>1, <2>3
  <2> QED
    BY <2>2, <2>3 DEF Update
<1>6. TypeOK'
  <2>1. c \in [http : Nat, timer : Nat, keepAlive : BOOLEAN, idleSince : Nat]
    BY <1>4
  <2> QED
    BY <1>1, <1>2, <1>4, <1>5a, <2>1 DEF Inv, NodesInv, TypeOK
<1>7. UniqueIds'
  <2>1. \A n \in nodes : n.id \in Nat
    BY DEF Nodes
  <2> QED
    BY <1>1, <1>3, <1>4, <2>1 DEF UniqueIds
<1>8. NodesAreCurrent'
  <2> SUFFICES ASSUME NEW n \in heap', n.http # 0
               PROVE  conn'[n.fd].http = n.http /\ conn'[n.fd].timer = n.id
    BY DEF NodesAreCurrent
  <2>1. CASE n = new
    BY <1>3, <1>5, <2>1
  <2>2. CASE n \in nodes
    <3>1. n \in heap /\ n.fd # f /\ n.fd \in Fds
      BY <2>2 DEF Nodes
    <3> QED
      BY <1>5, <3>1 DEF Inv, NodesInv, NodesAreCurrent
  <2> QED
    BY <1>1, <2>1, <2>2
<1>9. OpenHaveTimer'
  <2> SUFFICES ASSUME NEW g \in Fds, conn'[g].http # 0
               PROVE  \E n \in heap' : n.fd = g /\ n.http = conn'[g].http
    BY DEF OpenHaveTimer, Open
  <2>1. CASE g = f
    BY <1>1, <1>3, <1>5, <2>1
  <2>2. CASE g # f
    BY <1>1, <1>5, <2>2 DEF Inv, NodesInv, OpenHaveTimer, Open
  <2> QED
    BY <2>1, <2>2
<1>10. ExpiryLate'
  <2> SUFFICES ASSUME NEW n \in heap', n.http # 0
               PROVE  clock + (conn'[n.fd].idleSince + Timeout(conn'[n.fd].keepAlive))
                        <= now + n.expiry
    BY DEF ExpiryLate
  <2>1. CASE n = new
    BY <1>3, <1>4, <1>5, <2>1, TimeoutNat
  <2>2. CASE n \in nodes
    <3>1. n \in heap /\ n.fd # f /\ n.fd \in Fds
      BY <2>2 DEF Nodes
    <3> QED
      BY <1>5, <3>1 DEF Inv, NodesInv, ExpiryLate
  <2> QED
    BY <1>1, <2>1, <2>2
<1>11. MapsMatch'
  <2>1. conn'[f].http = h
    BY <1>5
  <2> QED
    BY <1>5, <1>5a, <2>1 DEF Inv, MapsMatch, Open
<1>12. Aborted'
  BY DEF Aborted
<1> QED
  BY <1>6, <1>7, <1>8, <1>9, <1>10, <1>11, <1>12 DEF Inv, NodesInv

LEMMA RegisterInv ==
  ASSUME Inv, NEW f \in Fds, RegisterHttp(f)
  PROVE  Inv'
<1>1. opened \in Nat /\ opened + 1 \in Nat \ {0}
  BY DEF Inv, NodesInv, TypeOK
<1>2. \A n \in heap : n.http # 0 => n.fd # f
  BY DEF Inv, NodesInv, NodesAreCurrent, RegisterHttp, Open
<1>3. heap \in SUBSET Nodes
  BY DEF Inv, NodesInv, TypeOK
<1>4. (\A n \in heap : n.id <= made) /\ (\A m, n \in heap : m.id = n.id => m = n)
  BY DEF Inv, NodesInv, UniqueIds
<1>5. /\ AddTimer(heap, f, opened + 1, FALSE) /\ Update(f, opened + 1) /\ pc = "events"
      /\ UNCHANGED <<now, clock, pc>> /\ opened' \in Nat
  BY <1>1 DEF RegisterHttp
<1> QED
  BY <1>1, <1>2, <1>3, <1>4, <1>5, AddTimerInv

LEMMA HandleRegisterInv ==
  ASSUME Inv, NEW f \in Fds, HandleRegister(f)
  PROVE  Inv'
<1>1. PICK alive \in {conn[f].keepAlive, TRUE} :
        AddTimer(DeleteTimer(f), f, conn[f].http, alive)
  BY DEF HandleRegister
<1>2. alive \in BOOLEAN /\ conn[f].http \in Nat \ {0} /\ Open(f)
  BY <1>1 DEF Inv, TypeOK, MapsMatch, HandleRegister, Reported, Open
<1>3. /\ UNCHANGED <<now, clock, pc>> /\ opened' \in Nat
      /\ Update(f, conn[f].http) /\ pc = "events"
  BY DEF HandleRegister, Reported, Inv, TypeOK
<1>4. \A n \in DeleteTimer(f) : n.http # 0 => n \in heap /\ n.fd # f
  BY DeletedIsFree
<1>5. \A n \in heap : n.http # 0 /\ n.fd # f => n \in DeleteTimer(f)
  BY <1>2, OthersKept
<1>6. /\ DeleteTimer(f) \in SUBSET Nodes
      /\ \A n \in DeleteTimer(f) : n.id <= made
      /\ \A m, n \in DeleteTimer(f) : m.id = n.id => m = n
  BY DeletedIds
<1> QED
  BY <1>1, <1>2, <1>3, <1>4, <1>5, <1>6, AddTimerInv

LEMMA CloseInv ==
  ASSUME Inv, NEW f \in Fds, HandleClose(f)
  PROVE  Inv'
<1>1. /\ heap' = DeleteTimer(f) /\ conn' = [conn EXCEPT ![f] = NoConn] /\ Open(f)
      /\ channels' = [channels EXCEPT ![f] = 0]
      /\ UNCHANGED <<now, clock, pc, made, opened, failed>>
  BY DEF HandleClose, DeleteChannel, Reported, Open, Inv, MapsMatch
<1>2. /\ conn \in [Fds -> [http : Nat, timer : Nat, keepAlive : BOOLEAN, idleSince : Nat]]
      /\ channels \in [Fds -> Nat]
  BY DEF Inv, NodesInv, TypeOK
<1>3. conn'[f] = NoConn /\ \A g \in Fds : g # f => conn'[g] = conn[g]
  BY <1>1, <1>2
<1>4. \A n \in heap' : n.http # 0 => n \in heap /\ n.fd # f /\ n.fd \in Fds
  BY <1>1, DeletedIsFree DEF Inv, NodesInv, TypeOK, Nodes
<1>5. TypeOK' /\ UniqueIds'
  BY <1>1, <1>2, DeletedIds DEF Inv, NodesInv, TypeOK, UniqueIds, NoConn
<1>6. NodesAreCurrent'
  BY <1>3, <1>4 DEF Inv, NodesInv, NodesAreCurrent
<1>7. OpenHaveTimer'
  <2> SUFFICES ASSUME NEW g \in Fds, conn'[g].http # 0
               PROVE  \E n \in heap' : n.fd = g /\ n.http = conn'[g].http
    BY DEF OpenHaveTimer, Open
  <2>1. g # f
    BY <1>3 DEF NoConn
  <2> QED
    BY <1>1, <1>3, <2>1, OthersKept DEF Inv, NodesInv, OpenHaveTimer, Open
<1>8. ExpiryLate'
  BY <1>1, <1>3, <1>4 DEF Inv, NodesInv, ExpiryLate
<1>9. MapsMatch' /\ Aborted'
  BY <1>1, <1>2, <1>3 DEF Inv, MapsMatch, Aborted, Open, NoConn
<1> QED
  BY <1>5, <1>6, <1>7, <1>8, <1>9 DEF Inv, NodesInv

LEMMA TickInv == Inv /\ Tick => Inv'
<1> SUFFICES ASSUME Inv, Tick PROVE Inv'
  OBVIOUS
<1>1. /\ now \in Nat /\ clock \in Nat /\ now' = now + 1
      /\ clock' \in 0..(Wrap - 1) /\ clock' <= clock + 1
  BY WrapAssumption DEF Inv, NodesInv, TypeOK, Tick, NextClock
<1>2. UNCHANGED <<pc, heap, made, opened, conn, channels, failed>>
  BY DEF Tick
<1>3. TypeOK'
  BY <1>1, <1>2 DEF Inv, NodesInv, TypeOK
<1>4. UniqueIds' /\ NodesAreCurrent' /\ OpenHaveTimer' /\ MapsMatch' /\ Aborted'
  BY <1>2 DEF Inv, NodesInv, UniqueIds, NodesAreCurrent, OpenHaveTimer, Open, MapsMatch, Aborted
<1>5. ExpiryLate'
  <2> SUFFICES ASSUME NEW n \in heap, n.http # 0
               PROVE  clock' + (conn[n.fd].idleSince + Timeout(conn[n.fd].keepAlive))
                        <= now' + n.expiry
    BY <1>2 DEF ExpiryLate
  <2>1. n.fd \in Fds /\ n.expiry \in Nat
    BY DEF Inv, NodesInv, TypeOK, Nodes
  <2>2. conn[n.fd].idleSince + Timeout(conn[n.fd].keepAlive) \in Nat
    BY <2>1, TimeoutNat DEF Inv, NodesInv, TypeOK
  <2>3. clock + (conn[n.fd].idleSince + Timeout(conn[n.fd].keepAlive)) <= now + n.expiry
    BY DEF Inv, NodesInv, ExpiryLate
  <2> QED
    BY <1>1, <2>1, <2>2, <2>3
<1> QED
  BY <1>3, <1>4, <1>5 DEF Inv, NodesInv

\* A node that is popped takes its connection with it, and only that.
LEMMA PopInv == Inv /\ PopExpired => Inv'
<1> SUFFICES ASSUME Inv, PopExpired PROVE Inv'
  OBVIOUS
<1>1. PICK n \in heap : heap' = heap \ {n} /\ CloseHttp(n)
  BY DEF PopExpired
<1>2. UNCHANGED <<now, clock, pc, made, opened, failed>>
  BY DEF PopExpired
<1>3. conn \in [Fds -> [http : Nat, timer : Nat, keepAlive : BOOLEAN, idleSince : Nat]]
      /\ channels \in [Fds -> Nat] /\ n.fd \in Fds
  BY DEF Inv, NodesInv, TypeOK, Nodes
<1>4. TypeOK' /\ UniqueIds'
  <2>1. NoConn \in [http : Nat, timer : Nat, keepAlive : BOOLEAN, idleSince : Nat]
    BY DEF NoConn
  <2>2. /\ conn' \in [Fds -> [http : Nat, timer : Nat, keepAlive : BOOLEAN, idleSince : Nat]]
        /\ channels' \in [Fds -> Nat]
    BY <1>1, <1>3, <2>1 DEF CloseHttp, DeleteChannel
  <2> QED
    BY <1>1, <1>2, <2>2 DEF Inv, NodesInv, TypeOK, UniqueIds
<1>5. CASE n.http = 0
  <2>1. conn' = conn /\ channels' = channels
    BY <1>1, <1>5 DEF CloseHttp
  <2>2. NodesAreCurrent' /\ ExpiryLate'
    BY <1>1, <1>2, <2>1 DEF Inv, NodesInv, NodesAreCurrent, ExpiryLate
  <2>3. OpenHaveTimer'
    BY <1>1, <1>5, <2>1 DEF Inv, NodesInv, OpenHaveTimer, Open
  <2>4. MapsMatch' /\ Aborted'
    BY <1>2, <2>1 DEF Inv, MapsMatch, Aborted, Open
  <2> QED
    BY <1>4, <2>2, <2>3, <2>4 DEF Inv, NodesInv
<1>6. CASE n.http # 0
  <2>1. /\ conn'[n.fd] = NoConn /\ channels'[n.fd] = 0
        /\ \A g \in Fds : g # n.fd => conn'[g] = conn[g] /\ channels'[g] = channels[g]
    BY <1>1, <1>3, <1>6 DEF CloseHttp, DeleteChannel
  <2>2. \A m \in heap' : m.http # 0 => m \in heap /\ m.fd # n.fd /\ m.fd \in Fds
    <3> SUFFICES ASSUME NEW m \in heap', m.http # 0
                 PROVE  m \in heap /\ m.fd # n.fd /\ m.fd \in Fds
      OBVIOUS
    <3>1. m \in heap /\ m # n /\ m.fd \in Fds
      BY <1>1 DEF Inv, NodesInv, TypeOK, Nodes
    <3>2. ASSUME m.fd = n.fd PROVE m.id = n.id
      BY <1>6, <3>1, <3>2 DEF Inv, NodesInv, NodesAreCurrent
    <3> QED
      BY <3>1, <3>2 DEF Inv, NodesInv, UniqueIds
  <2>3. NodesAreCurrent'
    BY <2>1, <2>2 DEF Inv, NodesInv, NodesAreCurrent
  <2>4. ExpiryLate'
    BY <1>2, <2>1, <2>2 DEF Inv, NodesInv, ExpiryLate
  <2>5. OpenHaveTimer'
    <3> SUFFICES ASSUME NEW g \in Fds, conn'[g].http # 0
                 PROVE  \E m \in heap' : m.fd = g /\ m.http = conn'[g].http
      BY DEF OpenHaveTimer, Open
    <3>1. g # n.fd
      BY <2>1 DEF NoConn
    <3> QED
      BY <1>1, <2>1, <3>1 DEF Inv, NodesInv, OpenHaveTimer, Open
  <2>6. MapsMatch' /\ Aborted'
    BY <1>2, <2>1 DEF Inv, MapsMatch, Aborted, Open, NoConn
  <2> QED
    BY <1>4, <2>3, <2>4, <2>5, <2>6 DEF Inv, NodesInv
<1> QED
  BY <1>5, <1>6

\* A node that cannot close its connection belongs to one whose epoll_ctl failed.
LEMMA DeletableOrFailed ==
  ASSUME Inv, NEW n \in heap, n.http # 0
  PROVE  Deletable(n) \/ n.http \in failed
<1>1. n.fd \in Fds /\ conn[n.fd].http = n.http
  BY DEF Inv, NodesInv, NodesAreCurrent, TypeOK, Nodes
<1> QED
  BY <1>1 DEF Inv, MapsMatch, Open, Deletable

LEMMA AbortInv ==
  ASSUME Inv, PopAborts
  PROVE  Inv'
<1>1. /\ UNCHANGED <<now, clock, heap, made, opened, conn, channels, failed>>
      /\ pc' = "aborted" /\ failed # {}
  BY DeletableOrFailed DEF PopAborts
<1> QED
  BY <1>1 DEF Inv, NodesInv, TypeOK, UniqueIds, NodesAreCurrent, OpenHaveTimer, Open, ExpiryLate,
     MapsMatch, Aborted

LEMMA StepInv == Inv /\ [Next]_vars => Inv'
<1> SUFFICES ASSUME Inv, [Next]_vars PROVE Inv'
  OBVIOUS
<1>1. ASSUME NEW f \in Fds, RegisterHttp(f) \/ HandleRegister(f) \/ HandleClose(f)
      PROVE  Inv'
  BY <1>1, RegisterInv, HandleRegisterInv, CloseInv
<1>2. CASE Sweep \/ EndSweep \/ UNCHANGED vars
  <2>1. /\ UNCHANGED <<now, clock, heap, made, opened, conn, channels, failed>>
        /\ pc' \in {"events", "sweep"} \/ pc' = pc
    BY <1>2 DEF Sweep, EndSweep, vars
  <2> QED
    BY <2>1 DEF Inv, NodesInv, TypeOK, UniqueIds, NodesAreCurrent, OpenHaveTimer, Open, ExpiryLate,
       MapsMatch, Aborted
<1> QED
  BY <1>1, <1>2, TickInv, PopInv, AbortInv DEF Next, Sweeping

\* The inductive invariant holds of every behaviour of timers and connections.
THEOREM Inductive == SafeSpec => []Inv
<1>1. Init => Inv
  BY WrapAssumption
     DEF Init, Inv, NodesInv, TypeOK, UniqueIds, NodesAreCurrent, OpenHaveTimer, Open, ExpiryLate,
         NoConn, MapsMatch, Aborted
<1> QED
  BY <1>1, StepInv, PTL DEF SafeSpec

-----------------------------------------------------------------------------
\* TimerManager, Http::timer_ and EpollPoller's maps keep their types.
THEOREM TypeCorrect == SafeSpec => []TypeOK
<1>1. Inv => TypeOK
  BY DEF Inv, NodesInv
<1> QED
  BY <1>1, Inductive, PTL

\* A node of the heap has either no connection or that of its descriptor, whose node it is.
\* The assertions of deleteChannel hold when its destructor closes it, unless epoll_ctl
\* failed for that connection, and every open connection has a node (Timer.cpp,
\* EpollPoller.cpp).
THEOREM HeapAndRegistry == SafeSpec => []RegistryAgrees
<1>1. Inv => NodesDeletable
  BY DeletableOrFailed DEF NodesDeletable, Inv, Aborted
<1>2. Inv => RegistryAgrees
  BY <1>1 DEF Inv, NodesInv, RegistryAgrees
<1> QED
  BY <1>2, Inductive, PTL

\* handleExpiredEvent never closes a connection before it was idle for its timeout.
THEOREM NotClosedEarly == SafeSpec => NoEarlyClose
<1>1. Inv /\ [Next]_vars
        => [pc = "sweep" => \A f \in Fds : Open(f) /\ ~Open(f)' => Idle(f)]_vars
  <2> SUFFICES ASSUME Inv, [Next]_vars, pc = "sweep",
                      NEW f \in Fds, Open(f), ~Open(f)'
               PROVE  Idle(f)
    OBVIOUS
  <2>1. PopExpired
    BY DEF Next, RegisterHttp, HandleRegister, HandleClose, Reported, Tick, Sweeping, Sweep,
           PopAborts, EndSweep, vars, Open
  <2>2. PICK n \in heap : ~IsValid(n) /\ CloseHttp(n)
    BY <2>1 DEF PopExpired
  <2>3. n.http # 0 /\ n.fd = f
    BY <2>2 DEF CloseHttp, DeleteChannel, Open, Inv, NodesInv, TypeOK
  <2>4. clock + (conn[f].idleSince + Timeout(conn[f].keepAlive)) <= now + n.expiry
    BY <2>3 DEF Inv, NodesInv, ExpiryLate
  <2>5. clock >= n.expiry
    BY <2>2, WrapAssumption DEF IsValid, Inv, NodesInv, TypeOK, Nodes
  <2>6. /\ conn[f].idleSince + Timeout(conn[f].keepAlive) \in Nat
        /\ clock \in Nat /\ now \in Nat /\ n.expiry \in Nat
    BY TimeoutNat, WrapAssumption DEF Inv, NodesInv, TypeOK, Nodes
  <2> QED
    BY <2>4, <2>5, <2>6 DEF Idle
<1> QED
  BY <1>1, Inductive, PTL DEF SafeSpec, NoEarlyClose
=============================================================================
