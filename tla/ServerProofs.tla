----------------------------- MODULE ServerProofs -----------------------------
(***************************************************************************)
(* What holds of Server for every number of loops, descriptors and         *)
(* connections, whatever goes wrong: an Http owns its descriptor from      *)
(* beginning to end, callbacks meet what they need, and a late             *)
(* EPOLL_CTL_DEL ends no registration but that of what is being closed.    *)
(***************************************************************************)
EXTENDS Server, WellFoundedInduction, SequenceTheorems, TLAPS

\* A connection that was not accepted is nowhere.
Fresh ==
  \A c \in Conns : c > accepted =>
    fd[c] = 0 /\ c \notin timer /\ c \notin lost /\ reg[c] = "none"

\* What is open under a descriptor was accepted on it.
Described ==
  /\ \A c \in Conns : c <= accepted => fd[c] \in Fds
  /\ \A f \in Fds : file[f] # 0 => file[f] <= accepted /\ fd[file[f]] = f

\* https_ and the timer hold the same connections: open ones, each in its own place, which
\* is theirs in channels_ as well, or without an entry when epoll_ctl failed for them.
Registry ==
  /\ \A c \in timer :
       /\ IsOpen(c) /\ https[home[c]][fd[c]] = c
       /\ channels[home[c]][fd[c]] = (IF c \in lost THEN NoEntry ELSE c)
  /\ \A l \in Loops : \A f \in Fds :
       https[l][f] # 0 => https[l][f] \in timer /\ home[https[l][f]] = l /\ fd[https[l][f]] = f

\* The loop of c has reset its entries, and will ask for EPOLL_CTL_DEL.
Closing(c) == pc[home[c]] = "del" /\ cur[home[c]] = c

\* What epoll knows is open, and in the timer until its loop is about to take it out.
Registered ==
  /\ \A c \in Conns : reg[c] # "none" => IsOpen(c) /\ (c \in timer \/ Closing(c))
  /\ \A c \in ready : reg[c] # "none"

\* c is open, and neither watched by its loop l nor lost.
HandedOver(l, c) ==
  c <= accepted /\ IsOpen(c) /\ home[c] = l /\ c \notin timer /\ c \notin lost

\* A connection in a queue waits for its loop to register it, once.
Queued ==
  \A l \in Loops :
    /\ \A i \in 1..Len(queue[l]) : HandedOver(l, queue[l][i])
    /\ \A i, j \in 1..Len(queue[l]) : queue[l][i] = queue[l][j] => i = j

\* An open connection is kept by somebody, or lost, and the lost ones are open.
Kept ==
  /\ \A c \in Conns : IsOpen(c) => c \in lost \/ c \in timer \/ InQueue(c) \/ c = held
  /\ \A c \in lost : IsOpen(c)

\* What the acceptor refers to is open, until it is out of newConnection.
Holding ==
  held # 0 =>
    pc[0] = "accept" /\ held \in Conns /\ IsOpen(held) /\ (held \in lost => held \in timer)

\* c is in the maps and the timer of its loop l, and is not lost.
Watched(l, c) == c \in timer /\ c \notin lost /\ home[c] = l

\* What a loop has in hand is watched by it, and in hand once.
InHand ==
  \A l \in Loops :
    /\ \A c \in active[l] \ {Acceptor} : Watched(l, c)
    /\ pc[l] = "register" => Watched(l, cur[l]) /\ cur[l] \notin active[l]

\* Whatever took the descriptor of the connection that is being closed is not on this
\* loop's epoll set.
Deleting ==
  \A l \in Loops : pc[l] = "del" =>
    /\ cur[l] \in Conns /\ home[cur[l]] = l /\ fd[cur[l]] \in Fds
    /\ \A c \in Conns : c # cur[l] /\ file[fd[cur[l]]] = c /\ home[c] = l => reg[c] = "none"

\* next_ is the place of a loop.
NextInPool == threads = 0 \/ next < threads

\* Where the maps, the queues and the descriptors agree.
Placed == Fresh /\ Described /\ Registry /\ Registered /\ Queued /\ Kept

\* What the threads have in hand.
Held == Holding /\ InHand /\ Deleting /\ NextInPool

IInv == TypeOK /\ Placed /\ Held

Places == {"poll", "handle", "accept", "rearm", "register", "del", "stuck"}
Masks == {"none", "oneshot", "disarmed", "armed", "out"}

-----------------------------------------------------------------------------
(* Numbers                                                                 *)

\* The main loop is a loop, and the constants are numbers.
LEMMA Numbers ==
  ASSUME TypeOK
  PROVE  /\ threads \in Nat /\ 0 \in Loops /\ MaxConns \in Nat
         /\ \A l \in Loops : l \in Nat
         /\ \A c \in Conns : c \in Nat /\ c # 0 /\ c # Acceptor /\ c # NoEntry /\ c \in 0..MaxConns
         /\ \A f \in Fds : f \in Nat /\ f # 0
         /\ accepted \in Nat /\ arrived \in Nat /\ accepted <= arrived /\ arrived <= MaxConns
<1>1. threads \in Nat /\ MaxConns \in Nat
  BY ThreadNumsAssumption, MaxConnsAssumption DEF TypeOK
<1>2. /\ arrived \in 0..MaxConns /\ accepted \in 0..arrived
  BY DEF TypeOK
<1>3. accepted \in Nat /\ arrived \in Nat /\ accepted <= arrived /\ arrived <= MaxConns
  BY <1>1, <1>2
<1> QED
  BY <1>1, <1>3, FdsAssumption DEF Loops, Conns, Acceptor, NoEntry

\* An open connection has a descriptor of its own, and was accepted.
LEMMA OpenOne ==
  ASSUME TypeOK, Described
  PROVE  \A c \in Conns : IsOpen(c) =>
           /\ fd[c] \in Fds /\ file[fd[c]] = c /\ c <= accepted
           /\ \A d \in Conns : IsOpen(d) /\ d # c => fd[d] # fd[c]
<1> SUFFICES ASSUME NEW c \in Conns, IsOpen(c)
             PROVE  /\ fd[c] \in Fds /\ file[fd[c]] = c /\ c <= accepted
                    /\ \A d \in Conns : IsOpen(d) /\ d # c => fd[d] # fd[c]
  OBVIOUS
<1>1. fd[c] \in Fds /\ file[fd[c]] = c /\ c # 0
  BY Numbers DEF IsOpen, TypeOK
<1>2. c <= accepted
  BY <1>1 DEF Described
<1>3. \A d \in Conns : IsOpen(d) /\ d # c => fd[d] # fd[c]
  BY <1>1 DEF IsOpen
<1> QED
  BY <1>1, <1>2, <1>3

\* A set of descriptors has a lowest one.
LEMMA LowestIn ==
  ASSUME NEW S \in SUBSET Fds, S # {}
  PROVE  Lowest(S) \in S
<1>1. S \in SUBSET Nat
  BY FdsAssumption
<1>2. PICK p \in S : \A q \in S : ~(<<q, p>> \in OpToRel(<, Nat))
  BY <1>1, NatLessThanWellFounded, WFMin
<1>3. \A q \in S : ~(q < p)
  BY <1>1, <1>2 DEF OpToRel
<1>4. \A q \in S : p <= q
  BY <1>1, <1>3
<1> QED
  BY <1>4 DEF Lowest

-----------------------------------------------------------------------------
LEMMA IInvInit == Init => IInv
<1> SUFFICES ASSUME Init PROVE IInv
  OBVIOUS
<1>1. threads \in Nat /\ MaxConns \in Nat
  BY ThreadNumsAssumption, MaxConnsAssumption DEF Init
<1>2. Loops = 0..threads /\ 0 \in Loops
  BY <1>1 DEF Loops
<1>3. \A l \in Loops : queue[l] = <<>> /\ pc[l] = "poll" /\ active[l] = {}
  BY DEF Init
<1>4. TypeOK
  <2>1. /\ threads \in ThreadNums /\ next \in Nat /\ arrived \in 0..MaxConns /\ accepted \in 0..arrived
        /\ listening \in BOOLEAN /\ deaf \in BOOLEAN
        /\ home \in [Conns -> Loops] /\ fd \in [Conns -> Fds \union {0}]
        /\ file \in [Fds -> 0..MaxConns] /\ held \in 0..MaxConns
        /\ lost \subseteq Conns /\ unread \subseteq Conns /\ outOnly \subseteq Conns
        /\ ready \subseteq Conns /\ timer \subseteq Conns
        /\ reg \in [Conns -> {"none", "oneshot", "disarmed", "armed", "out"}]
    BY <1>1, <1>2 DEF Init
  <2>2. /\ channels \in [Loops -> [Fds -> 0..NoEntry]]
        /\ https \in [Loops -> [Fds -> 0..MaxConns]]
    BY <1>1 DEF Init, NoEntry
  <2>3. /\ queue \in [Loops -> Seq(Conns)] /\ active \in [Loops -> SUBSET (0..MaxConns)]
        /\ pc \in [Loops -> {"poll", "handle", "accept", "rearm", "register", "del", "stuck"}]
        /\ cur \in [Loops -> 0..MaxConns]
    BY <1>1 DEF Init
  <2> QED
    BY <2>1, <2>2, <2>3 DEF TypeOK
<1>5. Fresh /\ Described /\ Registry /\ Registered
  BY <1>1 DEF Init, Fresh, Described, Registry, Registered, Conns
<1>6. Queued
  BY <1>3 DEF Queued
<1>7. Kept /\ Holding
  BY DEF Kept, Holding, IsOpen, Init
<1>8. InHand /\ Deleting
  BY <1>3 DEF InHand, Deleting
<1>9. NextInPool
  BY <1>1 DEF NextInPool, Init
<1> QED
  BY <1>4, <1>5, <1>6, <1>7, <1>8, <1>9 DEF IInv, Placed, Held

-----------------------------------------------------------------------------
(* Steps that leave the registry alone                                     *)

LEMMA PlacedKept ==
  ASSUME Placed,
         UNCHANGED <<threads, accepted, home, fd, held, lost, file, channels, https, timer, queue>>,
         \A c \in Conns : reg'[c] # "none" => reg[c] # "none" /\ (c \in timer \/ Closing(c)'),
         \A c \in ready' : reg'[c] # "none",
         \A c \in Conns : reg[c] = "none" => reg'[c] = "none"
  PROVE  Placed'
<1>1. Fresh' /\ Described' /\ Registry'
  BY DEF Placed, Fresh, Described, Registry, IsOpen, Loops
<1>2. Registered'
  BY DEF Placed, Registered, IsOpen
<1>3. Queued' /\ Kept'
  BY DEF Placed, Queued, HandedOver, Kept, IsOpen, InQueue, Loops
<1> QED
  BY <1>1, <1>2, <1>3 DEF Placed

\* The threads go on, and what they have in hand stays with them.
LEMMA HeldKept ==
  ASSUME Held, UNCHANGED <<threads, next, home, fd, held, lost, file, timer>>,
         \A l \in Loops :
           /\ active'[l] \subseteq active[l]
           /\ pc'[l] \in {"register", "del"} => pc'[l] = pc[l] /\ cur'[l] = cur[l],
         held # 0 => pc'[0] = pc[0],
         \A c \in Conns : reg[c] = "none" => reg'[c] = "none"
  PROVE  Held'
<1>1. Loops' = Loops
  BY DEF Loops
<1>2. Holding' /\ NextInPool'
  BY DEF Held, Holding, NextInPool, IsOpen
<1>3. InHand'
  BY <1>1 DEF Held, InHand, Watched
<1>4. Deleting'
  BY <1>1 DEF Held, Deleting
<1> QED
  BY <1>2, <1>3, <1>4 DEF Held

\* The peers, and the acceptor between two connections.
LEMMA QuietStep ==
  ASSUME IInv,
         \/ Arrive \/ HandleAccept \/ AcceptEnds \/ RegisterConnection
         \/ \E l \in Loops : EndRound(l)
  PROVE  IInv'
<1> USE Numbers
<1>1. TypeOK /\ Placed /\ Held
  BY DEF IInv
<1>2. UNCHANGED <<threads, next, accepted, home, fd, held, lost, file, registryVars, queue, cur>>
  BY DEF Arrive, HandleAccept, AcceptEnds, RegisterConnection, EndRound, loopVars, acceptVars
<1>3. PICK l \in Loops, where \in {"poll", "handle", "accept", "rearm"} :
        /\ \/ UNCHANGED <<pc, active>>
           \/ pc' = [pc EXCEPT ![l] = where] /\ UNCHANGED active
           \/ pc' = [pc EXCEPT ![l] = where] /\ active' = [active EXCEPT ![l] = @ \ {Acceptor}]
        /\ pc' = pc \/ pc[l] \in {"handle", "rearm"} \/ (pc[l] = "accept" /\ held = 0)
  BY <1>1 DEF Arrive, HandleAccept, AcceptEnds, RegisterConnection, EndRound, loopVars, Goto
<1>4. /\ pc' \in [Loops -> Places]
      /\ active' \in [Loops -> SUBSET (0..MaxConns)]
      /\ \A m \in Loops : active'[m] \subseteq active[m]
      /\ \A m \in Loops : pc'[m] \in {"register", "del"} => pc'[m] = pc[m]
      /\ \A m \in Loops : pc[m] = "del" => pc'[m] = "del"
      /\ held # 0 => pc'[0] = pc[0]
  <2>1. /\ pc \in [Loops -> Places] /\ active \in [Loops -> SUBSET (0..MaxConns)]
        /\ held # 0 => pc[0] = "accept"
    BY <1>1 DEF TypeOK, Places, Held, Holding
  <2>2. CASE UNCHANGED <<pc, active>>
    BY <2>1, <2>2
  <2>3. CASE pc' = [pc EXCEPT ![l] = where] /\ UNCHANGED active
    BY <1>3, <2>1, <2>3 DEF Places
  <2>4. CASE pc' = [pc EXCEPT ![l] = where] /\ active' = [active EXCEPT ![l] = @ \ {Acceptor}]
    BY <1>3, <2>1, <2>4 DEF Places
  <2> QED
    BY <1>3, <2>2, <2>3, <2>4
<1>5. /\ arrived' \in 0..MaxConns /\ accepted' \in 0..arrived' /\ unread' \subseteq Conns
      /\ listening' \in BOOLEAN /\ deaf' \in BOOLEAN
  <2>1. CASE Arrive
    <3>1. /\ arrived < MaxConns /\ arrived' = arrived + 1 /\ listening' = TRUE
          /\ UNCHANGED <<accepted, unread, deaf>>
      BY <2>1 DEF Arrive, acceptVars
    <3>2. /\ arrived \in Nat /\ accepted \in Nat /\ accepted <= arrived /\ MaxConns \in Nat
          /\ unread \subseteq Conns /\ deaf \in BOOLEAN
      BY <1>1 DEF TypeOK
    <3>3. arrived + 1 \in 0..MaxConns /\ accepted \in 0..(arrived + 1)
      BY <3>1, <3>2
    <3> QED
      BY <3>1, <3>2, <3>3
  <2>2. CASE ~Arrive
    BY <1>1, <1>2, <2>2 DEF HandleAccept, AcceptEnds, RegisterConnection, EndRound, TypeOK, acceptVars
  <2> QED
    BY <2>1, <2>2
<1>6. TypeOK'
  BY <1>1, <1>2, <1>4, <1>5 DEF TypeOK, registryVars, Loops, Places
<1>7. Placed'
  <2>1. \A c \in Conns : Closing(c) => Closing(c)'
    BY <1>1, <1>2, <1>4 DEF Closing, TypeOK
  <2>2. \A c \in Conns : reg[c] # "none" => c \in timer \/ Closing(c)
    BY <1>1 DEF Placed, Registered
  <2>3. \A c \in ready : reg[c] # "none"
    BY <1>1 DEF Placed, Registered
  <2> QED
    BY <1>1, <1>2, <2>1, <2>2, <2>3, PlacedKept DEF registryVars
<1>8. Held'
  BY <1>1, <1>2, <1>4, HeldKept DEF registryVars
<1> QED
  BY <1>6, <1>7, <1>8 DEF IInv

\* An edge, or room to write, makes ready what is registered.
LEMMA EdgeStep ==
  ASSUME IInv, NEW c \in Conns, Send(c) \/ Writable(c)
  PROVE  IInv'
<1>1. TypeOK /\ Placed /\ Held
  BY DEF IInv
<1>2. /\ UNCHANGED <<threads, arrived, listening, acceptVars, file, outOnly, reg, channels, https,
                     timer, loopVars>>
      /\ ready' \subseteq Conns /\ unread' \subseteq Conns
      /\ \A d \in ready' : d \in ready \/ reg[d] # "none"
  BY <1>1 DEF Send, Writable, TypeOK
<1>3. TypeOK'
  BY <1>1, <1>2 DEF TypeOK, acceptVars, loopVars, Loops
<1>4. Placed'
  <2>1. \A d \in Conns : Closing(d)' <=> Closing(d)
    BY <1>2 DEF Closing, acceptVars, loopVars
  <2>2. /\ \A d \in Conns : reg[d] # "none" => d \in timer \/ Closing(d)
        /\ \A d \in ready : reg[d] # "none"
    BY <1>1 DEF Placed, Registered
  <2> QED
    BY <1>1, <1>2, <2>1, <2>2, PlacedKept DEF acceptVars, loopVars
<1>5. Held'
  BY <1>1, <1>2, HeldKept DEF acceptVars, loopVars
<1> QED
  BY <1>3, <1>4, <1>5 DEF IInv

-----------------------------------------------------------------------------
(* A loop and what it has in hand                                          *)

LEMMA PollStep ==
  ASSUME IInv, NEW l \in Loops, Poll(l)
  PROVE  IInv'
<1> USE Numbers
<1>1. /\ TypeOK /\ Placed /\ Registry /\ Registered /\ Holding /\ InHand /\ Deleting /\ NextInPool
  BY DEF IInv, Placed, Held
<1>2. /\ UNCHANGED <<threads, arrived, acceptVars, file, unread, outOnly, channels, https, timer,
                     queue, cur>>
      /\ pc[l] = "poll"
  BY DEF Poll
<1>3. /\ ReadyOn(l) \subseteq ready /\ ReadyOn(l) \subseteq Conns
      /\ \A c \in ReadyOn(l) : home[c] = l /\ reg[c] # "none"
  BY <1>1 DEF ReadyOn, TypeOK, Registered
<1>4. /\ ready' \subseteq ready
      /\ reg' \in [Conns -> Masks]
      /\ \A c \in Conns : reg'[c] = "none" <=> reg[c] = "none"
      /\ listening' \in BOOLEAN
  <2>1. ready' = ready \ ReadyOn(l) /\ listening' = (listening /\ l # 0)
    BY DEF Poll
  <2>2. reg' = [c \in Conns |-> IF c \in ReadyOn(l) /\ reg[c] = "oneshot" THEN "disarmed" ELSE reg[c]]
    BY DEF Poll
  <2>3. reg \in [Conns -> Masks] /\ listening \in BOOLEAN
    BY <1>1 DEF TypeOK, Masks
  <2>4. \A c \in Conns : reg'[c] = IF c \in ReadyOn(l) /\ reg[c] = "oneshot" THEN "disarmed" ELSE reg[c]
    BY <2>2
  <2> QED
    BY <2>1, <2>2, <2>3, <2>4 DEF Masks
<1>5. /\ pc' \in [Loops -> Places]
      /\ pc'[l] = "handle" /\ \A m \in Loops : m # l => pc'[m] = pc[m]
  BY <1>1 DEF TypeOK, Poll, Goto, Places
<1>6. /\ active' \in [Loops -> SUBSET (0..MaxConns)]
      /\ \A c \in active'[l] : c = Acceptor \/ (c \in ReadyOn(l) /\ ~Dropped(l, c))
      /\ \A m \in Loops : m # l => active'[m] = active[m]
  <2> DEFINE taken == {c \in ReadyOn(l) : ~Dropped(l, c)}
                        \union (IF l = 0 /\ listening /\ ~deaf THEN {Acceptor} ELSE {})
  <2>1. active' = [active EXCEPT ![l] = taken]
    BY DEF Poll
  <2>2. /\ taken \subseteq 0..MaxConns
        /\ \A c \in taken : c = Acceptor \/ (c \in ReadyOn(l) /\ ~Dropped(l, c))
    BY <1>1, <1>3 DEF Acceptor
  <2> HIDE DEF taken
  <2> QED
    BY <1>1, <2>1, <2>2 DEF TypeOK
<1>7. TypeOK'
  BY <1>1, <1>2, <1>4, <1>5, <1>6 DEF TypeOK, acceptVars, Loops, Masks, Places
<1>8. Placed'
  <2>1. \A c \in Conns : Closing(c) => Closing(c)'
    BY <1>1, <1>2, <1>5 DEF Closing, TypeOK, acceptVars
  <2>2. \A c \in Conns : reg'[c] # "none" => reg[c] # "none" /\ (c \in timer \/ Closing(c)')
    BY <1>1, <1>4, <2>1 DEF Registered
  <2>3. \A c \in ready' : reg'[c] # "none"
    BY <1>1, <1>4 DEF Registered, TypeOK
  <2> QED
    BY <1>1, <1>2, <1>4, <2>2, <2>3, PlacedKept DEF acceptVars
<1>9. InHand'
  <2>1. \A c \in ReadyOn(l) : ~Dropped(l, c) => Watched(l, c)
    <3> SUFFICES ASSUME NEW c \in ReadyOn(l), ~Dropped(l, c) PROVE Watched(l, c)
      OBVIOUS
    <3>1. c \in timer
      BY <1>1, <1>2, <1>3 DEF Registered, Closing
    <3>2. c \notin lost
      BY <1>1, <1>3, <3>1 DEF Registry, Dropped
    <3> QED
      BY <1>3, <3>1, <3>2 DEF Watched
  <2>2. \A m \in Loops : \A c \in active'[m] \ {Acceptor} : Watched(m, c)
    BY <1>1, <1>6, <2>1 DEF InHand
  <2>3. \A m \in Loops : pc'[m] = "register" => pc[m] = "register" /\ active'[m] = active[m]
    BY <1>5, <1>6
  <2> QED
    BY <1>1, <1>2, <2>2, <2>3 DEF InHand, Watched, acceptVars, Loops
<1>10. Deleting'
  BY <1>1, <1>2, <1>4, <1>5 DEF Deleting, acceptVars, Loops
<1>11. Holding' /\ NextInPool'
  BY <1>1, <1>2, <1>5 DEF Holding, NextInPool, IsOpen, acceptVars
<1> QED
  BY <1>7, <1>8, <1>9, <1>10, <1>11 DEF IInv, Held

LEMMA HandleEventStep ==
  ASSUME IInv, NEW l \in Loops, HandleEvent(l)
  PROVE  IInv'
<1> USE Numbers
<1>1. TypeOK /\ Placed /\ Registered /\ Holding /\ InHand /\ Deleting /\ NextInPool
  BY DEF IInv, Placed, Held
<1>2. /\ UNCHANGED <<threads, arrived, listening, acceptVars, file, reg, ready, channels, https,
                     timer, queue>>
      /\ pc[l] = "handle"
  BY DEF HandleEvent
<1>3. PICK c \in active[l] \ {Acceptor} :
        /\ active' = [active EXCEPT ![l] = @ \ {c}]
        /\ cur' = [cur EXCEPT ![l] = c]
        /\ HandleRead(l, c) \/ HandleWrite(l, c)
  BY DEF HandleEvent
<1>4. c \in Conns /\ c \in 0..MaxConns /\ Watched(l, c)
  BY <1>1 DEF TypeOK, InHand, Watched
<1>5. PICK where \in {"register", "stuck"} :
        /\ pc' = [pc EXCEPT ![l] = where]
        /\ unread' \subseteq Conns /\ outOnly' \subseteq Conns
  <2>1. unread \subseteq Conns /\ outOnly \subseteq Conns
    BY <1>1 DEF TypeOK
  <2> QED
    BY <1>3, <1>4, <2>1 DEF HandleRead, HandleWrite, Goto
<1>6. /\ active' \in [Loops -> SUBSET (0..MaxConns)] /\ active'[l] = active[l] \ {c}
      /\ cur' \in [Loops -> 0..MaxConns] /\ cur'[l] = c
      /\ pc' \in [Loops -> Places] /\ pc'[l] = where
      /\ \A m \in Loops : m # l => active'[m] = active[m] /\ cur'[m] = cur[m] /\ pc'[m] = pc[m]
  BY <1>1, <1>3, <1>4, <1>5 DEF TypeOK, Places
<1>7. TypeOK'
  BY <1>1, <1>2, <1>5, <1>6 DEF TypeOK, acceptVars, Loops, Places
<1>8. Placed'
  <2>1. \A d \in Conns : Closing(d) => Closing(d)'
    BY <1>1, <1>2, <1>6 DEF Closing, TypeOK, acceptVars
  <2> QED
    BY <1>1, <1>2, <2>1, PlacedKept DEF acceptVars, Registered
<1>9. InHand'
  BY <1>1, <1>2, <1>4, <1>6 DEF InHand, Watched, acceptVars, Loops
<1>10. Deleting'
  <2>1. Loops' = Loops
    BY <1>2 DEF Loops
  <2>2. \A m \in Loops : pc'[m] = "del" => pc[m] = "del" /\ cur'[m] = cur[m]
    BY <1>6
  <2> QED
    BY <1>1, <1>2, <2>1, <2>2 DEF Deleting, acceptVars
<1>11. Holding' /\ NextInPool'
  BY <1>1, <1>2, <1>6 DEF Holding, NextInPool, IsOpen, acceptVars
<1> QED
  BY <1>7, <1>8, <1>9, <1>10, <1>11 DEF IInv, Held

\* What a loop has in hand is open, has both entries, and has nothing to do with the queues.
LEMMA WatchedFacts ==
  ASSUME IInv, NEW l \in Loops, NEW c, Watched(l, c)
  PROVE  /\ c \in Conns /\ c \in timer /\ c \notin lost /\ home[c] = l /\ IsOpen(c) /\ c <= accepted
         /\ fd[c] \in Fds /\ file[fd[c]] = c /\ https[l][fd[c]] = c /\ channels[l][fd[c]] = c
         /\ \A m \in Loops : \A i \in 1..Len(queue[m]) : queue[m][i] # c
<1>1. TypeOK /\ Described /\ Registry /\ Queued
  BY DEF IInv, Placed
<1>2. /\ c \in Conns /\ c \in timer /\ c \notin lost /\ home[c] = l /\ IsOpen(c)
      /\ https[l][fd[c]] = c /\ channels[l][fd[c]] = c
  BY <1>1 DEF Watched, Registry, TypeOK
<1>3. fd[c] \in Fds /\ file[fd[c]] = c /\ c <= accepted
  BY <1>1, <1>2, OpenOne
<1>4. \A m \in Loops : \A i \in 1..Len(queue[m]) : queue[m][i] # c
  BY <1>1, <1>2 DEF Queued, HandedOver
<1> QED
  BY <1>2, <1>3, <1>4

\* What EPOLL_CTL_MOD does for c, entry by entry.
ModEffect(l, c) ==
  /\ channels' \in [Loops -> [Fds -> 0..NoEntry]]
  /\ \A m \in Loops : \A g \in Fds : m # l \/ g # fd[c] => channels'[m][g] = channels[m][g]
  /\ reg' \in [Conns -> Masks] /\ \A d \in Conns : d # c => reg'[d] = reg[d]
  /\ \/ channels' = channels /\ lost' = lost /\ reg'[c] # "none" /\ ready' \subseteq ready \union {c}
     \/ channels'[l][fd[c]] = NoEntry /\ lost' = lost \union {c} /\ reg' = reg /\ ready' = ready

LEMMA UpdateChannelEffect ==
  ASSUME TypeOK, NEW l \in Loops, NEW c \in Conns, fd[c] \in Fds, UpdateChannel(l, c)
  PROVE  ModEffect(l, c)
<1>1. /\ channels \in [Loops -> [Fds -> 0..NoEntry]] /\ reg \in [Conns -> Masks]
      /\ NoEntry \in 0..NoEntry
  <2>1. MaxConns \in Nat
    BY MaxConnsAssumption
  <2> QED
    BY <2>1 DEF TypeOK, NoEntry, Masks
<1>2. ASSUME NEW mask \in {"armed", "out"}, reg' = [reg EXCEPT ![c] = mask],
             ready' = ready \/ ready' = ready \union {c}, UNCHANGED <<channels, lost>>
      PROVE  ModEffect(l, c)
  <2>1. /\ reg' \in [Conns -> Masks] /\ reg'[c] = mask
        /\ \A d \in Conns : d # c => reg'[d] = reg[d]
    BY <1>1, <1>2 DEF Masks
  <2> QED
    BY <1>1, <1>2, <2>1 DEF ModEffect
<1>3. ASSUME channels' = [channels EXCEPT ![l][fd[c]] = NoEntry],
             lost' = lost \union {c}, UNCHANGED <<reg, ready>>
      PROVE  ModEffect(l, c)
  <2>1. /\ channels' \in [Loops -> [Fds -> 0..NoEntry]] /\ channels'[l][fd[c]] = NoEntry
        /\ \A m \in Loops : \A g \in Fds : m # l \/ g # fd[c] => channels'[m][g] = channels[m][g]
    BY <1>1, <1>3
  <2> QED
    BY <1>1, <1>3, <2>1 DEF ModEffect
<1> QED
  BY <1>2, <1>3 DEF UpdateChannel

\* After the step, d waits for the loop m to register it.
HandedNext(m, d) ==
  /\ d <= accepted' /\ fd'[d] # 0 /\ file'[fd'[d]] = d
  /\ home'[d] = m /\ d \notin timer' /\ d \notin lost'

LEMMA QueuedNext ==
  ASSUME UNCHANGED threads,
         \A m \in Loops : \A i \in 1..Len(queue'[m]) : HandedNext(m, queue'[m][i]),
         \A m \in Loops : \A i, j \in 1..Len(queue'[m]) : queue'[m][i] = queue'[m][j] => i = j
  PROVE  Queued'
<1>1. Loops' = Loops
  BY DEF Loops
<1> QED
  BY <1>1 DEF Queued, HandedOver, HandedNext, IsOpen

LEMMA HandleRegisterStep ==
  ASSUME IInv, NEW l \in Loops, HandleRegister(l)
  PROVE  IInv'
<1> USE Numbers
<1>1. /\ TypeOK /\ Fresh /\ Described /\ Registry /\ Registered /\ Queued /\ Kept
      /\ Holding /\ InHand /\ Deleting /\ NextInPool
  BY DEF IInv, Placed, Held
<1> SUFFICES ASSUME NEW c, c = cur[l] PROVE IInv'
  OBVIOUS
<1>2. /\ UNCHANGED <<threads, arrived, listening, deaf, next, accepted, home, fd, held, file, unread,
                     outOnly, https, timer, queue, active>>
      /\ UpdateChannel(l, c) /\ cur' = [cur EXCEPT ![l] = 0]
      /\ pc' = [pc EXCEPT ![l] = "handle"] /\ pc[l] = "register"
  BY DEF HandleRegister, Goto
<1>3. Watched(l, c) /\ c \notin active[l]
  BY <1>1, <1>2 DEF InHand
<1>4. /\ c \in Conns /\ c \in timer /\ c \notin lost /\ home[c] = l /\ IsOpen(c) /\ c <= accepted
      /\ fd[c] \in Fds
      /\ \A m \in Loops : \A i \in 1..Len(queue[m]) : queue[m][i] # c
  BY <1>3, WatchedFacts
<1>5. ModEffect(l, c)
  BY <1>1, <1>2, <1>4, UpdateChannelEffect
<1>6. /\ pc' \in [Loops -> Places] /\ cur' \in [Loops -> 0..MaxConns]
      /\ pc'[l] = "handle" /\ \A m \in Loops : m # l => pc'[m] = pc[m] /\ cur'[m] = cur[m]
  BY <1>1, <1>2 DEF TypeOK, Places
<1>7. TypeOK'
  <2>1. ready' \subseteq Conns /\ lost' \subseteq Conns
    BY <1>1, <1>4, <1>5 DEF TypeOK, ModEffect
  <2> QED
    BY <1>1, <1>2, <1>5, <1>6, <2>1 DEF TypeOK, Loops, ModEffect, Places, Masks
<1>8. /\ \A d \in Conns : IsOpen(d)' <=> IsOpen(d)
      /\ \A d \in Conns : d # c => (d \in lost' <=> d \in lost)
  BY <1>2, <1>5 DEF IsOpen, ModEffect
<1>9. Fresh' /\ Described'
  <2>1. \A d \in Conns : d > accepted => d # c
    BY <1>1, <1>4
  <2> QED
    BY <1>1, <1>2, <1>5, <2>1 DEF Fresh, Described, ModEffect
<1>10. Registry'
  <2>1. \A d \in timer : /\ d \in Conns /\ home[d] \in Loops /\ IsOpen(d) /\ fd[d] \in Fds
                         /\ d # c => fd[d] # fd[c]
    BY <1>1, <1>4, OpenOne DEF Registry, TypeOK
  <2>2. \A d \in timer : channels'[home[d]][fd[d]] = (IF d \in lost' THEN NoEntry ELSE d)
    <3> SUFFICES ASSUME NEW d \in timer
                 PROVE  channels'[home[d]][fd[d]] = (IF d \in lost' THEN NoEntry ELSE d)
      OBVIOUS
    <3>1. channels[home[d]][fd[d]] = (IF d \in lost THEN NoEntry ELSE d)
      BY <1>1 DEF Registry
    <3>2. CASE d = c
      BY <1>4, <1>5, <3>1, <3>2 DEF ModEffect
    <3>3. CASE d # c
      BY <1>5, <1>8, <2>1, <3>1, <3>3 DEF ModEffect
    <3> QED
      BY <3>2, <3>3
  <2> QED
    BY <1>1, <1>2, <1>8, <2>1, <2>2 DEF Registry, Loops
<1>11. Registered'
  <2>1. \A d \in Conns : Closing(d) => Closing(d)'
    BY <1>1, <1>2, <1>6 DEF Closing, TypeOK
  <2>2. \A d \in Conns : reg'[d] # "none" => d = c \/ reg[d] # "none"
    BY <1>5 DEF ModEffect
  <2>3. \A d \in ready' : reg'[d] # "none"
    <3>1. \A d \in ready : d \in Conns /\ reg[d] # "none"
      BY <1>1 DEF Registered, TypeOK
    <3> QED
      BY <1>5, <3>1 DEF ModEffect
  <2> QED
    BY <1>1, <1>2, <1>4, <1>8, <2>1, <2>2, <2>3 DEF Registered
<1>12. Queued'
  <2>1. \A m \in Loops : \A i \in 1..Len(queue[m]) : queue[m][i] \in Conns
    BY <1>1 DEF TypeOK
  <2>2. \A m \in Loops : \A d \in Conns : d # c /\ HandedOver(m, d) => HandedNext(m, d)
    BY <1>2, <1>8 DEF HandedOver, HandedNext, IsOpen
  <2>3. \A m \in Loops : \A i \in 1..Len(queue[m]) : HandedNext(m, queue[m][i])
    BY <1>1, <1>4, <2>1, <2>2 DEF Queued
  <2>4. threads' = threads /\ queue' = queue
    BY <1>2
  <2>5. \A m \in Loops : \A i, j \in 1..Len(queue'[m]) : queue'[m][i] = queue'[m][j] => i = j
    BY <1>1, <2>4 DEF Queued
  <2>6. \A m \in Loops : \A i \in 1..Len(queue'[m]) : HandedNext(m, queue'[m][i])
    BY <2>3, <2>4
  <2> QED
    BY <2>4, <2>5, <2>6, QueuedNext
<1>13. Kept'
  <2>1. \A d \in lost' : d \in Conns /\ (d = c \/ d \in lost)
    BY <1>1, <1>4, <1>5 DEF ModEffect, TypeOK
  <2> QED
    BY <1>1, <1>2, <1>4, <1>8, <2>1 DEF Kept, InQueue
<1>14. InHand'
  <2>1. \A m \in Loops : \A d \in active[m] \ {Acceptor} : Watched(m, d) /\ d # c
    BY <1>1, <1>3 DEF InHand, Watched
  <2>2. \A m \in Loops : pc'[m] = "register" => m # l /\ Watched(m, cur[m]) /\ cur[m] # c
    BY <1>1, <1>3, <1>6 DEF InHand, Watched
  <2>3. \A m \in Loops : \A d : Watched(m, d) /\ d # c => Watched(m, d)'
    BY <1>1, <1>2, <1>5 DEF Watched, ModEffect
  <2> QED
    BY <1>1, <1>2, <1>6, <2>1, <2>2, <2>3 DEF InHand, Watched, Loops
<1>15. Deleting'
  <2>1. \A m \in Loops : pc'[m] = "del" => m # l /\ pc[m] = "del" /\ cur'[m] = cur[m]
    BY <1>6
  <2>2. \A d \in Conns : home[d] # l => reg'[d] = reg[d]
    BY <1>4, <1>5 DEF ModEffect
  <2> QED
    BY <1>1, <1>2, <2>1, <2>2 DEF Deleting, Loops
<1>16. Holding' /\ NextInPool'
  BY <1>1, <1>2, <1>4, <1>5, <1>6, <1>8 DEF Holding, NextInPool, ModEffect, IsOpen
<1> QED
  BY <1>7, <1>9, <1>10, <1>11, <1>12, <1>13, <1>14, <1>15, <1>16 DEF IInv, Placed, Held

\* A connection that is being closed holds its descriptor, or has no registration, and
\* nothing else of this loop under its number has one: EPOLL_CTL_DEL finds only itself.
LEMMA CtlDelOne ==
  ASSUME IInv, NEW l \in Loops, CtlDel(l)
  PROVE  /\ reg' \in [Conns -> Masks] /\ reg'[cur[l]] = "none"
         /\ \A c \in Conns : c # cur[l] => reg'[c] = reg[c]
         /\ \A c \in ready' : c \in ready /\ reg'[c] # "none"
<1> DEFINE found == {c \in Conns : c = file[fd[cur[l]]] /\ home[c] = l}
<1>1. /\ TypeOK /\ Registered /\ Deleting /\ pc[l] = "del"
      /\ reg' = [c \in Conns |-> IF c \in found THEN "none" ELSE reg[c]]
      /\ ready' = ready \ found
  BY DEF IInv, Placed, Held, CtlDel
<1>2. /\ cur[l] \in Conns /\ home[cur[l]] = l
      /\ \A c \in found : c \in Conns /\ (c = cur[l] \/ reg[c] = "none")
      /\ IsOpen(cur[l]) => cur[l] \in found
  BY <1>1 DEF Deleting, IsOpen
<1>3. reg \in [Conns -> Masks] /\ ready \subseteq Conns
  BY <1>1 DEF TypeOK, Masks
<1>4. \A c \in Conns : reg'[c] = IF c \in found THEN "none" ELSE reg[c]
  BY <1>1
<1>5. reg' \in [Conns -> Masks]
  BY <1>1, <1>3 DEF Masks
<1>6. reg'[cur[l]] = "none"
  BY <1>1, <1>2, <1>4 DEF Registered
<1>7. \A c \in Conns : c # cur[l] => reg'[c] = reg[c]
  BY <1>2, <1>4
<1>8. \A c \in ready' : c \in ready /\ reg'[c] # "none"
  BY <1>1, <1>3, <1>4 DEF Registered
<1> QED
  BY <1>5, <1>6, <1>7, <1>8

LEMMA CtlDelStep ==
  ASSUME IInv, NEW l \in Loops, CtlDel(l)
  PROVE  IInv'
<1> USE Numbers
<1>1. TypeOK /\ Placed /\ Registered /\ Held /\ Holding
  BY DEF IInv, Placed, Held
<1>2. /\ UNCHANGED <<threads, arrived, listening, acceptVars, file, unread, outOnly, channels, https,
                     timer, queue, active>>
      /\ pc[l] = "del" /\ pc' = [pc EXCEPT ![l] = "handle"] /\ cur' = [cur EXCEPT ![l] = 0]
  BY DEF CtlDel, Goto
<1>3. /\ reg' \in [Conns -> Masks] /\ reg'[cur[l]] = "none"
      /\ \A c \in Conns : c # cur[l] => reg'[c] = reg[c]
      /\ \A c \in ready' : c \in ready /\ reg'[c] # "none"
  BY CtlDelOne
<1>4. /\ pc' \in [Loops -> Places] /\ cur' \in [Loops -> 0..MaxConns] /\ pc'[l] = "handle"
      /\ \A m \in Loops : m # l => pc'[m] = pc[m] /\ cur'[m] = cur[m]
  BY <1>1, <1>2 DEF TypeOK, Places
<1>5. TypeOK'
  BY <1>1, <1>2, <1>3, <1>4 DEF TypeOK, acceptVars, Loops, Places, Masks
<1>6. Placed'
  <2>1. \A c \in Conns : reg'[c] # "none" => c # cur[l] /\ reg[c] # "none"
    BY <1>3
  <2>2. \A c \in Conns : c # cur[l] /\ Closing(c) => Closing(c)'
    BY <1>1, <1>2, <1>4 DEF Closing, TypeOK, acceptVars
  <2>3. \A c \in Conns : reg'[c] # "none" => reg[c] # "none" /\ (c \in timer \/ Closing(c)')
    BY <1>1, <2>1, <2>2 DEF Registered
  <2>4. \A c \in Conns : reg[c] = "none" => reg'[c] = "none"
    BY <2>1
  <2> QED
    BY <1>1, <1>2, <1>3, <2>3, <2>4, PlacedKept DEF acceptVars
<1>7. Held'
  <2>1. \A m \in Loops :
          /\ active'[m] \subseteq active[m]
          /\ pc'[m] \in {"register", "del"} => pc'[m] = pc[m] /\ cur'[m] = cur[m]
    BY <1>2, <1>4
  <2>2. held # 0 => pc'[0] = pc[0]
    BY <1>1, <1>2, <1>4 DEF Holding
  <2>3. \A c \in Conns : reg[c] = "none" => reg'[c] = "none"
    BY <1>3
  <2> QED
    BY <1>1, <1>2, <2>1, <2>2, <2>3, HeldKept DEF acceptVars
<1> QED
  BY <1>5, <1>6, <1>7 DEF IInv

-----------------------------------------------------------------------------
(* The end of an Http                                                      *)

\* The descriptor of c is closed, by whoever had the last reference, after its loop's
\* references went: the other connections stay where they are.
LEMMA CloseFdPlaced ==
  ASSUME TypeOK, Placed, NEW c \in Conns, IsOpen(c), c \notin lost, CloseFd(c),
         \A m \in Loops : \A i \in 1..Len(queue[m]) : queue[m][i] # c,
         UNCHANGED <<threads, accepted, home, fd, lost, queue>>,
         timer' = timer \ {c}, held' = held \/ held = c,
         \A m \in Loops : \A g \in Fds :
           \/ https'[m][g] = https[m][g] /\ channels'[m][g] = channels[m][g]
           \/ g = fd[c] /\ https'[m][g] = 0,
         \A m \in Loops : \A g \in Fds : https'[m][g] # c,
         \A d \in Conns : d # c /\ Closing(d) => Closing(d)'
  PROVE  /\ Placed'
         /\ file' \in [Fds -> 0..MaxConns] /\ reg' \in [Conns -> Masks]
         /\ ready' \subseteq Conns /\ unread' \subseteq Conns /\ outOnly' \subseteq Conns
         /\ \A d \in Conns : IsOpen(d)' <=> IsOpen(d) /\ d # c
         /\ \A d \in Conns : d # c => reg'[d] = reg[d]
         /\ reg'[c] = "none" /\ file'[fd[c]] = 0 /\ \A g \in Fds : g # fd[c] => file'[g] = file[g]
<1> DEFINE f == fd[c]
<1>1. Fresh /\ Described /\ Registry /\ Registered /\ Queued /\ Kept
  BY DEF Placed
<1>2. /\ file' = [file EXCEPT ![f] = 0] /\ reg' = [reg EXCEPT ![c] = "none"]
      /\ ready' = ready \ {c} /\ unread' = unread \ {c} /\ outOnly' = outOnly \ {c}
  BY DEF CloseFd
<1>3. /\ f \in Fds /\ file[f] = c /\ c <= accepted /\ c # 0
      /\ \A d \in Conns : d # 0 /\ (IsOpen(d) /\ d # c => fd[d] # f)
  BY <1>1, OpenOne, Numbers
<1> HIDE DEF f
<1>4. /\ file' \in [Fds -> 0..MaxConns] /\ file'[f] = 0
      /\ \A g \in Fds : g # f => file'[g] = file[g]
  <2>1. file \in [Fds -> 0..MaxConns] /\ 0 \in 0..MaxConns
    BY MaxConnsAssumption DEF TypeOK
  <2> QED
    BY <1>2, <1>3, <2>1
<1>5. /\ reg' \in [Conns -> Masks]
      /\ reg'[c] = "none" /\ \A d \in Conns : d # c => reg'[d] = reg[d]
  <2>1. reg \in [Conns -> Masks]
    BY DEF TypeOK, Masks
  <2> QED
    BY <1>2, <2>1 DEF Masks
<1>6. ready' \subseteq Conns /\ unread' \subseteq Conns /\ outOnly' \subseteq Conns
  BY <1>2 DEF TypeOK
<1>7. \A d \in Conns : IsOpen(d)' <=> IsOpen(d) /\ d # c
  <2> SUFFICES ASSUME NEW d \in Conns PROVE IsOpen(d)' <=> IsOpen(d) /\ d # c
    OBVIOUS
  <2>1. fd'[d] = fd[d] /\ fd[d] \in Fds \union {0} /\ d # 0
    BY <1>3 DEF TypeOK
  <2>2. CASE fd[d] = f
    BY <1>3, <1>4, <2>1, <2>2 DEF IsOpen
  <2>3. CASE fd[d] # f
    <3>1. d # c
      BY <2>3 DEF f
    <3> QED
      BY <1>4, <2>1, <2>3, <3>1 DEF IsOpen
  <2> QED
    BY <2>2, <2>3
<1>8. Fresh' /\ Described'
  <2>1. Fresh'
    BY <1>1, <1>5 DEF Fresh
  <2>2. \A g \in Fds : file'[g] # 0 => file'[g] = file[g]
    BY <1>4
  <2> QED
    BY <1>1, <2>1, <2>2 DEF Described
<1>9. Registry'
  <2>1. \A d \in timer' : /\ d \in Conns /\ d # c /\ d \in timer /\ home[d] \in Loops
                          /\ IsOpen(d) /\ fd[d] \in Fds /\ fd[d] # f
    BY <1>1, <1>3, OpenOne DEF Registry, TypeOK
  <2>2. \A d \in timer' :
          /\ IsOpen(d)' /\ https'[home[d]][fd[d]] = d
          /\ channels'[home[d]][fd[d]] = (IF d \in lost THEN NoEntry ELSE d)
    <3> SUFFICES ASSUME NEW d \in timer'
                 PROVE  /\ IsOpen(d)' /\ https'[home[d]][fd[d]] = d
                        /\ channels'[home[d]][fd[d]] = (IF d \in lost THEN NoEntry ELSE d)
      OBVIOUS
    <3>1. /\ https'[home[d]][fd[d]] = https[home[d]][fd[d]]
          /\ channels'[home[d]][fd[d]] = channels[home[d]][fd[d]]
      BY <2>1 DEF f
    <3> QED
      BY <1>1, <1>7, <2>1, <3>1 DEF Registry
  <2>3. \A m \in Loops : \A g \in Fds : https'[m][g] # 0 =>
          https'[m][g] = https[m][g] /\ https'[m][g] # c
    OBVIOUS
  <2>4. \A m \in Loops : \A g \in Fds : https'[m][g] # 0 =>
          https'[m][g] \in timer' /\ home[https'[m][g]] = m /\ fd[https'[m][g]] = g
    BY <1>1, <2>3 DEF Registry
  <2> QED
    BY <2>2, <2>4 DEF Registry, Loops
<1>10. Registered'
  <2>1. \A d \in Conns : reg'[d] # "none" => d # c /\ reg[d] # "none"
    BY <1>5
  <2>2. \A d \in ready' : d \in Conns /\ d # c /\ reg[d] # "none"
    BY <1>1, <1>2 DEF Registered, TypeOK
  <2> QED
    BY <1>1, <1>5, <1>7, <2>1, <2>2 DEF Registered
<1>11. Queued'
  <2>1. \A m \in Loops : \A i \in 1..Len(queue[m]) : queue[m][i] \in Conns /\ queue[m][i] # c
    BY DEF TypeOK
  <2>2. \A m \in Loops : \A d \in Conns : d # c /\ HandedOver(m, d) => HandedOver(m, d)'
    BY <1>7 DEF HandedOver
  <2>3. \A m \in Loops : \A i \in 1..Len(queue[m]) : HandedOver(m, queue[m][i])'
    BY <1>1, <2>1, <2>2 DEF Queued, HandedOver, IsOpen
  <2> QED
    BY <1>1, <2>3 DEF Queued, HandedOver, IsOpen, Loops
<1>12. Kept'
  <2>1. \A d \in lost : d \in Conns /\ d # c
    BY DEF TypeOK
  <2> QED
    BY <1>1, <1>7, <2>1 DEF Kept, InQueue
<1> QED
  BY <1>4, <1>5, <1>6, <1>7, <1>8, <1>9, <1>10, <1>11, <1>12 DEF Placed, f

\* While the acceptor refers to c, its descriptor stays open when its loop gives it up.
LEMMA HeldClosePlaced ==
  ASSUME TypeOK, Placed, NEW c \in Conns, IsOpen(c), c \notin lost, c = held, Closing(c)',
         UNCHANGED <<threads, accepted, home, fd, held, lost, file, reg, ready, queue>>,
         timer' = timer \ {c},
         \A m \in Loops : \A g \in Fds :
           \/ https'[m][g] = https[m][g] /\ channels'[m][g] = channels[m][g]
           \/ g = fd[c] /\ https'[m][g] = 0,
         \A m \in Loops : \A g \in Fds : https'[m][g] # c,
         \A d \in Conns : d # c /\ Closing(d) => Closing(d)'
  PROVE  Placed'
<1>1. Fresh /\ Described /\ Registry /\ Registered /\ Queued /\ Kept
  BY DEF Placed
<1>2. \A d \in Conns : IsOpen(d)' <=> IsOpen(d)
  BY DEF IsOpen
<1>3. Fresh' /\ Described'
  BY <1>1 DEF Fresh, Described
<1>4. Registry'
  <2>1. \A d \in timer' : /\ d \in Conns /\ d # c /\ d \in timer /\ home[d] \in Loops
                          /\ IsOpen(d) /\ fd[d] \in Fds /\ fd[d] # fd[c]
    BY <1>1, OpenOne DEF Registry, TypeOK
  <2>2. \A d \in timer' :
          /\ https'[home[d]][fd[d]] = https[home[d]][fd[d]]
          /\ channels'[home[d]][fd[d]] = channels[home[d]][fd[d]]
    BY <2>1
  <2>3. \A m \in Loops : \A g \in Fds : https'[m][g] # 0 =>
          https'[m][g] = https[m][g] /\ https'[m][g] # c
    OBVIOUS
  <2>4. \A m \in Loops : \A g \in Fds : https'[m][g] # 0 =>
          https'[m][g] \in timer' /\ home[https'[m][g]] = m /\ fd[https'[m][g]] = g
    BY <1>1, <2>3 DEF Registry
  <2> QED
    BY <1>1, <1>2, <2>1, <2>2, <2>4 DEF Registry, Loops
<1>5. Registered'
  BY <1>1, <1>2 DEF Registered
<1>6. Queued'
  BY <1>1, <1>2 DEF Queued, HandedOver, IsOpen, Loops
<1>7. Kept'
  <2>1. \A d \in lost : d \in Conns /\ IsOpen(d)'
    BY <1>1, <1>2 DEF Kept, TypeOK
  <2> QED
    BY <1>1, <1>2, <2>1 DEF Kept, InQueue
<1> QED
  BY <1>3, <1>4, <1>5, <1>6, <1>7 DEF Placed

LEMMA HandleCloseStep ==
  ASSUME IInv, NEW l \in Loops, HandleClose(l)
  PROVE  IInv'
<1> USE Numbers
<1>1. /\ TypeOK /\ Placed /\ Described /\ Registry /\ Registered
      /\ Holding /\ InHand /\ Deleting /\ NextInPool
  BY DEF IInv, Placed, Held
<1> SUFFICES ASSUME NEW c, c = cur[l] PROVE IInv'
  OBVIOUS
<1>2. /\ UNCHANGED <<threads, arrived, listening, acceptVars, queue, active, cur>>
      /\ pc[l] = "register" /\ pc' = [pc EXCEPT ![l] = "del"]
      /\ timer' = timer \ {c}
      /\ channels' = [channels EXCEPT ![l][fd[c]] = 0]
      /\ https' = [https EXCEPT ![l][fd[c]] = 0]
      /\ \/ c # held /\ CloseFd(c)
         \/ c = held /\ UNCHANGED <<file, reg, ready, unread, outOnly>>
  BY DEF HandleClose, Goto
<1>3. Watched(l, c) /\ c \notin active[l]
  BY <1>1, <1>2 DEF InHand
<1>4. /\ c \in Conns /\ c \in timer /\ c \notin lost /\ home[c] = l /\ IsOpen(c) /\ c <= accepted
      /\ fd[c] \in Fds /\ file[fd[c]] = c /\ https[l][fd[c]] = c
      /\ \A m \in Loops : \A i \in 1..Len(queue[m]) : queue[m][i] # c
  BY <1>3, WatchedFacts
<1>5. /\ pc' \in [Loops -> Places] /\ pc'[l] = "del"
      /\ \A m \in Loops : m # l => pc'[m] = pc[m]
  BY <1>1, <1>2 DEF TypeOK, Places
<1>6. /\ https' \in [Loops -> [Fds -> 0..MaxConns]]
      /\ https'[l][fd[c]] = 0
      /\ \A m \in Loops : \A g \in Fds : m # l \/ g # fd[c] => https'[m][g] = https[m][g]
  <2>1. https \in [Loops -> [Fds -> 0..MaxConns]] /\ 0 \in 0..MaxConns
    BY <1>1 DEF TypeOK
  <2>2. /\ https'[l] = [https[l] EXCEPT ![fd[c]] = 0]
        /\ \A m \in Loops : m # l => https'[m] = https[m]
        /\ https' \in [Loops -> [Fds -> 0..MaxConns]]
    BY <1>2, <1>4, <2>1
  <2> QED
    BY <1>4, <2>1, <2>2
<1>7. /\ channels' \in [Loops -> [Fds -> 0..NoEntry]]
      /\ \A m \in Loops : \A g \in Fds : m # l \/ g # fd[c] => channels'[m][g] = channels[m][g]
  <2>1. channels \in [Loops -> [Fds -> 0..NoEntry]] /\ 0 \in 0..NoEntry
    BY <1>1 DEF TypeOK, NoEntry
  <2>2. /\ channels'[l] = [channels[l] EXCEPT ![fd[c]] = 0]
        /\ \A m \in Loops : m # l => channels'[m] = channels[m]
        /\ channels' \in [Loops -> [Fds -> 0..NoEntry]]
    BY <1>2, <1>4, <2>1
  <2> QED
    BY <1>4, <2>1, <2>2
<1>8. /\ \A m \in Loops : \A g \in Fds : https'[m][g] # c
      /\ \A d \in Conns : d # c /\ Closing(d) => Closing(d)'
  <2>1. \A m \in Loops : \A g \in Fds : https[m][g] = c => m = l /\ g = fd[c]
    BY <1>1, <1>4 DEF Registry
  <2>2. 0 # c
    BY <1>1, <1>4
  <2>3. \A m \in Loops : \A g \in Fds : https'[m][g] # c
    BY <1>6, <2>1, <2>2
  <2>4. \A d \in Conns : d # c /\ Closing(d) => Closing(d)'
    BY <1>1, <1>2, <1>5 DEF Closing, TypeOK, acceptVars
  <2> QED
    BY <2>3, <2>4
<1>9. /\ Placed'
      /\ file' \in [Fds -> 0..MaxConns] /\ reg' \in [Conns -> Masks]
      /\ ready' \subseteq Conns /\ unread' \subseteq Conns /\ outOnly' \subseteq Conns
      /\ \A d \in Conns : d # c => (IsOpen(d)' <=> IsOpen(d)) /\ reg'[d] = reg[d]
      /\ \A g \in Fds : file'[g] = file[g] \/ (g = fd[c] /\ file'[g] = 0)
      /\ held = c => IsOpen(c)'
  <2>1. CASE c # held /\ CloseFd(c)
    <3>1. \A m \in Loops : \A g \in Fds :
            \/ https'[m][g] = https[m][g] /\ channels'[m][g] = channels[m][g]
            \/ g = fd[c] /\ https'[m][g] = 0
      BY <1>6, <1>7
    <3>2. UNCHANGED <<threads, accepted, home, fd, lost, queue, held>>
      BY <1>2 DEF acceptVars
    <3>3. CloseFd(c) /\ c # held /\ timer' = timer \ {c}
      BY <1>2, <2>1
    <3> QED
      BY <1>1, <1>4, <1>8, <3>1, <3>2, <3>3, CloseFdPlaced
  <2>2. CASE c = held /\ UNCHANGED <<file, reg, ready, unread, outOnly>>
    <3>1. \A d \in Conns : IsOpen(d)' <=> IsOpen(d)
      BY <1>2, <2>2 DEF IsOpen, acceptVars
    <3>2. Placed'
      <4>1. Closing(c)'
        BY <1>2, <1>4, <1>5 DEF Closing, acceptVars
      <4>2. \A m \in Loops : \A g \in Fds :
              \/ https'[m][g] = https[m][g] /\ channels'[m][g] = channels[m][g]
              \/ g = fd[c] /\ https'[m][g] = 0
        BY <1>6, <1>7
      <4> QED
        BY <1>1, <1>2, <1>4, <1>8, <2>2, <4>1, <4>2, HeldClosePlaced DEF acceptVars
    <3> QED
      BY <1>1, <1>4, <2>2, <3>1, <3>2 DEF TypeOK, Masks
  <2> QED
    BY <1>2, <2>1, <2>2
<1>10. TypeOK'
  <2>1. timer' \subseteq Conns
    BY <1>1, <1>2 DEF TypeOK
  <2> QED
    BY <1>1, <1>2, <1>5, <1>6, <1>7, <1>9, <2>1 DEF TypeOK, acceptVars, Loops, Places, Masks
<1>11. InHand'
  <2>1. \A m \in Loops : \A d : Watched(m, d) /\ d # c => Watched(m, d)'
    BY <1>2 DEF Watched, acceptVars
  <2>2. \A m \in Loops : \A d \in active[m] \ {Acceptor} : Watched(m, d) /\ d # c
    BY <1>1, <1>3 DEF InHand, Watched
  <2>3. \A m \in Loops : pc'[m] = "register" =>
          m # l /\ Watched(m, cur[m]) /\ cur[m] # c /\ cur[m] \notin active[m]
    BY <1>1, <1>4, <1>5 DEF InHand, Watched
  <2> QED
    BY <1>2, <2>1, <2>2, <2>3 DEF InHand, Watched, acceptVars, Loops
<1>12. Deleting'
  <2> SUFFICES ASSUME NEW m \in Loops, pc'[m] = "del"
               PROVE  /\ cur[m] \in Conns /\ home[cur[m]] = m /\ fd[cur[m]] \in Fds
                      /\ \A d \in Conns : d # cur[m] /\ file'[fd[cur[m]]] = d /\ home[d] = m =>
                           reg'[d] = "none"
    BY <1>2 DEF Deleting, acceptVars, Loops
  <2>1. CASE m = l
    <3>1. \A d \in Conns : d # c => file'[fd[c]] # d
      BY <1>1, <1>4, <1>9
    <3> QED
      BY <1>4, <2>1, <3>1
  <2>2. CASE m # l
    <3>1. /\ pc[m] = "del" /\ cur[m] \in Conns /\ home[cur[m]] = m /\ fd[cur[m]] \in Fds
          /\ \A d \in Conns : d # cur[m] /\ file[fd[cur[m]]] = d /\ home[d] = m => reg[d] = "none"
      BY <1>1, <1>5, <2>2 DEF Deleting
    <3>2. \A d \in Conns : home[d] = m => d # c /\ d # 0
      BY <1>1, <1>4, <2>2
    <3> QED
      BY <1>9, <3>1, <3>2
  <2> QED
    BY <2>1, <2>2
<1>13. Holding' /\ NextInPool'
  <2>1. NextInPool'
    BY <1>1, <1>2 DEF NextInPool, acceptVars
  <2>2. ASSUME NEW h, h = held, h # 0
        PROVE  pc'[0] = "accept" /\ h \in Conns /\ IsOpen(h)' /\ (h \in lost => h \in timer')
    <3>1. pc[0] = "accept" /\ h \in Conns /\ IsOpen(h) /\ (h \in lost => h \in timer)
      BY <1>1, <2>2 DEF Holding
    <3>2. pc'[0] = "accept"
      BY <1>1, <1>2, <1>5, <3>1
    <3>3. CASE h = c
      BY <1>4, <1>9, <2>2, <3>1, <3>2, <3>3
    <3>4. CASE h # c
      BY <1>2, <1>9, <3>1, <3>2, <3>4
    <3> QED
      BY <3>3, <3>4
  <2>3. held' = held /\ lost' = lost
    BY <1>2 DEF acceptVars
  <2> QED
    BY <2>1, <2>2, <2>3 DEF Holding, IsOpen
<1> QED
  BY <1>9, <1>10, <1>11, <1>12, <1>13 DEF IInv, Held

\* The Http is destroyed by the acceptor, if its loop gave it up before.
LEMMA ReleaseHttpStep ==
  ASSUME IInv, ReleaseHttp
  PROVE  IInv'
<1> USE Numbers
<1>1. /\ TypeOK /\ Placed /\ Registered /\ Registry /\ Queued /\ Kept
      /\ Holding /\ InHand /\ Deleting /\ NextInPool
  BY DEF IInv, Placed, Held
<1> SUFFICES ASSUME NEW c, c = held PROVE IInv'
  OBVIOUS
<1>2. /\ UNCHANGED <<threads, arrived, listening, deaf, next, accepted, home, fd, lost, channels,
                     https, timer, loopVars>>
      /\ c # 0 /\ held' = 0
      /\ \/ Referred(c) /\ UNCHANGED <<file, reg, ready, unread, outOnly>>
         \/ ~Referred(c) /\ CloseFd(c)
  BY DEF ReleaseHttp
<1>3. c \in Conns /\ IsOpen(c) /\ (c \in lost => c \in timer)
  BY <1>1, <1>2 DEF Holding
<1>4. \A d \in Conns : Closing(d) => Closing(d)'
  BY <1>2 DEF Closing, loopVars
<1>5. /\ Placed'
      /\ file' \in [Fds -> 0..MaxConns] /\ reg' \in [Conns -> Masks]
      /\ ready' \subseteq Conns /\ unread' \subseteq Conns /\ outOnly' \subseteq Conns
      /\ \A d \in Conns : reg[d] = "none" => reg'[d] = "none"
      /\ \A g \in Fds : file'[g] = file[g] \/ file'[g] = 0
  <2>1. CASE Referred(c) /\ UNCHANGED <<file, reg, ready, unread, outOnly>>
    <3>1. c \in timer \/ InQueue(c)
      <4>1. \A l \in Loops : \A g \in Fds : https[l][g] = c => c \in timer
        BY <1>1, <1>2 DEF Registry
      <4>2. \A l \in Loops : \A i \in 1..Len(queue[l]) : queue[l][i] = c => home[c] = l
        BY <1>1 DEF Queued, HandedOver
      <4> QED
        BY <2>1, <4>1, <4>2 DEF Referred, InQueue
    <3>2. \A d \in Conns : IsOpen(d)' <=> IsOpen(d)
      BY <1>2, <2>1 DEF IsOpen
    <3>3. Kept'
      <4>1. \A d \in lost : d \in Conns /\ IsOpen(d)'
        BY <1>1, <3>2 DEF Kept, TypeOK
      <4>2. \A d \in Conns : IsOpen(d)' => d \in lost \/ d \in timer \/ InQueue(d)
        BY <1>1, <3>1, <3>2 DEF Kept
      <4> QED
        BY <1>2, <4>1, <4>2 DEF Kept, InQueue, loopVars
    <3>4. Placed'
      BY <1>1, <1>2, <1>4, <2>1, <3>2, <3>3
         DEF Placed, Fresh, Described, Registry, Registered, Queued, HandedOver, IsOpen, Loops, loopVars
    <3> QED
      BY <1>1, <2>1, <3>4 DEF TypeOK, Masks
  <2>2. CASE ~Referred(c) /\ CloseFd(c)
    <3>1. c \notin timer /\ c \notin lost /\ timer' = timer \ {c}
      BY <1>2, <1>3, <2>2 DEF Referred
    <3>2. /\ \A m \in Loops : \A g \in Fds : https'[m][g] # c
          /\ \A m \in Loops : \A i \in 1..Len(queue[m]) : queue[m][i] # c
      BY <1>2, <2>2 DEF Referred
    <3> QED
      BY <1>1, <1>2, <1>3, <1>4, <2>2, <3>1, <3>2, CloseFdPlaced DEF loopVars
  <2> QED
    BY <1>2, <2>1, <2>2
<1>6. TypeOK'
  BY <1>1, <1>2, <1>5 DEF TypeOK, loopVars, Loops, Masks
<1>7. InHand' /\ NextInPool' /\ Holding'
  BY <1>1, <1>2 DEF InHand, Watched, NextInPool, Holding, loopVars, Loops
<1>8. Deleting'
  <2> SUFFICES ASSUME NEW m \in Loops, pc[m] = "del"
               PROVE  /\ cur[m] \in Conns /\ home[cur[m]] = m /\ fd[cur[m]] \in Fds
                      /\ \A d \in Conns : d # cur[m] /\ file'[fd[cur[m]]] = d /\ home[d] = m =>
                           reg'[d] = "none"
    BY <1>2 DEF Deleting, loopVars, Loops
  <2>1. /\ cur[m] \in Conns /\ home[cur[m]] = m /\ fd[cur[m]] \in Fds
        /\ \A d \in Conns : d # cur[m] /\ file[fd[cur[m]]] = d /\ home[d] = m => reg[d] = "none"
    BY <1>1 DEF Deleting
  <2>2. \A d \in Conns : d # 0
    BY <1>1
  <2> QED
    BY <1>5, <2>1, <2>2
<1> QED
  BY <1>5, <1>6, <1>7, <1>8 DEF IInv, Held

-----------------------------------------------------------------------------
(* A connection comes into the registry                                    *)

\* What addChannel does, entry by entry: the registration follows if epoll_ctl works.
AddEffect(l, c, f) ==
  /\ https' \in [Loops -> [Fds -> 0..MaxConns]] /\ https'[l][f] = c
  /\ channels' \in [Loops -> [Fds -> 0..NoEntry]]
  /\ \A m \in Loops : \A g \in Fds : m # l \/ g # f =>
       https'[m][g] = https[m][g] /\ channels'[m][g] = channels[m][g]
  /\ timer' = timer \union {c} /\ outOnly' = outOnly
  /\ reg' \in [Conns -> Masks]
  /\ \A d \in Conns : d # c => reg'[d] = reg[d]
  /\ \/ channels'[l][f] = c /\ reg'[c] # "none" /\ lost' = lost /\ ready' \subseteq ready \union {c}
     \/ channels'[l][f] = NoEntry /\ reg' = reg /\ lost' = lost \union {c} /\ ready' = ready

LEMMA AddChannelEffect ==
  ASSUME TypeOK, NEW l \in Loops, NEW c \in Conns, NEW f \in Fds, AddChannel(l, c, f)
  PROVE  AddEffect(l, c, f)
<1>1. /\ https \in [Loops -> [Fds -> 0..MaxConns]] /\ channels \in [Loops -> [Fds -> 0..NoEntry]]
      /\ reg \in [Conns -> Masks]
      /\ c \in 0..MaxConns /\ c \in 0..NoEntry /\ NoEntry \in 0..NoEntry
  <2>1. c \in 0..MaxConns /\ MaxConns \in Nat
    BY Numbers
  <2> QED
    BY <2>1 DEF TypeOK, NoEntry, Masks
<1>2. https' = [https EXCEPT ![l][f] = c] /\ timer' = timer \union {c} /\ outOnly' = outOnly
  BY DEF AddChannel
<1>3. /\ https' \in [Loops -> [Fds -> 0..MaxConns]] /\ https'[l][f] = c
      /\ \A m \in Loops : \A g \in Fds : m # l \/ g # f => https'[m][g] = https[m][g]
  BY <1>1, <1>2
<1>4. CASE /\ channels' = [channels EXCEPT ![l][f] = c]
           /\ reg' = [reg EXCEPT ![c] = "oneshot"]
           /\ ready' = IF c \in unread THEN ready \union {c} ELSE ready
           /\ UNCHANGED lost
  <2>1. /\ channels' \in [Loops -> [Fds -> 0..NoEntry]] /\ channels'[l][f] = c
        /\ \A m \in Loops : \A g \in Fds : m # l \/ g # f => channels'[m][g] = channels[m][g]
    BY <1>1, <1>4
  <2>2. /\ reg' \in [Conns -> Masks] /\ reg'[c] = "oneshot"
        /\ \A d \in Conns : d # c => reg'[d] = reg[d]
    BY <1>1, <1>4 DEF Masks
  <2> QED
    BY <1>2, <1>3, <1>4, <2>1, <2>2 DEF AddEffect
<1>5. CASE /\ channels' = [channels EXCEPT ![l][f] = NoEntry]
           /\ lost' = lost \union {c}
           /\ UNCHANGED <<reg, ready>>
  <2>1. /\ channels' \in [Loops -> [Fds -> 0..NoEntry]] /\ channels'[l][f] = NoEntry
        /\ \A m \in Loops : \A g \in Fds : m # l \/ g # f => channels'[m][g] = channels[m][g]
    BY <1>1, <1>5
  <2> QED
    BY <1>1, <1>2, <1>3, <1>5, <2>1 DEF AddEffect
<1> QED
  BY <1>4, <1>5 DEF AddChannel

\* A connection that was nowhere, and that the step leaves open on its loop, may be added.
LEMMA AddPlaced ==
  ASSUME TypeOK, Registry, Registered, NEW l \in Loops, NEW c \in Conns, NEW f \in Fds,
         AddEffect(l, c, f), UNCHANGED <<threads, pc, cur>>,
         c \notin timer, c \notin lost, reg[c] = "none", home'[c] = l, fd'[c] = f, IsOpen(c)',
         \A d \in Conns : d # c =>
           home'[d] = home[d] /\ fd'[d] = fd[d] /\ (IsOpen(d)' <=> IsOpen(d)),
         \A d \in timer : fd[d] \in Fds /\ (home[d] # l \/ fd[d] # f)
  PROVE  Registry' /\ Registered'
<1>1. \A d \in timer : d \in Conns /\ d # c /\ home[d] \in Loops
  BY DEF TypeOK
<1>2. Registry'
  <2>1. \A d \in timer' :
          /\ IsOpen(d)' /\ https'[home'[d]][fd'[d]] = d
          /\ channels'[home'[d]][fd'[d]] = (IF d \in lost' THEN NoEntry ELSE d)
    <3> SUFFICES ASSUME NEW d \in timer'
                 PROVE  /\ IsOpen(d)' /\ https'[home'[d]][fd'[d]] = d
                        /\ channels'[home'[d]][fd'[d]] = (IF d \in lost' THEN NoEntry ELSE d)
      OBVIOUS
    <3>1. CASE d = c
      BY <3>1 DEF AddEffect
    <3>2. CASE d # c
      <4>1. d \in timer /\ (d \in lost' <=> d \in lost)
        BY <3>2 DEF AddEffect
      <4>2. /\ IsOpen(d) /\ https[home[d]][fd[d]] = d
            /\ channels[home[d]][fd[d]] = (IF d \in lost THEN NoEntry ELSE d)
        BY <4>1 DEF Registry
      <4>3. /\ https'[home[d]][fd[d]] = https[home[d]][fd[d]]
            /\ channels'[home[d]][fd[d]] = channels[home[d]][fd[d]]
        BY <1>1, <4>1 DEF AddEffect
      <4> QED
        BY <1>1, <4>1, <4>2, <4>3
    <3> QED
      BY <3>1, <3>2
  <2>2. \A m \in Loops : \A g \in Fds : https'[m][g] # 0 =>
          /\ https'[m][g] \in timer' /\ home'[https'[m][g]] = m /\ fd'[https'[m][g]] = g
    <3> SUFFICES ASSUME NEW m \in Loops, NEW g \in Fds, https'[m][g] # 0
                 PROVE  /\ https'[m][g] \in timer'
                        /\ home'[https'[m][g]] = m /\ fd'[https'[m][g]] = g
      OBVIOUS
    <3>1. CASE m = l /\ g = f
      BY <3>1 DEF AddEffect
    <3>2. CASE m # l \/ g # f
      <4>1. https'[m][g] = https[m][g]
        BY <3>2 DEF AddEffect
      <4>2. https[m][g] \in timer /\ home[https[m][g]] = m /\ fd[https[m][g]] = g
        BY <4>1 DEF Registry
      <4> QED
        BY <1>1, <4>1, <4>2 DEF AddEffect
    <3> QED
      BY <3>1, <3>2
  <2> QED
    BY <2>1, <2>2 DEF Registry, Loops
<1>3. Registered'
  <2>1. \A d \in Conns : reg'[d] # "none" => IsOpen(d)' /\ (d \in timer' \/ Closing(d)')
    <3> SUFFICES ASSUME NEW d \in Conns, reg'[d] # "none"
                 PROVE  IsOpen(d)' /\ (d \in timer' \/ Closing(d)')
      OBVIOUS
    <3>1. CASE d = c
      BY <3>1 DEF AddEffect
    <3>2. CASE d # c
      <4>1. IsOpen(d) /\ (d \in timer \/ Closing(d))
        BY <3>2 DEF Registered, AddEffect
      <4> QED
        BY <3>2, <4>1 DEF AddEffect, Closing
    <3> QED
      BY <3>1, <3>2
  <2>2. \A d \in ready' : reg'[d] # "none"
    <3>1. \A d \in ready : d \in Conns /\ reg[d] # "none" /\ d # c
      BY DEF Registered, TypeOK
    <3> QED
      BY <3>1 DEF AddEffect
  <2> QED
    BY <2>1, <2>2 DEF Registered
<1> QED
  BY <1>2, <1>3

LEMMA RegisterHttpStep ==
  ASSUME IInv, NEW l \in Loops, RegisterHttp(l)
  PROVE  IInv'
<1> DEFINE c == Head(queue[l])
           f == fd[c]
<1>1. /\ TypeOK /\ Fresh /\ Described /\ Registry /\ Registered /\ Queued /\ Kept
      /\ Holding /\ InHand /\ Deleting /\ NextInPool
  BY DEF IInv, Placed, Held
<1>2. /\ UNCHANGED <<threads, arrived, listening, deaf, next, accepted, home, fd, held, file, unread,
                     active, pc, cur>>
      /\ queue[l] # <<>> /\ queue' = [queue EXCEPT ![l] = Tail(queue[l])]
      /\ AddChannel(l, c, f) /\ pc[l] = "handle"
  BY DEF RegisterHttp
<1>3. \A m \in Loops : queue[m] \in Seq(Conns) /\ Len(queue[m]) \in Nat
  BY <1>1 DEF TypeOK
<1>4. Len(queue[l]) >= 1 /\ c = queue[l][1]
  BY <1>2, <1>3
<1>5. /\ c \in Conns /\ c <= accepted /\ IsOpen(c) /\ home[c] = l /\ c \notin timer /\ c \notin lost
      /\ f \in Fds /\ file[f] = c /\ reg[c] = "none"
  <2>1. c \in Conns /\ c <= accepted /\ IsOpen(c) /\ home[c] = l /\ c \notin timer /\ c \notin lost
    BY <1>1, <1>3, <1>4 DEF Queued, HandedOver
  <2>2. reg[c] = "none"
    BY <1>1, <1>2, <2>1 DEF Registered, Closing
  <2> QED
    BY <1>1, <2>1, <2>2 DEF Described, IsOpen
<1> HIDE DEF c, f
<1>6. AddEffect(l, c, f)
  BY <1>1, <1>2, <1>5, AddChannelEffect
<1>7. \A d \in Conns : IsOpen(d)' <=> IsOpen(d)
  BY <1>2 DEF IsOpen
<1>8. \A d \in timer : d \in Conns /\ fd[d] \in Fds /\ fd[d] # f
  <2> SUFFICES ASSUME NEW d \in timer PROVE d \in Conns /\ fd[d] \in Fds /\ fd[d] # f
    OBVIOUS
  <2>1. d \in Conns /\ IsOpen(d) /\ d # c
    BY <1>1, <1>5 DEF Registry, TypeOK
  <2>2. fd[d] \in Fds
    BY <1>1, <2>1 DEF IsOpen, TypeOK
  <2> QED
    BY <1>5, <2>1, <2>2 DEF IsOpen
<1>9. Registry' /\ Registered'
  BY <1>1, <1>2, <1>5, <1>6, <1>7, <1>8, AddPlaced DEF f
<1>10. /\ queue' \in [Loops -> Seq(Conns)]
       /\ Len(queue'[l]) = Len(queue[l]) - 1
       /\ \A i \in 1..Len(queue'[l]) : queue'[l][i] = queue[l][i + 1]
       /\ \A m \in Loops : m # l => queue'[m] = queue[m]
  <2>1. /\ Tail(queue[l]) \in Seq(Conns) /\ Len(Tail(queue[l])) = Len(queue[l]) - 1
        /\ \A i \in 1..Len(Tail(queue[l])) : Tail(queue[l])[i] = queue[l][i + 1]
    BY <1>2, <1>3, HeadTailProperties
  <2> QED
    BY <1>1, <1>2, <2>1 DEF TypeOK
<1>11. TypeOK'
  <2>1. lost' \subseteq Conns /\ timer' \subseteq Conns /\ ready' \subseteq Conns
    BY <1>1, <1>5, <1>6 DEF AddEffect, TypeOK
  <2> QED
    BY <1>1, <1>2, <1>6, <1>10, <2>1 DEF TypeOK, AddEffect, Loops, Masks
<1>12. Fresh' /\ Described'
  <2>1. ~(c > accepted)
    BY <1>1, <1>5, Numbers
  <2>2. \A d \in Conns : d > accepted => d # c
    BY <2>1
  <2> QED
    BY <1>1, <1>2, <1>6, <2>2 DEF Fresh, Described, AddEffect
<1>13. Queued'
  <2>1. \A m \in Loops : \A d \in Conns : HandedOver(m, d) /\ d # c =>
          d <= accepted' /\ IsOpen(d)' /\ home'[d] = m /\ d \notin timer' /\ d \notin lost'
    BY <1>2, <1>6, <1>7 DEF HandedOver, AddEffect
  <2>2. \A m \in Loops : \A i \in 1..Len(queue'[m]) :
          queue'[m][i] \in Conns /\ queue'[m][i] # c /\ HandedOver(m, queue'[m][i])
    <3> SUFFICES ASSUME NEW m \in Loops, NEW i \in 1..Len(queue'[m])
                 PROVE  queue'[m][i] \in Conns /\ queue'[m][i] # c /\ HandedOver(m, queue'[m][i])
      OBVIOUS
    <3>1. CASE m = l
      <4>1. i + 1 \in 1..Len(queue[l]) /\ i + 1 # 1 /\ 1 \in 1..Len(queue[l])
        BY <1>3, <1>4, <1>10, <3>1
      <4>2. queue[l][i + 1] # queue[l][1] /\ HandedOver(l, queue[l][i + 1]) /\ queue[l][i + 1] \in Conns
        BY <1>1, <1>3, <4>1 DEF Queued
      <4> QED
        BY <1>4, <1>10, <3>1, <4>2
    <3>2. CASE m # l
      <4>1. queue'[m] = queue[m]
        BY <1>10, <3>2
      <4>2. HandedOver(m, queue[m][i]) /\ queue[m][i] \in Conns
        BY <1>1, <1>3, <4>1 DEF Queued
      <4>3. queue[m][i] # c
        BY <1>5, <3>2, <4>2 DEF HandedOver
      <4> QED
        BY <4>1, <4>2, <4>3
    <3> QED
      BY <3>1, <3>2
  <2>3. \A m \in Loops : \A i, j \in 1..Len(queue'[m]) : queue'[m][i] = queue'[m][j] => i = j
    <3> SUFFICES ASSUME NEW m \in Loops, NEW i \in 1..Len(queue'[m]), NEW j \in 1..Len(queue'[m]),
                        queue'[m][i] = queue'[m][j]
                 PROVE  i = j
      OBVIOUS
    <3>1. CASE m = l
      <4>1. i + 1 \in 1..Len(queue[l]) /\ j + 1 \in 1..Len(queue[l]) /\ i \in Nat /\ j \in Nat
        BY <1>3, <1>4, <1>10, <3>1
      <4>2. queue[l][i + 1] = queue[l][j + 1]
        BY <1>10, <3>1
      <4>3. i + 1 = j + 1
        BY <1>1, <4>1, <4>2 DEF Queued
      <4> QED
        BY <4>1, <4>3
    <3>2. CASE m # l
      BY <1>1, <1>10, <3>2 DEF Queued
    <3> QED
      BY <3>1, <3>2
  <2>4. Loops' = Loops
    BY <1>2 DEF Loops
  <2>5. \A m \in Loops' : \A i \in 1..Len(queue'[m]) :
          /\ queue'[m][i] <= accepted' /\ fd'[queue'[m][i]] # 0
          /\ file'[fd'[queue'[m][i]]] = queue'[m][i]
          /\ home'[queue'[m][i]] = m /\ queue'[m][i] \notin timer' /\ queue'[m][i] \notin lost'
    BY <2>1, <2>2, <2>4 DEF IsOpen
  <2> QED
    BY <2>3, <2>4, <2>5 DEF Queued, HandedOver, IsOpen
<1>14. Kept'
  <2>1. \A d \in Conns : IsOpen(d)' => d \in lost' \/ d \in timer' \/ InQueue(d)' \/ d = held
    <3> SUFFICES ASSUME NEW d \in Conns, IsOpen(d)', d \notin lost', d \notin timer', d # held
                 PROVE  InQueue(d)'
      OBVIOUS
    <3>1. d # c /\ d \notin lost /\ d \notin timer /\ IsOpen(d) /\ home[d] \in Loops
      BY <1>1, <1>6, <1>7 DEF AddEffect, TypeOK
    <3>2. PICK i \in 1..Len(queue[home[d]]) : queue[home[d]][i] = d
      BY <1>1, <3>1 DEF Kept, InQueue
    <3>3. CASE home[d] = l
      <4>1. i # 1
        BY <1>4, <3>1, <3>2, <3>3
      <4>2. i - 1 \in 1..Len(queue'[l])
        BY <1>3, <1>10, <3>2, <3>3, <4>1
      <4>3. queue'[l][i - 1] = queue[l][(i - 1) + 1]
        BY <1>10, <4>2
      <4>4. queue'[l][i - 1] = d
        BY <1>3, <3>2, <3>3, <4>3
      <4> QED
        BY <1>2, <3>3, <4>2, <4>4 DEF InQueue
    <3>4. CASE home[d] # l
      BY <1>2, <1>10, <3>1, <3>2, <3>4 DEF InQueue
    <3> QED
      BY <3>3, <3>4
  <2>2. \A d \in lost' : IsOpen(d)'
    <3>1. \A d \in lost' : d = c \/ d \in lost
      BY <1>6 DEF AddEffect
    <3> QED
      BY <1>1, <1>5, <1>7, <3>1 DEF Kept, TypeOK
  <2> QED
    BY <1>2, <2>1, <2>2 DEF Kept
<1>15. InHand'
  <2>1. \A m \in Loops : \A d : Watched(m, d) => d # c /\ Watched(m, d)'
    BY <1>2, <1>5, <1>6 DEF Watched, AddEffect
  <2> QED
    BY <1>1, <1>2, <2>1 DEF InHand, Watched, Loops
<1>16. Holding'
  BY <1>1, <1>2, <1>5, <1>6, <1>7 DEF Holding, AddEffect, IsOpen
<1>17. Deleting'
  <2> SUFFICES ASSUME NEW m \in Loops, pc[m] = "del"
               PROVE  /\ cur[m] \in Conns /\ home[cur[m]] = m /\ fd[cur[m]] \in Fds
                      /\ \A d \in Conns : d # cur[m] /\ file[fd[cur[m]]] = d /\ home[d] = m =>
                           reg'[d] = "none"
    BY <1>2 DEF Deleting, Loops
  <2>1. m # l
    BY <1>2
  <2> QED
    BY <1>1, <1>5, <1>6, <2>1 DEF Deleting, AddEffect
<1>18. NextInPool'
  BY <1>1, <1>2 DEF NextInPool
<1> QED
  BY <1>9, <1>11, <1>12, <1>13, <1>14, <1>15, <1>16, <1>17, <1>18 DEF IInv, Placed, Held

-----------------------------------------------------------------------------
(* A connection is accepted                                                *)

\* What accept() and the bookkeeping of newConnection do for the new connection c.
Took(c, f) ==
  /\ c = accepted + 1 /\ accepted' = c /\ c <= arrived
  /\ fd[c] = 0 /\ c \notin timer /\ c \notin lost /\ reg[c] = "none" /\ held = 0
  /\ file' \in [Fds -> 0..MaxConns] /\ file[f] = 0 /\ file'[f] = c
  /\ \A g \in Fds : g # f => file'[g] = file[g]
  /\ fd' \in [Conns -> Fds \union {0}] /\ fd'[c] = f
  /\ \A d \in Conns : d # c => fd'[d] = fd[d]
  /\ next' \in Nat /\ NextInPool'
  /\ IsOpen(c)' /\ \A d \in Conns : d # c => (IsOpen(d)' <=> IsOpen(d))
  /\ Described'

LEMMA TakeFirstEffect ==
  ASSUME IInv, NEW f \in Fds, TakeFirst(f), UNCHANGED <<threads, arrived>>,
         NEW c, c = accepted + 1, fd' = [fd EXCEPT ![c] = f]
  PROVE  c \in Conns /\ Took(c, f)
<1>1. TypeOK /\ Fresh /\ Described /\ NextInPool
  BY DEF IInv, Placed, Held
<1>2. /\ accepted < arrived /\ accepted' = c /\ file' = [file EXCEPT ![f] = c]
      /\ AdvanceNext /\ FreeFds # {} /\ f = Lowest(FreeFds) /\ held = 0
  BY DEF TakeFirst
<1>3. /\ c \in Conns /\ c > accepted /\ c <= arrived /\ c \in 0..MaxConns /\ c # 0
      /\ \A d \in Conns : d > accepted /\ d # c => d > c
      /\ \A d \in Conns : d <= c /\ d # c => d <= accepted
      /\ \A d \in 0..MaxConns : d <= accepted => d <= c /\ d # c
      /\ c <= c
  <2>1. /\ MaxConns \in Nat /\ accepted \in Nat /\ arrived \in Nat
        /\ accepted < arrived /\ arrived <= MaxConns
    BY <1>1, <1>2, Numbers
  <2> QED
    BY <2>1 DEF Conns
<1>4. file[f] = 0 /\ f # 0
  <2>1. FreeFds \in SUBSET Fds
    BY DEF FreeFds
  <2>2. f \in FreeFds
    BY <1>2, <2>1, LowestIn
  <2> QED
    BY <2>2, FdsAssumption DEF FreeFds
<1>5. fd[c] = 0 /\ c \notin timer /\ c \notin lost /\ reg[c] = "none"
  BY <1>1, <1>3 DEF Fresh
<1>6. /\ file' \in [Fds -> 0..MaxConns] /\ file'[f] = c
      /\ \A g \in Fds : g # f => file'[g] = file[g]
  BY <1>1, <1>2, <1>3 DEF TypeOK
<1>7. /\ fd' \in [Conns -> Fds \union {0}] /\ fd'[c] = f
      /\ \A d \in Conns : d # c => fd'[d] = fd[d]
  BY <1>1, <1>3 DEF TypeOK
<1>8. next' \in Nat /\ NextInPool'
  <2>1. threads \in Nat /\ next \in Nat /\ next' = IF threads = 0 THEN next ELSE (next + 1) % threads
    BY <1>1, <1>2, Numbers DEF TypeOK, AdvanceNext
  <2>2. CASE threads = 0
    BY <2>1, <2>2 DEF NextInPool
  <2>3. CASE threads # 0
    <3>1. (next + 1) % threads \in 0..(threads - 1)
      BY <2>1, <2>3
    <3>2. next' \in Nat /\ next' < threads
      BY <2>1, <2>3, <3>1
    <3> QED
      BY <3>2 DEF NextInPool
  <2> QED
    BY <2>2, <2>3
<1>9. IsOpen(c)' /\ \A d \in Conns : d # c => (IsOpen(d)' <=> IsOpen(d))
  <2>1. IsOpen(c)'
    BY <1>2, <1>4, <1>6, <1>7 DEF IsOpen
  <2>2. \A d \in Conns : d # c => (IsOpen(d)' <=> IsOpen(d))
    <3> SUFFICES ASSUME NEW d \in Conns, d # c PROVE IsOpen(d)' <=> IsOpen(d)
      OBVIOUS
    <3>1. fd'[d] = fd[d] /\ fd[d] \in Fds \union {0} /\ d # 0
      BY <1>1, <1>7, Numbers DEF TypeOK
    <3>2. CASE fd[d] = f
      BY <1>4, <1>6, <3>1, <3>2 DEF IsOpen
    <3>3. CASE fd[d] # f
      BY <1>6, <3>1, <3>3 DEF IsOpen
    <3> QED
      BY <3>2, <3>3
  <2> QED
    BY <2>1, <2>2
<1>10. Described'
  <2>1. \A d \in Conns : d <= accepted' => fd'[d] \in Fds
    BY <1>1, <1>2, <1>3, <1>7 DEF Described
  <2>2. \A g \in Fds : file'[g] # 0 => file'[g] <= accepted' /\ fd'[file'[g]] = g
    <3> SUFFICES ASSUME NEW g \in Fds, file'[g] # 0
                 PROVE  file'[g] <= accepted' /\ fd'[file'[g]] = g
      OBVIOUS
    <3>1. CASE g = f
      BY <1>2, <1>3, <1>6, <1>7, <3>1
    <3>2. CASE g # f
      <4>1. /\ file'[g] = file[g] /\ file[g] # 0 /\ file[g] \in 0..MaxConns
            /\ file[g] <= accepted /\ fd[file[g]] = g
        BY <1>1, <1>6, <3>2 DEF Described, TypeOK
      <4>2. file[g] \in Conns /\ file[g] # c /\ file[g] <= c
        BY <1>3, <4>1, MaxConnsAssumption DEF Conns
      <4> QED
        BY <1>2, <1>7, <4>1, <4>2
    <3> QED
      BY <3>1, <3>2
  <2> QED
    BY <2>1, <2>2 DEF Described
<1>11. Took(c, f)
  BY <1>2, <1>3, <1>4, <1>5, <1>6, <1>7, <1>8, <1>9, <1>10 DEF Took
<1> QED
  BY <1>3, <1>11

\* The other connections do not notice, and those a loop has in hand are others.
LEMMA TookKeeps ==
  ASSUME IInv, NEW c \in Conns, NEW f \in Fds, Took(c, f), UNCHANGED <<threads, active, cur>>,
         pc[0] = "accept", \A m \in Loops : pc'[m] = pc[m] \/ pc'[m] = "rearm",
         \A d \in Conns : d # c =>
           /\ home'[d] = home[d] /\ reg'[d] = reg[d]
           /\ d \in timer' <=> d \in timer
           /\ d \in lost' <=> d \in lost,
         home'[c] = 0 \/ reg'[c] = "none"
  PROVE  /\ Fresh' /\ InHand' /\ Deleting'
         /\ \A m \in Loops : \A d \in Conns : HandedOver(m, d) => d # c /\ HandedOver(m, d)'
<1>1. /\ TypeOK /\ Fresh /\ Described /\ Registry /\ Registered /\ Queued /\ Kept
      /\ Holding /\ InHand /\ Deleting /\ NextInPool
  BY DEF IInv, Placed, Held
<1>2. /\ \A d \in Conns : d > accepted' => d > accepted /\ d # c
      /\ \A d \in Conns : d <= accepted => d # c /\ d <= accepted'
  <2>1. accepted \in Nat /\ accepted' = accepted + 1 /\ c = accepted + 1 /\ Conns \subseteq Nat
    BY <1>1, Numbers DEF Took
  <2> QED
    BY <2>1
<1>3. Fresh'
  BY <1>1, <1>2 DEF Fresh, Took
<1>4. InHand'
  <2>1. \A m \in Loops : \A d : Watched(m, d) => Watched(m, d)'
    <3> SUFFICES ASSUME NEW m \in Loops, NEW d, Watched(m, d) PROVE Watched(m, d)'
      OBVIOUS
    <3>1. d \in Conns /\ d # c
      BY <1>1 DEF Watched, TypeOK, Took
    <3> QED
      BY <3>1 DEF Watched
  <2>2. \A m \in Loops : pc'[m] = "register" => pc[m] = "register"
    OBVIOUS
  <2> QED
    BY <1>1, <2>1, <2>2 DEF InHand, Watched, Loops
<1>5. Deleting'
  <2> SUFFICES ASSUME NEW m \in Loops, pc'[m] = "del"
               PROVE  /\ cur[m] \in Conns /\ home'[cur[m]] = m /\ fd'[cur[m]] \in Fds
                      /\ \A d \in Conns : d # cur[m] /\ file'[fd'[cur[m]]] = d /\ home'[d] = m =>
                           reg'[d] = "none"
    BY DEF Deleting, Loops
  <2>1. /\ pc[m] = "del" /\ m # 0 /\ cur[m] \in Conns /\ home[cur[m]] = m /\ fd[cur[m]] \in Fds
        /\ \A d \in Conns : d # cur[m] /\ file[fd[cur[m]]] = d /\ home[d] = m => reg[d] = "none"
    BY <1>1 DEF Deleting
  <2>2. cur[m] # c /\ fd'[cur[m]] = fd[cur[m]] /\ home'[cur[m]] = m
    BY <2>1, FdsAssumption DEF Took
  <2> SUFFICES ASSUME NEW d \in Conns, d # cur[m], file'[fd[cur[m]]] = d, home'[d] = m
               PROVE  reg'[d] = "none"
    BY <2>1, <2>2
  <2>3. CASE d = c
    BY <2>1, <2>3
  <2>4. CASE d # c
    <3>1. file[fd[cur[m]]] = d
      BY <2>1, <2>4 DEF Took
    <3> QED
      BY <2>1, <2>4, <3>1
  <2> QED
    BY <2>3, <2>4
<1>6. \A m \in Loops : \A d \in Conns : HandedOver(m, d) => d # c /\ HandedOver(m, d)'
  <2> SUFFICES ASSUME NEW m \in Loops, NEW d \in Conns, HandedOver(m, d)
               PROVE  d # c /\ HandedOver(m, d)'
    OBVIOUS
  <2>1. d # c /\ d <= accepted' /\ IsOpen(d)
    BY <1>2 DEF HandedOver
  <2>2. IsOpen(d)'
    BY <2>1 DEF Took
  <2>3. home'[d] = m /\ d \notin timer' /\ d \notin lost'
    BY <2>1 DEF HandedOver
  <2> QED
    BY <2>1, <2>2, <2>3 DEF HandedOver
<1> QED
  BY <1>3, <1>4, <1>5, <1>6

LEMMA NonBlockingFailsStep ==
  ASSUME IInv, NonBlockingFails
  PROVE  IInv'
<1>1. /\ TypeOK /\ Fresh /\ Described /\ Registry /\ Registered /\ Queued /\ Kept
      /\ Holding /\ InHand /\ Deleting /\ NextInPool
  BY DEF IInv, Placed, Held
<1>2. /\ UNCHANGED <<threads, arrived, listening, deaf, home, held, unread, registryVars, queue, active,
                     cur>>
      /\ lost' = lost \union {accepted + 1} /\ pc' = [pc EXCEPT ![0] = "rearm"]
  BY DEF NonBlockingFails, Goto
<1>3. PICK f \in Fds : TakeFirst(f) /\ fd' = [fd EXCEPT ![accepted + 1] = f]
  BY DEF NonBlockingFails
<1> SUFFICES ASSUME NEW c, c = accepted + 1 PROVE IInv'
  OBVIOUS
<1>4. c \in Conns /\ Took(c, f)
  BY <1>2, <1>3, TakeFirstEffect
<1>5. /\ pc' \in [Loops -> Places]
      /\ \A m \in Loops : pc'[m] = pc[m] \/ pc'[m] = "rearm"
      /\ \A m \in Loops : pc[m] = "del" => pc'[m] = "del"
  <2>1. pc[0] = "accept"
    BY <1>3 DEF TakeFirst
  <2> QED
    BY <1>1, <1>2, <2>1 DEF TypeOK, Places
<1>6. /\ Fresh' /\ InHand' /\ Deleting'
      /\ \A m \in Loops : \A d \in Conns : HandedOver(m, d) => d # c /\ HandedOver(m, d)'
  <2>1. pc[0] = "accept"
    BY <1>3 DEF TakeFirst
  <2>2. reg'[c] = "none"
    BY <1>2, <1>4 DEF Took, registryVars
  <2> QED
    BY <1>2, <1>4, <1>5, <2>1, <2>2, TookKeeps DEF registryVars
<1>7. TypeOK'
  <2>1. accepted' \in 0..arrived'
    BY <1>1, <1>2, <1>4, Numbers DEF Took
  <2>2. lost' \subseteq Conns
    BY <1>1, <1>2, <1>4 DEF TypeOK
  <2>3. Loops' = Loops
    BY <1>2 DEF Loops
  <2> QED
    BY <1>1, <1>2, <1>4, <1>5, <2>1, <2>2, <2>3 DEF TypeOK, Took, registryVars, Places
<1>8. \A d \in timer : d \in Conns /\ d # c /\ IsOpen(d)' /\ fd'[d] = fd[d]
  BY <1>1, <1>4 DEF Registry, TypeOK, Took
<1>9. Registry'
  <2>1. \A d \in timer : d \in lost' <=> d \in lost
    BY <1>2, <1>8
  <2> QED
    BY <1>1, <1>2, <1>8, <2>1 DEF Registry, registryVars, Loops
<1>10. Registered'
  <2>1. \A d \in Conns : Closing(d) => Closing(d)'
    BY <1>1, <1>2, <1>5 DEF Closing, TypeOK
  <2>2. \A d \in Conns : reg[d] # "none" => IsOpen(d)'
    BY <1>1, <1>4 DEF Registered, Took
  <2> QED
    BY <1>1, <1>2, <2>1, <2>2 DEF Registered, registryVars
<1>11. Queued'
  <2>1. \A m \in Loops : \A i \in 1..Len(queue[m]) : queue[m][i] \in Conns
    BY <1>1 DEF TypeOK
  <2>2. \A m \in Loops : \A i \in 1..Len(queue[m]) :
          LET d == queue[m][i] IN d <= accepted' /\ fd'[d] # 0 /\ file'[fd'[d]] = d
                                  /\ home'[d] = m /\ d \notin timer' /\ d \notin lost'
    BY <1>1, <1>6, <2>1 DEF Queued, HandedOver, IsOpen
  <2>3. Loops' = Loops /\ queue' = queue
    BY <1>2 DEF Loops
  <2> QED
    BY <1>1, <2>2, <2>3 DEF Queued, HandedOver, IsOpen
<1>12. Kept'
  <2>1. \A d \in Conns : IsOpen(d)' => d \in lost' \/ d \in timer' \/ InQueue(d)' \/ d = held'
    BY <1>1, <1>2, <1>4 DEF Kept, Took, InQueue, registryVars
  <2>2. \A d \in lost' : IsOpen(d)'
    BY <1>1, <1>2, <1>4 DEF Kept, Took, TypeOK
  <2> QED
    BY <1>2, <2>1, <2>2 DEF Kept
<1>13. Holding'
  BY <1>2, <1>4 DEF Holding, Took
<1> QED
  BY <1>4, <1>6, <1>7, <1>9, <1>10, <1>11, <1>12, <1>13 DEF IInv, Placed, Held, Took

\* Without a pool, the main loop adds the connection to its own registry.
LEMMA NewConnectionHere ==
  ASSUME IInv, NEW c \in Conns, NEW f \in Fds, Took(c, f), pc[0] = "accept",
         home' = [home EXCEPT ![c] = 0], held' = c, AddChannel(0, c, f),
         UNCHANGED <<threads, arrived, listening, deaf, unread, loopVars>>
  PROVE  IInv'
<1>1. /\ TypeOK /\ Fresh /\ Described /\ Registry /\ Registered /\ Queued /\ Kept
      /\ Holding /\ InHand /\ Deleting /\ NextInPool
  BY DEF IInv, Placed, Held
<1>2. 0 \in Loops
  BY <1>1, Numbers
<1>3. AddEffect(0, c, f)
  BY <1>1, <1>2, AddChannelEffect
<1>4. home' \in [Conns -> Loops] /\ home'[c] = 0 /\ \A d \in Conns : d # c => home'[d] = home[d]
  BY <1>1, <1>2 DEF TypeOK
<1>5. /\ Fresh' /\ InHand' /\ Deleting'
      /\ \A m \in Loops : \A d \in Conns : HandedOver(m, d) => d # c /\ HandedOver(m, d)'
  <2>1. \A d \in Conns : d # c =>
          /\ home'[d] = home[d] /\ reg'[d] = reg[d]
          /\ d \in timer' <=> d \in timer
          /\ d \in lost' <=> d \in lost
    BY <1>3, <1>4 DEF AddEffect
  <2> QED
    BY <1>4, <2>1, TookKeeps DEF loopVars
<1>6. TypeOK'
  <2>1. accepted' \in 0..arrived'
    BY <1>1, Numbers DEF Took
  <2>2. lost' \subseteq Conns /\ timer' \subseteq Conns /\ ready' \subseteq Conns
    BY <1>1, <1>3 DEF AddEffect, TypeOK
  <2> QED
    BY <1>1, <1>3, <1>4, <2>1, <2>2, Numbers DEF TypeOK, Took, AddEffect, loopVars, Loops, Masks
<1>7. Registry' /\ Registered'
  <2>1. \A d \in timer : d \in Conns /\ IsOpen(d) /\ fd[d] \in Fds \union {0} /\ d # 0
    BY <1>1, Numbers DEF Registry, TypeOK
  <2>2. \A d \in timer : fd[d] \in Fds /\ fd[d] # f
    BY <2>1 DEF IsOpen, Took
  <2> QED
    BY <1>1, <1>2, <1>3, <1>4, <2>2, AddPlaced DEF Took, loopVars
<1>8. Queued'
  <2>1. \A m \in Loops : \A i \in 1..Len(queue[m]) : queue[m][i] \in Conns
    BY <1>1 DEF TypeOK
  <2>2. \A m \in Loops : \A i \in 1..Len(queue[m]) :
          LET d == queue[m][i] IN d <= accepted' /\ fd'[d] # 0 /\ file'[fd'[d]] = d
                                  /\ home'[d] = m /\ d \notin timer' /\ d \notin lost'
    BY <1>1, <1>5, <2>1 DEF Queued, HandedOver, IsOpen
  <2>3. Loops' = Loops /\ queue' = queue
    BY DEF Loops, loopVars
  <2> QED
    BY <1>1, <2>2, <2>3 DEF Queued, HandedOver, IsOpen
<1>9. Kept'
  <2>1. \A d \in Conns : IsOpen(d)' => d \in lost' \/ d \in timer' \/ InQueue(d)'
    <3> SUFFICES ASSUME NEW d \in Conns, IsOpen(d)', d # c
                 PROVE  d \in lost' \/ d \in timer' \/ InQueue(d)'
      BY <1>3 DEF AddEffect
    <3>1. d \in lost \/ d \in timer \/ InQueue(d)
      BY <1>1, Numbers DEF Kept, Took
    <3> QED
      BY <1>3, <1>4, <3>1 DEF AddEffect, InQueue, loopVars
  <2>2. \A d \in lost' : d = c \/ d \in lost
    BY <1>3 DEF AddEffect
  <2>3. \A d \in lost' : IsOpen(d)'
    BY <1>1, <2>2 DEF Kept, Took, TypeOK
  <2>4. \A d \in Conns : IsOpen(d)' =>
          d \in lost' \/ d \in timer' \/ \E i \in 1..Len(queue'[home'[d]]) : queue'[home'[d]][i] = d
    BY <1>3, <1>4, <2>1 DEF InQueue, AddEffect, loopVars
  <2> QED
    BY <2>3, <2>4 DEF Kept, InQueue
<1>10. Holding'
  <2>1. pc'[0] = "accept" /\ IsOpen(c)' /\ c \in timer'
    BY <1>3 DEF Took, AddEffect, loopVars
  <2> QED
    BY <2>1 DEF Holding, IsOpen
<1> QED
  BY <1>5, <1>6, <1>7, <1>8, <1>9, <1>10 DEF IInv, Placed, Held, Took

\* With a pool, the connection waits in the queue of its loop.
LEMMA NewConnectionElsewhere ==
  ASSUME IInv, NEW c \in Conns, NEW f \in Fds, Took(c, f), pc[0] = "accept",
         NEW l \in Loops, l # 0, home' = [home EXCEPT ![c] = l],
         queue' = [queue EXCEPT ![l] = Append(@, c)], held' = c,
         UNCHANGED <<threads, arrived, listening, deaf, unread, registryVars, lost, active, pc, cur>>
  PROVE  IInv'
<1>1. /\ TypeOK /\ Fresh /\ Described /\ Registry /\ Registered /\ Queued /\ Kept
      /\ Holding /\ InHand /\ Deleting /\ NextInPool
  BY DEF IInv, Placed, Held
<1>2. \A m \in Loops : queue[m] \in Seq(Conns) /\ Len(queue[m]) \in Nat
  BY <1>1 DEF TypeOK
<1>3. home' \in [Conns -> Loops] /\ home'[c] = l /\ \A d \in Conns : d # c => home'[d] = home[d]
  BY <1>1 DEF TypeOK
<1>4. /\ queue' \in [Loops -> Seq(Conns)]
      /\ Len(queue'[l]) = Len(queue[l]) + 1 /\ queue'[l][Len(queue[l]) + 1] = c
      /\ \A i \in 1..Len(queue[l]) : queue'[l][i] = queue[l][i]
      /\ \A m \in Loops : m # l => queue'[m] = queue[m]
  <2>1. /\ Append(queue[l], c) \in Seq(Conns) /\ Len(Append(queue[l], c)) = Len(queue[l]) + 1
        /\ Append(queue[l], c)[Len(queue[l]) + 1] = c
        /\ \A i \in 1..Len(queue[l]) : Append(queue[l], c)[i] = queue[l][i]
    BY <1>2, AppendProperties
  <2> QED
    BY <1>1, <2>1 DEF TypeOK
<1>5. \A m \in Loops : \A i \in 1..Len(queue'[m]) :
        \/ m = l /\ i = Len(queue[l]) + 1 /\ queue'[m][i] = c
        \/ i \in 1..Len(queue[m]) /\ queue'[m][i] = queue[m][i]
  BY <1>2, <1>4
<1>6. /\ Fresh' /\ InHand' /\ Deleting'
      /\ \A m \in Loops : \A d \in Conns : HandedOver(m, d) => d # c /\ HandedOver(m, d)'
  <2>1. reg'[c] = "none"
    BY DEF Took, registryVars
  <2> QED
    BY <1>3, <2>1, TookKeeps DEF registryVars
<1>7. TypeOK'
  <2>1. accepted' \in 0..arrived'
    BY <1>1, Numbers DEF Took
  <2>2. Loops' = Loops
    BY DEF Loops
  <2> QED
    BY <1>1, <1>3, <1>4, <2>1, <2>2, Numbers DEF TypeOK, Took, registryVars
<1>8. \A d \in timer : d \in Conns /\ d # c /\ IsOpen(d)' /\ fd'[d] = fd[d] /\ home'[d] = home[d]
  <2> SUFFICES ASSUME NEW d \in timer
               PROVE  /\ d \in Conns /\ d # c /\ IsOpen(d)'
                      /\ fd'[d] = fd[d] /\ home'[d] = home[d]
    OBVIOUS
  <2>1. d \in Conns /\ d # c /\ IsOpen(d)
    BY <1>1 DEF Registry, TypeOK, Took
  <2> QED
    BY <1>3, <2>1 DEF Took
<1>9. Registry'
  BY <1>1, <1>8 DEF Registry, registryVars, Loops
<1>10. Registered'
  <2>1. \A d \in Conns : reg[d] # "none" =>
          d # c /\ IsOpen(d)' /\ (d \in timer \/ Closing(d)) /\ home'[d] = home[d]
    BY <1>1, <1>3 DEF Registered, Took
  <2> QED
    BY <1>1, <2>1 DEF Registered, registryVars, Closing
<1>11. Queued'
  <2>1. \A m \in Loops : \A i \in 1..Len(queue[m]) :
          /\ queue[m][i] \in Conns /\ HandedOver(m, queue[m][i])
          /\ \A j \in 1..Len(queue[m]) : queue[m][i] = queue[m][j] => i = j
    <3>1. \A m \in Loops : \A i \in 1..Len(queue[m]) : queue[m][i] \in Conns
      BY <1>2
    <3> QED
      BY <1>1, <3>1 DEF Queued
  <2>2. c <= accepted' /\ IsOpen(c)' /\ home'[c] = l /\ c \notin timer' /\ c \notin lost'
    BY <1>1, <1>3, Numbers DEF Took, registryVars
  <2>3. \A m \in Loops : \A i \in 1..Len(queue'[m]) : HandedNext(m, queue'[m][i])
    <3>1. \A d \in Conns : \A m \in Loops : (m = l /\ d = c) \/ HandedOver(m, d) => HandedNext(m, d)
      BY <1>6, <2>2 DEF HandedOver, IsOpen, HandedNext
    <3>2. \A m \in Loops : \A i \in 1..Len(queue'[m]) :
            /\ queue'[m][i] \in Conns
            /\ (m = l /\ queue'[m][i] = c) \/ HandedOver(m, queue'[m][i])
      BY <1>5, <2>1
    <3> QED
      BY <3>1, <3>2
  <2>4. \A m \in Loops : \A i, j \in 1..Len(queue'[m]) : queue'[m][i] = queue'[m][j] => i = j
    <3> SUFFICES ASSUME NEW m \in Loops, NEW i \in 1..Len(queue'[m]), NEW j \in 1..Len(queue'[m]),
                        queue'[m][i] = queue'[m][j]
                 PROVE  i = j
      OBVIOUS
    <3>1. \A k \in 1..Len(queue[m]) : queue[m][k] # c
      BY <1>6, <2>1
    <3> QED
      BY <1>5, <2>1, <3>1
  <2> QED
    BY <2>3, <2>4, QueuedNext
<1>12. Kept'
  <2>1. \A d \in Conns : IsOpen(d)' =>
          d \in lost' \/ d \in timer' \/ \E i \in 1..Len(queue'[home'[d]]) : queue'[home'[d]][i] = d
    <3> SUFFICES ASSUME NEW d \in Conns, IsOpen(d)', d \notin lost', d \notin timer'
                 PROVE  \E i \in 1..Len(queue'[home'[d]]) : queue'[home'[d]][i] = d
      OBVIOUS
    <3>n. d # 0
      BY <1>1, Numbers
    <3>1. CASE d = c
      <4>1. Len(queue[l]) + 1 \in 1..Len(queue'[l])
        BY <1>2, <1>4
      <4> QED
        BY <1>3, <1>4, <3>1, <4>1
    <3>2. CASE d # c
      <4>1. IsOpen(d) /\ d \notin lost /\ d \notin timer /\ home[d] \in Loops
        BY <1>1, <3>2 DEF Took, registryVars, TypeOK
      <4>2. PICK i \in 1..Len(queue[home[d]]) : queue[home[d]][i] = d
        BY <1>1, <3>n, <4>1 DEF Kept, InQueue, Took
      <4>3. i \in 1..Len(queue'[home[d]]) /\ queue'[home[d]][i] = d
        BY <1>2, <1>4, <4>1, <4>2
      <4> QED
        BY <1>3, <3>2, <4>3
    <3> QED
      BY <3>1, <3>2
  <2>2. \A d \in lost' : IsOpen(d)'
    BY <1>1 DEF Kept, Took, TypeOK
  <2> QED
    BY <2>1, <2>2 DEF Kept, InQueue
<1>13. Holding'
  BY DEF Holding, Took, IsOpen
<1> QED
  BY <1>6, <1>7, <1>9, <1>10, <1>11, <1>12, <1>13 DEF IInv, Placed, Held, Took

LEMMA NewConnectionStep ==
  ASSUME IInv, NewConnection
  PROVE  IInv'
<1> SUFFICES ASSUME NEW c, c = accepted + 1, NEW l, l = NextLoop PROVE IInv'
  OBVIOUS
<1>1. PICK f \in Fds :
        /\ TakeFirst(f)
        /\ home' = [home EXCEPT ![c] = l]
        /\ fd' = [fd EXCEPT ![c] = f]
        /\ held' = c
        /\ \/ l = 0 /\ AddChannel(l, c, f) /\ UNCHANGED queue
           \/ l # 0 /\ queue' = [queue EXCEPT ![l] = Append(@, c)] /\ UNCHANGED <<registryVars, lost>>
        /\ UNCHANGED <<threads, arrived, listening, deaf, unread, active, pc, cur>>
  BY DEF NewConnection
<1>2. c \in Conns /\ Took(c, f)
  BY <1>1, TakeFirstEffect
<1>3. pc[0] = "accept"
  BY <1>1 DEF TakeFirst
<1>4. l \in Loops
  <2>1. threads \in Nat /\ next \in Nat /\ NextInPool /\ l = IF threads = 0 THEN 0 ELSE next + 1
    BY Numbers DEF IInv, Held, TypeOK, NextLoop
  <2> QED
    BY <2>1 DEF NextInPool, Loops
<1>5. CASE l = 0
  BY <1>1, <1>2, <1>3, <1>5, NewConnectionHere DEF loopVars
<1>6. CASE l # 0
  BY <1>1, <1>2, <1>3, <1>4, <1>6, NewConnectionElsewhere
<1> QED
  BY <1>5, <1>6

-----------------------------------------------------------------------------
(* The theorems                                                            *)

LEMMA IInvStep == IInv /\ [Next]_vars => IInv'
<1> SUFFICES ASSUME IInv, [Next]_vars PROVE IInv'
  OBVIOUS
<1>1. CASE Arrive
  BY <1>1, QuietStep
<1>2. ASSUME NEW c \in Conns, Send(c) \/ Writable(c) PROVE IInv'
  BY <1>2, EdgeStep
<1>3. ASSUME NEW l \in Loops, ConnStep(l) PROVE IInv'
  BY <1>3, PollStep, HandleEventStep, HandleRegisterStep, HandleCloseStep, CtlDelStep,
     RegisterHttpStep, QuietStep DEF ConnStep
<1>4. CASE AcceptorStep
  BY <1>4, QuietStep, NewConnectionStep, ReleaseHttpStep, NonBlockingFailsStep DEF AcceptorStep
<1>5. CASE UNCHANGED vars
  BY <1>5 DEF vars, acceptVars, registryVars, loopVars, IInv, Placed, Held, TypeOK, Fresh, Described,
              Registry, Registered, Closing, Queued, HandedOver, Kept, InQueue, IsOpen, Holding,
              InHand, Watched, Deleting, NextInPool, Loops
<1> QED
  BY <1>1, <1>2, <1>3, <1>4, <1>5 DEF Next, LoopStep

\* The inductive invariant holds of acceptor, loops and registries.
THEOREM Inductive == SafeSpec => []IInv
BY IInvInit, IInvStep, PTL DEF SafeSpec

\* The variables keep to their ranges: no null entry is reached, and no functor queued for
\* a loop that is not there.
THEOREM TypeCorrect == SafeSpec => []TypeOK
<1>1. IInv => TypeOK
  BY DEF IInv
<1> QED
  BY <1>1, Inductive, PTL

\* An Http owns its descriptor from its beginning to its end, however accept() reuses the
\* numbers (Http.cpp:96, EpollPoller.cpp:60-79), and whether its loop or the acceptor has
\* the last reference to it.
THEOREM OwnsDescriptor == SafeSpec => []OwnDescriptor
<1>1. ASSUME IInv PROVE OwnDescriptor
  <2>1. TypeOK /\ Registry /\ Queued /\ Kept /\ Holding
    BY <1>1 DEF IInv, Placed, Held
  <2> SUFFICES ASSUME NEW c \in 1..accepted
               PROVE  IF c \in lost THEN IsOpen(c) ELSE HttpLives(c) <=> IsOpen(c)
    BY DEF OwnDescriptor
  <2>2. c \in Conns /\ c # 0
    BY <2>1, Numbers DEF Conns
  <2>3. CASE c \in lost
    BY <2>1, <2>3 DEF Kept
  <2>4. CASE c \notin lost
    <3>1. HttpLives(c) => IsOpen(c)
      <4>1. c \in timer => IsOpen(c)
        BY <2>1 DEF Registry
      <4>2. (\E l \in Loops : \E f \in Fds : https[l][f] = c) => c \in timer
        BY <2>1, <2>2 DEF Registry
      <4>3. (\E l \in Loops : \E i \in 1..Len(queue[l]) : queue[l][i] = c) => IsOpen(c)
        BY <2>1 DEF Queued, HandedOver
      <4>4. c = held => IsOpen(c)
        BY <2>1, <2>2 DEF Holding
      <4> QED
        BY <4>1, <4>2, <4>3, <4>4 DEF HttpLives, Referred
    <3>2. IsOpen(c) => HttpLives(c)
      <4>1. home[c] \in Loops
        BY <2>1, <2>2 DEF TypeOK
      <4> QED
        BY <2>1, <2>2, <2>4, <4>1 DEF Kept, InQueue, HttpLives, Referred
    <3> QED
      BY <2>4, <3>1, <3>2
  <2> QED
    BY <2>3, <2>4
<1>2. IInv => OwnDescriptor
  BY <1>1
<1> QED
  BY <1>2, Inductive, PTL

\* A callback meets the Http and the channel it was registered for, in the maps of its
\* loop: the this it holds does not dangle (EpollPoller.cpp:31-47, Http.cpp:70-75).
THEOREM CallbacksMeetHttp == SafeSpec => []CallbacksSafe
<1>1. ASSUME IInv PROVE CallbacksSafe
  <2>1. TypeOK /\ Registry /\ Registered /\ InHand
    BY <1>1 DEF IInv, Placed, Held
  <2>2. \A l \in Loops : \A c : Watched(l, c) => InRegistry(l, c)
    BY <2>1 DEF Watched, Registry, InRegistry, HttpLives, Referred
  <2>3. \A c \in Conns : reg[c] # "none" =>
          InRegistry(home[c], c) \/ Dropped(home[c], c) \/ Closing(c)
    <3> SUFFICES ASSUME NEW c \in Conns, reg[c] # "none"
                 PROVE  InRegistry(home[c], c) \/ Dropped(home[c], c) \/ Closing(c)
      OBVIOUS
    <3>1. c \in timer \/ Closing(c)
      BY <2>1 DEF Registered
    <3>2. home[c] \in Loops
      BY <2>1 DEF TypeOK
    <3>3. CASE c \in timer /\ c \in lost
      BY <2>1, <3>3 DEF Registry, Dropped
    <3>4. CASE c \in timer /\ c \notin lost
      BY <2>2, <3>2, <3>4 DEF Watched
    <3> QED
      BY <3>1, <3>3, <3>4
  <2> QED
    BY <2>1, <2>2, <2>3 DEF InHand, CallbacksSafe, Closing
<1>2. IInv => CallbacksSafe
  BY <1>1
<1> QED
  BY <1>2, Inductive, PTL

\* EPOLL_CTL_DEL ends no registration but that of the connection that is being closed:
\* neither when its descriptor was closed before, and may be another connection's, nor when
\* the acceptor's reference keeps it open (EpollPoller.cpp:70-79, Server.cpp:55-58).
THEOREM DeleteHarmless == SafeSpec => DelIsHarmless
<1> DEFINE Harmless ==
      \A l \in Loops : pc[l] = "del" /\ pc'[l] # "del" =>
        \A c \in Conns : c # cur[l] => reg'[c] = reg[c]
<1>1. ASSUME IInv, [Next]_vars PROVE Harmless
  <2> SUFFICES ASSUME NEW l \in Loops, pc[l] = "del", pc'[l] # "del"
               PROVE  \A c \in Conns : c # cur[l] => reg'[c] = reg[c]
    OBVIOUS
  <2>1. pc \in [Loops -> Places] /\ (held # 0 => pc[0] = "accept")
    BY <1>1 DEF IInv, TypeOK, Held, Holding, Places
  <2>2. CtlDel(l)
    <3>1. ~Arrive /\ ~UNCHANGED vars /\ \A c \in Conns : ~Send(c) /\ ~Writable(c)
      BY DEF Arrive, Send, Writable, vars, loopVars
    <3>2. \A m \in Loops : m # l => ~ConnStep(m)
      BY <2>1 DEF ConnStep, Poll, HandleEvent, HandleRead, HandleWrite, HandleRegister,
                  HandleClose, CtlDel, RegisterHttp, EndRound, Goto
    <3>3. ~AcceptorStep
      BY <2>1 DEF AcceptorStep, HandleAccept, NewConnection, ReleaseHttp, NonBlockingFails,
                  AcceptEnds, RegisterConnection, TakeFirst, Goto, loopVars
    <3>4. ConnStep(l)
      BY <1>1, <3>1, <3>2, <3>3 DEF Next, LoopStep
    <3> QED
      BY <3>4 DEF ConnStep, Poll, HandleEvent, HandleRegister, HandleClose, RegisterHttp, EndRound
  <2> QED
    BY <1>1, <2>2, CtlDelOne
<1>2. IInv /\ [Next]_vars => [Harmless]_vars
  BY <1>1
<1> QED
  BY <1>2, Inductive, PTL DEF SafeSpec, DelIsHarmless

-----------------------------------------------------------------------------
(* The life of a connection                                                *)

StatusOf == [c \in Conns |-> Status(c)]
DescOf == [c \in Conns |-> IF IsOpen(c) THEN fd[c] ELSE 0]

\* One connection moves on, and keeps its descriptor or the lack of one.
LEMMA StatusMoves ==
  ASSUME NEW c \in Conns, NEW to, Status(c)' = to,
         \A d \in Conns : d # c => Status(d)' = Status(d)
  PROVE  StatusOf' = [StatusOf EXCEPT ![c] = to]
BY DEF StatusOf

LEMMA DescStays ==
  ASSUME \A d \in Conns : (IsOpen(d)' <=> IsOpen(d)) /\ (IsOpen(d) => fd'[d] = fd[d])
  PROVE  DescOf' = DescOf
BY DEF DescOf

LEMMA DescMoves ==
  ASSUME NEW c \in Conns, NEW f, (IF IsOpen(c)' THEN fd'[c] ELSE 0) = f,
         \A d \in Conns : d # c => (IsOpen(d)' <=> IsOpen(d)) /\ (IsOpen(d) => fd'[d] = fd[d])
  PROVE  DescOf' = [DescOf EXCEPT ![c] = f]
BY DEF DescOf

\* What a connection waits for in a queue does not come from a thread that is stuck.
Hangs(c) == InQueue(c) /\ Stuck(home[c])

\* The threads that are stuck stay so, and no other joins them.
LEMMA StuckStays ==
  ASSUME NEW l \in Loops, pc \in [Loops -> Places],
         pc' = pc \/ \E where \in Places \ {"stuck"} : pc' = [pc EXCEPT ![l] = where] /\ pc[l] # "stuck"
  PROVE  \A m \in Loops : Stuck(m)' <=> Stuck(m)
BY DEF Stuck

\* Nothing of a connection's life changes.
LEMMA LifeStays ==
  ASSUME TypeOK, UNCHANGED <<arrived, accepted, lost, fd, file, home, queue>>,
         \A m \in Loops : Stuck(m)' <=> Stuck(m)
  PROVE  UNCHANGED Life!vars
<1>1. \A d \in Conns : IsOpen(d)' <=> IsOpen(d)
  BY DEF IsOpen
<1>2. \A d \in Conns : (InQueue(d)' <=> InQueue(d)) /\ (Hangs(d)' <=> Hangs(d))
  BY DEF InQueue, Hangs, TypeOK
<1>3. \A d \in Conns : Status(d)' = Status(d)
  BY <1>1, <1>2 DEF Status, Hangs
<1>4. StatusOf' = StatusOf
  BY <1>3 DEF StatusOf
<1>5. DescOf' = DescOf
  BY <1>1, DescStays
<1> QED
  BY <1>4, <1>5 DEF Life!vars, StatusOf, DescOf

LEMMA LifeArrives ==
  ASSUME IInv, Arrive
  PROVE  Life!Next
<1> SUFFICES ASSUME NEW c, c = arrived + 1 PROVE Life!Next
  OBVIOUS
<1>1. /\ arrived < MaxConns /\ arrived' = c
      /\ UNCHANGED <<accepted, lost, fd, file, home, queue, pc>>
  BY DEF Arrive, acceptVars, loopVars
<1>2. /\ arrived \in Nat /\ accepted \in Nat /\ accepted <= arrived /\ MaxConns \in Nat
  BY Numbers DEF IInv
<1>3. /\ c \in Conns /\ c > arrived /\ ~(c > c) /\ c > accepted
      /\ \A d \in Conns : d # c => (d > c <=> d > arrived)
      /\ \A d \in 1..(c - 1) : d \in Conns /\ ~(d > arrived)
  BY <1>1, <1>2 DEF Conns
<1>4. \A d \in Conns : (IsOpen(d)' <=> IsOpen(d)) /\ (InQueue(d)' <=> InQueue(d))
                       /\ (Stuck(home[d])' <=> Stuck(home[d]))
  BY <1>1 DEF IsOpen, InQueue, Stuck
<1>5. Status(c) = "new" /\ Status(c)' = "backlog"
  BY <1>1, <1>3 DEF Status
<1>6. \A d \in Conns : d # c => Status(d)' = Status(d)
  BY <1>1, <1>3, <1>4 DEF Status
<1>7. \A d \in 1..(c - 1) : Status(d) # "new"
  BY <1>3 DEF Status
<1>8. StatusOf' = [StatusOf EXCEPT ![c] = "backlog"]
  BY <1>3, <1>5, <1>6, StatusMoves
<1>9. DescOf' = DescOf
  BY <1>1, <1>4, DescStays
<1>10. Life!Arrive(c)
  <2>1. StatusOf[c] = "new" /\ \A d \in 1..(c - 1) : StatusOf[d] # "new"
    BY <1>3, <1>5, <1>7 DEF StatusOf
  <2> QED
    BY <1>8, <1>9, <2>1 DEF Life!Arrive, Life!Become, StatusOf, DescOf
<1> QED
  BY <1>3, <1>10 DEF Life!Next, Life!Conns, Conns

\* The first of the backlog is accepted, and watched at once, or later, or never.
LEMMA LifeAccepted ==
  ASSUME IInv, NEW c \in Conns, NEW f \in Fds, Took(c, f), UNCHANGED arrived,
         \A d \in Conns : d # c =>
           /\ home'[d] = home[d] /\ (d \in lost' <=> d \in lost)
           /\ InQueue(d)' <=> InQueue(d)
           /\ Stuck(home[d])' <=> Stuck(home[d])
  PROVE  Life!Next
<1>1. TypeOK /\ Fresh /\ Described
  BY DEF IInv, Placed
<1>2. /\ c = accepted + 1 /\ accepted' = c /\ c <= arrived /\ file[f] = 0 /\ fd'[c] = f
      /\ \A d \in Conns : d # c => fd'[d] = fd[d]
      /\ IsOpen(c)' /\ \A d \in Conns : d # c => (IsOpen(d)' <=> IsOpen(d))
  BY DEF Took
<1>3. arrived \in Nat /\ accepted \in Nat /\ accepted <= arrived /\ MaxConns \in Nat
  BY <1>1, Numbers
<1>4. /\ ~(c > arrived) /\ c > accepted /\ ~(c > c)
      /\ \A d \in Conns : d # c => (d > c <=> d > accepted)
      /\ \A d \in 1..(c - 1) : d \in Conns /\ ~(d > accepted)
  BY <1>2, <1>3 DEF Conns
<1>5. Status(c) = "backlog"
  BY <1>4 DEF Status
<1>6. Status(c)' \in {"accepted", "open", "lost"}
  BY <1>2, <1>4 DEF Status
<1>7. \A d \in Conns : d # c => Status(d)' = Status(d)
  <2> SUFFICES ASSUME NEW d \in Conns, d # c PROVE Status(d)' = Status(d)
    OBVIOUS
  <2> QED
    BY <1>2, <1>4 DEF Status
<1>8. \A d \in 1..(c - 1) : Status(d) # "backlog"
  BY <1>4 DEF Status
<1>9. \A d \in Conns : DescOf[d] # f
  <2> SUFFICES ASSUME NEW d \in Conns, DescOf[d] = f PROVE FALSE
    OBVIOUS
  <2>1. f # 0 /\ d # 0
    BY <1>1, Numbers
  <2>2. IsOpen(d) /\ fd[d] = f
    BY <2>1 DEF DescOf
  <2> QED
    BY <1>2, <2>1, <2>2 DEF IsOpen
<1>10. DescOf' = [DescOf EXCEPT ![c] = f]
  BY <1>2, DescMoves
<1>11. StatusOf' = [StatusOf EXCEPT ![c] = Status(c)']
  BY <1>7, StatusMoves
<1>12. Life!Accept(c)
  <2>1. StatusOf[c] = "backlog" /\ \A d \in 1..(c - 1) : StatusOf[d] # "backlog"
    BY <1>4, <1>5, <1>8 DEF StatusOf
  <2>2. \/ StatusOf' = [StatusOf EXCEPT ![c] = "accepted"]
        \/ StatusOf' = [StatusOf EXCEPT ![c] = "open"]
        \/ StatusOf' = [StatusOf EXCEPT ![c] = "lost"]
    BY <1>6, <1>11
  <2>3. Life!TakeFd(c)
    BY <1>9, <1>10 DEF Life!TakeFd, Life!Conns, Conns, DescOf
  <2> QED
    BY <2>1, <2>2, <2>3 DEF Life!Accept, Life!Become, StatusOf
<1> QED
  BY <1>12 DEF Life!Next, Life!Conns, Conns

\* Connections that were accepted are lost, if any.
LEMMA LifeLoses ==
  ASSUME \A d \in Conns : (IsOpen(d)' <=> IsOpen(d)) /\ (IsOpen(d) => fd'[d] = fd[d]),
         \A d \in Conns : Status(d)' = Status(d)
                          \/ (Status(d) \in {"accepted", "open"} /\ Status(d)' = "lost")
  PROVE  Life!Next
<1>1. DescOf' = DescOf
  BY DescStays
<1>2. \A d \in Conns : Status(d) \in {"new", "backlog", "accepted", "open", "closed", "lost"}
  BY DEF Status
<1>3. \A d \in Conns : Status(d)' \in {"new", "backlog", "accepted", "open", "closed", "lost"}
  BY <1>2
<1>4. Life!Lose
  BY <1>1, <1>3 DEF Life!Lose, Life!Statuses, Life!Conns, Conns, StatusOf, DescOf
<1> QED
  BY <1>4 DEF Life!Next

\* The head of a queue leaves it, and was in none other.
LEMMA HeadLeaves ==
  ASSUME IInv, NEW l \in Loops, queue[l] # <<>>, queue' = [queue EXCEPT ![l] = Tail(@)],
         UNCHANGED home, NEW c, c = Head(queue[l])
  PROVE  /\ c \in Conns /\ HandedOver(l, c) /\ InQueue(c) /\ ~InQueue(c)'
         /\ \A d \in Conns : d # c => (InQueue(d)' <=> InQueue(d))
<1>1. TypeOK /\ Queued
  BY DEF IInv, Placed
<1>2. queue[l] \in Seq(Conns) /\ Len(queue[l]) \in Nat
  BY <1>1 DEF TypeOK
<1>3. /\ c = queue[l][1] /\ 1 \in 1..Len(queue[l])
      /\ Len(Tail(queue[l])) = Len(queue[l]) - 1
      /\ \A i \in 1..Len(Tail(queue[l])) : Tail(queue[l])[i] = queue[l][i + 1]
  BY <1>2, HeadTailProperties
<1>4. c \in Conns /\ HandedOver(l, c) /\ home[c] = l
  BY <1>1, <1>2, <1>3 DEF Queued, HandedOver
<1>5. /\ queue'[l] = Tail(queue[l]) /\ \A m \in Loops : m # l => queue'[m] = queue[m]
  BY <1>1 DEF TypeOK
<1>6. InQueue(c)
  BY <1>3, <1>4 DEF InQueue
<1>7. \A i \in 1..Len(queue'[l]) : i + 1 \in 1..Len(queue[l]) /\ i + 1 # 1
  <2>1. Len(queue'[l]) = Len(queue[l]) - 1
    BY <1>3, <1>5
  <2> QED
    BY <1>2, <2>1
<1>8. ~InQueue(c)'
  <2> SUFFICES ASSUME NEW i \in 1..Len(queue'[l]), queue'[l][i] = c PROVE FALSE
    BY <1>4 DEF InQueue
  <2>1. queue[l][i + 1] = c
    BY <1>3, <1>5
  <2>2. i + 1 \in 1..Len(queue[l]) /\ i + 1 # 1
    BY <1>7
  <2>3. i + 1 = 1
    BY <1>1, <1>3, <2>1, <2>2 DEF Queued
  <2> QED
    BY <2>2, <2>3
<1>9. ASSUME NEW d \in Conns, d # c PROVE InQueue(d)' <=> InQueue(d)
  <2>1. CASE home[d] # l
    <3>1. home[d] \in Loops
      BY <1>1 DEF TypeOK
    <3> QED
      BY <1>5, <2>1, <3>1 DEF InQueue
  <2>2. ASSUME home[d] = l, NEW i \in 1..Len(queue[l]), queue[l][i] = d PROVE InQueue(d)'
    <3>1. i - 1 \in 1..Len(queue'[l]) /\ (i - 1) + 1 = i
      BY <1>2, <1>3, <1>5, <1>9, <2>2
    <3>2. queue'[l][i - 1] = queue[l][(i - 1) + 1]
      BY <1>3, <1>5, <3>1
    <3> QED
      BY <2>2, <3>1, <3>2 DEF InQueue
  <2>3. ASSUME home[d] = l, NEW i \in 1..Len(queue'[l]), queue'[l][i] = d PROVE InQueue(d)
    <3>1. queue[l][i + 1] = d
      BY <1>3, <1>5, <2>3
    <3>2. i + 1 \in 1..Len(queue[l])
      BY <1>7, <2>3
    <3> QED
      BY <2>3, <3>1, <3>2 DEF InQueue
  <2> QED
    BY <2>1, <2>2, <2>3 DEF InQueue
<1> QED
  BY <1>4, <1>6, <1>8, <1>9

\* The loop begins to watch what it was handed, or loses it.
LEMMA LifeRegistered ==
  ASSUME IInv, NEW l \in Loops, RegisterHttp(l)
  PROVE  Life!Next
<1> SUFFICES ASSUME NEW c, c = Head(queue[l]) PROVE Life!Next
  OBVIOUS
<1>1. TypeOK /\ Described
  BY DEF IInv, Placed
<1>2. /\ UNCHANGED <<arrived, accepted, home, fd, file, pc>>
      /\ pc[l] = "handle" /\ AddChannel(l, c, fd[c])
      /\ queue[l] # <<>> /\ queue' = [queue EXCEPT ![l] = Tail(@)]
  BY DEF RegisterHttp
<1>3. /\ c \in Conns /\ HandedOver(l, c) /\ InQueue(c) /\ ~InQueue(c)'
      /\ \A d \in Conns : d # c => (InQueue(d)' <=> InQueue(d))
  BY <1>2, HeadLeaves
<1>4. c <= accepted /\ IsOpen(c) /\ c \notin lost /\ home[c] = l /\ fd[c] \in Fds /\ ~Stuck(home[c])
  BY <1>1, <1>2, <1>3 DEF HandedOver, Described, Stuck
<1>5. lost' = lost \/ lost' = lost \union {c}
  BY <1>1, <1>2, <1>3, <1>4, AddChannelEffect DEF AddEffect
<1>6. \A d \in Conns : (IsOpen(d)' <=> IsOpen(d)) /\ (Stuck(home[d])' <=> Stuck(home[d]))
  BY <1>2 DEF IsOpen, Stuck
<1>7. ~(c > accepted) /\ ~(c > arrived)
  BY <1>1, <1>3, <1>4, Numbers
<1>8. Status(c) = "accepted" /\ Status(c)' \in {"open", "lost"}
  BY <1>2, <1>3, <1>4, <1>6, <1>7 DEF Status
<1>9. \A d \in Conns : d # c => Status(d)' = Status(d)
  BY <1>2, <1>3, <1>5, <1>6 DEF Status
<1>10. CASE Status(c)' = "open"
  <2>1. StatusOf' = [StatusOf EXCEPT ![c] = "open"] /\ StatusOf[c] = "accepted"
    BY <1>3, <1>8, <1>9, <1>10, StatusMoves DEF StatusOf
  <2>2. DescOf' = DescOf
    BY <1>2, <1>6, DescStays
  <2>3. Life!Open(c)
    BY <2>1, <2>2 DEF Life!Open, Life!Become, StatusOf, DescOf
  <2> QED
    BY <1>3, <2>3 DEF Life!Next, Life!Conns, Conns
<1>11. CASE Status(c)' = "lost"
  BY <1>2, <1>6, <1>8, <1>9, <1>11, LifeLoses
<1> QED
  BY <1>8, <1>10, <1>11

\* A closed connection gives its descriptor back, and no other connection had it.
LEMMA LifeCloses ==
  ASSUME IInv, NEW c \in Conns, CloseFd(c), IsOpen(c), c \notin lost, ~InQueue(c),
         UNCHANGED <<arrived, accepted, lost, home, fd, queue>>,
         \A m \in Loops : Stuck(m)' <=> Stuck(m)
  PROVE  Life!Next
<1>1. TypeOK /\ Described
  BY DEF IInv, Placed
<1>2. /\ fd[c] \in Fds /\ file[fd[c]] = c /\ c <= accepted
      /\ \A d \in Conns : IsOpen(d) /\ d # c => fd[d] # fd[c]
  BY <1>1, OpenOne
<1>3. c # 0 /\ ~(c > accepted) /\ ~(c > arrived)
  BY <1>1, <1>2, Numbers
<1>4. file'[fd[c]] = 0 /\ \A g \in Fds : g # fd[c] => file'[g] = file[g]
  BY <1>1, <1>2 DEF TypeOK, CloseFd
<1>5. ~IsOpen(c)'
  BY <1>3, <1>4 DEF IsOpen
<1>6. ASSUME NEW d \in Conns, d # c PROVE IsOpen(d)' <=> IsOpen(d)
  <2>1. d # 0 /\ (fd[d] = 0 \/ fd[d] \in Fds)
    BY <1>1, Numbers DEF TypeOK
  <2> QED
    BY <1>2, <1>4, <1>6, <2>1 DEF IsOpen
<1>7. \A d \in Conns : (InQueue(d)' <=> InQueue(d)) /\ (Stuck(home[d])' <=> Stuck(home[d]))
  BY <1>1 DEF InQueue, TypeOK
<1>8. Status(c) = "open" /\ Status(c)' = "closed"
  BY <1>3, <1>5, <1>7 DEF Status
<1>9. \A d \in Conns : d # c => Status(d)' = Status(d)
  BY <1>6, <1>7 DEF Status
<1>10. StatusOf' = [StatusOf EXCEPT ![c] = "closed"] /\ StatusOf[c] = "open"
  BY <1>8, <1>9, StatusMoves DEF StatusOf
<1>11. DescOf' = [DescOf EXCEPT ![c] = 0]
  BY <1>5, <1>6, DescMoves
<1>12. Life!Close(c)
  BY <1>10, <1>11 DEF Life!Close, Life!Become, StatusOf, DescOf
<1> QED
  BY <1>12 DEF Life!Next, Life!Conns, Conns

\* handleRegister closes the connection of the event, or leaves that to the acceptor.
LEMMA LifeClosesHere ==
  ASSUME IInv, NEW l \in Loops, HandleClose(l)
  PROVE  Life!Next \/ UNCHANGED Life!vars
<1>1. TypeOK /\ InHand
  BY DEF IInv, Held
<1>2. /\ UNCHANGED <<arrived, accepted, lost, home, fd, queue, held>>
      /\ pc[l] = "register" /\ pc' = [pc EXCEPT ![l] = "del"]
  BY DEF HandleClose, Goto, acceptVars
<1>3. \A m \in Loops : Stuck(m)' <=> Stuck(m)
  BY <1>1, <1>2 DEF Stuck, TypeOK
<1>4. CASE cur[l] # held /\ CloseFd(cur[l])
  <2>1. /\ cur[l] \in Conns /\ cur[l] \notin lost /\ IsOpen(cur[l])
        /\ \A m \in Loops : \A i \in 1..Len(queue[m]) : queue[m][i] # cur[l]
    BY <1>1, <1>2, WatchedFacts DEF InHand
  <2>2. ~InQueue(cur[l])
    BY <1>1, <2>1 DEF InQueue, TypeOK
  <2> QED
    BY <1>2, <1>3, <1>4, <2>1, <2>2, LifeCloses
<1>5. CASE UNCHANGED file
  BY <1>1, <1>2, <1>3, <1>5, LifeStays
<1> QED
  BY <1>4, <1>5 DEF HandleClose

\* The acceptor has the last reference, or gives up one of several.
LEMMA LifeReleased ==
  ASSUME IInv, ReleaseHttp
  PROVE  Life!Next \/ UNCHANGED Life!vars
<1>1. TypeOK /\ Holding
  BY DEF IInv, Held
<1>2. UNCHANGED <<arrived, accepted, lost, home, fd, queue, pc>> /\ held # 0
  BY DEF ReleaseHttp, loopVars
<1>3. \A m \in Loops : Stuck(m)' <=> Stuck(m)
  BY <1>2 DEF Stuck
<1>4. CASE ~Referred(held) /\ CloseFd(held)
  <2>1. held \in Conns /\ IsOpen(held) /\ held \notin timer /\ held \notin lost
    BY <1>1, <1>2, <1>4 DEF Holding, Referred
  <2>2. ~InQueue(held)
    BY <1>1, <1>4, <2>1 DEF InQueue, Referred, TypeOK
  <2> SUFFICES ASSUME NEW h, h = held PROVE Life!Next
    OBVIOUS
  <2> QED
    BY <1>2, <1>3, <1>4, <2>1, <2>2, LifeCloses
<1>5. CASE UNCHANGED file
  BY <1>1, <1>2, <1>3, <1>5, LifeStays
<1> QED
  BY <1>4, <1>5 DEF ReleaseHttp

\* EPOLL_CTL_MOD may lose the connection, which was open.
LEMMA LifeRearmed ==
  ASSUME IInv, NEW l \in Loops, HandleRegister(l)
  PROVE  Life!Next \/ UNCHANGED Life!vars
<1> SUFFICES ASSUME NEW c, c = cur[l] PROVE Life!Next \/ UNCHANGED Life!vars
  OBVIOUS
<1>1. TypeOK /\ InHand
  BY DEF IInv, Held
<1>2. /\ UNCHANGED <<arrived, accepted, home, fd, file, queue>>
      /\ pc[l] = "register" /\ pc' = [pc EXCEPT ![l] = "handle"] /\ UpdateChannel(l, c)
  BY DEF HandleRegister, Goto
<1>3. \A m \in Loops : Stuck(m)' <=> Stuck(m)
  BY <1>1, <1>2 DEF Stuck, TypeOK
<1>4. /\ c \in Conns /\ c \notin lost /\ IsOpen(c) /\ c <= accepted /\ fd[c] \in Fds
      /\ \A m \in Loops : \A i \in 1..Len(queue[m]) : queue[m][i] # c
  BY <1>1, <1>2, WatchedFacts DEF InHand
<1>5. lost' = lost \/ lost' = lost \union {c}
  BY <1>1, <1>2, <1>4, UpdateChannelEffect DEF ModEffect
<1>6. CASE lost' = lost
  BY <1>1, <1>2, <1>3, <1>6, LifeStays
<1>7. CASE lost' = lost \union {c}
  <2>1. \A d \in Conns : IsOpen(d)' <=> IsOpen(d)
    BY <1>2 DEF IsOpen
  <2>2. \A d \in Conns : (InQueue(d)' <=> InQueue(d)) /\ (Stuck(home[d])' <=> Stuck(home[d]))
    BY <1>1, <1>2, <1>3 DEF InQueue, TypeOK
  <2>3. ~(c > accepted) /\ ~(c > arrived) /\ ~InQueue(c)
    <3>1. ~(c > accepted) /\ ~(c > arrived)
      BY <1>1, <1>4, Numbers
    <3> QED
      BY <1>1, <1>4, <3>1 DEF InQueue, TypeOK
  <2>4. Status(c) = "open" /\ Status(c)' = "lost"
    BY <1>2, <1>4, <1>7, <2>1, <2>3 DEF Status
  <2>5. \A d \in Conns : d # c => Status(d)' = Status(d)
    BY <1>2, <1>7, <2>1, <2>2 DEF Status
  <2> QED
    BY <1>2, <2>1, <2>4, <2>5, LifeLoses
<1> QED
  BY <1>5, <1>6, <1>7

\* A loop that hangs loses what waits in its queue.
LEMMA LifeHandled ==
  ASSUME IInv, NEW l \in Loops, HandleEvent(l)
  PROVE  Life!Next \/ UNCHANGED Life!vars
<1>1. TypeOK /\ Queued
  BY DEF IInv, Placed
<1>2. UNCHANGED <<arrived, accepted, lost, home, fd, file, queue>> /\ pc[l] = "handle"
  BY DEF HandleEvent, acceptVars
<1>3. PICK where \in {"register", "stuck"} : pc' = [pc EXCEPT ![l] = where]
  BY DEF HandleEvent, HandleRead, HandleWrite, Goto
<1>4. CASE where = "register"
  <2>1. \A m \in Loops : Stuck(m)' <=> Stuck(m)
    BY <1>1, <1>2, <1>3, <1>4 DEF Stuck, TypeOK
  <2> QED
    BY <1>1, <1>2, <2>1, LifeStays
<1>5. CASE where = "stuck"
  <2>1. \A d \in Conns : (IsOpen(d)' <=> IsOpen(d)) /\ (InQueue(d)' <=> InQueue(d))
    BY <1>1, <1>2 DEF IsOpen, InQueue, TypeOK
  <2>2. \A m \in Loops : Stuck(m)' <=> Stuck(m) \/ m = l
    BY <1>1, <1>2, <1>3, <1>5 DEF Stuck, TypeOK
  <2>3. \A d \in Conns : Stuck(home[d])' <=> Stuck(home[d]) \/ home[d] = l
    BY <1>1, <1>2, <2>2 DEF TypeOK, Stuck
  <2>4. ASSUME NEW d \in Conns
        PROVE  Status(d)' = Status(d) \/ (Status(d) \in {"accepted", "open"} /\ Status(d)' = "lost")
    <3>1. CASE InQueue(d) /\ home[d] = l
      <4>1. HandedOver(l, d)
        BY <1>1, <3>1 DEF InQueue, Queued
      <4>2. IsOpen(d) /\ d \notin lost /\ ~(d > accepted) /\ ~(d > arrived)
        BY <1>1, <2>4, <4>1, Numbers DEF HandedOver
      <4>3. Status(d) = "accepted"
        BY <1>2, <3>1, <4>2 DEF Status, Stuck
      <4>4. Status(d)' = "lost"
        BY <1>2, <2>1, <2>3, <3>1, <4>2 DEF Status
      <4> QED
        BY <4>3, <4>4
    <3>2. CASE ~(InQueue(d) /\ home[d] = l)
      <4>1. (InQueue(d) /\ Stuck(home[d]))' <=> InQueue(d) /\ Stuck(home[d])
        BY <2>1, <2>3, <3>2
      <4> QED
        BY <1>2, <2>1, <4>1 DEF Status
    <3> QED
      BY <3>1, <3>2
  <2> QED
    BY <1>2, <2>1, <2>4, LifeLoses
<1> QED
  BY <1>3, <1>4, <1>5

LEMMA LifeBegins == Init => Life!Init
<1> SUFFICES ASSUME Init PROVE Life!Init
  OBVIOUS
<1>1. \A c \in Conns : c \in Nat /\ c >= 1
  BY MaxConnsAssumption DEF Conns
<1>2. \A c \in Conns : Status(c) = "new" /\ ~IsOpen(c)
  BY <1>1 DEF Init, Status, IsOpen
<1> QED
  BY <1>2 DEF Life!Init, Life!Conns, Conns

\* An event that is reported, the late EPOLL_CTL_DEL, the end of a round, and what the
\* acceptor does between two connections are no matter of a connection's life.
LEMMA LifeGoesOn ==
  ASSUME IInv,
         \/ \E l \in Loops : Poll(l) \/ CtlDel(l) \/ EndRound(l)
         \/ HandleAccept \/ AcceptEnds \/ RegisterConnection
  PROVE  UNCHANGED Life!vars
<1>1. TypeOK
  BY DEF IInv
<1>2. UNCHANGED <<arrived, accepted, lost, fd, file, home, queue>>
  BY DEF Poll, CtlDel, EndRound, HandleAccept, AcceptEnds, RegisterConnection, acceptVars
<1>3. PICK l \in Loops : \E where \in {"poll", "handle", "accept", "rearm"} :
        pc' = [pc EXCEPT ![l] = where] /\ pc[l] # "stuck"
  BY <1>1, Numbers DEF Poll, CtlDel, EndRound, HandleAccept, AcceptEnds, RegisterConnection, Goto
<1>4. \A m \in Loops : Stuck(m)' <=> Stuck(m)
  BY <1>1, <1>3 DEF Stuck, TypeOK
<1> QED
  BY <1>1, <1>2, <1>4, LifeStays

\* The connection that newConnection takes waits in a queue, or is watched, or lost.
LEMMA LifeTaken ==
  ASSUME IInv, NewConnection \/ NonBlockingFails
  PROVE  Life!Next
<1> SUFFICES ASSUME NEW c, c = accepted + 1 PROVE Life!Next
  OBVIOUS
<1>1. TypeOK /\ pc[0] = "accept"
  BY DEF IInv, NewConnection, NonBlockingFails, TakeFirst
<1>2. PICK f \in Fds : TakeFirst(f) /\ fd' = [fd EXCEPT ![c] = f]
  BY DEF NewConnection, NonBlockingFails
<1>3. UNCHANGED <<threads, arrived>>
  BY DEF NewConnection, NonBlockingFails
<1>4. c \in Conns /\ Took(c, f)
  BY <1>2, <1>3, TakeFirstEffect
<1>5. CASE NonBlockingFails
  <2>1. /\ UNCHANGED <<home, queue>> /\ lost' = lost \union {c}
        /\ pc' = [pc EXCEPT ![0] = "rearm"]
    BY <1>5 DEF NonBlockingFails, Goto
  <2>2. \A m \in Loops : Stuck(m)' <=> Stuck(m)
    BY <1>1, <2>1 DEF Stuck, TypeOK
  <2>3. \A d \in Conns : InQueue(d)' <=> InQueue(d)
    BY <2>1 DEF InQueue
  <2>4. \A d \in Conns : Stuck(home[d])' <=> Stuck(home[d])
    BY <1>1, <2>1, <2>2 DEF TypeOK
  <2>5. \A d \in Conns : d # c =>
          home'[d] = home[d] /\ (d \in lost' <=> d \in lost)
    BY <2>1
  <2> QED
    BY <1>3, <1>4, <2>3, <2>4, <2>5, LifeAccepted
<1>6. CASE NewConnection
  <2> SUFFICES ASSUME NEW l, l = NextLoop PROVE Life!Next
    OBVIOUS
  <2>1. /\ home' = [home EXCEPT ![c] = l] /\ pc' = pc
        /\ \/ \E g \in Fds : l = 0 /\ AddChannel(l, c, g) /\ UNCHANGED queue
           \/ queue' = [queue EXCEPT ![l] = Append(@, c)] /\ UNCHANGED lost
    BY <1>6 DEF NewConnection
  <2>2. \A d \in Conns : d # c => home'[d] = home[d]
    BY <1>1, <2>1 DEF TypeOK
  <2>3. \A d \in Conns : d # c => (Stuck(home[d])' <=> Stuck(home[d]))
    BY <2>1, <2>2 DEF Stuck
  <2>4. CASE \E g \in Fds : l = 0 /\ AddChannel(l, c, g) /\ UNCHANGED queue
    <3>1. PICK g \in Fds : AddChannel(0, c, g)
      BY <2>4
    <3>2. AddEffect(0, c, g)
      BY <1>1, <1>4, <3>1, AddChannelEffect, Numbers
    <3>3. \A d \in Conns : d # c => (d \in lost' <=> d \in lost) /\ (InQueue(d)' <=> InQueue(d))
      BY <2>2, <2>4, <3>2 DEF AddEffect, InQueue
    <3> QED
      BY <1>3, <1>4, <2>2, <2>3, <3>3, LifeAccepted
  <2>5. CASE queue' = [queue EXCEPT ![l] = Append(@, c)] /\ UNCHANGED lost
    <3>1. ASSUME NEW d \in Conns, d # c PROVE InQueue(d)' <=> InQueue(d)
      <4>1. home'[d] = home[d] /\ home[d] \in Loops
        BY <1>1, <2>2, <3>1 DEF TypeOK
      <4>2. queue[home[d]] \in Seq(Conns) /\ Len(queue[home[d]]) \in Nat
        BY <1>1, <4>1 DEF TypeOK
      <4>3. queue'[home[d]] = queue[home[d]] \/ queue'[home[d]] = Append(queue[home[d]], c)
        BY <1>1, <2>5, <4>1 DEF TypeOK
      <4>4. CASE queue'[home[d]] = queue[home[d]]
        BY <4>1, <4>4 DEF InQueue
      <4>5. CASE queue'[home[d]] = Append(queue[home[d]], c)
        <5>1. /\ Len(queue'[home[d]]) = Len(queue[home[d]]) + 1
              /\ \A i \in 1..Len(queue[home[d]]) : queue'[home[d]][i] = queue[home[d]][i]
              /\ queue'[home[d]][Len(queue[home[d]]) + 1] = c
          BY <1>4, <4>2, <4>5, AppendProperties
        <5>2. \A i \in 1..Len(queue'[home[d]]) :
                i \in 1..Len(queue[home[d]]) \/ i = Len(queue[home[d]]) + 1
          BY <4>2, <5>1
        <5>3. 1..Len(queue[home[d]]) \subseteq 1..Len(queue'[home[d]])
          BY <4>2, <5>1
        <5> QED
          BY <3>1, <4>1, <5>1, <5>2, <5>3 DEF InQueue
      <4> QED
        BY <4>3, <4>4, <4>5
    <3> QED
      BY <1>3, <1>4, <2>2, <2>3, <2>5, <3>1, LifeAccepted
  <2> QED
    BY <2>1, <2>4, <2>5
<1> QED
  BY <1>5, <1>6

\* Server implements the safety part of ConnLife: connections are accepted in order, no two
\* have one descriptor, and each lives its one life, for any number of loops, descriptors
\* and connections, whichever system calls fail and whichever loops hang.
THEOREM LivesOneLife == SafeSpec => Life!SafeSpec
<1>1. ASSUME IInv, [Next]_vars PROVE Life!Next \/ UNCHANGED Life!vars
  <2>1. TypeOK
    BY <1>1 DEF IInv
  <2>2. CASE Arrive
    BY <1>1, <2>2, LifeArrives
  <2>3. CASE UNCHANGED vars \/ \E c \in Conns : Send(c) \/ Writable(c)
    <3>1. UNCHANGED <<arrived, accepted, lost, fd, file, home, queue, pc>>
      BY <2>3 DEF vars, Send, Writable, acceptVars, loopVars
    <3>2. \A m \in Loops : Stuck(m)' <=> Stuck(m)
      BY <3>1 DEF Stuck
    <3> QED
      BY <2>1, <3>1, <3>2, LifeStays
  <2>4. ASSUME NEW l \in Loops, ConnStep(l) PROVE Life!Next \/ UNCHANGED Life!vars
    BY <1>1, <2>4, LifeRegistered, LifeClosesHere, LifeRearmed, LifeHandled, LifeGoesOn DEF ConnStep
  <2>5. CASE AcceptorStep
    BY <1>1, <2>5, LifeTaken, LifeReleased, LifeGoesOn DEF AcceptorStep
  <2> QED
    BY <1>1, <2>2, <2>3, <2>4, <2>5 DEF Next, LoopStep
<1>2. IInv /\ [Next]_vars => [Life!Next]_(Life!vars)
  BY <1>1
<1> QED
  BY <1>2, Inductive, LifeBegins, PTL DEF SafeSpec, Life!SafeSpec

=============================================================================
