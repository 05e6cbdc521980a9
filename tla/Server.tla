------------------------------- MODULE Server -------------------------------
(***************************************************************************)
(* The acceptor, the round robin over the I/O loops, and the registry of   *)
(* each loop: Server, EventLoopThreadPool::getNextLoop, EpollPoller and    *)
(* the life of the Http objects they share.                                *)
(*                                                                         *)
(* Loop 0 is the main loop, which runs the acceptor; loops 1..threads are  *)
(* the pool's, and without a pool loop 0 serves the connections too.  The  *)
(* queue of a loop is the FunctorQueue that EventLoop implements, so that  *)
(* a functor in it ends epoll_wait.  What a connection does with an event  *)
(* is in HttpConn: here it takes what there is and goes on, or closes; it  *)
(* may be left with EPOLLOUT only, or keep its thread for ever.            *)
(***************************************************************************)
EXTENDS Naturals, Sequences, FiniteSets

CONSTANTS
  ThreadNums,  \* the values of -t
  Fds,         \* the descriptors that are left for connections
  MaxConns,    \* bound: connections are numbered 1..MaxConns as they arrive
  Faults(_)    \* what may go wrong with so many threads, a subset of AllFaults

\* fcntl, epoll_ctl: the call may fail; short: a response may be cut short; stuck: a peer
\* may never take an error response (HttpConn).
AllFaults == {"fcntl", "epoll_ctl", "short", "stuck"}

ASSUME ThreadNumsAssumption == ThreadNums \subseteq Nat
ASSUME FdsAssumption == Fds \subseteq Nat \ {0}
ASSUME MaxConnsAssumption == MaxConns \in Nat
ASSUME FaultsAssumption == \A n \in ThreadNums : Faults(n) \subseteq AllFaults

Conns == 1..MaxConns
Acceptor == 0          \* the acceptor's channel, among the channels of loop 0
NoEntry == MaxConns + 1  \* channels_ has no entry for a descriptor; 0 is a null pointer

VARIABLES
  threads,   \* numThreads_, the number of loops_
  next,      \* next_
  arrived,   \* how many connections arrived
  accepted,  \* how many of them were accepted
  listening, \* the listening descriptor is on loop 0's ready list
  deaf,      \* the acceptor's channel is not in channels_ of loop 0
  home,      \* per connection: the loop it was given to
  fd,        \* per connection: the fd_ of its Http and channel
  file,      \* per descriptor: the connection that is open under it, or 0
  held,      \* the connection whose Http newConnection's httpData refers to, or 0
  lost,      \* history: the connections that a failed system call left open for ever
  unread,    \* the connections with something to read (or an end, or an error)
  outOnly,   \* the connections that have EPOLLOUT in the mask of their channel
  reg,       \* per connection: its registration in the epoll set of its loop
  ready,     \* the connections on the ready list of that epoll set
  channels,  \* per loop and descriptor: channels_
  https,     \* per loop and descriptor: https_
  timer,     \* the connections whose Http a node of the timer heap holds
  queue,     \* per loop: the registerHttp functors in it
  active,    \* per loop: what is left to handle of activeChannels_
  pc,        \* per loop: where its thread is
  cur        \* per loop: the connection whose event it is handling, or 0

acceptVars == <<deaf, next, accepted, home, fd, held, lost>>
registryVars == <<outOnly, reg, ready, channels, https, timer>>
loopVars == <<queue, active, pc, cur>>
vars == <<threads, arrived, listening, acceptVars, file, unread, registryVars, loopVars>>

Loops == 0..threads

Init ==
  /\ threads \in ThreadNums
  /\ next = 0
  /\ arrived = 0
  /\ accepted = 0
  /\ listening = FALSE
  /\ deaf \in BOOLEAN /\ (deaf => "epoll_ctl" \in Faults(threads))
  /\ home = [c \in Conns |-> 0]
  /\ fd = [c \in Conns |-> 0]
  /\ file = [f \in Fds |-> 0]
  /\ held = 0
  /\ lost = {}
  /\ unread = {}
  /\ outOnly = {}
  /\ reg = [c \in Conns |-> "none"]
  /\ ready = {}
  /\ channels = [l \in Loops |-> [f \in Fds |-> NoEntry]]
  /\ https = [l \in Loops |-> [f \in Fds |-> 0]]
  /\ timer = {}
  /\ queue = [l \in Loops |-> <<>>]
  /\ active = [l \in Loops |-> {}]
  /\ pc = [l \in Loops |-> "poll"]
  /\ cur = [l \in Loops |-> 0]

Goto(l, where) == pc' = [pc EXCEPT ![l] = where]

\* The socket of c is open.
IsOpen(c) == fd[c] # 0 /\ file[fd[c]] = c

-----------------------------------------------------------------------------
(* The peers                                                               *)

Arrive ==
  /\ arrived < MaxConns
  /\ arrived' = arrived + 1
  /\ listening' = TRUE
  /\ UNCHANGED <<threads, acceptVars, file, unread, registryVars, loopVars>>

\* Something comes for c, accepted or not: an edge of its registration, if that is
\* armed.
Send(c) ==
  /\ c <= arrived
  /\ c <= accepted => IsOpen(c)
  /\ unread' = unread \union {c}
  /\ ready' = IF reg[c] \in {"armed", "oneshot"} THEN ready \union {c} ELSE ready
  /\ UNCHANGED <<threads, arrived, listening, acceptVars, file, outOnly, reg, channels, https,
                 timer, loopVars>>

\* There is room for c to send, or an error or the end of its connection.
Writable(c) ==
  /\ reg[c] = "out"
  /\ ready' = ready \union {c}
  /\ UNCHANGED <<threads, arrived, listening, acceptVars, file, unread, outOnly, reg, channels,
                 https, timer, loopVars>>

-----------------------------------------------------------------------------
(* EpollPoller                                                             *)

ReadyOn(l) == {c \in ready : home[c] = l}

\* What fillActiveChannels finds no channel for in channels_ is left out.
Dropped(l, c) == channels[l][fd[c]] = NoEntry

\* Mutant: an event without a channel is reported, too.
PollAll(l) ==
  /\ pc[l] = "poll"
  /\ ReadyOn(l) # {} \/ queue[l] # <<>> \/ (l = 0 /\ listening)
  /\ active' = [active EXCEPT ![l] =
                  ReadyOn(l) \union (IF l = 0 /\ listening /\ ~deaf THEN {Acceptor} ELSE {})]
  /\ ready' = ready \ ReadyOn(l)
  /\ reg' = [c \in Conns |-> IF c \in ReadyOn(l) /\ reg[c] = "oneshot" THEN "disarmed" ELSE reg[c]]
  /\ listening' = (listening /\ l # 0)
  /\ Goto(l, "handle")
  /\ UNCHANGED <<threads, arrived, acceptVars, file, unread, outOnly, channels, https, timer,
                 queue, cur>>

\* poll: epoll_wait reports what is ready; a registration with EPOLLONESHOT is disarmed
\* by it.  It also returns when a functor was queued.
Poll(l) ==
  /\ pc[l] = "poll"
  /\ ReadyOn(l) # {} \/ queue[l] # <<>> \/ (l = 0 /\ listening)
  /\ active' = [active EXCEPT ![l] =
                  {c \in ReadyOn(l) : ~Dropped(l, c)}
                    \union (IF l = 0 /\ listening /\ ~deaf THEN {Acceptor} ELSE {})]
  /\ ready' = ready \ ReadyOn(l)
  /\ reg' = [c \in Conns |-> IF c \in ReadyOn(l) /\ reg[c] = "oneshot" THEN "disarmed" ELSE reg[c]]
  /\ listening' = (listening /\ l # 0)
  /\ Goto(l, "handle")
  /\ UNCHANGED <<threads, arrived, acceptVars, file, unread, outOnly, channels, https, timer,
                 queue, cur>>

\* Mutant: no timeout is given, without which the Http is not kept.
AddChannelNoTimeout(l, c, f) ==
  /\ channels' = [channels EXCEPT ![l][f] = c]
  /\ reg' = [reg EXCEPT ![c] = "oneshot"]
  /\ ready' = IF c \in unread THEN ready \union {c} ELSE ready
  /\ UNCHANGED <<outOnly, https, timer, lost>>

\* addChannel of the connection c on its loop: the registry and the timer have it before
\* EPOLL_CTL_ADD, and only the entry of channels_ goes if that fails.
AddChannel(l, c, f) ==
  /\ https' = [https EXCEPT ![l][f] = c]
  /\ timer' = timer \union {c}
  /\ UNCHANGED outOnly
  /\ \/ /\ channels' = [channels EXCEPT ![l][f] = c]
        /\ reg' = [reg EXCEPT ![c] = "oneshot"]
        /\ ready' = IF c \in unread THEN ready \union {c} ELSE ready
        /\ UNCHANGED lost
     \/ /\ "epoll_ctl" \in Faults(threads)
        /\ channels' = [channels EXCEPT ![l][f] = NoEntry]
        /\ lost' = lost \union {c}
        /\ UNCHANGED <<reg, ready>>

-----------------------------------------------------------------------------
(* The acceptor                                                            *)

\* The acceptor's channel has an event: newConnection.
HandleAccept ==
  /\ pc[0] = "handle"
  /\ Acceptor \in active[0]
  /\ active' = [active EXCEPT ![0] = @ \ {Acceptor}]
  /\ Goto(0, "accept")
  /\ UNCHANGED <<threads, arrived, listening, acceptVars, file, unread, registryVars, queue, cur>>

Lowest(fs) == CHOOSE f \in fs : \A g \in fs : f <= g

FreeFds == {f \in Fds : file[f] = 0}

\* getNextLoop
NextLoop == IF threads = 0 THEN 0 ELSE next + 1

\* Mutant: next_ does not go back to 0.
AdvanceNextOn == next' = IF threads = 0 THEN next ELSE next + 1

AdvanceNext == next' = IF threads = 0 THEN next ELSE (next + 1) % threads

\* accept() takes the first of the backlog, on the lowest descriptor that is free.
TakeFirst(f) ==
  /\ pc[0] = "accept" /\ held = 0
  /\ accepted < arrived /\ FreeFds # {} /\ f = Lowest(FreeFds)
  /\ accepted' = accepted + 1
  /\ file' = [file EXCEPT ![f] = accepted + 1]
  /\ AdvanceNext

\* Mutant: the main loop's thread registers the connection itself.
NewConnectionDirect ==
  \E f \in Fds :
    LET c == accepted + 1
    IN  /\ TakeFirst(f)
        /\ home' = [home EXCEPT ![c] = NextLoop]
        /\ fd' = [fd EXCEPT ![c] = f]
        /\ held' = c
        /\ AddChannel(NextLoop, c, f)
        /\ UNCHANGED <<threads, arrived, listening, deaf, unread, loopVars>>

\* The connection gets its Http, which runInLoop registers at once on the main loop and
\* through the queue of another; httpData refers to it meanwhile.
NewConnection ==
  \E f \in Fds :
    LET c == accepted + 1
        l == NextLoop
    IN  /\ TakeFirst(f)
        /\ home' = [home EXCEPT ![c] = l]
        /\ fd' = [fd EXCEPT ![c] = f]
        /\ held' = c
        /\ \/ /\ l = 0
              /\ AddChannel(l, c, f)
              /\ UNCHANGED queue
           \/ /\ l # 0
              /\ queue' = [queue EXCEPT ![l] = Append(@, c)]
              /\ UNCHANGED <<registryVars, lost>>
        /\ UNCHANGED <<threads, arrived, listening, deaf, unread, active, pc, cur>>

\* set_socket_non_blocking fails: newConnection returns, with the descriptor open.
NonBlockingFails ==
  \E f \in Fds :
    /\ "fcntl" \in Faults(threads)
    /\ TakeFirst(f)
    /\ fd' = [fd EXCEPT ![accepted + 1] = f]
    /\ lost' = lost \union {accepted + 1}
    /\ Goto(0, "rearm")
    /\ UNCHANGED <<threads, arrived, listening, deaf, home, held, unread, registryVars, queue,
                   active, cur>>

\* The Http of c is referred to by a map, a timer node or a functor of a loop.
Referred(c) ==
  \/ c \in timer
  \/ \E l \in Loops : (\E f \in Fds : https[l][f] = c) \/ (\E i \in 1..Len(queue[l]) : queue[l][i] = c)

\* The last reference to the Http of c is gone: its descriptor is closed, and with it
\* every registration of the socket.
CloseFd(c) ==
  /\ file' = [file EXCEPT ![fd[c]] = 0]
  /\ reg' = [reg EXCEPT ![c] = "none"]
  /\ ready' = ready \ {c}
  /\ unread' = unread \ {c}
  /\ outOnly' = outOnly \ {c}

\* httpData goes out of scope.  The loop may have closed the connection already.
ReleaseHttp ==
  /\ pc[0] = "accept" /\ held # 0
  /\ held' = 0
  /\ \/ Referred(held) /\ UNCHANGED <<file, reg, ready, unread, outOnly>>
     \/ ~Referred(held) /\ CloseFd(held)
  /\ UNCHANGED <<threads, arrived, listening, deaf, next, accepted, home, fd, lost, channels,
                 https, timer, loopVars>>

\* accept() fails: the backlog is empty, or no descriptor is free.
AcceptEnds ==
  /\ pc[0] = "accept" /\ held = 0
  /\ accepted = arrived \/ FreeFds = {}
  /\ Goto(0, "rearm")
  /\ UNCHANGED <<threads, arrived, listening, acceptVars, file, unread, registryVars, queue,
                 active, cur>>

\* registerConnection: EPOLL_CTL_MOD reports a backlog that is left, or fails.
RegisterConnection ==
  /\ pc[0] = "rearm"
  /\ \/ listening' = (listening \/ accepted < arrived) /\ UNCHANGED deaf
     \/ "epoll_ctl" \in Faults(threads) /\ deaf' = TRUE /\ UNCHANGED listening
  /\ Goto(0, "handle")
  /\ UNCHANGED <<threads, arrived, next, accepted, home, fd, held, lost, file, unread,
                 registryVars, queue, active, cur>>

-----------------------------------------------------------------------------
(* A connection on its loop                                                *)

\* The read callback takes what there is.  Its response may be cut short, or be an error
\* response that keeps the thread for ever.
HandleRead(l, c) ==
  /\ c \notin outOnly
  /\ unread' = unread \ {c}
  /\ \/ Goto(l, "register") /\ UNCHANGED outOnly
     \/ "short" \in Faults(threads) /\ Goto(l, "register") /\ outOnly' = outOnly \union {c}
     \/ "stuck" \in Faults(threads) /\ Goto(l, "stuck") /\ UNCHANGED outOnly

\* An EPOLLOUT event reads nothing.
HandleWrite(l, c) ==
  /\ c \in outOnly
  /\ Goto(l, "register")
  /\ UNCHANGED <<unread, outOnly>>

\* The callbacks of an event.
HandleEvent(l) ==
  /\ pc[l] = "handle"
  /\ \E c \in active[l] \ {Acceptor} :
       /\ active' = [active EXCEPT ![l] = @ \ {c}]
       /\ cur' = [cur EXCEPT ![l] = c]
       /\ HandleRead(l, c) \/ HandleWrite(l, c)
  /\ UNCHANGED <<threads, arrived, listening, acceptVars, file, reg, ready, channels, https, timer,
                 queue>>

\* Mutant: the channel is not registered anew.
HandleRegisterNot(l) ==
  /\ pc[l] = "register"
  /\ Goto(l, "handle")
  /\ UNCHANGED <<threads, arrived, listening, acceptVars, file, unread, registryVars, queue,
                 active, cur>>

\* EPOLL_CTL_MOD for c: for reading, when it reports what came meanwhile, or for writing
\* only.  If it fails, the old registration stays without an entry in channels_.
UpdateChannel(l, c) ==
  \/ /\ c \notin outOnly
     /\ reg' = [reg EXCEPT ![c] = "armed"]
     /\ ready' = IF c \in unread THEN ready \union {c} ELSE ready
     /\ UNCHANGED <<channels, lost>>
  \/ /\ c \in outOnly
     /\ reg' = [reg EXCEPT ![c] = "out"]
     /\ UNCHANGED <<ready, channels, lost>>
  \/ /\ "epoll_ctl" \in Faults(threads)
     /\ channels' = [channels EXCEPT ![l][fd[c]] = NoEntry]
     /\ lost' = lost \union {c}
     /\ UNCHANGED <<reg, ready>>

\* handleRegister goes on with the connection: its node is replaced, and its channel is
\* registered anew.
HandleRegister(l) ==
  /\ pc[l] = "register"
  /\ UpdateChannel(l, cur[l])
  /\ cur' = [cur EXCEPT ![l] = 0]
  /\ Goto(l, "handle")
  /\ UNCHANGED <<threads, arrived, listening, deaf, next, accepted, home, fd, held, file, unread,
                 outOnly, https, timer, queue, active>>

\* handleRegister closes the connection: its node gives it up, deleteChannel resets its
\* entries, and that destroys the Http, unless the acceptor still refers to it.
HandleClose(l) ==
  /\ pc[l] = "register"
  /\ timer' = timer \ {cur[l]}
  /\ channels' = [channels EXCEPT ![l][fd[cur[l]]] = 0]
  /\ https' = [https EXCEPT ![l][fd[cur[l]]] = 0]
  /\ \/ cur[l] # held /\ CloseFd(cur[l])
     \/ cur[l] = held /\ UNCHANGED <<file, reg, ready, unread, outOnly>>
  /\ Goto(l, "del")
  /\ UNCHANGED <<threads, arrived, listening, acceptVars, queue, active, cur>>

\* deleteChannel then asks for EPOLL_CTL_DEL of that number, which is nothing's now, still
\* its own, or another connection's: whichever it is leaves this epoll set, if it is there.
CtlDel(l) ==
  /\ pc[l] = "del"
  /\ LET found == {c \in Conns : c = file[fd[cur[l]]] /\ home[c] = l}
     IN  /\ reg' = [c \in Conns |-> IF c \in found THEN "none" ELSE reg[c]]
         /\ ready' = ready \ found
  /\ cur' = [cur EXCEPT ![l] = 0]
  /\ Goto(l, "handle")
  /\ UNCHANGED <<threads, arrived, listening, acceptVars, file, unread, outOnly, channels, https,
                 timer, queue, active>>

\* doPendingFunctors runs registerHttp of a connection that was handed over.
RegisterHttp(l) ==
  /\ pc[l] = "handle" /\ active[l] = {}
  /\ queue[l] # <<>>
  /\ AddChannel(l, Head(queue[l]), fd[Head(queue[l])])
  /\ queue' = [queue EXCEPT ![l] = Tail(@)]
  /\ UNCHANGED <<threads, arrived, listening, deaf, next, accepted, home, fd, held, file, unread,
                 active, pc, cur>>

\* Mutant: the loop may wait again with functors in its queue.
EndRoundEarly(l) ==
  /\ pc[l] = "handle" /\ active[l] = {}
  /\ Goto(l, "poll")
  /\ UNCHANGED <<threads, arrived, listening, acceptVars, file, unread, registryVars, queue,
                 active, cur>>

EndRound(l) ==
  /\ pc[l] = "handle" /\ active[l] = {}
  /\ queue[l] = <<>>
  /\ Goto(l, "poll")
  /\ UNCHANGED <<threads, arrived, listening, acceptVars, file, unread, registryVars, queue,
                 active, cur>>

-----------------------------------------------------------------------------
AcceptorStep ==
  \/ HandleAccept \/ NewConnection \/ ReleaseHttp \/ NonBlockingFails \/ AcceptEnds
  \/ RegisterConnection

ConnStep(l) ==
  \/ Poll(l) \/ HandleEvent(l) \/ HandleRegister(l) \/ HandleClose(l) \/ CtlDel(l)
  \/ RegisterHttp(l) \/ EndRound(l)

LoopStep(l) == l \in Loops /\ (ConnStep(l) \/ (l = 0 /\ AcceptorStep))

AllLoops == UNION {0..n : n \in ThreadNums}

Next == Arrive \/ (\E c \in Conns : Send(c) \/ Writable(c)) \/ (\E l \in AllLoops : LoopStep(l))

SafeSpec == Init /\ [][Next]_vars

\* The thread of each loop is scheduled, until it is stuck.
Spec == SafeSpec /\ \A l \in AllLoops : WF_vars(LoopStep(l))

-----------------------------------------------------------------------------
(* Properties                                                              *)

\* The variables keep to their ranges.
TypeOK ==
  /\ threads \in ThreadNums
  /\ next \in Nat /\ arrived \in 0..MaxConns /\ accepted \in 0..arrived
  /\ listening \in BOOLEAN /\ deaf \in BOOLEAN
  /\ home \in [Conns -> Loops]
  /\ fd \in [Conns -> Fds \union {0}]
  /\ file \in [Fds -> 0..MaxConns]
  /\ held \in 0..MaxConns
  /\ lost \subseteq Conns /\ unread \subseteq Conns /\ outOnly \subseteq Conns
  /\ ready \subseteq Conns /\ timer \subseteq Conns
  /\ reg \in [Conns -> {"none", "oneshot", "disarmed", "armed", "out"}]
  /\ channels \in [Loops -> [Fds -> 0..NoEntry]]
  /\ https \in [Loops -> [Fds -> 0..MaxConns]]
  /\ queue \in [Loops -> Seq(Conns)]
  /\ active \in [Loops -> SUBSET (0..MaxConns)]
  /\ pc \in [Loops -> {"poll", "handle", "accept", "rearm", "register", "del", "stuck"}]
  /\ cur \in [Loops -> 0..MaxConns]

\* An Http exists while something refers to it.
HttpLives(c) == c = held \/ Referred(c)

\* An Http owns its descriptor from the beginning to its end: it is not closed under it,
\* taken by another connection, or left open after it.  What is lost stays open.
OwnDescriptor ==
  \A c \in 1..accepted : IF c \in lost THEN IsOpen(c) ELSE HttpLives(c) <=> IsOpen(c)

\* The raw this of a callback points to an Http that exists, and an event leads to a
\* channel: whatever is reported or being handled is in the maps of its loop, so that the
\* assertions of deleteChannel hold, too.  So is what is registered, but for a connection
\* whose events are dropped, and one that its loop is about to take from its epoll set.
InRegistry(l, c) ==
  HttpLives(c) /\ channels[l][fd[c]] = c /\ https[l][fd[c]] = c

CallbacksSafe ==
  /\ \A c \in Conns : reg[c] # "none" =>
       \/ InRegistry(home[c], c) \/ Dropped(home[c], c)
       \/ pc[home[c]] = "del" /\ cur[home[c]] = c
  /\ \A l \in Loops :
       /\ \A c \in active[l] \ {Acceptor} : InRegistry(l, c)
       /\ pc[l] = "register" => InRegistry(l, cur[l])

\* EPOLL_CTL_DEL is done after the descriptor was closed, when its number may be in use
\* again, unless the acceptor still keeps it open; it never ends the registration of a
\* connection but the one that is being closed.
DelIsHarmless ==
  [][\A l \in Loops : pc[l] = "del" /\ pc'[l] # "del" =>
       \A c \in Conns : c # cur[l] => reg'[c] = reg[c]]_vars

\* The thread of loop l is in an error response that its peer never takes.
Stuck(l) == pc[l] = "stuck"

\* A peer is served.  In the backlog it is accepted, unless there is never a descriptor for
\* it, the acceptor's own epoll_ctl failed or its thread is stuck: neither a failing fcntl()
\* nor a moment without descriptors leaves it there.  And what it sends is read, or its
\* connection closed: edge-triggered events and EPOLLONESHOT lose nothing that comes before,
\* during or after the handling of an event.  That is so while its loop's thread is not
\* stuck, and no response to it was cut short: its channel waits for EPOLLOUT only then
\* (Http.cpp:244).
PeersServed ==
  \A c \in Conns :
    /\ []<>(FreeFds # {}) => []<>(c <= arrived => c <= accepted \/ deaf \/ Stuck(0))
    /\ []<>(c \in unread /\ c <= accepted => c \in lost \/ c \in outOnly \/ Stuck(home[c]))

InQueue(c) == \E i \in 1..Len(queue[home[c]]) : queue[home[c]][i] = c

Status(c) ==
  IF c > arrived THEN "new"
  ELSE IF c > accepted THEN "backlog"
  ELSE IF c \in lost \/ (InQueue(c) /\ Stuck(home[c])) THEN "lost"
  ELSE IF ~IsOpen(c) THEN "closed"
  ELSE IF InQueue(c) THEN "accepted" ELSE "open"

Life == INSTANCE ConnLife
          WITH status <- [c \in Conns |-> Status(c)],
               desc <- [c \in Conns |-> IF IsOpen(c) THEN fd[c] ELSE 0]

\* Each connection lives the life of ConnLife, whatever becomes of the others, but that a
\* loop whose thread is stuck with one of them opens none that wait in its queue.
ImplementsLife == Life!Spec
=============================================================================
