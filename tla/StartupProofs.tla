---------------------------- MODULE StartupProofs ----------------------------
(***************************************************************************)
(* What holds of Startup for every number of threads, whether or not a     *)
(* thread can be created: the types, the assertions of start() and of      *)
(* threadFunc, that loops and the log are there when they are used, and    *)
(* that holder_ tells the truth.  IInv follows each waiting thread to the  *)
(* gate it waits at, and each gate to the one thread that opens it.        *)
(***************************************************************************)
EXTENDS Startup, TLAPS

Workers == Pool \union {Log}

\* Who is between pthread_mutex_lock and pthread_mutex_unlock, and not asleep, has the
\* mutex.
MutexOwned ==
  \A t \in Threads :
    call[t].at \in {"assign", "in", "notify", "unassign", "unlock"} => owner[call[t].gate] = t

\* holder_ is a thread inside its call on this mutex, which may be asleep.
HolderInside ==
  \A g \in Gates : \A t \in Threads :
    holder[g] = t =>
      /\ call[t].gate = g
      /\ call[t].at \in {"in", "asleep", "relock", "notify", "unassign"}

\* Who leaves wait() leaves an open gate, and has notified nobody.
WaitOver ==
  \A t \in Threads :
    call[t].op = "wait" =>
      /\ call[t].at # "notify"
      /\ call[t].at \in {"unassign", "unlock"} => open[call[t].gate]

\* A thread opens its own gates only: its latch, and then its loop_ or the log's latch.
OpensOwn ==
  \A t \in Threads :
    call[t].op = "open" =>
      /\ t \in Workers /\ call[t].at # "idle"
      /\ \/ call[t].gate = Latch(t) /\ step[t] = "func"
         \/ call[t].gate = (IF t = Log THEN Ready ELSE LoopOf(t)) /\ step[t] = "run"

\* What an open gate, and the place of a thread, say of that thread.
OpenTells ==
  \A t \in Workers :
    /\ open[Latch(t)] => tid[t] = t
    /\ step[t] \in {"latch", "func", "run"} => tid[t] = t
    /\ t # Log /\ open[LoopOf(t)] => step[t] = "run"

\* t is in wait() at g.
Waits(t, g) == call[t].gate = g /\ call[t].op = "wait" /\ call[t].at # "idle"

\* The main thread goes on with the thread k only when its gates are open.
MainWaits ==
  /\ step[Main] \in {"assert", "startLoop", "return"} => k \in Pool
  /\ step[Main] = "assert" => open[Latch(k)] \/ Waits(Main, Latch(k))
  /\ step[Main] = "return" => open[LoopOf(k)] \/ Waits(Main, LoopOf(k))
  /\ step[Main] = "serving" => k = Log

\* So does the thread that makes the log, and no other thread makes it.
OnceWaits ==
  /\ \A t \in Threads :
       /\ log[t] \in {"new", "create", "assert", "return"} => once = t
       /\ log[t] \in {"create", "assert", "return"} => running
       /\ log[t] = "assert" => open[Latch(Log)] \/ Waits(t, Latch(Log))
       /\ log[t] = "return" => open[Ready] \/ Waits(t, Ready)
       /\ log[t] = "append" => once = Done
  /\ once = Done => open[Ready]

\* Threads that were not made yet have not begun.
NotBegun ==
  /\ \A t \in Pool : t > k => step[t] = "none"
  /\ step[Main] \in {"init", "start"} => (k \in Pool => step[k] = "none")
  /\ once = Nobody => step[Log] = "none"
  /\ \A t \in Threads : log[t] \in {"new", "create"} => step[Log] = "none"
  /\ step[Log] # "none" => running

\* loops_ has the loops of the threads before k.
LoopsMade ==
  /\ Len(loops) = k - 2
  /\ \A i \in 1..Len(loops) : loops[i] = i + 1 /\ step[i + 1] = "run"

IInv ==
  /\ TypeOK /\ MutexOwned /\ HolderInside /\ WaitOver
  /\ OpensOwn /\ OpenTells /\ MainWaits /\ OnceWaits /\ NotBegun /\ LoopsMade

-----------------------------------------------------------------------------
(* Names                                                                   *)

\* The threads are told apart, and from the values that stand for no thread.
LEMMA Ids ==
  /\ Main \in Threads /\ Log \in Threads /\ Pool \subseteq Threads
  /\ Main # Log /\ Main \notin Pool /\ Log \notin Pool /\ Main \notin Workers
  /\ \A t \in Threads : t = Main \/ t = Log \/ t \in Pool
  /\ \A t \in Threads : t \in Nat /\ t # Nobody /\ t # Done
  /\ Done # Nobody /\ Log \in Nat /\ Log >= 2
  /\ Workers \subseteq Threads
BY NumThreadsAssumption DEF Main, Log, Pool, Threads, Nobody, Done, Workers

\* The gates are told apart.
LEMMA GateIds ==
  /\ Ready \in Gates
  /\ \A t \in Workers : Latch(t) \in Gates
  /\ \A t \in Pool : LoopOf(t) \in Gates
  /\ \A t, u : Latch(t) = Latch(u) => t = u
  /\ \A t, u : LoopOf(t) = LoopOf(u) => t = u
  /\ \A t, u : Latch(t) # LoopOf(u)
  /\ \A t : Latch(t) # Ready /\ LoopOf(t) # Ready
<1>1. /\ Ready \in Gates
      /\ \A t \in Workers : Latch(t) \in Gates
      /\ \A t \in Pool : LoopOf(t) \in Gates
  BY DEF Gates, Workers
<1>2. \A t, u : Latch(t) = Latch(u) => t = u
  BY DEF Latch
<1>3. \A t, u : LoopOf(t) = LoopOf(u) => t = u
  BY DEF LoopOf
<1>4. \A t, u : Latch(t) # LoopOf(u)
  BY DEF Latch, LoopOf
<1>5. \A t : Latch(t) # Ready /\ LoopOf(t) # Ready
  BY DEF Latch, LoopOf, Ready
<1> QED
  BY <1>1, <1>2, <1>3, <1>4, <1>5

-----------------------------------------------------------------------------
LEMMA IInvInit == Init => IInv
<1> SUFFICES ASSUME Init PROVE IInv
  OBVIOUS
<1> USE Ids, GateIds DEF Init, Idle
<1>1. TypeOK
  <2>1. Idle \in Calls
    BY DEF Calls
  <2>2. call \in [Threads -> Calls]
    BY <2>1
  <2>3. step \in [Threads -> Steps] /\ k \in 2..Log /\ loops \in Seq(Pool)
    BY DEF Steps
  <2> QED
    BY <2>2, <2>3 DEF TypeOK, Workers
<1>2. MutexOwned /\ HolderInside /\ WaitOver /\ OpensOwn
  BY DEF MutexOwned, HolderInside, WaitOver, OpensOwn, Nobody
<1>3. OpenTells /\ MainWaits /\ OnceWaits
  BY DEF OpenTells, MainWaits, OnceWaits, Workers
<1>4. NotBegun
  BY DEF NotBegun
<1>5. LoopsMade
  BY DEF LoopsMade
<1> QED
  BY <1>1, <1>2, <1>3, <1>4, <1>5 DEF IInv

-----------------------------------------------------------------------------
(* Steps of a call                                                         *)


\* What Goto does, thread by thread.
LEMMA GotoEffect ==
  ASSUME TypeOK, NEW t \in Threads,
         NEW where \in {"lock", "relock", "assign", "in", "asleep", "notify", "unassign", "unlock"},
         Goto(t, where)
  PROVE  /\ call' \in [Threads -> Calls]
         /\ call'[t].gate = call[t].gate /\ call'[t].op = call[t].op /\ call'[t].at = where
         /\ \A u \in Threads : u # t => call'[u] = call[u]
<1> DEFINE c == [call[t] EXCEPT !.at = where]
<1>1. call \in [Threads -> Calls] /\ call[t] \in Calls
  BY DEF TypeOK
<1>2. c \in Calls /\ c.gate = call[t].gate /\ c.op = call[t].op /\ c.at = where
  BY <1>1 DEF Calls
<1>3. call' = [call EXCEPT ![t] = c]
  BY DEF Goto
<1> HIDE DEF c
<1> QED
  BY <1>1, <1>2, <1>3

\* Setting a call, thread by thread.
LEMMA SetCall ==
  ASSUME TypeOK, NEW t \in Threads, NEW c \in Calls, call' = [call EXCEPT ![t] = c]
  PROVE  /\ call' \in [Threads -> Calls] /\ call'[t] = c
         /\ \A u \in Threads : u # t => call'[u] = call[u]
BY DEF TypeOK

LEMMA IdleCall == Idle \in Calls /\ Idle.op = "none" /\ Idle.at = "idle"
BY GateIds DEF Idle, Calls

\* What Notify does, thread by thread.
LEMMA NotifyEffect ==
  ASSUME TypeOK, NEW t \in Threads, Notify(t)
  PROVE  /\ call' \in [Threads -> Calls]
         /\ call[t].at = "notify" /\ call'[t].at = "unassign"
         /\ \A u \in Threads :
              /\ call'[u].gate = call[u].gate /\ call'[u].op = call[u].op
              /\ u # t => call'[u].at = call[u].at \/ (call[u].at = "asleep" /\ call'[u].at = "relock")
<1> DEFINE d(u) == IF u = t THEN [call[t] EXCEPT !.at = "unassign"]
                   ELSE IF At(u, "asleep") /\ call[u].gate = call[t].gate
                          THEN [call[u] EXCEPT !.at = "relock"]
                   ELSE call[u]
<1>1. \A u \in Threads :
        /\ d(u) \in Calls /\ d(u).gate = call[u].gate /\ d(u).op = call[u].op
        /\ u = t => d(u).at = "unassign"
        /\ u # t => d(u).at = call[u].at \/ (call[u].at = "asleep" /\ d(u).at = "relock")
  <2> SUFFICES ASSUME NEW u \in Threads
               PROVE  /\ d(u) \in Calls /\ d(u).gate = call[u].gate /\ d(u).op = call[u].op
                      /\ u = t => d(u).at = "unassign"
                      /\ u # t => d(u).at = call[u].at \/ (call[u].at = "asleep" /\ d(u).at = "relock")
    OBVIOUS
  <2>1. call[u] \in Calls
    BY DEF TypeOK
  <2>2. CASE u = t
    BY <2>1, <2>2 DEF Calls
  <2>3. CASE u # t /\ At(u, "asleep") /\ call[u].gate = call[t].gate
    BY <2>1, <2>3 DEF Calls, At
  <2>4. CASE u # t /\ ~(At(u, "asleep") /\ call[u].gate = call[t].gate)
    BY <2>1, <2>4
  <2> QED
    BY <2>2, <2>3, <2>4
<1>2. call' = [u \in Threads |-> d(u)] /\ call[t].at = "notify"
  BY DEF Notify, At
<1> HIDE DEF d
<1>3. \A u \in Threads : call'[u] = d(u)
  BY <1>2
<1> QED
  BY <1>1, <1>2, <1>3

\* The mutex: who takes it has it, and holder_ names a thread inside.
GateTypes ==
  /\ call \in [Threads -> Calls]
  /\ open \in [Gates -> BOOLEAN]
  /\ owner \in [Gates -> Threads \union {Nobody}]
  /\ holder \in [Gates -> Threads \union {Nobody}]

LEMMA GateMutexStep ==
  ASSUME TypeOK, MutexOwned, HolderInside, WaitOver, NEW t \in Threads, GateStep(t)
  PROVE  GateTypes' /\ MutexOwned' /\ HolderInside' /\ WaitOver'
<1>1. call[t].gate \in Gates /\ GateTypes
  BY DEF TypeOK, Calls, GateTypes
<1> DEFINE g == call[t].gate
<1>2. CASE Lock(t)
  <2>1. /\ owner[g] = Nobody /\ owner' = [owner EXCEPT ![g] = t]
        /\ UNCHANGED <<open, holder>>
        /\ \/ call[t].at = "lock" /\ Goto(t, "assign")
           \/ call[t].at = "relock" /\ Goto(t, "in")
    BY <1>2 DEF Lock, At
  <2>2. /\ call' \in [Threads -> Calls]
        /\ call'[t].gate = g /\ call'[t].op = call[t].op
        /\ \/ call[t].at = "lock" /\ call'[t].at = "assign"
           \/ call[t].at = "relock" /\ call'[t].at = "in"
        /\ \A u \in Threads : u # t => call'[u] = call[u]
    BY <2>1, GotoEffect
  <2> QED
    BY <1>1, <2>1, <2>2, Ids DEF GateTypes, MutexOwned, HolderInside, WaitOver
<1>3. CASE AssignHolder(t)
  <2>1. /\ call[t].at = "assign" /\ holder' = [holder EXCEPT ![g] = t]
        /\ UNCHANGED <<open, owner>> /\ Goto(t, "in")
    BY <1>3 DEF AssignHolder, At
  <2>2. /\ call' \in [Threads -> Calls]
        /\ call'[t].gate = g /\ call'[t].op = call[t].op /\ call'[t].at = "in"
        /\ \A u \in Threads : u # t => call'[u] = call[u]
    BY <2>1, GotoEffect
  <2> QED
    BY <1>1, <2>1, <2>2, Ids DEF GateTypes, MutexOwned, HolderInside, WaitOver
<1>4. CASE Check(t)
  <2>1. /\ call[t].at = "in" /\ UNCHANGED <<open, holder>>
        /\ \/ open[g] /\ Goto(t, "unassign") /\ UNCHANGED owner
           \/ Goto(t, "asleep") /\ owner' = [owner EXCEPT ![g] = Nobody]
    BY <1>4 DEF Check, At
  <2>2. /\ call' \in [Threads -> Calls]
        /\ call'[t].gate = g /\ call'[t].op = call[t].op
        /\ \/ call'[t].at = "unassign" /\ open[g] /\ UNCHANGED owner
           \/ call'[t].at = "asleep" /\ owner' = [owner EXCEPT ![g] = Nobody]
        /\ \A u \in Threads : u # t => call'[u] = call[u]
    BY <2>1, GotoEffect
  <2>3. GateTypes' /\ WaitOver'
    BY <1>1, <2>1, <2>2, Ids DEF GateTypes, WaitOver
  <2>4. HolderInside'
    BY <1>1, <2>1, <2>2 DEF HolderInside
  <2>5. MutexOwned'
    <3> SUFFICES ASSUME NEW u \in Threads,
                        call'[u].at \in {"assign", "in", "notify", "unassign", "unlock"}
                 PROVE  owner'[call'[u].gate] = u
      BY DEF MutexOwned
    <3>1. owner[g] = t
      BY <2>1 DEF MutexOwned
    <3>2. CASE u = t
      <4>1. call'[t].at # "asleep"
        BY <3>2
      <4>2. owner' = owner
        BY <2>2, <4>1
      <4> QED
        BY <2>2, <3>1, <3>2, <4>2
    <3>3. CASE u # t
      <4>1. call'[u] = call[u]
        BY <2>2, <3>3
      <4>2. owner[call[u].gate] = u
        BY <4>1 DEF MutexOwned
      <4>3. call[u].gate # g
        BY <3>1, <3>3, <4>2
      <4>4. owner' = owner \/ owner' = [owner EXCEPT ![g] = Nobody]
        BY <2>2
      <4>5. call[u].gate \in Gates /\ owner \in [Gates -> Threads \union {Nobody}]
        BY <1>1 DEF GateTypes, Calls
      <4> QED
        BY <4>1, <4>2, <4>3, <4>4, <4>5
    <3> QED
      BY <3>2, <3>3
  <2> QED
    BY <2>3, <2>4, <2>5
<1>5. CASE SetOpen(t)
  <2>1. /\ call[t].at = "in" /\ call[t].op = "open" /\ open' = [open EXCEPT ![g] = TRUE]
        /\ UNCHANGED <<owner, holder>> /\ Goto(t, "notify")
    BY <1>5 DEF SetOpen, At
  <2>2. /\ call' \in [Threads -> Calls]
        /\ call'[t].gate = g /\ call'[t].op = call[t].op /\ call'[t].at = "notify"
        /\ \A u \in Threads : u # t => call'[u] = call[u]
    BY <2>1, GotoEffect
  <2> QED
    BY <1>1, <2>1, <2>2, Ids DEF GateTypes, MutexOwned, HolderInside, WaitOver
<1>6. CASE Notify(t)
  <2>1. open' = open /\ owner' = owner /\ holder' = holder
    BY <1>6 DEF Notify, gateVars
  <2>2. /\ call' \in [Threads -> Calls] /\ call[t].at = "notify" /\ call'[t].at = "unassign"
        /\ \A u \in Threads :
             /\ call'[u].gate = call[u].gate /\ call'[u].op = call[u].op
             /\ u # t => call'[u].at = call[u].at \/ (call[u].at = "asleep" /\ call'[u].at = "relock")
    BY <1>6, NotifyEffect
  <2>3. GateTypes'
    BY <1>1, <2>1, <2>2 DEF GateTypes
  <2>4. MutexOwned'
    BY <2>1, <2>2 DEF MutexOwned
  <2>5. HolderInside'
    BY <2>1, <2>2 DEF HolderInside
  <2>6. WaitOver'
    BY <2>1, <2>2 DEF WaitOver
  <2> QED
    BY <2>3, <2>4, <2>5, <2>6
<1>7. CASE Unlock(t)
  <2>1. CASE /\ call[t].at = "unassign" /\ holder' = [holder EXCEPT ![g] = Nobody]
             /\ Goto(t, "unlock") /\ UNCHANGED <<owner, open>>
    <3>1. /\ call' \in [Threads -> Calls]
          /\ call'[t].gate = g /\ call'[t].op = call[t].op /\ call'[t].at = "unlock"
          /\ \A u \in Threads : u # t => call'[u] = call[u]
      BY <2>1, GotoEffect
    <3> QED
      BY <1>1, <2>1, <3>1, Ids DEF GateTypes, MutexOwned, HolderInside, WaitOver
  <2>2. CASE /\ call[t].at = "unlock" /\ owner' = [owner EXCEPT ![g] = Nobody]
             /\ call' = [call EXCEPT ![t] = Idle] /\ UNCHANGED <<holder, open>>
    <3>1. /\ call' \in [Threads -> Calls]
          /\ call'[t] = Idle
          /\ \A u \in Threads : u # t => call'[u] = call[u]
      BY <2>2, SetCall, IdleCall
    <3> QED
      BY <1>1, <2>2, <3>1, Ids, IdleCall DEF GateTypes, MutexOwned, HolderInside, WaitOver
  <2> QED
    BY <1>7, <2>1, <2>2 DEF Unlock, At
<1> QED
  BY <1>2, <1>3, <1>4, <1>5, <1>6, <1>7 DEF GateStep

\* For the threads a step of a call changes little: calls go on, a call that ends was given
\* up with its gate open if it had to wait for that, and a gate is opened by its caller.
GateEffect(t) ==
  /\ \A u \in Threads :
       \/ /\ call'[u].gate = call[u].gate /\ call'[u].op = call[u].op
          /\ (call[u].at # "idle" /\ call'[u].at # "idle") \/ call'[u] = call[u]
       \/ call'[u] = Idle /\ (call[u].op = "wait" => open[call[u].gate])
  /\ \A h \in Gates : open[h] => open'[h]
  /\ \A h \in Gates : open'[h] /\ ~open[h] => call[t].op = "open" /\ call[t].gate = h

LEMMA GateStepEffect ==
  ASSUME TypeOK, WaitOver, NEW t \in Threads, GateStep(t)
  PROVE  GateEffect(t)
<1>1. open \in [Gates -> BOOLEAN] /\ call[t].gate \in Gates
  BY DEF TypeOK, Calls
<1>2. CASE Lock(t) \/ AssignHolder(t) \/ Check(t)
  <2>1. UNCHANGED open
    BY <1>2 DEF Lock, AssignHolder, Check
  <2>2. PICK where \in {"assign", "in", "asleep", "unassign"} : Goto(t, where) /\ call[t].at # "idle"
    BY <1>2 DEF Lock, AssignHolder, Check, At
  <2> QED
    BY <2>1, <2>2, GotoEffect DEF GateEffect
<1>3. CASE SetOpen(t)
  <2>1. /\ call[t].at = "in" /\ call[t].op = "open" /\ Goto(t, "notify")
        /\ open' = [open EXCEPT ![call[t].gate] = TRUE]
    BY <1>3 DEF SetOpen, At
  <2> QED
    BY <1>1, <2>1, GotoEffect DEF GateEffect
<1>4. CASE Notify(t)
  <2>1. UNCHANGED open
    BY <1>4 DEF Notify, gateVars
  <2>2. \A u \in Threads : call[u] \in Calls /\ call'[u] \in Calls
    BY <1>4, NotifyEffect DEF TypeOK
  <2>3. \A u \in Threads : call'[u].at = call[u].at => call'[u] = call[u]
    BY <1>4, <2>2, NotifyEffect DEF Calls
  <2> QED
    BY <1>4, <2>1, <2>3, NotifyEffect DEF GateEffect
<1>5. CASE Unlock(t)
  <2>1. UNCHANGED open
    BY <1>5 DEF Unlock
  <2>2. CASE call[t].at = "unassign" /\ Goto(t, "unlock")
    BY <2>1, <2>2, GotoEffect DEF GateEffect
  <2>3. CASE call[t].at = "unlock" /\ call' = [call EXCEPT ![t] = Idle]
    BY <2>1, <2>3, SetCall, IdleCall DEF GateEffect, WaitOver
  <2> QED
    BY <1>5, <2>2, <2>3 DEF Unlock, At
<1> QED
  BY <1>2, <1>3, <1>4, <1>5 DEF GateStep

\* A spurious wakeup changes no mutex and no gate.
LEMMA SpuriousStep ==
  ASSUME TypeOK, MutexOwned, HolderInside, WaitOver, NEW t \in Threads, Spurious(t)
  PROVE  GateTypes' /\ MutexOwned' /\ HolderInside' /\ WaitOver' /\ GateEffect(t)
<1>1. call[t].at = "asleep" /\ Goto(t, "relock") /\ open' = open /\ owner' = owner /\ holder' = holder
  BY DEF Spurious, WakeSpuriously, At, gateVars
<1>2. /\ call' \in [Threads -> Calls]
      /\ call'[t].gate = call[t].gate /\ call'[t].op = call[t].op /\ call'[t].at = "relock"
      /\ \A u \in Threads : u # t => call'[u] = call[u]
  BY <1>1, GotoEffect
<1>3. GateTypes' /\ MutexOwned' /\ WaitOver'
  BY <1>1, <1>2 DEF TypeOK, GateTypes, MutexOwned, WaitOver
<1>4. HolderInside'
  BY <1>1, <1>2 DEF HolderInside
<1>5. GateEffect(t)
  BY <1>1, <1>2 DEF GateEffect
<1> QED
  BY <1>3, <1>4, <1>5

\* The part of IInv that is about the threads' own functions.
ProgramInv == OpensOwn /\ OpenTells /\ MainWaits /\ OnceWaits /\ NotBegun /\ LoopsMade

LEMMA GateProgramStep ==
  ASSUME TypeOK, ProgramInv, NEW t \in Threads, GateEffect(t),
         UNCHANGED <<step, k, loops, tid, logVars, failed>>
  PROVE  ProgramInv'
<1> USE Ids, GateIds
<1>1. GateEffect(t)
  OBVIOUS
<1>2. UNCHANGED <<step, k, loops, tid, logVars, failed>>
  OBVIOUS
<1>3. OpensOwn'
  BY <1>1, <1>2, IdleCall DEF ProgramInv, OpensOwn, GateEffect
<1>4. OpenTells'
  <2> SUFFICES ASSUME NEW u \in Workers
               PROVE  /\ open'[Latch(u)] => tid[u] = u
                      /\ u # Log /\ open'[LoopOf(u)] => step[u] = "run"
    BY <1>2 DEF OpenTells, ProgramInv
  <2>1. ASSUME open'[Latch(u)], ~open[Latch(u)]
        PROVE  tid[u] = u
    <3>1. call[t].op = "open" /\ call[t].gate = Latch(u)
      BY <1>1, <2>1 DEF GateEffect
    <3>2. u = t /\ step[t] = "func"
      BY <3>1 DEF ProgramInv, OpensOwn
    <3> QED
      BY <3>2 DEF ProgramInv, OpenTells
  <2>2. ASSUME u # Log, open'[LoopOf(u)], ~open[LoopOf(u)]
        PROVE  step[u] = "run"
    <3>1. LoopOf(u) \in Gates
      BY <2>2 DEF Workers
    <3>2. call[t].op = "open" /\ call[t].gate = LoopOf(u)
      BY <1>1, <2>2, <3>1 DEF GateEffect
    <3> QED
      BY <3>2 DEF ProgramInv, OpensOwn
  <2> QED
    BY <2>1, <2>2 DEF ProgramInv, OpenTells
<1>5. \A u \in Threads : \A h \in Gates :
        open[h] \/ Waits(u, h) => open'[h] \/ Waits(u, h)'
  BY <1>1, IdleCall DEF GateEffect, Waits
<1>6. MainWaits'
  BY <1>2, <1>5 DEF ProgramInv, MainWaits, Workers
<1>7. OnceWaits'
  BY <1>1, <1>2, <1>5 DEF ProgramInv, OnceWaits, Workers, logVars, GateEffect
<1>8. NotBegun' /\ LoopsMade'
  BY <1>2 DEF ProgramInv, NotBegun, LoopsMade, logVars
<1> QED
  BY <1>3, <1>4, <1>6, <1>7, <1>8 DEF ProgramInv

-----------------------------------------------------------------------------
(* Steps of the threads' own functions                                     *)

\* Where a call begins.
Begins(t, g, what) == call' = [call EXCEPT ![t] = [gate |-> g, op |-> what, at |-> "lock"]]

LEMMA BeginEffect ==
  ASSUME TypeOK, NEW t \in Threads, NEW g \in Gates, NEW what \in {"wait", "open"}, Begins(t, g, what)
  PROVE  /\ call' \in [Threads -> Calls]
         /\ call'[t].gate = g /\ call'[t].op = what /\ call'[t].at = "lock"
         /\ \A u \in Threads : u # t => call'[u] = call[u]
<1> DEFINE c == [gate |-> g, op |-> what, at |-> "lock"]
<1>1. c \in Calls /\ c.gate = g /\ c.op = what /\ c.at = "lock"
  BY DEF Calls
<1>2. call' = [call EXCEPT ![t] = c]
  BY DEF Begins
<1> HIDE DEF c
<1> QED
  BY <1>1, <1>2, SetCall

\* A thread that is in no call may begin one, without a change to any mutex.
LEMMA CallStep ==
  ASSUME TypeOK, MutexOwned, HolderInside, WaitOver, NEW t \in Threads, UNCHANGED gateVars,
         \/ UNCHANGED call
         \/ /\ call[t].at = "idle"
            /\ \E g \in Gates : \E what \in {"wait", "open"} : Begins(t, g, what)
  PROVE  GateTypes' /\ MutexOwned' /\ HolderInside' /\ WaitOver'
<1>1. GateTypes /\ open' = open /\ owner' = owner /\ holder' = holder
  BY DEF TypeOK, GateTypes, gateVars
<1>2. CASE UNCHANGED call
  BY <1>1, <1>2 DEF GateTypes, MutexOwned, HolderInside, WaitOver
<1>3. CASE /\ call[t].at = "idle"
           /\ \E g \in Gates : \E what \in {"wait", "open"} : Begins(t, g, what)
  <2>1. PICK g \in Gates, what \in {"wait", "open"} : Begins(t, g, what)
    BY <1>3
  <2>2. /\ call' \in [Threads -> Calls]
        /\ call'[t].at = "lock"
        /\ \A u \in Threads : u # t => call'[u] = call[u]
    BY <2>1, BeginEffect
  <2> QED
    BY <1>1, <1>3, <2>2 DEF GateTypes, MutexOwned, HolderInside, WaitOver
<1> QED
  BY <1>2, <1>3

\* What Step does, thread by thread.
LEMMA StepEffect ==
  ASSUME TypeOK, NEW t \in Threads, NEW from, NEW to \in Steps, Step(t, from, to)
  PROVE  /\ call[t].at = "idle" /\ log[t] = "none" /\ step[t] = from
         /\ step' \in [Threads -> Steps] /\ step'[t] = to
         /\ \A u \in Threads : u # t => step'[u] = step[u]
BY DEF TypeOK, Step, Free

LogStates == {"none", "once", "new", "create", "assert", "return", "append"}

\* What LogStep does, thread by thread.
LEMMA LogEffect ==
  ASSUME TypeOK, NEW t \in Threads, NEW from, NEW to \in LogStates, LogStep(t, from, to)
  PROVE  /\ call[t].at = "idle" /\ log[t] = from
         /\ log' \in [Threads -> LogStates] /\ log'[t] = to
         /\ \A u \in Threads : u # t => log'[u] = log[u]
BY DEF TypeOK, LogStep, LogStates

\* The types that the steps of a call leave alone.
ProgramTypes ==
  /\ step \in [Threads -> Steps]
  /\ k \in 2..Log
  /\ loops \in Seq(Pool)
  /\ tid \in [Pool \union {Log} -> Threads \union {Nobody}]
  /\ log \in [Threads -> LogStates]
  /\ logged \subseteq Threads
  /\ once \in Threads \union {Nobody, Done}
  /\ running \in BOOLEAN /\ failed \in BOOLEAN

LEMMA TypesSplit == TypeOK <=> ProgramTypes /\ GateTypes
BY DEF TypeOK, ProgramTypes, GateTypes, LogStates

\* Who is in no call waits nowhere, so that its next call loses no waiting.
LEMMA WaitsKept ==
  ASSUME TypeOK, NEW t \in Threads, UNCHANGED open,
         \/ UNCHANGED call
         \/ /\ call[t].at = "idle"
            /\ \E g \in Gates : \E what \in {"wait", "open"} : Begins(t, g, what)
  PROVE  \A u \in Threads : \A h \in Gates :
           open[h] \/ Waits(u, h) => open'[h] \/ Waits(u, h)'
BY BeginEffect DEF Waits

\* A thread that opens nothing and keeps to its step leaves OpensOwn alone.
LEMMA OpensKept ==
  ASSUME TypeOK, OpensOwn, NEW t \in Threads,
         \A u \in Threads : call[u].op = "open" => step'[u] = step[u],
         UNCHANGED call \/ \E g \in Gates : Begins(t, g, "wait")
  PROVE  OpensOwn'
<1>1. CASE UNCHANGED call
  BY <1>1 DEF OpensOwn
<1>2. CASE \E g \in Gates : Begins(t, g, "wait")
  <2>1. /\ call'[t].op = "wait"
        /\ \A u \in Threads : u # t => call'[u] = call[u]
    BY <1>2, BeginEffect
  <2> QED
    BY <2>1 DEF OpensOwn
<1> QED
  BY <1>1, <1>2

LEMMA LogProgramStep ==
  ASSUME IInv, NEW t \in Threads, LogSteps(t) \/ BeginLog(t)
  PROVE  ProgramTypes' /\ ProgramInv' /\ GateTypes' /\ MutexOwned' /\ HolderInside' /\ WaitOver'
<1> USE Ids, GateIds
<1>1. /\ TypeOK /\ MutexOwned /\ HolderInside /\ WaitOver /\ ProgramTypes
      /\ OpensOwn /\ OpenTells /\ MainWaits /\ OnceWaits /\ NotBegun /\ LoopsMade
  BY TypesSplit DEF IInv
<1>2. \/ Once(t) \/ NewLog(t) \/ CreateLog(t) \/ WaitReady(t) \/ OnceDone(t) \/ AppendLine(t)
      \/ BeginLog(t)
  BY DEF LogSteps
<1>3. call[t].at = "idle"
  BY <1>2 DEF Once, NewLog, CreateLog, WaitReady, OnceDone, AppendLine, BeginLog, LogStep
<1>4. /\ UNCHANGED gateVars /\ UNCHANGED <<k, loops, tid>>
      /\ UNCHANGED call \/ \E g \in Gates : Begins(t, g, "wait")
  BY <1>2 DEF Once, NewLog, CreateLog, WaitReady, OnceDone, AppendLine, BeginLog, Wait, Begins, Workers
<1>5. open' = open
  BY <1>4 DEF gateVars
<1>6. GateTypes' /\ MutexOwned' /\ HolderInside' /\ WaitOver'
  BY <1>1, <1>3, <1>4, CallStep
<1>7. \A u \in Threads : \A h \in Gates :
        open[h] \/ Waits(u, h) => open'[h] \/ Waits(u, h)'
  BY <1>1, <1>3, <1>4, <1>5, WaitsKept
<1>8. CASE UNCHANGED step
  <2>1. OpensOwn' /\ OpenTells' /\ MainWaits' /\ LoopsMade'
    <3>1. OpensOwn'
      BY <1>1, <1>4, <1>8, OpensKept
    <3>2. OpenTells' /\ LoopsMade'
      BY <1>1, <1>4, <1>5, <1>8 DEF OpenTells, LoopsMade
    <3>3. MainWaits'
      BY <1>1, <1>4, <1>7, <1>8 DEF MainWaits, Workers
    <3> QED
      BY <3>1, <3>2, <3>3
  <2>2. CASE BeginLog(t)
    <3>1. LogStep(t, "none", "once") /\ logged' = logged \union {t}
          /\ UNCHANGED <<step, once, running, failed>>
      BY <2>2 DEF BeginLog
    <3>2. /\ log' \in [Threads -> LogStates] /\ log'[t] = "once"
          /\ \A u \in Threads : u # t => log'[u] = log[u]
      BY <1>1, <3>1, LogEffect DEF LogStates
    <3>3. ProgramTypes'
      BY <1>1, <1>4, <3>1, <3>2 DEF ProgramTypes
    <3>4. OnceWaits'
      BY <1>1, <1>5, <1>7, <3>1, <3>2 DEF OnceWaits, Workers
    <3>5. NotBegun'
      BY <1>1, <1>4, <3>1, <3>2 DEF NotBegun
    <3> QED
      BY <1>6, <2>1, <3>3, <3>4, <3>5 DEF ProgramInv
  <2>3. CASE Once(t)
    <3>1. /\ once \in {Nobody, Done} /\ LogStep(t, "once", IF once = Nobody THEN "new" ELSE "append")
          /\ once' = (IF once = Nobody THEN t ELSE once)
          /\ UNCHANGED <<step, logged, running, failed>>
      BY <2>3 DEF Once
    <3>2. /\ log' \in [Threads -> LogStates]
          /\ log'[t] = (IF once = Nobody THEN "new" ELSE "append")
          /\ \A u \in Threads : u # t => log'[u] = log[u]
      BY <1>1, <3>1, LogEffect DEF LogStates
    <3>3. ProgramTypes'
      BY <1>1, <1>4, <3>1, <3>2 DEF ProgramTypes
    <3>4. OnceWaits'
      <4>1. CASE once = Nobody
        BY <1>1, <1>5, <1>7, <3>1, <3>2, <4>1 DEF OnceWaits, Workers
      <4>2. CASE once = Done
        BY <1>1, <1>5, <1>7, <3>1, <3>2, <4>2 DEF OnceWaits, Workers
      <4> QED
        BY <3>1, <4>1, <4>2
    <3>5. NotBegun'
      BY <1>1, <1>4, <3>1, <3>2 DEF NotBegun
    <3> QED
      BY <1>6, <2>1, <3>3, <3>4, <3>5 DEF ProgramInv
  <2>4. CASE NewLog(t)
    <3>1. LogStep(t, "new", "create") /\ running' = TRUE /\ UNCHANGED <<step, logged, once, failed>>
      BY <2>4 DEF NewLog
    <3>2. /\ log' \in [Threads -> LogStates] /\ log[t] = "new" /\ log'[t] = "create"
          /\ \A u \in Threads : u # t => log'[u] = log[u]
      BY <1>1, <3>1, LogEffect DEF LogStates
    <3>3. ProgramTypes'
      BY <1>1, <1>4, <3>1, <3>2 DEF ProgramTypes
    <3>4. OnceWaits'
      BY <1>1, <1>5, <1>7, <3>1, <3>2 DEF OnceWaits, Workers
    <3>5. NotBegun'
      BY <1>1, <1>4, <3>1, <3>2 DEF NotBegun
    <3> QED
      BY <1>6, <2>1, <3>3, <3>4, <3>5 DEF ProgramInv
  <2>5. CASE CreateLog(t)
    <3>1. \/ /\ LogStep(t, "create", "once") /\ failed' = TRUE
          \/ LogStep(t, "create", "assert") /\ Wait(t, Latch(Log)) /\ UNCHANGED failed
      BY <2>5 DEF CreateLog
    <3>2. UNCHANGED <<logged, once, running, step>>
      BY <1>8, <2>5 DEF CreateLog
    <3>3. /\ log' \in [Threads -> LogStates] /\ log[t] = "create"
          /\ \A u \in Threads : u # t => log'[u] = log[u]
          /\ \/ log'[t] = "once"
             \/ log'[t] = "assert" /\ Wait(t, Latch(Log))
      BY <1>1, <3>1, LogEffect DEF LogStates
    <3>4. ProgramTypes'
      BY <1>1, <1>4, <3>1, <3>2, <3>3 DEF ProgramTypes
    <3>5. log'[t] = "assert" => Waits(t, Latch(Log))'
      <4>1. ASSUME Wait(t, Latch(Log))
            PROVE  Waits(t, Latch(Log))'
        <5>1. Begins(t, Latch(Log), "wait")
          BY <4>1 DEF Wait, Begins
        <5> QED
          BY <1>1, <5>1, BeginEffect DEF Waits, Workers
      <4> QED
        BY <3>3, <4>1
    <3>6. OnceWaits'
      BY <1>1, <1>5, <1>7, <3>2, <3>3, <3>5 DEF OnceWaits, Workers
    <3>7. NotBegun'
      BY <1>1, <1>4, <3>2, <3>3 DEF NotBegun
    <3> QED
      BY <1>6, <2>1, <3>4, <3>6, <3>7 DEF ProgramInv
  <2>6. CASE WaitReady(t)
    <3>1. /\ LogStep(t, "assert", "return") /\ Wait(t, Ready)
          /\ UNCHANGED <<step, logged, once, running, failed>>
      BY <2>6 DEF WaitReady
    <3>2. /\ log' \in [Threads -> LogStates] /\ log[t] = "assert" /\ log'[t] = "return"
          /\ \A u \in Threads : u # t => log'[u] = log[u]
      BY <1>1, <3>1, LogEffect DEF LogStates
    <3>3. ProgramTypes'
      BY <1>1, <1>4, <3>1, <3>2 DEF ProgramTypes
    <3>4. Waits(t, Ready)'
      <4>1. Begins(t, Ready, "wait")
        BY <3>1 DEF Wait, Begins
      <4> QED
        BY <1>1, <4>1, BeginEffect DEF Waits
    <3>5. OnceWaits'
      BY <1>1, <1>5, <1>7, <3>1, <3>2, <3>4 DEF OnceWaits, Workers
    <3>6. NotBegun'
      BY <1>1, <1>4, <3>1, <3>2 DEF NotBegun
    <3> QED
      BY <1>6, <2>1, <3>3, <3>5, <3>6 DEF ProgramInv
  <2>7. CASE OnceDone(t)
    <3>1. LogStep(t, "return", "append") /\ once' = Done /\ UNCHANGED <<step, logged, running, failed>>
      BY <2>7 DEF OnceDone
    <3>2. /\ log' \in [Threads -> LogStates] /\ log[t] = "return" /\ log'[t] = "append"
          /\ \A u \in Threads : u # t => log'[u] = log[u]
      BY <1>1, <3>1, LogEffect DEF LogStates
    <3>3. ProgramTypes'
      BY <1>1, <1>4, <3>1, <3>2 DEF ProgramTypes
    <3>4. open[Ready] /\ once = t
      BY <1>1, <1>3, <3>2 DEF OnceWaits, Waits
    <3>5. OnceWaits'
      BY <1>1, <1>5, <1>7, <3>1, <3>2, <3>4 DEF OnceWaits, Workers
    <3>6. NotBegun'
      BY <1>1, <1>4, <3>1, <3>2 DEF NotBegun
    <3> QED
      BY <1>6, <2>1, <3>3, <3>5, <3>6 DEF ProgramInv
  <2>8. CASE AppendLine(t)
    <3>1. LogStep(t, "append", "none") /\ UNCHANGED <<step, logged, once, running, failed>>
      BY <2>8 DEF AppendLine
    <3>2. /\ log' \in [Threads -> LogStates] /\ log'[t] = "none"
          /\ \A u \in Threads : u # t => log'[u] = log[u]
      BY <1>1, <3>1, LogEffect DEF LogStates
    <3>3. ProgramTypes'
      BY <1>1, <1>4, <3>1, <3>2 DEF ProgramTypes
    <3>4. OnceWaits'
      BY <1>1, <1>5, <1>7, <3>1, <3>2 DEF OnceWaits, Workers
    <3>5. NotBegun'
      BY <1>1, <1>4, <3>1, <3>2 DEF NotBegun
    <3> QED
      BY <1>6, <2>1, <3>3, <3>4, <3>5 DEF ProgramInv
  <2> QED
    BY <1>2, <2>2, <2>3, <2>4, <2>5, <2>6, <2>7, <2>8
<1>9. CASE step' # step
  <2>1. /\ CreateLog(t) /\ step' = [step EXCEPT ![Log] = "tid"]
        /\ LogStep(t, "create", "assert") /\ Wait(t, Latch(Log))
        /\ UNCHANGED <<logged, once, running, failed>>
    BY <1>2, <1>9 DEF Once, NewLog, CreateLog, WaitReady, OnceDone, AppendLine, BeginLog
  <2>2. /\ log' \in [Threads -> LogStates] /\ log[t] = "create" /\ log'[t] = "assert"
        /\ \A u \in Threads : u # t => log'[u] = log[u]
    BY <1>1, <2>1, LogEffect DEF LogStates
  <2>3. /\ step' \in [Threads -> Steps] /\ step[Log] = "none" /\ step'[Log] = "tid" /\ running
        /\ once = t
        /\ \A u \in Threads : u # Log => step'[u] = step[u]
    BY <1>1, <2>1, <2>2 DEF ProgramTypes, Steps, NotBegun, OnceWaits
  <2>4. ProgramTypes'
    BY <1>1, <1>4, <2>1, <2>2, <2>3 DEF ProgramTypes
  <2>5. Waits(t, Latch(Log))'
    <3>1. Begins(t, Latch(Log), "wait")
      BY <2>1 DEF Wait, Begins
    <3> QED
      BY <1>1, <3>1, BeginEffect DEF Waits, Workers
  <2>6. OpensOwn'
    <3>1. \A u \in Threads : call[u].op = "open" => step'[u] = step[u]
      BY <1>1, <2>3 DEF OpensOwn
    <3> QED
      BY <1>1, <1>4, <3>1, OpensKept
  <2>7. OpenTells'
    BY <1>1, <1>4, <1>5, <2>3 DEF OpenTells, Workers
  <2>8. MainWaits'
    BY <1>1, <1>4, <1>7, <2>3 DEF MainWaits, Workers
  <2>9. OnceWaits'
    BY <1>1, <1>5, <1>7, <2>1, <2>2, <2>3, <2>5 DEF OnceWaits, Workers
  <2>10. NotBegun'
    BY <1>1, <1>4, <2>1, <2>2, <2>3 DEF NotBegun, OnceWaits
  <2>11. LoopsMade'
    <3>1. \A i \in 1..Len(loops) : i + 1 \in Threads /\ i + 1 # Log
      BY <1>1 DEF LoopsMade, ProgramTypes, Threads, Main, Log
    <3> QED
      BY <1>1, <1>4, <2>3, <3>1 DEF LoopsMade
  <2> QED
    BY <1>6, <2>4, <2>6, <2>7, <2>8, <2>9, <2>10, <2>11 DEF ProgramInv
<1> QED
  BY <1>8, <1>9

\* What holds after a step of a thread's own function.
ProgramStepInv ==
  ProgramTypes /\ ProgramInv /\ GateTypes /\ MutexOwned /\ HolderInside /\ WaitOver

LEMMA WorkerProgramStep ==
  ASSUME IInv, NEW t \in Threads, t # Main, RunInThread(t) \/ ThreadFunc(t)
  PROVE  ProgramStepInv'
<1> USE Ids, GateIds
<1>1. /\ TypeOK /\ MutexOwned /\ HolderInside /\ WaitOver /\ ProgramTypes
      /\ OpensOwn /\ OpenTells /\ MainWaits /\ OnceWaits /\ NotBegun /\ LoopsMade
  BY TypesSplit DEF IInv
<1>2. t \in Workers /\ t \in Pool \union {Log}
  BY DEF Workers
<1> DEFINE own == IF t = Log THEN Ready ELSE LoopOf(t)
<1>3. own \in Gates /\ Latch(t) \in Gates
  BY <1>2 DEF Workers
<1>4. PICK from \in {"tid", "latch", "func"}, to \in {"latch", "func", "run"} :
        /\ Step(t, from, to)
        /\ from = "tid" => to = "latch" /\ tid' = [tid EXCEPT ![t] = t] /\ UNCHANGED call
        /\ from = "latch" => to = "func" /\ Begins(t, Latch(t), "open") /\ UNCHANGED tid
        /\ from = "func" => to = "run" /\ Begins(t, own, "open") /\ UNCHANGED tid
  BY DEF RunInThread, ThreadFunc, Open, Begins
<1>5. UNCHANGED <<k, loops, logVars, failed, gateVars>>
  BY DEF RunInThread, ThreadFunc
<1>6. /\ call[t].at = "idle" /\ step[t] = from
      /\ step' \in [Threads -> Steps] /\ step'[t] = to
      /\ \A u \in Threads : u # t => step'[u] = step[u]
  <2>1. to \in Steps
    BY DEF Steps
  <2> QED
    BY <1>1, <1>4, <2>1, StepEffect
<1>7. UNCHANGED call \/ \E g \in Gates : Begins(t, g, "open")
  BY <1>3, <1>4
<1>8. open' = open /\ owner' = owner /\ holder' = holder /\ UNCHANGED logVars
  BY <1>5 DEF gateVars
<1>9. GateTypes' /\ MutexOwned' /\ HolderInside' /\ WaitOver'
  BY <1>1, <1>5, <1>6, <1>7, CallStep
<1>10. \A u \in Threads : \A h \in Gates :
         open[h] \/ Waits(u, h) => open'[h] \/ Waits(u, h)'
  BY <1>1, <1>6, <1>7, <1>8, WaitsKept
<1>11. /\ tid' \in [Pool \union {Log} -> Threads \union {Nobody}]
       /\ tid'[t] = t
       /\ \A u \in Workers : u # t => tid'[u] = tid[u]
  <2>1. from # "tid" => tid[t] = t
    BY <1>1, <1>2, <1>4, <1>6 DEF OpenTells
  <2> QED
    BY <1>1, <1>2, <1>4, <2>1 DEF ProgramTypes, Workers
<1>12. ProgramTypes'
  BY <1>1, <1>5, <1>6, <1>11 DEF ProgramTypes, logVars
<1>13. OpensOwn'
  <2>1. call[t].op # "open"
    BY <1>1, <1>6 DEF OpensOwn
  <2>2. CASE UNCHANGED call
    BY <1>1, <1>6, <2>1, <2>2 DEF OpensOwn
  <2>3. CASE ~UNCHANGED call
    <3>1. /\ \A u \in Threads : u # t => call'[u] = call[u]
          /\ call'[t].at = "lock"
          /\ \/ call'[t].gate = Latch(t) /\ step'[t] = "func"
             \/ call'[t].gate = own /\ step'[t] = "run"
      BY <1>1, <1>3, <1>4, <1>6, <2>3, BeginEffect
    <3> HIDE DEF own
    <3>2. t \in Workers /\ own = IF t = Log THEN Ready ELSE LoopOf(t)
      BY <1>2 DEF own
    <3> SUFFICES ASSUME NEW u \in Threads, call'[u].op = "open"
                 PROVE  /\ u \in Workers /\ call'[u].at # "idle"
                        /\ \/ call'[u].gate = Latch(u) /\ step'[u] = "func"
                           \/ call'[u].gate = (IF u = Log THEN Ready ELSE LoopOf(u)) /\ step'[u] = "run"
      BY DEF OpensOwn
    <3>3. CASE u = t
      BY <3>1, <3>2, <3>3
    <3>4. CASE u # t
      BY <1>1, <1>6, <3>1, <3>4 DEF OpensOwn
    <3> QED
      BY <3>3, <3>4
  <2> QED
    BY <2>2, <2>3
<1>14. OpenTells'
  BY <1>1, <1>6, <1>8, <1>11 DEF OpenTells, Workers
<1>15. step'[Main] = step[Main]
  BY <1>6
<1>16. MainWaits'
  BY <1>1, <1>5, <1>10, <1>15 DEF MainWaits, Workers
<1>17. OnceWaits'
  BY <1>1, <1>8, <1>10 DEF OnceWaits, Workers, logVars
<1>18. NotBegun'
  BY <1>1, <1>5, <1>6, <1>15 DEF NotBegun, logVars
<1>19. LoopsMade'
  <2>1. \A i \in 1..Len(loops) : i + 1 \in Threads
    BY <1>1 DEF LoopsMade, ProgramTypes, Threads, Main, Log
  <2> QED
    BY <1>1, <1>5, <1>6, <2>1 DEF LoopsMade
<1> QED
  BY <1>9, <1>12, <1>13, <1>14, <1>16, <1>17, <1>18, <1>19 DEF ProgramStepInv, ProgramInv

LEMMA MainProgramStep ==
  ASSUME IInv, MainStep
  PROVE  ProgramStepInv'
<1> USE Ids, GateIds
<1>1. /\ TypeOK /\ MutexOwned /\ HolderInside /\ WaitOver /\ ProgramTypes
      /\ OpensOwn /\ OpenTells /\ MainWaits /\ OnceWaits /\ NotBegun /\ LoopsMade
  BY TypesSplit DEF IInv
<1>2. call[Main].at = "idle" /\ log[Main] = "none"
  BY DEF MainStep, InitDone, StartThread, AssertTid, WaitLoop, PushLoop, Serve, Step, Free
<1>3. /\ UNCHANGED <<tid, logged, once, running, gateVars>>
      /\ UNCHANGED call \/ \E g \in Gates : Begins(Main, g, "wait")
  <2>1. k \in Pool => Latch(k) \in Gates /\ LoopOf(k) \in Gates
    BY DEF Workers
  <2>2. step[Main] = "startLoop" => k \in Pool
    BY <1>1 DEF MainWaits
  <2>3. CASE StartThread
    BY <2>1, <2>3 DEF StartThread, Wait, Begins
  <2>4. CASE WaitLoop
    BY <2>1, <2>2, <2>4 DEF WaitLoop, Step, Wait, Begins, logVars
  <2>5. CASE InitDone \/ AssertTid \/ PushLoop \/ Serve
    BY <2>5 DEF InitDone, AssertTid, PushLoop, Serve, logVars
  <2> QED
    BY <2>3, <2>4, <2>5 DEF MainStep
<1>4. open' = open
  BY <1>3 DEF gateVars
<1>5. GateTypes' /\ MutexOwned' /\ HolderInside' /\ WaitOver'
  BY <1>1, <1>2, <1>3, CallStep
<1>6. \A u \in Threads : \A h \in Gates :
        open[h] \/ Waits(u, h) => open'[h] \/ Waits(u, h)'
  BY <1>1, <1>2, <1>3, <1>4, WaitsKept
<1>7. \A i \in 1..Len(loops) : i + 1 \in Threads /\ i + 1 # Main /\ i + 1 < k
  BY <1>1 DEF LoopsMade, ProgramTypes, Threads, Main, Log
<1>8. CASE InitDone \/ AssertTid \/ WaitLoop \/ Serve
  <2>1. PICK to \in {"start", "startLoop", "return", "serving"} :
          /\ Step(Main, step[Main], to)
          /\ to = "start" => step[Main] = "init"
          /\ to = "startLoop" => step[Main] = "assert"
          /\ to = "return" => step[Main] = "startLoop" /\ Begins(Main, LoopOf(k), "wait")
          /\ to = "serving" => k \notin Pool
    BY <1>8 DEF InitDone, AssertTid, WaitLoop, Serve, Step, Wait, Begins
  <2>2. UNCHANGED <<k, loops, log, failed>>
    BY <1>8 DEF InitDone, AssertTid, WaitLoop, Serve, logVars
  <2>3. /\ step' \in [Threads -> Steps] /\ step'[Main] = to
        /\ \A u \in Threads : u # Main => step'[u] = step[u]
    <3>1. to \in Steps
      BY DEF Steps
    <3> QED
      BY <1>1, <2>1, <3>1, StepEffect
  <2>4. ProgramTypes'
    BY <1>1, <1>3, <2>2, <2>3 DEF ProgramTypes
  <2>5. OpensOwn'
    <3>1. \A u \in Threads : call[u].op = "open" => step'[u] = step[u]
      BY <1>1, <2>3 DEF OpensOwn
    <3> QED
      BY <1>1, <1>3, <3>1, OpensKept
  <2>6. OpenTells'
    BY <1>1, <1>3, <1>4, <2>3 DEF OpenTells
  <2>7. MainWaits'
    <3>1. to \in {"startLoop", "return"} => k \in Pool
      BY <1>1, <2>1 DEF MainWaits
    <3>2. to = "return" => Waits(Main, LoopOf(k))'
      BY <1>1, <2>1, <2>2, <3>1, BeginEffect DEF Waits
    <3>3. to = "serving" => k = Log
      BY <1>1, <2>1, NumThreadsAssumption DEF ProgramTypes, Pool, Log
    <3> QED
      BY <2>2, <2>3, <3>1, <3>2, <3>3 DEF MainWaits
  <2>8. OnceWaits'
    BY <1>1, <1>3, <1>4, <1>6, <2>2 DEF OnceWaits, Workers
  <2>9. NotBegun'
    BY <1>1, <1>3, <2>1, <2>2, <2>3 DEF NotBegun
  <2>10. LoopsMade'
    BY <1>1, <1>7, <2>2, <2>3 DEF LoopsMade
  <2> QED
    BY <1>5, <2>4, <2>5, <2>6, <2>7, <2>8, <2>9, <2>10 DEF ProgramStepInv, ProgramInv
<1>9. CASE StartThread
  <2>1. /\ k \in Pool /\ step[Main] = "start" /\ UNCHANGED <<k, loops>>
        /\ \/ /\ step' = [step EXCEPT ![Main] = "assert", ![k] = "tid"]
              /\ Begins(Main, Latch(k), "wait") /\ UNCHANGED <<log, failed>>
           \/ /\ step' = [step EXCEPT ![Main] = "startLoop"]
              /\ log' = [log EXCEPT ![Main] = "once"] /\ failed' = TRUE
    BY <1>9 DEF StartThread, Wait, Begins
  <2>2. /\ step' \in [Threads -> Steps] /\ step'[Main] \in {"assert", "startLoop"}
        /\ step[k] = "none"
        /\ step'[k] \in {"none", "tid"}
        /\ \A u \in Threads : u # Main /\ u # k => step'[u] = step[u]
    BY <1>1, <2>1 DEF ProgramTypes, Steps, NotBegun
  <2>3. /\ log' \in [Threads -> LogStates] /\ log'[Main] \in {"none", "once"}
        /\ \A u \in Threads : u # Main => log'[u] = log[u]
        /\ failed' \in BOOLEAN
    <3>1. log \in [Threads -> LogStates] /\ failed \in BOOLEAN
      BY <1>1 DEF ProgramTypes
    <3>2. CASE UNCHANGED <<log, failed>>
      BY <1>2, <3>1, <3>2
    <3>3. CASE log' = [log EXCEPT ![Main] = "once"] /\ failed' = TRUE
      BY <3>1, <3>3 DEF LogStates
    <3> QED
      BY <2>1, <3>2, <3>3
  <2>4. ProgramTypes'
    BY <1>1, <1>3, <2>1, <2>2, <2>3 DEF ProgramTypes
  <2>5. OpensOwn'
    <3>1. \A u \in Threads : call[u].op = "open" => step'[u] = step[u]
      BY <1>1, <1>2, <2>2 DEF OpensOwn
    <3> QED
      BY <1>1, <1>3, <3>1, OpensKept
  <2>6. OpenTells'
    BY <1>1, <1>3, <1>4, <2>2 DEF OpenTells
  <2>7. MainWaits'
    <3>1. step'[Main] = "assert" => Begins(Main, Latch(k), "wait")
      BY <1>1, <2>1 DEF ProgramTypes
    <3>2. step'[Main] = "assert" => Waits(Main, Latch(k))'
      BY <1>1, <2>1, <3>1, BeginEffect DEF Waits, Workers
    <3> QED
      BY <2>1, <2>2, <3>2 DEF MainWaits
  <2>8. OnceWaits'
    BY <1>1, <1>3, <1>4, <1>6, <2>3 DEF OnceWaits, Workers
  <2>9. NotBegun'
    <3>1. \A u \in Pool : u > k => u # k /\ u # Main
      BY DEF Pool
    <3>2. \A u \in Threads : log'[u] \in {"new", "create"} => log[u] \in {"new", "create"}
      BY <2>3
    <3>3. step'[Log] = step[Log]
      BY <2>1, <2>2
    <3> QED
      BY <1>1, <1>3, <2>1, <2>2, <3>1, <3>2, <3>3 DEF NotBegun
  <2>10. LoopsMade'
    BY <1>1, <1>7, <2>1, <2>2 DEF LoopsMade
  <2> QED
    BY <1>5, <2>4, <2>5, <2>6, <2>7, <2>8, <2>9, <2>10 DEF ProgramStepInv, ProgramInv
<1>10. CASE PushLoop
  <2>1. /\ Step(Main, "return", "start") /\ k' = k + 1
        /\ loops' = Append(loops, IF open[LoopOf(k)] THEN k ELSE Nobody)
        /\ UNCHANGED <<log, failed, call>>
    BY <1>10 DEF PushLoop, logVars
  <2>2. /\ step' \in [Threads -> Steps] /\ step'[Main] = "start" /\ step[Main] = "return"
        /\ \A u \in Threads : u # Main => step'[u] = step[u]
    BY <1>1, <2>1, StepEffect DEF Steps
  <2>3. k \in Pool /\ open[LoopOf(k)] /\ step[k] = "run"
    BY <1>1, <1>2, <2>2 DEF MainWaits, Waits, OpenTells, Workers
  <2>4. loops' = Append(loops, k)
    BY <2>1, <2>3
  <2>5. k' \in 2..Log /\ k \in Nat
    BY <2>1, <2>3, NumThreadsAssumption DEF Pool, Log
  <2>6. ProgramTypes'
    BY <1>1, <1>3, <2>1, <2>2, <2>3, <2>4, <2>5 DEF ProgramTypes
  <2>7. OpensOwn'
    <3>1. \A u \in Threads : call[u].op = "open" => step'[u] = step[u]
      BY <1>1, <2>2 DEF OpensOwn
    <3> QED
      BY <1>1, <1>3, <3>1, OpensKept
  <2>8. OpenTells'
    BY <1>1, <1>3, <1>4, <2>2 DEF OpenTells
  <2>9. MainWaits'
    BY <2>2 DEF MainWaits
  <2>10. OnceWaits'
    BY <1>1, <1>3, <1>4, <1>6, <2>1 DEF OnceWaits, Workers
  <2>11. NotBegun'
    <3>1. \A u \in Pool : u >= k + 1 => step[u] = "none"
      BY <1>1, <2>5 DEF NotBegun, Pool
    <3>2. \A u \in Pool : u >= k' => step'[u] = "none"
      BY <2>1, <2>2, <3>1
    <3>3. \A u \in Pool : (u > k' => u >= k') /\ (u = k' => u >= k')
      BY <2>5 DEF Pool
    <3>4. \A u \in Pool : u > k' => step'[u] = "none"
      BY <3>2, <3>3
    <3>5. k' \in Pool => step'[k'] = "none"
      BY <3>2, <3>3
    <3> QED
      BY <1>1, <1>3, <2>1, <2>2, <3>4, <3>5 DEF NotBegun
  <2>12. LoopsMade'
    <3>1. loops \in Seq(Pool) /\ Len(loops) = k - 2
      BY <1>1 DEF ProgramTypes, LoopsMade
    <3>2. /\ Len(loops') = Len(loops) + 1
          /\ \A i \in 1..Len(loops) : loops'[i] = loops[i]
          /\ loops'[Len(loops) + 1] = k
      BY <2>4, <3>1
    <3>3. Len(loops') = k' - 2
      BY <2>1, <2>5, <3>1, <3>2
    <3>4. \A i \in 1..Len(loops') : loops'[i] = i + 1 /\ step'[i + 1] = "run"
      <4> SUFFICES ASSUME NEW i \in 1..Len(loops')
                   PROVE  loops'[i] = i + 1 /\ step'[i + 1] = "run"
        OBVIOUS
      <4>1. CASE i \in 1..Len(loops)
        BY <1>1, <1>7, <2>2, <3>2, <4>1 DEF LoopsMade
      <4>2. CASE i = Len(loops) + 1
        <5>1. i + 1 = k
          BY <2>5, <3>1, <4>2
        <5>2. step'[k] = "run"
          BY <2>2, <2>3
        <5> QED
          BY <3>2, <4>2, <5>1, <5>2
      <4> QED
        BY <3>1, <3>2, <4>1, <4>2
    <3> QED
      BY <3>3, <3>4 DEF LoopsMade
  <2> QED
    BY <1>5, <2>6, <2>7, <2>8, <2>9, <2>10, <2>11, <2>12 DEF ProgramStepInv, ProgramInv
<1> QED
  BY <1>8, <1>9, <1>10 DEF MainStep

-----------------------------------------------------------------------------
LEMMA IInvStep == IInv /\ [Next]_vars => IInv'
<1> SUFFICES ASSUME IInv, [Next]_vars PROVE IInv'
  OBVIOUS
<1>1. TypeOK /\ MutexOwned /\ HolderInside /\ WaitOver /\ ProgramTypes /\ ProgramInv
  BY TypesSplit DEF IInv, ProgramInv
<1>2. ASSUME ProgramStepInv'
      PROVE  IInv'
  <2>1. TypeOK'
    BY <1>2 DEF ProgramStepInv, TypeOK, ProgramTypes, GateTypes, LogStates
  <2> QED
    BY <1>2, <2>1 DEF IInv, ProgramStepInv, ProgramInv
<1>3. ASSUME NEW t \in Threads, GateEffect(t), UNCHANGED <<step, k, loops, tid, logVars, failed>>,
             GateTypes' /\ MutexOwned' /\ HolderInside' /\ WaitOver'
      PROVE  IInv'
  <2>1. ProgramTypes'
    BY <1>1, <1>3 DEF ProgramTypes, logVars
  <2>2. ProgramInv'
    BY <1>1, <1>3, GateProgramStep
  <2> QED
    BY <1>2, <1>3, <2>1, <2>2 DEF ProgramStepInv
<1>4. CASE \E t \in Threads : ThreadStep(t) \/ Spurious(t)
  <2> PICK t \in Threads : ThreadStep(t) \/ Spurious(t)
    BY <1>4
  <2>1. CASE t = Main /\ MainStep
    BY <1>2, <2>1, MainProgramStep
  <2>2. CASE t # Main /\ (RunInThread(t) \/ ThreadFunc(t))
    BY <1>2, <2>2, WorkerProgramStep
  <2>3. CASE LogSteps(t)
    BY <1>2, <2>3, LogProgramStep DEF ProgramStepInv
  <2>4. CASE GateStep(t)
    <3>1. GateEffect(t)
      BY <1>1, <2>4, GateStepEffect
    <3>2. GateTypes' /\ MutexOwned' /\ HolderInside' /\ WaitOver'
      BY <1>1, <2>4, GateMutexStep
    <3>3. UNCHANGED <<step, k, loops, tid, logVars, failed>>
      BY <2>4 DEF GateStep
    <3> QED
      BY <1>3, <3>1, <3>2, <3>3
  <2>5. CASE Spurious(t)
    <3>1. GateTypes' /\ MutexOwned' /\ HolderInside' /\ WaitOver' /\ GateEffect(t)
      BY <1>1, <2>5, SpuriousStep
    <3>2. UNCHANGED <<step, k, loops, tid, logVars, failed>>
      BY <2>5 DEF Spurious
    <3> QED
      BY <1>3, <3>1, <3>2
  <2> QED
    BY <2>1, <2>2, <2>3, <2>4, <2>5 DEF ThreadStep
<1>5. CASE \E t \in Threads \ {Log} : BeginLog(t)
  BY <1>2, <1>5, LogProgramStep DEF ProgramStepInv
<1>6. CASE UNCHANGED vars
  BY <1>6 DEF vars, logVars, gateVars, IInv, TypeOK, MutexOwned, HolderInside, WaitOver,
     OpensOwn, OpenTells, MainWaits, OnceWaits, NotBegun, LoopsMade, Waits
<1> QED
  BY <1>4, <1>5, <1>6 DEF Next

\* IInv holds in every reachable state.
THEOREM Invariant == SafeSpec => []IInv
BY IInvInit, IInvStep, PTL DEF SafeSpec

\* Every variable keeps to its range, whatever the number of threads.
THEOREM TypeCorrect == SafeSpec => []TypeOK
<1>1. IInv => TypeOK
  BY DEF IInv
<1> QED
  BY <1>1, Invariant, PTL

\* The assertions of Thread::start and AsyncLogging::threadFunc hold: countDown() comes
\* after tid_ is set, and running_ is set before the log's thread is made.
THEOREM StartAsserts == SafeSpec => []AssertsHold
<1>1. IInv => AssertsHold
  <2> SUFFICES ASSUME IInv PROVE AssertsHold
    OBVIOUS
  <2>1. step[Main] = "assert" /\ call[Main].at = "idle" => tid[k] = k
    BY DEF IInv, MainWaits, OpenTells, Waits, Workers
  <2>2. \A t \in Threads : log[t] = "assert" /\ call[t].at = "idle" => tid[Log] = Log
    BY DEF IInv, OnceWaits, OpenTells, Waits, Workers
  <2>3. step[Log] = "func" => running
    BY DEF IInv, NotBegun
  <2> QED
    BY <2>1, <2>2, <2>3 DEF AssertsHold
<1> QED
  BY <1>1, Invariant, PTL

\* startLoop never returns NULL, and a LOG that passed pthread_once finds the log started,
\* though loop_ and AsyncLogger_ are read without a mutex.
THEOREM MadeBeforeUse == SafeSpec => []UsedWhenMade
<1>1. IInv => UsedWhenMade
  <2> SUFFICES ASSUME IInv PROVE UsedWhenMade
    OBVIOUS
  <2>1. \A i \in 1..Len(loops) : loops[i] = i + 1 /\ step[loops[i]] = "run"
    BY DEF IInv, LoopsMade
  <2>2. step[Main] = "serving" => Len(loops) = NumThreads
    BY NumThreadsAssumption DEF IInv, LoopsMade, MainWaits, Log
  <2>3. \A t \in Threads : log[t] = "append" => open[Ready] /\ once = Done
    BY DEF IInv, OnceWaits
  <2> QED
    BY <2>1, <2>2, <2>3 DEF UsedWhenMade
<1> QED
  BY <1>1, Invariant, PTL

\* holder_ names a thread only while it owns the mutex or sleeps on it, though
\* Condition::wait gives up the mutex and leaves holder_ as it is.
THEOREM HolderTells == SafeSpec => []HolderTrue
<1>1. IInv => HolderTrue
  <2> SUFFICES ASSUME IInv, NEW g \in Gates, holder[g] # Nobody
               PROVE  owner[g] = holder[g] \/ AsleepAt(holder[g], g)
    BY DEF HolderTrue
  <2>1. holder[g] \in Threads
    BY DEF IInv, TypeOK
  <2>2. /\ call[holder[g]].gate = g
        /\ call[holder[g]].at \in {"in", "asleep", "relock", "notify", "unassign"}
    BY <2>1 DEF IInv, HolderInside
  <2> QED
    BY <2>1, <2>2 DEF IInv, MutexOwned, AsleepAt
<1> QED
  BY <1>1, Invariant, PTL
=============================================================================
