------------------------- MODULE AsyncLoggingProofs -------------------------
(***************************************************************************)
(* What holds of AsyncLogging for every number of buffers, of lines in a   *)
(* buffer and of lines logged: the types, the single ownership of buffers, *)
(* the assertions of threadFunc, that the logging thread only waits when   *)
(* nothing is queued, that lines reach the file in their order, and, from  *)
(* all of these, that the log implements the safety part of LossyLog.      *)
(***************************************************************************)
EXTENDS AsyncLogging, SequenceTheorems, FiniteSetTheorems, TLAPS

\* The logging thread holds both spare buffers, and they are empty.
SparesAtHand ==
  lpc \in {"loop", "lock", "waiting", "awake", "flush"} =>
    /\ newBuffer1 # NoBuf /\ content[newBuffer1] = <<>>
    /\ newBuffer2 # NoBuf /\ content[newBuffer2] = <<>>
    /\ buffersToWrite = <<>>

\* Before the thread runs it holds nothing.
NoSparesYet ==
  lpc \in {"none", "enter"} =>
    newBuffer1 = NoBuf /\ newBuffer2 = NoBuf /\ buffersToWrite = <<>>

\* While a batch is written, it has as many buffers as there are spares to replace.
BatchCoversSpares ==
  lpc \in {"trim", "write"} =>
    /\ newBuffer1 = NoBuf
    /\ Len(buffersToWrite) >= 1
    /\ newBuffer2 = NoBuf => Len(buffersToWrite) >= 2
    /\ newBuffer2 # NoBuf => content[newBuffer2] = <<>>

\* A buffer nobody refers to is empty: `new Buffer' returns empty ones.
FreeBuffersEmpty == \A b \in Buf \ InUse : content[b] = <<>>

\* Nothing of the batch is written before the trim.
NothingWritten == lpc = "trim" => written = 0

\* append() uses nextBuffer_ up only when it queues a buffer.
NextOrQueued == nextBuffer = NoBuf => buffers # <<>>

\* running_ is set until start() returned.
RunningAtEnter ==
  /\ lpc = "enter" => spc = "latch"
  /\ spc = "latch" => running
  /\ spc = "new" => lpc = "none"

IInv ==
  /\ TypeOK
  /\ SingleOwner
  /\ SparesAtHand
  /\ NoSparesYet
  /\ BatchCoversSpares
  /\ FreeBuffersEmpty
  /\ NothingWritten
  /\ NextOrQueued
  /\ RunningAtEnter
  /\ WaitsWhenEmpty

-----------------------------------------------------------------------------
(* Sequences of buffers                                                    *)

LEMMA EmptyRange == IsInjective(<<>>) /\ Range(<<>>) = {}
BY DEF IsInjective, Range

LEMMA AppendRange ==
  ASSUME NEW S, NEW s \in Seq(S), NEW e \in S
  PROVE  /\ Range(Append(s, e)) = Range(s) \union {e}
         /\ IsInjective(s) /\ e \notin Range(s) => IsInjective(Append(s, e))
BY AppendProperties DEF Range, IsInjective

LEMMA FirstTwo ==
  ASSUME NEW S, NEW s \in Seq(S), Len(s) >= 2
  PROVE  /\ SubSeq(s, 1, 2) \in Seq(S)
         /\ Len(SubSeq(s, 1, 2)) = 2
         /\ Range(SubSeq(s, 1, 2)) \subseteq Range(s)
         /\ IsInjective(s) => IsInjective(SubSeq(s, 1, 2))
BY DEF Range, IsInjective

LEMMA ElementInRange ==
  ASSUME NEW S, NEW s \in Seq(S), NEW i \in 1..Len(s)
  PROVE  s[i] \in Range(s) /\ s[i] \in S
BY DEF Range

LEMMA RangeInSet == ASSUME NEW S, NEW s \in Seq(S) PROVE Range(s) \subseteq S
BY DEF Range

-----------------------------------------------------------------------------
(* Types                                                                   *)

\* The variables have their types when the log is constructed.
LEMMA TypeInit == Init => TypeOK
<1> SUFFICES ASSUME Init PROVE TypeOK
  OBVIOUS
<1>1. currentBuffer \in Buf /\ nextBuffer \in Buf
  BY DEF Init, NewBuffer
<1>2. <<>> \in Seq(Buf) /\ <<>> \in Seq(Nat) /\ Len(<<>>) = 0
  OBVIOUS
<1>3. content \in [Buf -> Seq(Nat)]
  BY <1>2 DEF Init
<1>4. spc \in StopPcs /\ lpc \in LogPcs /\ running \in BOOLEAN
  BY DEF Init, StopPcs, LogPcs
<1>5. QED
  BY <1>1, <1>2, <1>3, <1>4 DEF Init, TypeOK

\* Emptying buffers leaves sequences of lines.
LEMMA EmptiedType ==
  ASSUME TypeOK, NEW bufs
  PROVE  /\ Emptied(bufs) \in [Buf -> Seq(Nat)]
         /\ \A b \in Buf : Emptied(bufs)[b] = IF b \in bufs THEN <<>> ELSE content[b]
BY DEF TypeOK, Emptied

\* The variables keep their types in every step of the log and of its callers.
LEMMA TypeStep == IInv /\ [Next]_vars => TypeOK'
<1> SUFFICES ASSUME IInv, [Next]_vars PROVE TypeOK'
  OBVIOUS
<1>t. TypeOK
  BY DEF IInv
<1> USE <1>t DEF TypeOK, LogPcs, StopPcs, frontVars, backVars, fileVars
<1>1. CASE Start \/ LatchWait \/ StopFlag \/ Join
  BY <1>1 DEF Start, LatchWait, StopFlag, Join
<1>2. CASE StopNotify
  BY <1>2 DEF StopNotify, Notify
<1>3. CASE AppendToCurrent
  <2>1. content' \in [Buf -> Seq(Nat)] /\ accepted' \in Nat
    BY <1>3 DEF AppendToCurrent
  <2>2. QED
    BY <1>3, <2>1 DEF AppendToCurrent
<1>4. CASE AppendToNext
  <2>1. currentBuffer' \in Buf /\ content' \in [Buf -> Seq(Nat)]
    BY <1>4 DEF AppendToNext
  <2>2. QED
    BY <1>4, <2>1 DEF AppendToNext, Notify
<1>5. CASE Enter
  BY <1>5 DEF Enter
<1>6. CASE CheckRunning
  <2>1. lpc' \in LogPcs /\ synced' \in 0..Len(stdio)
    BY <1>6 DEF CheckRunning
  <2>2. QED
    BY <1>6, <2>1 DEF CheckRunning
<1>7. CASE WaitForLines \/ Timeout
  BY <1>7 DEF WaitForLines, Timeout
<1>8. CASE SwapBuffers
  <2>1. newBuffer1 \in Buf /\ written = 0
    <3>1. newBuffer1 # NoBuf /\ buffersToWrite = <<>>
      BY <1>8 DEF SwapBuffers, IInv, SparesAtHand
    <3>2. Len(buffersToWrite) = 0
      BY <3>1
    <3>3. QED
      BY <3>1, <3>2
  <2>2. buffersToWrite' \in Seq(Buf) /\ buffers' \in Seq(Buf) /\ written' \in 0..Len(buffersToWrite')
    BY <1>8, <2>1 DEF SwapBuffers
  <2>3. QED
    BY <1>8, <2>1, <2>2 DEF SwapBuffers
<1>9. CASE Trim
  <2>1. CASE Len(buffersToWrite) > MaxBuffers
    <3>1. Len(buffersToWrite) >= 2
      BY <2>1, SizeAssumption
    <3>2. buffersToWrite' \in Seq(Buf) /\ Len(buffersToWrite') = 2
      BY <1>9, <2>1, <3>1, FirstTwo DEF Trim
    <3>3. written' = 0
      BY <1>9 DEF Trim, IInv, NothingWritten
    <3>4. QED
      BY <1>9, <3>2, <3>3, EmptiedType DEF Trim
  <2>2. CASE ~(Len(buffersToWrite) > MaxBuffers)
    BY <1>9, <2>2, EmptiedType DEF Trim
  <2>3. QED
    BY <2>1, <2>2
<1>10. CASE WriteBuffer
  <2>1. buffersToWrite[written + 1] \in Buf
    BY <1>10 DEF WriteBuffer
  <2>2. stdio' \in Seq(Nat) /\ Len(stdio') >= Len(stdio)
    BY <1>10, <2>1, ConcatProperties DEF WriteBuffer
  <2>3. count' \in Nat
    BY <1>10, SizeAssumption DEF WriteBuffer
  <2>4. synced' \in 0..Len(stdio')
    <3>1. Len(stdio') \in Nat /\ Len(stdio) \in Nat
      BY <2>2
    <3>2. synced' = Len(stdio') \/ synced' \in synced..Len(stdio')
      BY <1>10 DEF WriteBuffer
    <3>3. synced \in Nat
      BY <3>1
    <3>4. QED
      BY <3>1, <3>2, <3>3
  <2>5. QED
    BY <1>10, <2>2, <2>3, <2>4 DEF WriteBuffer
<1>11. CASE Recycle
  <2>1. newBuffer1 = NoBuf /\ Len(buffersToWrite) >= 1
        /\ (newBuffer2 = NoBuf => Len(buffersToWrite) >= 2)
    BY <1>11 DEF Recycle, IInv, BatchCoversSpares
  <2>2. newBuffer1' \in Buf /\ newBuffer2' \in Buf \union {NoBuf}
    BY <1>11, <2>1 DEF Recycle
  <2>3. QED
    BY <1>11, <2>2, EmptiedType DEF Recycle
<1>12. CASE Flush
  BY <1>12 DEF Flush
<1>13. CASE UNCHANGED vars
  BY <1>13 DEF vars
<1>14. QED
  BY <1>1, <1>2, <1>3, <1>4, <1>5, <1>6, <1>7, <1>8, <1>9, <1>10, <1>11, <1>12, <1>13
     DEF Next, LogStep

-----------------------------------------------------------------------------
(* The inductive invariant                                                 *)

\* A log that is constructed has two empty buffers of its own and nothing queued.
LEMMA IInvInit == Init => IInv
<1> SUFFICES ASSUME Init PROVE IInv
  OBVIOUS
<1>1. currentBuffer \in Buf /\ nextBuffer \in Buf /\ nextBuffer # currentBuffer
  BY DEF Init, NewBuffer
<1>2. SingleOwner
  BY <1>1, EmptyRange, BufAssumption DEF Init, SingleOwner
<1>3. SparesAtHand /\ NoSparesYet /\ BatchCoversSpares /\ NothingWritten /\ NextOrQueued
      /\ RunningAtEnter /\ WaitsWhenEmpty
  BY <1>1, BufAssumption
     DEF Init, SparesAtHand, NoSparesYet, BatchCoversSpares, NothingWritten, NextOrQueued,
         RunningAtEnter, WaitsWhenEmpty
<1>4. FreeBuffersEmpty
  BY DEF Init, FreeBuffersEmpty
<1>5. QED
  BY <1>2, <1>3, <1>4, TypeInit DEF IInv

\* The control of the two threads: which flags and counters go with which place.
LEMMA ControlStep ==
  ASSUME IInv, [Next]_vars
  PROVE  NothingWritten' /\ NextOrQueued' /\ RunningAtEnter' /\ WaitsWhenEmpty'
<1> USE DEF IInv, NothingWritten, NextOrQueued, RunningAtEnter, WaitsWhenEmpty, frontVars,
            backVars, fileVars
<1>1. CASE Start \/ LatchWait \/ StopFlag \/ Join \/ StopNotify
  BY <1>1 DEF Start, LatchWait, StopFlag, Join, StopNotify, Notify
<1>2. CASE AppendToCurrent
  BY <1>2 DEF AppendToCurrent
<1>3. CASE AppendToNext
  <2>1. buffers' # <<>>
    <3>1. buffers' = Append(buffers, currentBuffer)
      BY <1>3 DEF AppendToNext
    <3>2. buffers \in Seq(Buf) /\ currentBuffer \in Buf
      BY DEF TypeOK
    <3>3. QED
      BY <3>1, <3>2, AppendProperties
  <2>2. QED
    BY <1>3, <2>1 DEF AppendToNext, Notify, CanAppend
<1>4. CASE Enter \/ CheckRunning \/ WaitForLines \/ Timeout \/ Flush
  BY <1>4 DEF Enter, CheckRunning, WaitForLines, Timeout, Flush
<1>5. CASE SwapBuffers
  <2>1. newBuffer2 # NoBuf /\ buffersToWrite = <<>>
    BY <1>5 DEF SwapBuffers, SparesAtHand
  <2>2. written' = 0
    <3>1. Len(buffersToWrite) = 0
      BY <2>1
    <3>2. QED
      BY <1>5, <3>1 DEF SwapBuffers, TypeOK
  <2>3. QED
    BY <1>5, <2>1, <2>2 DEF SwapBuffers
<1>6. CASE Trim \/ WriteBuffer \/ Recycle
  BY <1>6 DEF Trim, WriteBuffer, Recycle
<1>7. CASE UNCHANGED vars
  BY <1>7 DEF vars
<1>8. QED
  BY <1>1, <1>2, <1>3, <1>4, <1>5, <1>6, <1>7 DEF Next, LogStep

\* Buffers change hands without two owners.
LEMMA OwnerStep == ASSUME IInv, [Next]_vars PROVE SingleOwner'
<1>t. TypeOK /\ SingleOwner
  BY DEF IInv
<1>r. /\ Range(buffers) \subseteq Buf /\ Range(buffersToWrite) \subseteq Buf
      /\ NoBuf \notin Range(buffers) \union Range(buffersToWrite) \union {currentBuffer}
  BY <1>t, RangeInSet, BufAssumption DEF TypeOK
<1>1. ASSUME UNCHANGED <<frontVars, backVars>> PROVE SingleOwner'
  BY <1>t, <1>1 DEF SingleOwner, frontVars, backVars
<1>2. ASSUME UNCHANGED <<currentBuffer, nextBuffer, buffers, newBuffer1, newBuffer2, buffersToWrite>>
      PROVE  SingleOwner'
  BY <1>t, <1>2 DEF SingleOwner
<1>3. CASE AppendToNext
  <2>1. buffers' = Append(buffers, currentBuffer) /\ nextBuffer' = NoBuf
        /\ UNCHANGED <<newBuffer1, newBuffer2, buffersToWrite>>
    BY <1>3 DEF AppendToNext, backVars
  <2>2. Range(buffers') = Range(buffers) \union {currentBuffer} /\ IsInjective(buffers')
    BY <1>t, <2>1, AppendRange DEF SingleOwner, TypeOK
  <2>3. /\ currentBuffer' \in Buf
        /\ currentBuffer' \notin Range(buffers) \union Range(buffersToWrite)
                                   \union {currentBuffer, newBuffer1, newBuffer2}
    <3>1. CASE nextBuffer # NoBuf
      BY <1>3, <1>t, <3>1 DEF AppendToNext, SingleOwner
    <3>2. CASE nextBuffer = NoBuf
      BY <1>3, <1>t, <3>2, BufAssumption DEF AppendToNext, NewBuffer, InUse
    <3>3. QED
      BY <3>1, <3>2
  <2>4. QED
    BY <1>t, <1>r, <2>1, <2>2, <2>3, BufAssumption DEF SingleOwner
<1>4. CASE Enter
  <2>1. PICK b1 \in Buf, b2 \in Buf :
          /\ newBuffer1' = b1 /\ b1 \notin InUse
          /\ newBuffer2' = b2 /\ b2 \notin InUse /\ b2 # b1
    BY <1>4 DEF Enter, NewBuffer
  <2>2. UNCHANGED <<currentBuffer, nextBuffer, buffers, buffersToWrite>>
    BY <1>4 DEF Enter, frontVars
  <2>3. b1 \notin Range(buffers) \union Range(buffersToWrite) \union {currentBuffer, nextBuffer}
    BY <2>1, BufAssumption DEF InUse
  <2>4. b2 \notin Range(buffers) \union Range(buffersToWrite) \union {currentBuffer, nextBuffer}
    BY <2>1, BufAssumption DEF InUse
  <2>5. QED
    BY <1>t, <2>1, <2>2, <2>3, <2>4 DEF SingleOwner
<1>5. CASE SwapBuffers
  <2>1. newBuffer1 # NoBuf /\ newBuffer2 # NoBuf /\ buffersToWrite = <<>>
    BY <1>5 DEF SwapBuffers, IInv, SparesAtHand
  <2>2. Range(buffersToWrite') = Range(buffers) \union {currentBuffer} /\ IsInjective(buffersToWrite')
    BY <1>t, <1>5, AppendRange DEF SwapBuffers, SingleOwner, TypeOK
  <2>3. Range(buffers') = {} /\ IsInjective(buffers')
    BY <1>5, <2>1, EmptyRange DEF SwapBuffers
  <2>4. CASE nextBuffer = NoBuf
    BY <1>t, <1>r, <1>5, <2>1, <2>2, <2>3, <2>4 DEF SwapBuffers, SingleOwner
  <2>5. CASE nextBuffer # NoBuf
    BY <1>t, <1>r, <1>5, <2>1, <2>2, <2>3, <2>5 DEF SwapBuffers, SingleOwner
  <2>6. QED
    BY <2>4, <2>5
<1>6. CASE Trim
  <2>1. UNCHANGED <<currentBuffer, nextBuffer, buffers, newBuffer1, newBuffer2>>
    BY <1>6 DEF Trim, frontVars
  <2>2. Range(buffersToWrite') \subseteq Range(buffersToWrite) /\ IsInjective(buffersToWrite')
    <3>1. CASE Len(buffersToWrite) > MaxBuffers
      BY <1>t, <1>6, <3>1, FirstTwo, SizeAssumption DEF Trim, TypeOK, SingleOwner
    <3>2. CASE ~(Len(buffersToWrite) > MaxBuffers)
      BY <1>t, <1>6, <3>2 DEF Trim, SingleOwner
    <3>3. QED
      BY <3>1, <3>2
  <2>3. QED
    BY <1>t, <2>1, <2>2 DEF SingleOwner
<1>7. CASE Recycle
  <2> DEFINE kept == IF Len(buffersToWrite) > 2 THEN 2 ELSE Len(buffersToWrite)
  <2>1. newBuffer1 = NoBuf /\ Len(buffersToWrite) >= 1
        /\ (newBuffer2 = NoBuf => Len(buffersToWrite) >= 2)
    BY <1>7 DEF Recycle, IInv, BatchCoversSpares
  <2>2. /\ UNCHANGED <<currentBuffer, nextBuffer, buffers>>
        /\ buffersToWrite' = <<>>
        /\ newBuffer1' = buffersToWrite[kept]
        /\ newBuffer2' = IF newBuffer2 = NoBuf THEN buffersToWrite[kept - 1] ELSE newBuffer2
    BY <1>7, <2>1 DEF Recycle, frontVars
  <2>3. newBuffer1' \in Range(buffersToWrite)
    BY <1>t, <2>1, <2>2, ElementInRange DEF TypeOK
  <2>4. newBuffer2' # newBuffer1' /\ (newBuffer2 = NoBuf => newBuffer2' \in Range(buffersToWrite))
    <3>1. CASE newBuffer2 = NoBuf
      <4>1. kept = 2 /\ kept \in 1..Len(buffersToWrite) /\ kept - 1 \in 1..Len(buffersToWrite)
        <5>1. Len(buffersToWrite) \in Nat /\ Len(buffersToWrite) >= 2
          BY <1>t, <2>1, <3>1 DEF TypeOK
        <5>2. kept = 2
          <6>1. CASE Len(buffersToWrite) > 2
            BY <6>1
          <6>2. CASE ~(Len(buffersToWrite) > 2)
            BY <5>1, <6>2
          <6>3. QED
            BY <6>1, <6>2
        <5>3. QED
          BY <5>1, <5>2
      <4>2. buffersToWrite[kept] # buffersToWrite[kept - 1]
        <5>1. DOMAIN buffersToWrite = 1..Len(buffersToWrite)
          BY <1>t DEF TypeOK
        <5>2. kept # kept - 1
          BY <4>1
        <5>3. QED
          BY <1>t, <4>1, <5>1, <5>2 DEF SingleOwner, IsInjective
      <4>3. QED
        BY <1>t, <2>2, <3>1, <4>1, <4>2, ElementInRange DEF TypeOK
    <3>2. CASE newBuffer2 # NoBuf
      BY <1>t, <2>2, <2>3, <3>2 DEF SingleOwner
    <3>3. QED
      BY <3>1, <3>2
  <2>5. Range(buffersToWrite') = {} /\ IsInjective(buffersToWrite')
    BY <2>2, EmptyRange
  <2>6. QED
    BY <1>t, <1>r, <2>2, <2>3, <2>4, <2>5 DEF SingleOwner
<1>8. CASE Start \/ LatchWait \/ StopFlag \/ Join \/ StopNotify \/ CheckRunning \/ WaitForLines
             \/ Timeout \/ Flush
  BY <1>8, <1>1 DEF Start, LatchWait, StopFlag, Join, StopNotify, CheckRunning, WaitForLines,
                    Timeout, Flush
<1>9. CASE AppendToCurrent \/ WriteBuffer
  BY <1>9, <1>2 DEF AppendToCurrent, WriteBuffer, frontVars, backVars
<1>10. CASE UNCHANGED vars
  BY <1>10, <1>1 DEF vars
<1>11. QED
  BY <1>3, <1>4, <1>5, <1>6, <1>7, <1>8, <1>9, <1>10 DEF Next, LogStep

\* A buffer is emptied when its last owner lets it go.
LEMMA FreeStep == ASSUME IInv, [Next]_vars PROVE FreeBuffersEmpty'
<1>t. TypeOK /\ FreeBuffersEmpty
  BY DEF IInv
<1>1. ASSUME InUse \subseteq InUse', NEW b \in InUse',
             \A c \in Buf \ {b} : content'[c] = content[c]
      PROVE  FreeBuffersEmpty'
  BY <1>t, <1>1 DEF FreeBuffersEmpty
<1>2. ASSUME UNCHANGED <<currentBuffer, nextBuffer, newBuffer1, newBuffer2, buffers, buffersToWrite>>
      PROVE  InUse' = InUse
  BY <1>2 DEF InUse
<1>3. currentBuffer \in InUse /\ currentBuffer' \in InUse'
  BY <1>t, TypeStep, BufAssumption DEF InUse, TypeOK
<1>4. ASSUME UNCHANGED content, InUse \subseteq InUse' PROVE FreeBuffersEmpty'
  BY <1>t, <1>4 DEF FreeBuffersEmpty
<1>5. CASE Start \/ LatchWait \/ StopFlag \/ StopNotify \/ Join \/ CheckRunning \/ WaitForLines
             \/ Timeout \/ Flush \/ WriteBuffer \/ UNCHANGED vars
  BY <1>5, <1>2, <1>4 DEF Start, LatchWait, StopFlag, StopNotify, Join, CheckRunning,
     WaitForLines, Timeout, Flush, WriteBuffer, vars, frontVars, backVars
<1>6. CASE AppendToCurrent
  <2>1. InUse' = InUse
    BY <1>6, <1>2 DEF AppendToCurrent, backVars
  <2>2. \A c \in Buf \ {currentBuffer} : content'[c] = content[c]
    BY <1>t, <1>6 DEF AppendToCurrent, TypeOK
  <2>3. QED
    BY <2>1, <2>2, <1>1, <1>3
<1>7. CASE AppendToNext
  <2>1. \A c \in Buf \ {currentBuffer'} : content'[c] = content[c]
    BY <1>t, <1>7 DEF AppendToNext, TypeOK
  <2>2. Range(buffers') = Range(buffers) \union {currentBuffer}
    BY <1>t, <1>7, AppendRange DEF AppendToNext, TypeOK
  <2>3. currentBuffer' = nextBuffer \/ nextBuffer = NoBuf
    BY <1>7 DEF AppendToNext
  <2>4. InUse \subseteq InUse'
    BY <1>7, <2>2, <2>3 DEF AppendToNext, InUse, backVars
  <2>5. QED
    BY <2>1, <2>4, <1>1, <1>3
<1>8. CASE Enter
  <2>1. InUse \subseteq InUse'
    BY <1>8 DEF Enter, InUse, frontVars, IInv, NoSparesYet
  <2>2. QED
    BY <1>8, <2>1, <1>4 DEF Enter
<1>9. CASE SwapBuffers
  <2>1. Range(buffersToWrite') = Range(buffers) \union {currentBuffer}
    BY <1>t, <1>9, AppendRange DEF SwapBuffers, TypeOK
  <2>2. Range(buffersToWrite) = {}
    BY <1>9, EmptyRange DEF SwapBuffers, IInv, SparesAtHand
  <2>3. InUse \subseteq InUse'
    <3>1. CASE nextBuffer = NoBuf
      BY <1>9, <2>1, <2>2, <3>1 DEF SwapBuffers, InUse
    <3>2. CASE nextBuffer # NoBuf
      BY <1>9, <2>1, <2>2, <3>2 DEF SwapBuffers, InUse
    <3>3. QED
      BY <3>1, <3>2
  <2>4. QED
    BY <1>9, <2>3, <1>4 DEF SwapBuffers
<1>10. CASE Trim
  <2>1. InUse \subseteq InUse' \union (Range(buffersToWrite) \ Range(buffersToWrite'))
    BY <1>10 DEF Trim, InUse, frontVars
  <2>2. QED
    BY <1>t, <1>10, <2>1, EmptiedType DEF Trim, FreeBuffersEmpty
<1>11. CASE Recycle
  <2>1. newBuffer1 = NoBuf
    BY <1>11 DEF Recycle, IInv, BatchCoversSpares
  <2>2. newBuffer2 = NoBuf \/ newBuffer2' = newBuffer2
    BY <1>11 DEF Recycle
  <2>3. InUse \subseteq InUse' \union Range(buffersToWrite)
    BY <1>11, <2>1, <2>2 DEF Recycle, InUse, frontVars
  <2>4. QED
    BY <1>t, <1>11, <2>3, EmptiedType DEF Recycle, FreeBuffersEmpty
<1>12. QED
  BY <1>5, <1>6, <1>7, <1>8, <1>9, <1>10, <1>11 DEF Next, LogStep

\* The logging thread gets its spare buffers back, empty, before it needs them.
LEMMA SparesStep ==
  ASSUME IInv, [Next]_vars
  PROVE  SparesAtHand' /\ NoSparesYet' /\ BatchCoversSpares'
<1>t. TypeOK /\ SingleOwner
  BY DEF IInv
<1> USE DEF IInv, SparesAtHand, NoSparesYet, BatchCoversSpares
<1>1. ASSUME UNCHANGED <<newBuffer1, newBuffer2, buffersToWrite, content>>,
             lpc' = lpc \/ {lpc, lpc'} \subseteq {"none", "enter"}
               \/ {lpc, lpc'} \subseteq {"loop", "lock", "waiting", "awake", "flush"}
               \/ lpc' = "ended"
      PROVE  SparesAtHand' /\ NoSparesYet' /\ BatchCoversSpares'
  BY <1>1
<1>2. ASSUME UNCHANGED <<newBuffer1, newBuffer2, buffersToWrite>>,
             lpc' = lpc \/ (lpc = "waiting" /\ lpc' = "awake"),
             \A b \in {newBuffer1, newBuffer2} : b # NoBuf => content'[b] = content[b]
      PROVE  SparesAtHand' /\ NoSparesYet' /\ BatchCoversSpares'
  BY <1>2
<1>3. CASE Start \/ LatchWait \/ StopFlag \/ StopNotify \/ Join
  BY <1>3, <1>1 DEF Start, LatchWait, StopFlag, StopNotify, Join, Notify, backVars, RunningAtEnter
<1>4. CASE CheckRunning \/ WaitForLines \/ Timeout \/ Flush
  BY <1>4, <1>1 DEF CheckRunning, WaitForLines, Timeout, Flush, backVars
<1>5. CASE AppendToCurrent
  <2>1. \A b \in {newBuffer1, newBuffer2} : b # NoBuf => content'[b] = content[b]
    BY <1>t, <1>5 DEF AppendToCurrent, SingleOwner, TypeOK
  <2>2. QED
    BY <1>5, <2>1, <1>2 DEF AppendToCurrent, backVars
<1>6. CASE AppendToNext
  <2>1. PICK b \in Buf :
          /\ IF nextBuffer # NoBuf THEN b = nextBuffer ELSE NewBuffer(b, InUse)
          /\ content' = [content EXCEPT ![b] = Append(@, accepted + 1)]
    BY <1>6 DEF AppendToNext
  <2>2. b \notin {newBuffer1, newBuffer2}
    <3>1. CASE nextBuffer # NoBuf
      BY <1>t, <2>1, <3>1 DEF SingleOwner
    <3>2. CASE nextBuffer = NoBuf
      BY <2>1, <3>2, BufAssumption DEF NewBuffer, InUse
    <3>3. QED
      BY <3>1, <3>2
  <2>3. \A c \in {newBuffer1, newBuffer2} : c # NoBuf => content'[c] = content[c]
    BY <1>t, <2>1, <2>2 DEF TypeOK
  <2>4. lpc' = lpc \/ (lpc = "waiting" /\ lpc' = "awake")
    BY <1>6 DEF AppendToNext, Notify
  <2>5. QED
    BY <1>6, <2>3, <2>4, <1>2 DEF AppendToNext, backVars
<1>7. CASE Enter
  <2>1. PICK b1 \in Buf, b2 \in Buf :
          newBuffer1' = b1 /\ b1 \notin InUse /\ newBuffer2' = b2 /\ b2 \notin InUse
    BY <1>7 DEF Enter, NewBuffer
  <2>2. lpc = "enter" /\ lpc' = "loop" /\ UNCHANGED <<content, buffersToWrite>>
    BY <1>7 DEF Enter
  <2>3. content[b1] = <<>> /\ content[b2] = <<>>
    BY <2>1 DEF FreeBuffersEmpty
  <2>4. QED
    BY <2>1, <2>2, <2>3, BufAssumption
<1>8. CASE SwapBuffers
  <2>1. lpc' = "trim" /\ newBuffer1' = NoBuf /\ buffersToWrite' = Append(buffers, currentBuffer)
    BY <1>8 DEF SwapBuffers
  <2>2. Len(buffersToWrite') = Len(buffers) + 1 /\ Len(buffers) \in Nat
        /\ (buffers # <<>> => Len(buffers) >= 1)
    BY <1>t, <2>1, AppendProperties DEF TypeOK
  <2>3. newBuffer2' = NoBuf => buffers # <<>>
    BY <1>8 DEF SwapBuffers, NextOrQueued
  <2>4. newBuffer2' # NoBuf => content'[newBuffer2'] = <<>>
    BY <1>8 DEF SwapBuffers
  <2>5. QED
    BY <2>1, <2>2, <2>3, <2>4
<1>9. CASE Trim
  <2>1. lpc' = "write" /\ UNCHANGED <<newBuffer1, newBuffer2>>
    BY <1>9 DEF Trim
  <2>2. Len(buffersToWrite') >= 2 \/ buffersToWrite' = buffersToWrite
    <3>1. CASE Len(buffersToWrite) > MaxBuffers
      BY <1>t, <1>9, <3>1, FirstTwo, SizeAssumption DEF Trim, TypeOK
    <3>2. CASE ~(Len(buffersToWrite) > MaxBuffers)
      BY <1>9, <3>2 DEF Trim
    <3>3. QED
      BY <3>1, <3>2
  <2>3. Len(buffersToWrite') \in Nat
    BY TypeStep DEF TypeOK
  <2>4. newBuffer2' # NoBuf => content'[newBuffer2'] = <<>>
    BY <1>t, <1>9, <2>1, EmptiedType DEF Trim, TypeOK
  <2>5. QED
    BY <1>9, <2>1, <2>2, <2>3, <2>4 DEF Trim
<1>10. CASE WriteBuffer
  BY <1>10, <1>1 DEF WriteBuffer
<1>11. CASE Recycle
  <2>1. newBuffer1 = NoBuf /\ Len(buffersToWrite) >= 1 /\ Len(buffersToWrite) \in Nat
        /\ (newBuffer2 = NoBuf => Len(buffersToWrite) >= 2)
    BY <1>t, <1>11 DEF Recycle, TypeOK
  <2>2. lpc' = "flush" /\ buffersToWrite' = <<>> /\ content' = Emptied(Range(buffersToWrite))
    BY <1>11 DEF Recycle
  <2>3. newBuffer1' \in Buf /\ newBuffer1' \in Range(buffersToWrite)
    <3>1. \E i \in 1..Len(buffersToWrite) : newBuffer1' = buffersToWrite[i]
      BY <1>11, <2>1 DEF Recycle
    <3>2. QED
      BY <1>t, <3>1, ElementInRange DEF TypeOK
  <2>4. content'[newBuffer1'] = <<>>
    BY <1>t, <2>2, <2>3, EmptiedType
  <2>5. newBuffer2' \in Buf /\ content'[newBuffer2'] = <<>>
    <3>1. CASE newBuffer2 = NoBuf
      <4>1. \E i \in 1..Len(buffersToWrite) : newBuffer2' = buffersToWrite[i]
        BY <1>11, <2>1, <3>1 DEF Recycle
      <4>2. newBuffer2' \in Buf /\ newBuffer2' \in Range(buffersToWrite)
        BY <1>t, <4>1, ElementInRange DEF TypeOK
      <4>3. QED
        BY <1>t, <2>2, <4>2, EmptiedType
    <3>2. CASE newBuffer2 # NoBuf
      <4>1. newBuffer2' = newBuffer2 /\ newBuffer2 \in Buf
        BY <1>t, <1>11, <3>2 DEF Recycle, TypeOK
      <4>2. content[newBuffer2] = <<>>
        BY <1>11, <3>2 DEF Recycle
      <4>3. QED
        BY <1>t, <2>2, <4>1, <4>2, EmptiedType
    <3>3. QED
      BY <3>1, <3>2
  <2>6. QED
    BY <2>2, <2>3, <2>4, <2>5, BufAssumption
<1>12. CASE UNCHANGED vars
  BY <1>12, <1>1 DEF vars, backVars
<1>13. QED
  BY <1>3, <1>4, <1>5, <1>6, <1>7, <1>8, <1>9, <1>10, <1>11, <1>12 DEF Next, LogStep

-----------------------------------------------------------------------------
(* The order of the lines                                                  *)

Increasing(s) == \A i, j \in 1..Len(s) : i < j => s[i] < s[j]

Before(s, t) == \A i \in 1..Len(s), j \in 1..Len(t) : s[i] < t[j]

UpTo(s, n) == \A i \in 1..Len(s) : s[i] <= n

\* Every buffer holds lines in order, none of them newer than the newest.
BuffersSorted == \A b \in Buf : Increasing(content[b]) /\ UpTo(content[b], accepted)

\* A buffer that was queued earlier holds earlier lines, and all of the batch is
\* earlier than what is queued.
QueueSorted ==
  /\ \A i, j \in 1..Len(buffers) :
       i < j => Before(content[buffers[i]], content[buffers[j]])
  /\ \A i, j \in (written + 1)..Len(buffersToWrite) :
       i < j => Before(content[buffersToWrite[i]], content[buffersToWrite[j]])
  /\ \A b \in Unwritten, c \in Range(buffers) : Before(content[b], content[c])

\* The current buffer holds the newest lines, and the next one none yet.
CurrentNewest ==
  /\ \A b \in Unwritten \union Range(buffers) : Before(content[b], content[currentBuffer])
  /\ nextBuffer # NoBuf => content[nextBuffer] = <<>>

\* What went to stdio is in order and older than all that is to follow.
StdioOldest ==
  /\ Increasing(stdio) /\ UpTo(stdio, accepted)
  /\ \A b \in Unwritten \union Range(buffers) \union {currentBuffer} :
       Before(stdio, content[b])

Chained == BuffersSorted /\ QueueSorted /\ CurrentNewest /\ StdioOldest

\* Nothing is a line of an empty buffer.
LEMMA EmptyOrdered ==
  /\ Increasing(<<>>)
  /\ \A n \in Nat : UpTo(<<>>, n)
  /\ \A s : Before(<<>>, s) /\ Before(s, <<>>)
BY DEF Increasing, UpTo, Before

\* A newer line goes to the end of a buffer.
LEMMA NewestLine ==
  ASSUME NEW s \in Seq(Nat), NEW n \in Nat, UpTo(s, n)
  PROVE  /\ UpTo(s, n + 1)
         /\ UpTo(Append(s, n + 1), n + 1)
         /\ Increasing(s) => Increasing(Append(s, n + 1))
         /\ \A t \in Seq(Nat) : Before(t, s) /\ UpTo(t, n) => Before(t, Append(s, n + 1))
<1>1. /\ Len(Append(s, n + 1)) = Len(s) + 1 /\ Len(s) \in Nat
      /\ \A i \in 1..Len(s) : Append(s, n + 1)[i] = s[i] /\ s[i] \in Nat
      /\ Append(s, n + 1)[Len(s) + 1] = n + 1
  BY AppendProperties
<1>2. \A i \in 1..Len(s) : s[i] <= n /\ s[i] < n + 1
  BY <1>1 DEF UpTo
<1>3. \A i \in 1..(Len(s) + 1) : i \in 1..Len(s) \/ i = Len(s) + 1
  BY <1>1
<1>4. UpTo(s, n + 1) /\ UpTo(Append(s, n + 1), n + 1)
  BY <1>1, <1>2, <1>3 DEF UpTo
<1>5. ASSUME Increasing(s) PROVE Increasing(Append(s, n + 1))
  BY <1>1, <1>2, <1>3, <1>5 DEF Increasing
<1>6. ASSUME NEW t \in Seq(Nat), Before(t, s), UpTo(t, n) PROVE Before(t, Append(s, n + 1))
  <2>1. \A i \in 1..Len(t) : t[i] \in Nat /\ t[i] < n + 1
    BY <1>6 DEF UpTo
  <2>2. QED
    BY <1>1, <1>3, <1>6, <2>1 DEF Before
<1>7. QED
  BY <1>4, <1>5, <1>6

\* One run of lines behind another.
LEMMA JoinedLines ==
  ASSUME NEW s \in Seq(Nat), NEW t \in Seq(Nat)
  PROVE  /\ Increasing(s) /\ Increasing(t) /\ Before(s, t) => Increasing(s \o t)
         /\ \A n \in Nat : UpTo(s, n) /\ UpTo(t, n) => UpTo(s \o t, n)
         /\ \A u \in Seq(Nat) : Before(s, u) /\ Before(t, u) => Before(s \o t, u)
<1>1. /\ Len(s \o t) = Len(s) + Len(t) /\ Len(s) \in Nat /\ Len(t) \in Nat
      /\ \A i \in 1..(Len(s) + Len(t)) :
           (s \o t)[i] = IF i <= Len(s) THEN s[i] ELSE t[i - Len(s)]
  BY ConcatProperties
<1>2. \A i \in 1..(Len(s) + Len(t)) :
        \/ i \in 1..Len(s) /\ (s \o t)[i] = s[i]
        \/ i - Len(s) \in 1..Len(t) /\ (s \o t)[i] = t[i - Len(s)] /\ i > Len(s)
  BY <1>1
<1>3. ASSUME Increasing(s), Increasing(t), Before(s, t) PROVE Increasing(s \o t)
  <2>1. SUFFICES ASSUME NEW i \in 1..(Len(s) + Len(t)), NEW j \in 1..(Len(s) + Len(t)), i < j
                 PROVE  (s \o t)[i] < (s \o t)[j]
    BY <1>1 DEF Increasing
  <2>2. CASE i \in 1..Len(s) /\ j \in 1..Len(s)
    BY <1>1, <1>3, <2>1, <2>2 DEF Increasing
  <2>3. CASE i \in 1..Len(s) /\ j > Len(s)
    BY <1>1, <1>2, <1>3, <2>1, <2>3 DEF Before
  <2>4. CASE i > Len(s) /\ j > Len(s)
    <3>1. /\ i - Len(s) \in 1..Len(t) /\ j - Len(s) \in 1..Len(t)
          /\ i - Len(s) < j - Len(s)
      BY <1>1, <2>1, <2>4
    <3>2. (s \o t)[i] = t[i - Len(s)] /\ (s \o t)[j] = t[j - Len(s)]
      BY <1>1, <2>1, <2>4
    <3>3. QED
      BY <1>3, <3>1, <3>2 DEF Increasing
  <2>5. \/ i \in 1..Len(s) /\ j \in 1..Len(s)
        \/ i \in 1..Len(s) /\ j > Len(s)
        \/ i > Len(s) /\ j > Len(s)
    <3>1. Len(s) \in Nat /\ Len(t) \in Nat /\ i < j
      BY <2>1
    <3>2. QED
      BY <3>1
  <2>6. QED
    BY <2>2, <2>3, <2>4, <2>5
<1>4. ASSUME NEW n \in Nat, UpTo(s, n), UpTo(t, n) PROVE UpTo(s \o t, n)
  BY <1>1, <1>2, <1>4 DEF UpTo
<1>5. ASSUME NEW u \in Seq(Nat), Before(s, u), Before(t, u) PROVE Before(s \o t, u)
  BY <1>1, <1>2, <1>5 DEF Before
<1>6. QED
  BY <1>3, <1>4, <1>5

\* What is unwritten is part of the batch.
LEMMA UnwrittenInBatch == ASSUME TypeOK PROVE Unwritten \subseteq Range(buffersToWrite)
<1>1. written \in Nat /\ buffersToWrite \in Seq(Buf) /\ Len(buffersToWrite) \in Nat
  BY DEF TypeOK
<1>2. \A i \in (written + 1)..Len(buffersToWrite) : i \in 1..Len(buffersToWrite)
  BY <1>1
<1>3. QED
  BY <1>1, <1>2, ElementInRange DEF Unwritten

\* A log that is constructed holds no lines.
LEMMA ChainedInit == Init => Chained
BY EmptyOrdered, EmptyRange
   DEF Init, NewBuffer, Chained, BuffersSorted, QueueSorted, CurrentNewest, StdioOldest,
       Unwritten, Before, UpTo, Increasing

\* A line that is accepted goes behind all others.
LEMMA ChainedAppend ==
  ASSUME IInv, Chained, AppendToCurrent \/ AppendToNext
  PROVE  Chained'
<1>t. TypeOK /\ SingleOwner /\ FreeBuffersEmpty
  BY DEF IInv
<1>r. /\ Range(buffers) \subseteq Buf /\ Unwritten \subseteq Range(buffersToWrite)
      /\ Range(buffersToWrite) \subseteq Buf
  BY <1>t, UnwrittenInBatch, RangeInSet DEF TypeOK
<1>w. UNCHANGED <<buffersToWrite, written, stdio>> /\ Unwritten' = Unwritten
  BY DEF AppendToCurrent, AppendToNext, backVars, fileVars, Unwritten
<1>a. accepted' = accepted + 1 /\ accepted \in Nat
  BY <1>t DEF AppendToCurrent, AppendToNext, TypeOK
<1>q. \A b \in Buf : content[b] \in Seq(Nat)
  BY <1>t DEF TypeOK
<1>s. UpTo(stdio, accepted') /\ stdio \in Seq(Nat)
  BY <1>t, <1>a, NewestLine DEF Chained, StdioOldest, TypeOK
<1>1. CASE AppendToCurrent
  <2>1. /\ UNCHANGED <<currentBuffer, nextBuffer, buffers>>
        /\ content'[currentBuffer] = Append(content[currentBuffer], accepted + 1)
        /\ \A b \in Buf \ {currentBuffer} : content'[b] = content[b]
    BY <1>1, <1>t DEF AppendToCurrent, TypeOK
  <2>2. currentBuffer \in Buf /\ currentBuffer \notin Range(buffers) \union Range(buffersToWrite)
        /\ currentBuffer # nextBuffer
    BY <1>t DEF TypeOK, SingleOwner
  <2>3. /\ \A b \in Unwritten \union Range(buffers) : content'[b] = content[b]
        /\ \A i \in 1..Len(buffers) : content'[buffers[i]] = content[buffers[i]]
        /\ \A i \in (written + 1)..Len(buffersToWrite) :
             content'[buffersToWrite[i]] = content[buffersToWrite[i]]
    <3>1. \A c \in Unwritten \union Range(buffers) : c \in Buf \ {currentBuffer}
      BY <1>r, <2>2
    <3>2. \A i \in 1..Len(buffers) : buffers[i] \in Range(buffers)
      BY <1>t, ElementInRange DEF TypeOK
    <3>3. \A i \in (written + 1)..Len(buffersToWrite) : buffersToWrite[i] \in Unwritten
      BY DEF Unwritten
    <3>4. QED
      BY <2>1, <3>1, <3>2, <3>3
  <2>4. BuffersSorted'
    BY <1>a, <1>q, <2>1, <2>2, NewestLine DEF Chained, BuffersSorted
  <2>5. QueueSorted'
    BY <1>w, <2>1, <2>3 DEF Chained, QueueSorted
  <2>6. CurrentNewest'
    <3>1. \A b \in Unwritten \union Range(buffers) :
            Before(content[b], Append(content[currentBuffer], accepted + 1))
      BY <1>a, <1>q, <1>r, <2>2, NewestLine DEF Chained, BuffersSorted, CurrentNewest
    <3>2. nextBuffer # NoBuf => content'[nextBuffer] = content[nextBuffer]
      BY <1>t, <2>1, <2>2 DEF TypeOK
    <3>3. QED
      BY <1>w, <2>1, <2>3, <3>1, <3>2 DEF Chained, CurrentNewest
  <2>7. StdioOldest'
    <3>1. Before(stdio, Append(content[currentBuffer], accepted + 1))
      BY <1>a, <1>q, <1>s, <2>2, NewestLine DEF Chained, BuffersSorted, StdioOldest
    <3>2. QED
      BY <1>w, <1>s, <2>1, <2>3, <3>1 DEF Chained, StdioOldest
  <2>8. QED
    BY <2>4, <2>5, <2>6, <2>7 DEF Chained
<1>2. CASE AppendToNext
  <2>1. PICK b \in Buf :
          /\ IF nextBuffer # NoBuf THEN b = nextBuffer ELSE NewBuffer(b, InUse)
          /\ currentBuffer' = b
          /\ content' = [content EXCEPT ![b] = Append(@, accepted + 1)]
    BY <1>2 DEF AppendToNext
  <2>2. content[b] = <<>>
        /\ b \notin Range(buffers) \union Range(buffersToWrite) \union {currentBuffer}
    <3>1. CASE nextBuffer # NoBuf
      BY <1>t, <2>1, <3>1 DEF SingleOwner, Chained, CurrentNewest
    <3>2. CASE nextBuffer = NoBuf
      BY <1>t, <2>1, <3>2, BufAssumption DEF NewBuffer, InUse, FreeBuffersEmpty
    <3>3. QED
      BY <3>1, <3>2
  <2>3. /\ content'[b] = Append(<<>>, accepted + 1)
        /\ \A c \in Buf \ {b} : content'[c] = content[c]
    BY <1>t, <2>1, <2>2 DEF TypeOK
  <2>4. /\ buffers' = Append(buffers, currentBuffer) /\ nextBuffer' = NoBuf
        /\ buffers \in Seq(Buf) /\ currentBuffer \in Buf
    BY <1>2, <1>t DEF AppendToNext, TypeOK
  <2>5. /\ Len(buffers') = Len(buffers) + 1 /\ Len(buffers) \in Nat
        /\ \A i \in 1..Len(buffers) : buffers'[i] = buffers[i]
        /\ buffers'[Len(buffers) + 1] = currentBuffer
        /\ Range(buffers') = Range(buffers) \union {currentBuffer}
    BY <2>4, AppendProperties, AppendRange
  <2>6. /\ \A c \in Unwritten \union Range(buffers) \union {currentBuffer} : content'[c] = content[c]
        /\ \A i \in 1..Len(buffers) : content'[buffers[i]] = content[buffers[i]]
        /\ \A i \in (written + 1)..Len(buffersToWrite) :
             content'[buffersToWrite[i]] = content[buffersToWrite[i]]
    <3>1. \A c \in Unwritten \union Range(buffers) \union {currentBuffer} : c \in Buf \ {b}
      BY <1>r, <2>2, <2>4
    <3>2. \A i \in 1..Len(buffers) : buffers[i] \in Range(buffers)
      BY <2>4, ElementInRange
    <3>3. \A i \in (written + 1)..Len(buffersToWrite) : buffersToWrite[i] \in Unwritten
      BY DEF Unwritten
    <3>4. QED
      BY <2>3, <3>1, <3>2, <3>3
  <2>e. UpTo(<<>>, accepted) /\ Increasing(<<>>) /\ <<>> \in Seq(Nat)
    BY <1>a, EmptyOrdered
  <2>7. BuffersSorted'
    BY <1>a, <1>q, <2>e, <2>3, NewestLine DEF Chained, BuffersSorted
  <2>8. QueueSorted'
    <3>1. ASSUME NEW i \in 1..Len(buffers'), NEW j \in 1..Len(buffers'), i < j
          PROVE  Before(content'[buffers'[i]], content'[buffers'[j]])
      <4>1. i \in 1..Len(buffers)
        BY <2>5, <3>1
      <4>2. CASE j \in 1..Len(buffers)
        BY <2>5, <2>6, <3>1, <4>1, <4>2 DEF Chained, QueueSorted
      <4>3. CASE j = Len(buffers) + 1
        <5>1. buffers[i] \in Range(buffers)
          BY <2>4, <4>1, ElementInRange
        <5>2. QED
          BY <2>5, <2>6, <4>1, <4>3, <5>1 DEF Chained, CurrentNewest
      <4>4. QED
        BY <2>5, <4>2, <4>3
    <3>2. ASSUME NEW c \in Unwritten, NEW d \in Range(buffers')
          PROVE  Before(content'[c], content'[d])
      BY <2>5, <2>6, <3>2 DEF Chained, QueueSorted, CurrentNewest
    <3>3. QED
      BY <1>w, <2>6, <3>1, <3>2 DEF Chained, QueueSorted
  <2>9. CurrentNewest'
    <3>1. \A c \in Unwritten \union Range(buffers) \union {currentBuffer} :
            Before(content[c], Append(<<>>, accepted + 1))
      BY <1>a, <1>q, <1>r, <2>4, <2>e, EmptyOrdered, NewestLine DEF Chained, BuffersSorted
    <3>2. QED
      BY <1>w, <2>1, <2>3, <2>4, <2>5, <2>6, <3>1 DEF CurrentNewest
  <2>10. StdioOldest'
    <3>1. Before(stdio, Append(<<>>, accepted + 1))
      BY <1>a, <1>s, <2>e, EmptyOrdered, NewestLine DEF Chained, StdioOldest
    <3>2. QED
      BY <1>w, <1>s, <2>1, <2>3, <2>5, <2>6, <3>1 DEF Chained, StdioOldest
  <2>11. QED
    BY <2>7, <2>8, <2>9, <2>10 DEF Chained
<1>3. QED
  BY <1>1, <1>2

\* The logging thread takes the buffers over in their order and gives none back before
\* it is written or given up.
LEMMA ChainedBatch ==
  ASSUME IInv, Chained, SwapBuffers \/ Trim \/ WriteBuffer \/ Recycle
  PROVE  Chained'
<1>t. TypeOK /\ SingleOwner
  BY DEF IInv
<1>r. /\ Range(buffers) \subseteq Buf /\ Unwritten \subseteq Range(buffersToWrite)
      /\ Range(buffersToWrite) \subseteq Buf
  BY <1>t, UnwrittenInBatch, RangeInSet DEF TypeOK
<1>q. \A b \in Buf : content[b] \in Seq(Nat)
  BY <1>t DEF TypeOK
<1>1. CASE SwapBuffers
  <2>1. /\ newBuffer1 \in Buf /\ content[newBuffer1] = <<>>
        /\ newBuffer2 # NoBuf /\ content[newBuffer2] = <<>>
        /\ buffersToWrite = <<>> /\ written = 0
    <3>1. /\ newBuffer1 # NoBuf /\ content[newBuffer1] = <<>>
          /\ newBuffer2 # NoBuf /\ content[newBuffer2] = <<>>
          /\ buffersToWrite = <<>>
      BY <1>1 DEF SwapBuffers, IInv, SparesAtHand
    <3>2. Len(buffersToWrite) = 0
      BY <3>1
    <3>3. QED
      BY <1>t, <3>1, <3>2 DEF TypeOK
  <2>2. /\ buffersToWrite' = Append(buffers, currentBuffer) /\ buffers' = <<>>
        /\ currentBuffer' = newBuffer1 /\ written' = 0
        /\ nextBuffer' \in {nextBuffer, newBuffer2}
        /\ UNCHANGED <<content, accepted, stdio>>
    BY <1>1, <2>1 DEF SwapBuffers, fileVars
  <2>3. /\ Len(buffersToWrite') = Len(buffers) + 1 /\ Len(buffers) \in Nat
        /\ \A i \in 1..Len(buffers) : buffersToWrite'[i] = buffers[i]
        /\ buffersToWrite'[Len(buffers) + 1] = currentBuffer
    BY <1>t, <2>2, AppendProperties DEF TypeOK
  <2>4. Unwritten' \subseteq Range(buffers) \union {currentBuffer}
    <3>1. ASSUME NEW i \in 1..(Len(buffers) + 1)
          PROVE  buffersToWrite'[i] \in Range(buffers) \union {currentBuffer}
      <4>1. CASE i \in 1..Len(buffers)
        BY <1>t, <2>3, <4>1, ElementInRange DEF TypeOK
      <4>2. CASE i = Len(buffers) + 1
        BY <2>3, <4>2
      <4>3. QED
        BY <2>3, <4>1, <4>2
    <3>2. QED
      BY <2>2, <2>3, <3>1 DEF Unwritten
  <2>5. Range(buffers') = {} /\ Len(buffers') = 0
    BY <2>2, EmptyRange
  <2>6. QueueSorted'
    <3>1. ASSUME NEW i \in 1..(Len(buffers) + 1), NEW j \in 1..(Len(buffers) + 1), i < j
          PROVE  Before(content[buffersToWrite'[i]], content[buffersToWrite'[j]])
      <4>1. i \in 1..Len(buffers)
        BY <2>3, <3>1
      <4>2. CASE j \in 1..Len(buffers)
        BY <2>3, <3>1, <4>1, <4>2 DEF Chained, QueueSorted
      <4>3. CASE j = Len(buffers) + 1
        <5>1. buffers[i] \in Range(buffers)
          BY <1>t, <4>1, ElementInRange DEF TypeOK
        <5>2. QED
          BY <2>3, <4>1, <4>3, <5>1 DEF Chained, CurrentNewest
      <4>4. QED
        BY <2>3, <4>2, <4>3
    <3>2. QED
      BY <2>2, <2>3, <2>5, <3>1 DEF QueueSorted
  <2>7. CurrentNewest'
    BY <2>1, <2>2, <2>5, EmptyOrdered DEF Chained, CurrentNewest
  <2>8. StdioOldest'
    BY <2>1, <2>2, <2>4, <2>5, EmptyOrdered DEF Chained, StdioOldest
  <2>9. QED
    BY <2>2, <2>6, <2>7, <2>8 DEF Chained, BuffersSorted
<1>2. CASE Trim
  <2>1. /\ UNCHANGED <<currentBuffer, nextBuffer, buffers, accepted, stdio, written>>
        /\ written = 0
    BY <1>2 DEF Trim, frontVars, fileVars, IInv, NothingWritten
  <2>2. /\ buffersToWrite' \in Seq(Buf) /\ Len(buffersToWrite') <= Len(buffersToWrite)
        /\ \A i \in 1..Len(buffersToWrite') : buffersToWrite'[i] = buffersToWrite[i]
    <3>1. CASE Len(buffersToWrite) > MaxBuffers
      <4>1. Len(buffersToWrite) >= 2 /\ buffersToWrite' = SubSeq(buffersToWrite, 1, 2)
        BY <1>t, <1>2, <3>1, SizeAssumption DEF Trim, TypeOK
      <4>2. QED
        BY <1>t, <4>1, FirstTwo DEF TypeOK
    <3>2. CASE ~(Len(buffersToWrite) > MaxBuffers)
      BY <1>t, <1>2, <3>2 DEF Trim, TypeOK
    <3>3. QED
      BY <3>1, <3>2
  <2>l. Len(buffersToWrite) \in Nat /\ Len(buffersToWrite') \in Nat
    BY <1>t, <2>2 DEF TypeOK
  <2>3. /\ \A b \in Buf : content'[b] = content[b] \/ content'[b] = <<>>
        /\ \A b \in Buf : b \notin Range(buffersToWrite) => content'[b] = content[b]
        /\ \A b \in Buf : b \in Range(buffersToWrite') => content'[b] = content[b]
    BY <1>t, <1>2, EmptiedType DEF Trim
  <2>4. Unwritten' \subseteq Unwritten /\ Unwritten' \subseteq Range(buffersToWrite')
    BY <2>1, <2>2, <2>l DEF Unwritten, Range
  <2>5. /\ \A b \in Unwritten' \union Range(buffers) \union {currentBuffer} : content'[b] = content[b]
        /\ \A i \in 1..Len(buffers) : content'[buffers[i]] = content[buffers[i]]
        /\ \A i \in 1..Len(buffersToWrite') : content'[buffersToWrite'[i]] = content[buffersToWrite[i]]
    <3>1. \A b \in Range(buffers) \union {currentBuffer} : b \in Buf /\ b \notin Range(buffersToWrite)
      BY <1>t, <1>r DEF SingleOwner, TypeOK
    <3>2. \A i \in 1..Len(buffers) : buffers[i] \in Range(buffers)
      BY <1>t, ElementInRange DEF TypeOK
    <3>3. \A i \in 1..Len(buffersToWrite') : buffersToWrite'[i] \in Range(buffersToWrite')
                                              /\ buffersToWrite'[i] \in Buf
      BY <2>2, ElementInRange
    <3>4. QED
      BY <1>r, <2>2, <2>3, <2>4, <3>1, <3>2, <3>3
  <2>6. BuffersSorted'
    BY <1>t, <2>1, <2>3, EmptyOrdered DEF Chained, BuffersSorted, TypeOK
  <2>7. QueueSorted'
    BY <2>1, <2>2, <2>l, <2>4, <2>5 DEF Chained, QueueSorted
  <2>8. CurrentNewest'
    <3>1. nextBuffer # NoBuf => content'[nextBuffer] = <<>>
      BY <1>t, <2>3 DEF Chained, CurrentNewest, TypeOK
    <3>2. QED
      BY <2>1, <2>4, <2>5, <3>1 DEF Chained, CurrentNewest
  <2>9. StdioOldest'
    BY <2>1, <2>4, <2>5 DEF Chained, StdioOldest
  <2>10. QED
    BY <2>6, <2>7, <2>8, <2>9 DEF Chained
<1>3. CASE WriteBuffer
  <2> DEFINE b == buffersToWrite[written + 1]
  <2>1. /\ written \in Nat /\ Len(buffersToWrite) \in Nat /\ written < Len(buffersToWrite)
        /\ written + 1 \in (written + 1)..Len(buffersToWrite)
        /\ stdio' = stdio \o content[b] /\ written' = written + 1
        /\ UNCHANGED <<currentBuffer, nextBuffer, buffers, buffersToWrite, content, accepted>>
    BY <1>t, <1>3 DEF WriteBuffer, TypeOK, frontVars
  <2>2. b \in Unwritten /\ b \in Buf
    BY <1>r, <2>1 DEF Unwritten
  <2>3. /\ Unwritten' \subseteq Unwritten
        /\ \A c \in Unwritten' : Before(content[b], content[c])
    <3>1. \A j \in (written + 2)..Len(buffersToWrite) :
            /\ j \in (written + 1)..Len(buffersToWrite)
            /\ Before(content[b], content[buffersToWrite[j]])
      BY <2>1 DEF Chained, QueueSorted
    <3>2. Unwritten' = {buffersToWrite[i] : i \in (written + 2)..Len(buffersToWrite)}
      BY <2>1 DEF Unwritten
    <3>3. QED
      BY <3>1, <3>2 DEF Unwritten
  <2>4. stdio \in Seq(Nat) /\ content[b] \in Seq(Nat) /\ accepted \in Nat
    BY <1>t, <1>q, <2>2 DEF TypeOK
  <2>5. Increasing(stdio') /\ UpTo(stdio', accepted)
    BY <2>1, <2>2, <2>4, JoinedLines DEF Chained, BuffersSorted, StdioOldest
  <2>6. ASSUME NEW c \in Unwritten' \union Range(buffers) \union {currentBuffer}
        PROVE  Before(stdio', content[c])
    <3>1. Before(stdio, content[c])
      BY <2>3, <2>6 DEF Chained, StdioOldest
    <3>2. Before(content[b], content[c])
      BY <2>2, <2>3, <2>6 DEF Chained, QueueSorted, CurrentNewest
    <3>3. content[c] \in Seq(Nat)
      BY <1>t, <1>q, <1>r, <2>3, <2>6 DEF TypeOK
    <3>4. QED
      BY <2>1, <2>4, <3>1, <3>2, <3>3, JoinedLines
  <2>7. QueueSorted'
    <3>1. \A i \in (written + 2)..Len(buffersToWrite) : i \in (written + 1)..Len(buffersToWrite)
      BY <2>1
    <3>2. written' + 1 = written + 2
      BY <2>1
    <3>3. QED
      BY <2>1, <2>3, <3>1, <3>2 DEF Chained, QueueSorted
  <2>8. QED
    BY <2>1, <2>3, <2>5, <2>6, <2>7 DEF Chained, BuffersSorted, CurrentNewest, StdioOldest
<1>4. CASE Recycle
  <2>1. /\ UNCHANGED <<currentBuffer, nextBuffer, buffers, accepted, stdio>>
        /\ buffersToWrite' = <<>> /\ content' = Emptied(Range(buffersToWrite))
    BY <1>4 DEF Recycle, frontVars, fileVars
  <2>2. Unwritten' = {} /\ \A i : i \notin (written' + 1)..Len(buffersToWrite')
    <3>1. written' = 0 /\ Len(buffersToWrite') = 0
      BY <1>4, <2>1 DEF Recycle
    <3>2. QED
      BY <3>1 DEF Unwritten
  <2>3. /\ \A b \in Buf : content'[b] = content[b] \/ content'[b] = <<>>
        /\ \A b \in Buf : b \notin Range(buffersToWrite) => content'[b] = content[b]
    BY <1>t, <2>1, EmptiedType
  <2>4. /\ \A b \in Range(buffers) \union {currentBuffer} : content'[b] = content[b]
        /\ \A i \in 1..Len(buffers) : content'[buffers[i]] = content[buffers[i]]
    <3>1. \A b \in Range(buffers) \union {currentBuffer} : b \in Buf /\ b \notin Range(buffersToWrite)
      BY <1>t, <1>r DEF SingleOwner, TypeOK
    <3>2. \A i \in 1..Len(buffers) : buffers[i] \in Range(buffers)
      BY <1>t, ElementInRange DEF TypeOK
    <3>3. QED
      BY <2>3, <3>1, <3>2
  <2>5. BuffersSorted'
    BY <1>t, <2>1, <2>3, EmptyOrdered DEF Chained, BuffersSorted, TypeOK
  <2>6. QueueSorted'
    BY <2>1, <2>2, <2>4 DEF Chained, QueueSorted
  <2>7. nextBuffer # NoBuf => content'[nextBuffer] = <<>>
    BY <1>t, <2>3 DEF Chained, CurrentNewest, TypeOK
  <2>8. CurrentNewest' /\ StdioOldest'
    BY <2>1, <2>2, <2>4, <2>7 DEF Chained, CurrentNewest, StdioOldest
  <2>9. QED
    BY <2>5, <2>6, <2>8 DEF Chained
<1>5. QED
  BY <1>1, <1>2, <1>3, <1>4

\* Every step keeps the lines in order from stdio to the current buffer.
LEMMA ChainedStep == ASSUME IInv, Chained, [Next]_vars PROVE Chained'
<1>1. ASSUME UNCHANGED <<currentBuffer, nextBuffer, buffers, buffersToWrite, written, content,
                         accepted, stdio>>
      PROVE  Chained'
  BY <1>1 DEF Chained, BuffersSorted, QueueSorted, CurrentNewest, StdioOldest, Unwritten
<1>2. CASE Start \/ LatchWait \/ StopFlag \/ StopNotify \/ Join \/ CheckRunning \/ WaitForLines
             \/ Timeout \/ Flush \/ Enter \/ UNCHANGED vars
  BY <1>1, <1>2 DEF Start, LatchWait, StopFlag, StopNotify, Join, CheckRunning, WaitForLines,
     Timeout, Flush, Enter, vars, frontVars, backVars, fileVars
<1>3. QED
  BY <1>2, ChainedAppend, ChainedBatch DEF Next, LogStep

-----------------------------------------------------------------------------
\* The inductive invariant holds of every behaviour of the log and its callers.
THEOREM Inductive == SafeSpec => []IInv
<1>1. IInv /\ [Next]_vars => IInv'
  BY TypeStep, ControlStep, OwnerStep, FreeStep, SparesStep DEF IInv
<1>2. QED
  BY <1>1, IInvInit, PTL DEF SafeSpec

\* Type correctness, for every number and size of buffers.
THEOREM TypeCorrect == SafeSpec => []TypeOK
<1>1. IInv => TypeOK
  BY DEF IInv
<1>2. QED
  BY <1>1, Inductive, PTL

\* No buffer is ever reachable by append() and by the logging thread at once.
THEOREM BuffersHaveOneOwner == SafeSpec => []SingleOwner
<1>1. IInv => SingleOwner
  BY DEF IInv
<1>2. QED
  BY <1>1, Inductive, PTL

\* No assertion of threadFunc fails, however the threads interleave.
THEOREM AssertionsHold == SafeSpec => []AssertsHold
<1>1. IInv => AssertsHold
  BY DEF IInv, AssertsHold, SparesAtHand, BatchCoversSpares, RunningAtEnter, TypeOK
<1>2. QED
  BY <1>1, Inductive, PTL

\* The notify of append() is never lost between the look at buffers_ and the wait.
THEOREM NotifyNotMissed == SafeSpec => []WaitsWhenEmpty
<1>1. IInv => WaitsWhenEmpty
  BY DEF IInv
<1>2. QED
  BY <1>1, Inductive, PTL

\* Lines reach stdio in the order of their acceptance and never twice, however many
\* buffers there are and however the trim and the swaps fall between the appends.
THEOREM LinesKeepOrder == SafeSpec => []LinesInOrder
<1>1. Init => IInv /\ Chained
  BY IInvInit, ChainedInit
<1>2. (IInv /\ Chained) /\ [Next]_vars => (IInv /\ Chained)'
  BY ChainedStep, TypeStep, ControlStep, OwnerStep, FreeStep, SparesStep DEF IInv
<1>3. Chained => LinesInOrder
  BY DEF Chained, StdioOldest, Increasing, LinesInOrder
<1>4. QED
  BY <1>1, <1>2, <1>3, PTL DEF SafeSpec

-----------------------------------------------------------------------------
(* Lines as the abstract log counts and orders them                        *)

\* Both modules count in the same way.
LEMMA SameCardinality == ASSUME NEW S PROVE Log!Cardinality(S) = Cardinality(S)
BY DEF Log!Cardinality, Cardinality

\* The first m lines of a run are m lines.
LEMMA FirstLines ==
  ASSUME NEW u \in Seq(Nat), Increasing(u), NEW m \in 0..Len(u)
  PROVE  Cardinality({u[j] : j \in 1..m}) = m
<1> DEFINE S == {u[j] : j \in 1..m}
           f == [j \in 1..m |-> u[j]]
<1>1. m \in Nat /\ \A i \in 1..m : i \in 1..Len(u) /\ u[i] \in Nat
  OBVIOUS
<1>2. \A i, j \in 1..m : u[i] = u[j] => i = j
  <2> SUFFICES ASSUME NEW i \in 1..m, NEW j \in 1..m, i < j PROVE u[i] # u[j]
    BY <1>1
  <2>1. u[i] < u[j]
    BY <1>1 DEF Increasing
  <2> QED
    BY <1>1, <2>1
<1>3. f \in [1..m -> S] /\ IsInjective(f) /\ \A t \in S : \E s \in 1..m : f[s] = t
  BY <1>2 DEF IsInjective
<1>4. f \in Bijection(1..m, S)
  BY <1>3 DEF Bijection, Injection, Surjection
<1> HIDE DEF S, f
<1>5. ExistsBijection(1..m, S)
  BY <1>4 DEF ExistsBijection
<1>6. Cardinality(S) = m
  BY <1>1, <1>5, FS_CountingElements
<1> QED
  BY <1>6 DEF S

\* The lines of a run, put in order, are the run.
LEMMA InOrderIs ==
  ASSUME NEW u \in Seq(Nat), Increasing(u), NEW S, S = {u[j] : j \in 1..Len(u)}
  PROVE  Log!InOrder(S) = u
<1>1. Len(u) \in Nat /\ \A i \in 1..Len(u) : u[i] \in Nat
  OBVIOUS
<1>2. Log!Cardinality(S) = Len(u)
  <2>1. Len(u) \in 0..Len(u)
    BY <1>1
  <2> QED
    BY <2>1, FirstLines, SameCardinality
<1>3. ASSUME NEW i \in 1..Len(u) PROVE Log!Older(S, u[i]) = i - 1
  <2>1. i - 1 \in 0..Len(u) /\ \A j \in 1..(i - 1) : j \in 1..Len(u) /\ j < i
    BY <1>1
  <2>2. \A j \in 1..Len(u) : u[j] < u[i] => j \in 1..(i - 1)
    <3> SUFFICES ASSUME NEW j \in 1..Len(u), u[j] < u[i], ~(j \in 1..(i - 1)) PROVE FALSE
      OBVIOUS
    <3>1. j = i \/ i < j
      BY <1>1
    <3>2. u[j] = u[i] \/ u[i] < u[j]
      BY <3>1 DEF Increasing
    <3> QED
      BY <1>1, <3>2
  <2>3. \A j \in 1..(i - 1) : u[j] < u[i]
    BY <2>1 DEF Increasing
  <2>4. {k \in S : k < u[i]} = {u[j] : j \in 1..(i - 1)}
    BY <2>1, <2>2, <2>3
  <2>5. Cardinality({u[j] : j \in 1..(i - 1)}) = i - 1
    BY <2>1, FirstLines
  <2> QED
    BY <2>4, <2>5, SameCardinality DEF Log!Older
<1>4. ASSUME NEW i \in 1..Len(u) PROVE (CHOOSE l \in S : Log!Older(S, l) = i - 1) = u[i]
  <2>1. u[i] \in S /\ Log!Older(S, u[i]) = i - 1
    BY <1>3
  <2>2. ASSUME NEW l \in S, Log!Older(S, l) = i - 1 PROVE l = u[i]
    <3>1. PICK j \in 1..Len(u) : l = u[j]
      OBVIOUS
    <3>2. j - 1 = i - 1
      BY <1>3, <2>2, <3>1
    <3>3. j = i
      BY <3>2
    <3> QED
      BY <3>1, <3>3
  <2> QED
    BY <2>1, <2>2
<1>5. Log!InOrder(S) = [i \in 1..Len(u) |-> u[i]]
  BY <1>2, <1>4 DEF Log!InOrder
<1> QED
  BY <1>5

\* The lines of a run that follow its first a.
LinesAfter(s, a) == {s[i] : i \in (a + 1)..Len(s)}

LEMMA RangeOfRest ==
  ASSUME NEW s \in Seq(Nat), NEW a \in 0..Len(s)
  PROVE  Range(SubSeq(s, a + 1, Len(s))) = LinesAfter(s, a)
<1> DEFINE n == Len(s)
           u == SubSeq(s, a + 1, n)
<1>1. n \in Nat /\ a \in Nat /\ a <= n /\ a + 1 \in Int /\ n \in Int /\ \A i \in (a + 1)..n : s[i] \in Nat
  OBVIOUS
<1> HIDE DEF n
<1>2. /\ u \in Seq(Nat) /\ Len(u) = IF a + 1 <= n THEN n - (a + 1) + 1 ELSE 0
      /\ \A i \in 1..(n - (a + 1) + 1) : u[i] = s[a + 1 + i - 1]
  BY <1>1, SubSeqProperties
<1> HIDE DEF u
<1>3. Len(u) = n - a /\ DOMAIN u = 1..(n - a)
  BY <1>1, <1>2
<1>4. \A i \in 1..(n - a) : u[i] = s[a + i]
  <2>1. n - (a + 1) + 1 = n - a /\ \A i \in 1..(n - a) : a + 1 + i - 1 = a + i
    BY <1>1
  <2> QED
    BY <1>2, <2>1
<1>5. /\ \A i \in 1..(n - a) : a + i \in (a + 1)..n
      /\ \A j \in (a + 1)..n : j - a \in 1..(n - a) /\ a + (j - a) = j
  BY <1>1
<1>6. Range(u) = {s[i] : i \in (a + 1)..n}
  <2>1. Range(u) = {u[i] : i \in 1..(n - a)}
    BY <1>3 DEF Range
  <2>2. \A i \in 1..(n - a) : u[i] \in {s[j] : j \in (a + 1)..n}
    BY <1>4, <1>5
  <2>3. ASSUME NEW j \in (a + 1)..n PROVE s[j] \in {u[i] : i \in 1..(n - a)}
    <3>1. j - a \in 1..(n - a) /\ s[j] = u[j - a]
      BY <1>4, <1>5
    <3> QED
      BY <3>1
  <2> QED
    BY <2>1, <2>2, <2>3
<1> QED
  BY <1>6 DEF u, n, LinesAfter

\* The lines of a run from the one after its first a to its first b.
LEMMA PieceOfRun ==
  ASSUME NEW s \in Seq(Nat), Increasing(s), NEW a \in 0..Len(s), NEW b \in a..Len(s)
  PROVE  SubSeq(s, a + 1, b) = Log!InOrder({s[i] : i \in (a + 1)..b})
<1> DEFINE u == SubSeq(s, a + 1, b)
           S == {s[i] : i \in (a + 1)..b}
<1>1. /\ a \in Nat /\ b \in Nat /\ a <= b /\ b <= Len(s) /\ Len(s) \in Nat
      /\ a + 1 \in Int /\ b \in Int /\ \A i \in (a + 1)..b : s[i] \in Nat /\ i \in 1..Len(s)
  OBVIOUS
<1>2. /\ u \in Seq(Nat) /\ Len(u) = IF a + 1 <= b THEN b - (a + 1) + 1 ELSE 0
      /\ \A i \in 1..(b - (a + 1) + 1) : u[i] = s[a + 1 + i - 1]
  BY <1>1, SubSeqProperties
<1> HIDE DEF u
<1>3. Len(u) = b - a
  BY <1>1, <1>2
<1>4. \A i \in 1..(b - a) : u[i] = s[a + i] /\ a + i \in (a + 1)..b
  <2>1. b - (a + 1) + 1 = b - a /\ \A i \in 1..(b - a) : a + 1 + i - 1 = a + i /\ a + i \in (a + 1)..b
    BY <1>1
  <2> QED
    BY <1>2, <2>1
<1>5. Increasing(u)
  <2> SUFFICES ASSUME NEW i \in 1..Len(u), NEW j \in 1..Len(u), i < j PROVE u[i] < u[j]
    BY DEF Increasing
  <2>1. a + i \in 1..Len(s) /\ a + j \in 1..Len(s) /\ a + i < a + j
    BY <1>1, <1>3
  <2>2. s[a + i] < s[a + j]
    BY <2>1 DEF Increasing
  <2> QED
    BY <1>3, <1>4, <2>2
<1>6. S = {u[j] : j \in 1..Len(u)}
  <2>1. \A i \in 1..Len(u) : u[i] \in S
    BY <1>3, <1>4
  <2>2. ASSUME NEW j \in (a + 1)..b PROVE s[j] \in {u[i] : i \in 1..Len(u)}
    <3>1. j - a \in 1..(b - a) /\ a + (j - a) = j
      BY <1>1
    <3>2. s[j] = u[j - a] /\ j - a \in 1..Len(u)
      BY <1>3, <1>4, <3>1
    <3> QED
      BY <3>2
  <2> QED
    BY <2>1, <2>2
<1> HIDE DEF S
<1>7. Log!InOrder(S) = u
  BY <1>2, <1>5, <1>6, InOrderIs
<1> QED
  BY <1>7 DEF u, S

\* The lines that are no newer than l.
NoNewer(lines, l) == {k \in lines : k <= l}

\* All of the lines are newer than the run.
Follow(lines, s) == lines \in SUBSET Nat /\ \A i \in 1..Len(s), l \in lines : s[i] < l

\* Of the lines of the run s behind its first a and the other lines, those up to the b-th
\* of the run are the oldest.
OldestAre(s, a, b, others) ==
  LET P == LinesAfter(s, a) \union others
  IN  /\ s[b] \in P
      /\ SubSeq(s, 1, b) = SubSeq(s, 1, a) \o Log!InOrder(NoNewer(P, s[b]))
      /\ P \ NoNewer(P, s[b]) = LinesAfter(s, b) \union others

\* When a run is older than all other lines, its first lines are the oldest.
LEMMA OldestLines ==
  ASSUME NEW s \in Seq(Nat), Increasing(s), NEW a \in 0..Len(s), NEW b \in a..Len(s), a < b,
         NEW R, Follow(R, s)
  PROVE  OldestAre(s, a, b, R)
<1> DEFINE n == Len(s)
           P == LinesAfter(s, a) \union R
           oldest == {l \in P : l <= s[b]}
           rest == {s[i] : i \in (b + 1)..n} \union R
<1>f. R \in SUBSET Nat /\ \A i \in 1..n, l \in R : s[i] < l
  BY DEF Follow
<1>1. /\ a \in Nat /\ b \in Nat /\ n \in Nat /\ a < b /\ b <= n /\ b \in (a + 1)..n
      /\ \A i \in 1..n : s[i] \in Nat
  OBVIOUS
<1>p. P = {s[i] : i \in (a + 1)..n} \union R
  BY DEF LinesAfter
<1> HIDE DEF P
<1>2. s[b] \in P
  BY <1>1, <1>p
<1>3. \A i \in (a + 1)..b : s[i] \in P /\ s[i] <= s[b]
  <2> SUFFICES ASSUME NEW i \in (a + 1)..b PROVE s[i] \in P /\ s[i] <= s[b]
    OBVIOUS
  <2>1. i \in (a + 1)..n /\ i \in 1..n /\ b \in 1..n /\ (i = b \/ i < b)
    BY <1>1
  <2>2. s[i] = s[b] \/ s[i] < s[b]
    BY <2>1 DEF Increasing
  <2> QED
    BY <1>1, <1>p, <2>1, <2>2
<1>4. \A l \in rest : l \in P /\ ~(l <= s[b])
  <2>1. \A i \in (b + 1)..n : s[i] \in P /\ ~(s[i] <= s[b])
    <3> SUFFICES ASSUME NEW i \in (b + 1)..n PROVE s[i] \in P /\ ~(s[i] <= s[b])
      OBVIOUS
    <3>1. i \in (a + 1)..n /\ i \in 1..n /\ b \in 1..n /\ b < i
      BY <1>1
    <3>2. s[b] < s[i]
      BY <3>1 DEF Increasing
    <3> QED
      BY <1>1, <1>p, <3>1, <3>2
  <2>2. \A l \in R : l \in P /\ ~(l <= s[b])
    <3>1. b \in 1..n
      BY <1>1
    <3>2. \A l \in R : l \in Nat /\ s[b] < l
      BY <1>f, <3>1
    <3> QED
      BY <1>1, <1>p, <3>1, <3>2
  <2> QED
    BY <2>1, <2>2
<1>5. \A l \in P : l \in {s[i] : i \in (a + 1)..b} \/ l \in rest
  <2>1. \A i \in (a + 1)..n : i \in (a + 1)..b \/ i \in (b + 1)..n
    BY <1>1
  <2> QED
    BY <1>p, <2>1
<1>6. oldest = {s[i] : i \in (a + 1)..b} /\ P \ oldest = rest
  BY <1>3, <1>4, <1>5
<1> HIDE DEF oldest, rest
<1>7. SubSeq(s, a + 1, b) = Log!InOrder(oldest)
  BY <1>6, PieceOfRun
<1>8. SubSeq(s, 1, a) \o SubSeq(s, a + 1, b) = SubSeq(s, 1, b)
  <2>1. 1 \in 1..(Len(s) + 1) /\ a \in (1 - 1)..Len(s) /\ b \in a..Len(s)
    BY <1>1
  <2> QED
    BY <2>1, ConcatAdjacentSubSeq
<1>9. P \ NoNewer(P, s[b]) = LinesAfter(s, b) \union R
  BY <1>6 DEF oldest, rest, LinesAfter, NoNewer
<1>10. SubSeq(s, 1, b) = SubSeq(s, 1, a) \o Log!InOrder(NoNewer(P, s[b]))
  BY <1>7, <1>8 DEF oldest, NoNewer
<1> QED
  BY <1>2, <1>9, <1>10 DEF P, OldestAre

\* Runs with each line of one before each line of the next.
Chain(n, runs) ==
  /\ runs \in [1..n -> Seq(Nat)]
  /\ \A k \in 1..n : Increasing(runs[k])
  /\ \A j, k \in 1..n : j < k => Before(runs[j], runs[k])

\* Runs that follow one another, with at least c lines each, are many lines.
LEMMA FullRuns ==
  ASSUME NEW c \in Nat, NEW n \in Nat, NEW runs, Chain(n, runs),
         \A k \in 1..n : Len(runs[k]) >= c,
         NEW S, IsFiniteSet(S), \A k \in 1..n : \A i \in 1..c : runs[k][i] \in S
  PROVE  Cardinality(S) >= n * c
<1> DEFINE places == (1..n) \X (1..c)
           f == [x \in places |-> runs[x[1]][x[2]]]
<1>0. /\ runs \in [1..n -> Seq(Nat)]
      /\ \A k \in 1..n : Increasing(runs[k])
      /\ \A j, k \in 1..n : j < k => Before(runs[j], runs[k])
  BY DEF Chain
<1>1. \A k \in 1..n : \A i \in 1..c : i \in 1..Len(runs[k]) /\ runs[k][i] \in Nat
  <2> SUFFICES ASSUME NEW k \in 1..n, NEW i \in 1..c
               PROVE  i \in 1..Len(runs[k]) /\ runs[k][i] \in Nat
    OBVIOUS
  <2>1. runs[k] \in Seq(Nat) /\ Len(runs[k]) \in Nat /\ Len(runs[k]) >= c
    BY <1>0
  <2>2. i \in 1..Len(runs[k])
    BY <2>1
  <2> QED
    BY <2>1, <2>2
<1>2. ASSUME NEW j \in 1..n, NEW k \in 1..n, NEW p \in 1..c, NEW q \in 1..c,
             runs[j][p] = runs[k][q]
      PROVE  j = k /\ p = q
  <2>1. CASE j < k
    BY <1>0, <1>1, <1>2, <2>1 DEF Before
  <2>2. CASE k < j
    BY <1>0, <1>1, <1>2, <2>2 DEF Before
  <2>3. CASE j = k
    <3>1. \/ p = q
          \/ p < q /\ runs[j][p] < runs[j][q]
          \/ q < p /\ runs[j][q] < runs[j][p]
      BY <1>0, <1>1 DEF Increasing
    <3> QED
      BY <1>1, <1>2, <2>3, <3>1
  <2> QED
    BY <2>1, <2>2, <2>3
<1>3. f \in Injection(places, S)
  <2>1. \A x \in places : x[1] \in 1..n /\ x[2] \in 1..c /\ x = <<x[1], x[2]>>
    OBVIOUS
  <2>2. f \in [places -> S]
    BY <2>1
  <2>3. \A x, y \in places : f[x] = f[y] => x = y
    <3> SUFFICES ASSUME NEW x \in places, NEW y \in places, f[x] = f[y] PROVE x = y
      OBVIOUS
    <3>1. runs[x[1]][x[2]] = runs[y[1]][y[2]]
      OBVIOUS
    <3> DEFINE j == x[1]  k == y[1]  p == x[2]  q == y[2]
    <3>2. /\ j \in 1..n /\ k \in 1..n /\ p \in 1..c /\ q \in 1..c
          /\ x = <<j, p>> /\ y = <<k, q>>
      BY <2>1
    <3> HIDE DEF j, k, p, q
    <3>3. runs[j][p] = runs[k][q]
      BY <3>1 DEF j, k, p, q
    <3>4. j = k /\ p = q
      BY <1>2, <3>2, <3>3
    <3> QED
      BY <3>2, <3>4
  <2> QED
    BY <2>2, <2>3 DEF Injection, IsInjective
<1>4. Cardinality(places) = n * c
  <2>1. /\ IsFiniteSet(1..n) /\ Cardinality(1..n) = n
        /\ IsFiniteSet(1..c) /\ Cardinality(1..c) = c
    <3>1. 1 \in Int /\ n \in Int /\ c \in Int
      OBVIOUS
    <3>2. /\ Cardinality(1..n) = IF 1 > n THEN 0 ELSE n - 1 + 1
          /\ Cardinality(1..c) = IF 1 > c THEN 0 ELSE c - 1 + 1
          /\ IsFiniteSet(1..n) /\ IsFiniteSet(1..c)
      BY <3>1, FS_Interval
    <3> QED
      BY <3>2
  <2>2. Cardinality((1..n) \X (1..c)) = Cardinality(1..n) * Cardinality(1..c)
    <3>1. IsFiniteSet(1..n) /\ IsFiniteSet(1..c)
      BY <2>1
    <3> QED
      BY <3>1, FS_Product
  <2> QED
    BY <2>1, <2>2
<1> HIDE DEF places, f
<1>5. Cardinality(places) <= Cardinality(S)
  BY <1>3, FS_Injection
<1>6. Cardinality(S) \in Nat /\ n * c \in Nat
  BY FS_CardinalityType
<1> QED
  BY <1>4, <1>5, <1>6

\* A run with another behind it.
LEMMA RestOfJoined ==
  ASSUME NEW s \in Seq(Nat), NEW t \in Seq(Nat), NEW a \in 0..Len(s)
  PROVE  /\ LinesAfter(s \o t, a) = LinesAfter(s, a) \union Range(t)
         /\ SubSeq(s \o t, 1, a) = SubSeq(s, 1, a)
<1> DEFINE n == Len(s)
           m == Len(t)
           u == s \o t
<1>1. n \in Nat /\ m \in Nat /\ a \in Nat /\ a <= n
  OBVIOUS
<1>2. /\ Len(u) = n + m
      /\ \A i \in 1..n : u[i] = s[i] /\ s[i] \in Nat
      /\ \A i \in 1..m : u[n + i] = t[i]
  <2>1. Len(u) = n + m /\ \A i \in 1..(n + m) : u[i] = IF i <= n THEN s[i] ELSE t[i - n]
    BY ConcatProperties
  <2>2. \A i \in 1..n : i \in 1..(n + m) /\ i <= n /\ s[i] \in Nat
    BY <1>1
  <2> HIDE DEF n, m, u
  <2>3. \A i \in 1..m : n + i \in 1..(n + m) /\ ~(n + i <= n) /\ (n + i) - n = i
    BY <1>1
  <2> QED
    BY <2>1, <2>2, <2>3
<1>3. Range(t) = {t[i] : i \in 1..m}
  BY DEF Range
<1>4. {u[i] : i \in (a + 1)..Len(u)} = {s[i] : i \in (a + 1)..n} \union Range(t)
  <2> HIDE DEF n, m, u
  <2>1. ASSUME NEW i \in (a + 1)..(n + m)
        PROVE  u[i] \in {s[j] : j \in (a + 1)..n} \union {t[j] : j \in 1..m}
    <3>1. CASE i <= n
      <4>1. i \in (a + 1)..n /\ i \in 1..n
        BY <1>1, <3>1
      <4> QED
        BY <1>2, <4>1
    <3>2. CASE ~(i <= n)
      <4>1. i - n \in 1..m /\ n + (i - n) = i
        BY <1>1, <3>2
      <4> QED
        BY <1>2, <4>1
    <3> QED
      BY <3>1, <3>2
  <2>2. \A i \in (a + 1)..n : s[i] \in {u[j] : j \in (a + 1)..(n + m)}
    <3>1. \A i \in (a + 1)..n : i \in 1..n /\ i \in (a + 1)..(n + m)
      BY <1>1
    <3> QED
      BY <1>2, <3>1
  <2>3. \A i \in 1..m : t[i] \in {u[j] : j \in (a + 1)..(n + m)}
    <3>1. \A i \in 1..m : n + i \in (a + 1)..(n + m)
      BY <1>1
    <3> QED
      BY <1>2, <3>1
  <2> DEFINE both == {u[i] : i \in (a + 1)..(n + m)}
             left == {s[i] : i \in (a + 1)..n}
             right == {t[i] : i \in 1..m}
  <2>4. both \subseteq left \union right
    BY <2>1
  <2>5. left \subseteq both /\ right \subseteq both
    BY <2>2, <2>3
  <2>6. {u[i] : i \in (a + 1)..Len(u)} = both
    BY <1>2
  <2>7. Range(t) = right
    BY <1>3
  <2> HIDE DEF both, right
  <2>8. both = left \union right
    <3> HIDE DEF left
    <3> QED
      BY <2>4, <2>5
  <2> QED
    BY <2>6, <2>7, <2>8
<1>5. SubSeq(u, 1, a) = SubSeq(s, 1, a)
  <2> DEFINE v == SubSeq(u, 1, a)
             w == SubSeq(s, 1, a)
  <2> HIDE DEF n, m, u
  <2>1. 1 \in Int /\ a \in Int /\ \A i \in 1..a : i \in 1..n
    BY <1>1
  <2>2. \A i \in 1..a : u[i] \in Nat /\ s[i] \in Nat /\ u[i] = s[i]
    BY <1>2, <2>1
  <2>3. /\ v \in Seq(Nat) /\ Len(v) = (IF 1 <= a THEN a - 1 + 1 ELSE 0)
        /\ \A i \in 1..(a - 1 + 1) : v[i] = u[1 + i - 1]
    BY <2>1, <2>2, SubSeqProperties
  <2>4. /\ w \in Seq(Nat) /\ Len(w) = (IF 1 <= a THEN a - 1 + 1 ELSE 0)
        /\ \A i \in 1..(a - 1 + 1) : w[i] = s[1 + i - 1]
    BY <2>1, <2>2, SubSeqProperties
  <2> HIDE DEF v, w
  <2>5. a - 1 + 1 = a /\ \A i \in 1..a : 1 + i - 1 = i
    BY <1>1
  <2>6. Len(v) = Len(w) /\ \A i \in 1..Len(v) : v[i] = w[i]
    BY <1>1, <2>2, <2>3, <2>4, <2>5
  <2>7. v = w
    BY <2>3, <2>4, <2>6, SeqEqual
  <2> QED
    BY <2>7 DEF v, w
<1> QED
  BY <1>4, <1>5 DEF LinesAfter

\* The lines of the first n runs.
LinesOf(runs, n) == UNION {Range(runs[k]) : k \in 1..n}

HasEnds(lines) == \E first, last \in lines : \A l \in lines : first <= l /\ l <= last

\* Runs that follow one another have a first line and a last one.
LEMMA EndsOfRuns ==
  ASSUME NEW n \in Nat \ {0}, NEW runs, Chain(n, runs),
         \A k \in 1..(n - 1) : Len(runs[k]) >= 1, LinesOf(runs, n) # {}
  PROVE  HasEnds(LinesOf(runs, n))
<1> DEFINE G == UNION {Range(runs[k]) : k \in 1..n}
<1>g. LinesOf(runs, n) = G
  BY DEF LinesOf
<1>0. /\ runs \in [1..n -> Seq(Nat)]
      /\ \A k \in 1..n : Increasing(runs[k])
      /\ \A j, k \in 1..n : j < k => Before(runs[j], runs[k])
  BY DEF Chain
<1>1. /\ \A k \in 1..n : Len(runs[k]) \in Nat /\ \A i \in 1..Len(runs[k]) : runs[k][i] \in Nat
      /\ \A k \in 1..n : Range(runs[k]) = {runs[k][i] : i \in 1..Len(runs[k])}
  BY <1>0 DEF Range
<1>2. PICK h \in 1..n : Len(runs[h]) >= 1
  <2>1. PICK k \in 1..n : Range(runs[k]) # {}
    BY <1>g
  <2>2. Range(runs[k]) = {runs[k][i] : i \in 1..Len(runs[k])} /\ Len(runs[k]) \in Nat
    BY <1>1
  <2>3. Len(runs[k]) >= 1
    BY <2>1, <2>2
  <2> QED
    BY <2>3
<1>3. \E p \in 1..n : Len(runs[p]) >= 1 /\ \A k \in 1..n : p < k => ~(Len(runs[k]) >= 1)
  <2>1. CASE Len(runs[n]) >= 1
    <3>1. n \in 1..n /\ \A k \in 1..n : ~(n < k)
      OBVIOUS
    <3> QED
      BY <2>1, <3>1
  <2>2. CASE ~(Len(runs[n]) >= 1)
    <3>1. n - 1 \in 1..(n - 1) /\ n - 1 \in 1..n /\ \A k \in 1..n : n - 1 < k => k = n
      BY <1>2, <2>2
    <3> QED
      BY <2>2, <3>1
  <2> QED
    BY <2>1, <2>2
<1>4. PICK p \in 1..n : Len(runs[p]) >= 1 /\ \A k \in 1..n : p < k => ~(Len(runs[k]) >= 1)
  BY <1>3
<1>5. 1 \in 1..n /\ Len(runs[1]) >= 1
  <2>1. 1 \in 1..n /\ (n = 1 => h = 1) /\ (n # 1 => 1 \in 1..(n - 1))
    OBVIOUS
  <2> QED
    BY <1>2, <2>1
<1> DEFINE e == Len(runs[p])
<1>6. 1 \in 1..Len(runs[1]) /\ e \in 1..Len(runs[p])
  BY <1>1, <1>4, <1>5
<1>7. runs[1][1] \in G /\ runs[p][e] \in G
  BY <1>1, <1>4, <1>5, <1>6
<1>8. ASSUME NEW g \in G PROVE runs[1][1] <= g /\ g <= runs[p][e]
  <2>1. PICK k \in 1..n : g \in Range(runs[k])
    OBVIOUS
  <2>0. Range(runs[k]) = {runs[k][i] : i \in 1..Len(runs[k])}
    BY <1>1
  <2>2. PICK i \in 1..Len(runs[k]) : g = runs[k][i]
    BY <2>0, <2>1
  <2>3. /\ g \in Nat /\ runs[1][1] \in Nat /\ runs[p][e] \in Nat
        /\ Len(runs[k]) \in Nat /\ Len(runs[p]) \in Nat
    BY <1>1, <1>4, <1>5, <1>6, <2>2
  <2>4. runs[1][1] <= g
    <3>1. CASE k = 1
      <4>1. i = 1 \/ 1 < i
        BY <2>3
      <4>2. CASE i = 1
        BY <2>2, <2>3, <3>1, <4>2
      <4>3. CASE 1 < i
        <5>1. runs[1][1] < runs[1][i]
          BY <1>0, <1>5, <1>6, <2>2, <3>1, <4>3 DEF Increasing
        <5> QED
          BY <2>2, <2>3, <3>1, <5>1
      <4> QED
        BY <4>1, <4>2, <4>3
    <3>2. CASE k # 1
      <4>1. 1 < k
        BY <3>2
      <4>2. Before(runs[1], runs[k])
        BY <1>0, <1>5, <4>1
      <4>3. runs[1][1] < g
        BY <1>6, <2>2, <4>2 DEF Before
      <4> QED
        BY <2>3, <4>3
    <3> QED
      BY <3>1, <3>2
  <2>5. g <= runs[p][e]
    <3>1. k <= p
      <4>1. Len(runs[k]) >= 1
        BY <2>3
      <4>2. ~(p < k)
        BY <1>4, <4>1
      <4> QED
        BY <4>2
    <3>2. CASE k = p
      <4>1. i = e \/ i < e
        BY <2>3, <3>2
      <4>2. CASE i = e
        BY <2>2, <2>3, <3>2, <4>2
      <4>3. CASE i < e
        <5>1. g < runs[p][e]
          BY <1>0, <1>6, <2>2, <3>2, <4>3 DEF Increasing
        <5> QED
          BY <2>3, <5>1
      <4> QED
        BY <4>1, <4>2, <4>3
    <3>3. CASE k # p
      <4>1. k < p
        BY <3>1, <3>3
      <4>2. Before(runs[k], runs[p])
        BY <1>0, <4>1
      <4>3. g < runs[p][e]
        BY <1>6, <2>2, <4>2 DEF Before
      <4> QED
        BY <2>3, <4>3
    <3> QED
      BY <3>2, <3>3
  <2> QED
    BY <2>4, <2>5
<1> QED
  BY <1>7, <1>8, <1>g DEF HasEnds

-----------------------------------------------------------------------------
(* The log keeps its promise                                               *)

\* append() queues full buffers only, and a batch is its queue with one buffer more.
QueueFull ==
  /\ \A i \in 1..Len(buffers) : Len(content[buffers[i]]) >= Capacity
  /\ lpc = "trim" =>
       \A i \in 1..(Len(buffersToWrite) - 1) : Len(content[buffersToWrite[i]]) >= Capacity

\* The logging thread holds nothing back in stdio but while it writes a batch.
AllFlushed == lpc \notin {"write", "flush", "ended"} => synced = Len(stdio)

LInv == IInv /\ Chained /\ QueueFull /\ AllFlushed

\* What an append changes: one line goes to the end of the buffer that is then current.
LEMMA AppendChanges ==
  ASSUME IInv, Chained, AppendToCurrent \/ AppendToNext
  PROVE  /\ UNCHANGED <<buffersToWrite, written, stdio, synced>>
         /\ accepted' = accepted + 1
         /\ lpc' = lpc \/ (lpc = "waiting" /\ lpc' = "awake")
         /\ currentBuffer' \in Buf
         /\ currentBuffer' \notin Range(buffers) \union Range(buffersToWrite)
         /\ content'[currentBuffer'] = Append(content[currentBuffer'], accepted + 1)
         /\ \A c \in Buf \ {currentBuffer'} : content'[c] = content[c]
         /\ \/ currentBuffer' = currentBuffer /\ buffers' = buffers
            \/ /\ currentBuffer' # currentBuffer /\ content[currentBuffer'] = <<>>
               /\ buffers' = Append(buffers, currentBuffer)
               /\ Len(content[currentBuffer]) >= Capacity
<1>t. TypeOK /\ SingleOwner /\ FreeBuffersEmpty
  BY DEF IInv
<1>1. CASE AppendToCurrent
  <2>1. currentBuffer \in Buf /\ currentBuffer \notin Range(buffers) \union Range(buffersToWrite)
    BY <1>t DEF TypeOK, SingleOwner
  <2>2. /\ UNCHANGED <<buffersToWrite, written, stdio, synced, lpc, currentBuffer, buffers>>
        /\ accepted' = accepted + 1
        /\ content' = [content EXCEPT ![currentBuffer] = Append(@, accepted + 1)]
    BY <1>1 DEF AppendToCurrent, backVars, fileVars
  <2>3. /\ content'[currentBuffer] = Append(content[currentBuffer], accepted + 1)
        /\ \A c \in Buf \ {currentBuffer} : content'[c] = content[c]
    BY <1>t, <2>1, <2>2 DEF TypeOK
  <2> QED
    BY <2>1, <2>2, <2>3
<1>2. CASE AppendToNext
  <2>1. PICK b \in Buf :
          /\ IF nextBuffer # NoBuf THEN b = nextBuffer ELSE NewBuffer(b, InUse)
          /\ currentBuffer' = b
          /\ content' = [content EXCEPT ![b] = Append(@, accepted + 1)]
    BY <1>2 DEF AppendToNext
  <2>2. content[b] = <<>>
        /\ b \notin Range(buffers) \union Range(buffersToWrite) \union {currentBuffer}
    <3>1. CASE nextBuffer # NoBuf
      BY <1>t, <2>1, <3>1 DEF SingleOwner, Chained, CurrentNewest
    <3>2. CASE nextBuffer = NoBuf
      BY <1>t, <2>1, <3>2, BufAssumption DEF NewBuffer, InUse, FreeBuffersEmpty
    <3> QED
      BY <3>1, <3>2
  <2>3. /\ content'[b] = Append(content[b], accepted + 1)
        /\ \A c \in Buf \ {b} : content'[c] = content[c]
    BY <1>t, <2>1 DEF TypeOK
  <2>4. /\ UNCHANGED <<buffersToWrite, written, stdio, synced>>
        /\ accepted' = accepted + 1
        /\ lpc' = lpc \/ (lpc = "waiting" /\ lpc' = "awake")
        /\ buffers' = Append(buffers, currentBuffer)
        /\ Len(content[currentBuffer]) >= Capacity
    BY <1>2 DEF AppendToNext, Notify, backVars, fileVars
  <2> QED
    BY <2>1, <2>2, <2>3, <2>4
<1> QED
  BY <1>1, <1>2

\* What a step of the batch changes: it empties buffers of the batch at most.
LEMMA BatchChanges ==
  ASSUME IInv, Trim \/ Recycle
  PROVE  /\ UNCHANGED <<currentBuffer, nextBuffer, buffers, accepted, stdio, synced>>
         /\ \A c \in Range(buffers) \union {currentBuffer} : content'[c] = content[c]
         /\ \A i \in 1..Len(buffers) : content'[buffers[i]] = content[buffers[i]]
<1>t. TypeOK /\ SingleOwner
  BY DEF IInv
<1>1. \E bufs : content' = Emptied(bufs) /\ bufs \subseteq Range(buffersToWrite)
  BY DEF Trim, Recycle
<1>2. \A b \in Buf : b \notin Range(buffersToWrite) => content'[b] = content[b]
  BY <1>t, <1>1, EmptiedType
<1>3. \A b \in Range(buffers) \union {currentBuffer} : b \in Buf /\ b \notin Range(buffersToWrite)
  <2>1. Range(buffers) \subseteq Buf /\ currentBuffer \in Buf
    BY <1>t, RangeInSet DEF TypeOK
  <2> QED
    BY <1>t, <2>1 DEF SingleOwner
<1>4. \A i \in 1..Len(buffers) : buffers[i] \in Range(buffers)
  BY <1>t, ElementInRange DEF TypeOK
<1> QED
  BY <1>2, <1>3, <1>4 DEF Trim, Recycle, frontVars, fileVars

\* A swap takes the whole queue and the current buffer as the batch.
LEMMA SwapChanges ==
  ASSUME IInv, SwapBuffers
  PROVE  /\ buffers' = <<>> /\ written' = 0 /\ buffersToWrite = <<>> /\ written = 0
         /\ buffersToWrite' = Append(buffers, currentBuffer)
         /\ buffers \in Seq(Buf) /\ currentBuffer \in Buf
         /\ content[currentBuffer'] = <<>> /\ lpc' = "trim"
         /\ UNCHANGED <<content, accepted, stdio, synced>>
<1>1. TypeOK /\ SparesAtHand
  BY DEF IInv
<1>2. newBuffer1 # NoBuf /\ content[newBuffer1] = <<>> /\ buffersToWrite = <<>>
  BY <1>1 DEF SwapBuffers, SparesAtHand
<1>3. Len(buffersToWrite) = 0
  BY <1>2
<1>4. written = 0
  BY <1>1, <1>3 DEF TypeOK
<1>5. currentBuffer' = newBuffer1 /\ written' = written /\ buffers' = buffersToWrite
  BY DEF SwapBuffers
<1> QED
  BY <1>1, <1>2, <1>4, <1>5 DEF SwapBuffers, TypeOK, fileVars

\* Full buffers stay full until they are written.
LEMMA QueueFullStep == ASSUME IInv, Chained, QueueFull, [Next]_vars PROVE QueueFull'
<1>t. TypeOK
  BY DEF IInv
<1>n. /\ Len(buffers) \in Nat /\ Len(buffersToWrite) \in Nat
      /\ \A i \in 1..Len(buffers) : buffers[i] \in Range(buffers) /\ buffers[i] \in Buf
      /\ \A i \in 1..(Len(buffersToWrite) - 1) :
           buffersToWrite[i] \in Range(buffersToWrite) /\ buffersToWrite[i] \in Buf
  <2>1. buffers \in Seq(Buf) /\ buffersToWrite \in Seq(Buf)
    BY <1>t DEF TypeOK
  <2>2. Len(buffers) \in Nat /\ Len(buffersToWrite) \in Nat
    BY <2>1
  <2>3. \A i \in 1..(Len(buffersToWrite) - 1) : i \in 1..Len(buffersToWrite)
    BY <2>2
  <2>4. \A i \in 1..Len(buffers) : buffers[i] \in Range(buffers) /\ buffers[i] \in Buf
    BY <2>1, ElementInRange
  <2>5. \A i \in 1..Len(buffersToWrite) :
          buffersToWrite[i] \in Range(buffersToWrite) /\ buffersToWrite[i] \in Buf
    BY <2>1, ElementInRange
  <2> QED
    BY <2>2, <2>3, <2>4, <2>5
<1>1. ASSUME UNCHANGED <<buffers, content, buffersToWrite>>, lpc' = "trim" => lpc = "trim"
      PROVE  QueueFull'
  BY <1>1 DEF QueueFull
<1>2. CASE Start \/ LatchWait \/ StopFlag \/ StopNotify \/ Join \/ CheckRunning \/ WaitForLines
             \/ Timeout \/ Flush \/ Enter \/ WriteBuffer \/ UNCHANGED vars
  BY <1>1, <1>2 DEF Start, LatchWait, StopFlag, StopNotify, Notify, Join, CheckRunning,
     WaitForLines, Timeout, Flush, Enter, WriteBuffer, vars, frontVars, backVars, fileVars
<1>3. CASE AppendToCurrent \/ AppendToNext
  <2>1. /\ UNCHANGED buffersToWrite
        /\ lpc' = "trim" => lpc = "trim"
        /\ currentBuffer' \notin Range(buffers) \union Range(buffersToWrite)
        /\ \A c \in Buf \ {currentBuffer'} : content'[c] = content[c]
        /\ \/ currentBuffer' = currentBuffer /\ buffers' = buffers
           \/ /\ currentBuffer' # currentBuffer
              /\ buffers' = Append(buffers, currentBuffer)
              /\ Len(content[currentBuffer]) >= Capacity
    BY <1>3, AppendChanges
  <2>2. /\ \A i \in 1..Len(buffers) : content'[buffers[i]] = content[buffers[i]]
        /\ \A i \in 1..(Len(buffersToWrite) - 1) :
             content'[buffersToWrite[i]] = content[buffersToWrite[i]]
    BY <1>n, <2>1
  <2>3. CASE buffers' = buffers
    BY <2>1, <2>2, <2>3 DEF QueueFull
  <2>4. CASE /\ buffers' = Append(buffers, currentBuffer) /\ currentBuffer' # currentBuffer
             /\ Len(content[currentBuffer]) >= Capacity
    <3>1. /\ Len(buffers') = Len(buffers) + 1
          /\ \A i \in 1..Len(buffers) : buffers'[i] = buffers[i]
          /\ buffers'[Len(buffers) + 1] = currentBuffer
      BY <1>t, <2>4, AppendProperties DEF TypeOK
    <3>2. content'[currentBuffer] = content[currentBuffer]
      BY <1>t, <2>1, <2>4 DEF TypeOK
    <3>3. ASSUME NEW i \in 1..Len(buffers') PROVE Len(content'[buffers'[i]]) >= Capacity
      <4>1. i \in 1..Len(buffers) \/ i = Len(buffers) + 1
        BY <1>n, <3>1
      <4>2. CASE i \in 1..Len(buffers)
        BY <2>2, <3>1, <4>2 DEF QueueFull
      <4>3. CASE i = Len(buffers) + 1
        BY <2>4, <3>1, <3>2, <4>3
      <4> QED
        BY <4>1, <4>2, <4>3
    <3>4. lpc' = "trim" => \A i \in 1..(Len(buffersToWrite') - 1) :
                             Len(content'[buffersToWrite'[i]]) >= Capacity
      BY <2>1, <2>2 DEF QueueFull
    <3> QED
      BY <3>3, <3>4 DEF QueueFull
  <2> QED
    BY <2>1, <2>3, <2>4
<1>4. CASE SwapBuffers
  <2>1. /\ buffers' = <<>> /\ buffersToWrite' = Append(buffers, currentBuffer)
        /\ buffers \in Seq(Buf) /\ currentBuffer \in Buf /\ content' = content
    BY <1>4, SwapChanges
  <2>2. /\ Len(buffersToWrite') - 1 = Len(buffers)
        /\ \A i \in 1..Len(buffers) : buffersToWrite'[i] = buffers[i]
    BY <1>n, <2>1, AppendProperties
  <2>3. \A i : i \notin 1..Len(buffers')
    BY <2>1
  <2> QED
    BY <2>1, <2>2, <2>3 DEF QueueFull
<1>5. CASE Trim \/ Recycle
  <2>1. /\ UNCHANGED buffers
        /\ \A i \in 1..Len(buffers) : content'[buffers[i]] = content[buffers[i]]
    BY <1>5, BatchChanges
  <2>2. lpc' # "trim"
    BY <1>5 DEF Trim, Recycle
  <2> QED
    BY <2>1, <2>2 DEF QueueFull
<1> QED
  BY <1>2, <1>3, <1>4, <1>5 DEF Next, LogStep

\* A batch that was written is flushed before the next look at running_.
LEMMA AllFlushedStep == ASSUME IInv, Chained, AllFlushed, [Next]_vars PROVE AllFlushed'
<1>1. CASE Start
  <2>1. lpc = "none" /\ UNCHANGED <<stdio, synced>>
    BY <1>1 DEF IInv, RunningAtEnter, Start, fileVars
  <2> QED
    BY <2>1 DEF AllFlushed
<1>4. CASE LatchWait \/ StopFlag \/ StopNotify \/ Join \/ CheckRunning \/ WaitForLines
             \/ Timeout \/ Enter \/ UNCHANGED vars
  BY <1>4 DEF AllFlushed, LatchWait, StopFlag, StopNotify, Notify, Join, CheckRunning,
     WaitForLines, Timeout, Enter, vars, frontVars, backVars, fileVars
<1>2. CASE AppendToCurrent \/ AppendToNext
  <2>1. UNCHANGED <<stdio, synced>> /\ (lpc' = lpc \/ (lpc = "waiting" /\ lpc' = "awake"))
    BY <1>2, AppendChanges
  <2> QED
    BY <2>1 DEF AllFlushed
<1>3. CASE SwapBuffers \/ Trim \/ WriteBuffer \/ Recycle \/ Flush
  BY <1>3 DEF AllFlushed, SwapBuffers, Trim, WriteBuffer, Recycle, Flush, fileVars
<1> QED
  BY <1>1, <1>2, <1>3, <1>4 DEF Next, LogStep

\* All of it holds when the log is constructed, and of every step.
LEMMA LInvInit == Init => LInv
<1> SUFFICES ASSUME Init PROVE LInv
  OBVIOUS
<1>1. QueueFull /\ AllFlushed
  <2>1. Len(buffers) = 0 /\ Len(stdio) = 0 /\ lpc = "none" /\ synced = 0
    BY DEF Init
  <2> QED
    BY <2>1 DEF QueueFull, AllFlushed
<1> QED
  BY <1>1, IInvInit, ChainedInit DEF LInv

LEMMA LInvStep == LInv /\ [Next]_vars => LInv'
<1> SUFFICES ASSUME LInv, [Next]_vars PROVE LInv'
  OBVIOUS
<1>1. IInv /\ Chained /\ QueueFull /\ AllFlushed
  BY DEF LInv
<1>2. IInv'
  BY <1>1, TypeStep, ControlStep, OwnerStep, FreeStep, SparesStep DEF IInv
<1>3. Chained' /\ QueueFull' /\ AllFlushed'
  BY <1>1, ChainedStep, QueueFullStep, AllFlushedStep
<1> QED
  BY <1>2, <1>3 DEF LInv

\* A step that moves no line to another place.
LEMMA QuietRefines ==
  ASSUME UNCHANGED <<accepted, stdio, synced>>, Buffered' = Buffered,
         lpc' = lpc \/ (lpc # "ended" /\ lpc' # "ended")
  PROVE  UNCHANGED Log!vars
<1>1. UNCHANGED <<accepted, Pending, SubSeq(stdio, 1, synced)>>
  BY DEF Pending
<1>2. (lpc' = "ended") <=> (lpc = "ended")
  OBVIOUS
<1> QED
  BY <1>1, <1>2 DEF Log!vars

\* append() accepts a line.
LEMMA AppendRefines ==
  ASSUME IInv, Chained, AppendToCurrent \/ AppendToNext
  PROVE  Log!Accept
<1> DEFINE b == currentBuffer'
<1>t. TypeOK
  BY DEF IInv
<1>1. /\ UNCHANGED <<buffersToWrite, written, stdio, synced>>
      /\ accepted' = accepted + 1
      /\ lpc' = lpc \/ (lpc = "waiting" /\ lpc' = "awake")
      /\ b \in Buf
      /\ b \notin Range(buffers) \union Range(buffersToWrite)
      /\ content'[b] = Append(content[b], accepted + 1)
      /\ \A c \in Buf \ {b} : content'[c] = content[c]
      /\ \/ currentBuffer' = currentBuffer /\ buffers' = buffers
         \/ /\ b # currentBuffer /\ content[b] = <<>>
            /\ buffers' = Append(buffers, currentBuffer)
  BY AppendChanges
<1>2. accepted + 1 \in Nat /\ content[b] \in Seq(Nat)
  BY <1>t, <1>1 DEF TypeOK
<1>3. Range(content'[b]) = Range(content[b]) \union {accepted + 1}
  BY <1>1, <1>2, AppendRange
<1>4. Live' = Live \union {b} /\ (b \in Live \/ Range(content[b]) = {})
  <2>1. Unwritten' = Unwritten
    BY <1>1 DEF Unwritten
  <2>2. CASE b = currentBuffer /\ buffers' = buffers
    BY <2>1, <2>2 DEF Live
  <2>3. CASE content[b] = <<>> /\ buffers' = Append(buffers, currentBuffer)
    <3>1. Range(buffers') = Range(buffers) \union {currentBuffer}
      BY <1>t, <2>3, AppendRange DEF TypeOK
    <3> QED
      BY <2>1, <2>3, <3>1, EmptyRange DEF Live
  <2> QED
    BY <1>1, <2>2, <2>3
<1>5. Live \subseteq Buf
  <2>1. Unwritten \subseteq Range(buffersToWrite)
    BY <1>t, UnwrittenInBatch
  <2>2. Range(buffersToWrite) \subseteq Buf /\ Range(buffers) \subseteq Buf /\ currentBuffer \in Buf
    BY <1>t, RangeInSet DEF TypeOK
  <2> QED
    BY <2>1, <2>2 DEF Live
<1>6. Buffered' = Buffered \union {accepted + 1}
  <2> HIDE DEF b
  <2>1. \A c \in Live \ {b} : content'[c] = content[c]
    BY <1>1, <1>5
  <2>2. Buffered' = UNION {Range(content'[c]) : c \in Live \union {b}}
    BY <1>4 DEF Buffered
  <2>3. \A c \in Live : Range(content'[c]) = Range(content[c]) \/ c = b
    BY <2>1
  <2> QED
    BY <1>3, <1>4, <2>2, <2>3 DEF Buffered
<1>7. Pending' = Pending \union {accepted + 1}
  BY <1>1, <1>6 DEF Pending
<1>8. UNCHANGED SubSeq(stdio, 1, synced) /\ ((lpc' = "ended") <=> (lpc = "ended"))
  BY <1>1
<1> QED
  BY <1>1, <1>7, <1>8 DEF Log!Accept

\* A buffer written, or a flush: lines reach the file, if only stdio lets them.
LEMMA WriteRefines ==
  ASSUME LInv, LInv', WriteBuffer \/ Flush
  PROVE  Log!Write \/ UNCHANGED Log!vars
<1>t. TypeOK /\ TypeOK'
  BY DEF LInv, IInv
<1>c. Chained'
  BY DEF LInv
<1>1. /\ stdio \in Seq(Nat) /\ synced \in 0..Len(stdio) /\ Len(stdio) \in Nat
      /\ stdio' \in Seq(Nat) /\ synced' \in 0..Len(stdio') /\ Len(stdio') \in Nat
  <2>1. stdio \in Seq(Nat) /\ synced \in 0..Len(stdio)
    BY <1>t DEF TypeOK
  <2>2. stdio' \in Seq(Nat) /\ synced' \in 0..Len(stdio')
    BY <1>t DEF TypeOK
  <2> QED
    BY <2>1, <2>2
<1>2. /\ LinesAfter(stdio', synced) \union Buffered' = Pending
      /\ SubSeq(stdio', 1, synced) = SubSeq(stdio, 1, synced)
      /\ synced <= synced' /\ synced <= Len(stdio')
      /\ accepted' = accepted /\ lpc # "ended" /\ lpc' # "ended"
  <2>0. Pending = LinesAfter(stdio, synced) \union Buffered
    BY <1>1, RangeOfRest DEF Pending
  <2>1. CASE WriteBuffer
    <3> DEFINE b == buffersToWrite[written + 1]
    <3>1. /\ written \in Nat /\ Len(buffersToWrite) \in Nat /\ written < Len(buffersToWrite)
          /\ stdio' = stdio \o content[b] /\ written' = written + 1
          /\ UNCHANGED <<currentBuffer, buffers, buffersToWrite, content, accepted, lpc>>
          /\ lpc = "write"
      BY <1>t, <2>1 DEF WriteBuffer, TypeOK, frontVars
    <3>2. synced' \in IF count' = 0 THEN {Len(stdio')} ELSE synced..Len(stdio')
      BY <2>1 DEF WriteBuffer
    <3>3. Unwritten = Unwritten' \union {b}
      <4>1. /\ \A i \in (written + 1)..Len(buffersToWrite) :
                 i = written + 1 \/ i \in (written + 2)..Len(buffersToWrite)
            /\ written + 1 \in (written + 1)..Len(buffersToWrite)
            /\ \A i \in (written + 2)..Len(buffersToWrite) : i \in (written + 1)..Len(buffersToWrite)
        BY <3>1
      <4>2. Unwritten' = {buffersToWrite[i] : i \in (written + 2)..Len(buffersToWrite)}
        BY <3>1 DEF Unwritten
      <4> QED
        BY <4>1, <4>2 DEF Unwritten
    <3>4. Live = Live' \union {b}
      BY <3>1, <3>3 DEF Live
    <3>5. Buffered = Buffered' \union Range(content[b])
      BY <3>1, <3>4 DEF Buffered
    <3>6. content[b] \in Seq(Nat)
      <4>1. written + 1 \in 1..Len(buffersToWrite)
        BY <3>1
      <4> QED
        BY <1>t, <4>1, ElementInRange DEF TypeOK
    <3> DEFINE t == content[b]
    <3> HIDE DEF b
    <3>7. t \in Seq(Nat) /\ stdio' = stdio \o t
      BY <3>1, <3>6
    <3>8. Len(stdio') = Len(stdio) + Len(t) /\ Len(t) \in Nat
      BY <1>1, <3>7, ConcatProperties
    <3> HIDE DEF t
    <3>9. /\ LinesAfter(stdio', synced)
               = LinesAfter(stdio, synced) \union Range(t)
          /\ SubSeq(stdio', 1, synced) = SubSeq(stdio, 1, synced)
      <4>1. /\ LinesAfter(stdio \o t, synced)
                 = LinesAfter(stdio, synced) \union Range(t)
            /\ SubSeq(stdio \o t, 1, synced) = SubSeq(stdio, 1, synced)
        <5>1. stdio \in Seq(Nat) /\ t \in Seq(Nat) /\ synced \in 0..Len(stdio)
          BY <1>1, <3>7
        <5> QED
          BY <5>1, RestOfJoined
      <4> QED
        BY <3>7, <4>1
    <3>10. synced <= Len(stdio') /\ synced <= synced'
      BY <1>1, <3>2, <3>8
    <3> QED
      BY <2>0, <3>1, <3>5, <3>9, <3>10 DEF t
  <2>2. CASE Flush
    <3>1. /\ UNCHANGED <<stdio, content, buffers, buffersToWrite, written, currentBuffer, accepted>>
          /\ lpc = "flush" /\ lpc' = "loop" /\ synced' = Len(stdio)
      BY <2>2 DEF Flush, frontVars, backVars
    <3>2. Buffered' = Buffered
      BY <3>1 DEF Buffered, Live, Unwritten
    <3> QED
      BY <1>1, <2>0, <3>1, <3>2
  <2> QED
    BY <2>1, <2>2
<1>3. Pending' = LinesAfter(stdio', synced') \union Buffered'
  BY <1>1, RangeOfRest DEF Pending
<1>4. CASE synced' = synced
  <2>1. UNCHANGED <<accepted, Pending, SubSeq(stdio, 1, synced)>>
    BY <1>2, <1>3, <1>4
  <2>2. (lpc' = "ended") <=> (lpc = "ended")
    BY <1>2
  <2> QED
    BY <2>1, <2>2 DEF Log!vars
<1>5. CASE synced' # synced
  <2>1. synced < synced' /\ synced \in 0..Len(stdio') /\ synced' \in synced..Len(stdio')
    BY <1>1, <1>2, <1>5
  <2>2. Increasing(stdio') /\ \A c \in Live' : Before(stdio', content'[c])
    BY <1>c DEF Chained, StdioOldest, Live
  <2>3. \A c \in Live' : content'[c] \in Seq(Nat)
    <3>1. Unwritten' \subseteq Range(buffersToWrite')
      <4>1. buffersToWrite' \in Seq(Buf) /\ written' \in 0..Len(buffersToWrite')
        BY <1>t DEF TypeOK
      <4> DEFINE w == written'
                 m == Len(buffersToWrite')
      <4>2. w \in 0..m /\ m \in Nat
        BY <4>1
      <4> HIDE DEF w, m
      <4>3. \A i \in (w + 1)..m : i \in 1..m
        BY <4>2
      <4> QED
        BY <4>1, <4>3, ElementInRange DEF Unwritten, w, m
    <3>2. /\ Range(buffersToWrite') \subseteq Buf /\ Range(buffers') \subseteq Buf
          /\ currentBuffer' \in Buf
      BY <1>t, RangeInSet DEF TypeOK
    <3>3. content' \in [Buf -> Seq(Nat)]
      BY <1>t DEF TypeOK
    <3> QED
      BY <3>1, <3>2, <3>3 DEF Live
  <2>4. Buffered' \in SUBSET Nat /\ \A i \in 1..Len(stdio'), l \in Buffered' : stdio'[i] < l
    <3> SUFFICES ASSUME NEW c \in Live', NEW l \in Range(content'[c])
                 PROVE  l \in Nat /\ \A i \in 1..Len(stdio') : stdio'[i] < l
      BY DEF Buffered
    <3>1. PICK j \in 1..Len(content'[c]) : l = content'[c][j]
      BY <2>3 DEF Range
    <3>2. l \in Nat
      BY <2>3, <3>1
    <3> QED
      BY <2>2, <3>1, <3>2 DEF Before
  <2> DEFINE s == stdio'
             n == synced'
             R == Buffered'
             rest == Pending'
  <2>5. /\ s \in Seq(Nat) /\ Increasing(s) /\ synced \in 0..Len(s) /\ n \in synced..Len(s)
        /\ synced < n /\ R \in SUBSET Nat /\ \A i \in 1..Len(s), l \in R : s[i] < l
        /\ Pending = LinesAfter(s, synced) \union R
        /\ rest = LinesAfter(s, n) \union R
        /\ SubSeq(s, 1, synced) = SubSeq(stdio, 1, synced)
    BY <1>1, <1>2, <1>3, <2>1, <2>2, <2>4
  <2> HIDE DEF s, n, R, rest
  <2>6. /\ s[n] \in Pending
        /\ SubSeq(s, 1, n) = SubSeq(s, 1, synced) \o Log!InOrder(NoNewer(Pending, s[n]))
        /\ Pending \ NoNewer(Pending, s[n]) = LinesAfter(s, n) \union R
    <3>1. s \in Seq(Nat) /\ Increasing(s) /\ synced \in 0..Len(s) /\ n \in synced..Len(s)
      BY <2>5
    <3>2. synced < n /\ Follow(R, s)
      BY <2>5 DEF Follow
    <3>3. Pending = LinesAfter(s, synced) \union R
      BY <2>5
    <3>4. OldestAre(s, synced, n, R)
      BY <3>1, <3>2, OldestLines
    <3> QED
      BY <3>3, <3>4 DEF OldestAre
  <2>7. \E last \in Pending :
          /\ SubSeq(stdio', 1, synced')
               = SubSeq(stdio, 1, synced) \o Log!InOrder({l \in Pending : l <= last})
          /\ Pending' = Pending \ {l \in Pending : l <= last}
    BY <2>5, <2>6 DEF s, n, rest, NoNewer
  <2>8. lpc # "ended" /\ ((lpc' = "ended") <=> (lpc = "ended")) /\ accepted' = accepted
    BY <1>2
  <2> QED
    BY <2>7, <2>8 DEF Log!Write
<1> QED
  BY <1>4, <1>5

\* Of many lines, a run of adjacent ones that leaves the oldest is given up.
GivesUp(before, after, many, oldest) ==
  /\ Log!Cardinality(before) >= many
  /\ \E first, last \in before :
       Log!Older(before, first) >= oldest /\ after = before \ (first..last)

\* A batch of m runs of c lines or more, all but the last, and the lines after them, trimmed
\* to its first two runs.
LongBatch(m, runs, c, trim, later, before, after) ==
  /\ m \in Nat /\ trim \in Nat /\ trim >= 2 /\ m > trim /\ c \in Nat \ {0}
  /\ Chain(m, runs) /\ \A k \in 1..(m - 1) : Len(runs[k]) >= c
  /\ \A k \in 1..m : Follow(later, runs[k])
  /\ before = LinesOf(runs, m) \union later
  /\ after = Range(runs[1]) \union Range(runs[2]) \union later
  /\ IsFiniteSet(before) /\ before # after

\* The trim of a long batch gives up the lines of its third buffer to its last.
LEMMA LongTrim ==
  ASSUME NEW m, NEW runs, NEW c, NEW trim, NEW later, NEW before, NEW after
  PROVE  LongBatch(m, runs, c, trim, later, before, after)
         => GivesUp(before, after, trim * c, 2 * c)
<1>s. SUFFICES ASSUME
          /\ m \in Nat /\ trim \in Nat /\ trim >= 2 /\ m > trim /\ c \in Nat \ {0}
          /\ Chain(m, runs) /\ \A k \in 1..(m - 1) : Len(runs[k]) >= c
          /\ \A k \in 1..m : Follow(later, runs[k])
          /\ before = LinesOf(runs, m) \union later
          /\ after = Range(runs[1]) \union Range(runs[2]) \union later
          /\ IsFiniteSet(before) /\ before # after
      PROVE GivesUp(before, after, trim * c, 2 * c)
  BY DEF LongBatch
<1>n. m \in Nat /\ trim \in Nat /\ trim >= 2 /\ m > trim /\ c \in Nat \ {0}
  BY <1>s
<1>c. Chain(m, runs)
  BY <1>s
<1>l. \A k \in 1..(m - 1) : Len(runs[k]) >= c
  BY <1>s
<1> DEFINE gone == UNION {Range(runs[k]) : k \in 3..m}
           kept == Range(runs[1]) \union Range(runs[2])
<1>1. /\ 1 \in 1..m /\ 2 \in 1..m /\ \A k \in 3..m : k \in 1..m /\ 1 < k /\ 2 < k
      /\ \A k \in 1..m : k = 1 \/ k = 2 \/ k \in 3..m
  BY <1>n
<1>2. /\ \A k \in 1..m : Range(runs[k]) = {runs[k][i] : i \in 1..Len(runs[k])}
      /\ \A k \in 1..m : Len(runs[k]) \in Nat /\ \A i \in 1..Len(runs[k]) : runs[k][i] \in Nat
  <2>1. \A k \in 1..m : runs[k] \in Seq(Nat)
    BY <1>c DEF Chain
  <2> QED
    BY <2>1 DEF Range
<1>f. later \in SUBSET Nat /\ \A k \in 1..m : \A i \in 1..Len(runs[k]), l \in later : runs[k][i] < l
  BY <1>s, <1>1 DEF Follow
<1>3. before = kept \union gone \union later /\ after = kept \union later
  <2>1. before = LinesOf(runs, m) \union later /\ after = kept \union later
    BY <1>s
  <2>2. \A k \in 1..m : Range(runs[k]) \subseteq kept \union gone
    BY <1>1
  <2>3. kept \subseteq LinesOf(runs, m)
    BY <1>1 DEF LinesOf
  <2>4. gone \subseteq LinesOf(runs, m)
    BY <1>1 DEF LinesOf
  <2> HIDE DEF kept, gone
  <2>5. LinesOf(runs, m) \subseteq kept \union gone
    BY <2>2 DEF LinesOf
  <2> QED
    BY <2>1, <2>3, <2>4, <2>5
<1>4. kept \in SUBSET Nat /\ gone \in SUBSET Nat
  <2>1. \A k \in 1..m : Range(runs[k]) \in SUBSET Nat
    <3> SUFFICES ASSUME NEW k \in 1..m PROVE Range(runs[k]) \in SUBSET Nat
      OBVIOUS
    <3>1. /\ Range(runs[k]) = {runs[k][i] : i \in 1..Len(runs[k])}
          /\ \A i \in 1..Len(runs[k]) : runs[k][i] \in Nat
      BY <1>2
    <3> QED
      BY <3>1
  <2> QED
    BY <1>1, <2>1
<1>5. \A x \in kept, g \in gone : x < g
  <2> SUFFICES ASSUME NEW j \in {1, 2}, NEW x \in Range(runs[j]),
                      NEW k \in 3..m, NEW g \in Range(runs[k])
               PROVE  x < g
    BY <1>1
  <2>1. j \in 1..m /\ k \in 1..m /\ j < k
    BY <1>1
  <2>2. Before(runs[j], runs[k])
    BY <1>c, <2>1 DEF Chain
  <2>3. /\ \E i \in 1..Len(runs[j]) : x = runs[j][i]
        /\ \E i \in 1..Len(runs[k]) : g = runs[k][i]
    BY <1>2, <2>1
  <2> QED
    BY <2>2, <2>3 DEF Before
<1>6. \A g \in gone, l \in later : g < l
  <2> SUFFICES ASSUME NEW k \in 3..m, NEW g \in Range(runs[k]), NEW l \in later PROVE g < l
    OBVIOUS
  <2>1. k \in 1..m
    BY <1>1
  <2>2. \E i \in 1..Len(runs[k]) : g = runs[k][i]
    BY <1>2, <2>1
  <2> QED
    BY <1>f, <2>1, <2>2
<1>7. gone # {}
  BY <1>3, <1>s
<1>8. PICK first \in gone, last \in gone : \A g \in gone : first <= g /\ g <= last
  <2> DEFINE n == m - 2
             tail == [k \in 1..n |-> runs[k + 2]]
  <2>1. n \in Nat \ {0} /\ \A k \in 1..n : k + 2 \in 1..m /\ k + 2 \in 3..m
    BY <1>n
  <2>2. tail \in [1..n -> Seq(Nat)] /\ \A k \in 1..n : tail[k] = runs[k + 2] /\ Increasing(tail[k])
    BY <1>c, <2>1 DEF Chain
  <2>3. \A j, k \in 1..n : j < k => Before(tail[j], tail[k])
    <3> SUFFICES ASSUME NEW j \in 1..n, NEW k \in 1..n, j < k PROVE Before(tail[j], tail[k])
      OBVIOUS
    <3>1. j + 2 < k + 2
      BY <2>1
    <3>2. Before(runs[j + 2], runs[k + 2])
      BY <1>c, <2>1, <3>1 DEF Chain
    <3> QED
      BY <3>2
  <2>4. \A k \in 1..(n - 1) : Len(tail[k]) >= 1
    <3> SUFFICES ASSUME NEW k \in 1..(n - 1) PROVE Len(tail[k]) >= 1
      OBVIOUS
    <3>1. k \in 1..n /\ k + 2 \in 1..(m - 1) /\ k + 2 \in 1..m
      BY <1>n, <2>1
    <3>2. Len(runs[k + 2]) >= c /\ Len(runs[k + 2]) \in Nat
      BY <1>2, <1>l, <3>1
    <3>3. Len(runs[k + 2]) >= 1
      BY <1>n, <3>2
    <3> QED
      BY <3>1, <3>3
  <2>5. gone = LinesOf(tail, n)
    <3>1. \A k \in 3..m : k - 2 \in 1..n /\ (k - 2) + 2 = k
      BY <1>n
    <3>2. \A k \in 3..m : tail[k - 2] = runs[k]
      BY <3>1
    <3> HIDE DEF tail, n
    <3>3. \A k \in 3..m : Range(runs[k]) \subseteq UNION {Range(tail[j]) : j \in 1..n}
      BY <3>1, <3>2
    <3>4. \A k \in 1..n : Range(tail[k]) \subseteq gone
      BY <2>1, <2>2
    <3> QED
      BY <3>3, <3>4 DEF LinesOf
  <2> HIDE DEF tail, n, gone
  <2>6. Chain(n, tail)
    BY <2>2, <2>3 DEF Chain
  <2> QED
    BY <1>7, <2>1, <2>4, <2>5, <2>6, EndsOfRuns DEF HasEnds
<1> HIDE DEF gone, kept
<1>9. first \in Nat /\ last \in Nat /\ first \in before /\ last \in before
  BY <1>3, <1>4, <1>8
<1>10. after = before \ (first..last)
  <2>1. \A g \in gone : g \in first..last
    BY <1>4, <1>8, <1>9
  <2>2. \A x \in kept : x \notin first..last
    BY <1>4, <1>5, <1>8, <1>9
  <2>3. \A l \in later : l \notin first..last
    BY <1>6, <1>8, <1>9
  <2> QED
    BY <1>3, <2>1, <2>2, <2>3
<1>11. \A k \in 1..(m - 1) : k \in 1..m /\ \A i \in 1..c : i \in 1..Len(runs[k])
  <2> SUFFICES ASSUME NEW k \in 1..(m - 1)
               PROVE  k \in 1..m /\ \A i \in 1..c : i \in 1..Len(runs[k])
    OBVIOUS
  <2>1. k \in 1..m
    BY <1>n
  <2>2. Len(runs[k]) \in Nat /\ Len(runs[k]) >= c
    BY <1>2, <1>l, <2>1
  <2> QED
    BY <1>n, <2>1, <2>2
<1>12. Cardinality(before) >= trim * c
  <2> DEFINE some == [k \in 1..trim |-> runs[k]]
  <2>1. \A k \in 1..trim : k \in 1..m /\ k \in 1..(m - 1)
    BY <1>n
  <2>2. Chain(trim, some) /\ \A k \in 1..trim : Len(some[k]) >= c
    BY <1>c, <1>l, <2>1 DEF Chain
  <2>3. \A k \in 1..trim : \A i \in 1..c : some[k][i] \in before
    <3>1. \A k \in 1..trim : \A i \in 1..c : runs[k][i] \in Range(runs[k])
      BY <1>2, <1>11, <2>1
    <3>2. \A k \in 1..trim : Range(runs[k]) \subseteq before
      BY <1>s, <2>1 DEF LinesOf
    <3> QED
      BY <3>1, <3>2
  <2> HIDE DEF some
  <2>4. c \in Nat /\ trim \in Nat /\ IsFiniteSet(before)
    BY <1>s
  <2> QED
    BY <2>2, <2>3, <2>4, FullRuns
<1>13. Log!Older(before, first) >= 2 * c
  <2> DEFINE older == {k \in before : k < first}
             some == [k \in 1..2 |-> runs[k]]
  <2>1. \A k \in 1..2 : k \in 1..m /\ k \in 1..(m - 1) /\ k \in {1, 2}
    BY <1>n
  <2>2. Chain(2, some) /\ \A k \in 1..2 : Len(some[k]) >= c
    BY <1>c, <1>l, <2>1 DEF Chain
  <2>3. \A k \in 1..2 : \A i \in 1..c : some[k][i] \in older
    <3> SUFFICES ASSUME NEW k \in 1..2, NEW i \in 1..c PROVE some[k][i] \in older
      OBVIOUS
    <3>0. k \in 1..m /\ i \in 1..Len(runs[k]) /\ some[k] = runs[k]
      BY <1>11, <2>1
    <3>1. some[k][i] = runs[k][i] /\ runs[k][i] \in Range(runs[k])
      BY <1>2, <3>0
    <3>2. Range(runs[k]) \subseteq kept
      BY <2>1 DEF kept
    <3>3. some[k][i] \in kept
      BY <3>1, <3>2
    <3>4. some[k][i] < first
      BY <1>5, <1>8, <3>3
    <3> QED
      BY <1>3, <3>3, <3>4
  <2>4. IsFiniteSet(older)
    <3>1. IsFiniteSet(before) /\ older \in SUBSET before
      BY <1>s
    <3> QED
      BY <3>1, FS_Subset
  <2> HIDE DEF some, older
  <2>5. c \in Nat /\ 2 \in Nat
    BY <1>n
  <2>6. Cardinality(older) >= 2 * c
    BY <2>2, <2>3, <2>4, <2>5, FullRuns
  <2> QED
    BY <2>6, SameCardinality DEF older, Log!Older
<1> QED
  BY <1>9, <1>10, <1>12, <1>13, SameCardinality DEF GivesUp

\* The trim of a batch gives up lines only when many are waiting, and keeps the oldest.
LEMMA TrimRefines ==
  ASSUME LInv, Trim
  PROVE  Log!Drop \/ UNCHANGED Log!vars
<1> DEFINE batch == buffersToWrite
           m == Len(batch)
           runs == [k \in 1..m |-> content[batch[k]]]
           rest == Range(buffers) \union {currentBuffer}
           later == UNION {Range(content[b]) : b \in rest}
<1>t. TypeOK /\ IInv /\ Chained /\ QueueFull
  BY DEF LInv, IInv
<1>1. /\ lpc = "trim" /\ lpc' = "write" /\ written = 0 /\ written' = 0
      /\ UNCHANGED <<currentBuffer, buffers, accepted, stdio, synced>>
  BY <1>t DEF Trim, frontVars, fileVars, IInv, NothingWritten
<1>2. /\ m \in Nat /\ batch \in Seq(Buf) /\ \A k \in 1..m : batch[k] \in Range(batch) /\ batch[k] \in Buf
      /\ rest \subseteq Buf /\ Range(batch) \subseteq Buf
      /\ content \in [Buf -> Seq(Nat)] /\ accepted \in Nat
  <2>1. /\ batch \in Seq(Buf) /\ buffers \in Seq(Buf) /\ currentBuffer \in Buf
        /\ content \in [Buf -> Seq(Nat)] /\ accepted \in Nat
    BY <1>t DEF TypeOK
  <2>2. Range(buffers) \subseteq Buf /\ Range(batch) \subseteq Buf
    BY <2>1, RangeInSet
  <2>3. \A k \in 1..m : batch[k] \in Range(batch) /\ batch[k] \in Buf
    BY <2>1, ElementInRange
  <2> QED
    BY <2>1, <2>2, <2>3
<1>3. Pending = Buffered /\ Pending' = Buffered'
  <2>1. synced = Len(stdio) /\ Len(stdio) \in Nat
    BY <1>t, <1>1 DEF LInv, AllFlushed, TypeOK
  <2>2. SubSeq(stdio, synced + 1, Len(stdio)) = <<>>
    BY <2>1, SubSeqEmpty
  <2> QED
    BY <1>1, <2>2, EmptyRange DEF Pending
<1>4. Unwritten = {batch[k] : k \in 1..m}
  BY <1>1 DEF Unwritten
<1>5. Chain(m, runs)
  <2>1. runs \in [1..m -> Seq(Nat)]
    BY <1>2
  <2>2. \A k \in 1..m : runs[k] = content[batch[k]] /\ Increasing(runs[k])
    BY <1>t, <1>2 DEF Chained, BuffersSorted
  <2>3. \A j, k \in 1..m : j < k => Before(runs[j], runs[k])
    BY <1>t, <1>1, <2>2 DEF Chained, QueueSorted
  <2> HIDE DEF runs
  <2> QED
    BY <2>1, <2>2, <2>3 DEF Chain
<1>6. \A k \in 1..m : Follow(later, runs[k])
  <2> SUFFICES ASSUME NEW k \in 1..m PROVE Follow(later, runs[k])
    OBVIOUS
  <2>1. later \in SUBSET Nat
    <3>1. \A b \in rest : content[b] \in Seq(Nat)
      BY <1>2
    <3>2. \A b \in rest : Range(content[b]) \subseteq Nat
      BY <3>1, RangeInSet
    <3> QED
      BY <3>2
  <2>2. \A b \in rest : Before(content[batch[k]], content[b])
    <3>1. batch[k] \in Unwritten
      BY <1>4
    <3>2. \A b \in Range(buffers) : Before(content[batch[k]], content[b])
      BY <1>t, <3>1 DEF Chained, QueueSorted
    <3>3. Before(content[batch[k]], content[currentBuffer])
      BY <1>t, <3>1 DEF Chained, CurrentNewest
    <3> QED
      BY <3>2, <3>3
  <2>3. \A i \in 1..Len(runs[k]), l \in later : runs[k][i] < l
    <3> SUFFICES ASSUME NEW i \in 1..Len(content[batch[k]]), NEW b \in rest, NEW l \in Range(content[b])
                 PROVE  content[batch[k]][i] < l
      OBVIOUS
    <3>1. content[b] \in Seq(Nat)
      BY <1>2
    <3>2. PICK j \in 1..Len(content[b]) : l = content[b][j]
      BY <3>1 DEF Range
    <3> QED
      BY <2>2, <3>2 DEF Before
  <2> HIDE DEF later, runs
  <2> QED
    BY <2>1, <2>3 DEF Follow
<1>7. Buffered = LinesOf(runs, m) \union later
  <2>1. Live = {batch[k] : k \in 1..m} \union rest
    BY <1>4 DEF Live
  <2>2. \A k \in 1..m : runs[k] = content[batch[k]]
    OBVIOUS
  <2> HIDE DEF runs, m
  <2>3. Buffered \subseteq LinesOf(runs, m) \union later
    <3> SUFFICES ASSUME NEW b \in Live, NEW l \in Range(content[b])
                 PROVE  l \in LinesOf(runs, m) \union later
      BY DEF Buffered
    <3>1. CASE b \in rest
      BY <3>1
    <3>2. CASE b \notin rest
      <4>1. PICK k \in 1..m : b = batch[k]
        BY <2>1, <3>2
      <4>2. l \in Range(runs[k])
        BY <2>2, <4>1
      <4> QED
        BY <4>2 DEF LinesOf
    <3> QED
      BY <3>1, <3>2
  <2>4. LinesOf(runs, m) \subseteq Buffered
    BY <2>1, <2>2 DEF LinesOf, Buffered
  <2>5. later \subseteq Buffered
    BY <2>1 DEF Buffered
  <2> QED
    BY <2>3, <2>4, <2>5
<1>8. \A b \in rest : content'[b] = content[b]
  BY <1>t, BatchChanges
<1>9. \A b \in Buf : b \in Range(batch') => content'[b] = content[b]
  BY <1>t, EmptiedType DEF Trim
<1>10. CASE ~(m > MaxBuffers)
  <2>1. batch' = batch
    BY <1>10 DEF Trim
  <2>2. Live' = Live /\ \A b \in Live : content'[b] = content[b]
    BY <1>1, <1>2, <1>4, <1>8, <1>9, <2>1 DEF Live, Unwritten
  <2>3. Buffered' = Buffered
    BY <2>2 DEF Buffered
  <2> QED
    BY <1>1, <2>3, QuietRefines
<1>11. CASE m > MaxBuffers
  <2>1. MaxBuffers \in Nat /\ MaxBuffers >= 2 /\ m >= 2 /\ 1 \in 1..m /\ 2 \in 1..m
        /\ Capacity \in Nat \ {0} /\ Capacity \in Nat
    BY <1>2, <1>11, SizeAssumption
  <2>2. batch' = SubSeq(batch, 1, 2)
    BY <1>11 DEF Trim
  <2>3. /\ batch' \in Seq(Buf) /\ Len(batch') = 2 /\ batch'[1] = batch[1] /\ batch'[2] = batch[2]
    BY <1>2, <2>1, <2>2, FirstTwo
  <2>4. batch[1] \in Range(batch') /\ batch[2] \in Range(batch')
    BY <2>3 DEF Range
  <2>5. Unwritten' = {batch[1], batch[2]}
    <3>1. Unwritten' = {batch'[k] : k \in 1..2}
      BY <1>1, <2>3 DEF Unwritten
    <3> QED
      BY <2>3, <3>1
  <2>6. Live' = {batch[1], batch[2]} \union rest
    BY <1>1, <2>5 DEF Live
  <2>7. /\ content'[batch[1]] = runs[1] /\ content'[batch[2]] = runs[2]
    BY <1>2, <1>9, <2>1, <2>4
  <2>8. Buffered' = Range(runs[1]) \union Range(runs[2]) \union later
    <3>1. Buffered' = Range(content'[batch[1]]) \union Range(content'[batch[2]])
                        \union UNION {Range(content'[b]) : b \in rest}
      BY <2>6 DEF Buffered
    <3>2. UNION {Range(content'[b]) : b \in rest} = later
      BY <1>8
    <3> HIDE DEF runs, later, rest
    <3> QED
      BY <2>7, <3>1, <3>2
  <2>9. IsFiniteSet(Pending)
    <3>1. \A b \in Live : b \in Buf
      BY <1>2, <1>4 DEF Live
    <3>2. \A b \in Live : \A l \in Range(content[b]) : l \in Nat /\ l <= accepted
      <4> SUFFICES ASSUME NEW b \in Buf, NEW l \in Range(content[b]) PROVE l \in Nat /\ l <= accepted
        BY <3>1
      <4>1. content[b] \in Seq(Nat) /\ UpTo(content[b], accepted)
        BY <1>t, <1>2 DEF Chained, BuffersSorted
      <4>2. PICK j \in 1..Len(content[b]) : l = content[b][j]
        BY <4>1 DEF Range
      <4> QED
        BY <4>1, <4>2 DEF UpTo
    <3>3. Buffered \in SUBSET Nat /\ \A l \in Buffered : l <= accepted
      BY <3>2 DEF Buffered
    <3> QED
      BY <1>2, <1>3, <3>3, FS_BoundedSetOfNaturals
  <2>10. \A k \in 1..(m - 1) : Len(runs[k]) >= Capacity
    <3>1. \A k \in 1..(m - 1) : k \in 1..m
      BY <1>2
    <3>2. \A k \in 1..(m - 1) : Len(content[batch[k]]) >= Capacity
      BY <1>t, <1>1 DEF QueueFull
    <3> QED
      BY <3>1, <3>2
  <2>11. CASE Buffered' = Buffered
    BY <1>1, <2>11, QuietRefines
  <2>12. CASE Buffered' # Buffered
    <3> DEFINE before == Pending
               after == Pending'
    <3>1. /\ before = LinesOf(runs, m) \union later
          /\ after = Range(runs[1]) \union Range(runs[2]) \union later
          /\ IsFiniteSet(before) /\ before # after
      BY <1>3, <1>7, <2>8, <2>9, <2>12
    <3> HIDE DEF before, after, runs, later, m
    <3>2. LongBatch(m, runs, Capacity, MaxBuffers, later, before, after)
      BY <1>2, <1>5, <1>6, <1>11, <2>1, <2>10, <3>1 DEF LongBatch
    <3>3. GivesUp(before, after, MaxBuffers * Capacity, 2 * Capacity)
      BY <3>2, LongTrim
    <3>4. lpc # "ended" /\ ((lpc' = "ended") <=> (lpc = "ended"))
          /\ UNCHANGED <<accepted, SubSeq(stdio, 1, synced)>>
      BY <1>1
    <3> QED
      BY <3>3, <3>4 DEF GivesUp, Log!Drop, before, after
  <2> QED
    BY <2>11, <2>12
<1> QED
  BY <1>10, <1>11

\* The other steps move no line, but the end of the thread stops the log.
LEMMA OtherRefines ==
  ASSUME LInv, [Next]_vars,
         ~(AppendToCurrent \/ AppendToNext \/ WriteBuffer \/ Flush \/ Trim)
  PROVE  Log!Stop \/ UNCHANGED Log!vars
<1>t. IInv /\ TypeOK /\ AllFlushed
  BY DEF LInv, IInv
<1>1. CASE Start \/ LatchWait \/ StopFlag \/ StopNotify \/ Join \/ WaitForLines \/ Timeout
           \/ Enter \/ UNCHANGED vars
  <2>1. /\ UNCHANGED <<accepted, stdio, synced, content, buffers, currentBuffer, buffersToWrite, written>>
        /\ lpc' = lpc \/ (lpc # "ended" /\ lpc' # "ended")
    <3>1. CASE Start
      BY <1>t, <3>1 DEF Start, IInv, RunningAtEnter, frontVars, backVars, fileVars
    <3>2. CASE LatchWait \/ StopFlag \/ StopNotify \/ Join \/ WaitForLines \/ Timeout
               \/ Enter \/ UNCHANGED vars
      BY <3>2 DEF LatchWait, StopFlag, StopNotify, Notify, Join, WaitForLines, Timeout, Enter,
         vars, frontVars, backVars, fileVars
    <3> QED
      BY <1>1, <3>1, <3>2
  <2>2. Buffered' = Buffered
    BY <2>1 DEF Buffered, Live, Unwritten
  <2> QED
    BY <2>1, <2>2, QuietRefines
<1>2. CASE CheckRunning
  <2>1. /\ UNCHANGED <<accepted, stdio, content, buffers, currentBuffer, buffersToWrite, written>>
        /\ lpc = "loop"
        /\ \/ lpc' = "lock" /\ synced' = synced
           \/ lpc' = "ended" /\ synced' = Len(stdio)
    BY <1>2 DEF CheckRunning, frontVars, backVars
  <2>2. synced' = synced
    BY <1>t, <2>1 DEF AllFlushed
  <2>3. Buffered' = Buffered
    BY <2>1 DEF Buffered, Live, Unwritten
  <2>4. UNCHANGED <<accepted, Pending, SubSeq(stdio, 1, synced)>>
    BY <2>1, <2>2, <2>3 DEF Pending
  <2> QED
    BY <2>1, <2>4 DEF Log!Stop, Log!vars
<1>3. CASE SwapBuffers
  <2>1. /\ buffers' = <<>> /\ written' = 0 /\ buffersToWrite = <<>> /\ written = 0
        /\ buffersToWrite' = Append(buffers, currentBuffer)
        /\ buffers \in Seq(Buf) /\ currentBuffer \in Buf
        /\ content[currentBuffer'] = <<>> /\ lpc' = "trim"
        /\ UNCHANGED <<content, accepted, stdio, synced>>
    BY <1>t, <1>3, SwapChanges
  <2>2. lpc # "ended"
    BY <1>3 DEF SwapBuffers
  <2>3. Unwritten = {} /\ Range(buffers') = {}
    <3>1. Len(buffersToWrite) = 0
      BY <2>1
    <3> QED
      BY <2>1, <3>1, EmptyRange DEF Unwritten
  <2>4. Unwritten' = Range(buffers) \union {currentBuffer}
    <3>1. Unwritten' = Range(buffersToWrite')
      <4>1. buffersToWrite' \in Seq(Buf)
        BY <2>1
      <4>2. Unwritten' = {buffersToWrite'[i] : i \in 1..Len(buffersToWrite')}
        BY <2>1 DEF Unwritten
      <4> QED
        BY <4>1, <4>2 DEF Range
    <3>2. Range(Append(buffers, currentBuffer)) = Range(buffers) \union {currentBuffer}
      BY <2>1, AppendRange
    <3> QED
      BY <2>1, <3>1, <3>2
  <2>5. Live' = Live \union {currentBuffer'}
    BY <2>3, <2>4 DEF Live
  <2>6. Buffered' = Buffered
    <3>1. Buffered' = UNION {Range(content[b]) : b \in Live \union {currentBuffer'}}
      BY <2>1, <2>5 DEF Buffered
    <3>2. Range(content[currentBuffer']) = {}
      BY <2>1, EmptyRange
    <3> QED
      BY <3>1, <3>2 DEF Buffered
  <2> QED
    BY <2>1, <2>2, <2>6, QuietRefines
<1>4. CASE Recycle
  <2>1. /\ UNCHANGED <<currentBuffer, buffers, accepted, stdio, synced>>
        /\ \A b \in Range(buffers) \union {currentBuffer} : content'[b] = content[b]
    BY <1>t, <1>4, BatchChanges
  <2>2. /\ written = Len(buffersToWrite) /\ buffersToWrite' = <<>> /\ written' = 0
        /\ lpc = "write" /\ lpc' = "flush"
    BY <1>4 DEF Recycle
  <2>3. Len(buffersToWrite) \in Nat /\ Len(buffersToWrite') = 0
    BY <1>t, <2>2 DEF TypeOK
  <2>4. Unwritten = {} /\ Unwritten' = {}
    BY <2>2, <2>3 DEF Unwritten
  <2>5. Live' = Live /\ \A b \in Live : content'[b] = content[b]
    BY <2>1, <2>4 DEF Live
  <2>6. Buffered' = Buffered
    BY <2>5 DEF Buffered
  <2> QED
    BY <2>1, <2>2, <2>6, QuietRefines
<1> QED
  BY <1>1, <1>2, <1>3, <1>4 DEF Next, LogStep

\* Nothing is pending when the log is constructed.
LEMMA LogInit == Init => Log!Init
<1> SUFFICES ASSUME Init PROVE Log!Init
  OBVIOUS
<1>1. /\ currentBuffer \in Buf /\ buffers = <<>> /\ content = [b \in Buf |-> <<>>]
      /\ accepted = 0 /\ buffersToWrite = <<>> /\ written = 0 /\ stdio = <<>> /\ synced = 0
      /\ lpc = "none"
  BY DEF Init, NewBuffer
<1>2. Live = {currentBuffer}
  <2>1. Len(buffersToWrite) = 0
    BY <1>1
  <2> QED
    BY <1>1, <2>1, EmptyRange DEF Live, Unwritten
<1>3. Buffered = {}
  BY <1>1, <1>2, EmptyRange DEF Buffered
<1>4. SubSeq(stdio, synced + 1, Len(stdio)) = <<>> /\ SubSeq(stdio, 1, synced) = <<>>
  <2>1. Len(stdio) = 0 /\ synced = 0
    BY <1>1
  <2> QED
    BY <2>1, SubSeqEmpty
<1>5. Pending = {}
  BY <1>3, <1>4, EmptyRange DEF Pending
<1> QED
  BY <1>1, <1>4, <1>5 DEF Log!Init

\* The log implements LossyLog: lines reach the file in the order of acceptance and each at
\* most once, and only the trim gives lines up, when the backlog has more than MaxBuffers
\* buffers, of which it keeps the two oldest.
THEOREM KeepsPromise == SafeSpec => Log!SafeSpec
<1>1. LInv /\ LInv' /\ [Next]_vars => [Log!Next]_(Log!vars)
  <2> SUFFICES ASSUME LInv, LInv', [Next]_vars PROVE Log!Next \/ UNCHANGED Log!vars
    OBVIOUS
  <2>1. IInv /\ Chained
    BY DEF LInv
  <2>2. CASE AppendToCurrent \/ AppendToNext
    BY <2>1, <2>2, AppendRefines DEF Log!Next
  <2>3. CASE WriteBuffer \/ Flush
    BY <2>3, WriteRefines DEF Log!Next
  <2>4. CASE Trim
    BY <2>4, TrimRefines DEF Log!Next
  <2>5. CASE ~(AppendToCurrent \/ AppendToNext \/ WriteBuffer \/ Flush \/ Trim)
    BY <2>5, OtherRefines DEF Log!Next
  <2> QED
    BY <2>2, <2>3, <2>4, <2>5
<1> QED
  BY <1>1, LInvInit, LInvStep, LogInit, PTL DEF SafeSpec, Log!SafeSpec
=============================================================================
