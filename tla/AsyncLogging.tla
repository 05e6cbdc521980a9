---------------------------- MODULE AsyncLogging ----------------------------
(***************************************************************************)
(* deon/base/AsyncLogging with the LogFile and the FileUtil it writes to:  *)
(* the threads that call append(), the logging thread, and the thread that *)
(* starts and stops it.                                                    *)
(*                                                                         *)
(* Buffers have an identity, because shared_ptrs to them are moved around: *)
(* the contents of a buffer change for every variable that refers to it.   *)
(* A line is its number in the order of acceptance and fills a fixed share *)
(* of a buffer.  Critical sections of mutex_ are single actions.           *)
(***************************************************************************)
EXTENDS Naturals, Sequences, SequencesExt

CONSTANTS
  Buf,          \* the buffers `new' can return, as numbers
  NoBuf,        \* the null BufferPtr
  Capacity,     \* how many lines append() puts in a buffer
  MaxBuffers,   \* buffersToWrite is trimmed when it is longer (25 in the code)
  FlushEveryN,  \* LogFile::flushEveryN_
  MaxLines      \* bound: how many lines are logged

ASSUME BufAssumption == Buf \subseteq Nat /\ NoBuf \notin Buf
ASSUME SizeAssumption ==
  /\ Capacity \in Nat \ {0}
  /\ MaxBuffers \in Nat /\ MaxBuffers >= 2
  /\ FlushEveryN \in Nat \ {0}
  /\ MaxLines \in Nat

VARIABLES
  spc,             \* the thread that starts and stops the log
  running,         \* running_
  lpc,             \* where the logging thread is
  currentBuffer,   \* currentBuffer_
  nextBuffer,      \* nextBuffer_
  buffers,         \* buffers_
  content,         \* the lines in each buffer
  accepted,        \* how many lines append() took
  newBuffer1,      \* the locals of threadFunc
  newBuffer2,
  buffersToWrite,
  written,         \* how many of buffersToWrite are written
  count,           \* LogFile::count_
  stdio,           \* the lines handed to fwrite
  synced           \* how many of them are in the file

frontVars == <<currentBuffer, nextBuffer, buffers, accepted>>
backVars == <<newBuffer1, newBuffer2, buffersToWrite, written>>
fileVars == <<count, stdio, synced>>
vars == <<spc, running, lpc, content, frontVars, backVars, fileVars>>

\* The buffers some BufferPtr refers to.
InUse ==
  ({currentBuffer, nextBuffer, newBuffer1, newBuffer2} \ {NoBuf})
    \union Range(buffers) \union Range(buffersToWrite)

\* `new Buffer' returns b, a buffer that is not in use: the lowest, which only names it.
NewBuffer(b, used) == b \in Buf \ used /\ \A c \in Buf \ used : b <= c

Init ==
  /\ spc = "new"
  /\ running = FALSE
  /\ lpc = "none"
  /\ NewBuffer(currentBuffer, {})
  /\ NewBuffer(nextBuffer, {currentBuffer})
  /\ buffers = <<>>
  /\ content = [b \in Buf |-> <<>>]
  /\ accepted = 0
  /\ newBuffer1 = NoBuf
  /\ newBuffer2 = NoBuf
  /\ buffersToWrite = <<>>
  /\ written = 0
  /\ count = 0
  /\ stdio = <<>>
  /\ synced = 0

-----------------------------------------------------------------------------
(* start() and stop()                                                      *)

\* running_ is set before the thread exists.
Start ==
  /\ spc = "new"
  /\ running' = TRUE
  /\ lpc' = "enter"
  /\ spc' = "latch"
  /\ UNCHANGED <<content, frontVars, backVars, fileVars>>

\* latch_.wait() returns once the logging thread counted down.
LatchWait ==
  /\ spc = "latch"
  /\ lpc # "enter"
  /\ spc' = "started"
  /\ UNCHANGED <<running, lpc, content, frontVars, backVars, fileVars>>

\* stop() writes running_ and notifies without taking mutex_.
StopFlag ==
  /\ spc = "started"
  /\ running' = FALSE
  /\ spc' = "stopping"
  /\ UNCHANGED <<lpc, content, frontVars, backVars, fileVars>>

\* cond_.notify() wakes the logging thread if it waits and is lost otherwise.
Notify == lpc' = IF lpc = "waiting" THEN "awake" ELSE lpc

StopNotify ==
  /\ spc = "stopping"
  /\ Notify
  /\ spc' = "join"
  /\ UNCHANGED <<running, content, frontVars, backVars, fileVars>>

Join ==
  /\ spc = "join"
  /\ lpc = "ended"
  /\ spc' = "joined"
  /\ UNCHANGED <<running, lpc, content, frontVars, backVars, fileVars>>

-----------------------------------------------------------------------------
(* append(), from any thread: output() calls it once start() returned      *)

CanAppend ==
  /\ spc \in {"started", "stopping", "join"}
  /\ accepted < MaxLines

AppendToCurrent ==
  /\ CanAppend
  /\ Len(content[currentBuffer]) < Capacity
  /\ content' = [content EXCEPT ![currentBuffer] = Append(@, accepted + 1)]
  /\ accepted' = accepted + 1
  /\ UNCHANGED <<spc, running, lpc, currentBuffer, nextBuffer, buffers, backVars, fileVars>>

\* Mutant: no new buffer when nextBuffer_ is null.
AppendToNextOnly ==
  /\ CanAppend
  /\ Len(content[currentBuffer]) >= Capacity
  /\ buffers' = Append(buffers, currentBuffer)
  /\ currentBuffer' = nextBuffer
  /\ nextBuffer' = NoBuf
  /\ content' = [content EXCEPT ![nextBuffer] = Append(@, accepted + 1)]
  /\ accepted' = accepted + 1
  /\ Notify
  /\ UNCHANGED <<spc, running, backVars, fileVars>>

\* Mutant: the full buffer is queued without a notify.
AppendToNextSilently ==
  /\ CanAppend
  /\ Len(content[currentBuffer]) >= Capacity
  /\ buffers' = Append(buffers, currentBuffer)
  /\ \E b \in Buf :
       /\ IF nextBuffer # NoBuf THEN b = nextBuffer ELSE NewBuffer(b, InUse)
       /\ currentBuffer' = b
       /\ content' = [content EXCEPT ![b] = Append(@, accepted + 1)]
  /\ nextBuffer' = NoBuf
  /\ accepted' = accepted + 1
  /\ UNCHANGED <<spc, running, lpc, backVars, fileVars>>

\* The current buffer is full: queue it, take nextBuffer_ or a new one, notify.
AppendToNext ==
  /\ CanAppend
  /\ Len(content[currentBuffer]) >= Capacity
  /\ buffers' = Append(buffers, currentBuffer)
  /\ \E b \in Buf :
       /\ IF nextBuffer # NoBuf THEN b = nextBuffer ELSE NewBuffer(b, InUse)
       /\ currentBuffer' = b
       /\ content' = [content EXCEPT ![b] = Append(@, accepted + 1)]
  /\ nextBuffer' = NoBuf
  /\ accepted' = accepted + 1
  /\ Notify
  /\ UNCHANGED <<spc, running, backVars, fileVars>>

-----------------------------------------------------------------------------
(* The logging thread                                                      *)

Enter ==
  /\ lpc = "enter"
  /\ \E b1 \in Buf, b2 \in Buf :
       /\ NewBuffer(b1, InUse) /\ newBuffer1' = b1
       /\ NewBuffer(b2, InUse \union {b1}) /\ newBuffer2' = b2
  /\ lpc' = "loop"
  /\ UNCHANGED <<spc, running, content, frontVars, buffersToWrite, written, fileVars>>

\* while(running_), with the flush after the loop.
CheckRunning ==
  /\ lpc = "loop"
  /\ IF running
       THEN lpc' = "lock" /\ UNCHANGED synced
       ELSE lpc' = "ended" /\ synced' = Len(stdio)
  /\ UNCHANGED <<spc, running, content, frontVars, backVars, count, stdio>>

WaitForLines ==
  /\ lpc = "lock"
  /\ buffers = <<>>
  /\ lpc' = "waiting"
  /\ UNCHANGED <<spc, running, content, frontVars, backVars, fileVars>>

\* Mutant: the wait has no time limit.
NoTimeout == FALSE /\ UNCHANGED vars

\* waitForSeconds() times out, or returns without a reason: the code does not look.
Timeout ==
  /\ lpc = "waiting"
  /\ lpc' = "awake"
  /\ UNCHANGED <<spc, running, content, frontVars, backVars, fileVars>>

\* Mutant: the current buffer is put ahead of the buffers that filled before it.
SwapCurrentFirst ==
  /\ lpc = "awake" \/ (lpc = "lock" /\ buffers # <<>>)
  /\ buffersToWrite' = <<currentBuffer>> \o buffers
  /\ buffers' = buffersToWrite
  /\ currentBuffer' = newBuffer1
  /\ newBuffer1' = NoBuf
  /\ IF nextBuffer = NoBuf
       THEN nextBuffer' = newBuffer2 /\ newBuffer2' = NoBuf
       ELSE UNCHANGED <<nextBuffer, newBuffer2>>
  /\ lpc' = "trim"
  /\ UNCHANGED <<spc, running, content, accepted, written, fileVars>>

\* The rest of the critical section.
SwapBuffers ==
  /\ lpc = "awake" \/ (lpc = "lock" /\ buffers # <<>>)
  /\ buffersToWrite' = Append(buffers, currentBuffer)
  /\ buffers' = buffersToWrite
  /\ currentBuffer' = newBuffer1
  /\ newBuffer1' = NoBuf
  /\ IF nextBuffer = NoBuf
       THEN nextBuffer' = newBuffer2 /\ newBuffer2' = NoBuf
       ELSE UNCHANGED <<nextBuffer, newBuffer2>>
  /\ lpc' = "trim"
  /\ UNCHANGED <<spc, running, content, accepted, written, fileVars>>

\* A buffer that is given up or reset is empty when it is used again.
Emptied(bufs) == [b \in Buf |-> IF b \in bufs THEN <<>> ELSE content[b]]

\* Mutant: only the first buffer is kept.
TrimToOne ==
  /\ lpc = "trim"
  /\ buffersToWrite' = IF Len(buffersToWrite) > MaxBuffers
                         THEN SubSeq(buffersToWrite, 1, 1) ELSE buffersToWrite
  /\ content' = Emptied(Range(buffersToWrite) \ Range(buffersToWrite'))
  /\ lpc' = "write"
  /\ UNCHANGED <<spc, running, frontVars, newBuffer1, newBuffer2, written, fileVars>>

\* Too many buffers are waiting: only the first two are kept.
Trim ==
  /\ lpc = "trim"
  /\ buffersToWrite' = IF Len(buffersToWrite) > MaxBuffers
                         THEN SubSeq(buffersToWrite, 1, 2) ELSE buffersToWrite
  /\ content' = Emptied(Range(buffersToWrite) \ Range(buffersToWrite'))
  /\ lpc' = "write"
  /\ UNCHANGED <<spc, running, frontVars, newBuffer1, newBuffer2, written, fileVars>>

\* LogFile::append of one buffer: fwrite puts it in the stdio buffer, from which any
\* part may go to the file; every FlushEveryN appends all of it does.
WriteBuffer ==
  /\ lpc = "write"
  /\ written < Len(buffersToWrite)
  /\ stdio' = stdio \o content[buffersToWrite[written + 1]]
  /\ written' = written + 1
  /\ count' = (count + 1) % FlushEveryN
  /\ synced' \in IF count' = 0 THEN {Len(stdio')} ELSE synced..Len(stdio')
  /\ UNCHANGED <<spc, running, lpc, content, frontVars, newBuffer1, newBuffer2, buffersToWrite>>

\* Mutant: the buffer given to newBuffer1 is not taken off buffersToWrite.
RecycleOneTwice ==
  /\ lpc = "write"
  /\ written = Len(buffersToWrite)
  /\ LET kept == IF Len(buffersToWrite) > 2 THEN 2 ELSE Len(buffersToWrite)
     IN  /\ newBuffer1' = IF newBuffer1 = NoBuf THEN buffersToWrite[kept] ELSE newBuffer1
         /\ newBuffer2' = IF newBuffer2 = NoBuf THEN buffersToWrite[kept] ELSE newBuffer2
  /\ content' = Emptied(Range(buffersToWrite))
  /\ buffersToWrite' = <<>>
  /\ written' = 0
  /\ lpc' = "flush"
  /\ UNCHANGED <<spc, running, frontVars, fileVars>>

\* The last of the first two written buffers goes to newBuffer1, the one before it to
\* newBuffer2 if that was given away too; the others are freed.
Recycle ==
  /\ lpc = "write"
  /\ written = Len(buffersToWrite)
  /\ LET kept == IF Len(buffersToWrite) > 2 THEN 2 ELSE Len(buffersToWrite)
         left == IF newBuffer1 = NoBuf THEN kept - 1 ELSE kept
     IN  /\ newBuffer1' = IF newBuffer1 = NoBuf THEN buffersToWrite[kept] ELSE newBuffer1
         /\ newBuffer2' = IF newBuffer2 = NoBuf THEN buffersToWrite[left] ELSE newBuffer2
  /\ content' = Emptied(Range(buffersToWrite))
  /\ buffersToWrite' = <<>>
  /\ written' = 0
  /\ lpc' = "flush"
  /\ UNCHANGED <<spc, running, frontVars, fileVars>>

Flush ==
  /\ lpc = "flush"
  /\ synced' = Len(stdio)
  /\ lpc' = "loop"
  /\ UNCHANGED <<spc, running, content, frontVars, backVars, count, stdio>>

-----------------------------------------------------------------------------
LogStep ==
  \/ Enter \/ CheckRunning \/ WaitForLines \/ SwapBuffers \/ Trim \/ WriteBuffer
  \/ Recycle \/ Flush

Next ==
  \/ Start \/ LatchWait \/ StopFlag \/ StopNotify \/ Join
  \/ AppendToCurrent \/ AppendToNext
  \/ LogStep \/ Timeout

SafeSpec == Init /\ [][Next]_vars

\* The logging thread is scheduled, its wait is timed, and a thread that began to start
\* or stop the log goes on.
Spec ==
  /\ SafeSpec
  /\ WF_vars(LogStep)
  /\ WF_vars(Timeout)
  /\ WF_vars(LatchWait \/ StopNotify \/ Join)

-----------------------------------------------------------------------------
LogPcs == {"none", "enter", "loop", "lock", "waiting", "awake", "trim", "write", "flush",
           "ended"}

StopPcs == {"new", "latch", "started", "stopping", "join", "joined"}

\* The variables keep to their ranges; append() always has a current buffer.
TypeOK ==
  /\ spc \in StopPcs
  /\ running \in BOOLEAN
  /\ lpc \in LogPcs
  /\ currentBuffer \in Buf
  /\ {nextBuffer, newBuffer1, newBuffer2} \subseteq Buf \union {NoBuf}
  /\ buffers \in Seq(Buf)
  /\ buffersToWrite \in Seq(Buf)
  /\ content \in [Buf -> Seq(Nat)]
  /\ accepted \in Nat
  /\ written \in 0..Len(buffersToWrite)
  /\ count \in Nat
  /\ stdio \in Seq(Nat)
  /\ synced \in 0..Len(stdio)

\* No two BufferPtrs that are live at the same time refer to one buffer: the logging
\* thread writes and resets its buffers without mutex_, and that is a race with
\* append() as soon as one is shared.
SingleOwner ==
  /\ IsInjective(buffers) /\ IsInjective(buffersToWrite)
  /\ Range(buffers) \intersect Range(buffersToWrite) = {}
  /\ \A b \in {currentBuffer, nextBuffer, newBuffer1, newBuffer2} :
       b \notin Range(buffers) \union Range(buffersToWrite)
  /\ currentBuffer \notin {nextBuffer, newBuffer1, newBuffer2}
  /\ nextBuffer # NoBuf => nextBuffer \notin {newBuffer1, newBuffer2}
  /\ newBuffer1 # NoBuf => newBuffer1 # newBuffer2

\* The assertions of threadFunc hold: in particular two written buffers are at hand
\* whenever both spare buffers were given away, and a reset buffer is empty.
AssertsHold ==
  /\ lpc = "enter" => running
  /\ lpc = "lock" => /\ newBuffer1 # NoBuf /\ content[newBuffer1] = <<>>
                     /\ newBuffer2 # NoBuf /\ content[newBuffer2] = <<>>
                     /\ buffersToWrite = <<>>
  /\ lpc = "trim" => buffersToWrite # <<>>
  /\ lpc = "write" =>
       /\ newBuffer1 = NoBuf \/ newBuffer2 = NoBuf => Len(buffersToWrite) >= 1
       /\ newBuffer1 = NoBuf /\ newBuffer2 = NoBuf => Len(buffersToWrite) >= 2

\* The logging thread waits only while no full buffer is queued: the notify of append()
\* cannot fall between its look at buffers_ and its wait, and the timeout is not needed
\* to get full buffers written.
WaitsWhenEmpty == lpc = "waiting" => buffers = <<>>

\* What was handed to fwrite is in the order in which append() accepted it, and no line
\* is in it twice, although buffers are queued, swapped, given up and reused between.
LinesInOrder == \A i, j \in 1..Len(stdio) : i < j => stdio[i] < stdio[j]

\* The buffers of the batch that are not written yet.
Unwritten == {buffersToWrite[i] : i \in (written + 1)..Len(buffersToWrite)}

\* The buffers whose lines are still to be written.
Live == Unwritten \union Range(buffers) \union {currentBuffer}

Buffered == UNION {Range(content[b]) : b \in Live}

\* The lines on their way to the file: in stdio's buffer, or not written yet.
Pending == Range(SubSeq(stdio, synced + 1, Len(stdio))) \union Buffered

Log == INSTANCE LossyLog
         WITH pending <- Pending, file <- SubSeq(stdio, 1, synced),
              stopped <- (lpc = "ended"),
              Overload <- MaxBuffers * Capacity, Kept <- 2 * Capacity

\* Lines reach the file in the order of acceptance, each at most once; none is given
\* up but by the trim at more than MaxBuffers buffers, which keeps the two oldest;
\* and while the log is not stopped they do reach it.
ImplementsLog == Log!Spec

\* stop() returns, although its notify is not protected by mutex_ and may be lost.
StopReturns == spc = "stopping" ~> spc = "joined"
=============================================================================
