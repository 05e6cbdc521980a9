------------------------------ MODULE HttpConn ------------------------------
(***************************************************************************)
(* One client connection: the Http object on its I/O loop, the channel it  *)
(* re-arms after every event, and the peer at the other end of the socket. *)
(*                                                                         *)
(* A request is a sequence of parts: the two halves of its request line,   *)
(* its header block and, for some POSTs, its body; a part is <<r, p>>.  A  *)
(* response to request r is two units r, an error response is one unit 0,  *)
(* and stray bytes are a unit StrayBytes.  The steps of handleRead between *)
(* two system calls are actions of their own; the peer may act in between. *)
(* HEAD is treated like GET; timers are in ConnTimers.                     *)
(***************************************************************************)
EXTENDS Naturals, Sequences

CONSTANTS
  Kinds,         \* the kinds of request the peer makes, a subset of AllKinds
  Allowed,       \* what the peer and the network may do, a subset of AllBehaviours
  MaxRequests    \* bound: how many requests the peer makes

AllKinds == {"get", "hello", "missing", "badLine", "badHeader", "post", "postBody"}

\* pipeline: a request may start before the last one is answered; halfClose: the peer
\* may shut down its side before it has its answers; partial: the send buffer may be
\* full; reset: the peer may reset the connection.
AllBehaviours == {"pipeline", "halfClose", "partial", "reset"}

ASSUME KindsAssumption == Kinds \subseteq AllKinds /\ Kinds # {}
ASSUME AllowedAssumption == Allowed \subseteq AllBehaviours
ASSUME MaxAssumption == MaxRequests \in Nat

VARIABLES
  kinds,     \* the kinds of the requests begun, in order
  parts,     \* how many parts of the last of them were sent
  fin,       \* the peer shut down its side
  reset,     \* the peer reset the connection
  pipelined, \* history: a request began before the last one was answered
  inbox,     \* the parts in the socket's receive buffer
  wire,      \* the units written to the socket
  pc,        \* where the loop's thread is with this connection
  armed,     \* what the channel is registered for
  outEvent,  \* EPOLLOUT is in the channel's event mask
  err,       \* err_
  connected, \* isConnecting_
  state,     \* state_
  request,   \* the number of the request whose line was parsed last, or 0
  input,     \* inputBuffer_
  output     \* outputBuffer_

peerVars == <<kinds, parts, fin, reset, pipelined>>
parseVars == <<state, request>>
vars == <<peerVars, inbox, wire, pc, armed, outEvent, err, connected, parseVars, input, output>>

Init ==
  /\ kinds = <<>> /\ parts = 0 /\ fin = FALSE /\ reset = FALSE /\ pipelined = FALSE
  /\ inbox = <<>>
  /\ wire = <<>>
  /\ pc = "wait"
  /\ armed = "in"
  /\ outEvent = FALSE
  /\ err = FALSE
  /\ connected = TRUE
  /\ state = "line"
  /\ request = 0
  /\ input = <<>>
  /\ output = <<>>

-----------------------------------------------------------------------------
(* The peer                                                                *)

PartsOf(kind) == CASE kind = "badLine" -> 2 [] kind = "postBody" -> 4 [] OTHER -> 3

\* Request r has been sent in full.
Complete(r) == r < Len(kinds) \/ (r = Len(kinds) /\ parts = PartsOf(kinds[r]))

\* All of the response to request r has been written.
Answered(r) == \E i \in 2..Len(wire) : wire[i] = r /\ wire[i - 1] = r

AllAnswered == \A r \in 1..Len(kinds) : Answered(r)

Alive == ~fin /\ ~reset /\ pc # "closed"

BeginRequest ==
  /\ Alive
  /\ Len(kinds) < MaxRequests
  /\ Len(kinds) > 0 => Complete(Len(kinds))
  /\ AllAnswered \/ "pipeline" \in Allowed
  /\ \E k \in Kinds : kinds' = Append(kinds, k)
  /\ parts' = 1
  /\ pipelined' = (pipelined \/ ~AllAnswered)
  /\ inbox' = Append(inbox, <<Len(kinds) + 1, 1>>)
  /\ UNCHANGED <<fin, reset, wire, pc, armed, outEvent, err, connected, parseVars, input, output>>

SendPart ==
  /\ Alive
  /\ Len(kinds) > 0 /\ ~Complete(Len(kinds))
  /\ parts' = parts + 1
  /\ inbox' = Append(inbox, <<Len(kinds), parts + 1>>)
  /\ UNCHANGED <<kinds, fin, reset, pipelined, wire, pc, armed, outEvent, err, connected, parseVars,
                 input, output>>

SendFin ==
  /\ Alive
  /\ AllAnswered \/ "halfClose" \in Allowed
  /\ fin' = TRUE
  /\ UNCHANGED <<kinds, parts, reset, pipelined, inbox, wire, pc, armed, outEvent, err, connected,
                 parseVars, input, output>>

Reset ==
  /\ "reset" \in Allowed
  /\ ~reset /\ pc # "closed"
  /\ reset' = TRUE
  /\ UNCHANGED <<kinds, parts, fin, pipelined, inbox, wire, pc, armed, outEvent, err, connected,
                 parseVars, input, output>>

-----------------------------------------------------------------------------
(* Events of the channel.  It is registered anew after each one, so that an *)
(* edge-triggered registration reports what is ready at that moment too.   *)

ReadEvent ==
  /\ pc = "wait" /\ armed = "in"
  /\ inbox # <<>> \/ fin \/ reset
  /\ pc' = "read"
  /\ UNCHANGED <<peerVars, inbox, wire, armed, outEvent, err, connected, parseVars, input, output>>

WriteEvent ==
  /\ pc = "wait" /\ armed = "out"
  /\ pc' = "write"
  /\ UNCHANGED <<peerVars, inbox, wire, armed, outEvent, err, connected, parseVars, input, output>>

-----------------------------------------------------------------------------
(* handleRead                                                              *)

\* err_ is set, and then handleError is called.
Fail == err' = TRUE /\ pc' = "error"

\* Mutant: the end of the stream is taken for a read of no data.
ReadIgnoringFin ==
  /\ pc = "read"
  /\ IF reset
       THEN Fail /\ UNCHANGED <<inbox, input>>
       ELSE /\ input' = input \o inbox
            /\ inbox' = <<>>
            /\ pc' = IF inbox = <<>> THEN "answer" ELSE "parse"
            /\ UNCHANGED err
  /\ UNCHANGED <<peerVars, wire, armed, outEvent, connected, parseVars, output>>

\* readn() takes what is there.  An error, or the end of the stream after any data, or
\* EAGAIN before any data, leave the loop.
Read ==
  /\ pc = "read"
  /\ IF reset
       THEN Fail /\ UNCHANGED <<inbox, input, connected>>
       ELSE /\ input' = input \o inbox
            /\ inbox' = <<>>
            /\ connected' = ~fin
            /\ pc' = IF fin \/ inbox = <<>> THEN "answer" ELSE "parse"
            /\ UNCHANGED err
  /\ UNCHANGED <<peerVars, wire, armed, outEvent, parseVars, output>>

Again ==
  /\ pc' = "answer"
  /\ UNCHANGED <<peerVars, inbox, wire, armed, outEvent, err, connected, parseVars, input, output>>

\* parseRequestLine: AGAIN without the end of the line.
ParseLine ==
  /\ pc = "parse" /\ state = "line"
  /\ IF Len(input) < 2
       THEN Again
       ELSE /\ input' = SubSeq(input, 3, Len(input))
            /\ request' = input[1][1]
            /\ IF kinds[request'] = "badLine"
                 THEN Fail /\ UNCHANGED state
                 ELSE state' = "headers" /\ UNCHANGED <<pc, err>>
            /\ UNCHANGED <<peerVars, inbox, wire, armed, outEvent, connected, output>>

\* parseRequestHeader: a header block arrives whole here (HeaderParser splits it).
ParseHeaders ==
  /\ pc = "parse" /\ state = "headers"
  /\ IF input = <<>>
       THEN Again
       ELSE /\ input' = Tail(input)
            /\ IF kinds[request] = "badHeader"
                 THEN Fail /\ UNCHANGED state
                 ELSE /\ state' = IF kinds[request] \in {"post", "postBody"}
                                    THEN "length" ELSE "analysis"
                      /\ UNCHANGED <<pc, err>>
            /\ UNCHANGED <<peerVars, inbox, wire, armed, outEvent, connected, request, output>>

\* Mutant: a missing body does not leave the loop.
CheckLengthAgain ==
  /\ pc = "parse" /\ state = "length"
  /\ kinds[request] = "post" \/ input # <<>>
  /\ IF kinds[request] = "post"
       THEN Fail /\ UNCHANGED state
       ELSE state' = "analysis" /\ UNCHANGED <<pc, err>>
  /\ UNCHANGED <<peerVars, inbox, wire, armed, outEvent, connected, request, input, output>>

\* Content-length is looked up; the body itself stays in the input buffer.
CheckLength ==
  /\ pc = "parse" /\ state = "length"
  /\ \/ /\ kinds[request] = "post"
        /\ Fail
        /\ UNCHANGED state
     \/ /\ kinds[request] = "postBody" /\ input # <<>>
        /\ state' = "analysis"
        /\ UNCHANGED <<pc, err>>
     \/ /\ kinds[request] = "postBody" /\ input = <<>>
        /\ pc' = "answer"
        /\ UNCHANGED <<state, err>>
  /\ UNCHANGED <<peerVars, inbox, wire, armed, outEvent, connected, request, input, output>>

\* analysisRequest: a file is appended to the output buffer, "hello" replaces the buffer,
\* a missing file (missing already at stat(), or only at open(), when the response line
\* is in the buffer) gets an error response before err_ is set, and POST nothing but err_.
Analysis ==
  /\ pc = "parse" /\ state = "analysis"
  /\ \/ /\ kinds[request] \in {"get", "hello"}
        /\ output' = (IF kinds[request] = "get" THEN output ELSE <<>>) \o <<request, request>>
        /\ state' = "finish"
        /\ pc' = "answer"
        /\ UNCHANGED err
     \/ /\ kinds[request] = "missing"
        /\ output' \in {output, Append(output, request)}
        /\ pc' = "error"
        /\ UNCHANGED <<state, err>>
     \/ /\ kinds[request] = "postBody"
        /\ err' = TRUE
        /\ pc' = "answer"
        /\ UNCHANGED <<state, output>>
  /\ UNCHANGED <<peerVars, inbox, wire, armed, outEvent, connected, request, input>>

StrayBytes == MaxRequests + 1

\* The error response is written and handleRead leaves its loop, with err_ set at last.
ErrorWritten ==
  /\ err' = TRUE
  /\ pc' = "answer"
  /\ UNCHANGED <<peerVars, inbox, armed, outEvent, connected, parseVars, input, output>>

\* handleError: writen(void*) returns once everything is written.  It counts a failed
\* write as -1 bytes and tries again at once, with what lies before its buffer.
HandleError ==
  /\ pc = "error"
  /\ \/ ~reset /\ wire' = Append(wire, 0) /\ ErrorWritten
     \/ /\ reset \/ "partial" \in Allowed
        /\ pc' = "stuck"
        /\ UNCHANGED <<peerVars, inbox, wire, armed, outEvent, err, connected, parseVars,
                       input, output>>

\* The peer makes room while writen(void*) spins on EAGAIN: the bytes before the buffer
\* are sent too.  No peer has to, and no room helps once the connection is broken.
WindowOpens ==
  /\ pc = "stuck" /\ ~reset
  /\ wire' = wire \o <<StrayBytes, 0>>
  /\ ErrorWritten

\* Mutant: what was written stays in the output buffer.
WriteKeeping(least) ==
  /\ IF err \/ ~connected
       THEN UNCHANGED <<wire, output, err, outEvent>>
       ELSE /\ \E n \in least..Len(output) : wire' = wire \o SubSeq(output, 1, n)
            /\ outEvent' = TRUE
            /\ UNCHANGED <<err, output>>
  /\ UNCHANGED <<peerVars, inbox, armed, connected, parseVars, input>>

\* handleWrite: at least the given number of units fit in the send buffer.
HandleWrite(least) ==
  /\ IF err \/ ~connected
       THEN UNCHANGED <<wire, output, err, outEvent>>
       ELSE IF reset /\ output # <<>>
              THEN /\ err' = TRUE
                   /\ outEvent' = TRUE
                   /\ UNCHANGED <<wire, output>>
              ELSE /\ UNCHANGED err
                   /\ \E n \in least..Len(output) :
                        /\ wire' = wire \o SubSeq(output, 1, n)
                        /\ output' = SubSeq(output, n + 1, Len(output))
                        /\ outEvent' = (outEvent \/ n < Len(output))
  /\ UNCHANGED <<peerVars, inbox, armed, connected, parseVars, input>>

\* Mutant: writing is put off while there is more input.
AnswerLater ==
  /\ pc = "answer"
  /\ IF err \/ input # <<>>
       THEN /\ pc' = IF err THEN "register" ELSE "restart"
            /\ UNCHANGED <<peerVars, inbox, wire, armed, outEvent, err, connected, parseVars,
                           input, output>>
       ELSE /\ pc' = "restart"
            /\ HandleWrite(IF "partial" \in Allowed THEN 0 ELSE Len(output))

Answer ==
  /\ pc = "answer"
  /\ IF err
       THEN pc' = "register" /\ UNCHANGED <<peerVars, inbox, wire, armed, outEvent, err,
                                            connected, parseVars, input, output>>
       ELSE /\ pc' = "restart"
            /\ HandleWrite(IF "partial" \in Allowed THEN 0 ELSE Len(output))

\* Mutant: the parser is not set back for the next request.
RestartNoInit ==
  /\ pc = "restart"
  /\ pc' = "register"
  /\ UNCHANGED <<peerVars, inbox, wire, armed, outEvent, err, connected, parseVars, input, output>>

\* A request was answered: initParse, and handleRead again if there is more input.
Restart ==
  /\ pc = "restart"
  /\ IF ~err /\ state = "finish"
       THEN /\ state' = "line"
            /\ pc' = IF connected /\ input # <<>> THEN "read" ELSE "register"
       ELSE /\ pc' = "register"
            /\ UNCHANGED state
  /\ UNCHANGED <<peerVars, inbox, wire, armed, outEvent, err, connected, request, input, output>>

\* The write callback of an EPOLLOUT event: there is room for something.
Write ==
  /\ pc = "write"
  /\ pc' = "register"
  /\ HandleWrite(IF output = <<>> THEN 0 ELSE 1)

-----------------------------------------------------------------------------
(* handleRegister and handleClose                                          *)

\* Mutant: err_ does not close the connection.
RegisterAnyway ==
  /\ pc = "register"
  /\ IF connected
       THEN pc' = "wait" /\ armed' = IF outEvent THEN "out" ELSE "in"
       ELSE pc' = "closed" /\ UNCHANGED armed
  /\ UNCHANGED <<peerVars, inbox, wire, outEvent, err, connected, parseVars, input, output>>

\* Mutant: the mask is cleared and EPOLLIN is not added again.
RegisterOutOnly ==
  /\ pc = "register"
  /\ IF ~err /\ connected
       THEN pc' = "wait" /\ armed' = IF outEvent THEN "out" ELSE "none"
       ELSE pc' = "closed" /\ UNCHANGED armed
  /\ UNCHANGED <<peerVars, inbox, wire, outEvent, err, connected, parseVars, input, output>>

\* The mask is cleared and set to EPOLLOUT if it had EPOLLOUT, else to EPOLLIN: a
\* channel that once asked for EPOLLOUT keeps to it.
HandleRegister ==
  /\ pc = "register"
  /\ IF ~err /\ connected
       THEN pc' = "wait" /\ armed' = IF outEvent THEN "out" ELSE "in"
       ELSE pc' = "closed" /\ UNCHANGED armed
  /\ UNCHANGED <<peerVars, inbox, wire, outEvent, err, connected, parseVars, input, output>>

-----------------------------------------------------------------------------
ServerStep ==
  \/ ReadEvent \/ WriteEvent
  \/ Read \/ ParseLine \/ ParseHeaders \/ CheckLength \/ Analysis
  \/ HandleError \/ Answer \/ Restart \/ Write \/ HandleRegister

Next == ServerStep \/ WindowOpens \/ BeginRequest \/ SendPart \/ SendFin \/ Reset

SafeSpec == Init /\ [][Next]_vars

\* The loop's thread is scheduled and epoll reports what is ready.  A response that is in
\* the output buffer finds room at last; an error response may find none for ever.
Spec == SafeSpec /\ WF_vars(ServerStep)

-----------------------------------------------------------------------------
Requests == 1..MaxRequests

\* The variables keep to their ranges; a channel is always registered for something.
TypeOK ==
  /\ kinds \in Seq(Kinds) /\ Len(kinds) <= MaxRequests
  /\ parts \in 0..4
  /\ fin \in BOOLEAN /\ reset \in BOOLEAN /\ pipelined \in BOOLEAN
  /\ outEvent \in BOOLEAN /\ err \in BOOLEAN /\ connected \in BOOLEAN
  /\ inbox \in Seq(Requests \X (1..4))
  /\ input \in Seq(Requests \X (1..4))
  /\ wire \in Seq(0..StrayBytes)
  /\ output \in Seq(Requests)
  /\ pc \in {"wait", "read", "parse", "error", "stuck", "answer", "restart", "write",
             "register", "closed"}
  /\ armed \in {"in", "out"}
  /\ state \in {"line", "headers", "length", "analysis", "finish"}
  /\ request \in Nat

\* Responses leave in the order of the requests, each once and none of it lost or
\* repeated while the connection is open, however writes are cut up.
InOrder ==
  /\ \A i \in 1..Len(wire) : wire[i] \in Requests => wire[i] = (i + 1) \div 2
  /\ ~err => \A i \in 1..Len(output) : output[i] = (Len(wire) + i + 1) \div 2

\* A request whose response was put into the output buffer.
Analysed(r) ==
  /\ \A q \in 1..r : kinds[q] = "get"
  /\ r < request \/ (r = request /\ state \in {"finish", "line"})

\* A connection that closes has answered all requests it has analysed, unless a write was
\* cut short: pipelined requests wait for no event that the closing would cancel.
AnsweredAtClose ==
  pc = "closed" /\ ~outEvent /\ ~reset => \A r \in 1..request : Analysed(r) => Answered(r)

\* Nothing is written after an error response: it says Connection: Close.  And though it is
\* written past the output buffer, it comes after the answers to all requests before it and
\* not amid one, unless a write was cut short.
ErrorIsLast ==
  \A i \in 1..Len(wire) : wire[i] = 0 =>
    /\ i = Len(wire)
    /\ ~outEvent => /\ \A r \in 1..(request - 1) : Answered(r)
                    /\ \A j \in 1..i : wire[j] # request

\* The thread tries a write that failed again and again (Util.cpp:157): the peer has reset
\* the connection, or lets its window stay closed while an error response is due.
Stuck == pc = "stuck"

\* Each request that was sent in full is answered in full, though its response may be
\* written in pieces, or the connection closes, unless the thread stays with an error
\* response for ever.  That is so for a peer that waits for its answers, up to the first
\* response that was cut short: no request is read after it.
Answers ==
  \A r \in Requests :
    Complete(r) ~>
      \/ Answered(r) \/ pc = "closed" \/ []Stuck
      \/ pipelined
      \/ outEvent /\ request < r

\* A persistent connection answers each request that was sent in full, or closes, however
\* the writes went (README.md:37).
LongConnection == \A r \in Requests : Complete(r) ~> Answered(r) \/ pc = "closed"

\* An error closes the connection, and the end of the peer's stream does, unless the
\* channel waits for EPOLLOUT.  Neither does while the thread stays with an error response
\* for ever: err_ is set before that is written (Http.cpp:67).
Closes ==
  /\ err ~> pc = "closed" \/ []Stuck
  /\ fin ~> pc = "closed" \/ outEvent \/ []Stuck

\* An event is handled to its end: the thread goes back to epoll_wait, where the other
\* connections of its loop are waiting, but for an error response to a peer that has reset
\* the connection or never makes room for it.
LoopGoesOn == pc # "wait" ~> pc \in {"wait", "closed"} \/ []Stuck
=============================================================================
