---------------------------- MODULE HttpConnProofs ----------------------------
(***************************************************************************)
(* What holds of a connection for every number of requests of every kind,  *)
(* every way they are cut in parts, and all that peer and network may do:  *)
(* answers leave in the order of the requests, an error response comes     *)
(* last, and a connection that closes owes no answer it could have given.  *)
(***************************************************************************)
EXTENDS HttpConn, SequenceTheorems, TLAPS

-----------------------------------------------------------------------------
(* What arrives                                                            *)

\* The parts that are not parsed yet, in order, behind the last one that was.
Waiting == Len(input) + Len(inbox)

LastTaken == <<request, IF state = "headers" THEN 2 ELSE 3>>

Part(i) ==
  IF i = 0 THEN LastTaken ELSE IF i <= Len(input) THEN input[i] ELSE inbox[i - Len(input)]

\* The peer sends q after p.
Follows(p, q) ==
  IF p[1] # 0 /\ p[2] < PartsOf(kinds[p[1]]) THEN q = <<p[1], p[2] + 1>> ELSE q = <<p[1] + 1, 1>>

\* An error response is being written, or written again and again.
Erring == pc \in {"error", "stuck"}

\* There was an error, and what is written of it is written.
Over == err /\ ~Erring

\* The parser reads on.
Parsing == ~err /\ ~Erring

\* What the parser has not read goes on where it stopped, up to what was sent last.
Stream ==
  Parsing => \A w \in {Waiting} :
    /\ \A i \in 0..w : Part(i)[1] \in 0..Len(kinds)
    /\ \A i \in 0..(w - 1) : Follows(Part(i), Part(i + 1))
    /\ Part(w)[1] = Len(kinds) /\ (kinds # <<>> => Part(w)[2] = parts)

\* The last request, as far as it was sent.
Sent ==
  /\ kinds = <<>> <=> parts = 0
  /\ kinds # <<>> => parts <= PartsOf(kinds[Len(kinds)])

\* The request whose line was parsed.
Current ==
  /\ request <= Len(kinds)
  /\ state # "line" \/ (Erring /\ ~reset) => request # 0
  /\ state \in {"headers", "length", "analysis"} /\ Parsing => kinds[request] # "badLine"
  /\ state = "line" /\ request # 0 /\ Parsing => kinds[request] \in {"get", "hello"}
  /\ state = "finish" => kinds[request] \in {"get", "hello"}
  /\ state = "finish" /\ Parsing => pc \in {"answer", "restart"}

\* After an error, or the end of the stream, the thread goes on to close the connection.
Ending == Over \/ ~connected => pc \in {"answer", "restart", "register", "closed"}

ConnInv == TypeOK /\ Sent /\ Current /\ Stream /\ Ending

-----------------------------------------------------------------------------
(* What is answered                                                        *)

\* How many requests were given an answer.
Done == IF state \in {"line", "finish"} THEN request ELSE request - 1

\* Without an error, wire and output buffer hold the answers to them, one after the other;
\* a file that goes away before it is opened leaves half of one.
Units ==
  ~Over =>
    /\ \A i \in 1..Len(wire) : wire[i] = (i + 1) \div 2
    /\ \A i \in 1..Len(output) : output[i] = (Len(wire) + i + 1) \div 2
    /\ ~Erring => Len(wire) + Len(output) = 2 * Done

\* As long as no write was cut short, the output buffer is empty but for an answer that
\* was just put into it.
Flushed ==
  /\ armed = "out" \/ pc = "write" => outEvent
  /\ ~outEvent /\ ~Over =>
       /\ (pc # "answer" \/ ~connected) /\ ~Erring => output = <<>>
       /\ Erring /\ ~reset => Len(wire) = 2 * (request - 1)

\* An error is that of a request that gets no answer, after all that do.
ErrorOf ==
  ~reset /\ (Erring \/ (err /\ ~outEvent)) =>
    request # 0 /\ kinds[request] # "get"

ErrorLate ==
  Over /\ ~outEvent /\ ~reset => \A r \in 1..(request - 1) : Answered(r)

AnswerInv == Units /\ Flushed /\ ErrorOf /\ ErrorLate /\ InOrder /\ ErrorIsLast

-----------------------------------------------------------------------------
(* Numbers and sequences                                                   *)

LEMMA PartsRange ==
  /\ \A kind : PartsOf(kind) \in 2..4
  /\ \A kind : kind # "badLine" => PartsOf(kind) >= 3
  /\ \A kind \in {"get", "hello"} : PartsOf(kind) = 3
BY DEF PartsOf

LEMMA OneMore ==
  \A w \in Nat : \A i \in 0..(w + 1) : i = w + 1 \/ i \in 0..w
OBVIOUS

LEMMA Lengths ==
  ASSUME TypeOK
  PROVE  /\ MaxRequests \in Nat /\ Len(kinds) \in Nat /\ parts \in Nat /\ request \in Nat
         /\ Len(inbox) \in Nat /\ Len(input) \in Nat /\ Len(wire) \in Nat /\ Len(output) \in Nat
         /\ Waiting \in Nat /\ (Waiting = 0 <=> input = <<>> /\ inbox = <<>>)
BY MaxAssumption DEF TypeOK, Waiting

\* Writing moves the first units of the output buffer to the wire, or fails.
LEMMA WriteEffect ==
  ASSUME TypeOK, NEW least \in Nat, HandleWrite(least)
  PROVE  /\ UNCHANGED <<peerVars, inbox, armed, connected, parseVars, input>>
         /\ wire' \in Seq(0..StrayBytes) /\ output' \in Seq(Requests)
         /\ err' \in BOOLEAN /\ outEvent' \in BOOLEAN
         /\ \/ (err \/ ~connected) /\ UNCHANGED <<wire, output, err, outEvent>>
            \/ ~err /\ err' /\ reset /\ UNCHANGED <<wire, output>> /\ outEvent'
            \/ /\ ~err /\ ~err' /\ connected
               /\ \E n \in 0..Len(output) :
                    /\ Len(wire') = Len(wire) + n /\ Len(output') = Len(output) - n
                    /\ \A i \in 1..Len(wire) : wire'[i] = wire[i]
                    /\ \A i \in 1..n : wire'[Len(wire) + i] = output[i]
                    /\ \A i \in 1..(Len(output) - n) : output'[i] = output[n + i]
                    /\ outEvent' = (outEvent \/ n < Len(output))
<1>1. /\ wire \in Seq(0..StrayBytes) /\ output \in Seq(Requests)
      /\ Len(wire) \in Nat /\ Len(output) \in Nat /\ err \in BOOLEAN /\ outEvent \in BOOLEAN
      /\ MaxRequests \in Nat
  BY Lengths DEF TypeOK
<1>2. UNCHANGED <<peerVars, inbox, armed, connected, parseVars, input>>
  BY DEF HandleWrite
<1>3. CASE err \/ ~connected
  BY <1>1, <1>2, <1>3 DEF HandleWrite
<1>4. CASE ~(err \/ ~connected) /\ reset /\ output # <<>>
  BY <1>1, <1>2, <1>4 DEF HandleWrite
<1>5. CASE ~(err \/ ~connected) /\ ~(reset /\ output # <<>>)
  <2>1. PICK n \in least..Len(output) :
          /\ wire' = wire \o SubSeq(output, 1, n)
          /\ output' = SubSeq(output, n + 1, Len(output))
          /\ outEvent' = (outEvent \/ n < Len(output))
    BY <1>5 DEF HandleWrite
  <2>2. n \in 0..Len(output)
    BY <1>1
  <2>3. /\ SubSeq(output, 1, n) \in Seq(0..StrayBytes) /\ Len(SubSeq(output, 1, n)) = n
        /\ \A i \in 1..n : SubSeq(output, 1, n)[i] = output[i]
    <3>1. \A i \in 1..n : output[i] \in 0..StrayBytes
      BY <1>1, <2>2 DEF Requests, StrayBytes
    <3>2. /\ SubSeq(output, 1, n) \in Seq(0..StrayBytes)
          /\ Len(SubSeq(output, 1, n)) = IF 1 <= n THEN n - 1 + 1 ELSE 0
          /\ \A i \in 1..(n - 1 + 1) : SubSeq(output, 1, n)[i] = output[1 + i - 1]
      BY <2>2, <3>1, SubSeqProperties
    <3> QED
      BY <2>2, <3>2
  <2>4. /\ SubSeq(output, n + 1, Len(output)) \in Seq(Requests)
        /\ Len(SubSeq(output, n + 1, Len(output))) = Len(output) - n
        /\ \A i \in 1..(Len(output) - n) : SubSeq(output, n + 1, Len(output))[i] = output[n + i]
    <3>1. \A i \in (n + 1)..Len(output) : output[i] \in Requests
      BY <1>1, <2>2
    <3>2. /\ SubSeq(output, n + 1, Len(output)) \in Seq(Requests)
          /\ Len(SubSeq(output, n + 1, Len(output))) =
               IF n + 1 <= Len(output) THEN Len(output) - (n + 1) + 1 ELSE 0
          /\ \A i \in 1..(Len(output) - (n + 1) + 1) :
               SubSeq(output, n + 1, Len(output))[i] = output[(n + 1) + i - 1]
      BY <1>1, <2>2, <3>1, SubSeqProperties
    <3>3. \A i \in 1..(Len(output) - n) : (n + 1) + i - 1 = n + i
      BY <1>1, <2>2
    <3> QED
      BY <1>1, <2>2, <3>2, <3>3
  <2> DEFINE out == SubSeq(output, 1, n)
  <2> HIDE DEF out
  <2>5. /\ wire \o out \in Seq(0..StrayBytes) /\ Len(wire \o out) = Len(wire) + Len(out)
        /\ \A i \in 1..(Len(wire) + Len(out)) :
             (wire \o out)[i] = IF i <= Len(wire) THEN wire[i] ELSE out[i - Len(wire)]
    BY <1>1, <2>3, ConcatProperties DEF out
  <2>6. /\ wire' \in Seq(0..StrayBytes) /\ Len(wire') = Len(wire) + n
        /\ \A i \in 1..Len(wire) : wire'[i] = wire[i]
        /\ \A i \in 1..n : wire'[Len(wire) + i] = output[i]
    BY <1>1, <2>1, <2>2, <2>3, <2>5 DEF out
  <2>7. err' = err
    BY <1>5 DEF HandleWrite
  <2> QED
    BY <1>1, <1>2, <1>5, <2>1, <2>2, <2>4, <2>6, <2>7
<1> QED
  BY <1>3, <1>4, <1>5

-----------------------------------------------------------------------------
(* What arrives: steps that leave it where it is                           *)

\* The stream goes on if nothing of it moves.
LEMMA StreamKept ==
  ASSUME Stream, Parsing' => Parsing, Parsing' => LastTaken' = LastTaken,
         UNCHANGED <<kinds, parts, input, inbox>>
  PROVE  Stream'
<1> SUFFICES ASSUME Parsing' PROVE Stream'
  BY DEF Stream
<1>1. Waiting' = Waiting /\ \A i : Part(i)' = Part(i)
  BY DEF Waiting, Part
<1>2. \A p, q : Follows(p, q)' <=> Follows(p, q)
  BY DEF Follows
<1>3. \A i : Follows(Part(i), Part(i + 1))' <=> Follows(Part(i), Part(i + 1))
  BY <1>1 DEF Follows
<1> QED
  BY <1>1, <1>3 DEF Stream

LEMMA QuietStep ==
  ASSUME ConnInv, ReadEvent \/ WriteEvent \/ SendFin \/ Reset \/ HandleRegister \/ UNCHANGED vars
  PROVE  ConnInv'
<1>1. /\ UNCHANGED <<kinds, parts, inbox, wire, outEvent, err, connected, state, request, input, output>>
      /\ fin' \in BOOLEAN /\ reset' \in BOOLEAN /\ pipelined' \in BOOLEAN
      /\ armed' \in {"in", "out"} /\ (reset => reset')
  BY DEF ConnInv, TypeOK, ReadEvent, WriteEvent, SendFin, Reset, HandleRegister, vars, peerVars, parseVars
<1>2. \/ pc' = pc
      \/ pc = "wait" /\ pc' \in {"read", "write"}
      \/ pc = "register" /\ ~err /\ connected /\ pc' = "wait"
      \/ pc = "register" /\ (err \/ ~connected) /\ pc' = "closed"
  BY DEF ReadEvent, WriteEvent, SendFin, Reset, HandleRegister, vars, ConnInv, TypeOK
<1>3. TypeOK'
  BY <1>1, <1>2 DEF ConnInv, TypeOK
<1>4. Sent' /\ Current' /\ Ending'
  BY <1>1, <1>2 DEF ConnInv, Sent, Current, Ending, Parsing, Over, Erring
<1>5. Stream'
  BY <1>1, <1>2, StreamKept DEF ConnInv, Parsing, LastTaken, Over, Erring
<1> QED
  BY <1>3, <1>4, <1>5 DEF ConnInv

LEMMA AnswerStep ==
  ASSUME ConnInv, Answer \/ Restart \/ Write
  PROVE  ConnInv'
<1>1. TypeOK /\ Sent /\ Current /\ Stream /\ Ending
  BY DEF ConnInv
<1>2. /\ UNCHANGED <<peerVars, inbox, armed, connected, request, input>>
      /\ wire' \in Seq(0..StrayBytes) /\ output' \in Seq(Requests)
      /\ err' \in BOOLEAN /\ outEvent' \in BOOLEAN
      /\ err => err'
      /\ state' = state \/ (Restart /\ ~err /\ state = "finish" /\ state' = "line")
  <2>1. CASE Restart
    BY <1>1, <2>1 DEF Restart, TypeOK
  <2>2. CASE ~Restart /\ \E least \in Nat : HandleWrite(least)
    BY <1>1, <2>2, WriteEffect DEF parseVars
  <2>3. CASE Answer /\ err
    BY <1>1, <2>3 DEF Answer, TypeOK, parseVars
  <2>4. CASE Answer /\ ~err
    <3>1. \E least \in Nat : HandleWrite(least)
      BY <1>1, <2>4, Lengths DEF Answer
    <3> QED
      BY <2>1, <2>2, <3>1
  <2>5. CASE Write
    <3>1. \E least \in Nat : HandleWrite(least)
      BY <2>5 DEF Write
    <3> QED
      BY <2>1, <2>2, <3>1
  <2> QED
    BY <2>1, <2>3, <2>4, <2>5
<1>3. /\ pc \in {"answer", "restart", "write"}
      /\ \/ pc' = "register" /\ (Restart \/ pc = "write" \/ err)
         \/ Answer /\ pc' = "restart"
         \/ Restart /\ ~err' /\ connected /\ pc' = "read" /\ state' = "line"
  BY DEF Answer, Restart, Write
<1>4. Restart => err' = err /\ (~err /\ state = "finish" => state' = "line")
  BY DEF Restart
<1>5. TypeOK'
  BY <1>1, <1>2, <1>3 DEF TypeOK, peerVars
<1>6. Sent'
  BY <1>1, <1>2 DEF Sent, peerVars
<1>7. Current'
  BY <1>1, <1>2, <1>3, <1>4 DEF Current, peerVars, Parsing, TypeOK, Over, Erring
<1>8. Stream'
  BY <1>1, <1>2, <1>3, StreamKept DEF Parsing, LastTaken, peerVars, Over, Erring
<1>9. Ending'
  BY <1>1, <1>2, <1>3, <1>4 DEF Ending, Over, Erring
<1> QED
  BY <1>5, <1>6, <1>7, <1>8, <1>9 DEF ConnInv

\* A request has a number among the requests.
LEMMA RequestNumber ==
  ASSUME TypeOK, request # 0, request <= Len(kinds)
  PROVE  request \in Requests /\ request \in 0..StrayBytes
<1>1. request \in Nat /\ MaxRequests \in Nat /\ Len(kinds) \in Nat /\ Len(kinds) <= MaxRequests
  BY Lengths DEF TypeOK
<1> QED
  BY <1>1 DEF Requests, StrayBytes

\* The error response is written, or its first write fails.
WritesError ==
  /\ UNCHANGED <<peerVars, inbox, armed, outEvent, connected, parseVars, input, output>>
  /\ Erring /\ ~reset /\ err' = TRUE /\ pc' = "answer"
  /\ wire' = Append(wire, 0) \/ wire' = wire \o <<StrayBytes, 0>>

Sticks ==
  /\ UNCHANGED <<peerVars, inbox, wire, armed, outEvent, err, connected, parseVars, input, output>>
  /\ pc = "error" /\ pc' = "stuck"

LEMMA ErrorSteps == HandleError \/ WindowOpens => WritesError \/ Sticks
BY DEF HandleError, WindowOpens, ErrorWritten, WritesError, Sticks, Erring

LEMMA SticksStep ==
  ASSUME ConnInv, Sticks
  PROVE  ConnInv'
<1>1. TypeOK /\ Sent /\ Current /\ Stream /\ Ending
  BY DEF ConnInv
<1>2. /\ UNCHANGED <<peerVars, inbox, wire, armed, outEvent, err, connected, parseVars, input, output>>
      /\ pc = "error" /\ pc' = "stuck"
  BY DEF Sticks
<1>3. TypeOK'
  BY <1>1, <1>2 DEF TypeOK, peerVars, parseVars
<1>4. Sent' /\ Current' /\ Stream' /\ Ending'
  BY <1>1, <1>2 DEF Sent, Current, Stream, Parsing, Ending, Over, Erring, peerVars, parseVars
<1> QED
  BY <1>3, <1>4 DEF ConnInv

LEMMA WritesErrorStep ==
  ASSUME ConnInv, WritesError
  PROVE  ConnInv'
<1>1. TypeOK /\ Sent /\ Current /\ Stream /\ Ending
  BY DEF ConnInv
<1>2. /\ UNCHANGED <<peerVars, inbox, armed, outEvent, connected, parseVars, input, output>>
      /\ Erring /\ err' = TRUE /\ pc' = "answer" /\ ~reset
      /\ wire' = Append(wire, 0) \/ wire' = wire \o <<StrayBytes, 0>>
  BY DEF WritesError
<1>3. wire' \in Seq(0..StrayBytes)
  <2>1. wire \in Seq(0..StrayBytes) /\ 0 \in 0..StrayBytes /\ StrayBytes \in 0..StrayBytes
    BY <1>1, MaxAssumption DEF TypeOK, StrayBytes
  <2> HIDE DEF StrayBytes
  <2>2. <<StrayBytes, 0>> \in Seq(0..StrayBytes)
    BY <2>1
  <2> DEFINE S == 0..StrayBytes
  <2> DEFINE stray == <<StrayBytes, 0>>
  <2>3. wire \in Seq(S) /\ 0 \in S /\ stray \in Seq(S)
    BY <2>1, <2>2
  <2>4. wire' = Append(wire, 0) \/ wire' = wire \o stray
    BY <1>2
  <2> SUFFICES wire' \in Seq(S)
    OBVIOUS
  <2> HIDE DEF S, stray
  <2>5. CASE wire' = Append(wire, 0)
    BY <2>3, <2>5, AppendProperties
  <2>6. CASE wire' = wire \o stray
    BY <2>3, <2>6, ConcatProperties
  <2> QED
    BY <2>4, <2>5, <2>6
<1>4. TypeOK'
  BY <1>1, <1>2, <1>3 DEF TypeOK, peerVars, parseVars
<1>5. Sent' /\ Current' /\ Stream' /\ Ending'
  BY <1>1, <1>2 DEF Sent, Current, Stream, Parsing, Ending, peerVars, parseVars, Over, Erring
<1> QED
  BY <1>4, <1>5 DEF ConnInv

LEMMA CheckLengthStep ==
  ASSUME ConnInv, CheckLength
  PROVE  ConnInv'
<1>1. TypeOK /\ Sent /\ Current /\ Stream /\ Ending
  BY DEF ConnInv
<1>2. /\ UNCHANGED <<peerVars, inbox, wire, armed, outEvent, connected, request, input, output>>
      /\ pc = "parse" /\ state = "length"
      /\ \/ pc' = "error" /\ err' = TRUE /\ state' = "length"
         \/ pc' = "answer" /\ err' = err /\ state' = "length"
         \/ pc' = "parse" /\ err' = err /\ state' = "analysis"
  BY DEF CheckLength, Fail
<1>3. ~err /\ Parsing /\ LastTaken' = LastTaken
  BY <1>1, <1>2 DEF Ending, Parsing, LastTaken, Over, Erring
<1>4. TypeOK'
  BY <1>1, <1>2 DEF TypeOK, peerVars
<1>5. Sent' /\ Current' /\ Ending'
  BY <1>1, <1>2, <1>3 DEF Sent, Current, Parsing, Ending, peerVars, Over, Erring
<1>6. Stream'
  BY <1>1, <1>2, <1>3, StreamKept DEF peerVars
<1> QED
  BY <1>4, <1>5, <1>6 DEF ConnInv

\* What analysisRequest puts into the output buffer.
LEMMA AnalysisEffect ==
  ASSUME ConnInv, Analysis
  PROVE  /\ UNCHANGED <<peerVars, inbox, wire, armed, outEvent, connected, request, input>>
         /\ pc = "parse" /\ state = "analysis" /\ ~err /\ connected
         /\ output' \in Seq(Requests) /\ request # 0 /\ request \in Requests
         /\ \/ /\ kinds[request] = "get"
               /\ Len(output') = Len(output) + 2
               /\ \A i \in 1..Len(output) : output'[i] = output[i]
               /\ output'[Len(output) + 1] = request /\ output'[Len(output) + 2] = request
               /\ state' = "finish" /\ pc' = "answer" /\ err' = err
            \/ kinds[request] = "hello" /\ state' = "finish" /\ pc' = "answer" /\ err' = err
            \/ /\ kinds[request] = "missing"
               /\ \/ output' = output
                  \/ /\ Len(output') = Len(output) + 1
                     /\ \A i \in 1..Len(output) : output'[i] = output[i]
                     /\ output'[Len(output) + 1] = request
               /\ state' = "analysis" /\ pc' = "error" /\ err' = err
            \/ /\ kinds[request] = "postBody" /\ output' = output
               /\ state' = "analysis" /\ pc' = "answer" /\ err'
<1>1. TypeOK /\ Sent /\ Current /\ Stream /\ Ending
  BY DEF ConnInv
<1>2. /\ UNCHANGED <<peerVars, inbox, wire, armed, outEvent, connected, request, input>>
      /\ pc = "parse" /\ state = "analysis"
  BY DEF Analysis
<1>3. ~err /\ connected /\ request # 0 /\ request \in Requests
  BY <1>1, <1>2, RequestNumber DEF Ending, Current, Over, Erring
<1>4. output \in Seq(Requests) /\ Len(output) \in Nat
  BY <1>1, Lengths DEF TypeOK
<1>5. CASE kinds[request] = "get"
  <2>1. output' = output \o <<request, request>> /\ state' = "finish" /\ pc' = "answer" /\ err' = err
    BY <1>5 DEF Analysis
  <2>2. <<request, request>> \in Seq(Requests) /\ Len(<<request, request>>) = 2
    BY <1>3
  <2>3. /\ output' \in Seq(Requests) /\ Len(output') = Len(output) + 2
        /\ \A i \in 1..(Len(output) + 2) : output'[i] =
             IF i <= Len(output) THEN output[i] ELSE <<request, request>>[i - Len(output)]
    BY <1>4, <2>1, <2>2, ConcatProperties
  <2>4. output'[Len(output) + 1] = request /\ output'[Len(output) + 2] = request
    BY <1>4, <2>3
  <2> QED
    BY <1>2, <1>3, <1>4, <1>5, <2>1, <2>3, <2>4
<1>6. CASE kinds[request] = "hello"
  <2>1. output' = <<>> \o <<request, request>> /\ state' = "finish" /\ pc' = "answer" /\ err' = err
    BY <1>6 DEF Analysis
  <2>2. <<request, request>> \in Seq(Requests) /\ <<>> \in Seq(Requests)
    BY <1>3
  <2>3. output' \in Seq(Requests)
    BY <2>1, <2>2, ConcatProperties
  <2> QED
    BY <1>2, <1>3, <1>6, <2>1, <2>3
<1>7. CASE kinds[request] = "missing"
  <2>1. /\ output' = output \/ output' = Append(output, request)
        /\ state' = "analysis" /\ pc' = "error" /\ err' = err
    BY <1>2, <1>7 DEF Analysis
  <2> QED
    BY <1>2, <1>3, <1>4, <1>7, <2>1, AppendProperties
<1>8. CASE kinds[request] = "postBody"
  BY <1>2, <1>3, <1>4, <1>8 DEF Analysis
<1>9. kinds[request] \in {"get", "hello", "missing", "postBody"}
  BY DEF Analysis
<1> QED
  BY <1>5, <1>6, <1>7, <1>8, <1>9

LEMMA AnalysisStep ==
  ASSUME ConnInv, Analysis
  PROVE  ConnInv'
<1>1. TypeOK /\ Sent /\ Current /\ Stream /\ Ending
  BY DEF ConnInv
<1>2. /\ UNCHANGED <<peerVars, inbox, wire, armed, outEvent, connected, request, input>>
      /\ pc = "parse" /\ state = "analysis" /\ ~err /\ connected
      /\ output' \in Seq(Requests) /\ request # 0
      /\ \/ /\ kinds[request] \in {"get", "hello"}
            /\ state' = "finish" /\ pc' = "answer" /\ err' = err
         \/ state' = "analysis" /\ pc' = "error" /\ err' = err
         \/ state' = "analysis" /\ pc' = "answer" /\ err'
      /\ err' \in BOOLEAN
  <2>1. err' \in BOOLEAN
    BY <1>1 DEF Analysis, TypeOK
  <2> QED
    BY <2>1, AnalysisEffect
<1>3. Parsing /\ LastTaken' = LastTaken
  BY <1>2 DEF Parsing, LastTaken, Over, Erring
<1>4. TypeOK'
  BY <1>1, <1>2 DEF TypeOK, peerVars
<1>5. Sent' /\ Current' /\ Ending'
  BY <1>1, <1>2, <1>3 DEF Sent, Current, Parsing, Ending, peerVars, Over, Erring
<1>6. Stream'
  BY <1>1, <1>2, <1>3, StreamKept DEF peerVars
<1> QED
  BY <1>4, <1>5, <1>6 DEF ConnInv

-----------------------------------------------------------------------------
(* What arrives: steps that move it                                        *)

\* The parser takes the first k parts.
LEMMA StreamShift ==
  ASSUME TypeOK, Stream, Parsing, NEW k \in 1..2, k <= Len(input),
         Len(input') = Len(input) - k,
         \A i \in 1..(Len(input) - k) : input'[i] = input[i + k],
         UNCHANGED <<kinds, parts, inbox>>, LastTaken' = input[k]
  PROVE  Stream'
<1>1. Waiting \in Nat /\ Len(input) \in Nat /\ Len(inbox) \in Nat /\ Waiting = Len(input) + Len(inbox)
  BY Lengths DEF Waiting
<1>2. Waiting' = Waiting - k /\ k <= Waiting
  BY <1>1 DEF Waiting
<1>3. ASSUME NEW i \in 0..(Waiting - k)
      PROVE  Part(i)' = Part(i + k)
  BY <1>1, <1>3 DEF Part
<1>4. ASSUME NEW i \in 0..(Waiting - k) PROVE i + k \in 0..Waiting
  BY <1>1, <1>2
<1>5. ASSUME NEW i \in 0..(Waiting - k - 1) PROVE Follows(Part(i), Part(i + 1))'
  <2>1. Follows(Part(i + k), Part(i + k + 1))
    BY <1>1, <1>2 DEF Stream
  <2>2. Part(i)' = Part(i + k) /\ Part(i + 1)' = Part(i + k + 1)
    <3>1. i \in 0..(Waiting - k) /\ i + 1 \in 0..(Waiting - k) /\ (i + 1) + k = i + k + 1
      BY <1>1, <1>2
    <3> QED
      BY <1>3, <3>1
  <2> QED
    BY <2>1, <2>2 DEF Follows
<1>6. ASSUME NEW w, w = Waiting - k PROVE Part(w)' = Part(Waiting)
  <2>1. w \in 0..(Waiting - k) /\ w + k = Waiting
    BY <1>1, <1>2, <1>6
  <2> QED
    BY <1>3, <2>1
<1>7. ASSUME NEW i \in 0..(Waiting - k) PROVE Part(i)'[1] \in 0..Len(kinds)
  <2>1. Part(i + k)[1] \in 0..Len(kinds)
    BY <1>4 DEF Stream
  <2> QED
    BY <1>3, <2>1
<1>8. Part(Waiting)[1] = Len(kinds) /\ (kinds # <<>> => Part(Waiting)[2] = parts)
  BY DEF Stream
<1>9. ASSUME NEW w, w = Waiting - k
      PROVE  /\ \A i \in 0..w : Part(i)'[1] \in 0..Len(kinds)
             /\ \A i \in 0..(w - 1) : Follows(Part(i), Part(i + 1))'
             /\ Part(w)'[1] = Len(kinds) /\ (kinds # <<>> => Part(w)'[2] = parts)
  BY <1>5, <1>6, <1>7, <1>8, <1>9
<1> QED
  BY <1>2, <1>9 DEF Stream

\* The peer sends the part that follows.
LEMMA StreamGrows ==
  ASSUME TypeOK, Stream, NEW q \in Requests \X (1..4), inbox' = Append(inbox, q),
         UNCHANGED <<input, err, pc, state, request>>,
         Len(kinds') \in Nat, Len(kinds') >= Len(kinds), kinds' # <<>>,
         \A r \in 1..Len(kinds) : kinds'[r] = kinds[r],
         q = <<Len(kinds'), parts'>>,
         IF kinds # <<>> /\ parts < PartsOf(kinds[Len(kinds)])
           THEN q = <<Len(kinds), parts + 1>> ELSE q = <<Len(kinds) + 1, 1>>
  PROVE  Stream'
<1> SUFFICES ASSUME Parsing' PROVE Stream'
  BY DEF Stream
<1> SUFFICES ASSUME NEW w, w = Waiting PROVE Stream'
  OBVIOUS
<1>1. w \in Nat /\ Len(input) \in Nat /\ Len(inbox) \in Nat /\ w = Len(input) + Len(inbox)
  BY Lengths DEF Waiting
<1>2. Parsing
  BY DEF Parsing, Over, Erring
<1>3. /\ inbox \in Seq(Requests \X (1..4)) /\ Len(inbox') = Len(inbox) + 1
      /\ \A i \in 1..Len(inbox) : inbox'[i] = inbox[i]
      /\ inbox'[Len(inbox) + 1] = q
  BY AppendProperties DEF TypeOK
<1>4. Waiting' = w + 1
  BY <1>1, <1>3 DEF Waiting
<1>5. ASSUME NEW i \in 0..w PROVE Part(i)' = Part(i)
  BY <1>1, <1>3 DEF Part, LastTaken
<1>6. ASSUME NEW i, i = w + 1 PROVE Part(i)' = q
  <2>1. Len(input') = Len(input) /\ i # 0 /\ ~(i <= Len(input)) /\ i - Len(input) = Len(inbox) + 1
    BY <1>1, <1>6
  <2> QED
    BY <1>3, <2>1 DEF Part
<1>7. ASSUME NEW i \in 0..(w - 1) PROVE Follows(Part(i), Part(i + 1))'
  <2>1. Follows(Part(i), Part(i + 1)) /\ Part(i)[1] \in 0..Len(kinds)
    BY <1>1, <1>2 DEF Stream
  <2>2. Part(i)' = Part(i) /\ Part(i + 1)' = Part(i + 1)
    BY <1>1, <1>5
  <2>3. Part(i)[1] # 0 => kinds'[Part(i)[1]] = kinds[Part(i)[1]]
    BY <2>1
  <2> QED
    BY <2>1, <2>2, <2>3 DEF Follows
<1>8. ASSUME NEW i, i = w PROVE Follows(Part(i), Part(i + 1))'
  <2>1. Part(i)[1] = Len(kinds) /\ (kinds # <<>> => Part(i)[2] = parts)
    BY <1>2, <1>8 DEF Stream
  <2>2. Len(kinds) \in Nat /\ (kinds = <<>> <=> Len(kinds) = 0)
    BY DEF TypeOK
  <2>3. Len(kinds) # 0 => kinds'[Len(kinds)] = kinds[Len(kinds)]
    BY <2>2
  <2>4. Part(i)' = Part(i)
    BY <1>1, <1>5, <1>8
  <2>5. Part(i + 1)' = q
    BY <1>6, <1>8
  <2> QED
    BY <2>1, <2>2, <2>3, <2>4, <2>5 DEF Follows
<1>9. ASSUME NEW i \in 0..(w + 1) PROVE Part(i)'[1] \in 0..Len(kinds')
  <2>1. CASE i = w + 1
    <3>1. Part(i)' = q
      BY <1>6, <2>1
    <3> QED
      BY <3>1
  <2>2. CASE i \in 0..w
    <3>1. Part(i)[1] \in 0..Len(kinds) /\ Len(kinds) \in Nat
      BY <1>2, <2>2, Lengths DEF Stream
    <3> QED
      BY <1>5, <2>2, <3>1
  <2>3. i = w + 1 \/ i \in 0..w
    BY <1>1, OneMore, Zenon
  <2> QED
    BY <2>1, <2>2, <2>3
<1>10. ASSUME NEW i \in 0..w PROVE Follows(Part(i), Part(i + 1))'
  <2>1. i = w \/ i \in 0..(w - 1)
    BY <1>1
  <2> QED
    BY <1>7, <1>8, <2>1
<1>11. ASSUME NEW v, v = w + 1
       PROVE  /\ \A i \in 0..v : Part(i)'[1] \in 0..Len(kinds')
              /\ \A i \in 0..(v - 1) : Follows(Part(i), Part(i + 1))'
              /\ Part(v)'[1] = Len(kinds') /\ Part(v)'[2] = parts'
  <2>1. v - 1 = w
    BY <1>1, <1>11
  <2>2. Part(v)' = <<Len(kinds'), parts'>>
    BY <1>6, <1>11
  <2> QED
    BY <1>9, <1>10, <1>11, <2>1, <2>2
<1> QED
  BY <1>4, <1>11 DEF Stream

LEMMA BeginRequestStep ==
  ASSUME ConnInv, BeginRequest
  PROVE  ConnInv'
<1>1. TypeOK /\ Sent /\ Current /\ Stream /\ Ending
  BY DEF ConnInv
<1>2. /\ UNCHANGED <<fin, reset, wire, pc, armed, outEvent, err, connected, parseVars, input, output>>
      /\ parts' = 1 /\ pipelined' = (pipelined \/ ~AllAnswered)
      /\ inbox' = Append(inbox, <<Len(kinds) + 1, 1>>)
      /\ Len(kinds) < MaxRequests
      /\ Len(kinds) > 0 => Complete(Len(kinds))
  BY DEF BeginRequest
<1>3. PICK k \in Kinds : kinds' = Append(kinds, k)
  BY DEF BeginRequest
<1>4. Len(kinds) \in Nat /\ MaxRequests \in Nat /\ parts \in Nat /\ request \in Nat
  BY <1>1, Lengths
<1>5. /\ kinds' \in Seq(Kinds) /\ Len(kinds') = Len(kinds) + 1 /\ kinds' # <<>>
      /\ \A r \in 1..Len(kinds) : kinds'[r] = kinds[r]
  BY <1>1, <1>3, AppendProperties DEF TypeOK
<1>6. <<Len(kinds) + 1, 1>> \in Requests \X (1..4)
  BY <1>2, <1>4 DEF Requests
<1>7. TypeOK'
  <2>1. inbox' \in Seq(Requests \X (1..4))
    BY <1>1, <1>2, <1>6, AppendProperties DEF TypeOK
  <2>2. pipelined' \in BOOLEAN
    BY <1>1, <1>2 DEF TypeOK
  <2> QED
    BY <1>1, <1>2, <1>4, <1>5, <2>1, <2>2 DEF TypeOK, parseVars
<1>8. Sent'
  BY <1>2, <1>5, PartsRange DEF Sent
<1>9. Current' /\ Ending'
  <2>1. request # 0 => request \in 1..Len(kinds)
    BY <1>1, <1>4 DEF Current, Over, Erring
  <2>2. request # 0 => kinds'[request] = kinds[request]
    BY <1>5, <2>1
  <2> QED
    BY <1>1, <1>2, <1>4, <1>5, <2>1, <2>2 DEF Current, Ending, Parsing, parseVars, Over, Erring
<1>10. Stream'
  <2>1. kinds # <<>> => parts = PartsOf(kinds[Len(kinds)])
    BY <1>1, <1>2, <1>4 DEF Complete, TypeOK
  <2>2. kinds # <<>> => PartsOf(kinds[Len(kinds)]) \in Nat
    BY PartsRange
  <2> QED
    BY <1>1, <1>2, <1>4, <1>5, <1>6, <2>1, <2>2, StreamGrows DEF parseVars
<1> QED
  BY <1>7, <1>8, <1>9, <1>10 DEF ConnInv

LEMMA SendPartStep ==
  ASSUME ConnInv, SendPart
  PROVE  ConnInv'
<1>1. TypeOK /\ Sent /\ Current /\ Stream /\ Ending
  BY DEF ConnInv
<1>2. /\ UNCHANGED <<kinds, fin, reset, pipelined, wire, pc, armed, outEvent, err, connected,
                     parseVars, input, output>>
      /\ parts' = parts + 1
      /\ inbox' = Append(inbox, <<Len(kinds), parts + 1>>)
      /\ Len(kinds) > 0 /\ ~Complete(Len(kinds))
  BY DEF SendPart
<1>3. Len(kinds) \in Nat /\ MaxRequests \in Nat /\ parts \in Nat /\ Len(kinds) <= MaxRequests
  BY <1>1, Lengths DEF TypeOK
<1>4. parts < PartsOf(kinds[Len(kinds)]) /\ PartsOf(kinds[Len(kinds)]) \in 2..4 /\ kinds # <<>>
  BY <1>1, <1>2, <1>3, PartsRange DEF Sent, Complete
<1>5. <<Len(kinds), parts + 1>> \in Requests \X (1..4)
  BY <1>2, <1>3, <1>4 DEF Requests
<1>6. TypeOK'
  <2>1. inbox' \in Seq(Requests \X (1..4))
    BY <1>1, <1>2, <1>5, AppendProperties DEF TypeOK
  <2>2. parts' \in 0..4
    BY <1>2, <1>3, <1>4
  <2> QED
    BY <1>1, <1>2, <2>1, <2>2 DEF TypeOK, parseVars
<1>7. Sent'
  BY <1>2, <1>3, <1>4 DEF Sent
<1>8. Current' /\ Ending'
  BY <1>1, <1>2 DEF Current, Ending, Parsing, parseVars, Over, Erring
<1>9. Stream'
  BY <1>1, <1>2, <1>3, <1>4, <1>5, StreamGrows DEF parseVars
<1> QED
  BY <1>6, <1>7, <1>8, <1>9 DEF ConnInv

\* What is read goes from the receive buffer to the end of the input buffer.
LEMMA ReadStep ==
  ASSUME ConnInv, Read
  PROVE  ConnInv'
<1>1. TypeOK /\ Sent /\ Current /\ Stream /\ Ending
  BY DEF ConnInv
<1>2. /\ UNCHANGED <<peerVars, wire, armed, outEvent, parseVars, output>>
      /\ pc = "read" /\ ~err /\ connected /\ Parsing
  BY <1>1 DEF Read, Ending, Parsing, Over, Erring
<1>3. CASE reset
  <2>1. /\ pc' = "error" /\ err' = TRUE /\ UNCHANGED <<inbox, input, connected>> /\ reset'
        /\ ~Parsing'
    BY <1>2, <1>3 DEF Read, Fail, peerVars, Parsing
  <2>2. TypeOK'
    BY <1>1, <1>2, <2>1 DEF TypeOK, peerVars, parseVars
  <2>3. Sent' /\ Current' /\ Stream' /\ Ending'
    BY <1>1, <1>2, <2>1 DEF Sent, Current, Stream, Parsing, Ending, peerVars, parseVars, Over, Erring
  <2> QED
    BY <2>2, <2>3 DEF ConnInv
<1>4. CASE ~reset
  <2>1. /\ input' = input \o inbox /\ inbox' = <<>> /\ connected' = ~fin
        /\ pc' \in {"answer", "parse"} /\ (fin => pc' = "answer") /\ err' = err
    BY <1>2, <1>4 DEF Read
  <2>2. /\ input' \in Seq(Requests \X (1..4))
        /\ Len(input') = Len(input) + Len(inbox)
        /\ \A i \in 1..(Len(input) + Len(inbox)) :
             input'[i] = IF i <= Len(input) THEN input[i] ELSE inbox[i - Len(input)]
    BY <1>1, <2>1, ConcatProperties DEF TypeOK
  <2>3. TypeOK'
    <3>1. inbox' \in Seq(Requests \X (1..4)) /\ connected' \in BOOLEAN
      BY <1>1, <2>1 DEF TypeOK
    <3> QED
      BY <1>1, <1>2, <2>1, <2>2, <3>1 DEF TypeOK, peerVars, parseVars
  <2>4. Sent'
    BY <1>1, <1>2 DEF Sent, peerVars
  <2>5. Current' /\ Ending'
    BY <1>1, <1>2, <2>1 DEF Current, Ending, Parsing, peerVars, parseVars, Over, Erring
  <2>6. Stream'
    <3> SUFFICES ASSUME NEW w, w = Waiting PROVE Stream'
      OBVIOUS
    <3>1. w \in Nat /\ Len(input) \in Nat /\ Len(inbox) \in Nat /\ w = Len(input) + Len(inbox)
      BY <1>1, Lengths DEF Waiting
    <3>2. Waiting' = w
      BY <2>1, <2>2, <3>1 DEF Waiting
    <3>3. ASSUME NEW i \in 0..w PROVE Part(i)' = Part(i)
      BY <1>2, <2>2, <3>1, <3>3 DEF Part, LastTaken, parseVars
    <3>4. ASSUME NEW i \in 0..(w - 1) PROVE Follows(Part(i), Part(i + 1))'
      <4>1. Part(i)' = Part(i) /\ Part(i + 1)' = Part(i + 1)
        BY <3>1, <3>3
      <4>2. Follows(Part(i), Part(i + 1))
        BY <1>1, <1>2 DEF Stream
      <4> QED
        BY <1>2, <4>1, <4>2 DEF Follows, peerVars
    <3>5. /\ \A i \in 0..w : Part(i)'[1] \in 0..Len(kinds')
          /\ Part(w)'[1] = Len(kinds') /\ (kinds' # <<>> => Part(w)'[2] = parts')
      BY <1>1, <1>2, <3>1, <3>3 DEF Stream, peerVars
    <3> QED
      BY <3>2, <3>4, <3>5 DEF Stream
  <2> QED
    BY <2>3, <2>4, <2>5, <2>6 DEF ConnInv
<1> QED
  BY <1>3, <1>4

\* The first part that waits is what follows the last one that was parsed.
LEMMA FirstPart ==
  ASSUME TypeOK, Stream, Parsing, input # <<>>
  PROVE  /\ input[1] \in Requests \X (1..4)
         /\ Follows(LastTaken, input[1]) /\ input[1][1] \in 0..Len(kinds)
<1>1. Waiting \in Nat /\ Len(input) \in Nat /\ Len(inbox) \in Nat /\ Waiting = Len(input) + Len(inbox)
  BY Lengths DEF Waiting
<1>2. Len(input) >= 1
  BY <1>1 DEF TypeOK
<1>3. 0 \in 0..(Waiting - 1) /\ 1 \in 0..Waiting
  BY <1>1, <1>2
<1>4. Part(0) = LastTaken /\ Part(1) = input[1] /\ 0 + 1 = 1
  BY <1>1, <1>2 DEF Part
<1>5. Follows(Part(0), Part(0 + 1)) /\ Part(1)[1] \in 0..Len(kinds)
  BY <1>3 DEF Stream
<1> QED
  BY <1>2, <1>4, <1>5 DEF TypeOK

LEMMA SecondPart ==
  ASSUME TypeOK, Stream, Parsing, Len(input) >= 2
  PROVE  Follows(input[1], input[2])
<1>1. Waiting \in Nat /\ Len(input) \in Nat /\ Len(inbox) \in Nat /\ Waiting = Len(input) + Len(inbox)
  BY Lengths DEF Waiting
<1>2. 1 \in 0..(Waiting - 1)
  BY <1>1
<1>3. Part(1) = input[1] /\ Part(2) = input[2] /\ 1 + 1 = 2
  BY <1>1 DEF Part
<1>4. Follows(Part(1), Part(1 + 1))
  BY <1>2 DEF Stream
<1> QED
  BY <1>3, <1>4

\* What the parser takes of a request line is that of the next request.
LEMMA LineEffect ==
  ASSUME ConnInv, ParseLine, Len(input) >= 2
  PROVE  /\ UNCHANGED <<peerVars, inbox, wire, armed, outEvent, connected, output>>
         /\ pc = "parse" /\ state = "line" /\ ~err /\ connected
         /\ input' = SubSeq(input, 3, Len(input))
         /\ request' = request + 1 /\ request' \in 1..Len(kinds)
         /\ input[2] = <<request', 2>>
         /\ \/ kinds[request'] = "badLine" /\ Fail /\ state' = "line"
            \/ kinds[request'] # "badLine" /\ UNCHANGED <<pc, err>> /\ state' = "headers"
<1>1. TypeOK /\ Sent /\ Current /\ Stream /\ Ending
  BY DEF ConnInv
<1>2. Len(input) \in Nat /\ request \in Nat /\ Len(kinds) \in Nat
  BY <1>1, Lengths
<1>3. /\ UNCHANGED <<peerVars, inbox, wire, armed, outEvent, connected, output>>
      /\ pc = "parse" /\ state = "line"
      /\ input' = SubSeq(input, 3, Len(input)) /\ request' = input[1][1]
      /\ \/ kinds[request'] = "badLine" /\ Fail /\ state' = "line"
         \/ kinds[request'] # "badLine" /\ UNCHANGED <<pc, err>> /\ state' = "headers"
  BY <1>2 DEF ParseLine
<1>4. ~err /\ connected /\ Parsing
  BY <1>1, <1>3 DEF Ending, Parsing, Over, Erring
<1>5. LastTaken = <<request, 3>> /\ (request # 0 => PartsOf(kinds[request]) = 3)
  BY <1>1, <1>3, <1>4, PartsRange DEF LastTaken, Current, Over, Erring
<1>6. /\ Follows(LastTaken, input[1]) /\ input[1][1] \in 0..Len(kinds)
      /\ Follows(input[1], input[2])
  BY <1>1, <1>2, <1>4, FirstPart, SecondPart
<1>7. input[1] = <<request + 1, 1>>
  BY <1>5, <1>6 DEF Follows
<1>8. input[2] = <<request + 1, 2>>
  BY <1>2, <1>6, <1>7, PartsRange DEF Follows
<1> QED
  BY <1>2, <1>3, <1>4, <1>6, <1>7, <1>8

\* And what it takes of a header block is the request's own.
LEMMA HeadersEffect ==
  ASSUME ConnInv, ParseHeaders, input # <<>>
  PROVE  /\ UNCHANGED <<peerVars, inbox, wire, armed, outEvent, connected, request, output>>
         /\ pc = "parse" /\ state = "headers" /\ ~err /\ connected
         /\ input' = Tail(input) /\ input[1] = <<request, 3>>
         /\ request # 0 /\ kinds[request] # "badLine"
         /\ \/ kinds[request] = "badHeader" /\ Fail /\ state' = "headers"
            \/ /\ kinds[request] # "badHeader" /\ UNCHANGED <<pc, err>>
               /\ state' \in {"length", "analysis"}
<1>1. TypeOK /\ Sent /\ Current /\ Stream /\ Ending
  BY DEF ConnInv
<1>2. /\ UNCHANGED <<peerVars, inbox, wire, armed, outEvent, connected, request, output>>
      /\ pc = "parse" /\ state = "headers" /\ input' = Tail(input)
      /\ \/ kinds[request] = "badHeader" /\ Fail /\ state' = "headers"
         \/ /\ kinds[request] # "badHeader" /\ UNCHANGED <<pc, err>>
            /\ state' \in {"length", "analysis"}
  BY DEF ParseHeaders
<1>3. ~err /\ connected /\ Parsing
  BY <1>1, <1>2 DEF Ending, Parsing, Over, Erring
<1>4. /\ LastTaken = <<request, 2>> /\ request # 0 /\ kinds[request] # "badLine"
      /\ PartsOf(kinds[request]) \in Nat /\ PartsOf(kinds[request]) >= 3
  BY <1>1, <1>2, <1>3, PartsRange DEF LastTaken, Current, Over, Erring
<1>5. Follows(LastTaken, input[1])
  BY <1>1, <1>3, FirstPart
<1>6. input[1] = <<request, 3>>
  BY <1>4, <1>5 DEF Follows
<1> QED
  BY <1>2, <1>3, <1>4, <1>6

\* Without a whole line, the parser changes nothing.
LEMMA AgainStep ==
  ASSUME ConnInv, pc = "parse", state # "finish", Again
  PROVE  ConnInv'
<1>1. TypeOK /\ Sent /\ Current /\ Stream /\ Ending
  BY DEF ConnInv
<1>2. /\ UNCHANGED <<peerVars, inbox, wire, armed, outEvent, err, connected, parseVars, input, output>>
      /\ pc' = "answer"
  BY DEF Again
<1>3. TypeOK'
  BY <1>1, <1>2 DEF TypeOK, peerVars, parseVars
<1>4. Sent' /\ Current' /\ Ending'
  BY <1>1, <1>2 DEF Sent, Current, Parsing, Ending, peerVars, parseVars, Over, Erring
<1>5. Stream'
  BY <1>1, <1>2, StreamKept DEF peerVars, parseVars, Parsing, LastTaken, Over, Erring
<1> QED
  BY <1>3, <1>4, <1>5 DEF ConnInv

LEMMA ParseLineStep ==
  ASSUME ConnInv, ParseLine
  PROVE  ConnInv'
<1>1. TypeOK /\ Sent /\ Current /\ Stream /\ Ending
  BY DEF ConnInv
<1>2. Len(input) \in Nat /\ request \in Nat /\ input \in Seq(Requests \X (1..4))
  BY <1>1, Lengths DEF TypeOK
<1>3. CASE Len(input) < 2
  BY <1>3, AgainStep DEF ParseLine
<1>4. CASE Len(input) >= 2
  <2>1. /\ UNCHANGED <<peerVars, inbox, wire, armed, outEvent, connected, output>>
        /\ pc = "parse" /\ state = "line" /\ ~err /\ connected
        /\ input' = SubSeq(input, 3, Len(input))
        /\ request' = request + 1 /\ request' \in 1..Len(kinds)
        /\ input[2] = <<request', 2>>
        /\ \/ /\ kinds[request'] = "badLine" /\ pc' = "error" /\ state' = "line"
              /\ err' = TRUE
           \/ /\ kinds[request'] # "badLine" /\ pc' = "parse" /\ state' = "headers"
              /\ err' = err
    BY <1>4, LineEffect DEF Fail
  <2>2. /\ input' \in Seq(Requests \X (1..4)) /\ Len(input') = Len(input) - 2
        /\ \A i \in 1..(Len(input) - 2) : input'[i] = input[i + 2]
    BY <1>2, <1>4, <2>1, SubSeqProperties
  <2>3. TypeOK'
    <3>1. request' \in Nat
      BY <1>2, <2>1
    <3>2. pc' \in {"error", "parse"} /\ state' \in {"line", "headers"}
      BY <2>1
    <3>3. UNCHANGED <<peerVars, inbox, wire, armed, outEvent, connected, output>>
          /\ err' \in BOOLEAN
      BY <1>1, <2>1 DEF TypeOK
    <3>4. input' \in Seq(Requests \X (1..4))
      BY <2>2
    <3> QED
      BY <1>1, <3>1, <3>2, <3>3, <3>4 DEF TypeOK, peerVars
  <2>4. Sent' /\ Ending'
    BY <1>1, <2>1 DEF Sent, Ending, peerVars, Over, Erring
  <2>5. Current'
    BY <1>1, <1>2, <2>1 DEF Current, Parsing, peerVars, TypeOK, Over, Erring
  <2>6. Stream'
    <3>1. CASE pc' = "error"
      BY <3>1 DEF Stream, Parsing, Over, Erring
    <3>2. CASE state' = "headers"
      <4>1. LastTaken' = input[2] /\ Parsing /\ UNCHANGED <<kinds, parts, inbox>>
        BY <2>1, <3>2 DEF LastTaken, Parsing, peerVars, Over, Erring
      <4> QED
        BY <1>1, <1>4, <2>2, <4>1, StreamShift
    <3> QED
      BY <2>1, <3>1, <3>2
  <2> QED
    BY <2>3, <2>4, <2>5, <2>6 DEF ConnInv
<1> QED
  BY <1>2, <1>3, <1>4

LEMMA ParseHeadersStep ==
  ASSUME ConnInv, ParseHeaders
  PROVE  ConnInv'
<1>1. TypeOK /\ Sent /\ Current /\ Stream /\ Ending
  BY DEF ConnInv
<1>2. Len(input) \in Nat /\ request \in Nat /\ input \in Seq(Requests \X (1..4))
  BY <1>1, Lengths DEF TypeOK
<1>3. CASE input = <<>>
  BY <1>3, AgainStep DEF ParseHeaders
<1>4. CASE input # <<>>
  <2>1. /\ UNCHANGED <<peerVars, inbox, wire, armed, outEvent, connected, request, output>>
        /\ pc = "parse" /\ state = "headers" /\ ~err /\ connected
        /\ input' = Tail(input) /\ input[1] = <<request, 3>>
        /\ request # 0 /\ kinds[request] # "badLine"
        /\ \/ /\ kinds[request] = "badHeader" /\ pc' = "error" /\ state' = "headers"
              /\ err' = TRUE
           \/ /\ kinds[request] # "badHeader" /\ pc' = "parse"
              /\ state' \in {"length", "analysis"} /\ err' = err
    BY <1>4, HeadersEffect DEF Fail
  <2>2. /\ input' \in Seq(Requests \X (1..4)) /\ Len(input') = Len(input) - 1 /\ 1 <= Len(input)
        /\ \A i \in 1..(Len(input) - 1) : input'[i] = input[i + 1]
    BY <1>2, <1>4, <2>1, HeadTailProperties
  <2>3. TypeOK'
    BY <1>1, <2>1, <2>2 DEF TypeOK, peerVars
  <2>4. Sent' /\ Ending'
    BY <1>1, <2>1 DEF Sent, Ending, peerVars, Over, Erring
  <2>5. Current'
    BY <1>1, <1>2, <2>1 DEF Current, Parsing, peerVars, TypeOK, Over, Erring
  <2>6. Stream'
    <3>1. CASE pc' = "error"
      BY <3>1 DEF Stream, Parsing, Over, Erring
    <3>2. CASE state' \in {"length", "analysis"}
      <4>1. LastTaken' = input[1] /\ Parsing /\ UNCHANGED <<kinds, parts, inbox>>
        BY <2>1, <3>2 DEF LastTaken, Parsing, peerVars, Over, Erring
      <4> QED
        BY <1>1, <2>2, <4>1, StreamShift
    <3> QED
      BY <2>1, <3>1, <3>2
  <2> QED
    BY <2>3, <2>4, <2>5, <2>6 DEF ConnInv
<1> QED
  BY <1>3, <1>4

LEMMA ConnInvInit == Init => ConnInv
<1> SUFFICES ASSUME Init PROVE ConnInv
  OBVIOUS
<1>1. TypeOK
  <2>1. \A S : <<>> \in Seq(S) /\ Len(<<>>) = 0
    BY EmptySeq
  <2>2. kinds \in Seq(Kinds) /\ Len(kinds) <= MaxRequests
    BY <2>1, MaxAssumption DEF Init
  <2>3. /\ inbox \in Seq(Requests \X (1..4)) /\ input \in Seq(Requests \X (1..4))
        /\ wire \in Seq(0..StrayBytes) /\ output \in Seq(Requests)
    BY <2>1, Zenon DEF Init
  <2>4. /\ parts = 0 /\ request = 0
        /\ fin \in BOOLEAN /\ reset \in BOOLEAN /\ pipelined \in BOOLEAN
        /\ outEvent \in BOOLEAN /\ err \in BOOLEAN /\ connected \in BOOLEAN
    BY Zenon DEF Init
  <2>5. pc = "wait" /\ armed = "in" /\ state = "line"
    BY DEF Init
  <2> QED
    BY <2>2, <2>3, <2>4, <2>5 DEF TypeOK
<1>2. Sent /\ Current /\ Ending
  BY DEF Init, Sent, Current, Ending, Over, Erring
<1>3. Stream
  <2>1. Waiting = 0
    BY DEF Init, Waiting
  <2>2. Part(0)[1] = 0 /\ Len(kinds) = 0 /\ kinds = <<>>
    BY DEF Init, Part, LastTaken
  <2> QED
    BY <2>1, <2>2 DEF Stream
<1> QED
  BY <1>1, <1>2, <1>3 DEF ConnInv

LEMMA ConnInvStep == ConnInv /\ [Next]_vars => ConnInv'
BY QuietStep, AnswerStep, ErrorSteps, SticksStep, WritesErrorStep, CheckLengthStep, AnalysisStep, BeginRequestStep,
   SendPartStep, ReadStep, ParseLineStep, ParseHeadersStep DEF Next, ServerStep

-----------------------------------------------------------------------------
(* What is answered                                                        *)

LEMMA Halves ==
  /\ \A n \in Nat : 2 * n >= 0 /\ (2 * n) \div 2 = n /\ (2 * n + 1) \div 2 = n
  /\ \A n, i \in Nat : i >= 1 /\ i <= 2 * n => (i + 1) \div 2 >= 1 /\ (i + 1) \div 2 <= n
  /\ \A i \in Nat : i >= 1 => (i + 1) \div 2 >= 1
OBVIOUS

\* Without an error, wire and output buffer hold answers to whole requests.
LEMMA UnitsAnswer ==
  ASSUME TypeOK, NEW n \in Nat, Len(wire) >= 2 * n,
         \A i \in 1..Len(wire) : wire[i] = (i + 1) \div 2
  PROVE  \A r \in 1..n : Answered(r)
<1> TAKE r \in 1..n
<1>1. Len(wire) \in Nat
  BY Lengths
<1>2. 2 * r \in 2..Len(wire) /\ 2 * r - 1 \in 1..Len(wire) /\ 2 * r \in 1..Len(wire)
  BY <1>1
<1>3. (2 * r + 1) \div 2 = r /\ ((2 * r - 1) + 1) \div 2 = r
  BY Halves
<1>4. wire[2 * r] = r /\ wire[2 * r - 1] = r
  BY <1>2, <1>3
<1> QED
  BY <1>2, <1>4 DEF Answered

\* Nor is there an error response.
LEMMA NoErrorYet == TypeOK /\ Units /\ ~Over => InOrder /\ ErrorIsLast /\ ErrorLate
<1> SUFFICES ASSUME TypeOK, Units, ~Over PROVE InOrder /\ ErrorIsLast /\ ErrorLate
  OBVIOUS
<1>1. /\ \A i \in 1..Len(wire) : wire[i] = (i + 1) \div 2
      /\ \A i \in 1..Len(output) : output[i] = (Len(wire) + i + 1) \div 2
      /\ Len(wire) \in Nat
  BY Lengths DEF Units, Over, Erring
<1>2. \A i \in 1..Len(wire) : wire[i] # 0
  BY <1>1, Halves
<1>3. InOrder
  BY <1>1 DEF InOrder
<1>4. ErrorIsLast
  BY <1>2 DEF ErrorIsLast
<1> QED
  BY <1>3, <1>4 DEF ErrorLate, Over, Erring

LEMMA NoErrorYetNext ==
  ASSUME ConnInv', Units', Flushed', ErrorOf', ~Over'
  PROVE  AnswerInv'
<1>1. (TypeOK /\ Units /\ ~Over => InOrder /\ ErrorIsLast /\ ErrorLate)'
  BY NoErrorYet, PTL
<1>2. TypeOK'
  BY DEF ConnInv
<1> QED
  BY <1>1, <1>2 DEF AnswerInv

\* After an error, nothing more is written.
LEMMA ErrStep ==
  ASSUME ConnInv, AnswerInv, Over, [Next]_vars
  PROVE  AnswerInv'
<1>1. TypeOK /\ Current /\ err /\ pc \in {"answer", "restart", "register", "closed"}
  BY DEF ConnInv, Ending, Over, Erring
<1>2. /\ UNCHANGED <<wire, output, outEvent, err, request, armed>> /\ (reset => reset')
      /\ pc' \in {"answer", "restart", "register", "closed"}
  BY <1>1 DEF Next, ServerStep, vars, peerVars, parseVars, TypeOK, ReadEvent, WriteEvent, Read,
     ParseLine, ParseHeaders, CheckLength, Analysis, HandleError, WindowOpens, Answer, Restart,
     Write, HandleRegister, BeginRequest, SendPart, SendFin, Reset, Over, Erring
<1>3. request # 0 => kinds'[request] = kinds[request]
  <2>1. CASE UNCHANGED kinds
    BY <2>1
  <2>2. CASE BeginRequest
    <3>1. PICK k \in Kinds : kinds' = Append(kinds, k)
      BY <2>2 DEF BeginRequest
    <3>2. \A r \in 1..Len(kinds) : kinds'[r] = kinds[r]
      BY <1>1, <3>1, AppendProperties DEF TypeOK
    <3> QED
      BY <1>1, <3>2, Lengths DEF Current, Over, Erring
  <2> QED
    BY <1>1, <2>1, <2>2 DEF Next, ServerStep, vars, peerVars, ReadEvent, WriteEvent, Read,
       ParseLine, ParseHeaders, CheckLength, Analysis, HandleError, WindowOpens, Answer, Restart,
       Write, HandleRegister, SendPart, SendFin, Reset
<1>4. Units /\ Flushed /\ ErrorOf /\ ErrorLate /\ InOrder /\ ErrorIsLast
  BY DEF AnswerInv
<1>5. Units' /\ Flushed' /\ ErrorOf'
  BY <1>1, <1>2, <1>3, <1>4 DEF Units, Flushed, ErrorOf, Over, Erring
<1>6. \A r : Answered(r)' <=> Answered(r)
  BY <1>2 DEF Answered
<1>7. ErrorLate' /\ ErrorIsLast'
  BY <1>2, <1>4, <1>6 DEF ErrorLate, ErrorIsLast, Over, Erring
<1>8. InOrder'
  BY <1>2, <1>4 DEF InOrder
<1> QED
  BY <1>5, <1>7, <1>8 DEF AnswerInv

\* Steps that change nothing of the answers.
LEMMA QuietAnswer ==
  ASSUME ConnInv, ConnInv', AnswerInv, ~Over,
         ReadEvent \/ WriteEvent \/ SendFin \/ Reset \/ HandleRegister \/ UNCHANGED vars
           \/ BeginRequest \/ SendPart
  PROVE  AnswerInv'
<1>1. TypeOK /\ Current /\ Units /\ Flushed /\ ErrorOf
  BY DEF ConnInv, AnswerInv
<1>2. UNCHANGED <<wire, outEvent, err, connected, state, request, output>> /\ (reset => reset')
  BY <1>1 DEF ReadEvent, WriteEvent, SendFin, Reset, HandleRegister, vars, peerVars, parseVars,
     BeginRequest, SendPart, TypeOK
<1>3. /\ \/ pc' = pc
         \/ pc = "wait" /\ pc' = "read"
         \/ pc = "wait" /\ armed = "out" /\ pc' = "write"
         \/ pc = "register" /\ pc' \in {"wait", "closed"}
      /\ armed' = armed \/ (armed' = "out" => outEvent)
  BY DEF ReadEvent, WriteEvent, SendFin, Reset, HandleRegister, vars, BeginRequest, SendPart
<1>4. request # 0 => kinds'[request] = kinds[request]
  <2>1. CASE UNCHANGED kinds
    BY <2>1
  <2>2. CASE BeginRequest
    <3>1. PICK k \in Kinds : kinds' = Append(kinds, k)
      BY <2>2 DEF BeginRequest
    <3>2. \A r \in 1..Len(kinds) : kinds'[r] = kinds[r]
      BY <1>1, <3>1, AppendProperties DEF TypeOK
    <3> QED
      BY <1>1, <3>2, Lengths DEF Current, Over, Erring
  <2> QED
    BY <2>1, <2>2 DEF ReadEvent, WriteEvent, SendFin, Reset, HandleRegister, vars, peerVars, SendPart
<1>5. Units'
  BY <1>1, <1>2, <1>3 DEF Units, Done, Over, Erring
<1>6. Flushed'
  BY <1>1, <1>2, <1>3 DEF Flushed, Over, Erring
<1>7. ErrorOf'
  BY <1>1, <1>2, <1>3, <1>4 DEF ErrorOf, Over, Erring
<1> QED
  BY <1>2, <1>3, <1>5, <1>6, <1>7, NoErrorYetNext DEF Over, Erring

LEMMA ReadAnswer ==
  ASSUME ConnInv, ConnInv', AnswerInv, ~Over, Read
  PROVE  AnswerInv'
<1>1. TypeOK /\ Units /\ Flushed /\ ErrorOf
  BY DEF ConnInv, AnswerInv
<1>2. /\ UNCHANGED <<wire, outEvent, state, request, output, reset, armed>>
      /\ pc = "read" /\ ~err
      /\ \/ pc' = "error" /\ reset
         \/ pc' \in {"answer", "parse"} /\ ~err'
  BY DEF Read, Fail, peerVars, parseVars, Over, Erring
<1>3. Units' /\ Flushed' /\ ErrorOf'
  BY <1>1, <1>2 DEF Units, Done, Flushed, ErrorOf, Over, Erring
<1> QED
  BY <1>2, <1>3, NoErrorYetNext DEF Over, Erring

\* The parser leaves the answers as they are.
LEMMA ParseAnswer ==
  ASSUME ConnInv, ConnInv', AnswerInv, ~Over, ParseLine \/ ParseHeaders \/ CheckLength
  PROVE  AnswerInv'
<1>1. TypeOK /\ Units /\ Flushed /\ ErrorOf /\ Current /\ Ending
  BY DEF ConnInv, AnswerInv
<1>2. /\ UNCHANGED <<peerVars, wire, outEvent, output, armed, connected>>
      /\ pc = "parse" /\ connected /\ ~err
  BY <1>1 DEF ParseLine, ParseHeaders, CheckLength, Again, Ending, Over, Erring
<1>3. Len(wire) \in Nat /\ Len(output) \in Nat /\ request \in Nat /\ Len(input) \in Nat
      /\ (output = <<>> => Len(output) = 0)
  BY <1>1, Lengths
<1>4. /\ Done = IF state = "line" THEN request ELSE request - 1
      /\ \/ pc' = "answer" /\ request' = request /\ state' = state /\ err' = err
         \/ pc' = "parse" /\ Done' = Done /\ err' = err
         \/ pc' = "error" /\ request' # 0 /\ kinds[request'] # "get" /\ request' - 1 = Done
  <2>1. CASE ParseLine
    <3>1. CASE Len(input) < 2
      BY <2>1, <3>1 DEF ParseLine, Again, parseVars, Done
    <3>2. CASE Len(input) >= 2
      <4>1. /\ state = "line" /\ request' = request + 1
            /\ \/ kinds[request'] = "badLine" /\ pc' = "error" /\ state' = "line"
               \/ pc' = "parse" /\ state' = "headers" /\ err' = err
        BY <2>1, <3>2, LineEffect DEF Fail
      <4> QED
        BY <1>3, <4>1 DEF Done
    <3> QED
      BY <1>3, <3>1, <3>2
  <2>2. CASE ParseHeaders
    <3>1. CASE input = <<>>
      BY <2>2, <3>1 DEF ParseHeaders, Again, parseVars, Done
    <3>2. CASE input # <<>>
      <4>1. /\ state = "headers" /\ request' = request /\ request # 0
            /\ \/ kinds[request] = "badHeader" /\ pc' = "error" /\ state' = "headers"
               \/ pc' = "parse" /\ state' \in {"length", "analysis"} /\ err' = err
        BY <2>2, <3>2, HeadersEffect DEF Fail
      <4> QED
        BY <1>3, <4>1 DEF Done
    <3> QED
      BY <3>1, <3>2
  <2>3. CASE CheckLength
    <3>1. /\ state = "length" /\ request' = request /\ request # 0
          /\ \/ kinds[request] = "post" /\ pc' = "error" /\ state' = "length"
             \/ pc' = "parse" /\ state' = "analysis" /\ err' = err
             \/ pc' = "answer" /\ state' = state /\ err' = err
      BY <1>1, <2>3 DEF CheckLength, Fail, Current, Over, Erring
    <3> QED
      BY <1>3, <3>1 DEF Done
  <2> QED
    BY <2>1, <2>2, <2>3
<1>5. Units'
  BY <1>1, <1>2, <1>3, <1>4 DEF Units, Done, Over, Erring
<1>6. ~outEvent => output = <<>> /\ Len(wire) = 2 * Done
  BY <1>1, <1>2, <1>3 DEF Flushed, Units, Over, Erring
<1>7. Flushed'
  BY <1>1, <1>2, <1>4, <1>6 DEF Flushed, Over, Erring
<1>8. ErrorOf'
  BY <1>1, <1>2, <1>4 DEF ErrorOf, peerVars, Over, Erring
<1> QED
  BY <1>2, <1>4, <1>5, <1>7, <1>8, NoErrorYetNext DEF Over, Erring

\* An answer is put behind what is in the output buffer, or the request gets none.
LEMMA AnalysisAnswer ==
  ASSUME "hello" \notin Kinds, ConnInv, ConnInv', AnswerInv, ~Over, Analysis
  PROVE  AnswerInv'
<1>1. TypeOK /\ Units /\ Flushed /\ ErrorOf /\ Current /\ InOrder /\ ErrorIsLast
  BY DEF ConnInv, AnswerInv
<1>2. /\ UNCHANGED <<peerVars, wire, armed, outEvent, connected, request>>
      /\ pc = "parse" /\ state = "analysis" /\ connected
      /\ request # 0 /\ request \in Requests
  BY AnalysisEffect
<1>3. /\ Len(wire) \in Nat /\ Len(output) \in Nat /\ request \in Nat /\ output \in Seq(Requests)
      /\ (output = <<>> => Len(output) = 0)
  BY <1>1, Lengths DEF TypeOK
<1>4. Done = request - 1 /\ Len(wire) + Len(output) = 2 * (request - 1)
  BY <1>1, <1>2, <1>3 DEF Done, Units, Over, Erring
<1>5. ~outEvent => output = <<>> /\ Len(wire) = 2 * (request - 1)
  BY <1>1, <1>2, <1>3, <1>4 DEF Flushed, Over, Erring
<1>6. kinds[request] # "hello"
  <2>1. kinds[request] \in Kinds
    BY <1>1, <1>2, <1>3, Lengths DEF Current, TypeOK, Over, Erring
  <2> QED
    BY <2>1
<1>7. CASE kinds[request] = "get"
  <2>1. /\ Len(output') = Len(output) + 2
        /\ \A i \in 1..Len(output) : output'[i] = output[i]
        /\ output'[Len(output) + 1] = request /\ output'[Len(output) + 2] = request
        /\ state' = "finish" /\ pc' = "answer" /\ err' = err
    BY <1>7, AnalysisEffect
  <2>2. Done' = request
    BY <1>2, <2>1 DEF Done
  <2>3. (Len(wire) + (Len(output) + 1) + 1) \div 2 = request
        /\ (Len(wire) + (Len(output) + 2) + 1) \div 2 = request
    BY <1>3, <1>4, Halves
  <2>4. \A i \in 1..Len(output') : output'[i] = (Len(wire) + i + 1) \div 2
    <3> SUFFICES ASSUME NEW i \in 1..Len(output')
                 PROVE  output'[i] = (Len(wire) + i + 1) \div 2
      OBVIOUS
    <3>1. i \in 1..Len(output) \/ i = Len(output) + 1 \/ i = Len(output) + 2
      BY <1>3, <2>1
    <3>2. \A j \in 1..Len(output) : output[j] = (Len(wire) + j + 1) \div 2
      BY <1>1 DEF Units, Over, Erring
    <3> QED
      BY <2>1, <2>3, <3>1, <3>2
  <2>5. Units'
    BY <1>1, <1>2, <1>3, <1>4, <2>1, <2>2, <2>4 DEF Units, Over, Erring
  <2>6. Flushed' /\ ErrorOf'
    BY <1>1, <1>2, <2>1 DEF Flushed, ErrorOf, peerVars, Over, Erring
  <2> QED
    BY <1>2, <2>1, <2>5, <2>6, NoErrorYetNext DEF Over, Erring
<1>8. CASE kinds[request] = "missing"
  <2>1. /\ \/ output' = output
           \/ /\ Len(output') = Len(output) + 1
              /\ \A i \in 1..Len(output) : output'[i] = output[i]
              /\ output'[Len(output) + 1] = request
        /\ state' = "analysis" /\ pc' = "error" /\ err' = err
    BY <1>8, AnalysisEffect
  <2>2. (Len(wire) + (Len(output) + 1) + 1) \div 2 = request
    BY <1>3, <1>4, Halves
  <2>3. \A i \in 1..Len(output') : output'[i] = (Len(wire) + i + 1) \div 2
    <3> SUFFICES ASSUME NEW i \in 1..Len(output')
                 PROVE  output'[i] = (Len(wire) + i + 1) \div 2
      OBVIOUS
    <3>1. i \in 1..Len(output) \/ (i = Len(output) + 1 /\ output'[i] = request)
      BY <1>3, <2>1
    <3>2. i \in 1..Len(output) => output'[i] = output[i]
      BY <2>1
    <3>3. \A j \in 1..Len(output) : output[j] = (Len(wire) + j + 1) \div 2
      BY <1>1 DEF Units, Over, Erring
    <3> QED
      BY <2>2, <3>1, <3>2, <3>3
  <2>4. Units'
    BY <1>1, <1>2, <2>1, <2>3 DEF Units, Over, Erring
  <2>5. Flushed' /\ ErrorOf'
    BY <1>1, <1>2, <1>5, <1>8, <2>1 DEF Flushed, ErrorOf, peerVars, Over, Erring
  <2> QED
    BY <2>1, <2>4, <2>5, NoErrorYetNext DEF Over, Erring
<1>9. CASE kinds[request] = "postBody"
  <2>1. output' = output /\ state' = "analysis" /\ pc' = "answer" /\ err'
    BY <1>9, AnalysisEffect
  <2>2. Units' /\ Flushed' /\ ErrorOf'
    BY <1>1, <1>2, <1>9, <2>1 DEF Units, Flushed, ErrorOf, peerVars, Over, Erring
  <2>3. /\ \A i \in 1..Len(wire) : wire[i] = (i + 1) \div 2
        /\ \A i \in 1..Len(wire) : wire[i] # 0
    BY <1>1, <1>3, Halves DEF Units, Over, Erring
  <2>4. InOrder' /\ ErrorIsLast'
    BY <1>2, <2>1, <2>3 DEF InOrder, ErrorIsLast
  <2>5. ErrorLate'
    <3>1. ~outEvent => \A r \in 1..(request - 1) : Answered(r)
      BY <1>1, <1>3, <1>4, <1>5, <2>3, UnitsAnswer, request - 1 \in Nat
    <3>2. \A r : Answered(r)' <=> Answered(r)
      BY <1>2 DEF Answered
    <3> QED
      BY <1>2, <3>1, <3>2 DEF ErrorLate, Over, Erring
  <2> QED
    BY <2>2, <2>4, <2>5 DEF AnswerInv
<1> QED
  BY <1>6, <1>7, <1>8, <1>9, AnalysisEffect

\* What a thread writes of an error comes after what was written, with a unit that is no
\* answer between them at most.
LEMMA ErrorEffect ==
  ASSUME TypeOK, WritesError
  PROVE  /\ Len(wire') \in {Len(wire) + 1, Len(wire) + 2}
         /\ \A i \in 1..Len(wire) : wire'[i] = wire[i]
         /\ wire'[Len(wire')] = 0
         /\ \A i \in 1..Len(wire') :
              i \in 1..Len(wire) \/ i = Len(wire') \/ wire'[i] = StrayBytes
<1>1. wire \in Seq(0..StrayBytes) /\ Len(wire) \in Nat /\ 0 \in 0..StrayBytes
      /\ StrayBytes \in 0..StrayBytes
  BY Lengths, MaxAssumption DEF TypeOK, StrayBytes
<1> DEFINE S == 0..StrayBytes
<1> DEFINE stray == <<StrayBytes, 0>>
<1>2. wire \in Seq(S) /\ 0 \in S /\ stray \in Seq(S) /\ Len(stray) = 2
      /\ stray[1] = StrayBytes /\ stray[2] = 0
  <2> HIDE DEF StrayBytes
  <2> QED
    BY <1>1
<1>3. wire' = Append(wire, 0) \/ wire' = wire \o stray
  BY DEF WritesError
<1> HIDE DEF S, stray
<1>4. CASE wire' = Append(wire, 0)
  <2>1. /\ Len(wire') = Len(wire) + 1 /\ wire'[Len(wire) + 1] = 0
        /\ \A i \in 1..Len(wire) : wire'[i] = wire[i]
    BY <1>2, <1>4, AppendProperties
  <2> QED
    BY <1>1, <2>1
<1>5. CASE wire' = wire \o stray
  <2>1. /\ Len(wire') = Len(wire) + 2
        /\ \A i \in 1..(Len(wire) + 2) :
             wire'[i] = IF i <= Len(wire) THEN wire[i] ELSE stray[i - Len(wire)]
    <3>1. /\ Len(wire \o stray) = Len(wire) + Len(stray)
          /\ \A i \in 1..(Len(wire) + Len(stray)) :
               (wire \o stray)[i] = IF i <= Len(wire) THEN wire[i] ELSE stray[i - Len(wire)]
      BY <1>2, ConcatProperties
    <3> QED
      BY <1>2, <1>5, <3>1
  <2>2. wire'[Len(wire) + 1] = StrayBytes /\ wire'[Len(wire) + 2] = 0
    BY <1>1, <1>2, <2>1
  <2>3. \A i \in 1..(Len(wire) + 2) : i \in 1..Len(wire) \/ i = Len(wire) + 1 \/ i = Len(wire) + 2
    BY <1>1
  <2> QED
    BY <1>1, <2>1, <2>2, <2>3
<1> QED
  BY <1>3, <1>4, <1>5

LEMMA SticksAnswer ==
  ASSUME ConnInv, ConnInv', AnswerInv, Sticks
  PROVE  AnswerInv'
<1>1. Units /\ Flushed /\ ErrorOf
  BY DEF AnswerInv
<1>2. /\ UNCHANGED <<kinds, reset, wire, armed, outEvent, err, connected, state, request, output>>
      /\ pc = "error" /\ pc' = "stuck"
  BY DEF Sticks, peerVars, parseVars
<1>3. Units' /\ Flushed' /\ ErrorOf' /\ ~Over'
  BY <1>1, <1>2 DEF Units, Done, Flushed, ErrorOf, Over, Erring
<1> QED
  BY <1>3, NoErrorYetNext

LEMMA WritesErrorAnswer ==
  ASSUME ConnInv, AnswerInv, ~Over, WritesError
  PROVE  AnswerInv'
<1>1. TypeOK /\ Units /\ Flushed /\ ErrorOf /\ Current
  BY DEF ConnInv, AnswerInv
<1>2. /\ UNCHANGED <<kinds, reset, armed, outEvent, request>>
      /\ Erring /\ ~reset /\ err' /\ pc' = "answer"
  BY DEF WritesError, peerVars, parseVars
<1>3. /\ Len(wire) \in Nat /\ request \in Nat /\ MaxRequests \in Nat /\ Len(kinds) \in Nat
      /\ Len(kinds) <= MaxRequests
  BY <1>1, Lengths DEF TypeOK
<1>4. request # 0 /\ kinds[request] # "get" /\ request <= MaxRequests /\ request <= Len(kinds)
  BY <1>1, <1>2, <1>3 DEF ErrorOf, Current, Over, Erring
<1>5. \A i \in 1..Len(wire) : wire[i] = (i + 1) \div 2
  BY <1>1 DEF Units, Over, Erring
<1>6. /\ Len(wire') \in {Len(wire) + 1, Len(wire) + 2}
      /\ \A i \in 1..Len(wire) : wire'[i] = wire[i]
      /\ wire'[Len(wire')] = 0
      /\ \A i \in 1..Len(wire') :
           i \in 1..Len(wire) \/ i = Len(wire') \/ wire'[i] = StrayBytes
  BY <1>1, ErrorEffect
<1>7. StrayBytes = MaxRequests + 1 /\ StrayBytes \notin Requests /\ 0 \notin Requests
      /\ StrayBytes # 0 /\ request # StrayBytes
  BY <1>3, <1>4 DEF StrayBytes, Requests
<1>8. Units' /\ Flushed' /\ ErrorOf'
  BY <1>1, <1>2, <1>4 DEF Units, Flushed, ErrorOf, Over, Erring
<1>9. ~outEvent => Len(wire) = 2 * (request - 1)
  BY <1>1, <1>2 DEF Flushed, Over, Erring
<1>10. ~outEvent => \A r \in 1..(request - 1) : Answered(r)'
  <2>1. request - 1 \in Nat
    BY <1>3, <1>4
  <2>2. ~outEvent => \A r \in 1..(request - 1) : Answered(r)
    BY <1>1, <1>3, <1>5, <1>9, <2>1, UnitsAnswer
  <2>3. \A r : Answered(r) => Answered(r)'
    <3> SUFFICES ASSUME NEW r, Answered(r) PROVE Answered(r)'
      OBVIOUS
    <3>1. PICK i \in 2..Len(wire) : wire[i] = r /\ wire[i - 1] = r
      BY DEF Answered
    <3>2. i \in 2..Len(wire') /\ i \in 1..Len(wire) /\ i - 1 \in 1..Len(wire)
      BY <1>3, <1>6
    <3> QED
      BY <1>6, <3>1, <3>2 DEF Answered
  <2> QED
    BY <2>2, <2>3
<1>11. ErrorLate'
  BY <1>2, <1>10 DEF ErrorLate, Over, Erring
<1>12. InOrder'
  <2> SUFFICES ASSUME NEW i \in 1..Len(wire'), wire'[i] \in Requests
               PROVE  wire'[i] = (i + 1) \div 2
    BY <1>2 DEF InOrder, Requests
  <2>1. i \in 1..Len(wire)
    BY <1>6, <1>7
  <2> QED
    BY <1>5, <1>6, <2>1
<1>13. ErrorIsLast'
  <2> SUFFICES ASSUME NEW i \in 1..Len(wire'), wire'[i] = 0
               PROVE  /\ i = Len(wire')
                      /\ ~outEvent => \A j \in 1..i : wire'[j] # request
    BY <1>2, <1>10 DEF ErrorIsLast
  <2>1. \A j \in 1..Len(wire) : (j + 1) \div 2 # 0
    BY <1>3, Halves
  <2>2. i = Len(wire')
    BY <1>5, <1>6, <1>7, <2>1
  <2>3. ASSUME ~outEvent, NEW j \in 1..i PROVE wire'[j] # request
    <3>1. CASE j \in 1..Len(wire)
      <4>1. wire'[j] = (j + 1) \div 2
        BY <1>5, <1>6, <3>1
      <4>2. j <= 2 * (request - 1) /\ request - 1 \in Nat /\ j \in Nat /\ j >= 1
        BY <1>3, <1>4, <1>9, <2>3, <3>1
      <4>3. (j + 1) \div 2 <= request - 1
        BY <4>2, Halves
      <4> QED
        BY <1>3, <4>1, <4>3
    <3>2. CASE j = Len(wire') \/ wire'[j] = StrayBytes
      BY <1>4, <1>6, <1>7, <3>2
    <3> QED
      BY <1>6, <2>2, <3>1, <3>2
  <2> QED
    BY <2>2, <2>3
<1> QED
  BY <1>8, <1>11, <1>12, <1>13 DEF AnswerInv

\* Writing moves units from the output buffer to the wire, however many.
LEMMA WriteAnswer ==
  ASSUME ConnInv, ConnInv', AnswerInv, ~Over, NEW least \in Nat, HandleWrite(least),
         (pc = "answer" /\ pc' = "restart") \/ (pc = "write" /\ pc' = "register")
  PROVE  AnswerInv'
<1>1. TypeOK /\ Units /\ Flushed /\ ErrorOf /\ Current /\ Ending
  BY DEF ConnInv, AnswerInv
<1>2. UNCHANGED <<kinds, reset, armed, connected, request, state>>
  BY <1>1, WriteEffect DEF peerVars, parseVars
<1>3. /\ Len(wire) \in Nat /\ Len(output) \in Nat /\ request \in Nat /\ output \in Seq(Requests)
      /\ outEvent \in BOOLEAN
  BY <1>1, Lengths DEF TypeOK
<1>4. /\ \A i \in 1..Len(wire) : wire[i] = (i + 1) \div 2
      /\ \A i \in 1..Len(output) : output[i] = (Len(wire) + i + 1) \div 2
      /\ Len(wire) + Len(output) = 2 * Done /\ Done' = Done
  BY <1>1, <1>2 DEF Units, Done, Over, Erring
<1>5. CASE ~connected /\ UNCHANGED <<wire, output, err, outEvent>>
  <2>1. pc = "answer"
    BY <1>1, <1>5 DEF Ending, Over, Erring
  <2>2. Units' /\ Flushed' /\ ErrorOf'
    BY <1>1, <1>2, <1>4, <1>5, <2>1 DEF Units, Flushed, ErrorOf, Over, Erring
  <2> QED
    BY <1>5, <2>2, NoErrorYetNext DEF Over, Erring
<1>6. CASE err' /\ reset /\ UNCHANGED <<wire, output>> /\ outEvent'
  <2>1. Units' /\ Flushed' /\ ErrorOf' /\ ErrorLate'
    BY <1>2, <1>6 DEF Units, Flushed, ErrorOf, ErrorLate, Over, Erring
  <2>2. \A i \in 1..Len(wire) : (i + 1) \div 2 # 0
    BY <1>3, Halves
  <2>3. InOrder' /\ ErrorIsLast'
    BY <1>2, <1>4, <1>6, <2>2 DEF InOrder, ErrorIsLast
  <2> QED
    BY <2>1, <2>3 DEF AnswerInv
<1>7. CASE /\ ~err'
           /\ \E n \in 0..Len(output) :
                /\ Len(wire') = Len(wire) + n /\ Len(output') = Len(output) - n
                /\ \A i \in 1..Len(wire) : wire'[i] = wire[i]
                /\ \A i \in 1..n : wire'[Len(wire) + i] = output[i]
                /\ \A i \in 1..(Len(output) - n) : output'[i] = output[n + i]
                /\ outEvent' = (outEvent \/ n < Len(output))
  <2>1. PICK n \in 0..Len(output) :
          /\ Len(wire') = Len(wire) + n /\ Len(output') = Len(output) - n
          /\ \A i \in 1..Len(wire) : wire'[i] = wire[i]
          /\ \A i \in 1..n : wire'[Len(wire) + i] = output[i]
          /\ \A i \in 1..(Len(output) - n) : output'[i] = output[n + i]
          /\ outEvent' = (outEvent \/ n < Len(output))
    BY <1>7
  <2>2. ASSUME NEW i \in 1..Len(wire') PROVE wire'[i] = (i + 1) \div 2
    <3>1. CASE i \in 1..Len(wire)
      BY <1>4, <2>1, <3>1
    <3>2. CASE i \notin 1..Len(wire)
      <4>1. i - Len(wire) \in 1..n /\ i - Len(wire) \in 1..Len(output)
            /\ Len(wire) + (i - Len(wire)) = i
        BY <1>3, <2>1, <3>2
      <4>2. wire'[i] = output[i - Len(wire)]
        BY <2>1, <4>1
      <4>3. output[i - Len(wire)] = (Len(wire) + (i - Len(wire)) + 1) \div 2
        BY <1>4, <4>1
      <4> QED
        BY <4>1, <4>2, <4>3
    <3> QED
      BY <3>1, <3>2
  <2>3. ASSUME NEW i \in 1..Len(output') PROVE output'[i] = (Len(wire') + i + 1) \div 2
    <3>1. n + i \in 1..Len(output) /\ i \in 1..(Len(output) - n)
          /\ Len(wire) + (n + i) + 1 = Len(wire') + i + 1
      BY <1>3, <2>1
    <3> QED
      BY <1>4, <2>1, <3>1
  <2>4. Len(wire') + Len(output') = 2 * Done
    BY <1>3, <1>4, <2>1
  <2>5. Units'
    BY <1>4, <2>2, <2>3, <2>4 DEF Units, Over, Erring
  <2>6. outEvent => outEvent'
    BY <2>1
  <2>7. ~outEvent' => output' = <<>>
    <3>1. ~outEvent' => ~(n < Len(output))
      BY <2>1
    <3>2. n \in Nat /\ n <= Len(output) /\ Len(output') = Len(output) - n
      BY <1>3, <2>1
    <3>3. ~outEvent' => Len(output') = 0
      BY <1>3, <3>1, <3>2
    <3>4. output' \in Seq(Requests)
      BY DEF ConnInv, TypeOK
    <3> QED
      BY <3>3, <3>4
  <2>8. Flushed' /\ ErrorOf'
    BY <1>1, <1>2, <1>7, <2>6, <2>7 DEF Flushed, ErrorOf, Over, Erring
  <2> QED
    BY <1>7, <2>5, <2>8, NoErrorYetNext DEF Over, Erring
<1> QED
  BY <1>1, <1>5, <1>6, <1>7, WriteEffect DEF Over, Erring

LEMMA RestartAnswer ==
  ASSUME ConnInv, ConnInv', AnswerInv, ~Over, Restart
  PROVE  AnswerInv'
<1>1. TypeOK /\ Units /\ Flushed /\ ErrorOf
  BY DEF ConnInv, AnswerInv
<1>2. /\ UNCHANGED <<kinds, reset, wire, armed, outEvent, err, connected, request, output>>
      /\ pc = "restart" /\ pc' \in {"read", "register"} /\ Done' = Done
  BY DEF Restart, peerVars, Done
<1>3. Units' /\ Flushed' /\ ErrorOf'
  BY <1>1, <1>2 DEF Units, Flushed, ErrorOf, Over, Erring
<1> QED
  BY <1>2, <1>3, NoErrorYetNext DEF Over, Erring

-----------------------------------------------------------------------------
(* The theorems                                                            *)

LEMMA AnswerInvInit == Init => AnswerInv
<1> SUFFICES ASSUME Init PROVE AnswerInv
  OBVIOUS
<1>1. Len(wire) = 0 /\ Len(output) = 0 /\ output = <<>> /\ ~err /\ request = 0 /\ ~outEvent
      /\ pc = "wait" /\ armed = "in" /\ Done = 0
  BY DEF Init, Done
<1>2. Units /\ Flushed /\ ErrorOf
  BY <1>1 DEF Units, Flushed, ErrorOf, Over, Erring
<1>3. TypeOK
  BY ConnInvInit DEF ConnInv
<1> QED
  BY <1>1, <1>2, <1>3, NoErrorYet DEF AnswerInv, Over, Erring

LEMMA AnswerInvStep ==
  ASSUME "hello" \notin Kinds, ConnInv, AnswerInv, [Next]_vars
  PROVE  AnswerInv'
<1>1. ConnInv'
  BY ConnInvStep
<1>2. CASE Over
  BY <1>2, ErrStep
<1>3. CASE ~Over
  <2>1. CASE \/ ReadEvent \/ WriteEvent \/ SendFin \/ Reset \/ HandleRegister \/ UNCHANGED vars
             \/ BeginRequest \/ SendPart
    BY <1>1, <1>3, <2>1, QuietAnswer
  <2>2. CASE Read
    BY <1>1, <1>3, <2>2, ReadAnswer
  <2>3. CASE ParseLine \/ ParseHeaders \/ CheckLength
    BY <1>1, <1>3, <2>3, ParseAnswer
  <2>4. CASE Analysis
    BY <1>1, <1>3, <2>4, AnalysisAnswer
  <2>5. CASE HandleError \/ WindowOpens
    BY <1>1, <1>3, <2>5, ErrorSteps, SticksAnswer, WritesErrorAnswer
  <2>6. CASE Answer
    <3>1. PICK least \in Nat : HandleWrite(least)
      BY <1>3, <2>6, Lengths DEF Answer, ConnInv, Over, Erring
    <3>2. pc = "answer" /\ pc' = "restart"
      BY <1>3, <2>6 DEF Answer, Over, Erring
    <3>3. (pc = "answer" /\ pc' = "restart") \/ (pc = "write" /\ pc' = "register")
      BY <3>2
    <3> QED
      BY <1>1, <1>3, <3>1, <3>3, WriteAnswer
  <2>7. CASE Write
    <3>1. PICK least \in Nat : HandleWrite(least)
      BY <2>7 DEF Write
    <3>2. pc = "write" /\ pc' = "register"
      BY <2>7 DEF Write
    <3>3. (pc = "answer" /\ pc' = "restart") \/ (pc = "write" /\ pc' = "register")
      BY <3>2
    <3> QED
      BY <1>1, <1>3, <3>1, <3>3, WriteAnswer
  <2>8. CASE Restart
    BY <1>1, <1>3, <2>8, RestartAnswer
  <2> QED
    BY <2>1, <2>2, <2>3, <2>4, <2>5, <2>6, <2>7, <2>8 DEF Next, ServerStep
<1> QED
  BY <1>2, <1>3

\* Whoever closes has written what it owes.
LEMMA ClosedPaid ==
  ASSUME ConnInv, AnswerInv
  PROVE  AnsweredAtClose
<1> SUFFICES ASSUME pc = "closed", ~outEvent, ~reset, NEW r \in 1..request, Analysed(r)
             PROVE  Answered(r)
  BY DEF AnsweredAtClose
<1>1. TypeOK /\ Units /\ Flushed /\ ErrorOf /\ ErrorLate
  BY DEF ConnInv, AnswerInv
<1>2. request \in Nat /\ Len(wire) \in Nat /\ Len(output) \in Nat
  BY <1>1, Lengths
<1>3. CASE err
  <2>1. kinds[request] # "get"
    BY <1>1, <1>3 DEF ErrorOf, Over, Erring
  <2>2. r # request
    BY <1>2, <2>1 DEF Analysed
  <2>3. r \in 1..(request - 1)
    BY <1>2, <2>2
  <2> QED
    BY <1>1, <1>3, <2>3 DEF ErrorLate, Over, Erring
<1>4. CASE ~err
  <2>1. output = <<>>
    BY <1>1, <1>4 DEF Flushed, Over, Erring
  <2>2. Len(wire) = 2 * Done
    BY <1>1, <1>2, <1>4, <2>1 DEF Units, Over, Erring
  <2>3. r \in 1..Done /\ Done \in Nat
    BY <1>2 DEF Analysed, Done
  <2> QED
    BY <1>1, <1>4, <2>2, <2>3, UnitsAnswer DEF Units, Over, Erring
<1> QED
  BY <1>3, <1>4

\* IInv, with the answers' part for a site that does not serve "hello" (whose answer
\* replaces the output buffer, Http.cpp:499).
THEOREM Inductive == SafeSpec => [](ConnInv /\ ("hello" \notin Kinds => AnswerInv))
<1>1. Init => ConnInv /\ ("hello" \notin Kinds => AnswerInv)
  BY ConnInvInit, AnswerInvInit
<1>2. ConnInv /\ ("hello" \notin Kinds => AnswerInv) /\ [Next]_vars
        => (ConnInv /\ ("hello" \notin Kinds => AnswerInv))'
  BY ConnInvStep, AnswerInvStep
<1> QED
  BY <1>1, <1>2, PTL DEF SafeSpec

\* The variables keep to their ranges (HttpConn's actions).
THEOREM TypeCorrect == SafeSpec => []TypeOK
<1>1. ConnInv => TypeOK
  BY DEF ConnInv
<1> QED
  BY <1>1, Inductive, PTL

\* The parser takes up each request where the one before ended, part by part, whatever
\* came in between (Http::handleRead, parseRequestLine).
THEOREM StreamUnbroken == SafeSpec => []Stream
<1>1. ConnInv => Stream
  BY DEF ConnInv
<1> QED
  BY <1>1, Inductive, PTL

\* Responses leave in the order of the requests, none lost or repeated, for any number of
\* requests, however they are read and the responses written (Http::handleWrite).
THEOREM AnswersInOrder == SafeSpec => []("hello" \notin Kinds => InOrder)
<1>1. ConnInv /\ ("hello" \notin Kinds => AnswerInv) => ("hello" \notin Kinds => InOrder)
  BY DEF AnswerInv
<1> QED
  BY <1>1, Inductive, PTL

\* An error response comes last, after the answers to all requests before it, unless a
\* write was cut short (Http::handleError).
THEOREM ErrorComesLast == SafeSpec => []("hello" \notin Kinds => ErrorIsLast)
<1>1. ConnInv /\ ("hello" \notin Kinds => AnswerInv) => ("hello" \notin Kinds => ErrorIsLast)
  BY DEF AnswerInv
<1> QED
  BY <1>1, Inductive, PTL

\* A connection that closes has answered what it analysed, unless a write was cut short
\* (Http::handleClose).
THEOREM NothingOwedAtClose == SafeSpec => []("hello" \notin Kinds => AnsweredAtClose)
<1>1. ConnInv /\ ("hello" \notin Kinds => AnswerInv) => ("hello" \notin Kinds => AnsweredAtClose)
  BY ClosedPaid
<1> QED
  BY <1>1, Inductive, PTL

=============================================================================
