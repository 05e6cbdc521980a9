---------------------------- MODULE HeaderParser ----------------------------
(***************************************************************************)
(* Http::parseRequestHeader: the state machine that takes a header block   *)
(* from the input buffer, called again by handleRead for every piece of it *)
(* that arrives.  Each iteration of its loop is a step.                    *)
(*                                                                         *)
(* The positions (key_start, ...) are local and start at 0 in each call,   *)
(* hState_ and the headers stay.  Positions count from 0 as in the code.   *)
(***************************************************************************)
EXTENDS Naturals, Sequences

CONSTANTS
  Letters,       \* the characters that mean nothing to the parser
  Messages,      \* what the peer may send: the text after a request line, the headers
                 \* it stands for, what follows its header block, and how the block is made
                 \* (WellFormedBlock)
  SplitAnywhere  \* the text may arrive in any pieces, not only cut in its first key

\* "SP" is the space.
Chars == Letters \union {":", "SP", "\r", "\n"}
Text == Seq(Chars)

ASSUME MessagesAssumption ==
  \A m \in Messages : m.text \in Text /\ m.headers \in SUBSET (Text \X Text) /\ m.rest \in Text
ASSUME SplitAssumption == SplitAnywhere \in BOOLEAN

VARIABLES
  message,     \* what the peer sends
  arrived,     \* how many characters of its text arrived
  pc,          \* "wait" for input, "scan", or the result of the parser
  hState,      \* hState_
  buffer,      \* http_request, the input buffer
  headers,     \* request_.headers_, as pairs of key and value
  i, keyStart, keyEnd, valueStart, valueEnd, readLinePos   \* the locals

locals == <<keyStart, keyEnd, valueStart, valueEnd, readLinePos>>
vars == <<message, arrived, pc, hState, buffer, headers, i, locals>>

Init ==
  /\ message \in Messages
  /\ arrived = 0
  /\ pc = "wait"
  /\ hState = "START"
  /\ buffer = <<>>
  /\ headers = {}
  /\ i = 0
  /\ keyStart = 0 /\ keyEnd = 0 /\ valueStart = 0 /\ valueEnd = 0 /\ readLinePos = 0

-----------------------------------------------------------------------------
\* The text may be cut after its first n characters.
Cut(n) ==
  SplitAnywhere \/ n = Len(message.text) \/ \A j \in 1..n : message.text[j] # ":"

\* More of the text arrives, and handleRead calls the parser.
Call ==
  /\ pc = "wait"
  /\ \E n \in arrived + 1 .. Len(message.text) :
       /\ Cut(n)
       /\ arrived' = n
       /\ buffer' = buffer \o SubSeq(message.text, arrived + 1, n)
  /\ pc' = "scan"
  /\ i' = 0
  /\ keyStart' = 0 /\ keyEnd' = 0 /\ valueStart' = 0 /\ valueEnd' = 0 /\ readLinePos' = 0
  /\ UNCHANGED <<message, hState, headers>>

\* The character under the loop, and the characters from position a up to b.
Char == buffer[i + 1]
Slice(a, b) == SubSeq(buffer, a + 1, b)

\* The loop goes on behind the character it looked at.
Scanning(state) ==
  /\ pc = "scan"
  /\ i < Len(buffer)
  /\ hState = state
  /\ i' = i + 1
  /\ UNCHANGED <<message, arrived, buffer>>

Error == pc' = "error" /\ UNCHANGED hState

\* Mutant: the key is taken to start one character early.
HStartEarly ==
  /\ Scanning("START")
  /\ IF Char \in {"\r", "\n"}
       THEN UNCHANGED <<hState, keyStart, readLinePos>>
       ELSE hState' = "KEY" /\ keyStart' = i - 1 /\ readLinePos' = i
  /\ UNCHANGED <<pc, headers, keyEnd, valueStart, valueEnd>>

HStart ==
  /\ Scanning("START")
  /\ IF Char \in {"\r", "\n"}
       THEN UNCHANGED <<hState, keyStart, readLinePos>>
       ELSE hState' = "KEY" /\ keyStart' = i /\ readLinePos' = i
  /\ UNCHANGED <<pc, headers, keyEnd, valueStart, valueEnd>>

\* Mutant: key_end is not set.
HKeyOpen ==
  /\ Scanning("KEY")
  /\ IF Char = ":" /\ i > keyStart
       THEN hState' = "SPACES_AFTER_COLON" /\ UNCHANGED pc
       ELSE IF Char = ":" THEN Error ELSE UNCHANGED <<pc, hState>>
  /\ UNCHANGED <<headers, locals>>

HKey ==
  /\ Scanning("KEY")
  /\ IF Char = ":"
       THEN /\ keyEnd' = i
            /\ IF i <= keyStart THEN Error ELSE hState' = "SPACES_AFTER_COLON" /\ UNCHANGED pc
       ELSE UNCHANGED <<pc, hState, keyEnd>>
  /\ UNCHANGED <<headers, keyStart, valueStart, valueEnd, readLinePos>>

\* Exactly one space.
HSpacesAfterColon ==
  /\ Scanning("SPACES_AFTER_COLON")
  /\ IF Char = "SP"
       THEN hState' = "VALUE" /\ valueStart' = i + 1 /\ UNCHANGED pc
       ELSE Error /\ UNCHANGED valueStart
  /\ UNCHANGED <<headers, keyStart, keyEnd, valueEnd, readLinePos>>

HValue ==
  /\ Scanning("VALUE")
  /\ IF Char = "\r"
       THEN /\ valueEnd' = i
            /\ IF i <= valueStart THEN Error ELSE hState' = "CR" /\ UNCHANGED pc
       ELSE UNCHANGED <<pc, hState, valueEnd>>
  /\ UNCHANGED <<headers, keyStart, keyEnd, valueStart, readLinePos>>

\* headers_[key] = value
SetHeader(key, value) ==
  headers' = {h \in headers : h[1] # key} \union {<<key, value>>}

HCr ==
  /\ Scanning("CR")
  /\ IF Char = "\n"
       THEN /\ hState' = "LF"
            /\ SetHeader(Slice(keyStart, keyEnd), Slice(valueStart, valueEnd))
            /\ readLinePos' = i
            /\ UNCHANGED pc
       ELSE Error /\ UNCHANGED <<headers, readLinePos>>
  /\ UNCHANGED <<keyStart, keyEnd, valueStart, valueEnd>>

HLf ==
  /\ Scanning("LF")
  /\ IF Char = "\r"
       THEN hState' = "END_CR" /\ UNCHANGED keyStart
       ELSE hState' = "KEY" /\ keyStart' = i
  /\ UNCHANGED <<pc, headers, keyEnd, valueStart, valueEnd, readLinePos>>

\* Mutant: the last line feed is left in the buffer.
HEndCrKept ==
  /\ pc = "scan" /\ i < Len(buffer) /\ hState = "END_CR"
  /\ IF Char = "\n"
       THEN /\ readLinePos' = i
            /\ buffer' = Slice(i, Len(buffer))
            /\ pc' = "success"
       ELSE UNCHANGED <<readLinePos, buffer, pc>>
  /\ i' = i + 1
  /\ UNCHANGED <<message, arrived, hState, headers, keyStart, keyEnd, valueStart, valueEnd>>

\* The end of the block, cut off the buffer; any other character is skipped.
HEndCr ==
  /\ pc = "scan" /\ i < Len(buffer) /\ hState = "END_CR"
  /\ IF Char = "\n"
       THEN /\ readLinePos' = i
            /\ buffer' = Slice(i + 1, Len(buffer))
            /\ pc' = "success"
       ELSE UNCHANGED <<readLinePos, buffer, pc>>
  /\ i' = i + 1
  /\ UNCHANGED <<message, arrived, hState, headers, keyStart, keyEnd, valueStart, valueEnd>>

\* Mutant: the buffer is cut at the character last looked at.
AgainAtEnd ==
  /\ pc = "scan" /\ i = Len(buffer)
  /\ buffer' = <<>>
  /\ pc' = "wait"
  /\ UNCHANGED <<message, arrived, hState, headers, i, locals>>

\* PARSE_HEADER_AGAIN: the buffer is kept from the last line read.
Again ==
  /\ pc = "scan" /\ i = Len(buffer)
  /\ buffer' = Slice(readLinePos, Len(buffer))
  /\ pc' = "wait"
  /\ UNCHANGED <<message, arrived, hState, headers, i, locals>>

-----------------------------------------------------------------------------
Next ==
  \/ Call \/ Again
  \/ HStart \/ HKey \/ HSpacesAfterColon \/ HValue \/ HCr \/ HLf \/ HEndCr

Spec == Init /\ [][Next]_vars

-----------------------------------------------------------------------------
(* What the peer means                                                     *)

\* A key and a value that a line of a header block can hold.
IsHeader(h) ==
  /\ h[1] # <<>> /\ h[1][1] \notin {"\r", "\n"} /\ \A p \in 1..Len(h[1]) : h[1][p] # ":"
  /\ h[2] # <<>> /\ \A p \in 1..Len(h[2]) : h[2][p] # "\r"

HeaderText(h) == h[1] \o <<":", "SP">> \o h[2] \o <<"\r", "\n">>

\* The headers that the first n of fields stand for: of those with the same key, the last.
LastOf(fields, n) ==
  {fields[k] : k \in {k \in 1..n : \A j \in k + 1..n : fields[j][1] # fields[k][1]}}

\* A message with a header block: fields has its headers as they were sent, one or more,
\* and starts the number of characters before each of them and before the empty line.
WellFormedBlock(m) ==
  LET n == Len(m.fields)
      end == m.starts[n + 1]
  IN  /\ m.fields \in Seq(Text \X Text) /\ n >= 1
      /\ m.starts \in Seq(Nat) /\ Len(m.starts) = n + 1
      /\ \A k \in 1..n :
           /\ IsHeader(m.fields[k])
           /\ m.starts[k + 1] = m.starts[k] + Len(HeaderText(m.fields[k]))
           /\ m.starts[k + 1] <= Len(m.text)
           /\ SubSeq(m.text, m.starts[k] + 1, m.starts[k + 1]) = HeaderText(m.fields[k])
      /\ end + 2 <= Len(m.text) /\ m.text[end + 1] = "\r" /\ m.text[end + 2] = "\n"
      /\ m.headers = LastOf(m.fields, n)
      /\ m.rest = SubSeq(m.text, end + 3, Len(m.text))

-----------------------------------------------------------------------------
HStates == {"START", "KEY", "SPACES_AFTER_COLON", "VALUE", "CR", "LF", "END_CR"}

\* The variables keep to their ranges.
TypeOK ==
  /\ message \in Messages
  /\ arrived \in 0..Len(message.text)
  /\ pc \in {"wait", "scan", "success", "error"}
  /\ hState \in HStates
  /\ buffer \in Text
  /\ headers \in SUBSET (Text \X Text)
  /\ {i, keyStart, keyEnd, valueStart, valueEnd, readLinePos} \subseteq Nat

\* The strings cut out of the buffer lie in it: the iterator pairs that make a key and a
\* value are ranges, and so is what substr() keeps, whatever the text and its pieces.
RangesValid ==
  pc = "scan" =>
    /\ i <= Len(buffer) /\ readLinePos <= i
    /\ hState = "CR" => /\ keyStart <= keyEnd /\ keyEnd <= i
                        /\ valueStart <= valueEnd /\ valueEnd <= i

\* A block that was taken gave the headers the peer sent: no key or value is cut short
\* or runs into its neighbour, and a later header wins over an earlier one of its name
\* (README.md:34: the request is parsed by a state machine).
HeadersAsSent == pc = "success" => headers = message.headers

\* Exactly the block is taken from the stream: a body, or the next request, stays.
RestKept ==
  pc = "success" =>
    buffer \o SubSeq(message.text, arrived + 1, Len(message.text)) = message.rest

\* A complete block is accepted: no error, and no waiting for more.
Accepted == pc # "error" /\ ~(pc = "wait" /\ arrived = Len(message.text))
=============================================================================
