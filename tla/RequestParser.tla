---------------------------- MODULE RequestParser ----------------------------
(***************************************************************************)
(* A request's way through handleRead's parser: parseRequestLine, which    *)
(* waits for a whole line, and then parseRequestHeader on what is left of  *)
(* the input buffer and on what arrives after it (HeaderParser).           *)
(*                                                                         *)
(* A method, "HTTP" and a version are one character each of Letters, so    *)
(* that find("GET") is a search for one of them.                           *)
(***************************************************************************)
EXTENDS HeaderParser

Methods == {"GET", "POST", "HEAD"}
Versions == {"1.0", "1.1"}

\* What the code takes from a request line, and what the peer means by one.  A message
\* has two more fields: line, NoLine if its first line is not a request line, and path, the
\* text between the first slash and the space, with its query.
Lines == [method : Methods, uri : Text, version : Versions]
NoLine == [method |-> "none", uri |-> <<>>, version |-> "none"]

ASSUME LettersAssumption ==
  Methods \union Versions \union {"/", "?", "index.html"} \subseteq Letters
ASSUME LinesAssumption == \A m \in Messages : m.line \in Lines \union {NoLine}

VARIABLES
  state,   \* state_: "line" or "headers"
  line     \* method_, uri_ and version_

reqVars == <<vars, state, line>>

ReqInit == Init /\ state = "line" /\ line = NoLine

-----------------------------------------------------------------------------
(* parseRequestLine                                                        *)

\* std::string::find: the first place at or behind from, or 0.
Find(s, c, from) ==
  LET places == {p \in from..Len(s) : s[p] = c}
  IN  IF places = {} THEN 0 ELSE CHOOSE p \in places : \A q \in places : p <= q

\* The place of "\r\n", or 0.
FindCrLf(s) ==
  LET places == {p \in 1..(Len(s) - 1) : s[p] = "\r" /\ s[p + 1] = "\n"}
  IN  IF places = {} THEN 0 ELSE CHOOSE p \in places : \A q \in places : p <= q

\* GET is looked for first, then POST, then HEAD, each anywhere in the line.
MethodOf(s) ==
  IF Find(s, "GET", 1) # 0 THEN "GET"
  ELSE IF Find(s, "POST", 1) # 0 THEN "POST"
  ELSE IF Find(s, "HEAD", 1) # 0 THEN "HEAD" ELSE "none"

\* Mutant: the query is kept.
UriWithQuery(s, from, to) ==
  IF from + 1 = to THEN <<"index.html">> ELSE SubSeq(s, from + 1, to - 1)

\* The path between the slash and the space, without its query.
UriOf(s, from, to) ==
  LET path == SubSeq(s, from + 1, to - 1)
      query == Find(path, "?", 1)
      file == IF query = 0 THEN path ELSE SubSeq(path, 1, query - 1)
  IN  IF file = <<>> THEN <<"index.html">> ELSE file

\* Mutant: the slash of the path is found again.
VersionSameSlash(s, from) ==
  LET slash == Find(s, "/", from - 1)
  IN  IF slash = 0 \/ slash = Len(s) \/ s[slash + 1] \notin Versions THEN "none" ELSE s[slash + 1]

\* What follows the next slash.
VersionOf(s, from) ==
  LET slash == Find(s, "/", from)
  IN  IF slash = 0 \/ slash = Len(s) \/ s[slash + 1] \notin Versions THEN "none" ELSE s[slash + 1]

\* A line as it is parsed; NoLine for PARSE_LINE_ERROR.
ParseLine(s) ==
  LET method == MethodOf(s)
      slash == Find(s, "/", IF method = "none" THEN 1 ELSE Find(s, method, 1))
      space == Find(s, "SP", slash)
  IN  IF method = "none" THEN NoLine
      ELSE IF slash = 0
             THEN [method |-> method, uri |-> <<"index.html">>, version |-> "1.1"]
      ELSE IF space = 0 \/ VersionOf(s, slash + 1) = "none" THEN NoLine
      ELSE [method |-> method, uri |-> UriOf(s, slash, space), version |-> VersionOf(s, slash + 1)]

\* What is left of the buffer behind the line.
LineRest(s, end) == SubSeq(s, end + 2, Len(s))

\* More of the text arrives in handleRead's state STATE_PARSE_REQUESTLINE; with a whole
\* line, it goes on with the headers at once.
ReceiveLine ==
  /\ state = "line" /\ pc = "wait"
  /\ \E n \in arrived + 1 .. Len(message.text) :
       /\ Cut(n)
       /\ arrived' = n
       /\ LET input == buffer \o SubSeq(message.text, arrived + 1, n)
              end == FindCrLf(input)
          IN  \/ /\ end = 0
                 /\ buffer' = input
                 /\ UNCHANGED <<pc, state, line>>
              \/ /\ end # 0
                 /\ buffer' = LineRest(input, end)
                 /\ line' = ParseLine(SubSeq(input, 1, end - 1))
                 /\ IF line' = NoLine
                      THEN pc' = "error" /\ UNCHANGED state
                      ELSE pc' = "scan" /\ state' = "headers"
  /\ UNCHANGED <<message, hState, headers, i, locals>>

ParseHeaders == state = "headers" /\ Next /\ UNCHANGED <<state, line>>

-----------------------------------------------------------------------------
ReqNext == ReceiveLine \/ ParseHeaders

ReqSpec == ReqInit /\ [][ReqNext]_reqVars

-----------------------------------------------------------------------------
(* What the peer means                                                     *)

\* "<method> /<path> HTTP/<version>", for the n characters of the path before its query,
\* where none mean index.html.
FullLine(s, m) ==
  /\ m.line \in Lines
  /\ m.path \in Text /\ \A p \in 1..Len(m.path) : m.path[p] # "SP"
  /\ \E n \in 0..Len(m.path) :
       /\ \A p \in 1..n : m.path[p] # "?"
       /\ n = Len(m.path) \/ m.path[n + 1] = "?"
       /\ m.line.uri = IF n = 0 THEN <<"index.html">> ELSE SubSeq(m.path, 1, n)
  /\ s = <<m.line.method, "SP", "/">> \o m.path \o <<"SP", "HTTP", "/", m.line.version>>

\* "<method>", a request for index.html.
ShortLine(s, m) ==
  /\ m.line \in [method : Methods, uri : {<<"index.html">>}, version : {"1.1"}]
  /\ m.path = <<>>
  /\ s = <<m.line.method>>

\* What is not a request line: one without a method, or with the path but no space behind
\* it or no version.
NotALine(s, m) ==
  /\ m.line = NoLine
  /\ \/ \A p \in 1..Len(s) : s[p] \notin Methods
     \/ /\ Len(s) >= 3 /\ s[1] \in Methods /\ s[2] = "SP" /\ s[3] = "/"
        /\ \A p \in 4..Len(s) : s[p] \notin Methods
        /\ \/ \A p \in 4..Len(s) : s[p] # "SP"
           \/ \A p \in 4..(Len(s) - 1) : s[p] = "/" => s[p + 1] \notin Versions

\* A request: a line, which ends at the first "\r\n", and a header block.
WellFormed(m) ==
  LET end == m.starts[1] - 1
      s == SubSeq(m.text, 1, end - 1)
  IN  /\ WellFormedBlock(m)
      /\ end >= 1 /\ m.text[end] = "\r" /\ m.text[end + 1] = "\n"
      /\ \A p \in 1..(end - 1) : ~(m.text[p] = "\r" /\ m.text[p + 1] = "\n")
      /\ FullLine(s, m) \/ ShortLine(s, m) \/ NotALine(s, m)

-----------------------------------------------------------------------------
\* The code takes the first method of its own order and the first slash behind the path's
\* for what they are in "<method> /<path> HTTP/<version>": it takes a line for what it
\* means if the path has no such word and no directory.
Plain(m) ==
  /\ m.line # NoLine
  /\ \A p \in 1..Len(m.path) : m.path[p] \notin Methods \union {"/"}

\* A plain request line is taken with the method, path and version that were sent, however
\* it was cut, and its query dropped; what is not a request line is refused.
LineAsSent ==
  /\ state = "headers" => (Plain(message) => line = message.line) /\ message.line # NoLine
  /\ state = "line" /\ pc = "error" => ~Plain(message)

\* What the peer sent is what the server works on: the line, each header, and behind them
\* all that followed the request.
RequestAsSent == LineAsSent /\ HeadersAsSent /\ RestKept

\* A complete plain request is accepted: no error, and no waiting for more.
RequestAccepted == Plain(message) => Accepted
=============================================================================
