--------------------------- MODULE MCRequestParser ---------------------------
(* Requests with one of many lines and one header block, or one line and one of many *)
(* header blocks.                                                                    *)
EXTENDS RequestParser, MCHeaderParser

MCReqLetters == MCLetters \union {"/", "?", "HTTP", "index.html"} \union Methods \union Versions

\* A request line, what it means, and the path it has with its query.
Sent(method, path, query, version) ==
  [text |-> <<method, "SP", "/">> \o path \o query \o <<"SP", "HTTP", "/", version>>,
   path |-> path \o query,
   line |-> [method  |-> method,
             uri     |-> IF path = <<>> THEN <<"index.html">> ELSE path,
             version |-> version]]

Paths == {<<>>, <<"a">>, <<"a", "b">>, <<"GET">>, <<"HEAD">>, <<"a", "/", "b">>, <<"1.0">>}
Queries == {<<>>, <<"?">>, <<"?", "b">>, <<"?", "b", "?">>}

\* A request without a path is one for index.html.
NoPath == {[text |-> <<m>>, path |-> <<>>,
            line |-> [method |-> m, uri |-> <<"index.html">>, version |-> "1.1"]] : m \in Methods}

NoLines ==
  {[text |-> t, path |-> <<>>, line |-> NoLine] :
     t \in {<<"a", "SP", "/", "SP", "HTTP", "/", "1.1">>, <<"GET", "SP", "/">>,
            <<"GET", "SP", "/", "a", "SP", "HTTP">>, <<"POST", "SP", "/", "SP", "HTTP", "/", "a">>}}

AllLines ==
  {Sent(m, p, q, v) : m \in Methods, p \in Paths, q \in Queries, v \in Versions}
    \union NoPath \union NoLines

Request(l, m) ==
  [text |-> l.text \o End \o m.text, line |-> l.line, path |-> l.path,
   headers |-> m.headers, rest |-> m.rest, fields |-> m.fields,
   starts |-> [k \in 1..Len(m.starts) |-> m.starts[k] + Len(l.text) + 2]]

ALine == Sent("GET", <<"a">>, <<>>, "1.1")
ABlock == CHOOSE m \in OneHeader : m.headers = {<<<<"a">>, <<"b">>>>} /\ m.rest = <<>>

MCRequests == {Request(l, ABlock) : l \in AllLines} \union {Request(ALine, m) : m \in MCMessages}

\* What the theorems about requests ask of them.
ASSUME \A m \in MCRequests : WellFormed(m)
=============================================================================
