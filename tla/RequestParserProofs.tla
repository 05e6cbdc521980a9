-------------------------- MODULE RequestParserProofs --------------------------
(***************************************************************************)
(* For every text, well-formed or not, and every way it is cut in pieces,  *)
(* handleRead's parser keeps to its types and cuts its strings out of the  *)
(* buffer within its bounds: the header scanner alone first, then both     *)
(* parsers from the first character of the request line to the end of the  *)
(* headers.  From a well-formed request of any length, cut nowhere but in  *)
(* its line or its first key, it takes what the peer meant, and accepts it.*)
(***************************************************************************)
EXTENDS RequestParser, SequenceTheorems, WellFoundedInduction, TLAPS

\* What the loop maintains about its positions.  The states behind the colon know that
\* the key is closed, even if a new call has set all the positions back to 0.
Positions ==
  pc = "scan" =>
    /\ i <= Len(buffer)
    /\ readLinePos <= i
    /\ keyStart <= i
    /\ hState \in {"SPACES_AFTER_COLON", "VALUE", "CR"} => keyStart <= keyEnd /\ keyEnd <= i
    /\ hState = "VALUE" => valueStart <= i
    /\ hState = "CR" => valueStart <= valueEnd /\ valueEnd <= i

Inv == TypeOK /\ Positions

\* A slice of the buffer within its bounds is a text.
LEMMA SliceType ==
  ASSUME buffer \in Text, NEW a \in Nat, NEW b \in Nat, a <= b, b <= Len(buffer)
  PROVE  Slice(a, b) \in Text
<1>1. Len(buffer) \in Nat
  BY DEF Text
<1>2. a + 1 \in 1 .. Len(buffer) + 1 /\ b \in 0 .. Len(buffer)
  BY <1>1
<1> QED
  BY <1>2, SubSeqProperties DEF Slice, Text

LEMMA InitInv == Init => Inv
<1> SUFFICES ASSUME Init PROVE Inv
  OBVIOUS
<1>1. Len(message.text) \in Nat
  BY MessagesAssumption DEF Init, Text
<1>2. buffer \in Text /\ Len(buffer) = 0
  BY DEF Init, Text
<1> QED
  BY <1>1, <1>2 DEF Init, Inv, TypeOK, Positions, HStates

LEMMA CallInv == Inv /\ Call => Inv'
<1> SUFFICES ASSUME Inv, Call PROVE Inv'
  OBVIOUS
<1>1. PICK n \in arrived + 1 .. Len(message.text) :
        /\ arrived' = n
        /\ buffer' = buffer \o SubSeq(message.text, arrived + 1, n)
  BY DEF Call
<1>2. message.text \in Text /\ Len(message.text) \in Nat
  BY MessagesAssumption DEF Inv, TypeOK, Text
<1>3. arrived \in Nat /\ n \in Nat /\ n <= Len(message.text)
  BY <1>2 DEF Inv, TypeOK
<1>4. SubSeq(message.text, arrived + 1, n) \in Text
  BY <1>2, <1>3, SubSeqProperties DEF Text
<1>5. buffer' \in Text
  BY <1>1, <1>4, ConcatProperties DEF Inv, TypeOK, Text
<1>6. Len(buffer') \in Nat
  BY <1>5 DEF Text
<1>7. TypeOK'
  BY <1>1, <1>2, <1>3, <1>5 DEF Inv, TypeOK, Call
<1>8. Positions'
  BY <1>6 DEF Inv, TypeOK, Positions, Call
<1> QED
  BY <1>7, <1>8 DEF Inv

LEMMA AgainInv == Inv /\ Again => Inv'
<1> SUFFICES ASSUME Inv, Again PROVE Inv'
  OBVIOUS
<1>1. Len(buffer) \in Nat /\ readLinePos \in Nat /\ readLinePos <= Len(buffer)
  BY DEF Inv, TypeOK, Positions, Again, Text
<1>2. buffer' \in Text
  BY <1>1, SliceType DEF Inv, TypeOK, Again
<1> QED
  BY <1>2 DEF Inv, TypeOK, Positions, Again, locals

\* The steps of the loop that leave the buffer and the headers alone.
LEMMA ScanInv ==
  ASSUME Inv, HStart \/ HKey \/ HSpacesAfterColon \/ HValue \/ HLf
  PROVE  Inv'
<1>a. buffer \in Text /\ i \in Nat
  BY DEF Inv, TypeOK
<1>b. i < Len(buffer)
  BY DEF HStart, HKey, HSpacesAfterColon, HValue, HLf, Scanning
<1>1. Len(buffer) \in Nat /\ i \in Nat /\ i < Len(buffer)
  BY <1>a, <1>b DEF Text
<1>2. CASE HStart
  BY <1>1, <1>2 DEF Inv, TypeOK, Positions, HStart, Scanning, HStates
<1>3. CASE HKey
  BY <1>1, <1>3 DEF Inv, TypeOK, Positions, HKey, Scanning, Error, HStates
<1>4. CASE HSpacesAfterColon
  BY <1>1, <1>4 DEF Inv, TypeOK, Positions, HSpacesAfterColon, Scanning, Error, HStates
<1>5. CASE HValue
  BY <1>1, <1>5 DEF Inv, TypeOK, Positions, HValue, Scanning, Error, HStates
<1>6. CASE HLf
  BY <1>1, <1>6 DEF Inv, TypeOK, Positions, HLf, Scanning, HStates
<1> QED
  BY <1>2, <1>3, <1>4, <1>5, <1>6

\* A header is stored: both strings are slices within bounds.
LEMMA HCrInv == Inv /\ HCr => Inv'
<1> SUFFICES ASSUME Inv, HCr PROVE Inv'
  OBVIOUS
<1>1. /\ Len(buffer) \in Nat /\ i \in Nat /\ i < Len(buffer)
      /\ keyStart <= keyEnd /\ keyEnd <= i /\ valueStart <= valueEnd /\ valueEnd <= i
      /\ {keyStart, keyEnd, valueStart, valueEnd} \subseteq Nat
  BY DEF Inv, TypeOK, Positions, HCr, Scanning, Text
<1>2. Slice(keyStart, keyEnd) \in Text
  BY <1>1, SliceType DEF Inv, TypeOK
<1>3. Slice(valueStart, valueEnd) \in Text
  BY <1>1, SliceType DEF Inv, TypeOK
<1>4. headers' \in SUBSET (Text \X Text)
  BY <1>2, <1>3 DEF Inv, TypeOK, HCr, SetHeader
<1> QED
  BY <1>1, <1>4 DEF Inv, TypeOK, Positions, HCr, Scanning, Error, HStates

LEMMA HEndCrInv == Inv /\ HEndCr => Inv'
<1> SUFFICES ASSUME Inv, HEndCr PROVE Inv'
  OBVIOUS
<1>1. Len(buffer) \in Nat /\ i \in Nat /\ i < Len(buffer)
  BY DEF Inv, TypeOK, HEndCr, Text
<1>2. Slice(i + 1, Len(buffer)) \in Text
  <2>1. i + 1 \in Nat /\ i + 1 <= Len(buffer) /\ Len(buffer) <= Len(buffer)
    BY <1>1
  <2> QED
    BY <1>1, <2>1, SliceType DEF Inv, TypeOK
<1>3. CASE Char = "\n"
  BY <1>1, <1>2, <1>3 DEF Inv, TypeOK, Positions, HEndCr
<1>4. CASE Char # "\n"
  BY <1>1, <1>4 DEF Inv, TypeOK, Positions, HEndCr
<1> QED
  BY <1>3, <1>4

\* The invariant of the parser.
THEOREM Inductive == Spec => []Inv
<1>1. Inv /\ [Next]_vars => Inv'
  <2> SUFFICES ASSUME Inv, [Next]_vars PROVE Inv'
    OBVIOUS
  <2>1. CASE Next
    BY <2>1, CallInv, AgainInv, ScanInv, HCrInv, HEndCrInv DEF Next
  <2>2. CASE UNCHANGED vars
    BY <2>2 DEF vars, locals, Inv, TypeOK, Positions
  <2> QED
    BY <2>1, <2>2
<1> QED
  BY <1>1, InitInv, PTL DEF Spec

\* Http::parseRequestHeader: its variables keep their types.
THEOREM TypeCorrect == Spec => []TypeOK
<1>1. Inv => TypeOK
  BY DEF Inv
<1> QED
  BY <1>1, Inductive, PTL

\* The two string constructors and the two substr() calls of the parser get valid
\* ranges of the buffer, for every text and every way it arrives.
THEOREM SlicesInBounds == Spec => []RangesValid
<1>1. Inv => RangesValid
  BY DEF Inv, TypeOK, Positions, RangesValid
<1> QED
  BY <1>1, Inductive, PTL

-----------------------------------------------------------------------------
(* The request line, and the headers behind it                             *)

\* Before the headers, their parser is as it was made; it waits, or was given up.
ReqInv ==
  /\ Inv
  /\ state \in {"line", "headers"}
  /\ state = "line" =>
       /\ pc \in {"wait", "error"} /\ hState = "START"
       /\ i = 0 /\ keyStart = 0 /\ keyEnd = 0 /\ valueStart = 0 /\ valueEnd = 0 /\ readLinePos = 0

\* A set of numbers has a least one.
LEMMA Least ==
  ASSUME NEW S \in SUBSET Nat, S # {}
  PROVE  \E p \in S : \A q \in S : p <= q
<1>1. PICK p \in S : \A q \in S : ~(<<q, p>> \in OpToRel(<, Nat))
  BY NatLessThanWellFounded, WFMin
<1>2. \A q \in S : ~(q < p)
  BY <1>1 DEF OpToRel
<1> QED
  BY <1>2

\* A line break is where it is found: two characters of the text.
LEMMA FindCrLfPlace ==
  ASSUME NEW s \in Text, FindCrLf(s) # 0
  PROVE  FindCrLf(s) \in Nat /\ FindCrLf(s) >= 1 /\ FindCrLf(s) + 1 <= Len(s)
<1> DEFINE places == {p \in 1..(Len(s) - 1) : s[p] = "\r" /\ s[p + 1] = "\n"}
           first == CHOOSE p \in places : \A q \in places : p <= q
<1>1. Len(s) \in Nat
  BY DEF Text
<1>2. places # {} /\ FindCrLf(s) = first
  BY DEF FindCrLf
<1>3. places \in SUBSET Nat
  BY <1>1
<1>4. \A p \in places : p \in Nat /\ p >= 1 /\ p + 1 <= Len(s)
  BY <1>1
<1> HIDE DEF places
<1>5. \E p \in places : \A q \in places : p <= q
  BY <1>2, <1>3, Least
<1>6. first \in places
  BY <1>5
<1> QED
  BY <1>2, <1>4, <1>6

LEMMA ReceiveLineInv == ReqInv /\ ReceiveLine => ReqInv'
<1> SUFFICES ASSUME ReqInv, ReceiveLine PROVE ReqInv'
  OBVIOUS
<1> DEFINE input(n) == buffer \o SubSeq(message.text, arrived + 1, n)
<1>1. PICK n \in arrived + 1 .. Len(message.text) :
        /\ arrived' = n
        /\ \/ buffer' = input(n) /\ UNCHANGED <<pc, state>>
           \/ /\ FindCrLf(input(n)) # 0
              /\ buffer' = LineRest(input(n), FindCrLf(input(n)))
              /\ \/ pc' = "error" /\ UNCHANGED state
                 \/ pc' = "scan" /\ state' = "headers"
  BY DEF ReceiveLine
<1>2. /\ message.text \in Text /\ Len(message.text) \in Nat
      /\ UNCHANGED <<message, hState, headers, i, locals>> /\ state = "line"
  BY MessagesAssumption DEF ReqInv, Inv, TypeOK, Text, ReceiveLine
<1>3. arrived \in Nat /\ n \in Nat /\ n <= Len(message.text)
  BY <1>2 DEF ReqInv, Inv, TypeOK
<1>4. SubSeq(message.text, arrived + 1, n) \in Text
  BY <1>2, <1>3, SubSeqProperties DEF Text
<1>5. input(n) \in Text
  BY <1>4, ConcatProperties DEF ReqInv, Inv, TypeOK, Text
<1> HIDE DEF input
<1>6. FindCrLf(input(n)) # 0 => LineRest(input(n), FindCrLf(input(n))) \in Text
  <2> SUFFICES ASSUME FindCrLf(input(n)) # 0
               PROVE  LineRest(input(n), FindCrLf(input(n))) \in Text
    OBVIOUS
  <2>1. Len(input(n)) \in Nat
    BY <1>5 DEF Text
  <2>2. FindCrLf(input(n)) + 2 \in 1 .. Len(input(n)) + 1 /\ Len(input(n)) \in 0 .. Len(input(n))
    BY <1>5, <2>1, FindCrLfPlace
  <2> QED
    BY <1>5, <2>2, SubSeqProperties DEF LineRest, Text
<1>7. buffer' \in Text
  BY <1>1, <1>5, <1>6
<1>8. Len(buffer') \in Nat
  BY <1>7 DEF Text
<1>9. TypeOK'
  BY <1>1, <1>2, <1>3, <1>7 DEF ReqInv, Inv, TypeOK, locals
<1>10. Positions'
  BY <1>1, <1>2, <1>8 DEF ReqInv, Inv, TypeOK, Positions, locals
<1> QED
  BY <1>1, <1>2, <1>9, <1>10 DEF ReqInv, Inv, locals

\* The invariant of both parsers.
THEOREM ReqInductive == ReqSpec => []ReqInv
<1>1. ReqInit => ReqInv
  BY InitInv DEF ReqInit, ReqInv, Init
<1>2. ReqInv /\ [ReqNext]_reqVars => ReqInv'
  <2> SUFFICES ASSUME ReqInv, [ReqNext]_reqVars PROVE ReqInv'
    OBVIOUS
  <2>1. CASE ReceiveLine
    BY <2>1, ReceiveLineInv
  <2>2. CASE ParseHeaders
    BY <2>2, CallInv, AgainInv, ScanInv, HCrInv, HEndCrInv DEF ParseHeaders, Next, ReqInv
  <2>3. CASE UNCHANGED reqVars
    BY <2>3 DEF reqVars, vars, locals, ReqInv, Inv, TypeOK, Positions
  <2> QED
    BY <2>1, <2>2, <2>3 DEF ReqNext
<1> QED
  BY <1>1, <1>2, PTL DEF ReqSpec

\* parseRequestLine and parseRequestHeader keep the types of their variables, called one
\* after the other as handleRead does.
THEOREM ReqTypeCorrect == ReqSpec => []TypeOK
<1>1. ReqInv => TypeOK
  BY DEF ReqInv, Inv
<1> QED
  BY <1>1, ReqInductive, PTL

\* So do the ranges that parseRequestHeader makes strings of and cuts the buffer with stay
\* in bounds, whatever parseRequestLine left of the input.
THEOREM ReqSlicesInBounds == ReqSpec => []RangesValid
<1>1. ReqInv => RangesValid
  BY DEF ReqInv, Inv, TypeOK, Positions, RangesValid
<1> QED
  BY <1>1, ReqInductive, PTL

-----------------------------------------------------------------------------
(* What is found in a text                                                 *)

\* The least number of a set is chosen.
LEMMA LeastIs ==
  ASSUME NEW S \in SUBSET Nat, NEW p \in S, \A q \in S : p <= q
  PROVE  (CHOOSE r \in S : \A q \in S : r <= q) = p
<1> DEFINE least == CHOOSE r \in S : \A q \in S : r <= q
<1>1. least \in S /\ \A q \in S : least <= q
  OBVIOUS
<1> HIDE DEF least
<1>2. least \in Nat /\ p \in Nat /\ least <= p /\ p <= least
  BY <1>1
<1>3. least = p
  BY <1>2
<1> QED
  BY <1>3 DEF least

\* find() of a character that is there first at p, and of one that is not there.
LEMMA FindIs ==
  ASSUME NEW s, NEW c, NEW from \in Nat, Len(s) \in Nat,
         NEW p \in from..Len(s), s[p] = c, \A q \in from..Len(s) : q < p => s[q] # c
  PROVE  Find(s, c, from) = p
<1> DEFINE places == {q \in from..Len(s) : s[q] = c}
<1>1. places \in SUBSET Nat /\ p \in places /\ \A q \in places : p <= q
  OBVIOUS
<1> HIDE DEF places
<1>2. (CHOOSE r \in places : \A q \in places : r <= q) = p
  BY <1>1, LeastIs
<1>3. places # {}
  BY <1>1
<1> QED
  BY <1>2, <1>3 DEF Find, places

LEMMA FindNone ==
  ASSUME NEW s, NEW c, NEW from, \A q \in from..Len(s) : s[q] # c
  PROVE  Find(s, c, from) = 0
BY DEF Find

\* The line break that is first at p, and none.
LEMMA FindCrLfIs ==
  ASSUME NEW s, Len(s) \in Nat, NEW p \in 1..(Len(s) - 1), s[p] = "\r", s[p + 1] = "\n",
         \A q \in 1..(p - 1) : ~(s[q] = "\r" /\ s[q + 1] = "\n")
  PROVE  FindCrLf(s) = p
<1> DEFINE places == {q \in 1..(Len(s) - 1) : s[q] = "\r" /\ s[q + 1] = "\n"}
<1>1. places \in SUBSET Nat /\ p \in places
  OBVIOUS
<1>2. \A q \in places : p <= q
  <2> SUFFICES ASSUME NEW q \in places, ~(p <= q) PROVE FALSE
    OBVIOUS
  <2>1. q \in 1..(p - 1)
    OBVIOUS
  <2> QED
    BY <2>1
<1> HIDE DEF places
<1>3. (CHOOSE r \in places : \A q \in places : r <= q) = p
  BY <1>1, <1>2, LeastIs
<1>4. places # {}
  BY <1>1
<1> QED
  BY <1>3, <1>4 DEF FindCrLf, places

LEMMA FindCrLfNone ==
  ASSUME NEW s, \A q \in 1..(Len(s) - 1) : ~(s[q] = "\r" /\ s[q + 1] = "\n")
  PROVE  FindCrLf(s) = 0
BY DEF FindCrLf

-----------------------------------------------------------------------------
(* Pieces of a text                                                        *)

\* The characters of a piece of a text, from its first a characters to its first b.
LEMMA SliceChars ==
  ASSUME NEW T \in Seq(Chars), NEW a \in Nat, NEW b \in Nat, a <= b, b <= Len(T)
  PROVE  /\ SubSeq(T, a + 1, b) \in Seq(Chars) /\ Len(SubSeq(T, a + 1, b)) = b - a
         /\ \A p \in 1..(b - a) : SubSeq(T, a + 1, b)[p] = T[a + p]
<1>1. Len(T) \in Nat /\ \A p \in (a + 1)..b : p \in 1..Len(T)
  OBVIOUS
<1>2. \A p \in (a + 1)..b : T[p] \in Chars
  BY <1>1, ElementOfSeq
<1>3. /\ SubSeq(T, a + 1, b) \in Seq(Chars)
      /\ Len(SubSeq(T, a + 1, b)) = IF a + 1 <= b THEN b - (a + 1) + 1 ELSE 0
      /\ \A p \in 1..(b - (a + 1) + 1) : SubSeq(T, a + 1, b)[p] = T[(a + 1) + p - 1]
  BY <1>2, SubSeqProperties
<1>4. b - (a + 1) + 1 = b - a /\ (~(a + 1 <= b) => b - a = 0)
  OBVIOUS
<1>5. \A p \in 1..(b - a) : (a + 1) + p - 1 = a + p
  OBVIOUS
<1> QED
  BY <1>3, <1>4, <1>5

\* The characters of two texts, one behind the other.
LEMMA JoinChars ==
  ASSUME NEW S, NEW a \in Seq(S), NEW b \in Seq(S)
  PROVE  /\ a \o b \in Seq(S) /\ Len(a \o b) = Len(a) + Len(b)
         /\ \A p \in 1..Len(a) : (a \o b)[p] = a[p]
         /\ \A p \in 1..Len(b) : (a \o b)[Len(a) + p] = b[p]
<1> DEFINE t == a \o b
<1>1. /\ t \in Seq(S) /\ Len(t) = Len(a) + Len(b)
      /\ \A p \in 1..(Len(a) + Len(b)) : t[p] = IF p <= Len(a) THEN a[p] ELSE b[p - Len(a)]
  BY ConcatProperties
<1> HIDE DEF t
<1>2. Len(a) \in Nat /\ Len(b) \in Nat
  OBVIOUS
<1>3. \A p \in 1..Len(a) : t[p] = a[p]
  BY <1>1, <1>2
<1>4. \A p \in 1..Len(b) : t[Len(a) + p] = b[p]
  BY <1>1, <1>2
<1> QED
  BY <1>1, <1>3, <1>4 DEF t

\* It is the text that has those characters.
LEMMA SliceIs ==
  ASSUME NEW T \in Seq(Chars), NEW a \in Nat, NEW t \in Seq(Chars), a + Len(t) <= Len(T),
         \A p \in 1..Len(t) : T[a + p] = t[p]
  PROVE  SubSeq(T, a + 1, a + Len(t)) = t
<1> DEFINE b == a + Len(t)
           u == SubSeq(T, a + 1, b)
<1>1. b \in Nat /\ a <= b /\ b <= Len(T) /\ b - a = Len(t)
  OBVIOUS
<1> HIDE DEF b
<1>2. u \in Seq(Chars) /\ Len(u) = Len(t) /\ \A p \in 1..Len(t) : u[p] = t[p]
  BY <1>1, SliceChars
<1> HIDE DEF u
<1>3. u = t
  BY <1>2, SeqEqual
<1> QED
  BY <1>3 DEF u, b

\* A piece of a piece.
LEMMA SliceOfSlice ==
  ASSUME NEW T \in Seq(Chars), NEW a \in Nat, NEW b \in Nat, a <= b, b <= Len(T),
         NEW c \in Nat, NEW d \in Nat, c <= d, d <= b - a
  PROVE  SubSeq(SubSeq(T, a + 1, b), c + 1, d) = SubSeq(T, a + c + 1, a + d)
<1> DEFINE u == SubSeq(T, a + 1, b)
           v == SubSeq(u, c + 1, d)
           ac == a + c
           ad == a + d
           w == SubSeq(T, ac + 1, ad)
<1>1. Len(T) \in Nat
  OBVIOUS
<1>2. u \in Seq(Chars) /\ Len(u) = b - a /\ \A p \in 1..(b - a) : u[p] = T[a + p]
  BY SliceChars
<1> HIDE DEF u
<1>3. v \in Seq(Chars) /\ Len(v) = d - c /\ \A p \in 1..(d - c) : v[p] = u[c + p]
  BY <1>2, SliceChars
<1>4. ac \in Nat /\ ad \in Nat /\ ac <= ad /\ ad <= Len(T) /\ ad - ac = d - c /\ ac = a + c
  BY <1>1
<1> HIDE DEF v, ac, ad
<1>5. w \in Seq(Chars) /\ Len(w) = d - c /\ \A p \in 1..(d - c) : w[p] = T[ac + p]
  <2>1. w \in Seq(Chars) /\ Len(w) = ad - ac /\ \A p \in 1..(ad - ac) : w[p] = T[ac + p]
    BY <1>4, SliceChars
  <2> HIDE DEF w
  <2>2. ad - ac = d - c
    BY <1>4
  <2> QED
    BY <2>1, <2>2
<1> HIDE DEF w
<1>6. \A p \in 1..(d - c) : v[p] = w[p]
  <2> SUFFICES ASSUME NEW p \in 1..(d - c) PROVE v[p] = w[p]
    OBVIOUS
  <2>1. c + p \in 1..(b - a) /\ a + (c + p) = ac + p
    BY <1>4
  <2>2. v[p] = u[c + p] /\ w[p] = T[ac + p]
    BY <1>3, <1>5
  <2>3. u[c + p] = T[a + (c + p)]
    BY <1>2, <2>1
  <2> QED
    BY <2>1, <2>2, <2>3
<1>7. v = w
  BY <1>3, <1>5, <1>6, SeqEqual
<1> QED
  BY <1>7 DEF v, u, w, ac, ad

-----------------------------------------------------------------------------
(* The request line that was sent                                          *)

\* The characters of a full line.
LEMMA FullLineChars ==
  ASSUME NEW m, NEW s, FullLine(s, m)
  PROVE  LET n == Len(m.path) IN
         /\ n \in Nat /\ Len(s) = n + 7
         /\ s[1] = m.line.method /\ s[2] = "SP" /\ s[3] = "/"
         /\ \A p \in 1..n : s[p + 3] = m.path[p]
         /\ s[n + 4] = "SP" /\ s[n + 5] = "HTTP" /\ s[n + 6] = "/" /\ s[n + 7] = m.line.version
<1> DEFINE a == <<m.line.method, "SP", "/">>
           b == m.path
           c == <<"SP", "HTTP", "/", m.line.version>>
           S == Chars \union {m.line.method, m.line.version, "SP", "HTTP", "/"}
<1>1. b \in Seq(S) /\ s = (a \o b) \o c
  <2>1. b \in Seq(Chars) /\ Chars \subseteq S
    BY DEF FullLine, Text
  <2> QED
    BY <2>1, SeqMonotonic DEF FullLine
<1>2. a \in Seq(S) /\ Len(a) = 3 /\ a[1] = m.line.method /\ a[2] = "SP" /\ a[3] = "/"
  OBVIOUS
<1>3. /\ c \in Seq(S) /\ Len(c) = 4
      /\ c[1] = "SP" /\ c[2] = "HTTP" /\ c[3] = "/" /\ c[4] = m.line.version
  OBVIOUS
<1> DEFINE n == Len(m.path)
<1> HIDE DEF a, b, c, S
<1>4. Len(b) \in Nat
  BY <1>1
<1>5. /\ a \o b \in Seq(S) /\ Len(a \o b) = Len(b) + 3
      /\ \A p \in 1..(Len(b) + 3) : (a \o b)[p] = IF p <= 3 THEN a[p] ELSE b[p - 3]
  <2>1. /\ a \o b \in Seq(S) /\ Len(a \o b) = Len(a) + Len(b)
        /\ \A p \in 1..(Len(a) + Len(b)) :
             (a \o b)[p] = IF p <= Len(a) THEN a[p] ELSE b[p - Len(a)]
    BY <1>1, <1>2, ConcatProperties
  <2> QED
    BY <1>2, <1>4, <2>1
<1>6. /\ Len(s) = Len(b) + 7
      /\ \A p \in 1..(Len(b) + 7) :
           s[p] = IF p <= Len(b) + 3 THEN (a \o b)[p] ELSE c[p - (Len(b) + 3)]
  <2>1. /\ Len(s) = Len(a \o b) + Len(c)
        /\ \A p \in 1..(Len(a \o b) + Len(c)) :
             s[p] = IF p <= Len(a \o b) THEN (a \o b)[p] ELSE c[p - Len(a \o b)]
    <3> DEFINE d == a \o b
    <3>1. d \in Seq(S) /\ s = d \o c
      BY <1>1, <1>5
    <3> HIDE DEF d
    <3>2. /\ Len(s) = Len(d) + Len(c)
          /\ \A p \in 1..(Len(d) + Len(c)) : s[p] = IF p <= Len(d) THEN d[p] ELSE c[p - Len(d)]
      BY <1>3, <3>1, ConcatProperties
    <3> QED
      BY <3>2 DEF d
  <2> QED
    BY <1>3, <1>4, <1>5, <2>1
<1>7. s[1] = a[1] /\ s[2] = a[2] /\ s[3] = a[3]
  BY <1>4, <1>5, <1>6
<1>8. \A p \in 1..Len(b) : s[p + 3] = b[p]
  BY <1>4, <1>5, <1>6
<1>9. /\ s[Len(b) + 4] = c[1] /\ s[Len(b) + 5] = c[2] /\ s[Len(b) + 6] = c[3]
      /\ s[Len(b) + 7] = c[4]
  BY <1>4, <1>6
<1> QED
  BY <1>2, <1>3, <1>4, <1>6, <1>7, <1>8, <1>9 DEF b

\* The method is found in a line that has it first and no other.
LEMMA MethodFirst ==
  ASSUME NEW s, Len(s) \in Nat, Len(s) >= 1, s[1] \in Methods,
         \A p \in 2..Len(s) : s[p] \notin Methods
  PROVE  MethodOf(s) = s[1] /\ Find(s, s[1], 1) = 1
<1>1. Find(s, s[1], 1) = 1
  <2>1. 1 \in 1..Len(s) /\ \A q \in 1..Len(s) : ~(q < 1)
    OBVIOUS
  <2> QED
    BY <2>1, FindIs
<1>2. ASSUME NEW c \in Methods, c # s[1]
      PROVE  Find(s, c, 1) = 0
  <2>1. \A q \in 1..Len(s) : q = 1 \/ q \in 2..Len(s)
    OBVIOUS
  <2>2. \A q \in 1..Len(s) : s[q] # c
    BY <1>2, <2>1
  <2> QED
    BY <2>2, FindNone
<1> QED
  BY <1>1, <1>2 DEF MethodOf, Methods

\* The path of a full line that is plain, without its query.
LEMMA UriIs ==
  ASSUME NEW m, NEW s, FullLine(s, m)
  PROVE  UriOf(s, 3, Len(m.path) + 4) = m.line.uri
<1> DEFINE n == Len(m.path)
<1>1. /\ n \in Nat /\ Len(s) = n + 7 /\ \A p \in 1..n : s[p + 3] = m.path[p]
      /\ m.path \in Seq(Chars)
  <2>1. m.path \in Seq(Chars)
    BY DEF FullLine, Text
  <2> QED
    BY <2>1, FullLineChars
<1>2. SubSeq(s, 3 + 1, (n + 4) - 1) = m.path
  <2> DEFINE t == SubSeq(s, 4, n + 3)
  <2>1. \A p \in 4..(n + 3) : s[p] \in Chars
    <3> SUFFICES ASSUME NEW p \in 4..(n + 3) PROVE s[p] \in Chars
      OBVIOUS
    <3>1. p - 3 \in 1..n /\ (p - 3) + 3 = p
      BY <1>1
    <3>2. m.path[p - 3] \in Chars
      BY <1>1, <3>1, ElementOfSeq
    <3> QED
      BY <1>1, <3>1, <3>2
  <2>2. t \in Seq(Chars) /\ Len(t) = n /\ \A p \in 1..n : t[p] = s[4 + p - 1]
    <3>1. 4 \in Int /\ n + 3 \in Int /\ (n + 3) - 4 + 1 = n /\ (4 <= n + 3 <=> n # 0)
      BY <1>1
    <3>2. /\ t \in Seq(Chars) /\ Len(t) = IF 4 <= n + 3 THEN (n + 3) - 4 + 1 ELSE 0
          /\ \A p \in 1..((n + 3) - 4 + 1) : t[p] = s[4 + p - 1]
      BY <2>1, <3>1, SubSeqProperties
    <3> QED
      BY <1>1, <3>1, <3>2
  <2>3. \A p \in 1..n : t[p] = m.path[p]
    <3>1. \A p \in 1..n : 4 + p - 1 = p + 3
      BY <1>1
    <3> QED
      BY <1>1, <2>2, <3>1
  <2> HIDE DEF t
  <2>4. t = m.path
    BY <1>1, <2>2, <2>3, SeqEqual
  <2>5. 3 + 1 = 4 /\ (n + 4) - 1 = n + 3
    BY <1>1
  <2> QED
    BY <2>4, <2>5 DEF t
<1>3. PICK k \in 0..n :
        /\ \A p \in 1..k : m.path[p] # "?"
        /\ k = n \/ m.path[k + 1] = "?"
        /\ m.line.uri = IF k = 0 THEN <<"index.html">> ELSE SubSeq(m.path, 1, k)
  BY DEF FullLine
<1> DEFINE query == Find(m.path, "?", 1)
           file == IF query = 0 THEN m.path ELSE SubSeq(m.path, 1, query - 1)
<1>4. file = SubSeq(m.path, 1, k)
  <2>1. CASE k = n
    <3>1. query = 0
      BY <1>3, <2>1, FindNone
    <3>2. SubSeq(m.path, 1, n) = m.path
      BY <1>1, SubSeqFull
    <3> QED
      BY <2>1, <3>1, <3>2
  <2>2. CASE k # n
    <3>1. k + 1 \in 1..n /\ \A q \in 1..n : q < k + 1 => q \in 1..k
      BY <1>1, <2>2
    <3>2. query = k + 1
      BY <1>1, <1>3, <2>2, <3>1, FindIs
    <3>3. (k + 1) - 1 = k /\ k + 1 # 0
      BY <1>1
    <3> QED
      BY <3>2, <3>3
  <2> QED
    BY <2>1, <2>2
<1>5. UriOf(s, 3, n + 4) = IF file = << >> THEN <<"index.html">> ELSE file
  <2> DEFINE path == SubSeq(s, 3 + 1, (n + 4) - 1)
  <2>1. UriOf(s, 3, n + 4) =
          LET q == Find(path, "?", 1)
              f == IF q = 0 THEN path ELSE SubSeq(path, 1, q - 1)
          IN  IF f = << >> THEN <<"index.html">> ELSE f
    BY DEF UriOf
  <2>2. path = m.path
    BY <1>2
  <2> HIDE DEF path
  <2> QED
    BY <2>1, <2>2
<1> HIDE DEF file
<1>6. file = << >> <=> k = 0
  <2>1. SubSeq(m.path, 1, 0) = << >>
    BY SubSeqEmpty
  <2>2. ASSUME k # 0
        PROVE  SubSeq(m.path, 1, k) # << >>
    <3>1. \A p \in 1..k : m.path[p] \in Chars
      <4>1. \A p \in 1..k : p \in 1..n
        BY <1>1
      <4> QED
        BY <1>1, <4>1, ElementOfSeq
    <3>2. Len(SubSeq(m.path, 1, k)) = IF 1 <= k THEN k - 1 + 1 ELSE 0
      BY <1>1, <3>1, SubSeqProperties
    <3>3. Len(<< >>) = 0 /\ k >= 1 /\ k - 1 + 1 = k
      BY <1>1, <2>2
    <3> QED
      BY <2>2, <3>2, <3>3
  <2> QED
    BY <1>4, <2>1, <2>2
<1> QED
  BY <1>3, <1>4, <1>5, <1>6

\* A plain line is taken for what it means.
LEMMA ParseFull ==
  ASSUME NEW m, NEW s, FullLine(s, m), Plain(m)
  PROVE  ParseLine(s) = m.line
<1> DEFINE n == Len(m.path)
<1>1. /\ n \in Nat /\ Len(s) = n + 7
      /\ s[1] = m.line.method /\ s[2] = "SP" /\ s[3] = "/"
      /\ \A p \in 1..n : s[p + 3] = m.path[p]
      /\ s[n + 4] = "SP" /\ s[n + 5] = "HTTP" /\ s[n + 6] = "/" /\ s[n + 7] = m.line.version
  BY FullLineChars
<1>2. /\ m.line.method \in Methods /\ m.line.version \in Versions
      /\ m.line = [method |-> m.line.method, uri |-> m.line.uri, version |-> m.line.version]
  BY DEF FullLine, Lines
<1>3. \A p \in 4..(n + 3) : s[p] # "SP" /\ s[p] \notin Methods \union {"/"}
  <2> SUFFICES ASSUME NEW p \in 4..(n + 3)
               PROVE  s[p] # "SP" /\ s[p] \notin Methods \union {"/"}
    OBVIOUS
  <2> HIDE DEF n
  <2>1. p - 3 \in 1..n /\ (p - 3) + 3 = p
    <3>1. n \in Nat
      BY <1>1
    <3> QED
      BY <3>1
  <2>2. s[p] = m.path[p - 3]
    BY <1>1, <2>1
  <2> USE DEF n
  <2> QED
    BY <2>1, <2>2 DEF FullLine, Plain
<1>4. \A p \in 1..Len(s) : \/ p \in {1, 2, 3} \/ p \in 4..(n + 3)
                          \/ p \in {n + 4, n + 5, n + 6, n + 7}
  BY <1>1
<1>5. MethodOf(s) = m.line.method /\ Find(s, m.line.method, 1) = 1
  <2>1. \A c \in {"SP", "/", "HTTP"} \union Versions : c \notin Methods
    BY DEF Methods, Versions
  <2>2. \A p \in 2..Len(s) : s[p] \notin Methods
    <3> SUFFICES ASSUME NEW p \in 2..Len(s) PROVE s[p] \notin Methods
      OBVIOUS
    <3>1. \/ p \in {2, 3} \/ p \in 4..(n + 3) \/ p \in {n + 4, n + 5, n + 6, n + 7}
      BY <1>1, <1>4
    <3> QED
      BY <1>1, <1>2, <1>3, <2>1, <3>1
  <2>3. Len(s) \in Nat /\ Len(s) >= 1
    BY <1>1
  <2> QED
    BY <1>1, <1>2, <2>2, <2>3, MethodFirst
<1>6. Find(s, "/", 1) = 3
  <2>1. 3 \in 1..Len(s) /\ Len(s) \in Nat /\ \A q \in 1..Len(s) : q < 3 => q = 1 \/ q = 2
    BY <1>1
  <2>2. s[1] # "/" /\ s[2] # "/"
    BY <1>1, <1>2 DEF Methods
  <2>3. s[3] = "/" /\ \A q \in 1..Len(s) : q < 3 => s[q] # "/"
    BY <1>1, <2>1, <2>2
  <2> QED
    BY <2>1, <2>3, FindIs
<1>7. Find(s, "SP", 3) = n + 4
  <2>1. /\ n + 4 \in 3..Len(s) /\ Len(s) \in Nat
        /\ \A q \in 3..Len(s) : q < n + 4 => q = 3 \/ q \in 4..(n + 3)
    BY <1>1
  <2> DEFINE p == n + 4
  <2>2. s[p] = "SP" /\ \A q \in 3..Len(s) : q < p => s[q] # "SP"
    BY <1>1, <1>3, <2>1
  <2>3. p \in 3..Len(s) /\ Len(s) \in Nat
    BY <2>1
  <2> HIDE DEF p
  <2>4. Find(s, "SP", 3) = p
    BY <2>2, <2>3, FindIs
  <2> QED
    BY <2>4 DEF p
<1>8. VersionOf(s, 4) = m.line.version
  <2>1. /\ n + 6 \in 4..Len(s) /\ Len(s) \in Nat
        /\ \A q \in 4..Len(s) : q < n + 6 => q \in 4..(n + 3) \/ q = n + 4 \/ q = n + 5
    BY <1>1
  <2>2. s[n + 6] = "/" /\ \A q \in 4..Len(s) : q < n + 6 => s[q] # "/"
    BY <1>1, <1>3, <2>1
  <2>3. Find(s, "/", 4) = n + 6
    <3> DEFINE p == n + 6
    <3>1. s[p] = "/" /\ \A q \in 4..Len(s) : q < p => s[q] # "/"
      BY <2>2
    <3>2. p \in 4..Len(s) /\ Len(s) \in Nat
      BY <2>1
    <3> HIDE DEF p
    <3>3. Find(s, "/", 4) = p
      BY <3>1, <3>2, FindIs
    <3> QED
      BY <3>3 DEF p
  <2>4. n + 6 # 0 /\ n + 6 # Len(s) /\ (n + 6) + 1 = n + 7
    BY <1>1
  <2> QED
    BY <1>1, <1>2, <2>3, <2>4 DEF VersionOf
<1>9. UriOf(s, 3, n + 4) = m.line.uri
  BY UriIs
<1>10. m.line.method # "none" /\ m.line.version # "none" /\ n + 4 # 0 /\ 3 + 1 = 4
  BY <1>1, <1>2 DEF Methods, Versions
<1> HIDE DEF n
<1> QED
  BY <1>2, <1>5, <1>6, <1>7, <1>8, <1>9, <1>10 DEF ParseLine

\* A line of a method alone means index.html.
LEMMA ParseShort ==
  ASSUME NEW m, NEW s, ShortLine(s, m)
  PROVE  ParseLine(s) = m.line
<1>1. /\ m.line.method \in Methods /\ Len(s) = 1 /\ s[1] = m.line.method
      /\ m.line = [method |-> m.line.method, uri |-> <<"index.html">>, version |-> "1.1"]
  BY DEF ShortLine
<1>2. MethodOf(s) = m.line.method /\ Find(s, m.line.method, 1) = 1
  <2>1. \A p \in 2..Len(s) : s[p] \notin Methods
    BY <1>1
  <2> QED
    BY <1>1, <2>1, MethodFirst
<1>3. Find(s, "/", 1) = 0
  <2>1. \A q \in 1..Len(s) : s[q] # "/"
    BY <1>1 DEF Methods
  <2> QED
    BY <2>1, FindNone
<1>4. m.line.method # "none"
  BY <1>1 DEF Methods
<1> QED
  BY <1>1, <1>2, <1>3, <1>4 DEF ParseLine

\* What is not a line is refused.
LEMMA ParseNot ==
  ASSUME NEW m, NEW s \in Text, NotALine(s, m)
  PROVE  ParseLine(s) = NoLine
<1>1. Len(s) \in Nat
  BY DEF Text
<1>2. CASE \A p \in 1..Len(s) : s[p] \notin Methods
  <2>1. \A c \in Methods : Find(s, c, 1) = 0
    BY <1>2, FindNone
  <2>2. MethodOf(s) = "none"
    BY <2>1 DEF MethodOf, Methods
  <2> QED
    BY <2>2 DEF ParseLine
<1>3. ASSUME Len(s) >= 3, s[1] \in Methods, s[2] = "SP", s[3] = "/",
             \A p \in 4..Len(s) : s[p] \notin Methods,
             \/ \A p \in 4..Len(s) : s[p] # "SP"
             \/ \A p \in 4..(Len(s) - 1) : s[p] = "/" => s[p + 1] \notin Versions
      PROVE  ParseLine(s) = NoLine
  <2>1. MethodOf(s) = s[1] /\ Find(s, s[1], 1) = 1
    <3>1. \A p \in 2..Len(s) : p = 2 \/ p = 3 \/ p \in 4..Len(s)
      BY <1>1
    <3>2. "SP" \notin Methods /\ "/" \notin Methods
      BY DEF Methods
    <3>3. \A p \in 2..Len(s) : s[p] \notin Methods
      BY <1>3, <3>1, <3>2
    <3>4. Len(s) >= 1
      BY <1>1, <1>3
    <3> QED
      BY <1>1, <1>3, <3>3, <3>4, MethodFirst
  <2>2. Find(s, "/", 1) = 3
    <3>1. 3 \in 1..Len(s) /\ \A q \in 1..Len(s) : q < 3 => q = 1 \/ q = 2
      BY <1>1, <1>3
    <3>2. s[1] # "/" /\ s[2] # "/"
      BY <1>3 DEF Methods
    <3> QED
      BY <1>1, <1>3, <3>1, <3>2, FindIs
  <2>3. Find(s, "SP", 3) = 0 \/ VersionOf(s, 4) = "none"
    <3>1. CASE \A p \in 4..Len(s) : s[p] # "SP"
      <4>1. \A q \in 3..Len(s) : q = 3 \/ q \in 4..Len(s)
        BY <1>1
      <4>2. \A q \in 3..Len(s) : s[q] # "SP"
        BY <1>3, <3>1, <4>1
      <4> QED
        BY <4>2, FindNone
    <3>2. CASE \A p \in 4..(Len(s) - 1) : s[p] = "/" => s[p + 1] \notin Versions
      <4> DEFINE slash == Find(s, "/", 4)
                 places == {p \in 4..Len(s) : s[p] = "/"}
      <4> SUFFICES ASSUME slash # 0, slash # Len(s) PROVE s[slash + 1] \notin Versions
        BY DEF VersionOf
      <4>1. places # {} /\ slash = CHOOSE p \in places : \A q \in places : p <= q
        BY DEF Find
      <4>2. places \in SUBSET Nat /\ \A p \in places : p \in 4..Len(s) /\ s[p] = "/"
        OBVIOUS
      <4> HIDE DEF places
      <4>3. \E p \in places : \A q \in places : p <= q
        BY <4>1, <4>2, Least
      <4>4. slash \in places
        BY <4>1, <4>3
      <4> HIDE DEF slash
      <4>5. slash \in 4..(Len(s) - 1) /\ s[slash] = "/"
        BY <1>1, <4>2, <4>4
      <4> QED
        BY <3>2, <4>5
    <3> QED
      BY <1>3, <3>1, <3>2
  <2>4. s[1] # "none" /\ 3 + 1 = 4
    BY <1>3 DEF Methods
  <2> QED
    BY <2>1, <2>2, <2>3, <2>4 DEF ParseLine
<1> QED
  BY <1>2, <1>3 DEF NotALine

-----------------------------------------------------------------------------
(* The header block that was sent                                          *)

\* The number of characters before the colon, the value and the end of the header k.
ColonAt(m, k) == m.starts[k] + Len(m.fields[k][1])
ValueAt(m, k) == ColonAt(m, k) + 2
ValueTo(m, k) == ValueAt(m, k) + Len(m.fields[k][2])

LEMMA HeaderTextChars ==
  ASSUME NEW h \in Text \X Text
  PROVE  LET a == Len(h[1])  b == Len(h[2])  t == HeaderText(h) IN
         /\ a \in Nat /\ b \in Nat /\ t \in Text /\ Len(t) = a + b + 4
         /\ \A p \in 1..a : t[p] = h[1][p]
         /\ t[a + 1] = ":" /\ t[a + 2] = "SP"
         /\ \A p \in 1..b : t[a + 2 + p] = h[2][p]
         /\ t[a + b + 3] = "\r" /\ t[a + b + 4] = "\n"
<1> DEFINE x == h[1]
           y == h[2]
           c == <<":", "SP">>
           d == <<"\r", "\n">>
           xc == x \o c
           xcy == xc \o y
           t == xcy \o d
<1>1. x \in Seq(Chars) /\ y \in Seq(Chars) /\ Len(x) \in Nat /\ Len(y) \in Nat
  BY DEF Text
<1>2. /\ c \in Seq(Chars) /\ Len(c) = 2 /\ c[1] = ":" /\ c[2] = "SP"
      /\ d \in Seq(Chars) /\ Len(d) = 2 /\ d[1] = "\r" /\ d[2] = "\n"
  BY DEF Chars
<1>3. HeaderText(h) = t
  BY DEF HeaderText
<1> HIDE DEF x, y, c, d
<1>4. /\ xc \in Seq(Chars) /\ Len(xc) = Len(x) + 2
      /\ \A p \in 1..Len(x) : xc[p] = x[p]
      /\ \A p \in 1..2 : xc[Len(x) + p] = c[p]
  <2>1. /\ xc \in Seq(Chars) /\ Len(xc) = Len(x) + Len(c)
        /\ \A p \in 1..Len(x) : xc[p] = x[p]
        /\ \A p \in 1..Len(c) : xc[Len(x) + p] = c[p]
    <3>1. x \in Seq(Chars) /\ c \in Seq(Chars)
      BY <1>1, <1>2
    <3> QED
      BY <3>1, JoinChars
  <2> HIDE DEF xc
  <2> QED
    BY <1>2, <2>1
<1> HIDE DEF xc
<1>5. /\ xcy \in Seq(Chars) /\ Len(xcy) = Len(xc) + Len(y)
      /\ \A p \in 1..Len(xc) : xcy[p] = xc[p]
      /\ \A p \in 1..Len(y) : xcy[Len(xc) + p] = y[p]
  <2>1. xc \in Seq(Chars) /\ y \in Seq(Chars)
    BY <1>1, <1>4
  <2> QED
    BY <2>1, JoinChars
<1> HIDE DEF xcy
<1>6. /\ t \in Seq(Chars) /\ Len(t) = Len(xcy) + 2
      /\ \A p \in 1..Len(xcy) : t[p] = xcy[p]
      /\ \A p \in 1..2 : t[Len(xcy) + p] = d[p]
  <2>1. /\ t \in Seq(Chars) /\ Len(t) = Len(xcy) + Len(d)
        /\ \A p \in 1..Len(xcy) : t[p] = xcy[p]
        /\ \A p \in 1..Len(d) : t[Len(xcy) + p] = d[p]
    <3>1. xcy \in Seq(Chars) /\ d \in Seq(Chars)
      BY <1>2, <1>5
    <3> QED
      BY <3>1, JoinChars
  <2> HIDE DEF t
  <2> QED
    BY <1>2, <2>1
<1> HIDE DEF t
<1>7. /\ Len(xcy) = Len(x) + Len(y) + 2 /\ Len(t) = Len(x) + Len(y) + 4
      /\ Len(xcy) + 1 = Len(x) + Len(y) + 3 /\ Len(xcy) + 2 = Len(x) + Len(y) + 4
      /\ \A p \in 1..Len(x) : p \in 1..Len(xc) /\ p \in 1..Len(xcy)
      /\ \A p \in 1..2 : Len(x) + p \in 1..Len(xc) /\ Len(x) + p \in 1..Len(xcy)
      /\ \A p \in 1..Len(y) : Len(xc) + p \in 1..Len(xcy) /\ Len(xc) + p = Len(x) + 2 + p
      /\ 1 \in 1..2 /\ 2 \in 1..2
  BY <1>1, <1>4, <1>5, <1>6
<1>8. \A p \in 1..Len(x) : t[p] = x[p]
  BY <1>4, <1>5, <1>6, <1>7
<1>9. t[Len(x) + 1] = ":" /\ t[Len(x) + 2] = "SP"
  BY <1>2, <1>4, <1>5, <1>6, <1>7
<1>10. \A p \in 1..Len(y) : t[Len(x) + 2 + p] = y[p]
  BY <1>5, <1>6, <1>7
<1>11. t[Len(x) + Len(y) + 3] = "\r" /\ t[Len(x) + Len(y) + 4] = "\n"
  BY <1>2, <1>6, <1>7
<1> QED
  BY <1>1, <1>3, <1>6, <1>7, <1>8, <1>9, <1>10, <1>11 DEF x, y, Text

\* The characters of the header k, in the text of its message.
LEMMA HeaderChars ==
  ASSUME NEW m, m.text \in Text, WellFormedBlock(m), NEW k \in 1..Len(m.fields)
  PROVE  /\ m.starts[k] \in Nat /\ ColonAt(m, k) \in Nat /\ ValueTo(m, k) \in Nat
         /\ m.fields[k] \in Text \X Text
         /\ m.starts[k] < ColonAt(m, k) /\ ValueAt(m, k) < ValueTo(m, k)
         /\ m.starts[k + 1] = ValueTo(m, k) + 2 /\ m.starts[k + 1] <= Len(m.text)
         /\ \A p \in m.starts[k]..(ColonAt(m, k) - 1) : m.text[p + 1] # ":"
         /\ m.text[m.starts[k] + 1] \notin {"\r", "\n"}
         /\ m.text[ColonAt(m, k) + 1] = ":" /\ m.text[ColonAt(m, k) + 2] = "SP"
         /\ \A p \in ValueAt(m, k)..(ValueTo(m, k) - 1) : m.text[p + 1] # "\r"
         /\ m.text[ValueTo(m, k) + 1] = "\r" /\ m.text[ValueTo(m, k) + 2] = "\n"
         /\ SubSeq(m.text, m.starts[k] + 1, ColonAt(m, k)) = m.fields[k][1]
         /\ SubSeq(m.text, ValueAt(m, k) + 1, ValueTo(m, k)) = m.fields[k][2]
<1> DEFINE T == m.text
           s == m.starts[k]
           next == m.starts[k + 1]
           h == m.fields[k]
           a == Len(h[1])
           b == Len(h[2])
           t == HeaderText(h)
<1>1. h \in Text \X Text /\ s \in Nat /\ Len(T) \in Nat
  <2>1. m.fields \in Seq(Text \X Text) /\ m.starts \in Seq(Nat) /\ Len(m.starts) = Len(m.fields) + 1
    BY DEF WellFormedBlock
  <2>2. k \in 1..Len(m.starts)
    BY <2>1
  <2>3. h \in Text \X Text /\ s \in Nat
    BY <2>1, <2>2, ElementOfSeq
  <2>4. Len(T) \in Nat
    BY DEF Text
  <2> QED
    BY <2>3, <2>4
<1>2. IsHeader(h) /\ next = s + Len(t) /\ next <= Len(T)
  BY DEF WellFormedBlock
<1>3. SubSeq(T, s + 1, next) = t
  BY DEF WellFormedBlock
<1>4. /\ a \in Nat /\ b \in Nat /\ Len(t) = a + b + 4
      /\ \A p \in 1..a : t[p] = h[1][p]
      /\ t[a + 1] = ":" /\ t[a + 2] = "SP"
      /\ \A p \in 1..b : t[a + 2 + p] = h[2][p]
      /\ t[a + b + 3] = "\r" /\ t[a + b + 4] = "\n"
  BY <1>1, HeaderTextChars
<1>5. /\ h[1] \in Seq(Chars) /\ h[2] \in Seq(Chars) /\ T \in Seq(Chars)
      /\ h[1] # << >> /\ h[1][1] \notin {"\r", "\n"} /\ \A p \in 1..a : h[1][p] # ":"
      /\ h[2] # << >> /\ \A p \in 1..b : h[2][p] # "\r"
  BY <1>1, <1>2 DEF Text, IsHeader
<1>6. a >= 1 /\ b >= 1
  <2>1. a # 0 /\ b # 0
    BY <1>5, EmptySeq
  <2> QED
    BY <1>4, <2>1
<1>7. /\ ColonAt(m, k) = s + a /\ ValueAt(m, k) = s + a + 2 /\ ValueTo(m, k) = s + a + 2 + b
      /\ T = m.text /\ s = m.starts[k] /\ next = m.starts[k + 1] /\ h = m.fields[k]
      /\ a = Len(h[1]) /\ b = Len(h[2])
  BY DEF ColonAt, ValueAt, ValueTo
<1> HIDE DEF T, s, next, h, a, b, t
<1>8. a \in Nat /\ b \in Nat /\ s \in Nat /\ Len(T) \in Nat
  BY <1>1, <1>4
<1>9. next = s + a + b + 4 /\ s + a + b + 4 <= Len(T) /\ s <= next
  <2>1. next = s + Len(t) /\ Len(t) = a + b + 4 /\ next <= Len(T)
    BY <1>2, <1>4
  <2> QED
    BY <1>8, <2>1
<1>10. \A p \in 1..(a + b + 4) : T[s + p] = t[p]
  <2>1. next \in Nat /\ s <= next /\ next <= Len(T) /\ next - s = a + b + 4 /\ T \in Seq(Chars)
    BY <1>5, <1>8, <1>9
  <2>2. \A p \in 1..(next - s) : SubSeq(T, s + 1, next)[p] = T[s + p]
    BY <1>8, <2>1, SliceChars
  <2> QED
    BY <1>3, <2>1, <2>2
<1>11. \A p \in 1..a : T[s + p] = h[1][p]
  <2>1. \A p \in 1..a : p \in 1..(a + b + 4)
    BY <1>8
  <2> QED
    BY <1>4, <1>10, <2>1
<1>12. \A p \in 1..b : T[s + a + 2 + p] = h[2][p]
  <2>1. \A p \in 1..b : a + 2 + p \in 1..(a + b + 4) /\ s + (a + 2 + p) = s + a + 2 + p
    BY <1>8
  <2> QED
    BY <1>4, <1>10, <2>1
<1>13. T[s + a + 1] = ":" /\ T[s + a + 2] = "SP"
  <2>1. /\ a + 1 \in 1..(a + b + 4) /\ s + (a + 1) = s + a + 1
        /\ a + 2 \in 1..(a + b + 4) /\ s + (a + 2) = s + a + 2
    BY <1>8
  <2> QED
    BY <1>4, <1>10, <2>1
<1>14. T[s + a + 2 + b + 1] = "\r" /\ T[s + a + 2 + b + 2] = "\n"
  <2>1. /\ a + b + 3 \in 1..(a + b + 4) /\ s + (a + b + 3) = s + a + 2 + b + 1
        /\ a + b + 4 \in 1..(a + b + 4) /\ s + (a + b + 4) = s + a + 2 + b + 2
    BY <1>8
  <2> QED
    BY <1>4, <1>10, <2>1
<1>15. T[s + 1] \notin {"\r", "\n"}
  <2>1. 1 \in 1..a
    BY <1>6, <1>8
  <2> QED
    BY <1>5, <1>11, <2>1
<1>16. SubSeq(T, s + 1, s + a) = h[1]
  <2> DEFINE key == h[1]
  <2>1. s + Len(key) <= Len(T) /\ Len(key) = a /\ key \in Seq(Chars)
    <3>1. s + a <= Len(T)
      BY <1>8, <1>9
    <3>2. Len(key) = a /\ key \in Seq(Chars)
      BY <1>5, <1>7
    <3> QED
      BY <3>1, <3>2
  <2>2. \A p \in 1..Len(key) : T[s + p] = key[p]
    BY <1>11, <2>1
  <2>3. T \in Seq(Chars) /\ s \in Nat
    BY <1>5, <1>8
  <2> HIDE DEF key
  <2>4. SubSeq(T, s + 1, s + Len(key)) = key
    BY <2>1, <2>2, <2>3, SliceIs
  <2> QED
    BY <2>1, <2>4 DEF key
<1>17. SubSeq(T, s + a + 2 + 1, s + a + 2 + b) = h[2]
  <2> DEFINE v == s + a + 2
  <2>1. v \in Nat /\ v + b <= Len(T)
    BY <1>8, <1>9
  <2>2. \A p \in 1..b : T[v + p] = h[2][p]
    BY <1>12
  <2> HIDE DEF v
  <2>3. SubSeq(T, v + 1, v + b) = h[2]
    BY <1>5, <1>7, <2>1, <2>2, SliceIs
  <2> QED
    BY <2>3 DEF v
<1>18. /\ s < s + a /\ s + a + 2 < s + a + 2 + b /\ next = s + a + 2 + b + 2
       /\ s + a \in Nat /\ s + a + 2 + b \in Nat /\ next <= Len(T)
  BY <1>6, <1>8, <1>9
<1> DEFINE c == s + a
           v == s + a + 2
           w == s + a + 2 + b
<1>19. ColonAt(m, k) = c /\ ValueAt(m, k) = v /\ ValueTo(m, k) = w
  BY <1>7
<1>20. /\ s \in Nat /\ c \in Nat /\ w \in Nat /\ h \in Text \X Text
       /\ s < c /\ v < w /\ next = w + 2 /\ next <= Len(T)
  BY <1>1, <1>18
<1>21. T[c + 1] = ":" /\ T[c + 2] = "SP" /\ T[s + 1] \notin {"\r", "\n"}
  BY <1>13, <1>15
<1>22. T[w + 1] = "\r" /\ T[w + 2] = "\n"
  BY <1>14
<1>23. SubSeq(T, s + 1, c) = h[1] /\ SubSeq(T, v + 1, w) = h[2]
  BY <1>16, <1>17
<1>24. c = s + a /\ v = s + a + 2 /\ w = s + a + 2 + b
  OBVIOUS
<1> HIDE DEF c, v, w
<1>25. \A p \in s..(c - 1) : T[p + 1] # ":"
  <2> SUFFICES ASSUME NEW p \in s..(c - 1) PROVE T[p + 1] # ":"
    OBVIOUS
  <2> DEFINE q == (p + 1) - s
  <2>1. q \in 1..a /\ s + q = p + 1
    BY <1>8, <1>24
  <2> HIDE DEF q
  <2>2. T[s + q] = h[1][q] /\ h[1][q] # ":"
    BY <1>5, <1>11, <2>1
  <2> QED
    BY <2>1, <2>2
<1>26. \A p \in v..(w - 1) : T[p + 1] # "\r"
  <2> SUFFICES ASSUME NEW p \in v..(w - 1) PROVE T[p + 1] # "\r"
    OBVIOUS
  <2> DEFINE q == (p + 1) - v
  <2>1. q \in 1..b /\ s + a + 2 + q = p + 1
    BY <1>8, <1>24
  <2> HIDE DEF q
  <2>2. T[s + a + 2 + q] = h[2][q] /\ h[2][q] # "\r"
    BY <1>5, <1>12, <2>1
  <2> QED
    BY <2>1, <2>2
<1>27. m.text = T /\ m.starts[k] = s /\ m.starts[k + 1] = next /\ m.fields[k] = h
  BY <1>7
<1> QED
  BY <1>19, <1>20, <1>21, <1>22, <1>23, <1>25, <1>26, <1>27, Zenon

-----------------------------------------------------------------------------
(* A request that arrives uncut behind its first key is taken as sent       *)

\* The scanner is in the header k, or behind it.
At(k) ==
  LET first == message.starts[1]
      pos   == first + i
      keyed == first + keyStart = message.starts[k] /\ first + keyEnd = ColonAt(message, k)
  IN  \/ hState = "START" /\ k = 1 /\ i = 0 /\ readLinePos = 0
      \/ /\ hState = "KEY" /\ message.starts[k] <= pos /\ pos <= ColonAt(message, k)
         /\ first + keyStart = message.starts[k]
         /\ k = 1 => readLinePos = 0
      \/ hState = "SPACES_AFTER_COLON" /\ keyed /\ pos = ColonAt(message, k) + 1
      \/ /\ hState = "VALUE" /\ keyed /\ first + valueStart = ValueAt(message, k)
         /\ ValueAt(message, k) <= pos /\ pos <= ValueTo(message, k)
      \/ /\ hState = "CR" /\ keyed /\ first + valueStart = ValueAt(message, k)
         /\ first + valueEnd = ValueTo(message, k) /\ pos = ValueTo(message, k) + 1
      \/ hState = "LF" /\ pos = message.starts[k + 1]
      \/ hState = "END_CR" /\ k = Len(message.fields) /\ pos = message.starts[k + 1] + 1

\* It has stored the headers before, and the rest of the text is there when it is behind
\* the first key.
ScanAt(k) ==
  /\ At(k)
  /\ headers = LastOf(message.fields, IF hState \in {"LF", "END_CR"} THEN k ELSE k - 1)
  /\ hState = "START" \/ (hState = "KEY" /\ k = 1) \/ arrived = Len(message.text)

\* Where the request line and the headers of a well-formed request are while they are read.
\* In each phase the buffer is a piece of the text, cut where the phase began; only what
\* lies before the first colon is ever read again, so that a state is kept with positions
\* that fit it.
Sent ==
  /\ state = "line" =>
       /\ pc = "wait" => /\ buffer = SubSeq(message.text, 1, arrived)
                         /\ arrived < message.starts[1]
                         /\ headers = {}
       /\ pc = "error" => ~Plain(message)
  /\ state = "headers" =>
       /\ (Plain(message) => line = message.line) /\ message.line # NoLine
       /\ pc # "error" /\ message.starts[1] <= arrived
       /\ pc = "success" => /\ arrived = Len(message.text)
                            /\ headers = message.headers /\ buffer = message.rest
       /\ pc \in {"wait", "scan"} =>
            /\ buffer = SubSeq(message.text, message.starts[1] + 1, arrived)
            /\ \/ arrived = Len(message.text)
               \/ \A p \in 1..arrived : message.text[p] # ":"
       /\ pc = "wait" => /\ headers = {} /\ hState \in {"START", "KEY"}
                         /\ arrived < Len(message.text)
       /\ pc = "scan" => \E k \in 1..Len(message.fields) : ScanAt(k)

\* What is known of the variables and the message while it is read.
LEMMA Known ==
  ASSUME ReqInv, WellFormed(message)
  PROVE  /\ message.text \in Seq(Chars) /\ message.text \in Text /\ Len(message.text) \in Nat
         /\ arrived \in Nat /\ arrived <= Len(message.text)
         /\ i \in Nat /\ keyStart \in Nat /\ keyEnd \in Nat /\ valueStart \in Nat
         /\ valueEnd \in Nat /\ readLinePos \in Nat
         /\ WellFormedBlock(message) /\ Len(message.fields) \in Nat /\ Len(message.fields) >= 1
         /\ message.starts[1] \in Nat /\ message.starts[1] < Len(message.text)
<1>1. /\ message.text \in Seq(Chars) /\ message.text \in Text /\ Len(message.text) \in Nat
      /\ arrived \in Nat /\ arrived <= Len(message.text)
  BY MessagesAssumption DEF ReqInv, Inv, TypeOK, Text
<1>2. /\ i \in Nat /\ keyStart \in Nat /\ keyEnd \in Nat /\ valueStart \in Nat
      /\ valueEnd \in Nat /\ readLinePos \in Nat
  BY DEF ReqInv, Inv, TypeOK
<1>3. WellFormedBlock(message) /\ Len(message.fields) \in Nat /\ Len(message.fields) >= 1
  <2>1. WellFormedBlock(message)
    BY DEF WellFormed
  <2>2. message.fields \in Seq(Text \X Text) /\ Len(message.fields) >= 1
    BY <2>1 DEF WellFormedBlock
  <2> QED
    BY <2>1, <2>2
<1>4. message.starts[1] \in Nat /\ message.starts[1] < Len(message.text)
  <2>1. 1 \in 1..Len(message.fields) /\ 1 + 1 = 2
    BY <1>3
  <2>2. /\ message.starts[1] \in Nat /\ ColonAt(message, 1) \in Nat /\ ValueTo(message, 1) \in Nat
        /\ message.starts[1] < ColonAt(message, 1) /\ ValueAt(message, 1) < ValueTo(message, 1)
        /\ message.starts[1 + 1] = ValueTo(message, 1) + 2
        /\ message.starts[1 + 1] <= Len(message.text)
    BY <1>1, <1>3, <2>1, HeaderChars
  <2>3. ValueAt(message, 1) = ColonAt(message, 1) + 2
    BY DEF ValueAt
  <2> QED
    BY <1>1, <2>2, <2>3
<1> QED
  BY <1>1, <1>2, <1>3, <1>4

\* The buffer while the headers are read.
LEMMA BufferIs ==
  ASSUME ReqInv, WellFormed(message), message.starts[1] <= arrived
  PROVE  buffer = SubSeq(message.text, message.starts[1] + 1, arrived) =>
         /\ Len(buffer) = arrived - message.starts[1]
         /\ \A j \in Nat : j < Len(buffer) => buffer[j + 1] = message.text[message.starts[1] + j + 1]
         /\ \A a, b \in Nat : a <= b /\ b <= Len(buffer) =>
              Slice(a, b) = SubSeq(message.text, message.starts[1] + a + 1, message.starts[1] + b)
<1> DEFINE T == message.text
           f == message.starts[1]
<1>1. T \in Seq(Chars) /\ f \in Nat /\ arrived \in Nat /\ f <= arrived /\ arrived <= Len(T)
  BY Known
<1> HIDE DEF T, f
<1>2. SUFFICES ASSUME buffer = SubSeq(T, f + 1, arrived)
               PROVE  /\ Len(buffer) = arrived - f
                      /\ \A j \in Nat : j < Len(buffer) => buffer[j + 1] = T[f + j + 1]
                      /\ \A a, b \in Nat : a <= b /\ b <= Len(buffer) =>
                           Slice(a, b) = SubSeq(T, f + a + 1, f + b)
  BY DEF T, f
<1>3. Len(buffer) = arrived - f /\ \A p \in 1..(arrived - f) : buffer[p] = T[f + p]
  <2> DEFINE u == SubSeq(T, f + 1, arrived)
  <2>1. Len(u) = arrived - f /\ \A p \in 1..(arrived - f) : u[p] = T[f + p]
    BY <1>1, SliceChars
  <2> HIDE DEF u
  <2>2. buffer = u
    BY <1>2 DEF u
  <2> QED
    BY <2>1, <2>2
<1>4. f \in Nat /\ arrived \in Nat /\ Len(buffer) = arrived - f
  BY <1>1, <1>3
<1>5. ASSUME NEW j \in Nat, j < Len(buffer)
      PROVE  buffer[j + 1] = T[f + j + 1]
  <2>1. j + 1 \in 1..(arrived - f) /\ f + (j + 1) = f + j + 1
    BY <1>4, <1>5
  <2> QED
    BY <1>3, <2>1
<1>6. ASSUME NEW a \in Nat, NEW b \in Nat, a <= b, b <= Len(buffer)
      PROVE  Slice(a, b) = SubSeq(T, f + a + 1, f + b)
  <2>1. b <= arrived - f
    BY <1>4, <1>6
  <2>2. SubSeq(SubSeq(T, f + 1, arrived), a + 1, b) = SubSeq(T, f + a + 1, f + b)
    BY <1>1, <1>6, <2>1, SliceOfSlice
  <2> QED
    BY <1>2, <2>2 DEF Slice
<1> QED
  BY <1>3, <1>5, <1>6

\* A header more is stored over one with its key.
LEMMA LastOfNext ==
  ASSUME NEW fields, NEW k \in Nat \ {0}
  PROVE  /\ LastOf(fields, 0) = {}
         /\ LastOf(fields, k) =
              {h \in LastOf(fields, k - 1) : h[1] # fields[k][1]} \union {fields[k]}
<1>1. LastOf(fields, 0) = {}
  BY DEF LastOf
<1> DEFINE old == {h \in LastOf(fields, k - 1) : h[1] # fields[k][1]}
<1>2. ASSUME NEW h \in LastOf(fields, k)
      PROVE  h \in old \union {fields[k]}
  <2>1. PICK j \in 1..k : h = fields[j] /\ \A q \in j + 1..k : fields[q][1] # fields[j][1]
    BY <1>2 DEF LastOf
  <2>2. CASE j = k
    BY <2>1, <2>2
  <2>3. CASE j # k
    <3>1. j \in 1..(k - 1) /\ k \in j + 1..k /\ \A q \in j + 1..(k - 1) : q \in j + 1..k
      BY <2>3
    <3>2. \A q \in j + 1..(k - 1) : fields[q][1] # fields[j][1]
      BY <2>1, <3>1
    <3>3. h \in LastOf(fields, k - 1) /\ h[1] # fields[k][1]
      BY <2>1, <3>1, <3>2 DEF LastOf
    <3> QED
      BY <3>3
  <2> QED
    BY <2>2, <2>3
<1>3. ASSUME NEW h \in old
      PROVE  h \in LastOf(fields, k)
  <2>1. PICK j \in 1..(k - 1) : h = fields[j] /\ \A q \in j + 1..(k - 1) : fields[q][1] # fields[j][1]
    BY <1>3 DEF LastOf
  <2>2. h[1] # fields[k][1]
    BY <1>3
  <2>3. j \in 1..k /\ \A q \in j + 1..k : q = k \/ q \in j + 1..(k - 1)
    OBVIOUS
  <2>4. \A q \in j + 1..k : fields[q][1] # fields[j][1]
    BY <2>1, <2>2, <2>3
  <2> QED
    BY <2>1, <2>3, <2>4 DEF LastOf
<1>4. fields[k] \in LastOf(fields, k)
  <2>1. k \in 1..k /\ \A q \in k + 1..k : FALSE
    OBVIOUS
  <2> QED
    BY <2>1 DEF LastOf
<1> HIDE DEF old
<1>5. LastOf(fields, k) = old \union {fields[k]}
  BY <1>2, <1>3, <1>4
<1> QED
  BY <1>1, <1>5 DEF old

\* The character under the loop is that of the text; behind a colon all has arrived.
LEMMA Here ==
  ASSUME ReqInv, WellFormed(message), Sent, state = "headers", pc = "scan", i < Len(buffer)
  PROVE  /\ message.starts[1] + i < arrived
         /\ Char = message.text[message.starts[1] + i + 1]
         /\ Char = ":" => arrived = Len(message.text)
<1> DEFINE f == message.starts[1]
           T == message.text
<1>1. /\ f \in Nat /\ i \in Nat /\ arrived \in Nat
  BY Known
<1>2. /\ f <= arrived /\ buffer = SubSeq(T, f + 1, arrived)
      /\ arrived = Len(T) \/ \A p \in 1..arrived : T[p] # ":"
  BY DEF Sent
<1>3. Len(buffer) = arrived - f /\ buffer[i + 1] = T[f + i + 1]
  BY <1>1, <1>2, BufferIs
<1> HIDE DEF f, T
<1>4. f + i < arrived /\ f + i + 1 \in 1..arrived
  BY <1>1, <1>3
<1>5. Char = T[f + i + 1]
  BY <1>3 DEF Char
<1> QED
  BY <1>2, <1>4, <1>5 DEF f, T

\* A step of the loop that leads to a place in a header.
LEMMA StepSent ==
  ASSUME Sent, state = "headers", pc = "scan", pc' = "scan",
         UNCHANGED <<message, arrived, buffer, state, line>>,
         NEW k \in 1..Len(message.fields), ScanAt(k)'
  PROVE  Sent'
<1>1. \E j \in 1..Len(message.fields) : ScanAt(j)'
  OBVIOUS
<1> QED
  BY <1>1, Zenon DEF Sent

\* The place of the scanner, with the bounds of its header.
LEMMA Bounds ==
  ASSUME ReqInv, WellFormed(message), NEW k \in 1..Len(message.fields)
  PROVE  /\ message.starts[1] \in Nat /\ message.starts[k] \in Nat /\ message.starts[k + 1] \in Nat
         /\ ColonAt(message, k) \in Nat /\ ValueAt(message, k) \in Nat /\ ValueTo(message, k) \in Nat
         /\ message.starts[k] < ColonAt(message, k) /\ ValueAt(message, k) = ColonAt(message, k) + 2
         /\ ValueAt(message, k) < ValueTo(message, k)
         /\ message.starts[k + 1] = ValueTo(message, k) + 2
         /\ message.starts[k + 1] <= Len(message.text)
<1>1. message.text \in Text /\ WellFormedBlock(message) /\ message.starts[1] \in Nat
  BY Known
<1>2. /\ message.starts[k] \in Nat /\ ColonAt(message, k) \in Nat /\ ValueTo(message, k) \in Nat
      /\ message.starts[k] < ColonAt(message, k) /\ ValueAt(message, k) < ValueTo(message, k)
      /\ message.starts[k + 1] = ValueTo(message, k) + 2
      /\ message.starts[k + 1] <= Len(message.text)
  BY <1>1, HeaderChars
<1>3. ValueAt(message, k) = ColonAt(message, k) + 2
  BY DEF ValueAt
<1>4. ValueAt(message, k) \in Nat /\ message.starts[k + 1] \in Nat
  BY <1>2, <1>3
<1> QED
  BY <1>1, <1>2, <1>3, <1>4

LEMMA HStartSent ==
  ASSUME ReqInv, WellFormed(message), Sent, state = "headers", HStart, UNCHANGED <<state, line>>
  PROVE  Sent'
<1>1. /\ pc = "scan" /\ i < Len(buffer) /\ hState = "START" /\ i' = i + 1
      /\ UNCHANGED <<message, arrived, buffer>> /\ UNCHANGED <<pc, headers>>
  BY DEF HStart, Scanning
<1>2. PICK k \in 1..Len(message.fields) : ScanAt(k)
  BY <1>1 DEF Sent
<1>3. k = 1 /\ i = 0 /\ headers = LastOf(message.fields, k - 1)
  BY <1>1, <1>2 DEF ScanAt, At
<1>4. Char \notin {"\r", "\n"}
  <2>1. message.text \in Text /\ WellFormedBlock(message) /\ message.starts[1] \in Nat
    BY Known
  <2>2. message.text[message.starts[k] + 1] \notin {"\r", "\n"}
    BY <2>1, HeaderChars
  <2>3. message.starts[1] + i + 1 = message.starts[k] + 1
    BY <1>3, <2>1
  <2>4. Char = message.text[message.starts[1] + i + 1]
    BY <1>1, Here
  <2> QED
    BY <2>2, <2>3, <2>4
<1>5. hState' = "KEY" /\ keyStart' = i /\ readLinePos' = i
  BY <1>4 DEF HStart
<1>6. At(k)'
  <2>1. /\ message.starts[1] \in Nat /\ message.starts[k] < ColonAt(message, k)
        /\ ColonAt(message, k) \in Nat
    BY Bounds
  <2>2. /\ message.starts[k] <= message.starts[1] + i' /\ message.starts[1] + i' <= ColonAt(message, k)
        /\ message.starts[1] + keyStart' = message.starts[k] /\ readLinePos' = 0
    BY <1>1, <1>3, <1>5, <2>1
  <2> QED
    BY <1>1, <1>5, <2>2 DEF At, ColonAt
<1>7. ScanAt(k)'
  BY <1>1, <1>3, <1>5, <1>6 DEF ScanAt
<1> QED
  BY <1>1, <1>7, StepSent

LEMMA HKeySent ==
  ASSUME ReqInv, WellFormed(message), Sent, state = "headers", HKey, UNCHANGED <<state, line>>
  PROVE  Sent'
<1>1. /\ pc = "scan" /\ i < Len(buffer) /\ hState = "KEY" /\ i' = i + 1
      /\ UNCHANGED <<message, arrived, buffer>> /\ UNCHANGED <<headers, keyStart, readLinePos>>
  BY DEF HKey, Scanning
<1>2. PICK k \in 1..Len(message.fields) : ScanAt(k)
  BY <1>1 DEF Sent
<1> DEFINE f == message.starts[1]
           s == message.starts[k]
           c == ColonAt(message, k)
<1>3. /\ headers = LastOf(message.fields, k - 1)
      /\ k = 1 \/ arrived = Len(message.text)
      /\ s <= f + i /\ f + i <= c /\ f + keyStart = s
      /\ k = 1 => readLinePos = 0
  BY <1>1, <1>2 DEF ScanAt, At
<1>4. f \in Nat /\ s \in Nat /\ c \in Nat /\ s < c /\ i \in Nat /\ keyStart \in Nat
  BY Known, Bounds
<1>5. /\ Char = message.text[f + i + 1]
      /\ Char = ":" => arrived = Len(message.text)
  BY <1>1, Here
<1>6. /\ \A q \in s..(c - 1) : message.text[q + 1] # ":"
      /\ message.text[c + 1] = ":"
  BY Known, HeaderChars
<1>7. ColonAt(message', k) = c /\ message'.starts[1] = f /\ message'.starts[k] = s
  BY <1>1 DEF ColonAt
<1> HIDE DEF f, s, c
<1>8. Char = ":" <=> f + i = c
  <2>1. f + i # c => f + i \in s..(c - 1)
    BY <1>3, <1>4
  <2> QED
    BY <1>5, <1>6, <2>1
<1>9. CASE Char = ":"
  <2>1. ~(i <= keyStart)
    BY <1>3, <1>4, <1>8, <1>9
  <2>2. hState' = "SPACES_AFTER_COLON" /\ keyEnd' = i /\ pc' = pc
    BY <1>9, <2>1 DEF HKey
  <2>3. f + keyStart' = s /\ f + keyEnd' = c /\ f + i' = c + 1
    BY <1>1, <1>3, <1>4, <1>8, <1>9, <2>2
  <2>4. At(k)'
    BY <1>7, <2>2, <2>3 DEF At
  <2>5. ScanAt(k)'
    BY <1>1, <1>3, <1>5, <1>9, <2>2, <2>4 DEF ScanAt
  <2> QED
    BY <1>1, <2>2, <2>5, StepSent
<1>10. CASE Char # ":"
  <2>1. hState' = hState /\ pc' = pc
    BY <1>10 DEF HKey
  <2>2. s <= f + i' /\ f + i' <= c /\ f + keyStart' = s
    BY <1>1, <1>3, <1>4, <1>8, <1>10
  <2>3. At(k)'
    BY <1>1, <1>3, <1>7, <2>1, <2>2 DEF At
  <2>4. ScanAt(k)'
    BY <1>1, <1>3, <2>1, <2>3 DEF ScanAt
  <2> QED
    BY <1>1, <2>1, <2>4, StepSent
<1> QED
  BY <1>9, <1>10

LEMMA HSpacesSent ==
  ASSUME ReqInv, WellFormed(message), Sent, state = "headers", HSpacesAfterColon,
         UNCHANGED <<state, line>>
  PROVE  Sent'
<1>1. /\ pc = "scan" /\ i < Len(buffer) /\ hState = "SPACES_AFTER_COLON" /\ i' = i + 1
      /\ UNCHANGED <<message, arrived, buffer>> /\ UNCHANGED <<headers, keyStart, keyEnd>>
  BY DEF HSpacesAfterColon, Scanning
<1>2. PICK k \in 1..Len(message.fields) : ScanAt(k)
  BY <1>1 DEF Sent
<1> DEFINE f == message.starts[1]
           s == message.starts[k]
           c == ColonAt(message, k)
           v == ValueAt(message, k)
           w == ValueTo(message, k)
<1>3. /\ headers = LastOf(message.fields, k - 1) /\ arrived = Len(message.text)
      /\ f + keyStart = s /\ f + keyEnd = c /\ f + i = c + 1
  BY <1>1, <1>2 DEF ScanAt, At
<1>4. f \in Nat /\ c \in Nat /\ i \in Nat /\ v = c + 2 /\ v < w /\ w \in Nat
  BY Known, Bounds
<1>5. Char = message.text[f + i + 1]
  BY <1>1, Here
<1>6. message.text[c + 2] = "SP"
  BY Known, HeaderChars
<1>7. /\ ColonAt(message', k) = c /\ ValueAt(message', k) = v /\ ValueTo(message', k) = w
      /\ message'.starts[1] = f /\ message'.starts[k] = s
  BY <1>1 DEF ColonAt, ValueAt, ValueTo
<1> HIDE DEF f, s, c, v, w
<1>8. Char = "SP"
  <2>1. f + i + 1 = c + 2
    BY <1>3, <1>4
  <2> QED
    BY <1>5, <1>6, <2>1
<1>9. hState' = "VALUE" /\ valueStart' = i + 1 /\ pc' = pc
  BY <1>8 DEF HSpacesAfterColon
<1>10. /\ f + keyStart' = s /\ f + keyEnd' = c /\ f + valueStart' = v
       /\ v <= f + i' /\ f + i' <= w
  BY <1>1, <1>3, <1>4, <1>9
<1>11. At(k)'
  BY <1>7, <1>9, <1>10 DEF At
<1>12. ScanAt(k)'
  BY <1>1, <1>3, <1>9, <1>11 DEF ScanAt
<1> QED
  BY <1>1, <1>9, <1>12, StepSent

LEMMA HValueSent ==
  ASSUME ReqInv, WellFormed(message), Sent, state = "headers", HValue, UNCHANGED <<state, line>>
  PROVE  Sent'
<1>1. /\ pc = "scan" /\ i < Len(buffer) /\ hState = "VALUE" /\ i' = i + 1
      /\ UNCHANGED <<message, arrived, buffer>>
      /\ UNCHANGED <<headers, keyStart, keyEnd, valueStart>>
  BY DEF HValue, Scanning
<1>2. PICK k \in 1..Len(message.fields) : ScanAt(k)
  BY <1>1 DEF Sent
<1> DEFINE f == message.starts[1]
           s == message.starts[k]
           c == ColonAt(message, k)
           v == ValueAt(message, k)
           w == ValueTo(message, k)
<1>3. /\ headers = LastOf(message.fields, k - 1) /\ arrived = Len(message.text)
      /\ f + keyStart = s /\ f + keyEnd = c /\ f + valueStart = v
      /\ v <= f + i /\ f + i <= w
  BY <1>1, <1>2 DEF ScanAt, At
<1>4. f \in Nat /\ i \in Nat /\ valueStart \in Nat /\ v \in Nat /\ w \in Nat /\ v < w
  BY Known, Bounds
<1>5. Char = message.text[f + i + 1]
  BY <1>1, Here
<1>6. /\ \A q \in v..(w - 1) : message.text[q + 1] # "\r"
      /\ message.text[w + 1] = "\r"
  BY Known, HeaderChars
<1>7. /\ ColonAt(message', k) = c /\ ValueAt(message', k) = v /\ ValueTo(message', k) = w
      /\ message'.starts[1] = f /\ message'.starts[k] = s
  BY <1>1 DEF ColonAt, ValueAt, ValueTo
<1> HIDE DEF f, s, c, v, w
<1>8. Char = "\r" <=> f + i = w
  <2>1. f + i # w => f + i \in v..(w - 1)
    BY <1>3, <1>4
  <2> QED
    BY <1>5, <1>6, <2>1
<1>9. CASE Char = "\r"
  <2>1. ~(i <= valueStart)
    BY <1>3, <1>4, <1>8, <1>9
  <2>2. hState' = "CR" /\ valueEnd' = i /\ pc' = pc
    BY <1>9, <2>1 DEF HValue
  <2>3. /\ f + keyStart' = s /\ f + keyEnd' = c /\ f + valueStart' = v /\ f + valueEnd' = w
        /\ f + i' = w + 1
    BY <1>1, <1>3, <1>4, <1>8, <1>9, <2>2
  <2>4. At(k)'
    BY <1>7, <2>2, <2>3 DEF At
  <2>5. ScanAt(k)'
    BY <1>1, <1>3, <2>2, <2>4 DEF ScanAt
  <2> QED
    BY <1>1, <2>2, <2>5, StepSent
<1>10. CASE Char # "\r"
  <2>1. hState' = hState /\ pc' = pc
    BY <1>10 DEF HValue
  <2>2. /\ f + keyStart' = s /\ f + keyEnd' = c /\ f + valueStart' = v
        /\ v <= f + i' /\ f + i' <= w
    BY <1>1, <1>3, <1>4, <1>8, <1>10
  <2>3. At(k)'
    BY <1>1, <1>7, <2>1, <2>2 DEF At
  <2>4. ScanAt(k)'
    BY <1>1, <1>3, <2>1, <2>3 DEF ScanAt
  <2> QED
    BY <1>1, <2>1, <2>4, StepSent
<1> QED
  BY <1>9, <1>10

\* The header that was sent is the one that is stored.
LEMMA HCrSent ==
  ASSUME ReqInv, WellFormed(message), Sent, state = "headers", HCr, UNCHANGED <<state, line>>
  PROVE  Sent'
<1>1. /\ pc = "scan" /\ i < Len(buffer) /\ hState = "CR" /\ i' = i + 1
      /\ UNCHANGED <<message, arrived, buffer>>
  BY DEF HCr, Scanning
<1>2. PICK k \in 1..Len(message.fields) : ScanAt(k)
  BY <1>1 DEF Sent
<1> DEFINE f == message.starts[1]
           s == message.starts[k]
           n == message.starts[k + 1]
           c == ColonAt(message, k)
           v == ValueAt(message, k)
           w == ValueTo(message, k)
           h == message.fields[k]
           T == message.text
<1>3. /\ headers = LastOf(message.fields, k - 1) /\ arrived = Len(T)
      /\ f + keyStart = s /\ f + keyEnd = c /\ f + valueStart = v /\ f + valueEnd = w
      /\ f + i = w + 1
  BY <1>1, <1>2 DEF ScanAt, At
<1>4. /\ f \in Nat /\ i \in Nat /\ keyStart \in Nat /\ keyEnd \in Nat /\ valueStart \in Nat
      /\ valueEnd \in Nat /\ s \in Nat /\ c \in Nat /\ v \in Nat /\ w \in Nat
      /\ s < c /\ v < w /\ n = w + 2 /\ v = c + 2
  BY Known, Bounds
<1>5. Char = T[f + i + 1]
  BY <1>1, Here
<1>6. /\ T[w + 2] = "\n" /\ h \in Text \X Text
      /\ SubSeq(T, s + 1, c) = h[1] /\ SubSeq(T, v + 1, w) = h[2]
  BY Known, HeaderChars
<1>7. f <= arrived /\ buffer = SubSeq(T, f + 1, arrived)
  BY <1>1 DEF Sent
<1>8. /\ \A a, b \in Nat : a <= b /\ b <= Len(buffer) =>
           Slice(a, b) = SubSeq(T, f + a + 1, f + b)
  BY <1>7, BufferIs
<1>9. Len(buffer) \in Nat
  BY DEF ReqInv, Inv, TypeOK, Text
<1>10. message'.starts[1] = f /\ message'.starts[k + 1] = n /\ message'.fields = message.fields
  BY <1>1
<1>11. headers = LastOf(message.fields, k - 1) /\ message.fields[k] = h
  BY <1>3
<1> HIDE DEF f, s, n, c, v, w, h, T
<1>12. Char = "\n"
  <2>1. f + i + 1 = w + 2
    BY <1>3, <1>4
  <2> QED
    BY <1>5, <1>6, <2>1
<1>13. hState' = "LF" /\ pc' = pc /\ SetHeader(Slice(keyStart, keyEnd), Slice(valueStart, valueEnd))
  BY <1>12 DEF HCr
<1>14. Slice(keyStart, keyEnd) = h[1]
  <2>1. keyStart <= keyEnd /\ keyEnd <= Len(buffer)
    BY <1>1, <1>3, <1>4, <1>9
  <2>2. f + keyStart + 1 = s + 1 /\ f + keyEnd = c
    BY <1>3, <1>4
  <2>3. Slice(keyStart, keyEnd) = SubSeq(T, f + keyStart + 1, f + keyEnd)
    BY <1>4, <1>8, <2>1
  <2> QED
    BY <1>6, <2>2, <2>3
<1>15. Slice(valueStart, valueEnd) = h[2]
  <2>1. valueStart <= valueEnd /\ valueEnd <= Len(buffer)
    BY <1>1, <1>3, <1>4, <1>9
  <2>2. f + valueStart + 1 = v + 1 /\ f + valueEnd = w
    BY <1>3, <1>4
  <2>3. Slice(valueStart, valueEnd) = SubSeq(T, f + valueStart + 1, f + valueEnd)
    BY <1>4, <1>8, <2>1
  <2> QED
    BY <1>6, <2>2, <2>3
<1>16. headers' = LastOf(message.fields, k)
  <2>1. <<h[1], h[2]>> = h
    BY <1>6
  <2>2. headers' = {x \in headers : x[1] # h[1]} \union {h}
    BY <1>13, <1>14, <1>15, <2>1 DEF SetHeader
  <2>3. k \in Nat \ {0}
    OBVIOUS
  <2> QED
    BY <1>11, <2>2, <2>3, LastOfNext
<1>17. f + i' = n
  BY <1>1, <1>3, <1>4
<1>18. At(k)'
  BY <1>10, <1>13, <1>17 DEF At
<1>19. arrived' = Len(message'.text)
  BY <1>1, <1>3 DEF T
<1>20. ScanAt(k)'
  BY <1>10, <1>13, <1>16, <1>18, <1>19 DEF ScanAt
<1> QED
  BY <1>1, <1>13, <1>20, StepSent

\* Behind a header comes the next one or the end of the block.
LEMMA HLfSent ==
  ASSUME ReqInv, WellFormed(message), Sent, state = "headers", HLf, UNCHANGED <<state, line>>
  PROVE  Sent'
<1>1. /\ pc = "scan" /\ i < Len(buffer) /\ hState = "LF" /\ i' = i + 1
      /\ UNCHANGED <<message, arrived, buffer>> /\ UNCHANGED <<pc, headers, readLinePos>>
  BY DEF HLf, Scanning
<1>2. PICK k \in 1..Len(message.fields) : ScanAt(k)
  BY <1>1 DEF Sent
<1> DEFINE f == message.starts[1]
           n == message.starts[k + 1]
           N == Len(message.fields)
<1>3. headers = LastOf(message.fields, k) /\ arrived = Len(message.text) /\ f + i = n
  BY <1>1, <1>2 DEF ScanAt, At
<1>4. f \in Nat /\ i \in Nat /\ n \in Nat /\ N \in Nat
  BY Known, Bounds
<1>5. Char = message.text[n + 1]
  <2>1. Char = message.text[f + i + 1]
    BY <1>1, Here
  <2>2. f + i + 1 = n + 1
    BY <1>3, <1>4
  <2> QED
    BY <2>1, <2>2
<1>6. CASE k = N
  <2>1. Char = "\r"
    <3>1. WellFormedBlock(message)
      BY Known
    <3>2. message.text[message.starts[N + 1] + 1] = "\r"
      BY <3>1 DEF WellFormedBlock
    <3> QED
      BY <1>5, <1>6, <3>2
  <2>2. hState' = "END_CR" /\ pc' = pc
    BY <1>1, <2>1 DEF HLf
  <2>3. message'.starts[1] = f /\ message'.starts[k + 1] = n /\ k = Len(message'.fields)
    BY <1>1, <1>6
  <2> HIDE DEF f, n, N
  <2>4. f + i' = n + 1
    BY <1>1, <1>3, <1>4
  <2>5. At(k)'
    BY <2>2, <2>3, <2>4 DEF At
  <2>6. ScanAt(k)'
    BY <1>1, <1>3, <2>2, <2>5 DEF ScanAt
  <2> QED
    BY <1>1, <2>6, StepSent
<1>7. CASE k # N
  <2> DEFINE j == k + 1
             c == ColonAt(message, j)
  <2>1. j \in 1..N /\ j # 1 /\ j - 1 = k
    BY <1>4, <1>7
  <2>2. message.text[message.starts[j] + 1] \notin {"\r", "\n"}
    BY <2>1, Known, HeaderChars
  <2>3. Char # "\r"
    BY <1>5, <2>2
  <2>4. hState' = "KEY" /\ keyStart' = i
    BY <1>1, <2>3 DEF HLf
  <2>5. c \in Nat /\ n < c
    BY <2>1, Bounds
  <2>6. n <= f + i' /\ f + i' <= c /\ f + keyStart' = n
    BY <1>1, <1>3, <1>4, <2>4, <2>5
  <2>7. message'.starts[1] = f /\ message'.starts[j] = n /\ ColonAt(message', j) = c
    BY <1>1 DEF ColonAt
  <2> HIDE DEF f, n, c, N, j
  <2>8. At(j)'
    BY <2>1, <2>4, <2>6, <2>7 DEF At
  <2>9. ScanAt(j)'
    BY <1>1, <1>3, <2>1, <2>4, <2>8 DEF ScanAt
  <2> QED
    BY <1>1, <2>1, <2>9, StepSent DEF N
<1> QED
  BY <1>6, <1>7

\* The block is taken from the text, and nothing behind it.
LEMMA HEndCrSent ==
  ASSUME ReqInv, WellFormed(message), Sent, state = "headers", HEndCr, UNCHANGED <<state, line>>
  PROVE  Sent'
<1>1. /\ pc = "scan" /\ i < Len(buffer) /\ hState = "END_CR"
      /\ UNCHANGED <<message, arrived, headers>>
  BY DEF HEndCr
<1>2. PICK k \in 1..Len(message.fields) : ScanAt(k)
  BY <1>1 DEF Sent
<1> DEFINE f == message.starts[1]
           n == message.starts[k + 1]
           T == message.text
<1>3. /\ headers = LastOf(message.fields, k) /\ arrived = Len(T)
      /\ k = Len(message.fields) /\ f + i = n + 1
  BY <1>1, <1>2 DEF ScanAt, At
<1>4. f \in Nat /\ i \in Nat /\ n \in Nat /\ Len(T) \in Nat
  BY Known, Bounds
<1>5. /\ T[n + 2] = "\n" /\ message.headers = LastOf(message.fields, k)
      /\ message.rest = SubSeq(T, n + 3, Len(T))
  <2>1. WellFormedBlock(message)
    BY Known
  <2> QED
    BY <1>3, <2>1 DEF WellFormedBlock
<1>6. Char = "\n"
  <2>1. Char = T[f + i + 1]
    BY <1>1, Here
  <2>2. f + i + 1 = n + 2
    BY <1>3, <1>4
  <2> QED
    BY <1>5, <2>1, <2>2
<1>7. buffer' = Slice(i + 1, Len(buffer)) /\ pc' = "success"
  BY <1>6 DEF HEndCr
<1>8. buffer' = message.rest
  <2>1. f <= arrived /\ buffer = SubSeq(T, f + 1, arrived)
    BY <1>1 DEF Sent
  <2>2. Len(buffer) = arrived - f /\ \A a, b \in Nat : a <= b /\ b <= Len(buffer) =>
          Slice(a, b) = SubSeq(T, f + a + 1, f + b)
    BY <2>1, BufferIs
  <2>3. Len(buffer) \in Nat
    BY DEF ReqInv, Inv, TypeOK, Text
  <2> DEFINE l == Len(buffer)
  <2> HIDE DEF f, n, T, l
  <2>4. l \in Nat /\ l = Len(T) - f /\ i + 1 \in Nat /\ i + 1 <= l
    BY <1>1, <1>3, <1>4, <2>2, <2>3 DEF l
  <2>5. Slice(i + 1, l) = SubSeq(T, f + (i + 1) + 1, f + l)
    BY <2>2, <2>4 DEF l
  <2>6. f + (i + 1) + 1 = n + 3 /\ f + l = Len(T)
    BY <1>3, <1>4, <2>4
  <2> QED
    BY <1>5, <1>7, <2>5, <2>6 DEF l
<1>9. headers' = message.headers /\ arrived' = Len(message'.text)
  BY <1>1, <1>3, <1>5
<1>10. message' = message /\ arrived' = arrived /\ f <= arrived /\ message.line # NoLine
       /\ (Plain(message) => line = message.line)
  BY <1>1 DEF Sent
<1> QED
  BY <1>7, <1>8, <1>9, <1>10 DEF Sent

\* The parser waits only before the first colon, with the buffer kept from its first key.
LEMMA AgainSent ==
  ASSUME ReqInv, WellFormed(message), Sent, state = "headers", Again, UNCHANGED <<state, line>>
  PROVE  Sent'
<1>1. /\ pc = "scan" /\ i = Len(buffer) /\ pc' = "wait" /\ buffer' = Slice(readLinePos, Len(buffer))
      /\ UNCHANGED <<message, arrived, hState, headers>>
  BY DEF Again
<1>2. PICK k \in 1..Len(message.fields) : ScanAt(k)
  BY <1>1 DEF Sent
<1> DEFINE f == message.starts[1]
           T == message.text
<1>3. /\ f \in Nat /\ i \in Nat /\ arrived \in Nat /\ T \in Seq(Chars) /\ Len(T) \in Nat
      /\ arrived <= Len(T) /\ f < Len(T) /\ WellFormedBlock(message)
  BY Known
<1>4. /\ f <= arrived /\ buffer = SubSeq(T, f + 1, arrived)
      /\ arrived = Len(T) \/ \A p \in 1..arrived : T[p] # ":"
      /\ message.line # NoLine /\ (Plain(message) => line = message.line)
  BY <1>1 DEF Sent
<1>5. f + i = arrived
  <2>1. Len(buffer) = arrived - f
    BY <1>4, BufferIs
  <2> QED
    BY <1>1, <1>3, <2>1
<1>6. arrived # Len(T)
  <2> DEFINE n == message.starts[k + 1]
             c == ColonAt(message, k)
             w == ValueTo(message, k)
  <2>1. c \in Nat /\ w \in Nat /\ c + 2 < w /\ n = w + 2 /\ n <= Len(T)
    BY Bounds
  <2>2. k = Len(message.fields) => n + 2 <= Len(T)
    BY <1>3 DEF WellFormedBlock
  <2>3. k \in 1..Len(message.fields) /\ (k # Len(message.fields) => k + 1 \in 1..Len(message.fields))
    BY Known
  <2>4. k # Len(message.fields) => n < Len(T)
    <3> SUFFICES ASSUME k # Len(message.fields) PROVE n < Len(T)
      OBVIOUS
    <3> DEFINE j == k + 1
    <3>1. j \in 1..Len(message.fields)
      BY <2>3
    <3> HIDE DEF j
    <3>2. /\ message.starts[j] \in Nat /\ ColonAt(message, j) \in Nat /\ ValueTo(message, j) \in Nat
          /\ message.starts[j] < ColonAt(message, j) /\ ValueAt(message, j) = ColonAt(message, j) + 2
          /\ ValueAt(message, j) < ValueTo(message, j)
          /\ message.starts[j + 1] = ValueTo(message, j) + 2
          /\ message.starts[j + 1] <= Len(message.text)
      BY <3>1, Bounds
    <3>3. message.starts[j] < Len(T)
      BY <1>3, <3>2
    <3> QED
      BY <3>3 DEF j
  <2>5. \/ hState = "START" /\ i = 0
        \/ hState = "KEY" /\ f + i <= c
        \/ f + i = c + 1
        \/ f + i <= w
        \/ f + i = w + 1
        \/ f + i = n
        \/ k = Len(message.fields) /\ f + i = n + 1
    BY <1>2 DEF ScanAt, At
  <2>6. n < Len(T)
    BY <1>3, <2>1, <2>2, <2>4
  <2> HIDE DEF f, n, c, w, T
  <2> QED
    BY <1>3, <1>5, <2>1, <2>2, <2>5, <2>6
<1>7. /\ headers = LastOf(message.fields, 0) /\ hState \in {"START", "KEY"} /\ readLinePos = 0
  <2>1. hState = "START" \/ (hState = "KEY" /\ k = 1)
    BY <1>2, <1>6 DEF ScanAt
  <2>2. k = 1 /\ readLinePos = 0
    BY <1>2, <2>1 DEF ScanAt, At
  <2> QED
    BY <1>2, <2>1, <2>2 DEF ScanAt
<1>8. headers = {}
  <2>1. 1 \in Nat \ {0}
    OBVIOUS
  <2> QED
    BY <1>7, <2>1, LastOfNext
<1>9. buffer' = buffer
  <2>1. buffer \in Seq(Chars)
    BY DEF ReqInv, Inv, TypeOK, Text
  <2>2. SubSeq(buffer, 1, Len(buffer)) = buffer
    BY <2>1, SubSeqFull
  <2>3. readLinePos + 1 = 1
    BY <1>7
  <2> QED
    BY <1>1, <2>2, <2>3 DEF Slice
<1>10. arrived < Len(T)
  BY <1>3, <1>6
<1> QED
  BY <1>1, <1>4, <1>7, <1>8, <1>9, <1>10 DEF Sent

\* What is cut off the text of a request and what has arrived of it are one piece.
LEMMA ReadOn ==
  ASSUME NEW T \in Seq(Chars), NEW f \in Nat, NEW a \in Nat, NEW n \in Nat,
         f <= a, a <= n, n <= Len(T)
  PROVE  SubSeq(T, f + 1, a) \o SubSeq(T, a + 1, n) = SubSeq(T, f + 1, n)
<1>1. f + 1 \in 1..Len(T) + 1 /\ a \in (f + 1) - 1..Len(T) /\ n \in a..Len(T)
  OBVIOUS
<1> QED
  BY <1>1, ConcatAdjacentSubSeq

\* More of the headers arrives: the scan starts again at the first key.
LEMMA CallSent ==
  ASSUME ReqInv, WellFormed(message), Sent, ~SplitAnywhere, state = "headers", Call,
         UNCHANGED <<state, line>>
  PROVE  Sent'
<1> DEFINE f == message.starts[1]
           T == message.text
<1>1. PICK n \in arrived + 1 .. Len(T) :
        Cut(n) /\ arrived' = n /\ buffer' = buffer \o SubSeq(T, arrived + 1, n)
  BY DEF Call
<1>2. /\ pc = "wait" /\ pc' = "scan" /\ i' = 0 /\ keyStart' = 0 /\ readLinePos' = 0
      /\ UNCHANGED <<message, hState, headers>>
  BY DEF Call
<1>3. /\ f \in Nat /\ arrived \in Nat /\ T \in Seq(Chars) /\ Len(T) \in Nat /\ f < Len(T)
      /\ 1 \in 1..Len(message.fields)
  BY Known
<1>4. /\ f <= arrived /\ buffer = SubSeq(T, f + 1, arrived)
      /\ headers = {} /\ hState \in {"START", "KEY"}
      /\ message.line # NoLine /\ (Plain(message) => line = message.line)
  BY <1>2 DEF Sent
<1>5. n \in Nat /\ arrived <= n /\ n <= Len(T) /\ f <= n
  BY <1>3, <1>4
<1>6. buffer' = SubSeq(T, f + 1, n)
  BY <1>1, <1>3, <1>4, <1>5, ReadOn
<1>7. n = Len(T) \/ \A p \in 1..n : T[p] # ":"
  BY <1>1 DEF Cut
<1>8. f + i' = f /\ f + keyStart' = f /\ f < ColonAt(message, 1) /\ ColonAt(message, 1) \in Nat
  BY <1>2, <1>3, Bounds
<1>9. ColonAt(message', 1) = ColonAt(message, 1) /\ message'.starts[1] = f
  BY <1>2 DEF ColonAt
<1>10. At(1)'
  <2> DEFINE c == ColonAt(message, 1)
  <2>1. f <= f /\ f <= c
    BY <1>3, <1>8
  <2> HIDE DEF f, c
  <2>2. \/ hState' = "START" /\ i' = 0 /\ readLinePos' = 0
        \/ hState' = "KEY"
    BY <1>2, <1>4
  <2> QED
    BY <1>2, <1>8, <1>9, <2>1, <2>2 DEF At, c
<1>11. ScanAt(1)'
  <2>1. LastOf(message.fields, 0) = {}
    <3>1. 1 \in Nat \ {0}
      OBVIOUS
    <3> QED
      BY <3>1, LastOfNext
  <2>2. 1 - 1 = 0 /\ hState' \in {"START", "KEY"} /\ headers' = {} /\ message' = message
    BY <1>2, <1>4
  <2> QED
    BY <1>10, <2>1, <2>2 DEF ScanAt
<1>12. /\ message'.starts[1] <= arrived'
       /\ buffer' = SubSeq(message'.text, message'.starts[1] + 1, arrived')
       /\ arrived' = Len(message'.text) \/ \A p \in 1..arrived' : message'.text[p] # ":"
       /\ \E k \in 1..Len(message'.fields) : ScanAt(k)'
  BY <1>1, <1>2, <1>3, <1>5, <1>6, <1>7, <1>11
<1> QED
  BY <1>2, <1>4, <1>12 DEF Sent

\* What the line that was sent is parsed to.
LEMMA ParsedLine ==
  ASSUME NEW m, NEW s \in Text, FullLine(s, m) \/ ShortLine(s, m) \/ NotALine(s, m)
  PROVE  /\ Plain(m) => ParseLine(s) = m.line
         /\ ParseLine(s) # NoLine => m.line # NoLine
<1>1. CASE FullLine(s, m)
  <2>1. m.line # NoLine
    BY <1>1 DEF FullLine, Lines, NoLine, Methods
  <2> QED
    BY <1>1, <2>1, ParseFull
<1>2. CASE ShortLine(s, m)
  <2>1. m.line # NoLine
    BY <1>2 DEF ShortLine, NoLine, Methods
  <2> QED
    BY <1>2, <2>1, ParseShort
<1>3. CASE NotALine(s, m)
  <2>1. m.line = NoLine
    BY <1>3 DEF NotALine
  <2>2. ~Plain(m)
    BY <2>1 DEF Plain
  <2> QED
    BY <1>3, <2>2, ParseNot
<1> QED
  BY <1>1, <1>2, <1>3

\* The line is found where it ends, and all that follows it is kept for the headers.
LEMMA ReceiveLineSent ==
  ASSUME ReqInv, WellFormed(message), Sent, ~SplitAnywhere, ReceiveLine
  PROVE  Sent'
<1> DEFINE f == message.starts[1]
           T == message.text
           input(n) == buffer \o SubSeq(T, arrived + 1, n)
<1>1. PICK n \in arrived + 1 .. Len(T) :
        /\ Cut(n) /\ arrived' = n
        /\ LET end == FindCrLf(input(n))
           IN  \/ end = 0 /\ buffer' = input(n) /\ UNCHANGED <<pc, state, line>>
              \/ /\ end # 0 /\ buffer' = LineRest(input(n), end)
                 /\ line' = ParseLine(SubSeq(input(n), 1, end - 1))
                 /\ IF line' = NoLine
                      THEN pc' = "error" /\ UNCHANGED state
                      ELSE pc' = "scan" /\ state' = "headers"
  BY DEF ReceiveLine
<1>2. /\ state = "line" /\ pc = "wait" /\ UNCHANGED <<message, hState, headers, i, readLinePos>>
      /\ hState = "START" /\ i = 0 /\ readLinePos = 0
  BY DEF ReceiveLine, ReqInv, locals
<1>3. /\ f \in Nat /\ arrived \in Nat /\ T \in Seq(Chars) /\ Len(T) \in Nat /\ f < Len(T)
      /\ 1 \in 1..Len(message.fields)
  BY Known
<1>4. buffer = SubSeq(T, 1, arrived) /\ arrived < f /\ headers = {}
  BY <1>2 DEF Sent
<1>5. n \in Nat /\ arrived <= n /\ n <= Len(T) /\ arrived < n
  BY <1>3
<1>6. input(n) = SubSeq(T, 1, n)
  <2>1. 0 \in Nat /\ 0 + 1 = 1 /\ 0 <= arrived
    BY <1>3
  <2> QED
    BY <1>3, <1>4, <1>5, <2>1, ReadOn
<1>7. n = Len(T) \/ \A p \in 1..n : T[p] # ":"
  BY <1>1 DEF Cut
<1>8. /\ f - 1 >= 1 /\ T[f - 1] = "\r" /\ T[(f - 1) + 1] = "\n"
      /\ \A p \in 1..((f - 1) - 1) : ~(T[p] = "\r" /\ T[p + 1] = "\n")
      /\ LET s == SubSeq(T, 1, (f - 1) - 1)
         IN  FullLine(s, message) \/ ShortLine(s, message) \/ NotALine(s, message)
  BY DEF WellFormed
<1> DEFINE u == SubSeq(T, 1, n)
<1>9. u \in Seq(Chars) /\ Len(u) = n /\ \A p \in 1..n : u[p] = T[p]
  <2>1. SubSeq(T, 0 + 1, n) \in Seq(Chars) /\ Len(SubSeq(T, 0 + 1, n)) = n - 0
        /\ \A p \in 1..(n - 0) : SubSeq(T, 0 + 1, n)[p] = T[0 + p]
    BY <1>3, <1>5, SliceChars
  <2>2. 0 + 1 = 1 /\ n - 0 = n /\ \A p \in 1..n : 0 + p = p
    BY <1>5
  <2> QED
    BY <2>1, <2>2
<1>10. input(n) = u
  BY <1>6
<1>11. message' = message /\ message'.starts[1] = f /\ message'.text = T
  BY <1>2
<1> HIDE DEF u, input, T, f
<1>12. CASE n < f
  <2>1. FindCrLf(u) = 0
    <3>1. \A q \in 1..(n - 1) : q \in 1..n /\ q + 1 \in 1..n /\ q \in 1..((f - 1) - 1)
      BY <1>3, <1>5, <1>12
    <3>2. \A q \in 1..(n - 1) : u[q] = T[q] /\ u[q + 1] = T[q + 1]
      BY <1>9, <3>1
    <3>3. \A q \in 1..(n - 1) : ~(T[q] = "\r" /\ T[q + 1] = "\n")
      BY <1>8, <3>1
    <3>4. \A q \in 1..(Len(u) - 1) : ~(u[q] = "\r" /\ u[q + 1] = "\n")
      BY <1>9, <3>2, <3>3
    <3> QED
      BY <3>4, FindCrLfNone
  <2>2. buffer' = u /\ pc' = "wait" /\ state' = "line"
    BY <1>1, <1>2, <1>10, <2>1
  <2>3. /\ buffer' = SubSeq(message'.text, 1, arrived') /\ arrived' < message'.starts[1]
        /\ headers' = {}
    BY <1>1, <1>2, <1>4, <1>11, <1>12, <2>2 DEF u
  <2> QED
    BY <2>2, <2>3 DEF Sent
<1>13. CASE ~(n < f)
  <2> DEFINE e == f - 1
  <2>1. e \in 1..(n - 1) /\ e + 1 \in 1..n /\ e # 0 /\ e + 1 = f /\ e + 2 = f + 1 /\ f <= n
    BY <1>3, <1>5, <1>8, <1>13
  <2>2. FindCrLf(u) = e
    <3>1. \A q \in 1..(e - 1) : q \in 1..n /\ q + 1 \in 1..n
      BY <1>5, <2>1
    <3>2. /\ T[e] = "\r" /\ T[e + 1] = "\n"
          /\ \A q \in 1..(e - 1) : ~(T[q] = "\r" /\ T[q + 1] = "\n")
      BY <1>8
    <3>3. e \in 1..n /\ e + 1 \in 1..n
      BY <1>5, <2>1
    <3>4. Len(u) \in Nat /\ e \in 1..(Len(u) - 1)
      BY <1>5, <1>9, <2>1
    <3> HIDE DEF e
    <3>5. u[e] = "\r" /\ u[e + 1] = "\n"
      BY <1>9, <3>2, <3>3
    <3>6. \A q \in 1..(e - 1) : ~(u[q] = "\r" /\ u[q + 1] = "\n")
      BY <1>9, <3>1, <3>2
    <3> QED
      BY <3>4, <3>5, <3>6, FindCrLfIs
  <2> DEFINE s == SubSeq(T, 1, e - 1)
  <2>3. SubSeq(u, 1, e - 1) = s /\ s \in Text
    <3>1. e - 1 \in Nat /\ 0 <= e - 1 /\ e - 1 <= n - 0 /\ e - 1 <= Len(T) /\ 0 + 1 = 1 /\ 0 + 0 + 1 = 1
          /\ 0 + (e - 1) = e - 1
      BY <1>3, <1>5, <2>1
    <3> DEFINE d == e - 1
    <3>2. /\ d \in Nat /\ 0 <= d /\ d <= n - 0 /\ d <= Len(T) /\ 0 + 1 = 1 /\ 0 + 0 + 1 = 1
          /\ 0 + d = d /\ 0 \in Nat /\ 0 <= n
      BY <1>5, <3>1
    <3> HIDE DEF d
    <3>3. SubSeq(SubSeq(T, 0 + 1, n), 0 + 1, d) = SubSeq(T, 0 + 0 + 1, 0 + d)
      BY <1>3, <1>5, <3>2, SliceOfSlice
    <3>4. SubSeq(T, 0 + 1, d) \in Seq(Chars)
      BY <1>3, <3>2, SliceChars
    <3> QED
      BY <3>2, <3>3, <3>4 DEF d, u, Text
  <2>4. LineRest(u, e) = SubSeq(T, f + 1, n)
    <3>1. f <= n /\ n <= n - 0 /\ 0 + 1 = 1 /\ 0 + f + 1 = f + 1 /\ 0 + n = n /\ 0 \in Nat /\ 0 <= n
      BY <1>3, <1>5, <2>1
    <3>2. SubSeq(SubSeq(T, 0 + 1, n), f + 1, n) = SubSeq(T, 0 + f + 1, 0 + n)
      BY <1>3, <1>5, <3>1, SliceOfSlice
    <3>3. LineRest(u, e) = SubSeq(u, f + 1, n)
      BY <1>9, <2>1 DEF LineRest
    <3> QED
      BY <3>1, <3>2, <3>3 DEF u
  <2>5. /\ buffer' = SubSeq(T, f + 1, n) /\ line' = ParseLine(s)
        /\ IF line' = NoLine
             THEN pc' = "error" /\ UNCHANGED state
             ELSE pc' = "scan" /\ state' = "headers"
    BY <1>1, <1>10, <2>1, <2>2, <2>3, <2>4
  <2>6. /\ Plain(message) => line' = message.line
        /\ line' # NoLine => message.line # NoLine
    BY <1>8, <2>3, <2>5, ParsedLine
  <2>7. CASE line' = NoLine
    <3>1. ~Plain(message)
      BY <2>6, <2>7 DEF Plain
    <3>2. pc' = "error" /\ state' = "line" /\ message' = message
      BY <1>2, <1>11, <2>5, <2>7
    <3> QED
      BY <3>1, <3>2 DEF Sent
  <2>8. CASE line' # NoLine
    <3>1. pc' = "scan" /\ state' = "headers"
      BY <2>5, <2>8
    <3>2. At(1)'
      BY <1>2 DEF At
    <3>3. ScanAt(1)'
      <4>1. LastOf(message.fields, 0) = {}
        <5>1. 1 \in Nat \ {0}
          OBVIOUS
        <5> QED
          BY <5>1, LastOfNext
      <4>2. 1 - 1 = 0 /\ hState' = "START" /\ headers' = {} /\ message' = message
        BY <1>2, <1>4
      <4> QED
        BY <3>2, <4>1, <4>2 DEF ScanAt
    <3>4. /\ message'.starts[1] <= arrived'
          /\ buffer' = SubSeq(message'.text, message'.starts[1] + 1, arrived')
          /\ arrived' = Len(message'.text) \/ \A p \in 1..arrived' : message'.text[p] # ":"
      BY <1>1, <1>7, <1>11, <2>1, <2>5
    <3>5. \E k \in 1..Len(message'.fields) : ScanAt(k)'
      BY <1>3, <1>11, <3>3
    <3>6. (Plain(message') => line' = message'.line) /\ message'.line # NoLine
      BY <1>11, <2>6, <2>8
    <3> QED
      BY <3>1, <3>4, <3>5, <3>6 DEF Sent
  <2> QED
    BY <2>7, <2>8
<1> QED
  BY <1>12, <1>13

\* The invariant of a well-formed request.
LEMMA ReqInitSent == ReqInit /\ WellFormed(message) => Sent
<1> SUFFICES ASSUME ReqInit, WellFormed(message) PROVE Sent
  OBVIOUS
<1>1. state = "line" /\ pc = "wait" /\ buffer = << >> /\ arrived = 0 /\ headers = {}
  BY DEF ReqInit, Init
<1>2. SubSeq(message.text, 1, 0) = << >>
  BY SubSeqEmpty
<1>3. 0 < message.starts[1]
  <2>1. message.starts[1] - 1 >= 1 /\ message.starts[1] \in Nat
    <3>1. WellFormedBlock(message) /\ message.starts[1] - 1 >= 1
      BY DEF WellFormed
    <3>2. message.starts \in Seq(Nat) /\ 1 \in 1..Len(message.starts)
      BY <3>1 DEF WellFormedBlock
    <3> QED
      BY <3>1, <3>2, ElementOfSeq
  <2> QED
    BY <2>1
<1> QED
  BY <1>1, <1>2, <1>3 DEF Sent

LEMMA ReqNextSent ==
  ASSUME ~SplitAnywhere
  PROVE  ReqInv /\ (WellFormed(message) => Sent) /\ [ReqNext]_reqVars
           => (WellFormed(message) => Sent)'
<1> SUFFICES ASSUME ReqInv, WellFormed(message) => Sent, [ReqNext]_reqVars, WellFormed(message)'
             PROVE  Sent'
  OBVIOUS
<1>1. message' = message
  BY DEF ReqNext, ReceiveLine, ParseHeaders, Next, Call, Again, HStart, HKey, HSpacesAfterColon,
         HValue, HCr, HLf, HEndCr, Scanning, reqVars, vars
<1>2. WellFormed(message) /\ Sent
  BY <1>1 DEF WellFormed
<1>3. CASE ReceiveLine
  BY <1>2, <1>3, ReceiveLineSent
<1>4. CASE ParseHeaders
  BY <1>2, <1>4, CallSent, AgainSent, HStartSent, HKeySent, HSpacesSent, HValueSent, HCrSent,
     HLfSent, HEndCrSent DEF ParseHeaders, Next
<1>5. CASE UNCHANGED reqVars
  BY <1>2, <1>5 DEF reqVars, vars, locals, Sent, ScanAt, At
<1> QED
  BY <1>3, <1>4, <1>5 DEF ReqNext

THEOREM SentInductive == ~SplitAnywhere => (ReqSpec => [](WellFormed(message) => Sent))
<1> SUFFICES ASSUME ~SplitAnywhere PROVE ReqSpec => [](WellFormed(message) => Sent)
  OBVIOUS
<1>1. ReqInit => (WellFormed(message) => Sent)
  BY ReqInitSent
<1>2. ReqInv /\ (WellFormed(message) => Sent) /\ [ReqNext]_reqVars
        => (WellFormed(message) => Sent)'
  BY ReqNextSent
<1> QED
  BY <1>1, <1>2, ReqInductive, PTL DEF ReqSpec

\* parseRequestLine and parseRequestHeader take from a well-formed request of any length,
\* with any number of headers, what the peer meant by it, and leave all that follows it:
\* the plain line, however it is cut, each header with the last value for its key, and the
\* rest of the stream; and what is no request line is refused.
THEOREM TakenAsSent == ~SplitAnywhere => (ReqSpec => [](WellFormed(message) => RequestAsSent))
<1> SUFFICES ASSUME ~SplitAnywhere PROVE ReqSpec => [](WellFormed(message) => RequestAsSent)
  OBVIOUS
<1>1. ReqInv /\ (WellFormed(message) => Sent) => (WellFormed(message) => RequestAsSent)
  <2> SUFFICES ASSUME ReqInv, WellFormed(message), Sent PROVE RequestAsSent
    OBVIOUS
  <2>1. LineAsSent
    BY DEF Sent, LineAsSent
  <2>2. pc = "success" => state = "headers"
    BY DEF ReqInv
  <2>3. HeadersAsSent
    BY <2>2 DEF Sent, HeadersAsSent
  <2>4. RestKept
    <3> SUFFICES ASSUME pc = "success"
                 PROVE  buffer \o SubSeq(message.text, arrived + 1, Len(message.text)) = message.rest
      BY DEF RestKept
    <3>1. arrived = Len(message.text) /\ buffer = message.rest
      BY <2>2 DEF Sent
    <3>2. SubSeq(message.text, arrived + 1, Len(message.text)) = << >>
      BY <3>1, Known, SubSeqEmpty
    <3>3. buffer \in Seq(Chars)
      BY DEF ReqInv, Inv, TypeOK, Text
    <3> QED
      BY <3>1, <3>2, <3>3, ConcatEmptySeq
  <2> QED
    BY <2>1, <2>3, <2>4 DEF RequestAsSent
<1> QED
  BY <1>1, ReqInductive, SentInductive, PTL

\* handleRead never answers 400 to a well-formed request with a plain line, and never waits
\* for more when it has all of it.
THEOREM PlainAccepted == ~SplitAnywhere => (ReqSpec => [](WellFormed(message) => RequestAccepted))
<1> SUFFICES ASSUME ~SplitAnywhere PROVE ReqSpec => [](WellFormed(message) => RequestAccepted)
  OBVIOUS
<1>1. ReqInv /\ (WellFormed(message) => Sent) => (WellFormed(message) => RequestAccepted)
  <2> SUFFICES ASSUME ReqInv, WellFormed(message), Sent, Plain(message) PROVE Accepted
    BY DEF RequestAccepted
  <2>1. pc # "error"
    BY DEF Sent, ReqInv
  <2>2. ~(pc = "wait" /\ arrived = Len(message.text))
    <3>1. /\ message.starts[1] \in Nat /\ message.starts[1] < Len(message.text)
          /\ Len(message.text) \in Nat /\ arrived \in Nat
      BY Known
    <3>2. pc = "wait" => arrived < message.starts[1] \/ arrived < Len(message.text)
      BY DEF Sent, ReqInv
    <3> QED
      BY <3>1, <3>2
  <2> QED
    BY <2>1, <2>2 DEF Accepted
<1> QED
  BY <1>1, ReqInductive, SentInductive, PTL
=============================================================================
