---------------------------- MODULE LogStreamProofs ----------------------------
(***************************************************************************)
(* For buffers and records of every size, a record stays in its buffer and *)
(* ends with its newline unless the buffer is full, and its items are in   *)
(* it whole or not at all.  That convert() fits and writes decimal         *)
(* notation is assumed here, as it is a loop: the run evaluates both.      *)
(***************************************************************************)
EXTENDS LogStream, SequenceTheorems, TLAPS

\* A stream whose buffer has room for one more byte, with nothing written behind it.
StreamOK(s) ==
  /\ s \in [buffer : Seq(Chars), touched : Nat, items : Seq(Items), ends : Seq(Nat)]
  /\ Len(s.ends) = Len(s.items)
  /\ Len(s.buffer) < Size
  /\ s.touched <= Size

\* An item that the stream may be given: a text of any length, a number that fits.
Fits(x) ==
  /\ x \in Items
  /\ x.kind = "double" => Len(x.text) < MaxNumericSize

\* Writing a text with room for it, and for what is not kept of it.
LEMMA WriteOK ==
  ASSUME NEW s, StreamOK(s), NEW text \in Seq(Chars), NEW extra \in {0, 1},
         Len(s.buffer) + Len(text) < Size
  PROVE  /\ StreamOK(Write(s, text, extra))
         /\ Write(s, text, extra).buffer = s.buffer \o text
         /\ Write(s, text, extra).items = s.items /\ Write(s, text, extra).ends = s.ends
<1> DEFINE w == Larger(s.touched, Len(s.buffer) + Len(text) + extra)
           b == s.buffer \o text
<1>1. /\ s.buffer \in Seq(Chars) /\ s.touched \in Nat /\ s.items \in Seq(Items)
      /\ s.ends \in Seq(Nat) /\ Len(s.buffer) \in Nat /\ Len(text) \in Nat /\ Size \in Nat
  BY SizeAssumption DEF StreamOK
<1>2. b \in Seq(Chars) /\ Len(b) = Len(s.buffer) + Len(text)
  BY <1>1, ConcatProperties
<1>3. w \in Nat /\ w <= Size
  BY <1>1 DEF Larger, StreamOK
<1>4. Write(s, text, extra) = [s EXCEPT !.buffer = b, !.touched = w]
  BY DEF Write
<1> HIDE DEF w, b
<1>5. /\ Write(s, text, extra) \in [buffer : Seq(Chars), touched : Nat, items : Seq(Items), ends : Seq(Nat)]
      /\ Write(s, text, extra).buffer = b /\ Write(s, text, extra).touched = w
      /\ Write(s, text, extra).items = s.items /\ Write(s, text, extra).ends = s.ends
  BY <1>2, <1>3, <1>4 DEF StreamOK
<1>6. Len(b) < Size
  BY <1>2
<1> QED
  BY <1>3, <1>5, <1>6 DEF StreamOK, b

\* FixedBuffer::append takes a text that fits, with its last byte to spare.
LEMMA AppendTextOK ==
  ASSUME NEW s, StreamOK(s), NEW text \in Seq(Chars)
  PROVE  /\ StreamOK(AppendText(s, text))
         /\ AppendText(s, text).items = s.items /\ AppendText(s, text).ends = s.ends
         /\ IF Len(s.buffer) + Len(text) < Size
              THEN AppendText(s, text).buffer = s.buffer \o text
              ELSE AppendText(s, text).buffer = s.buffer
<1>1. Len(s.buffer) \in Nat /\ Len(text) \in Nat /\ Size \in Nat
  BY SizeAssumption DEF StreamOK
<1>2. CASE Len(s.buffer) + Len(text) < Size
  <2>1. AppendText(s, text) = Write(s, text, 0)
    BY <1>1, <1>2 DEF AppendText, Avail
  <2> QED
    BY <1>2, <2>1, WriteOK
<1>3. CASE ~(Len(s.buffer) + Len(text) < Size)
  <2>1. AppendText(s, text) = s
    BY <1>1, <1>3 DEF AppendText, Avail
  <2> QED
    BY <1>3, <2>1
<1> QED
  BY <1>2, <1>3

\* formatInteger writes a number where every number fits.
LEMMA FormatOK ==
  ASSUME NEW s, StreamOK(s), NEW text \in Seq(Chars), Len(text) < MaxNumericSize
  PROVE  /\ StreamOK(Format(s, text))
         /\ Format(s, text).items = s.items /\ Format(s, text).ends = s.ends
         /\ \/ Format(s, text).buffer = s.buffer \o text
            \/ Format(s, text).buffer = s.buffer /\ Len(s.buffer) + MaxNumericSize > Size
<1>1. Len(s.buffer) \in Nat /\ Len(text) \in Nat /\ Size \in Nat /\ MaxNumericSize \in Nat
  BY SizeAssumption DEF StreamOK
<1>2. CASE Avail(s) >= MaxNumericSize
  <2>1. Format(s, text) = Write(s, text, 1) /\ Len(s.buffer) + Len(text) < Size
    BY <1>1, <1>2 DEF Format, Avail
  <2> QED
    BY <2>1, WriteOK
<1>3. CASE ~(Avail(s) >= MaxNumericSize)
  <2>1. Format(s, text) = s /\ Len(s.buffer) + MaxNumericSize > Size
    BY <1>1, <1>3 DEF Format, Avail
  <2> QED
    BY <2>1
<1> QED
  BY <1>2, <1>3

\* << keeps a stream in its buffer, and a text that fits is its end.
LEMMA PutOK ==
  ASSUME NEW s, StreamOK(s), NEW x, Fits(x)
  PROVE  /\ StreamOK(Put(s, x))
         /\ Len(Put(s, x).items) = Len(s.items) + 1
         /\ x.kind = "text" =>
              IF Len(s.buffer) + Len(x.text) < Size
                THEN Put(s, x).buffer = s.buffer \o x.text
                ELSE Put(s, x).buffer = s.buffer
<1> DEFINE t == Take(s, x)
<1>1. /\ x.kind \in {"text", "number", "double"} /\ x.text \in Seq(Chars) /\ x.value \in Values
      /\ x \in Items
  BY DEF Fits, Items
<1>2. /\ StreamOK(t) /\ t.items = s.items /\ t.ends = s.ends
      /\ x.kind = "text" => t = AppendText(s, x.text)
  <2>1. CASE x.kind = "text"
    <3>1. t = AppendText(s, x.text)
      BY <2>1 DEF Take
    <3> HIDE DEF t
    <3> QED
      BY <1>1, <3>1, AppendTextOK
  <2>2. CASE x.kind = "number"
    <3>1. t = Format(s, Convert(x.value))
      BY <2>2 DEF Take
    <3>2. Convert(x.value) \in Seq(Chars) /\ Len(Convert(x.value)) < MaxNumericSize
      BY <1>1, NumericAssumption
    <3> HIDE DEF t
    <3> QED
      BY <2>2, <3>1, <3>2, FormatOK
  <2>3. CASE x.kind = "double"
    <3>1. t = Format(s, x.text)
      BY <2>3 DEF Take
    <3>2. Len(x.text) < MaxNumericSize
      BY <2>3 DEF Fits
    <3> HIDE DEF t
    <3> QED
      BY <1>1, <2>3, <3>1, <3>2, FormatOK
  <2> QED
    BY <1>1, <2>1, <2>2, <2>3
<1>3. Put(s, x) = [t EXCEPT !.items = Append(t.items, x), !.ends = Append(t.ends, Len(t.buffer))]
  BY DEF Put
<1> HIDE DEF t
<1>4. Len(t.buffer) \in Nat
  BY <1>2 DEF StreamOK
<1>5. /\ Append(t.items, x) \in Seq(Items) /\ Append(t.ends, Len(t.buffer)) \in Seq(Nat)
      /\ Len(Append(t.items, x)) = Len(t.items) + 1
      /\ Len(Append(t.ends, Len(t.buffer))) = Len(t.ends) + 1
  BY <1>1, <1>2, <1>4, AppendProperties DEF StreamOK
<1>6. /\ Put(s, x) \in [buffer : Seq(Chars), touched : Nat, items : Seq(Items), ends : Seq(Nat)]
      /\ Put(s, x).buffer = t.buffer /\ Put(s, x).touched = t.touched
      /\ Put(s, x).items = Append(t.items, x) /\ Put(s, x).ends = Append(t.ends, Len(t.buffer))
  BY <1>2, <1>3, <1>5 DEF StreamOK
<1>7. StreamOK(Put(s, x))
  BY <1>2, <1>5, <1>6 DEF StreamOK
<1>8. Len(Put(s, x).items) = Len(s.items) + 1
  BY <1>2, <1>5, <1>6
<1>9. ASSUME x.kind = "text"
      PROVE  IF Len(s.buffer) + Len(x.text) < Size
               THEN Put(s, x).buffer = s.buffer \o x.text
               ELSE Put(s, x).buffer = s.buffer
  <2>1. Put(s, x).buffer = AppendText(s, x.text).buffer
    BY <1>2, <1>6, <1>9
  <2> QED
    BY <1>1, <2>1, AppendTextOK
<1> QED
  BY <1>7, <1>8, <1>9

-----------------------------------------------------------------------------
\* Short texts.
LEMMA OneOrTwo ==
  ASSUME NEW c \in Chars
  PROVE  /\ <<c>> \in Seq(Chars) /\ <<c, c>> \in Seq(Chars)
         /\ Len(<<c>>) = 1 /\ <<c>>[1] = c
OBVIOUS

\* What the Logger writes itself can be put into a stream.
LEMMA Place ==
  /\ Fits(Text(TimeText)) /\ Fits(Text(<<"-", "-">>)) /\ Fits(Text(BaseName))
  /\ Fits(Text(<<":">>)) /\ Fits(Number(Line)) /\ Fits(Text(<<"\n">>))
<1>1. \A t \in Seq(Chars) : Fits(Text(t))
  BY BitsAssumption DEF Text, Fits, Items
<1>2. <<"-", "-">> \in Seq(Chars) /\ <<":">> \in Seq(Chars) /\ <<"\n">> \in Seq(Chars)
  <2>1. "-" \in Chars /\ ":" \in Chars /\ "\n" \in Chars
    BY TextAssumption
  <2> QED
    BY <2>1, OneOrTwo
<1>3. Fits(Number(Line))
  BY LineAssumption DEF Number, Fits, Items
<1> QED
  BY <1>1, <1>2, <1>3, TextAssumption

\* The stream of the record, and what else is needed of it when it is done.
RecordOK ==
  /\ pc \in {"items", "done"}
  /\ StreamOK(Stream)
  /\ Len(items) >= 1
  /\ pc = "done" => buffer[Len(buffer)] = "\n" \/ Len(buffer) = Size - 1

\* The record that SetStream makes of a stream is as that stream is.
LEMMA SetStreamOK ==
  ASSUME NEW s, StreamOK(s), SetStream(s)
  PROVE  StreamOK(Stream)' /\ buffer' = s.buffer /\ items' = s.items
<1>1. s = [buffer |-> s.buffer, touched |-> s.touched, items |-> s.items, ends |-> s.ends]
  BY DEF StreamOK
<1>2. Stream' = [buffer |-> s.buffer, touched |-> s.touched, items |-> s.items, ends |-> s.ends]
  BY DEF Stream, SetStream
<1>3. StreamOK(Stream') <=> StreamOK(Stream)'
  BY DEF StreamOK
<1> QED
  BY <1>1, <1>2, <1>3 DEF SetStream

LEMMA InitOK == Init => RecordOK
<1> SUFFICES ASSUME Init PROVE RecordOK
  OBVIOUS
<1> DEFINE s == Put(Empty, Text(TimeText))
<1>1. StreamOK(Empty)
  BY SizeAssumption DEF StreamOK, Empty
<1>2. StreamOK(s)
  BY <1>1, PutOK, Place
<1>3. pc = "items" /\ buffer = s.buffer /\ touched = s.touched /\ items = s.items /\ ends = s.ends
  BY DEF Init
<1> HIDE DEF s
<1>4. Stream = s
  BY <1>2, <1>3 DEF Stream, StreamOK
<1>5. Len(items) >= 1
  <2>1. Len(s.items) = Len(Empty.items) + 1
    BY <1>1, PutOK, Place DEF s
  <2>2. Len(Empty.items) = 0
    BY DEF Empty
  <2> QED
    BY <1>3, <2>1, <2>2
<1> QED
  BY <1>2, <1>3, <1>4, <1>5 DEF RecordOK

LEMMA PutItemOK == RecordOK /\ PutItem => RecordOK'
<1> SUFFICES ASSUME RecordOK, PutItem PROVE RecordOK'
  OBVIOUS
<1>1. PICK x \in Inserts[Len(items)] : SetStream(Put(Stream, x))
  BY DEF PutItem
<1>2. Stream.items = items /\ StreamOK(Stream) /\ Len(items) \in Nat
  BY DEF Stream, RecordOK, StreamOK
<1>3. Len(items) \in 1..Len(Inserts)
  BY <1>2, InsertsAssumption DEF PutItem, RecordOK
<1>4. Inserts[Len(items)] \in SUBSET Items
  BY <1>3, InsertsAssumption
<1>5. Fits(x)
  BY <1>3, <1>4, InsertsAssumption DEF Fits
<1>6. /\ StreamOK(Put(Stream, x))
      /\ Len(Put(Stream, x).items) = Len(items) + 1
  BY <1>2, <1>5, PutOK
<1>7. StreamOK(Stream)' /\ items' = Put(Stream, x).items
  BY <1>1, <1>6, SetStreamOK
<1> QED
  BY <1>2, <1>6, <1>7 DEF RecordOK, PutItem

LEMMA CloseOK == RecordOK /\ Close => RecordOK'
<1> SUFFICES ASSUME RecordOK, Close PROVE RecordOK'
  OBVIOUS
<1> DEFINE s1 == Put(Stream, Text(<<"-", "-">>))
           s2 == Put(s1, Text(BaseName))
           s3 == Put(s2, Text(<<":">>))
           s4 == Put(s3, Number(Line))
           s5 == Put(s4, Text(<<"\n">>))
<1>1. SetStream(s5)
  BY DEF Close
<1>2. StreamOK(Stream) /\ Len(Stream.items) >= 1 /\ Len(Stream.items) \in Nat
  BY DEF RecordOK, Stream, StreamOK
<1>3. StreamOK(s1) /\ Len(s1.items) = Len(Stream.items) + 1
  BY <1>2, PutOK, Place
<1> HIDE DEF s1
<1>4. StreamOK(s2) /\ Len(s2.items) = Len(s1.items) + 1
  BY <1>3, PutOK, Place
<1> HIDE DEF s2
<1>5. StreamOK(s3) /\ Len(s3.items) = Len(s2.items) + 1
  BY <1>4, PutOK, Place
<1> HIDE DEF s3
<1>6. StreamOK(s4) /\ Len(s4.items) = Len(s3.items) + 1
  BY <1>5, PutOK, Place
<1> HIDE DEF s4
<1> DEFINE newline == <<"\n">>
<1>7. /\ StreamOK(s5) /\ Len(s5.items) = Len(s4.items) + 1
      /\ IF Len(s4.buffer) + Len(newline) < Size
           THEN s5.buffer = s4.buffer \o newline
           ELSE s5.buffer = s4.buffer
  <2>1. Text(newline).kind = "text" /\ Text(newline).text = newline
    BY DEF Text
  <2> QED
    BY <1>6, <2>1, PutOK, Place
<1>8. newline \in Seq(Chars) /\ Len(newline) = 1 /\ newline[1] = "\n"
  <2>1. "\n" \in Chars
    BY TextAssumption
  <2> QED
    BY <2>1, OneOrTwo
<1> HIDE DEF s5, newline
<1>9. s5.buffer[Len(s5.buffer)] = "\n" \/ Len(s5.buffer) = Size - 1
  <2>1. s4.buffer \in Seq(Chars) /\ Len(s4.buffer) \in Nat /\ Size \in Nat /\ Len(s4.buffer) < Size
    BY <1>6, SizeAssumption DEF StreamOK
  <2>2. CASE Len(s4.buffer) + 1 < Size
    <3>1. s5.buffer = s4.buffer \o newline
      BY <1>7, <1>8, <2>2
    <3>2. /\ Len(s5.buffer) = Len(s4.buffer) + 1
          /\ (s4.buffer \o newline)[Len(s4.buffer) + 1] = newline[1]
      <4> DEFINE a == s4.buffer
      <4>1. a \in Seq(Chars) /\ Len(a) \in Nat /\ s5.buffer = a \o newline
        BY <2>1, <3>1
      <4> HIDE DEF a
      <4>2. /\ Len(a \o newline) = Len(a) + Len(newline)
            /\ \A j \in 1..(Len(a) + Len(newline)) :
                 (a \o newline)[j] = IF j <= Len(a) THEN a[j] ELSE newline[j - Len(a)]
        BY <1>8, <4>1, ConcatProperties
      <4>3. (a \o newline)[Len(a) + 1] = newline[1]
        BY <1>8, <4>1, <4>2
      <4> QED
        BY <1>8, <4>1, <4>2, <4>3 DEF a
    <3> QED
      BY <1>8, <3>1, <3>2
  <2>3. CASE ~(Len(s4.buffer) + 1 < Size)
    <3>1. s5.buffer = s4.buffer
      BY <1>7, <1>8, <2>3
    <3> QED
      BY <2>1, <2>3, <3>1
  <2> QED
    BY <2>2, <2>3
<1>10. StreamOK(Stream)' /\ buffer' = s5.buffer /\ items' = s5.items
  BY <1>1, <1>7, SetStreamOK
<1> QED
  BY <1>2, <1>3, <1>4, <1>5, <1>6, <1>7, <1>9, <1>10 DEF RecordOK, Close

\* The invariant of a record.
THEOREM Inductive == Spec => []RecordOK
<1>1. RecordOK /\ [Next]_vars => RecordOK'
  <2>1. ASSUME RecordOK, UNCHANGED vars
        PROVE  RecordOK'
    BY <2>1 DEF RecordOK, StreamOK, Stream, vars
  <2> QED
    BY <2>1, PutItemOK, CloseOK DEF Next
<1> QED
  BY <1>1, InitOK, PTL DEF Spec

\* The variables keep their types, and neither FixedBuffer::append nor formatInteger writes
\* behind data_, for buffers of every size and integers of every width that fits.
THEOREM StaysInBounds == Spec => []InBounds
<1>1. RecordOK => InBounds
  <2> SUFFICES ASSUME RecordOK PROVE InBounds
    OBVIOUS
  <2>1. /\ Stream.buffer = buffer /\ Stream.touched = touched
        /\ Stream.items = items /\ Stream.ends = ends
    BY DEF Stream
  <2> QED
    BY <2>1 DEF RecordOK, StreamOK, InBounds, TypeOK
<1> QED
  BY <1>1, Inductive, PTL

\* ~Logger ends every record with a newline, unless its buffer is full.
THEOREM NewlineEnds == Spec => []RecordEnds
<1>1. RecordOK => RecordEnds
  BY DEF RecordOK, RecordEnds
<1> QED
  BY <1>1, Inductive, PTL

-----------------------------------------------------------------------------
(* Whole items                                                             *)

\* What << adds to a stream: the text of the item and nothing else, or nothing for want
\* of room.
LEMMA PutAdds ==
  ASSUME NEW s, StreamOK(s), NEW x, Fits(x), Decimals
  PROVE  /\ Put(s, x).items = Append(s.items, x)
         /\ Put(s, x).ends = Append(s.ends, Len(Put(s, x).buffer))
         /\ TextOf(x) \in Seq(Chars)
         /\ \/ Put(s, x).buffer = s.buffer \o TextOf(x)
            \/ Put(s, x).buffer = s.buffer /\ Len(s.buffer) + Needs(x) > Size
<1> DEFINE t == Take(s, x)
<1>1. /\ x.kind \in {"text", "number", "double"} /\ x.text \in Seq(Chars) /\ x.value \in Values
      /\ Len(s.buffer) \in Nat /\ Size \in Nat /\ Len(x.text) \in Nat
  BY SizeAssumption DEF Fits, Items, StreamOK
<1>2. /\ StreamOK(t) /\ t.items = s.items /\ t.ends = s.ends /\ TextOf(x) \in Seq(Chars)
      /\ \/ t.buffer = s.buffer \o TextOf(x)
         \/ t.buffer = s.buffer /\ Len(s.buffer) + Needs(x) > Size
  <2>1. CASE x.kind = "text"
    <3>1. t = AppendText(s, x.text) /\ TextOf(x) = x.text /\ Needs(x) = Len(x.text) + 1
      BY <2>1 DEF Take, TextOf, Needs
    <3>2. ~(Len(s.buffer) + Len(x.text) < Size) => Len(s.buffer) + (Len(x.text) + 1) > Size
      <4>1. \A a, b, c \in Nat : a + b < c \/ a + (b + 1) > c
        OBVIOUS
      <4> QED
        BY <1>1, <4>1
    <3> HIDE DEF t
    <3>3. /\ StreamOK(t) /\ t.items = s.items /\ t.ends = s.ends
          /\ IF Len(s.buffer) + Len(x.text) < Size
               THEN t.buffer = s.buffer \o x.text ELSE t.buffer = s.buffer
      BY <1>1, <3>1, AppendTextOK
    <3> QED
      BY <1>1, <3>1, <3>2, <3>3
  <2>2. CASE x.kind = "number"
    <3>1. t = Format(s, Convert(x.value)) /\ TextOf(x) = Decimal(x.value)
          /\ Needs(x) = MaxNumericSize
      BY <2>2 DEF Take, TextOf, Needs
    <3>2. /\ Convert(x.value) \in Seq(Chars) /\ Len(Convert(x.value)) < MaxNumericSize
          /\ Convert(x.value) = Decimal(x.value)
      BY <1>1, NumericAssumption DEF Decimals
    <3> HIDE DEF t
    <3> QED
      BY <3>1, <3>2, FormatOK
  <2>3. CASE x.kind = "double"
    <3>1. t = Format(s, x.text) /\ TextOf(x) = x.text /\ Needs(x) = MaxNumericSize
      BY <2>3 DEF Take, TextOf, Needs
    <3>2. Len(x.text) < MaxNumericSize
      BY <2>3 DEF Fits
    <3> HIDE DEF t
    <3> QED
      BY <1>1, <3>1, <3>2, FormatOK
  <2> QED
    BY <1>1, <2>1, <2>2, <2>3
<1>3. Put(s, x) = [t EXCEPT !.items = Append(t.items, x), !.ends = Append(t.ends, Len(t.buffer))]
  BY DEF Put
<1> HIDE DEF t
<1>4. /\ Put(s, x).buffer = t.buffer /\ Put(s, x).items = Append(t.items, x)
      /\ Put(s, x).ends = Append(t.ends, Len(t.buffer))
  BY <1>2, <1>3 DEF StreamOK
<1> QED
  BY <1>2, <1>4

\* Where the text of an item starts in the buffer.
From(s, k) == IF k = 1 THEN 0 ELSE s.ends[k - 1]

\* The items of a stream are in it one behind the other, each whole or left out for want
\* of room, and the last one ends where the buffer does.
Whole(s) ==
  /\ \A k \in 1..Len(s.items) :
       /\ From(s, k) \in Nat /\ From(s, k) <= s.ends[k] /\ s.ends[k] <= Len(s.buffer)
       /\ \/ SubSeq(s.buffer, From(s, k) + 1, s.ends[k]) = TextOf(s.items[k])
          \/ s.ends[k] = From(s, k) /\ From(s, k) + Needs(s.items[k]) > Size
  /\ From(s, Len(s.items) + 1) = Len(s.buffer)

\* What is in a text stays where it is when more comes behind it, and that is found there.
LEMMA BehindIt ==
  ASSUME NEW a \in Seq(Chars), NEW b \in Seq(Chars)
  PROVE  /\ \A m, n \in Nat : m <= n /\ n <= Len(a) =>
                SubSeq(a \o b, m + 1, n) = SubSeq(a, m + 1, n)
         /\ SubSeq(a \o b, Len(a) + 1, Len(a \o b)) = b
<1>1. /\ Len(a) \in Nat /\ Len(b) \in Nat /\ a \o b \in Seq(Chars)
      /\ Len(a \o b) = Len(a) + Len(b)
  BY ConcatProperties
<1>2. ASSUME NEW m \in Nat, NEW n \in Nat, m <= n, n <= Len(a)
      PROVE  SubSeq(a \o b, m + 1, n) = SubSeq(a, m + 1, n)
  <2>1. CASE m = n
    <3>1. SubSeq(a \o b, m + 1, n) = << >> /\ SubSeq(a, m + 1, n) = << >>
      BY <2>1, SubSeqEmpty
    <3> QED
      BY <3>1
  <2>2. CASE m < n
    <3>1. m + 1 \in 1..Len(a) /\ n \in 1..Len(a)
      BY <1>1, <1>2, <2>2
    <3> QED
      BY <3>1, SubSeqOfConcat1
  <2> QED
    BY <1>2, <2>1, <2>2
<1>3. SubSeq(a \o b, Len(a) + 1, Len(a \o b)) = b
  <2>1. CASE Len(b) = 0
    <3>1. b = << >>
      BY <2>1, EmptySeq
    <3>2. SubSeq(a \o b, Len(a) + 1, Len(a \o b)) = << >>
      BY <1>1, <2>1, SubSeqEmpty
    <3> QED
      BY <3>1, <3>2
  <2>2. CASE Len(b) > 0
    <3>1. /\ Len(a) + 1 \in Len(a) + 1 .. Len(a) + Len(b)
          /\ Len(a) + Len(b) \in Len(a) + 1 .. Len(a) + Len(b)
      BY <1>1, <2>2
    <3>2. SubSeq(a \o b, Len(a) + 1, Len(a) + Len(b))
            = SubSeq(b, (Len(a) + 1) - Len(a), (Len(a) + Len(b)) - Len(a))
      BY <3>1, SubSeqOfConcat2
    <3>3. (Len(a) + 1) - Len(a) = 1 /\ (Len(a) + Len(b)) - Len(a) = Len(b)
      BY <1>1
    <3>4. SubSeq(b, 1, Len(b)) = b
      BY SubSeqFull
    <3> QED
      BY <1>1, <3>2, <3>3, <3>4
  <2> QED
    BY <1>1, <2>1, <2>2
<1> QED
  BY <1>2, <1>3

\* << keeps what is in the stream as it is, and adds a whole item or none.
LEMMA PutWhole ==
  ASSUME NEW s, StreamOK(s), Whole(s), NEW x, Fits(x), Decimals
  PROVE  Whole(Put(s, x))
<1> DEFINE t == Put(s, x)
           n == Len(s.items)
           text == TextOf(x)
<1>1. /\ s.buffer \in Seq(Chars) /\ s.items \in Seq(Items) /\ s.ends \in Seq(Nat)
      /\ n \in Nat /\ Len(s.ends) = n /\ x \in Items /\ Len(s.buffer) \in Nat
  BY DEF StreamOK, Fits
<1>2. /\ t.items = Append(s.items, x) /\ t.ends = Append(s.ends, Len(t.buffer))
      /\ text \in Seq(Chars)
      /\ \/ t.buffer = s.buffer \o text
         \/ t.buffer = s.buffer /\ Len(s.buffer) + Needs(x) > Size
  BY PutAdds
<1>3. StreamOK(t)
  BY PutOK
<1> HIDE DEF t, text
<1>4. t.buffer \in Seq(Chars) /\ Len(t.buffer) \in Nat
  BY <1>3 DEF StreamOK
<1>5. /\ Len(t.items) = n + 1 /\ t.items[n + 1] = x /\ \A k \in 1..n : t.items[k] = s.items[k]
      /\ t.ends[n + 1] = Len(t.buffer) /\ \A k \in 1..n : t.ends[k] = s.ends[k]
  <2>1. /\ Len(t.items) = n + 1 /\ t.items[n + 1] = x /\ \A k \in 1..n : t.items[k] = s.items[k]
    BY <1>1, <1>2, AppendProperties
  <2>2. t.ends[n + 1] = Len(t.buffer) /\ \A k \in 1..n : t.ends[k] = s.ends[k]
    <3>1. s.ends \in Seq(Nat) /\ Len(t.buffer) \in Nat /\ Len(s.ends) = n
      BY <1>1, <1>4
    <3> QED
      BY <1>2, <3>1, AppendProperties
  <2> QED
    BY <2>1, <2>2
<1>6. /\ \A k \in 1..n : From(t, k) = From(s, k)
      /\ From(t, n + 1) = Len(s.buffer)
      /\ From(t, n + 2) = Len(t.buffer)
  <2>1. \A k \in 1..(n + 1) : k # 1 => k - 1 \in 1..n
    BY <1>1
  <2>2. \A k \in 1..(n + 1) : From(t, k) = From(s, k)
    BY <1>5, <2>1 DEF From
  <2>3. From(s, n + 1) = Len(s.buffer) /\ n + 1 \in 1..(n + 1) /\ \A k \in 1..n : k \in 1..(n + 1)
    BY <1>1 DEF Whole
  <2>4. n + 2 # 1 /\ (n + 2) - 1 = n + 1
    BY <1>1
  <2> QED
    BY <1>5, <2>2, <2>3, <2>4 DEF From
<1>7. Len(s.buffer) <= Len(t.buffer)
  <2>1. Len(text) \in Nat /\ Len(s.buffer \o text) = Len(s.buffer) + Len(text)
    BY <1>1, <1>2, ConcatProperties
  <2> QED
    BY <1>1, <1>2, <2>1
<1>8. ASSUME NEW k \in 1..n
      PROVE  /\ From(t, k) \in Nat /\ From(t, k) <= t.ends[k] /\ t.ends[k] <= Len(t.buffer)
             /\ \/ SubSeq(t.buffer, From(t, k) + 1, t.ends[k]) = TextOf(t.items[k])
                \/ t.ends[k] = From(t, k) /\ From(t, k) + Needs(t.items[k]) > Size
  <2>1. /\ From(s, k) \in Nat /\ From(s, k) <= s.ends[k] /\ s.ends[k] <= Len(s.buffer)
        /\ \/ SubSeq(s.buffer, From(s, k) + 1, s.ends[k]) = TextOf(s.items[k])
           \/ s.ends[k] = From(s, k) /\ From(s, k) + Needs(s.items[k]) > Size
    BY DEF Whole
  <2>2. s.ends[k] \in Nat
    BY <1>1, ElementOfSeq
  <2>3. SubSeq(t.buffer, From(s, k) + 1, s.ends[k]) = SubSeq(s.buffer, From(s, k) + 1, s.ends[k])
    <3>1. CASE t.buffer = s.buffer
      BY <3>1
    <3>2. CASE t.buffer = s.buffer \o text
      <4>1. \A m, j \in Nat : m <= j /\ j <= Len(s.buffer) =>
              SubSeq(s.buffer \o text, m + 1, j) = SubSeq(s.buffer, m + 1, j)
        BY <1>1, <1>2, BehindIt
      <4> QED
        BY <2>1, <2>2, <3>2, <4>1
    <3> QED
      BY <1>2, <3>1, <3>2
  <2>4. From(t, k) = From(s, k) /\ t.ends[k] = s.ends[k] /\ t.items[k] = s.items[k]
    BY <1>5, <1>6
  <2>5. s.ends[k] <= Len(t.buffer)
    BY <1>1, <1>4, <1>7, <2>1, <2>2
  <2> QED
    BY <2>1, <2>3, <2>4, <2>5
<1>9. /\ From(t, n + 1) \in Nat /\ From(t, n + 1) <= t.ends[n + 1] /\ t.ends[n + 1] <= Len(t.buffer)
      /\ \/ SubSeq(t.buffer, From(t, n + 1) + 1, t.ends[n + 1]) = TextOf(t.items[n + 1])
         \/ t.ends[n + 1] = From(t, n + 1) /\ From(t, n + 1) + Needs(t.items[n + 1]) > Size
  <2>1. CASE t.buffer = s.buffer \o text
    <3>1. SubSeq(s.buffer \o text, Len(s.buffer) + 1, Len(s.buffer \o text)) = text
      BY <1>1, <1>2, BehindIt
    <3>2. SubSeq(t.buffer, From(t, n + 1) + 1, t.ends[n + 1]) = text
      BY <1>5, <1>6, <2>1, <3>1
    <3>3. text = TextOf(t.items[n + 1])
      BY <1>5 DEF text
    <3> QED
      BY <1>1, <1>4, <1>5, <1>6, <1>7, <3>2, <3>3
  <2>2. CASE t.buffer = s.buffer /\ Len(s.buffer) + Needs(x) > Size
    BY <1>1, <1>4, <1>5, <1>6, <1>7, <2>2
  <2> QED
    BY <1>2, <2>1, <2>2
<1>10. \A k \in 1..Len(t.items) : k \in 1..n \/ k = n + 1
  BY <1>1, <1>5
<1>11. From(t, Len(t.items) + 1) = Len(t.buffer)
  <2>1. Len(t.items) + 1 = n + 2
    BY <1>1, <1>5
  <2> QED
    BY <1>6, <2>1
<1> QED
  BY <1>8, <1>9, <1>10, <1>11 DEF Whole, t

LEMMA SetStreamWhole ==
  ASSUME NEW s, StreamOK(s), Whole(s), SetStream(s)
  PROVE  Whole(Stream)'
<1>1. s = [buffer |-> s.buffer, touched |-> s.touched, items |-> s.items, ends |-> s.ends]
  BY DEF StreamOK
<1>2. Stream' = [buffer |-> s.buffer, touched |-> s.touched, items |-> s.items, ends |-> s.ends]
  BY DEF Stream, SetStream
<1>3. Whole(Stream') <=> Whole(Stream)'
  BY DEF Whole, From
<1> QED
  BY <1>1, <1>2, <1>3

LEMMA InitWhole == Decimals /\ Init => Whole(Stream)
<1> SUFFICES ASSUME Decimals, Init PROVE Whole(Stream)
  OBVIOUS
<1> DEFINE s == Put(Empty, Text(TimeText))
<1>1. StreamOK(Empty)
  BY SizeAssumption DEF StreamOK, Empty
<1>2. Whole(Empty)
  <2>1. Len(Empty.items) = 0 /\ Len(Empty.buffer) = 0
    BY DEF Empty
  <2> QED
    BY <2>1 DEF Whole, From
<1>3. StreamOK(s) /\ Whole(s)
  BY <1>1, <1>2, PutOK, PutWhole, Place
<1>4. buffer = s.buffer /\ touched = s.touched /\ items = s.items /\ ends = s.ends
  BY DEF Init
<1> HIDE DEF s
<1>5. Stream = s
  BY <1>3, <1>4 DEF Stream, StreamOK
<1> QED
  BY <1>3, <1>5

LEMMA PutItemWhole == Decimals /\ RecordOK /\ Whole(Stream) /\ PutItem => Whole(Stream)'
<1> SUFFICES ASSUME Decimals, RecordOK, Whole(Stream), PutItem PROVE Whole(Stream)'
  OBVIOUS
<1>1. PICK x \in Inserts[Len(items)] : SetStream(Put(Stream, x))
  BY DEF PutItem
<1>2. StreamOK(Stream) /\ Len(items) \in Nat
  BY DEF Stream, RecordOK, StreamOK
<1>3. Len(items) \in 1..Len(Inserts)
  BY <1>2, InsertsAssumption DEF PutItem, RecordOK
<1>4. Inserts[Len(items)] \in SUBSET Items
  BY <1>3, InsertsAssumption
<1>5. Fits(x)
  BY <1>3, <1>4, InsertsAssumption DEF Fits
<1>6. StreamOK(Put(Stream, x)) /\ Whole(Put(Stream, x))
  BY <1>2, <1>5, PutOK, PutWhole
<1> QED
  BY <1>1, <1>6, SetStreamWhole

LEMMA CloseWhole == Decimals /\ RecordOK /\ Whole(Stream) /\ Close => Whole(Stream)'
<1> SUFFICES ASSUME Decimals, RecordOK, Whole(Stream), Close PROVE Whole(Stream)'
  OBVIOUS
<1> DEFINE s1 == Put(Stream, Text(<<"-", "-">>))
           s2 == Put(s1, Text(BaseName))
           s3 == Put(s2, Text(<<":">>))
           s4 == Put(s3, Number(Line))
           s5 == Put(s4, Text(<<"\n">>))
<1>1. SetStream(s5)
  BY DEF Close
<1>2. StreamOK(Stream)
  BY DEF RecordOK
<1>3. StreamOK(s1) /\ Whole(s1)
  BY <1>2, PutOK, PutWhole, Place
<1> HIDE DEF s1
<1>4. StreamOK(s2) /\ Whole(s2)
  BY <1>3, PutOK, PutWhole, Place
<1> HIDE DEF s2
<1>5. StreamOK(s3) /\ Whole(s3)
  BY <1>4, PutOK, PutWhole, Place
<1> HIDE DEF s3
<1>6. StreamOK(s4) /\ Whole(s4)
  BY <1>5, PutOK, PutWhole, Place
<1> HIDE DEF s4
<1>7. StreamOK(s5) /\ Whole(s5)
  BY <1>6, PutOK, PutWhole, Place
<1> HIDE DEF s5
<1> QED
  BY <1>1, <1>7, SetStreamWhole

\* Where convert() writes decimal notation, every item is in the record in full or not at
\* all, and none is left out for which there is room: for records of any number of items,
\* with texts of every length, in buffers of every size.
THEOREM ItemsWhole == Decimals => (Spec => []WholeItems)
<1> SUFFICES ASSUME Decimals PROVE Spec => []WholeItems
  OBVIOUS
<1>1. RecordOK /\ Whole(Stream) /\ [Next]_vars => Whole(Stream)'
  <2>1. ASSUME Whole(Stream), UNCHANGED vars
        PROVE  Whole(Stream)'
    BY <2>1 DEF Whole, From, Stream, vars
  <2> QED
    BY <2>1, PutItemWhole, CloseWhole DEF Next
<1>2. Whole(Stream) => WholeItems
  <2>1. Stream.buffer = buffer /\ Stream.items = items /\ Stream.ends = ends
    BY DEF Stream
  <2> QED
    BY <2>1 DEF Whole, From, WholeItems
<1> QED
  BY <1>1, <1>2, InitWhole, Inductive, PTL DEF Spec
=============================================================================
