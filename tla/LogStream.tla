------------------------------ MODULE LogStream ------------------------------
(***************************************************************************)
(* One log record: the Logger that LOG makes, the items put into its       *)
(* LogStream, and the FixedBuffer that takes each item whole or not at     *)
(* all.  Integers are written by convert(), digit by digit from a table    *)
(* that is indexed by the remainder of C++, negative for negative values;  *)
(* they have Bits bits, signed or unsigned.                                *)
(***************************************************************************)
EXTENDS Integers, Sequences, SequencesExt

CONSTANTS
  Chars,           \* the characters
  Size,            \* kSmallBuffer
  MaxNumericSize,  \* kMaxNumericSize
  Bits,            \* the width of the integers
  TimeText,        \* what formatTime puts in front
  BaseName,        \* the name of the file that logs
  Line,            \* the line that logs
  Inserts          \* bound: the items that the record may have first, second, ...

Values == (-(2 ^ (Bits - 1)))..(2 ^ Bits - 1)

-----------------------------------------------------------------------------
(* convert()                                                               *)

Digits == <<"9", "8", "7", "6", "5", "4", "3", "2", "1", "0",
            "1", "2", "3", "4", "5", "6", "7", "8", "9">>

\* Mutant: the remainder taken for one of mathematics.
ZeroModulo(lsd) == Digits[10 + (lsd % 10)]

\* zero[lsd], where zero points to the middle of the table
Zero(lsd) == Digits[10 + lsd]

\* / and % of C++ truncate towards zero.
Quotient(i) == IF i < 0 THEN -((-i) \div 10) ELSE i \div 10

Remainder(i) == i - 10 * Quotient(i)

\* The do loop, which writes the last digit first.
DigitLoop[i \in Values] ==
  <<Zero(Remainder(i))>> \o (IF Quotient(i) = 0 THEN <<>> ELSE DigitLoop[Quotient(i)])

Convert(v) == Reverse(DigitLoop[v] \o (IF v < 0 THEN <<"-">> ELSE <<>>))

-----------------------------------------------------------------------------
(* What can be put into a stream                                           *)

\* Strings, characters and booleans are text; of a floating point number only the text is
\* kept that snprintf() makes of it.
Text(s) == [kind |-> "text", text |-> s, value |-> 0]
Number(v) == [kind |-> "number", text |-> <<>>, value |-> v]
Double(s) == [kind |-> "double", text |-> s, value |-> 0]

Items == [kind : {"text", "number", "double"}, text : Seq(Chars), value : Values]

ASSUME SizeAssumption == Size \in Nat \ {0} /\ MaxNumericSize \in Nat
ASSUME BitsAssumption == Bits \in Nat \ {0} /\ 0 \in Values
ASSUME LineAssumption == Line \in Values
ASSUME TextAssumption ==
  {"-", ":", "\n"} \subseteq Chars /\ TimeText \in Seq(Chars) /\ BaseName \in Seq(Chars)
ASSUME InsertsAssumption ==
  /\ Inserts \in Seq(SUBSET Items)
  /\ \A i \in 1..Len(Inserts) : \A x \in Inserts[i] :
       x.kind = "double" => Len(x.text) < MaxNumericSize

\* Every integer fits into kMaxNumericSize characters with the NUL behind it.
ASSUME NumericAssumption ==
  \A v \in Values : Convert(v) \in Seq(Chars) /\ Len(Convert(v)) < MaxNumericSize

VARIABLES
  pc,       \* "items" while the Logger lives, "done" when it has output its record
  buffer,   \* the characters of data_ before cur_
  touched,  \* how far into data_ anything was written
  items,    \* history: what was put into the stream
  ends      \* history: the length of the buffer after each of them

vars == <<pc, buffer, touched, items, ends>>

Larger(a, b) == IF a > b THEN a ELSE b

\* A stream as it is passed along a chain of <<.
Stream == [buffer |-> buffer, touched |-> touched, items |-> items, ends |-> ends]

Avail(s) == Size - Len(s.buffer)

\* The text goes to cur_, with extra characters behind it that are not kept.
Write(s, text, extra) ==
  [s EXCEPT !.buffer = @ \o text,
            !.touched = Larger(@, Len(s.buffer) + Len(text) + extra)]

\* FixedBuffer::append
AppendText(s, text) == IF Avail(s) > Len(text) THEN Write(s, text, 0) ELSE s

\* Mutant: any room is enough for a number.
FormatAnyRoom(s, text) == IF Avail(s) > 0 THEN Write(s, text, 1) ELSE s

\* formatInteger, and << of a floating point number: the NUL behind the text is written.
Format(s, text) == IF Avail(s) >= MaxNumericSize THEN Write(s, text, 1) ELSE s

\* The buffer takes one item.
Take(s, x) ==
  CASE x.kind = "text" -> AppendText(s, x.text)
    [] x.kind = "number" -> Format(s, Convert(x.value))
    [] x.kind = "double" -> Format(s, x.text)

\* <<
Put(s, x) ==
  LET t == Take(s, x)
  IN  [t EXCEPT !.items = Append(@, x), !.ends = Append(@, Len(t.buffer))]

SetStream(s) ==
  /\ buffer' = s.buffer
  /\ touched' = s.touched
  /\ items' = s.items
  /\ ends' = s.ends

-----------------------------------------------------------------------------
Empty == [buffer |-> <<>>, touched |-> 0, items |-> <<>>, ends |-> <<>>]

\* Logger::Logger, whose Impl writes the time.
Init ==
  LET s == Put(Empty, Text(TimeText)) IN
  /\ pc = "items"
  /\ buffer = s.buffer /\ touched = s.touched /\ items = s.items /\ ends = s.ends

\* LOG << x
PutItem ==
  /\ pc = "items"
  /\ Len(items) <= Len(Inserts)
  /\ \E x \in Inserts[Len(items)] : SetStream(Put(Stream, x))
  /\ UNCHANGED pc

\* Mutant: the line number behind the newline.
CloseEarly ==
  /\ pc = "items"
  /\ pc' = "done"
  /\ SetStream(Put(Put(Put(Put(Put(Stream, Text(<<"-", "-">>)), Text(BaseName)), Text(<<":">>)),
                   Text(<<"\n">>)), Number(Line)))

\* Logger::~Logger adds the place and a newline, and hands the record to output().
Close ==
  /\ pc = "items"
  /\ pc' = "done"
  /\ SetStream(Put(Put(Put(Put(Put(Stream, Text(<<"-", "-">>)), Text(BaseName)), Text(<<":">>)),
                   Number(Line)), Text(<<"\n">>)))

Next == PutItem \/ Close

Spec == Init /\ [][Next]_vars

-----------------------------------------------------------------------------
(* Properties                                                              *)

\* The variables keep to their ranges.
TypeOK ==
  /\ pc \in {"items", "done"}
  /\ buffer \in Seq(Chars)
  /\ touched \in Nat
  /\ items \in Seq(Items)
  /\ ends \in Seq(Nat) /\ Len(ends) = Len(items)

\* Nothing is written behind data_, the NUL of convert() and snprintf() included, and the
\* buffer is never full to its last byte.
InBounds == TypeOK /\ touched <= Size /\ Len(buffer) < Size

DigitChar == <<"0", "1", "2", "3", "4", "5", "6", "7", "8", "9">>

Magnitude(v) == IF v < 0 THEN -v ELSE v

Places(v) == CHOOSE n \in 1..Bits : Magnitude(v) < 10 ^ n /\ (n = 1 \/ Magnitude(v) >= 10 ^ (n - 1))

\* Decimal notation.
Decimal(v) ==
  (IF v < 0 THEN <<"-">> ELSE <<>>) \o
  [i \in 1..Places(v) |-> DigitChar[((Magnitude(v) \div 10 ^ (Places(v) - i)) % 10) + 1]]

\* convert() writes decimal notation: a fact about Bits, assumed by a theorem.
Decimals == \A v \in Values : Convert(v) = Decimal(v)

TextOf(x) == IF x.kind = "number" THEN Decimal(x.value) ELSE x.text

Needs(x) == IF x.kind = "text" THEN Len(x.text) + 1 ELSE MaxNumericSize

\* Each item is in the record in full, integers in decimal notation down to the least
\* one, or not at all; and none is left out for which there is room.
WholeItems ==
  \A i \in 1..Len(items) :
    LET from == IF i = 1 THEN 0 ELSE ends[i - 1] IN
    \/ SubSeq(buffer, from + 1, ends[i]) = TextOf(items[i])
    \/ ends[i] = from /\ from + Needs(items[i]) > Size

\* A record ends with its newline, unless there is room for nothing more in its buffer.
RecordEnds ==
  pc = "done" => buffer[Len(buffer)] = "\n" \/ Len(buffer) = Size - 1
=============================================================================
