---------------------------- MODULE MCLogStream ----------------------------
(* Records of up to three items in a small buffer: a text of any length that matters, *)
(* every integer of 8 bits, and a few more.                                           *)
EXTENDS LogStream

MCChars == {"T", "f", "i", "x", "-", ":", "\n"} \union {Digits[i] : i \in 1..Len(Digits)}
MCTime == <<"T">>
MCBaseName == <<"f", "i">>
Letters(n) == [i \in 1..n |-> "x"]
MCInserts ==
  << {Text(Letters(n)) : n \in 0..5} \union {Number(-128)},
     {Number(v) : v \in Values} \union {Double(Letters(5))},
     {Text(Letters(n)) : n \in 1..5} \union {Number(0), Number(-128)} >>
=============================================================================
