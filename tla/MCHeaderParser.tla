--------------------------- MODULE MCHeaderParser ---------------------------
(* Header blocks of one or two headers, built from their keys and values. *)
EXTENDS HeaderParser

MCLetters == {"a", "b"}

Keys == {<<"a">>, <<"a", "b">>, <<"b">>}
Values == {<<"b">>, <<"a", "b">>, <<"b", "SP", ":">>}
Rests == {<<>>, <<"b", ":", "SP", "a", "\r", "\n">>}

End == <<"\r", "\n">>

OneHeader ==
  {[text    |-> HeaderText(h) \o End \o r,
    headers |-> {h},
    rest    |-> r,
    fields  |-> <<h>>,
    starts  |-> <<0, Len(HeaderText(h))>>] : h \in Keys \X Values, r \in Rests}

\* A key that comes twice keeps its last value.
TwoHeaders ==
  {[text    |-> HeaderText(g) \o HeaderText(h) \o End \o r,
    headers |-> {x \in {g, h} : x[1] = h[1] => x = h},
    rest    |-> r,
    fields  |-> <<g, h>>,
    starts  |-> <<0, Len(HeaderText(g)), Len(HeaderText(g)) + Len(HeaderText(h))>>] : g \in Keys \X Values, h \in Keys \X Values, r \in Rests}

MCMessages == OneHeader \union TwoHeaders

ASSUME \A m \in MCMessages : WellFormedBlock(m)
=============================================================================
