---------------------------- MODULE MCHttpParser ----------------------------
(* Instances of HttpParser for TLC.                                        *)
EXTENDS HttpParser

CONSTANTS c1, c2

R(len, kind) == [len |-> len, kind |-> kind]

\* With six values of an int a body of 3 has a negative length and one of 7
\* the length 1.
SomeRequests ==
    {R(0, "plain"), R(2, "plain"), R(3, "plain"), R(7, "plain"),
     R(1, "unfinished"), R(0, "badLine"), R(1, "chunked")}

TwoAndOne == [c \in Conns |-> IF c = c1 THEN 2 ELSE 1]
=============================================================================
