---------------------------- MODULE HttpExchange ----------------------------
(***************************************************************************)
(* What an HTTP server promises the clients of its connections: the        *)
(* requests of a connection are handed to the application in the order in  *)
(* which they were sent, each once and with all of its body.               *)
(*                                                                         *)
(* The promise ends where a body does not fit the parser's integer: such a *)
(* request may be handed over with less of its body, and nothing of that   *)
(* connection is handed over after it.                                     *)
(***************************************************************************)
EXTENDS Naturals, Sequences

CONSTANTS
    Conns,      \* connections
    Requests,   \* records with the length of the body in a field "len"
    IntMax      \* the largest length that is read correctly

VARIABLES
    sent,       \* requests of each connection, in the order of their sending
    handled     \* which of them were handed over, with how much body

vars == <<sent, handled>>

Whole(c, h) == h.body = sent[c][h.req].len

Init ==
    /\ sent = [c \in Conns |-> << >>]
    /\ handled = [c \in Conns |-> << >>]

Send(c, r) ==
    /\ sent' = [sent EXCEPT ![c] = Append(@, r)]
    /\ UNCHANGED handled

Deliver(c) ==
    LET next == Len(handled[c]) + 1 IN
    /\ next <= Len(sent[c])
    /\ \A i \in DOMAIN handled[c] : Whole(c, handled[c][i])
    /\ \E body \in 0..sent[c][next].len :
        /\ body = sent[c][next].len \/ sent[c][next].len > IntMax
        /\ handled' = [handled EXCEPT ![c] = Append(@, [req |-> next, body |-> body])]
    /\ UNCHANGED sent

Next ==
    \E c \in Conns :
        \/ \E r \in Requests : Send(c, r)
        \/ Deliver(c)

Spec == Init /\ [][Next]_vars
=============================================================================
