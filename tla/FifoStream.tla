---------------------------- MODULE FifoStream ----------------------------
(***************************************************************************)
(* What a secure channel promises each direction: what the receiver has    *)
(* been given is what the sender sent, in that order, from the first.      *)
(* Nothing is promised about how far it gets.                              *)
(***************************************************************************)
EXTENDS Integers, Sequences

CONSTANTS Dirs, Bodies

VARIABLES sent, got

Init == sent = [d \in Dirs |-> <<>>] /\ got = [d \in Dirs |-> <<>>]

Send(d) ==
    \E b \in Bodies : sent' = [sent EXCEPT ![d] = Append(@, b)] /\ UNCHANGED got

Deliver(d) ==
    /\ Len(got[d]) < Len(sent[d])
    /\ got' = [got EXCEPT ![d] = Append(@, sent[d][Len(@) + 1])]
    /\ UNCHANGED sent

Next == \E d \in Dirs : Send(d) \/ Deliver(d)

Spec == Init /\ [][Next]_<<sent, got>>
=============================================================================
