---------------------------- MODULE MCRelayCell -----------------------------
(* RelayCell on small instances. *)
EXTENDS RelayCell, TLC
CONSTANTS h1, h2, t1, t2

\* One host serves every ticket.
OneHostTickets == [t \in Tickets |-> h1]

ConnSymmetry == Permutations(Conns)
=============================================================================
