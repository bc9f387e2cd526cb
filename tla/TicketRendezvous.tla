-------------------------- MODULE TicketRendezvous --------------------------
(***************************************************************************)
(* What the relay promises for a ticket, whatever happens to connections,  *)
(* registrations and the control plane: a ticket is used by at most one    *)
(* controller; that controller waits, is joined with at most one dial of   *)
(* the ticket's host, and the meeting ends.  Nothing ever restarts.        *)
(***************************************************************************)
CONSTANTS Conns, Tickets, None

VARIABLES
    stage,      \* where each ticket is: "unused", "waiting", "joined", "over"
    controller, \* the controller that used it
    host        \* the host connection it was joined with

rvars == <<stage, controller, host>>

RInit ==
    /\ stage = [t \in Tickets |-> "unused"]
    /\ controller = [t \in Tickets |-> None]
    /\ host = [t \in Tickets |-> None]

\* A controller uses the ticket: its first, and only, admission.
Admit(t, c) ==
    /\ stage[t] = "unused"
    /\ \A u \in Tickets : controller[u] # c
    /\ stage' = [stage EXCEPT ![t] = "waiting"]
    /\ controller' = [controller EXCEPT ![t] = c]
    /\ UNCHANGED host

\* The host's dial joins the waiting controller.
Join(t, c) ==
    /\ stage[t] = "waiting"
    /\ \A u \in Tickets : host[u] # c /\ controller[u] # c
    /\ stage' = [stage EXCEPT ![t] = "joined"]
    /\ host' = [host EXCEPT ![t] = c]
    /\ UNCHANGED controller

\* Meetings end: one when a connection drops or a wait times out, all of them
\* when the relay is closed.
End(T) ==
    /\ \A t \in T : stage[t] \in {"waiting", "joined"}
    /\ stage' = [t \in Tickets |-> IF t \in T THEN "over" ELSE stage[t]]
    /\ UNCHANGED <<controller, host>>

RNext ==
    \/ \E t \in Tickets, c \in Conns : Admit(t, c) \/ Join(t, c)
    \/ \E T \in SUBSET Tickets : End(T)

RSpec == RInit /\ [][RNext]_rvars
=============================================================================
