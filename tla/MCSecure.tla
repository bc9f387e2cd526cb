------------------------------ MODULE MCSecure ------------------------------
(* The secure channel and the RPC link that runs over it, each on a small  *)
(* instance: a behaviour is one part's, and the other part rests.          *)
EXTENDS SecureChannel, ServedLink

VARIABLE part

MCVars == <<part, chanVars, linkVars>>

ChannelRests == static["initiator"] = "host" /\ context["initiator"] = "bound"
LinkRests == peer = "current" /\ gate = "none" /\ served = {"pty"} /\ asked = {"input"} /\ known

MCInit ==
    /\ ChannelInit /\ LinkInit
    /\ part \in {"channel", "link"}
    /\ part = "channel" => LinkRests
    /\ part = "link" => ChannelRests

MCNext ==
    \/ part = "channel" /\ ChannelNext /\ UNCHANGED <<part, linkVars>>
    \/ part = "link" /\ LinkNext /\ UNCHANGED <<part, chanVars>>

\* While its part runs: the transport goes on carrying, frames are handled,
\* verifications and hooks settle and the negotiation window is a timer.
\* Nobody has to send, call or close.
MCFairness ==
    /\ WF_chanVars(part = "channel" /\ Begins)
    /\ \A e \in Ends : WF_chanVars(part = "channel" /\ Receive(e))
    /\ WF_linkVars(part = "link" /\ Greets) /\ WF_linkVars(part = "link" /\ AckTimesOut)
    /\ WF_linkVars(part = "link" /\ CtlReceives) /\ WF_linkVars(part = "link" /\ HostTakes)
    /\ WF_linkVars(part = "link" /\ Verdict)
    /\ \A c \in Ids : /\ WF_linkVars(part = "link" /\ Requests(c))
                      /\ WF_linkVars(part = "link" /\ Completes(c))

MCSpec == MCInit /\ [][MCNext]_MCVars /\ MCFairness

\* Both parts stay in their types.
MCTypeOK == ChannelTypeOK /\ LinkTypeOK
=============================================================================
