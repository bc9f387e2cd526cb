------------------------------- MODULE MCCli --------------------------------
(* `pherry dock`, the trust files, boarding and the terminal clients, each *)
(* on a small instance: a behaviour is one command's part, and the other   *)
(* parts rest.                                                             *)
EXTENDS Dock, TrustFiles, Boarding, CliClients

VARIABLE part

\* One repo inside all the others.
Inner == CHOOSE r \in Repos : TRUE
OneInside == [r \in Repos |-> IF r = Inner THEN Repos \ {Inner} ELSE {}]

MCVars == <<part, dockVars, trustVars, boardVars, clientVars>>

ClientRests == way = "run" /\ ~named /\ host = "up"

MCInit ==
    /\ DockInit /\ TrustInit /\ BoardInit /\ ClientInit
    /\ part \in {"dock", "trust", "board", "client"}
    /\ part # "dock" => backend = "none"
    /\ part # "trust" => alone /\ known = {} /\ keyring = {}
    /\ part # "board" => oneAtATime
    /\ part # "client" => ClientRests

MCNext ==
    \/ part = "dock" /\ DockNext /\ UNCHANGED <<part, trustVars, boardVars, clientVars>>
    \/ part = "trust" /\ TrustNext /\ UNCHANGED <<part, dockVars, boardVars, clientVars>>
    \/ part = "board" /\ BoardNext /\ UNCHANGED <<part, dockVars, trustVars, clientVars>>
    \/ part = "client" /\ ClientNext /\ UNCHANGED <<part, dockVars, trustVars, boardVars>>

\* While its part runs: dock and the clients go on, their user answers a dock,
\* a host or a cell that is there answers a client, and what expires does expire.
MCFairness ==
    /\ WF_dockVars(part = "dock" /\ DockSteps)
    /\ WF_dockVars(part = "dock" /\ GrantExpires)
    /\ WF_dockVars(part = "dock" /\ PairExpires)
    /\ WF_clientVars(part = "client" /\ ClientSteps)
    /\ WF_clientVars(part = "client" /\ HostAnswers)
    /\ WF_clientVars(part = "client" /\ CellAnswers)

MCSpec == MCInit /\ [][MCNext]_MCVars /\ MCFairness

\* The commands that wait for somebody end: dock for the browser and the phone,
\* a relay attach for a host that may not be there.
CommandsEnd == DockEnds /\ RelayAttachSettles

\* The four parts stay in their types.
MCTypeOK == DockTypeOK /\ TrustTypeOK /\ BoardTypeOK /\ ClientTypeOK
=============================================================================
