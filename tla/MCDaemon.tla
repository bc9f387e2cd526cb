------------------------------ MODULE MCDaemon ------------------------------
(* The daemon's lock, its custody desk and its relay uplink, each on a     *)
(* small instance: a behaviour is one part's, and the other parts rest.    *)
EXTENDS ServeLock, Custody, HostUplink

VARIABLE part

MCVars == <<part, lockVars, custodyVars, vars>>

MCInit == LockInit /\ CustodyInit /\ Init /\ part \in {"lock", "custody", "uplink"}

\* Bound: no run begins while runs that have overlapped are alive.
OneRace ==
    \A p \in Procs : raced /\ serve[p] = "idle" /\ serve'[p] # "idle" =>
        \A q \in Procs : serve[q] \in Gone

\* Bound: two heartbeats under way at once, in the first slots that are free.
TwoBeats ==
    /\ Cardinality({b \in Slots : beats'[b] # NoBeat}) <= 2
    /\ \A b \in Slots : b > 1 /\ beats[b] = NoBeat /\ beats'[b] # NoBeat =>
         beats[b - 1] # NoBeat

MCNext ==
    \/ part = "lock" /\ LockNext /\ OneRace /\ UNCHANGED <<part, custodyVars, vars>>
    \/ part = "custody" /\ CustodyNext /\ TwoBeats /\ UNCHANGED <<part, lockVars, vars>>
    \/ part = "uplink" /\ Next /\ UNCHANGED <<part, lockVars, custodyVars>>

\* The uplink's fairness, while it is the part that runs.
MCFairness ==
    /\ WF_vars(part = "uplink" /\ Wakes)
    /\ WF_vars(part = "uplink" /\ (Connects \/ ConnectFails))
    /\ WF_vars(part = "uplink" /\ Registered)
    /\ WF_vars(part = "uplink" /\ Reads) /\ WF_vars(part = "uplink" /\ CellAnswers)
    /\ \A t \in Tickets : WF_vars(part = "uplink" /\ (DialConnects(t) \/ DialFails(t)))
    /\ \A t \in Tickets : WF_vars(part = "uplink" /\ CellRefuses(t))
    /\ WF_vars(part = "uplink" /\ RelayExits)

MCSpec == MCInit /\ [][MCNext]_MCVars /\ MCFairness

\* The three parts stay in their types.
MCTypeOK == LockTypeOK /\ CustodyTypeOK /\ TypeOK
=============================================================================
