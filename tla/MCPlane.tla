------------------------------ MODULE MCPlane -------------------------------
(* The control plane's CLI authorization, attention events, credentials    *)
(* and tenancy, each on a small instance: they meet in no row and no key,  *)
(* so a behaviour is one part's, and the other parts rest.                 *)
EXTENDS CliAuth, Attention, Plane, Tenancy

VARIABLE part

authVars == vars
MCVars == <<part, authVars, attnVars, dbVars, tenancyVars>>

MCInit ==
    /\ Init /\ AttentionInit /\ PlaneInit /\ TenancyInit
    /\ part \in {"cli-auth", "attention", "credentials", "tenancy"}
    /\ part # "cli-auth" => callback

MCNext ==
    \/ /\ part = "cli-auth" /\ Next
       /\ UNCHANGED <<part, attnVars, dbVars, tenancyVars>>
    \/ /\ part = "attention" /\ AttentionNext
       /\ UNCHANGED <<part, authVars, dbVars, tenancyVars>>
    \/ /\ part = "credentials" /\ PlaneNext
       /\ UNCHANGED <<part, authVars, attnVars, tenancyVars>>
    \/ /\ part = "tenancy" /\ TenancyNext
       /\ UNCHANGED <<part, authVars, attnVars, dbVars>>

MCSpec == MCInit /\ [][MCNext]_MCVars

\* The four parts stay in their types.
MCTypeOK == TypeOK /\ AttentionTypeOK /\ PlaneTypeOK /\ TenancyTypeOK
=============================================================================
