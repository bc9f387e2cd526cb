------------------------------ MODULE Tenancy -------------------------------
(***************************************************************************)
(* One person's tenancy in the control plane: what the identity provider   *)
(* says about the person's organisations reaches the users and orgs tables *)
(* by webhook (apps/control-plane/src/routers/webhooks.ts), and every      *)
(* human request is authorized by joining the two (services/auth.ts).      *)
(*                                                                         *)
(* The provider repeats a webhook until it is acknowledged, and its        *)
(* webhooks may arrive in any order. Signatures and parsing are left out:  *)
(* a webhook that fails them changes nothing.                              *)
(***************************************************************************)
EXTENDS Naturals, Sequences, SequencesExt

CONSTANTS
    Orgs,
    NoOrg,
    MaxEvents    \* bound on the provider's events

ASSUME TenancyAssumption == MaxEvents \in Nat \ {0} /\ NoOrg \notin Orgs

VARIABLES
    joined,     \* the organisations the person is in, at the provider
    mail,       \* webhooks not acknowledged yet, in the order of the events
    events,     \* events so far
    userRow,    \* is there a users row?
    orgRows,    \* table orgs
    primaryOrg, \* users.primary_org_id
    overtaken   \* history: the organisations whose departure was acknowledged
                \* before a joining that preceded it

tenancyVars == <<joined, mail, events, userRow, orgRows, primaryOrg, overtaken>>

Webhooks == {"user", "org", "joins", "leaves"} \X (Orgs \cup {NoOrg})

TenancyTypeOK ==
    /\ joined \subseteq Orgs /\ orgRows \subseteq Orgs
    /\ mail \in Seq(Webhooks) /\ events \in 0 .. MaxEvents
    /\ userRow \in BOOLEAN /\ primaryOrg \in orgRows \cup {NoOrg}
    /\ overtaken \subseteq Orgs

TenancyInit ==
    /\ joined = {} /\ mail = << <<"user", NoOrg>> >> /\ events = 1
    /\ userRow = FALSE /\ orgRows = {} /\ primaryOrg = NoOrg
    /\ overtaken = {}

Tells(kind, o) ==
    /\ events < MaxEvents /\ events' = events + 1
    /\ mail' = Append(mail, <<kind, o>>)
    /\ UNCHANGED <<userRow, orgRows, primaryOrg>>

Founds(o) == Tells("org", o) /\ UNCHANGED <<joined, overtaken>>
Joins(o) ==
    /\ o \notin joined /\ joined' = joined \cup {o}
    /\ Tells("joins", o) /\ UNCHANGED overtaken
Leaves(o) ==
    /\ o \in joined /\ joined' = joined \ {o}
    /\ Tells("leaves", o) /\ overtaken' = overtaken \ {o}

-----------------------------------------------------------------------------
(* handleEvent. Each is an upsert or a guarded update; the two of a new    *)
(* membership are one step here, for the first only adds a row that is     *)
(* never taken away. *)

Insert(kind, o) == IF kind \in {"org", "joins"} THEN orgRows \cup {o} ELSE orgRows

\* Mutation: a deleted membership leaves the tenancy.
KeepsTenancy(kind, o) ==
    IF kind = "joins" /\ userRow /\ primaryOrg = NoOrg THEN o ELSE primaryOrg

\* The first membership is adopted, a deleted one that was adopted is dropped.
Adopted(kind, o) ==
    IF kind = "joins" /\ userRow /\ primaryOrg = NoOrg THEN o
    ELSE IF kind = "leaves" /\ primaryOrg = o THEN NoOrg
    ELSE primaryOrg

\* The i-th webhook is a departure, and a joining before it is still to come.
Overtakes(i) ==
    mail[i][1] = "leaves" /\ \E k \in 1 .. i - 1 : mail[k] = <<"joins", mail[i][2]>>

\* Delivered; the acknowledgement may be lost, and the webhook comes again.
Delivered(i) ==
    /\ userRow' = (userRow \/ mail[i][1] = "user")
    /\ orgRows' = Insert(mail[i][1], mail[i][2])
    /\ primaryOrg' = Adopted(mail[i][1], mail[i][2])
    /\ \/ UNCHANGED <<mail, overtaken>>
       \/ /\ mail' = RemoveAt(mail, i)
          /\ overtaken' = overtaken \cup IF Overtakes(i) THEN {mail[i][2]} ELSE {}
    /\ UNCHANGED <<joined, events>>

TenancyNext ==
    \/ \E o \in Orgs : Founds(o) \/ Joins(o) \/ Leaves(o)
    \/ \E i \in DOMAIN mail : Delivered(i)

TenancySpec == TenancyInit /\ [][TenancyNext]_tenancyVars

-----------------------------------------------------------------------------
\* The org a human request is authorized for: users inner-joined with orgs.
AuthenticateHuman == IF userRow /\ primaryOrg \in orgRows THEN primaryOrg ELSE NoOrg

\* Once every webhook is acknowledged, a human request is authorized for an
\* organisation only if the person is in it: "so API access follows membership"
\* (routers/webhooks.ts on a deleted membership) - whatever was repeated or
\* reordered, with one exception. The handler of a joining looks at nothing but
\* the tenancy being empty, so one that arrives after the departure that followed
\* it restores the access: the last departure of that organisation was overtaken.
OffboardedIsOut == mail = <<>> => AuthenticateHuman \in joined \cup overtaken \cup {NoOrg}
=============================================================================
