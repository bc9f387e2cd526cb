------------------------- MODULE ControlPlaneProofs -------------------------
(***************************************************************************)
(* The control plane, for any number of calls, raises, organisations and   *)
(* rows.                                                                   *)
(*                                                                         *)
(* CLI authorization: a token stands for one approval, and an approval for *)
(* at most one token.  Tenancy: somebody who left an organisation is out   *)
(* of it, unless the departure overtook the joining.  Attention: no more   *)
(* rows than suppression windows, nothing leaves the inbox unacknowledged, *)
(* and a poll is given again only what lies beyond a cursor put back.      *)
(* With PlaneProofs, the types of all four parts.                          *)
(***************************************************************************)
EXTENDS MCPlane, PlaneProofs, FiniteSetTheorems, SequenceTheorems, WellFoundedInduction, TLAPS

-----------------------------------------------------------------------------
(* CLI authorization.  The argument is ownership: a grant is in Redis or held
   by the single exchange whose GETDEL took it, and it is written only by the
   approval it names. *)

\* Wherever a grant is, its approval succeeded.
Granted ==
    /\ grant # None => approval[grant] = "approved"
    /\ \A e \in Exchanges : held[e] # None => approval[held[e]] = "approved"

\* No grant is in two places: GETDEL moved it.
Owned ==
    /\ \A e \in Exchanges : held[e] # None => held[e] # grant
    /\ \A e, f \in Exchanges : held[e] # None /\ held[e] = held[f] => e = f

\* An exchange that has not passed its GETDEL holds nothing; past it and on
\* its way, it does.
Progress ==
    \A e \in Exchanges :
        /\ exchange[e] \in {"idle", "loaded"} => held[e] = None
        /\ exchange[e] = "taken" => held[e] # None

\* A token names the grant its exchange holds.
Minted == \A x \in tokens : held[x.by] = x.grant

AuthInv == TypeOK /\ Granted /\ Owned /\ Progress /\ Minted

\* The request startCliAuth stores satisfies the invariant.
LEMMA InitAuthInv == Init => AuthInv
  BY CallsAssumption
     DEF Init, AuthInv, TypeOK, Granted, Owned, Progress, Minted,
         ApprovalStates, ExchangeStates

\* What an approval does other than winning the NX race leaves grants, tokens
\* and every successful approval alone.
LEMMA ApprovalStep ==
  ASSUME AuthInv, NEW a \in Approvals,
         \/ ApproveLoads(a) \/ ApproveWrongCode(a) \/ ApproveCounts(a)
         \/ ApproveLocksOut(a) \/ ApprovalDies(a)
  PROVE  AuthInv'
<1> USE DEF AuthInv, TypeOK, ApprovalStates, ApprovalGoes, redis
<1>1. /\ UNCHANGED <<callback, grant, tokens, exchange, held>>
      /\ approval[a] # "approved"
      /\ \E s \in ApprovalStates : approval' = [approval EXCEPT ![a] = s]
  BY DEF ApproveLoads, ApproveWrongCode, ApproveCounts, ApproveLocksOut,
         ApprovalDies
<1>2. request' \in BOOLEAN /\ attempts' \in Nat
  <2>1. request' \in {request, FALSE} /\ attempts' \in {attempts, attempts + 1}
    BY DEF ApproveLoads, ApproveWrongCode, ApproveCounts, ApproveLocksOut,
           ApprovalDies
  <2>2. request' \in BOOLEAN
    BY <2>1, Zenon
  <2>3. attempts' \in Nat
    BY <2>1
  <2> QED
    BY <2>2, <2>3
<1>3. TypeOK'
  BY <1>1, <1>2
<1>4. \A b \in Approvals : approval[b] = "approved" => approval'[b] = "approved"
  BY <1>1
<1>5. Granted'
  BY <1>1, <1>4 DEF Granted
<1>6. (Owned /\ Progress /\ Minted)'
  BY <1>1 DEF Owned, Progress, Minted
<1> QED
  BY <1>3, <1>5, <1>6

\* The approval that writes the grant was not approved before, so no exchange
\* holds a grant of its name: the new grant is in one place.
LEMMA GrantStep ==
  ASSUME AuthInv, NEW a \in Approvals, ApproveGrants(a)
  PROVE  AuthInv'
<1> USE DEF AuthInv, TypeOK, ApprovalStates, ApprovalGoes
<1>1. UNCHANGED <<callback, request, attempts, tokens, exchange, held>>
  BY DEF ApproveGrants
<1>2. CASE grant' = a /\ approval' = [approval EXCEPT ![a] = "approved"]
  <2>1. \A e \in Exchanges : held[e] # a
    BY CallsAssumption DEF ApproveGrants, Granted
  <2>2. TypeOK' /\ Granted'
    BY <1>1, <1>2 DEF Granted
  <2>3. (Owned /\ Progress /\ Minted)'
    BY <1>1, <1>2, <2>1 DEF Owned, Progress, Minted
  <2> QED
    BY <2>2, <2>3
<1>3. CASE UNCHANGED grant /\ approval' = [approval EXCEPT ![a] = "refused"]
  <2>1. TypeOK' /\ Granted'
    BY <1>1, <1>3 DEF ApproveGrants, Granted
  <2>2. (Owned /\ Progress /\ Minted)'
    BY <1>1, <1>3 DEF Owned, Progress, Minted
  <2> QED
    BY <2>1, <2>2
<1> QED
  BY <1>2, <1>3 DEF ApproveGrants

\* GETDEL moves the grant from Redis to the exchange; minting names what is
\* held; every other step of an exchange leaves what it holds alone.
LEMMA ExchangeKeeps ==
  ASSUME AuthInv, NEW e \in Exchanges, ExchangeStep(e) \/ ExchangeDies(e)
  PROVE  AuthInv'
<1> USE DEF AuthInv, TypeOK, ExchangeStates, ExchangeGoes, redis
<1>1. CASE ExchangeTakes(e)
  <2>1. TypeOK' /\ Granted'
    BY <1>1 DEF ExchangeTakes, Granted
  <2>2. Owned' /\ Progress'
    BY <1>1 DEF ExchangeTakes, Owned, Progress
  <2>3. ASSUME NEW x \in tokens PROVE x.by \in Exchanges /\ x.by # e
    <3>1. x \in [by : Exchanges, grant : Approvals]
      OBVIOUS
    <3> QED
      BY <1>1, <3>1, CallsAssumption DEF ExchangeTakes, Progress, Minted
  <2>4. Minted'
    BY <1>1, <2>3 DEF ExchangeTakes, Minted
  <2> QED
    BY <2>1, <2>2, <2>4
<1>2. CASE ExchangeMints(e)
  <2>1. TypeOK' /\ Granted' /\ Owned'
    BY <1>2 DEF ExchangeMints, Granted, Owned, Progress
  <2>2. Progress' /\ Minted'
    BY <1>2 DEF ExchangeMints, Progress, Minted
  <2> QED
    BY <2>1, <2>2
<1>3. CASE ExchangeLoads(e) \/ ExchangePending(e) \/ ExchangeBurns(e)
             \/ ExchangeRetires(e) \/ ExchangeDies(e)
  <2> USE DEF ExchangeLoads, ExchangePending, ExchangeBurns, ExchangeRetires,
              ExchangeDies
  <2>1. /\ UNCHANGED <<callback, attempts, tokens, approval, held>>
        /\ grant' \in {grant, None}
        /\ request' \in BOOLEAN
    BY <1>3
  <2>2. TypeOK' /\ Granted'
    BY <1>3, <2>1 DEF Granted
  <2>3. Owned' /\ Minted'
    BY <2>1 DEF Owned, Minted
  <2>4. Progress'
    BY <1>3, <2>1 DEF Progress
  <2> QED
    BY <2>2, <2>3, <2>4
<1> QED
  BY <1>1, <1>2, <1>3 DEF ExchangeStep

\* Every step, of any call or of time, preserves the invariant.
LEMMA NextAuthInv == AuthInv /\ [Next]_vars => AuthInv'
<1> SUFFICES ASSUME AuthInv, [Next]_vars PROVE AuthInv'
  OBVIOUS
<1>1. CASE RequestExpires \/ GrantExpires
  BY <1>1 DEF RequestExpires, GrantExpires, AuthInv, TypeOK, Granted, Owned,
              Progress, Minted
<1>2. CASE UNCHANGED vars
  BY <1>2 DEF vars, redis, AuthInv, TypeOK, Granted, Owned, Progress, Minted
<1> QED
  BY <1>1, <1>2, ApprovalStep, GrantStep, ExchangeKeeps DEF Next

\* The invariant holds in every reachable state.
LEMMA SpecAuthInv == Spec => []AuthInv
  BY InitAuthInv, NextAuthInv, PTL DEF Spec

\* Type correctness: the Redis records and the calls of approveCliAuth and
\* exchangeCliAuth keep their types.
THEOREM AuthTypes == Spec => []TypeOK
<1>1. AuthInv => TypeOK
  BY DEF AuthInv
<1> QED
  BY <1>1, SpecAuthInv, PTL

\* However many exchanges race on however many replicas, and wherever one dies,
\* exchangeCliAuth turns an approval into at most one token.
THEOREM MintsOnce == Spec => []GrantMintsOnce
<1>1. ASSUME AuthInv, NEW x \in tokens, NEW y \in tokens, x.grant = y.grant
      PROVE  x = y
  <2>1. /\ x \in [by : Exchanges, grant : Approvals]
        /\ y \in [by : Exchanges, grant : Approvals]
    BY <1>1 DEF AuthInv, TypeOK
  <2>2. x.by = y.by
    BY <1>1, <2>1, CallsAssumption DEF AuthInv, Owned, Minted
  <2> QED
    BY <1>1, <2>1, <2>2
<1>2. AuthInv => GrantMintsOnce
  BY <1>1 DEF GrantMintsOnce
<1> QED
  BY <1>2, SpecAuthInv, PTL

\* exchangeCliAuth mints only for humans whose own approveCliAuth wrote the grant: never
\* for one that gave a wrong user code or lost the NX race.
THEOREM OnlyApproved == Spec => []TokenWasApproved
<1>1. AuthInv => TokenWasApproved
  BY CallsAssumption DEF AuthInv, TypeOK, Granted, Minted, TokenWasApproved
<1> QED
  BY <1>1, SpecAuthInv, PTL

-----------------------------------------------------------------------------
(* Tenancy. *)

\* Of an organisation the person is not in, unless its departure was overtaken, a
\* departure is still under way: behind every webhook that would adopt it, and
\* wherever it is adopted.
Departs(o) ==
    /\ primaryOrg = o => \E j \in DOMAIN mail : mail[j] = <<"leaves", o>>
    /\ \A i \in DOMAIN mail : mail[i] = <<"joins", o>> =>
          \E j \in DOMAIN mail : i < j /\ mail[j] = <<"leaves", o>>

\* Every webhook but that of the person names an organisation.
Addressed == \A i \in DOMAIN mail : mail[i][1] # "user" => mail[i][2] \in Orgs

TenancyInv == TenancyTypeOK /\ Addressed /\ \A o \in Orgs \ (joined \cup overtaken) : Departs(o)

\* At first there is the person's own webhook alone.
LEMMA TenancyInitInv == TenancyInit => TenancyInv
<1> SUFFICES ASSUME TenancyInit PROVE TenancyInv
  OBVIOUS
<1>1. mail \in Seq(Webhooks) /\ \A i \in DOMAIN mail : mail[i] = <<"user", NoOrg>>
  BY DEF TenancyInit, Webhooks
<1>2. events \in 0..MaxEvents
  BY TenancyAssumption DEF TenancyInit
<1>3. TenancyTypeOK
  BY <1>1, <1>2 DEF TenancyInit, TenancyTypeOK
<1>4. Addressed
  BY <1>1 DEF Addressed
<1>5. \A o \in Orgs : Departs(o)
  BY <1>1, TenancyAssumption DEF TenancyInit, Departs
<1> QED  BY <1>3, <1>4, <1>5 DEF TenancyInv

\* What the list is without its i-th webhook.
LEMMA MailRemoved ==
    ASSUME mail \in Seq(Webhooks), NEW i \in DOMAIN mail
    PROVE  /\ RemoveAt(mail, i) \in Seq(Webhooks)
           /\ Len(RemoveAt(mail, i)) = Len(mail) - 1
           /\ \A j \in 1..(Len(mail) - 1) :
                RemoveAt(mail, i)[j] = IF j < i THEN mail[j] ELSE mail[j + 1]
<1> DEFINE front == SubSeq(mail, 1, i - 1)
           back == SubSeq(mail, i + 1, Len(mail))
<1>1. i \in 1..Len(mail) /\ Len(mail) \in Nat
  OBVIOUS
<1>2. front \in Seq(Webhooks) /\ Len(front) = i - 1 /\ \A j \in 1..(i - 1) : front[j] = mail[j]
  BY <1>1
<1>3. /\ back \in Seq(Webhooks) /\ Len(back) = Len(mail) - i
      /\ \A j \in 1..(Len(mail) - i) : back[j] = mail[j + i]
  BY <1>1
<1> HIDE DEF front, back
<1>4. RemoveAt(mail, i) = front \o back
  BY DEF RemoveAt, front, back
<1>5. /\ front \o back \in Seq(Webhooks) /\ Len(front \o back) = Len(mail) - 1
      /\ \A j \in 1..(Len(mail) - 1) :
           (front \o back)[j] = IF j < i THEN front[j] ELSE back[j - (i - 1)]
  <2>1. /\ front \o back \in Seq(Webhooks)
        /\ Len(front \o back) = Len(front) + Len(back)
        /\ \A j \in 1..(Len(front) + Len(back)) :
             (front \o back)[j] = IF j <= Len(front) THEN front[j] ELSE back[j - Len(front)]
    BY <1>2, <1>3, ConcatProperties
  <2>2. Len(front) = i - 1 /\ Len(front) + Len(back) = Len(mail) - 1
    BY <1>1, <1>2, <1>3
  <2> QED  BY <1>1, <2>1, <2>2
<1>6. ASSUME NEW j \in 1..(Len(mail) - 1)
      PROVE  (front \o back)[j] = IF j < i THEN mail[j] ELSE mail[j + 1]
  <2>1. CASE j < i
    BY <1>1, <1>2, <1>5, <1>6, <2>1
  <2>2. CASE ~(j < i)
    <3>1. j - (i - 1) \in 1..(Len(mail) - i) /\ (j - (i - 1)) + i = j + 1
      BY <1>1, <1>6, <2>2
    <3>2. back[j - (i - 1)] = mail[j + 1]
      BY <1>3, <3>1
    <3> QED  BY <1>5, <2>2, <3>2
  <2> QED  BY <2>1, <2>2
<1> QED  BY <1>4, <1>5, <1>6

\* Every event at the provider and every delivery, repeated ones too, keeps it.
LEMMA TenancyNextInv == TenancyInv /\ [TenancyNext]_tenancyVars => TenancyInv'
<1> SUFFICES ASSUME TenancyInv, [TenancyNext]_tenancyVars PROVE TenancyInv'
  OBVIOUS
<1>0. mail \in Seq(Webhooks) /\ DOMAIN mail = 1..Len(mail) /\ Len(mail) \in Nat
  BY DEF TenancyInv, TenancyTypeOK
<1>1. ASSUME NEW o \in Orgs, NEW kind \in {"org", "joins", "leaves"}, Tells(kind, o),
             joined' \in SUBSET Orgs,
             kind = "joins" => o \in joined',
             overtaken' \in SUBSET Orgs,
             \A q \in Orgs \ (joined' \cup overtaken') :
               q \in joined \cup overtaken => kind = "leaves" /\ q = o
      PROVE  TenancyInv'
  <2>1. /\ mail' \in Seq(Webhooks) /\ Len(mail') = Len(mail) + 1
        /\ mail'[Len(mail) + 1] = <<kind, o>>
        /\ \A i \in DOMAIN mail : i \in DOMAIN mail' /\ mail'[i] = mail[i]
        /\ DOMAIN mail' = 1..(Len(mail) + 1)
    BY <1>0, <1>1 DEF Tells, Webhooks
  <2>2. TenancyTypeOK'
    BY <1>1, <2>1, TenancyAssumption DEF Tells, TenancyInv, TenancyTypeOK
  <2>3. Addressed'
    BY <1>0, <1>1, <2>1 DEF TenancyInv, Addressed
  <2>4. ASSUME NEW q \in Orgs \ (joined' \cup overtaken') PROVE Departs(q)'
    <3>1. CASE q \in joined \cup overtaken
      <4>1. mail'[Len(mail) + 1] = <<"leaves", q>>
        BY <1>1, <2>1, <2>4, <3>1
      <4>2. \A i \in DOMAIN mail' : mail'[i] = <<"joins", q>> => i < Len(mail) + 1
        BY <1>0, <2>1, <4>1
      <4>3. Len(mail) + 1 \in DOMAIN mail'
        BY <1>0, <2>1
      <4> QED  BY <4>1, <4>2, <4>3 DEF Departs
    <3>2. CASE q \notin joined \cup overtaken
      <4>1. Departs(q) /\ primaryOrg' = primaryOrg
        BY <1>1, <2>4, <3>2 DEF TenancyInv, Tells
      <4>2. mail'[Len(mail) + 1] # <<"joins", q>>
        BY <1>1, <2>1, <2>4
      <4>3. \A i \in DOMAIN mail' : mail'[i] = <<"joins", q>> => i \in DOMAIN mail
        BY <1>0, <2>1, <4>2
      <4>4. \A i \in DOMAIN mail' : mail'[i] = <<"joins", q>> =>
               \E j \in DOMAIN mail' : i < j /\ mail'[j] = <<"leaves", q>>
        <5> SUFFICES ASSUME NEW i \in DOMAIN mail', mail'[i] = <<"joins", q>>
                     PROVE  \E j \in DOMAIN mail' : i < j /\ mail'[j] = <<"leaves", q>>
          OBVIOUS
        <5>1. i \in DOMAIN mail /\ mail[i] = <<"joins", q>>
          BY <2>1, <4>3
        <5>2. PICK j \in DOMAIN mail : i < j /\ mail[j] = <<"leaves", q>>
          BY <4>1, <5>1 DEF Departs
        <5> QED  BY <2>1, <5>2
      <4>5. primaryOrg' = q => \E j \in DOMAIN mail' : mail'[j] = <<"leaves", q>>
        BY <2>1, <4>1 DEF Departs
      <4> QED  BY <4>4, <4>5 DEF Departs
    <3> QED  BY <3>1, <3>2
  <2> QED  BY <2>2, <2>3, <2>4 DEF TenancyInv
<1>2. ASSUME NEW o \in Orgs, Founds(o) \/ Joins(o) \/ Leaves(o) PROVE TenancyInv'
  <2>1. joined \in SUBSET Orgs /\ overtaken \in SUBSET Orgs
    BY DEF TenancyInv, TenancyTypeOK
  <2>2. CASE Founds(o)
    BY <1>1, <2>1, <2>2 DEF Founds
  <2>3. CASE Joins(o)
    BY <1>1, <2>1, <2>3 DEF Joins
  <2>4. CASE Leaves(o)
    BY <1>1, <2>1, <2>4 DEF Leaves
  <2> QED  BY <1>2, <2>2, <2>3, <2>4
<1>3. ASSUME NEW i \in DOMAIN mail, Delivered(i) PROVE TenancyInv'
  <2>1. PICK kind, o : /\ mail[i] = <<kind, o>> /\ kind = mail[i][1] /\ o = mail[i][2]
                       /\ kind \in {"user", "org", "joins", "leaves"}
                       /\ kind # "user" => o \in Orgs
    BY <1>0 DEF Webhooks, TenancyInv, Addressed
  <2>2. /\ userRow' = (userRow \/ kind = "user") /\ orgRows' = Insert(kind, o)
        /\ primaryOrg' = Adopted(kind, o) /\ mail' \in {mail, RemoveAt(mail, i)}
        /\ overtaken' \in {overtaken, overtaken \cup {o}} /\ overtaken' \subseteq Orgs
        /\ mail' # mail /\ kind = "leaves" /\ (\E k \in 1 .. i - 1 : mail[k] = <<"joins", o>>)
             => o \in overtaken'
        /\ UNCHANGED <<joined, events>>
    BY <1>3, <2>1 DEF Delivered, Overtakes, TenancyInv, TenancyTypeOK
  <2>3. userRow' \in BOOLEAN
    BY <2>2
  <2>4. orgRows' \subseteq Orgs /\ primaryOrg' \in orgRows' \cup {NoOrg}
    BY <2>1, <2>2 DEF TenancyInv, TenancyTypeOK, Insert, Adopted
  <2>5. /\ mail' \in Seq(Webhooks) /\ DOMAIN mail' = 1..Len(mail')
        /\ \/ mail' = mail
           \/ /\ Len(mail') = Len(mail) - 1
              /\ \A j \in 1..(Len(mail) - 1) : mail'[j] = IF j < i THEN mail[j] ELSE mail[j + 1]
    <3>1. CASE mail' = mail
      BY <1>0, <3>1
    <3>2. CASE mail' = RemoveAt(mail, i)
      <4>1. /\ RemoveAt(mail, i) \in Seq(Webhooks) /\ Len(RemoveAt(mail, i)) = Len(mail) - 1
            /\ \A j \in 1..(Len(mail) - 1) :
                 RemoveAt(mail, i)[j] = IF j < i THEN mail[j] ELSE mail[j + 1]
        BY <1>0, MailRemoved
      <4>2. DOMAIN mail' = 1..Len(mail')
        BY <3>2, <4>1
      <4> QED  BY <3>2, <4>1, <4>2
    <3> QED  BY <2>2, <3>1, <3>2
  <2>6. TenancyTypeOK'
    BY <2>2, <2>3, <2>4, <2>5 DEF TenancyInv, TenancyTypeOK
  <2>7. Addressed'
    <3>1. \A j \in DOMAIN mail' : \E k \in DOMAIN mail : mail'[j] = mail[k]
      <4> TAKE j \in DOMAIN mail'
      <4>1. CASE mail' = mail
        BY <4>1
      <4>2. CASE mail' # mail
        <5>1. /\ Len(mail') = Len(mail) - 1 /\ j \in 1..(Len(mail) - 1)
              /\ mail'[j] = IF j < i THEN mail[j] ELSE mail[j + 1]
          BY <1>0, <2>5, <4>2
        <5> QED  BY <1>0, <5>1
      <4> QED  BY <4>1, <4>2
    <3> QED  BY <3>1 DEF TenancyInv, Addressed
  <2>8. ASSUME NEW q \in Orgs \ (joined' \cup overtaken') PROVE Departs(q)'
    <3>1. Departs(q)
      BY <2>2, <2>8 DEF TenancyInv
    <3> DEFINE New(k) == IF mail' = mail \/ k < i THEN k ELSE k - 1
               Old(j) == IF mail' = mail \/ j < i THEN j ELSE j + 1
    <3>2. ASSUME NEW k \in DOMAIN mail, mail' = mail \/ k # i
          PROVE  New(k) \in DOMAIN mail' /\ mail'[New(k)] = mail[k]
      <4>1. CASE mail' = mail
        BY <4>1
      <4>2. CASE mail' # mail /\ k < i
        <5>1. k \in 1..(Len(mail) - 1)
          BY <1>0, <4>2
        <5> QED  BY <2>5, <4>2, <5>1
      <4>3. CASE mail' # mail /\ k > i
        <5>1. k - 1 \in 1..(Len(mail) - 1) /\ ~(k - 1 < i) /\ (k - 1) + 1 = k
          BY <1>0, <4>3
        <5>2. mail'[k - 1] = mail[k] /\ k - 1 \in DOMAIN mail'
          BY <2>5, <4>3, <5>1
        <5> QED  BY <1>0, <4>3, <5>2
      <4> QED  BY <1>0, <3>2, <4>1, <4>2, <4>3
    <3>3. ASSUME NEW j \in DOMAIN mail'
          PROVE  /\ Old(j) \in DOMAIN mail /\ mail[Old(j)] = mail'[j] /\ New(Old(j)) = j
                 /\ mail' # mail => Old(j) # i
      <4>1. CASE mail' = mail
        BY <3>3, <4>1
      <4>2. CASE mail' # mail
        <5>1. j \in 1..(Len(mail) - 1) /\ mail'[j] = IF j < i THEN mail[j] ELSE mail[j + 1]
          BY <2>5, <3>3, <4>2
        <5> QED  BY <1>0, <4>2, <5>1
      <4> QED  BY <4>1, <4>2
    <3>4. \A k, l \in DOMAIN mail : k < l /\ (mail' = mail \/ (k # i /\ l # i)) => New(k) < New(l)
      BY <1>0
    <3> HIDE DEF New, Old
    <3>5. ASSUME primaryOrg' = q PROVE \E j \in DOMAIN mail' : mail'[j] = <<"leaves", q>>
      <4>1. ~(kind = "leaves" /\ o = q)
        BY <2>2, <2>8, <3>5, TenancyAssumption DEF Adopted
      <4>2. \E k \in DOMAIN mail : mail[k] = <<"leaves", q>>
        <5>1. CASE kind = "joins" /\ o = q
          BY <2>1, <3>1, <5>1 DEF Departs
        <5>2. CASE ~(kind = "joins" /\ o = q)
          <6>1. primaryOrg = q
            BY <2>2, <2>8, <3>5, <5>2, TenancyAssumption DEF Adopted
          <6> QED  BY <3>1, <6>1 DEF Departs
        <5> QED  BY <5>1, <5>2
      <4>3. PICK k \in DOMAIN mail : mail[k] = <<"leaves", q>>
        BY <4>2
      <4>4. k # i
        BY <2>1, <4>1, <4>3
      <4> QED  BY <3>2, <4>3, <4>4
    <3>6. ASSUME NEW j \in DOMAIN mail', mail'[j] = <<"joins", q>>
          PROVE  \E k \in DOMAIN mail' : j < k /\ mail'[k] = <<"leaves", q>>
      <4>1. /\ Old(j) \in DOMAIN mail /\ mail[Old(j)] = <<"joins", q>> /\ New(Old(j)) = j
            /\ mail' # mail => Old(j) # i
        BY <3>3, <3>6
      <4>2. PICK k \in DOMAIN mail : Old(j) < k /\ mail[k] = <<"leaves", q>>
        BY <3>1, <4>1 DEF Departs
      <4>3. mail' = mail \/ k # i
        <5> SUFFICES ASSUME mail' # mail, k = i PROVE FALSE
          OBVIOUS
        <5>1. Old(j) \in 1 .. i - 1
          BY <1>0, <4>1, <4>2
        <5>2. kind = "leaves" /\ o = q
          BY <2>1, <4>2
        <5> QED  BY <2>2, <2>8, <4>1, <5>1, <5>2
      <4>4. New(k) \in DOMAIN mail' /\ mail'[New(k)] = mail[k] /\ j < New(k)
        <5>1. mail' = mail \/ (Old(j) # i /\ k # i)
          BY <4>1, <4>3
        <5>2. New(Old(j)) < New(k)
          <6>1. PICK was : was = Old(j)
            OBVIOUS
          <6>2. was \in DOMAIN mail /\ was < k /\ (mail' = mail \/ (was # i /\ k # i))
            BY <4>1, <4>2, <5>1, <6>1
          <6>3. New(was) < New(k)
            BY <3>4, <6>2
          <6> QED  BY <6>1, <6>3
        <5> QED  BY <3>2, <4>1, <4>3, <5>2
      <4> QED  BY <4>2, <4>4
    <3> QED  BY <3>5, <3>6 DEF Departs
  <2> QED  BY <2>6, <2>7, <2>8 DEF TenancyInv
<1>4. CASE UNCHANGED tenancyVars
  BY <1>4 DEF tenancyVars, TenancyInv, TenancyTypeOK, Addressed, Departs
<1> QED
  BY <1>2, <1>3, <1>4 DEF TenancyNext

\* However webhooks are repeated and reordered, API access follows membership
\* wherever no departure overtook a joining before it: once all are acknowledged
\* nobody is authorized for any other organisation he has left.
THEOREM OffboardedOut == TenancySpec => []OffboardedIsOut
<1>1. TenancyInv => OffboardedIsOut
  <2> SUFFICES ASSUME TenancyInv, mail = <<>>, userRow, primaryOrg \in orgRows,
                      primaryOrg \notin joined \cup overtaken
               PROVE  FALSE
    BY DEF OffboardedIsOut, AuthenticateHuman
  <2>1. primaryOrg \in Orgs \ (joined \cup overtaken)
    BY DEF TenancyInv, TenancyTypeOK
  <2> QED  BY <2>1 DEF TenancyInv, Departs
<1> QED
  BY <1>1, TenancyInitInv, TenancyNextInv, PTL DEF TenancySpec

-----------------------------------------------------------------------------
(* Attention. *)

HandlerSteps == {"idle", "bind", "claim", "stamp", "insert", "devices", "send", "dead", "done"}
RaiseRecs == [pc : HandlerSteps, at : 0..MaxTime, tok : 0..MaxTokens]

\* The raises that have a row or will try to insert one, and those that are past
\* their claim.
Holding == {r \in Raises : rows[r] # "none" \/ raises[r].pc \in {"stamp", "insert"}}
Decided == {r \in Raises : raises[r].pc \notin {"idle", "bind", "claim"}}

\* Every raise that holds a row opened a window for it, and opens one at most.
Windows == Cardinality(Holding) <= windows /\ windows <= Cardinality(Decided)

\* A row comes after its raise's insert, and is acknowledged once.
RowsOK ==
    \A r \in Raises :
        /\ rows[r] # "none" => raises[r].pc \in {"devices", "send", "dead", "done"}
        /\ rows[r] # "acked" => acks[r] = 0

\* What the inbox knows of has a row.
Known ==
    /\ batch \in [Polls -> {NoRaise} \cup SUBSET Raises]
    /\ \A r \in seen \cup shown : rows[r] # "none"
    /\ \A p \in Polls : batch[p] # NoRaise => \A r \in batch[p] : rows[r] # "none"
    /\ acking # NoRaise => rows[acking] # "none"

AttentionInv == AttentionTypeOK /\ RowsOK /\ Known /\ Windows /\ GoneMeansAcked

\* Nothing is raised and the inbox is empty at first.
LEMMA AttentionInitInv == AttentionInit => AttentionInv
<1> SUFFICES ASSUME AttentionInit PROVE AttentionInv
  OBVIOUS
<1>1. \A r \in Raises : raises[r] = NotRaised /\ rows[r] = "none" /\ acks[r] = 0
  BY DEF AttentionInit
<1>2. Cardinality(Raises) \in Nat
  BY AttentionAssumption, FS_CardinalityType
<1>3. NotRaised \in RaiseRecs
  BY AttentionAssumption DEF NotRaised, RaiseRecs, HandlerSteps
<1>4. raises \in [Raises -> RaiseRecs]
  BY <1>3 DEF AttentionInit
<1>5. AttentionTypeOK
  <2>1. reported \in BOOLEAN /\ lock \in BOOLEAN
    BY DEF AttentionInit
  <2>2. /\ clock \in 1..MaxTime /\ windows \in 0..Cardinality(Raises)
        /\ token \in 0..MaxTokens /\ made \in 0..MaxTokens /\ token <= made
        /\ cursor \in 0..MaxTime /\ reached \in cursor..MaxTime
    BY <1>2, AttentionAssumption DEF AttentionInit
  <2>3. /\ rows \in [Raises -> {"none", "pending", "acked"}] /\ acks \in [Raises -> 0..1]
        /\ since \in [Polls -> 0..MaxTime]
    BY AttentionAssumption DEF AttentionInit
  <2>4. /\ \A p \in Polls : batch[p] = NoRaise \/ batch[p] \in SUBSET Raises
        /\ shown \in SUBSET Raises /\ seen \in SUBSET Raises
        /\ acking \in Raises \cup {NoRaise}
    BY DEF AttentionInit
  <2> QED
    BY <1>4, <2>1, <2>2, <2>3, <2>4 DEF AttentionTypeOK, RaiseRecs, HandlerSteps
<1>6. Holding = {} /\ Decided = {}
  BY <1>1 DEF Holding, Decided, NotRaised
<1>7. Windows
  BY <1>6, FS_EmptySet DEF Windows, AttentionInit
<1>8. RowsOK
  BY <1>1 DEF RowsOK
<1>9. batch \in [Polls -> {NoRaise} \cup SUBSET Raises] /\ \A p \in Polls : batch[p] = NoRaise
  BY DEF AttentionInit
<1>10. Known /\ GoneMeansAcked
  BY <1>9 DEF Known, GoneMeansAcked, AttentionInit
<1> QED  BY <1>5, <1>7, <1>8, <1>10 DEF AttentionInv

\* What one raise's step does to the handlers.
LEMMA RaiseMoves ==
    ASSUME raises \in [Raises -> RaiseRecs], NEW r \in Raises, NEW to \in HandlerSteps,
           raises' = [raises EXCEPT ![r].pc = to]
    PROVE  /\ raises' \in [Raises -> RaiseRecs] /\ raises'[r].pc = to
           /\ raises'[r].at = raises[r].at
           /\ \A q \in Raises : q # r => raises'[q] = raises[q]
BY DEF RaiseRecs

\* The windows, where one raise moves on.
LEMMA WindowsKept ==
    ASSUME AttentionInv, NEW r \in Raises, raises' \in [Raises -> RaiseRecs],
           \A q \in Raises : q # r => raises'[q] = raises[q] /\ rows'[q] = rows[q],
           r \in Holding' => r \in Holding, r \in Decided => r \in Decided',
           windows' = windows
    PROVE  Windows'
<1>1. PICK h, h1, d, d1 : h = Holding /\ h1 = Holding' /\ d = Decided /\ d1 = Decided'
  OBVIOUS
<1>2. h1 \subseteq h /\ d \subseteq d1 /\ h \subseteq Raises /\ d1 \subseteq Raises
  BY <1>1 DEF Holding, Decided
<1>3. IsFiniteSet(h) /\ IsFiniteSet(d1)
  BY <1>2, AttentionAssumption, FS_Subset
<1>4. Cardinality(h1) <= Cardinality(h) /\ Cardinality(d) <= Cardinality(d1)
  BY <1>2, <1>3, FS_Subset
<1>5. IsFiniteSet(h1) /\ IsFiniteSet(d)
  BY <1>2, <1>3, FS_Subset
<1>6. /\ Cardinality(h) \in Nat /\ Cardinality(h1) \in Nat /\ Cardinality(d) \in Nat
      /\ Cardinality(d1) \in Nat
  BY <1>3, <1>5, FS_CardinalityType
<1>7. Cardinality(h) <= windows /\ windows <= Cardinality(d) /\ windows \in Int
  BY <1>1 DEF AttentionInv, Windows, AttentionTypeOK
<1>8. Cardinality(h1) <= windows' /\ windows' <= Cardinality(d1)
  BY <1>4, <1>6, <1>7
<1> QED  BY <1>1, <1>8 DEF Windows

\* A step of one handler that leaves the inbox alone keeps the invariant where its
\* row comes with its insert and the windows stand.
LEMMA HandlerMoves ==
    ASSUME AttentionInv, NEW r \in Raises, raises' \in [Raises -> RaiseRecs],
           \A q \in Raises : q # r => raises'[q] = raises[q] /\ rows'[q] = rows[q],
           rows' \in [Raises -> {"none", "pending", "acked"}],
           rows'[r] = rows[r] \/ (rows[r] = "none" /\ rows'[r] = "pending"),
           rows'[r] # "none" => raises'[r].pc \in {"devices", "send", "dead", "done"},
           Windows', windows' \in Int, reported' \in BOOLEAN, lock' \in BOOLEAN,
           token' \in 0..MaxTokens, token' <= made,
           UNCHANGED <<clock, acks, made, client>>
    PROVE  AttentionInv'
<1>1. windows' \in 0..Cardinality(Raises)
  <2>1. PICK d, h : d = Decided' /\ h = Holding'
    OBVIOUS
  <2>2. d \subseteq Raises /\ h \subseteq Raises
    BY <2>1 DEF Decided, Holding
  <2>3. Cardinality(d) <= Cardinality(Raises) /\ IsFiniteSet(h) /\ IsFiniteSet(d)
    BY <2>2, AttentionAssumption, FS_Subset
  <2>4. Cardinality(h) \in Nat /\ Cardinality(d) \in Nat /\ Cardinality(Raises) \in Nat
    BY <2>3, AttentionAssumption, FS_CardinalityType
  <2>5. Cardinality(h) <= windows' /\ windows' <= Cardinality(d)
    BY <2>1 DEF Windows
  <2> QED  BY <2>3, <2>4, <2>5
<1>2. AttentionTypeOK'
  BY <1>1 DEF AttentionInv, AttentionTypeOK, RaiseRecs, HandlerSteps, client
<1>3. RowsOK'
  <2> SUFFICES ASSUME NEW q \in Raises
               PROVE  /\ rows'[q] # "none" => raises'[q].pc \in {"devices", "send", "dead", "done"}
                      /\ rows'[q] # "acked" => acks'[q] = 0
    BY DEF RowsOK
  <2>1. CASE q = r
    BY <2>1 DEF AttentionInv, RowsOK
  <2>2. CASE q # r
    BY <2>2 DEF AttentionInv, RowsOK
  <2> QED  BY <2>1, <2>2
<1>4. \A q \in Raises : /\ rows[q] # "none" => rows'[q] # "none"
                        /\ rows[q] = "acked" => rows'[q] = "acked"
  OBVIOUS
<1>5. Known'
  BY <1>4 DEF AttentionInv, AttentionTypeOK, Known, client
<1>6. GoneMeansAcked'
  BY <1>4 DEF AttentionInv, AttentionTypeOK, GoneMeansAcked, client
<1> QED  BY <1>2, <1>3, <1>5, <1>6 DEF AttentionInv

\* Every step of a raise keeps the invariant.
LEMMA RaiseStepInv ==
    ASSUME AttentionInv, NEW r \in Raises, Raised(r) \/ RaiseSteps(r)
    PROVE  AttentionInv'
<1>0. /\ raises \in [Raises -> RaiseRecs] /\ rows \in [Raises -> {"none", "pending", "acked"}]
      /\ windows \in Int /\ reported \in BOOLEAN /\ lock \in BOOLEAN
      /\ token \in 0..MaxTokens /\ made \in 0..MaxTokens /\ token <= made
      /\ rows[r] # "none" => raises[r].pc \in {"devices", "send", "dead", "done"}
  BY DEF AttentionInv, AttentionTypeOK, RaiseRecs, HandlerSteps, RowsOK
<1>1. ASSUME NEW to \in HandlerSteps, raises' = [raises EXCEPT ![r].pc = to],
             rows' = rows, windows' = windows,
             raises[r].pc \notin {"idle", "bind", "claim"} => to \notin {"idle", "bind", "claim"},
             to \in {"stamp", "insert"} => raises[r].pc \in {"stamp", "insert"},
             rows[r] # "none" => to \in {"devices", "send", "dead", "done"},
             reported' \in BOOLEAN, lock' \in BOOLEAN, token' \in 0..MaxTokens, token' <= made,
             UNCHANGED <<clock, acks, made, client>>
      PROVE  AttentionInv'
  <2>1. /\ raises' \in [Raises -> RaiseRecs] /\ raises'[r].pc = to
        /\ \A q \in Raises : q # r => raises'[q] = raises[q]
    BY <1>0, <1>1, RaiseMoves
  <2>2. (r \in Holding' => r \in Holding) /\ (r \in Decided => r \in Decided')
    BY <1>1, <2>1 DEF Holding, Decided
  <2>3. Windows'
    BY <1>1, <2>1, <2>2, WindowsKept
  <2> QED
    BY <1>0, <1>1, <2>1, <2>3, HandlerMoves
<1>2. CASE Raised(r)
  <2>1. /\ raises[r].pc = "idle" /\ raises' = [raises EXCEPT ![r].pc = "bind"]
        /\ UNCHANGED <<clock, lock, windows, rows, acks, token, made, client>>
    BY <1>2 DEF Raised, NotRaised
  <2>2. reported' \in BOOLEAN
    BY <1>0, <1>2 DEF Raised
  <2> QED  BY <1>0, <1>1, <2>1, <2>2 DEF HandlerSteps
<1>3. CASE Binds(r)
  <2>1. PICK to \in {"claim", "done"} :
          /\ raises[r].pc = "bind" /\ raises' = [raises EXCEPT ![r].pc = to]
          /\ UNCHANGED <<clock, reported, lock, windows, rows, acks, token, made, client>>
    BY <1>3 DEF Binds
  <2> QED  BY <1>0, <1>1, <2>1 DEF HandlerSteps
<1>4. CASE Claims(r)
  <2>1. CASE ~Wins
    <3>1. /\ raises[r].pc = "claim" /\ raises' = [raises EXCEPT ![r].pc = "done"]
          /\ UNCHANGED <<clock, reported, lock, windows, rows, acks, token, made, client>>
      BY <1>4, <2>1 DEF Claims
    <3> QED  BY <1>0, <1>1, <3>1 DEF HandlerSteps
  <2>2. CASE Wins
    <3>1. /\ raises[r].pc = "claim" /\ raises' = [raises EXCEPT ![r].pc = "stamp"]
          /\ UNCHANGED <<clock, reported, rows, acks, token, made, client>>
          /\ windows' = windows + 1
      BY <1>0, <1>4, <2>2 DEF Claims, Wins
    <3>2. lock' \in BOOLEAN
      BY <1>4, <2>2 DEF Claims
    <3>3. /\ raises' \in [Raises -> RaiseRecs] /\ raises'[r].pc = "stamp"
          /\ \A q \in Raises : q # r => raises'[q] = raises[q]
      BY <1>0, <3>1, RaiseMoves DEF HandlerSteps
    <3>4. PICK h, h1, d, d1 : h = Holding /\ h1 = Holding' /\ d = Decided /\ d1 = Decided'
      OBVIOUS
    <3>5. /\ h1 = h \cup {r} /\ r \notin h /\ d1 = d \cup {r} /\ r \notin d
          /\ h \subseteq Raises /\ d \subseteq Raises
      BY <1>0, <3>1, <3>3, <3>4 DEF Holding, Decided
    <3>6. IsFiniteSet(h) /\ IsFiniteSet(d)
      BY <3>5, AttentionAssumption, FS_Subset
    <3>7. Cardinality(h1) = Cardinality(h) + 1 /\ Cardinality(d1) = Cardinality(d) + 1
      BY <3>5, <3>6, FS_AddElement
    <3>8. Cardinality(h) \in Nat /\ Cardinality(d) \in Nat
      BY <3>6, FS_CardinalityType
    <3>9. Cardinality(h) <= windows /\ windows <= Cardinality(d)
      BY <3>4 DEF AttentionInv, Windows
    <3>10. Cardinality(h1) <= windows' /\ windows' <= Cardinality(d1)
      BY <1>0, <3>1, <3>7, <3>8, <3>9
    <3>11. Windows' /\ windows' \in Int
      BY <1>0, <3>1, <3>4, <3>10 DEF Windows
    <3> QED
      BY <1>0, <3>1, <3>2, <3>3, <3>11, HandlerMoves
  <2> QED  BY <2>1, <2>2
<1>5. CASE Stamps(r)
  <2>1. /\ raises[r].pc = "stamp" /\ clock \in 0..MaxTime
        /\ raises' = [raises EXCEPT ![r].pc = "insert", ![r].at = clock]
        /\ UNCHANGED <<clock, reported, lock, windows, rows, acks, token, made, client>>
    BY <1>5 DEF Stamps, AttentionInv, AttentionTypeOK
  <2>2. /\ raises' \in [Raises -> RaiseRecs] /\ raises'[r].pc = "insert"
        /\ \A q \in Raises : q # r => raises'[q] = raises[q]
    BY <1>0, <2>1 DEF RaiseRecs, HandlerSteps
  <2>3. (r \in Holding' => r \in Holding) /\ (r \in Decided => r \in Decided')
    BY <2>1, <2>2 DEF Holding, Decided
  <2>4. Windows'
    BY <2>1, <2>2, <2>3, WindowsKept
  <2> QED
    BY <1>0, <2>1, <2>2, <2>4, HandlerMoves
<1>6. CASE Inserts(r)
  <2>1. CASE UNCHANGED rows
    <3>1. /\ raises[r].pc = "insert"
          /\ \E to \in {"done", "devices"} : raises' = [raises EXCEPT ![r].pc = to]
          /\ UNCHANGED <<clock, reported, lock, windows, rows, acks, token, made, client>>
      BY <1>6, <2>1 DEF Inserts
    <3>2. PICK to \in {"done", "devices"} : raises' = [raises EXCEPT ![r].pc = to]
      BY <3>1
    <3> QED  BY <1>0, <1>1, <3>1, <3>2 DEF HandlerSteps
  <2>2. CASE ~UNCHANGED rows
    <3>1. /\ raises[r].pc = "insert" /\ raises' = [raises EXCEPT ![r].pc = "devices"]
          /\ rows' = [rows EXCEPT ![r] = "pending"]
          /\ UNCHANGED <<clock, reported, lock, windows, acks, token, made, client>>
      BY <1>6, <2>2 DEF Inserts
    <3>2. /\ raises' \in [Raises -> RaiseRecs] /\ raises'[r].pc = "devices"
          /\ \A q \in Raises : q # r => raises'[q] = raises[q]
      BY <1>0, <3>1, RaiseMoves DEF HandlerSteps
    <3>3. /\ rows' \in [Raises -> {"none", "pending", "acked"}] /\ rows'[r] = "pending"
          /\ \A q \in Raises : q # r => rows'[q] = rows[q]
      BY <1>0, <3>1
    <3>4. (r \in Holding' => r \in Holding) /\ (r \in Decided => r \in Decided')
      BY <3>1, <3>2 DEF Holding, Decided
    <3>5. Windows'
      BY <3>1, <3>2, <3>3, <3>4, WindowsKept
    <3> QED
      BY <1>0, <3>1, <3>2, <3>3, <3>5, HandlerMoves
  <2> QED  BY <2>1, <2>2
<1>7. CASE LoadsDevices(r)
  <2>1. PICK to \in {"done", "send"} :
          /\ raises[r].pc = "devices"
          /\ raises' = [raises EXCEPT ![r].pc = to, ![r].tok = token]
          /\ UNCHANGED <<clock, reported, lock, windows, rows, acks, token, made, client>>
    BY <1>7 DEF LoadsDevices
  <2>2. /\ raises' \in [Raises -> RaiseRecs] /\ raises'[r].pc = to
        /\ \A q \in Raises : q # r => raises'[q] = raises[q]
    BY <1>0, <2>1 DEF RaiseRecs, HandlerSteps
  <2>3. (r \in Holding' => r \in Holding) /\ (r \in Decided => r \in Decided')
    BY <2>1, <2>2 DEF Holding, Decided
  <2>4. Windows'
    BY <2>1, <2>2, <2>3, WindowsKept
  <2> QED
    BY <1>0, <2>1, <2>2, <2>4, HandlerMoves
<1>8. CASE Sends(r)
  <2>1. PICK to \in {"done", "dead"} :
          /\ raises[r].pc = "send" /\ raises' = [raises EXCEPT ![r].pc = to]
          /\ UNCHANGED <<clock, reported, lock, windows, rows, acks, token, made, client>>
    BY <1>8 DEF Sends, Outcomes
  <2> QED  BY <1>0, <1>1, <2>1 DEF HandlerSteps
<1>9. CASE Heals(r)
  <2>1. /\ raises[r].pc = "dead" /\ raises' = [raises EXCEPT ![r].pc = "done"] /\ token' = 0
        /\ UNCHANGED <<clock, reported, lock, windows, rows, acks, made, client>>
    BY <1>9 DEF Heals
  <2>2. token' \in 0..MaxTokens /\ token' <= made
    BY <1>0, <2>1, AttentionAssumption
  <2> QED  BY <1>0, <1>1, <2>1, <2>2 DEF HandlerSteps
<1> QED
  BY <1>2, <1>3, <1>4, <1>5, <1>6, <1>7, <1>8, <1>9 DEF RaiseSteps

\* A set of natural numbers that is not empty has a least member, which is what
\* an induction over them comes to.
Less == {pair \in Nat \X Nat : pair[1] < pair[2]}

LEMMA LessWellFounded == IsWellFoundedOn(Less, Nat)
BY NatLessThanWellFounded DEF OpToRel, Less

LEMMA LeastMember ==
    ASSUME NEW T, T \subseteq Nat, T # {}
    PROVE  \E n \in T : \A m \in T : n <= m
<1>1. PICK n \in T : \A m \in T : <<m, n>> \notin Less
  BY LessWellFounded, WFMin
<1>2. ASSUME NEW m \in T PROVE n <= m
  <2>1. CASE m < n
    <3>1. <<m, n>> \in Nat \X Nat
      OBVIOUS
    <3>2. <<m, n>> \in Less
      BY <2>1, <3>1 DEF Less
    <3> QED  BY <1>1, <3>2
  <2> QED  BY <2>1
<1> QED  BY <1>2

LEMMA LatestMember ==
    ASSUME NEW bound \in Nat, NEW T, T \subseteq 0..bound, T # {}
    PROVE  \E t \in T : \A u \in T : t >= u
<1> DEFINE left == {bound - t : t \in T}
<1>1. left \subseteq Nat /\ left # {}
  <2>1. \A t \in T : bound - t \in Nat
    OBVIOUS
  <2>2. PICK t : t \in T
    OBVIOUS
  <2>3. bound - t \in left
    BY <2>2
  <2> QED  BY <2>1, <2>3
<1>2. PICK n \in left : \A m \in left : n <= m
  BY <1>1, LeastMember
<1>3. PICK t \in T : n = bound - t
  BY <1>2
<1>4. ASSUME NEW u \in T PROVE t >= u
  <2>1. bound - t <= bound - u
    BY <1>2, <1>3
  <2> QED  BY <2>1
<1> QED  BY <1>4

\* The cursor after a poll: not before the one it was asked with, and not before
\* anything in the answer.
LEMMA LatestRead ==
    ASSUME raises \in [Raises -> RaiseRecs], since \in [Polls -> 0..MaxTime],
           NEW p \in Polls, batch[p] \in SUBSET Raises
    PROVE  /\ Advanced(p) \in 0..MaxTime /\ Advanced(p) >= since[p]
           /\ \A r \in batch[p] : Advanced(p) >= raises[r].at
<1> DEFINE times == {since[p]} \cup {raises[r].at : r \in batch[p]}
<1>1. times \subseteq 0..MaxTime /\ times # {}
  BY DEF RaiseRecs
<1>2. \E t \in times : \A u \in times : t >= u
  BY <1>1, AttentionAssumption, LatestMember
<1>3. \E t \in times : t >= since[p] /\ \A r \in batch[p] : t >= raises[r].at
  BY <1>2
<1>4. /\ Advanced(p) \in times /\ Advanced(p) >= since[p]
      /\ \A r \in batch[p] : Advanced(p) >= raises[r].at
  BY <1>3 DEF Advanced
<1> QED  BY <1>1, <1>4

\* The later of two times.
LEMMA Later ==
    ASSUME NEW t \in Int, NEW u \in Int
    PROVE  Max({t, u}) \in {t, u} /\ Max({t, u}) >= t /\ Max({t, u}) >= u
<1>1. \E x \in {t, u} : \A y \in {t, u} : x >= y
  <2>1. CASE t >= u
    BY <2>1
  <2>2. CASE ~(t >= u)
    BY <2>2
  <2> QED  BY <2>1, <2>2
<1> QED  BY <1>1 DEF Max

\* The windows, where rows are acknowledged at most.
LEMMA WindowsStand ==
    ASSUME Windows, raises' = raises, windows' = windows,
           \A q \in Raises : rows'[q] # "none" <=> rows[q] # "none"
    PROVE  Windows'
<1>1. Holding' = Holding /\ Decided' = Decided
  BY DEF Holding, Decided
<1> QED  BY <1>1 DEF Windows

\* What an acknowledgement does to the rows.
LEMMA AckedRows ==
    ASSUME AttentionInv, NEW r \in Raises, Acked(r)
    PROVE  /\ rows' \in [Raises -> {"none", "pending", "acked"}] /\ acks' \in [Raises -> 0..1]
           /\ \A q \in Raises : /\ rows'[q] # "none" <=> rows[q] # "none"
                                /\ rows[q] = "acked" => rows'[q] = "acked"
                                /\ rows'[q] # "acked" => acks'[q] = 0
           /\ rows[r] # "none" => rows'[r] = "acked"
           /\ UNCHANGED <<clock, reported, lock, windows, raises, token, made>>
<1>0. /\ rows \in [Raises -> {"none", "pending", "acked"}] /\ acks \in [Raises -> 0..1]
      /\ \A q \in Raises : rows[q] # "acked" => acks[q] = 0
  BY DEF AttentionInv, AttentionTypeOK, RowsOK
<1>1. UNCHANGED <<clock, reported, lock, windows, raises, token, made>>
  BY DEF Acked
<1>2. CASE Clears(r)
  <2>1. /\ rows' = [rows EXCEPT ![r] = "acked"] /\ acks' = [acks EXCEPT ![r] = @ + 1]
        /\ rows[r] = "pending" /\ acks[r] = 0
    BY <1>0, <1>2 DEF Acked, Clears
  <2>2. acks' \in [Raises -> 0..1]
    BY <1>0, <2>1
  <2> QED  BY <1>0, <1>1, <2>1, <2>2
<1>3. CASE ~Clears(r)
  BY <1>0, <1>1, <1>3 DEF Acked, Clears
<1> QED  BY <1>2, <1>3

\* Every step of the plane, the phone, the inbox and other controllers keeps the
\* invariant.
LEMMA AttentionNextInv == AttentionInv /\ [AttentionNext]_attnVars => AttentionInv'
<1> SUFFICES ASSUME AttentionInv, [AttentionNext]_attnVars PROVE AttentionInv'
  OBVIOUS
<1>0. /\ raises \in [Raises -> RaiseRecs] /\ rows \in [Raises -> {"none", "pending", "acked"}]
      /\ batch \in [Polls -> {NoRaise} \cup SUBSET Raises]
      /\ since \in [Polls -> 0..MaxTime] /\ cursor \in 0..MaxTime
      /\ shown \in SUBSET Raises /\ seen \in SUBSET Raises /\ acking \in Raises \cup {NoRaise}
  BY DEF AttentionInv, AttentionTypeOK, Known, RaiseRecs, HandlerSteps
<1>1. ASSUME NEW r \in Raises, Raised(r) \/ RaiseSteps(r) PROVE AttentionInv'
  BY <1>1, RaiseStepInv
<1>2. CASE LockExpires \/ NewToken \/ RegistersToken \/ Ticks
  <2>1. UNCHANGED <<reported, windows, raises, rows, acks, client>>
    BY <1>2 DEF LockExpires, NewToken, RegistersToken, Ticks
  <2>2. lock' \in BOOLEAN
    BY <1>2 DEF LockExpires, NewToken, RegistersToken, Ticks, AttentionInv, AttentionTypeOK
  <2>3. /\ clock' \in 1..MaxTime /\ token' \in 0..MaxTokens /\ made' \in 0..MaxTokens
        /\ token' <= made'
    BY <1>2, AttentionAssumption
       DEF LockExpires, NewToken, RegistersToken, Ticks, AttentionInv, AttentionTypeOK
  <2>4. AttentionTypeOK'
    BY <2>1, <2>2, <2>3 DEF AttentionInv, AttentionTypeOK, client
  <2>5. Windows'
    BY <2>1, WindowsStand DEF AttentionInv
  <2> QED
    BY <2>1, <2>4, <2>5 DEF AttentionInv, RowsOK, Known, GoneMeansAcked, client
<1>3. ASSUME NEW r \in Raises, AckClicked(r) PROVE AttentionInv'
  <2>1. /\ UNCHANGED <<clock, reported, lock, windows, raises, rows, acks, token, made,
                       cursor, batch, since, reached, seen>>
        /\ r \in shown /\ shown' = shown \ {r} /\ acking' = r /\ acking = NoRaise
    BY <1>3 DEF AckClicked
  <2>2. AttentionTypeOK'
    BY <1>0, <2>1 DEF AttentionInv, AttentionTypeOK
  <2>3. Windows'
    BY <2>1, WindowsStand DEF AttentionInv
  <2>4. Known' /\ RowsOK'
    BY <1>0, <2>1 DEF AttentionInv, Known, RowsOK
  <2>5. GoneMeansAcked'
    BY <1>0, <2>1, AttentionAssumption DEF AttentionInv, GoneMeansAcked
  <2> QED  BY <2>2, <2>3, <2>4, <2>5 DEF AttentionInv
<1>4. ASSUME NEW r \in Raises, OtherAcks(r) PROVE AttentionInv'
  <2>1. /\ rows' \in [Raises -> {"none", "pending", "acked"}] /\ acks' \in [Raises -> 0..1]
        /\ \A q \in Raises : /\ rows'[q] # "none" <=> rows[q] # "none"
                             /\ rows[q] = "acked" => rows'[q] = "acked"
                             /\ rows'[q] # "acked" => acks'[q] = 0
        /\ UNCHANGED <<clock, reported, lock, windows, raises, token, made>>
    BY <1>4, AckedRows DEF OtherAcks
  <2>2. UNCHANGED client
    BY <1>4 DEF OtherAcks
  <2>3. AttentionTypeOK'
    BY <2>1, <2>2 DEF AttentionInv, AttentionTypeOK, client
  <2>4. Windows'
    BY <2>1, WindowsStand DEF AttentionInv
  <2>5. RowsOK'
    BY <2>1 DEF AttentionInv, RowsOK
  <2>6. Known' /\ GoneMeansAcked'
    BY <1>0, <2>1, <2>2 DEF AttentionInv, Known, GoneMeansAcked, client
  <2> QED  BY <2>3, <2>4, <2>5, <2>6 DEF AttentionInv
<1>5. CASE AckReturns
  <2>1. /\ acking \in Raises /\ acking' = NoRaise /\ UNCHANGED <<cursor, batch, since, reached, seen>>
        /\ rows[acking] # "none"
    BY <1>0, <1>5 DEF AckReturns, AttentionInv, Known
  <2>2. \/ shown' = shown /\ Acked(acking)
        \/ shown' = shown \cup {acking}
    BY <1>5 DEF AckReturns, FailedReturns
  <2>3. \/ Acked(acking)
        \/ UNCHANGED <<clock, reported, lock, windows, raises, rows, acks, token, made>>
    BY <1>5 DEF AckReturns
  <2>4. /\ rows' \in [Raises -> {"none", "pending", "acked"}] /\ acks' \in [Raises -> 0..1]
        /\ \A q \in Raises : /\ rows'[q] # "none" <=> rows[q] # "none"
                             /\ rows[q] = "acked" => rows'[q] = "acked"
                             /\ rows'[q] # "acked" => acks'[q] = 0
        /\ UNCHANGED <<clock, reported, lock, windows, raises, token, made>>
        /\ Acked(acking) => rows'[acking] = "acked"
    <3>1. CASE Acked(acking)
      BY <2>1, <3>1, AckedRows
    <3>2. CASE ~Acked(acking)
      BY <1>0, <2>3, <3>2 DEF AttentionInv, AttentionTypeOK, RowsOK
    <3> QED  BY <3>1, <3>2
  <2>5. AttentionTypeOK'
    BY <1>0, <2>1, <2>2, <2>4 DEF AttentionInv, AttentionTypeOK
  <2>6. Windows'
    BY <2>4, WindowsStand DEF AttentionInv
  <2>7. RowsOK'
    BY <2>4 DEF AttentionInv, RowsOK
  <2>8. Known'
    BY <1>0, <2>1, <2>2, <2>4 DEF AttentionInv, Known
  <2>9. GoneMeansAcked'
    <3> SUFFICES ASSUME NEW q \in seen', q \notin shown' PROVE rows'[q] = "acked"
      BY DEF GoneMeansAcked
    <3>1. q \in seen \ shown /\ q \in Raises
      BY <1>0, <2>1, <2>2
    <3>2. CASE q = acking
      BY <2>2, <2>4, <3>2
    <3>3. CASE q # acking
      BY <2>4, <3>1, <3>3 DEF AttentionInv, GoneMeansAcked
    <3> QED  BY <3>2, <3>3
  <2> QED  BY <2>5, <2>6, <2>7, <2>8, <2>9 DEF AttentionInv
<1>6. ASSUME NEW p \in Polls, Asks(p) PROVE AttentionInv'
  <2>1. /\ UNCHANGED <<clock, reported, lock, windows, raises, rows, acks, token, made,
                       cursor, shown, reached, seen, acking>>
        /\ since' = [since EXCEPT ![p] = cursor]
    BY <1>6 DEF Asks
  <2>2. PICK list \in SUBSET Listed(cursor) : batch' = [batch EXCEPT ![p] = list]
    BY <1>6 DEF Asks, Pages
  <2>3. list \in SUBSET Raises /\ \A r \in list : rows[r] = "pending"
    BY <2>2 DEF Listed
  <2>4. /\ batch' \in [Polls -> {NoRaise} \cup SUBSET Raises]
        /\ \A q \in Polls : batch'[q] = IF q = p THEN list ELSE batch[q]
        /\ since' \in [Polls -> 0..MaxTime]
    BY <1>0, <2>1, <2>2, <2>3
  <2>5. AttentionTypeOK'
    BY <2>1, <2>4 DEF AttentionInv, AttentionTypeOK
  <2>6. Known'
    BY <2>1, <2>3, <2>4 DEF AttentionInv, Known
  <2>7. Windows'
    BY <2>1, WindowsStand DEF AttentionInv
  <2> QED
    BY <2>1, <2>5, <2>6, <2>7 DEF AttentionInv, RowsOK, GoneMeansAcked
<1>7. ASSUME NEW p \in Polls, Merges(p) \/ PollFails(p) PROVE AttentionInv'
  <2>1. /\ UNCHANGED <<clock, reported, lock, windows, raises, rows, acks, token, made, acking>>
        /\ batch' = [batch EXCEPT ![p] = NoRaise] /\ since' = [since EXCEPT ![p] = 0]
        /\ batch[p] \in SUBSET Raises /\ batch[p] # NoRaise
    BY <1>0, <1>7 DEF Merges, PollFails, Answered
  <2>2. /\ batch' \in [Polls -> {NoRaise} \cup SUBSET Raises]
        /\ \A q \in Polls : batch'[q] = IF q = p THEN NoRaise ELSE batch[q]
    BY <1>0, <2>1
  <2>3. since' \in [Polls -> 0..MaxTime]
    BY <1>0, <2>1, AttentionAssumption
  <2>4. \/ UNCHANGED <<shown, seen>>
        \/ shown' = shown \cup batch[p] /\ seen' = seen \cup batch[p]
    BY <1>7 DEF Merges, PollFails
  <2>5. cursor' \in 0..MaxTime /\ reached' \in cursor'..MaxTime
    <3>1. reached \in cursor..MaxTime
      BY DEF AttentionInv, AttentionTypeOK
    <3>2. cursor' \in 0..MaxTime
      BY <1>0, <1>7, <2>1, LatestRead DEF Merges, PollFails
    <3>3. CASE UNCHANGED <<cursor, reached>>
      BY <3>1, <3>2, <3>3
    <3>4. CASE reached' = Max({reached, cursor'})
      <4>0. reached \in Int /\ cursor' \in Int
        BY <1>0, <3>1, <3>2, AttentionAssumption
      <4>1. reached' \in {reached, cursor'} /\ reached' >= cursor'
        BY <3>4, <4>0, Later
      <4> QED  BY <1>0, <3>1, <3>2, <4>1, AttentionAssumption
    <3> QED  BY <1>7, <3>3, <3>4 DEF Merges, PollFails
  <2>6. AttentionTypeOK'
    BY <1>0, <2>1, <2>2, <2>3, <2>4, <2>5 DEF AttentionInv, AttentionTypeOK
  <2>7. Known' /\ GoneMeansAcked'
    BY <1>0, <2>1, <2>2, <2>4 DEF AttentionInv, Known, GoneMeansAcked
  <2>8. Windows'
    BY <2>1, WindowsStand DEF AttentionInv
  <2> QED
    BY <2>1, <2>6, <2>7, <2>8 DEF AttentionInv, RowsOK
<1>8. CASE UNCHANGED attnVars
  <2>1. Windows'
    BY <1>8, WindowsStand DEF attnVars, AttentionInv
  <2> QED
    BY <1>8, <2>1 DEF attnVars, AttentionInv, AttentionTypeOK, RowsOK, Known, GoneMeansAcked
<1> QED
  BY <1>1, <1>2, <1>3, <1>4, <1>5, <1>6, <1>7, <1>8 DEF AttentionNext

\* However the raises interleave with the expiry of the suppression key, there are
\* no more rows than windows; and what leaves the inbox was acknowledged.
THEOREM AttentionHolds == AttentionSpec => []AttentionSafe
<1>1. AttentionInv => AttentionSafe
  <2> SUFFICES ASSUME AttentionInv PROVE OneRowPerWindow
    BY DEF AttentionInv, AttentionSafe
  <2> DEFINE filled == {r \in Raises : rows[r] # "none"}
  <2>1. filled \subseteq Holding /\ Holding \subseteq Raises
    BY DEF Holding
  <2> HIDE DEF filled
  <2>2. IsFiniteSet(Holding)
    BY <2>1, AttentionAssumption, FS_Subset
  <2>3. Cardinality(filled) <= Cardinality(Holding) /\ IsFiniteSet(filled)
    BY <2>1, <2>2, FS_Subset
  <2>4. Cardinality(filled) \in Nat /\ Cardinality(Holding) \in Nat
    BY <2>2, <2>3, FS_CardinalityType
  <2>5. Cardinality(Holding) <= windows /\ windows \in Int
    BY DEF AttentionInv, Windows, AttentionTypeOK
  <2>6. Cardinality(filled) <= windows
    BY <2>3, <2>4, <2>5
  <2> QED  BY <2>6 DEF OneRowPerWindow, filled
<1> QED
  BY <1>1, AttentionInitInv, AttentionNextInv, PTL DEF AttentionSpec

\* What the inbox was given lies behind the furthest its cursor has been.
Paged == \A r \in seen : raises[r].at <= reached

\* Whatever is raised, stamped or acknowledged between the polls of an inbox, and
\* however its polls overlap, one that asks from the furthest the cursor has been is
\* given nothing again; one that asks from a cursor put back is given again what
\* lies between the two at most.
THEOREM NothingRedelivered == AttentionSpec => NeverRedelivered
<1>1. AttentionInit => Paged
  BY DEF AttentionInit, Paged
<1>2. ASSUME AttentionInv, Paged, [AttentionNext]_attnVars PROVE Paged'
  <2>0. /\ raises \in [Raises -> RaiseRecs] /\ batch \in [Polls -> {NoRaise} \cup SUBSET Raises]
        /\ since \in [Polls -> 0..MaxTime] /\ cursor \in 0..MaxTime /\ seen \in SUBSET Raises
        /\ reached \in cursor..MaxTime
        /\ \A r \in seen : raises[r].pc \in {"devices", "send", "dead", "done"}
    BY <1>2 DEF AttentionInv, AttentionTypeOK, Known, RowsOK, RaiseRecs, HandlerSteps
  <2>1. ASSUME \A r \in seen : raises'[r].at = raises[r].at,
               UNCHANGED <<reached, seen>>
        PROVE  Paged'
    BY <1>2, <2>1 DEF Paged
  <2>2. ASSUME NEW r \in Raises, Raised(r) \/ RaiseSteps(r) PROVE Paged'
    <3>1. UNCHANGED <<reached, seen>>
      BY <2>2 DEF Raised, RaiseSteps, Binds, Claims, Stamps, Inserts, LoadsDevices, Sends,
                  Heals, client
    <3>2. CASE Stamps(r)
      <4>1. r \notin seen /\ raises' = [raises EXCEPT ![r].pc = "insert", ![r].at = clock]
        BY <2>0, <3>2 DEF Stamps
      <4>2. \A q \in seen : raises'[q] = raises[q]
        BY <2>0, <4>1
      <4> QED  BY <2>1, <3>1, <4>2
    <3>3. CASE LoadsDevices(r)
      <4>1. PICK to : raises' = [raises EXCEPT ![r].pc = to, ![r].tok = token]
        BY <3>3 DEF LoadsDevices
      <4>2. \A q \in seen : raises'[q].at = raises[q].at
        BY <2>0, <4>1 DEF RaiseRecs
      <4> QED  BY <2>1, <3>1, <4>2
    <3>4. CASE ~Stamps(r) /\ ~LoadsDevices(r)
      <4>1. PICK to : raises' = [raises EXCEPT ![r].pc = to]
        BY <2>2, <3>4 DEF Raised, RaiseSteps, Binds, Claims, Inserts, Sends, Heals
      <4>2. \A q \in seen : raises'[q].at = raises[q].at
        BY <2>0, <4>1 DEF RaiseRecs
      <4> QED  BY <2>1, <3>1, <4>2
    <3> QED  BY <3>2, <3>3, <3>4
  <2>3. CASE \/ LockExpires \/ NewToken \/ RegistersToken \/ Ticks \/ AckReturns
             \/ \E r \in Raises : AckClicked(r) \/ OtherAcks(r)
             \/ UNCHANGED attnVars
    <3>1. raises' = raises /\ UNCHANGED <<reached, seen>>
      BY <2>3 DEF LockExpires, NewToken, RegistersToken, Ticks, AckReturns, AckClicked,
                  OtherAcks, Acked, client, attnVars
    <3> QED  BY <2>1, <3>1
  <2>4. ASSUME NEW p \in Polls, Asks(p) \/ PollFails(p) PROVE Paged'
    <3>1. raises' = raises /\ UNCHANGED <<reached, seen>>
      BY <2>4 DEF Asks, PollFails, Answered
    <3> QED  BY <2>1, <3>1
  <2>5. ASSUME NEW p \in Polls, Merges(p) PROVE Paged'
    <3>1. /\ raises' = raises /\ batch[p] \in SUBSET Raises
          /\ seen' = seen \cup batch[p] /\ reached' = Max({reached, cursor'})
          /\ cursor' = IF batch[p] = {} THEN cursor ELSE Advanced(p)
      BY <2>0, <2>5 DEF Merges, Answered
    <3>2. /\ Advanced(p) \in 0..MaxTime
          /\ \A r \in batch[p] : Advanced(p) >= raises[r].at
      BY <2>0, <3>1, LatestRead
    <3>3. cursor' \in Int /\ reached \in Int /\ \A r \in Raises : raises[r].at \in Int
      BY <2>0, <3>1, <3>2, AttentionAssumption DEF RaiseRecs
    <3>4. reached' \in Int /\ reached' >= reached /\ reached' >= cursor'
      BY <3>1, <3>3, Later
    <3>5. ASSUME NEW r \in seen' PROVE raises'[r].at <= reached'
      <4>1. CASE r \in batch[p]
        <5>1. raises[r].at <= cursor' /\ r \in Raises
          BY <3>1, <3>2, <3>3, <4>1
        <5> QED  BY <3>1, <3>3, <3>4, <5>1
      <4>2. CASE r \in seen
        <5>1. raises[r].at <= reached /\ r \in Raises
          BY <1>2, <2>0, <4>2 DEF Paged
        <5> QED  BY <3>1, <3>3, <3>4, <5>1
      <4> QED  BY <3>1, <3>5, <4>1, <4>2
    <3> QED  BY <3>5 DEF Paged
  <2> QED
    BY <1>2, <2>2, <2>3, <2>4, <2>5 DEF AttentionNext
<1> DEFINE New == \A p \in Polls : batch[p] = NoRaise /\ batch'[p] # NoRaise =>
                    \A r \in batch'[p] \cap seen :
                       cursor < raises[r].at /\ raises[r].at <= reached
<1>3. ASSUME AttentionInv, Paged, [AttentionNext]_attnVars PROVE [New]_attnVars
  <2> SUFFICES ASSUME AttentionNext, NEW p \in Polls, batch[p] = NoRaise, batch'[p] # NoRaise
               PROVE  \A r \in batch'[p] \cap seen :
                        cursor < raises[r].at /\ raises[r].at <= reached
    BY <1>3
  <2>0. /\ batch \in [Polls -> {NoRaise} \cup SUBSET Raises] /\ cursor \in 0..MaxTime
        /\ seen \in SUBSET Raises /\ raises \in [Raises -> RaiseRecs]
    BY <1>3 DEF AttentionInv, AttentionTypeOK, Known, RaiseRecs, HandlerSteps
  <2>1. Asks(p)
    <3>1. batch' # batch
      OBVIOUS
    <3>2. \E q \in Polls : Asks(q) \/ Merges(q) \/ PollFails(q)
      BY <3>1 DEF AttentionNext, Raised, RaiseSteps, Binds, Claims, Stamps, Inserts,
         LoadsDevices, Sends, Heals, LockExpires, NewToken, RegistersToken, Ticks,
         AckReturns, AckClicked, OtherAcks, Acked, client
    <3>3. ASSUME NEW q \in Polls, Merges(q) \/ PollFails(q) PROVE FALSE
      BY <2>0, <3>3 DEF Merges, PollFails, Answered
    <3>4. ASSUME NEW q \in Polls, Asks(q), q # p PROVE FALSE
      BY <2>0, <3>4 DEF Asks
    <3> QED  BY <3>2, <3>3, <3>4
  <2>2. PICK page \in SUBSET Listed(cursor) : batch' = [batch EXCEPT ![p] = page]
    BY <2>1 DEF Asks, Pages
  <2>3. batch'[p] \subseteq Listed(cursor)
    BY <2>0, <2>2
  <2>4. \A r \in Listed(cursor) : cursor < raises[r].at
    BY <2>0 DEF Listed, RaiseRecs
  <2> QED
    BY <1>3, <2>3, <2>4 DEF Paged
<1>4. AttentionInv /\ Paged /\ [AttentionNext]_attnVars
         => AttentionInv' /\ Paged' /\ [New]_attnVars
  BY <1>2, <1>3, AttentionNextInv
<1> QED
  BY <1>1, <1>4, AttentionInitInv, PTL DEF AttentionSpec, NeverRedelivered

-----------------------------------------------------------------------------
(* The four together. *)

ControlInv == AuthInv /\ AttentionInv /\ IInv /\ TenancyInv

\* The control plane's four parts stay in their types, whatever the calls, raises,
\* requests and organisations; among the types, that no more suppression windows
\* were opened than events were raised, and that a person's primary organisation
\* has a row.
THEOREM ControlTypes == MCSpec => []MCTypeOK
<1>1. MCInit => ControlInv
  BY InitAuthInv, AttentionInitInv, InitInv, TenancyInitInv DEF MCInit, ControlInv
<1>2. ControlInv /\ [MCNext]_MCVars => ControlInv'
  <2> SUFFICES ASSUME ControlInv, [MCNext]_MCVars PROVE ControlInv'
    OBVIOUS
  <2>1. /\ [Next]_vars /\ [AttentionNext]_attnVars
        /\ [PlaneNext]_dbVars /\ [TenancyNext]_tenancyVars
    BY DEF MCNext, MCVars, authVars
  <2> QED
    BY <2>1, NextAuthInv, AttentionNextInv, NextInv, TenancyNextInv DEF ControlInv
<1>3. ControlInv => MCTypeOK
  BY DEF ControlInv, MCTypeOK, AuthInv, AttentionInv, IInv, TenancyInv
<1> QED
  BY <1>1, <1>2, <1>3, PTL DEF MCSpec
=============================================================================
