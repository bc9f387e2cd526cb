------------------------------- MODULE CliAuth -------------------------------
(***************************************************************************)
(* One CLI-auth request of the control plane                               *)
(* (apps/control-plane/src/services/cli-auth.ts): `pherry dock' starts it, *)
(* signed-in humans approve it in a browser, the CLI exchanges its secret  *)
(* for a token.  All state is in Redis and shared by every replica of the  *)
(* API, so a call is a sequence of single Redis commands and calls         *)
(* interleave between any two of them.  A replica may die inside a call.   *)
(*                                                                         *)
(* Requests share no key, so one is enough.  callback says which of the    *)
(* two flows it uses: the loopback redirect, whose one-time code the       *)
(* exchange must present, or the headless flow, whose user code the        *)
(* approval must present.                                                  *)
(***************************************************************************)
EXTENDS Integers, FiniteSets

CONSTANTS
    Approvals,          \* calls of approveCliAuth, each by a human of its own
    Exchanges,          \* calls of exchangeCliAuth (a pending one may poll on)
    MaxApproveAttempts, \* MAX_APPROVE_ATTEMPTS
    None

ASSUME CallsAssumption ==
    /\ Approvals \cap Exchanges = {}
    /\ None \notin Approvals \cup Exchanges
ASSUME AttemptsAssumption == MaxApproveAttempts \in Nat \ {0}

VARIABLES
    callback,  \* cliauth:req: the request registered a loopback callback
    request,   \* cliauth:req exists
    grant,     \* cliauth:grant: the approval that wrote it, or None
    attempts,  \* cliauth:approve-attempts
    tokens,    \* cliauth:tok: the tokens minted, with the grant behind each
    approval,  \* where each approve call stands
    exchange,  \* where each exchange call stands
    held       \* the grant an exchange has taken out of Redis

redis == <<request, grant, attempts, tokens>>
vars == <<callback, redis, approval, exchange, held>>

ApprovalStates == {"idle", "loaded", "wrong", "locked", "approved", "refused"}
ExchangeStates == {"idle", "loaded", "taken", "minted", "ok", "refused"}

TypeOK ==
    /\ callback \in BOOLEAN
    /\ request \in BOOLEAN
    /\ grant \in Approvals \cup {None}
    /\ attempts \in Nat
    /\ tokens \subseteq [by : Exchanges, grant : Approvals]
    /\ approval \in [Approvals -> ApprovalStates]
    /\ exchange \in [Exchanges -> ExchangeStates]
    /\ held \in [Exchanges -> Approvals \cup {None}]

\* startCliAuth has just stored the pending record.
Init ==
    /\ callback \in BOOLEAN
    /\ request = TRUE
    /\ grant = None
    /\ attempts = 0
    /\ tokens = {}
    /\ approval = [a \in Approvals |-> "idle"]
    /\ exchange = [e \in Exchanges |-> "idle"]
    /\ held = [e \in Exchanges |-> None]

-----------------------------------------------------------------------------
(* approveCliAuth. *)

ApprovalGoes(a, s) == approval' = [approval EXCEPT ![a] = s]

\* loadRequest: GET the pending record; unknown or expired is refused.
ApproveLoads(a) ==
    /\ approval[a] = "idle"
    /\ ApprovalGoes(a, IF request THEN "loaded" ELSE "refused")
    /\ UNCHANGED <<callback, redis, exchange, held>>

\* The headless user code is missing or wrong: the attempts key is created
\* with NX, which leaves an existing count alone.
ApproveWrongCode(a) ==
    /\ approval[a] = "loaded"
    /\ ~callback
    /\ ApprovalGoes(a, "wrong")
    /\ UNCHANGED <<callback, redis, exchange, held>>

\* INCR the count; the call that exhausts the budget goes on to the DEL.
ApproveCounts(a) ==
    /\ approval[a] = "wrong"
    /\ attempts' = attempts + 1
    /\ ApprovalGoes(a, IF attempts' >= MaxApproveAttempts THEN "locked"
                                                          ELSE "refused")
    /\ UNCHANGED <<callback, request, grant, tokens, exchange, held>>

\* DEL the request: the budget is spent.
ApproveLocksOut(a) ==
    /\ approval[a] = "locked"
    /\ request' = FALSE
    /\ ApprovalGoes(a, "refused")
    /\ UNCHANGED <<callback, grant, attempts, tokens, exchange, held>>

\* Mutation: the SET is made without NX.
ApproveOverwrites(a) ==
    /\ approval[a] = "loaded"
    /\ grant' = a
    /\ ApprovalGoes(a, IF grant = None THEN "approved" ELSE "refused")
    /\ UNCHANGED <<callback, request, attempts, tokens, exchange, held>>

\* The code, if one is asked for, is right: SET the grant with NX; the loser of
\* the race is refused.  With a callback the grant holds the hash of a one-time
\* code of its own, known by the approval that minted it.
ApproveGrants(a) ==
    /\ approval[a] = "loaded"
    /\ \/ /\ grant = None
          /\ grant' = a
          /\ ApprovalGoes(a, "approved")
       \/ /\ grant # None
          /\ ApprovalGoes(a, "refused")
          /\ UNCHANGED grant
    /\ UNCHANGED <<callback, request, attempts, tokens, exchange, held>>

-----------------------------------------------------------------------------
(* exchangeCliAuth. *)

ExchangeGoes(e, s) == exchange' = [exchange EXCEPT ![e] = s]

\* loadRequest, then the secret: a request that is gone, or a wrong secret, is
\* refused before the grant is touched.
ExchangeLoads(e) ==
    /\ exchange[e] = "idle"
    /\ \/ request /\ ExchangeGoes(e, "loaded")
       \/ ExchangeGoes(e, "refused")
    /\ UNCHANGED <<callback, redis, approval, held>>

\* GETDEL finds no grant: `pending', and the CLI will poll again.
ExchangePending(e) ==
    /\ exchange[e] = "loaded"
    /\ grant = None
    /\ ExchangeGoes(e, "idle")
    /\ UNCHANGED <<callback, redis, approval, held>>

\* Mutation: the grant is read with GET.
ExchangeReads(e) ==
    /\ exchange[e] = "loaded"
    /\ grant # None
    /\ held' = [held EXCEPT ![e] = grant]
    /\ UNCHANGED grant
    /\ ExchangeGoes(e, "taken")
    /\ UNCHANGED <<callback, request, attempts, tokens, approval>>

\* GETDEL takes the grant, and the code the CLI was redirected with is that
\* grant's; the headless flow has no code.
ExchangeTakes(e) ==
    /\ exchange[e] = "loaded"
    /\ grant # None
    /\ held' = [held EXCEPT ![e] = grant]
    /\ grant' = None
    /\ ExchangeGoes(e, "taken")
    /\ UNCHANGED <<callback, request, attempts, tokens, approval>>

\* GETDEL takes the grant and the code is missing or wrong: it stays burned.
ExchangeBurns(e) ==
    /\ exchange[e] = "loaded"
    /\ grant # None
    /\ callback
    /\ grant' = None
    /\ ExchangeGoes(e, "refused")
    /\ UNCHANGED <<callback, request, attempts, tokens, approval, held>>

\* SET the token, for the human of the grant.
ExchangeMints(e) ==
    /\ exchange[e] = "taken"
    /\ tokens' = tokens \cup {[by |-> e, grant |-> held[e]]}
    /\ ExchangeGoes(e, "minted")
    /\ UNCHANGED <<callback, request, grant, attempts, approval, held>>

\* DEL the request and answer `ok'.
ExchangeRetires(e) ==
    /\ exchange[e] = "minted"
    /\ request' = FALSE
    /\ ExchangeGoes(e, "ok")
    /\ UNCHANGED <<callback, grant, attempts, tokens, approval, held>>

-----------------------------------------------------------------------------
(* Time and failure. *)

\* The TTL of the request runs out.
RequestExpires ==
    /\ request
    /\ request' = FALSE
    /\ UNCHANGED <<callback, grant, attempts, tokens>>
    /\ UNCHANGED <<approval, exchange, held>>

\* The TTL of the grant runs out: it was the rest of the request's when the
\* approval loaded that, so it ends no sooner.
GrantExpires ==
    /\ grant # None
    /\ ~request
    /\ grant' = None
    /\ UNCHANGED <<callback, request, attempts, tokens>>
    /\ UNCHANGED <<approval, exchange, held>>

\* The replica serving a call dies, or loses Redis, between two commands.
ApprovalDies(a) ==
    /\ approval[a] \in {"loaded", "wrong", "locked"}
    /\ ApprovalGoes(a, "refused")
    /\ UNCHANGED <<callback, redis, exchange, held>>

ExchangeDies(e) ==
    /\ exchange[e] \in {"loaded", "taken", "minted"}
    /\ ExchangeGoes(e, "refused")
    /\ UNCHANGED <<callback, redis, approval, held>>

ExchangeStep(e) ==
    \/ ExchangeLoads(e)
    \/ ExchangePending(e)
    \/ ExchangeTakes(e)
    \/ ExchangeBurns(e)
    \/ ExchangeMints(e)
    \/ ExchangeRetires(e)

Next ==
    \/ \E a \in Approvals :
         \/ ApproveLoads(a)
         \/ ApproveWrongCode(a)
         \/ ApproveCounts(a)
         \/ ApproveLocksOut(a)
         \/ ApproveGrants(a)
         \/ ApprovalDies(a)
    \/ \E e \in Exchanges : ExchangeStep(e) \/ ExchangeDies(e)
    \/ RequestExpires
    \/ GrantExpires

Spec == Init /\ [][Next]_vars

-----------------------------------------------------------------------------
(* Properties. *)

\* Every approval is worth at most one token: two exchanges that saw the same
\* grant never both mint, whatever replica serves them.
GrantMintsOnce ==
    \A x, y \in tokens : x.grant = y.grant => x = y

\* A token was minted for a human whose own approval wrote the grant: never for one
\* that gave the wrong user code or lost the NX race.  That write is what "approved"
\* says: an answer that the replica dies before sending is not told apart.
TokenWasApproved ==
    \A x \in tokens : approval[x.grant] = "approved"

\* cli-auth.ts on the key layout: the exchange succeeds at most once.
ExchangeAtMostOnce == Cardinality(tokens) <= 1
=============================================================================
