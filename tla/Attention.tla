------------------------------ MODULE Attention ------------------------------
(***************************************************************************)
(* The attention plane: a host raises an event, through the daemon's hook  *)
(* or `pherry attention raise`; the control plane binds it to a session,   *)
(* debounces it, stores it and fans it out to the org's phones; a          *)
(* controller polls the pending queue with a cursor and acknowledges       *)
(* (control-plane services/attention.ts, attention-channels.ts, routers/   *)
(* attention.ts, routers/device.ts, push.ts, adapters/apns.ts; cli         *)
(* commands/attention.ts and serve.ts; dashboard views/Attention.tsx).     *)
(*                                                                         *)
(* One session and kind, one phone, one inbox.  Each await of a handler is *)
(* a place where the others may run.                                       *)
(***************************************************************************)
EXTENDS Integers, FiniteSets, FiniteSetsExt

CONSTANTS
    Raises,     \* the raises
    MaxTime,    \* bound: the plane's clock
    MaxTokens,  \* bound: push tokens the phone registers
    Polls,      \* polls of the inbox that may be under way at once: the interval
                \* asks again whether or not the last one was answered
    ListCap,    \* LIST_CAP, the most events of one answer
    NoRaise

ASSUME AttentionAssumption ==
    /\ IsFiniteSet(Raises) /\ MaxTime \in Nat \ {0} /\ MaxTokens \in Nat
    /\ ListCap \in Nat \ {0}
    /\ NoRaise \notin Raises /\ \A s \in SUBSET Raises : NoRaise # s

VARIABLES
    clock,
    reported,   \* whether a heartbeat has reported the session
    lock,       \* the suppression key of this session and kind, in Redis
    windows,    \* suppression windows opened
    raises,     \* the handlers: their step, the time read, the token read
    rows,       \* the attention_events rows: none, pending, acked
    acks,       \* acknowledgements that were told ok, per row
    token,      \* the phone's push token in its row; 0 for none
    made,       \* push tokens made for the phone; the last one is the live one
    cursor,     \* the inbox: its cursor, the answers to its polls and the cursor
    batch,      \* each was sent with, what it shows
    since,
    shown,
    reached,    \* history: the furthest the cursor has been
    seen,       \* what a poll has ever delivered
    acking      \* the row whose ack is under way, removed from view meanwhile

attnVars == <<clock, reported, lock, windows, raises, rows, acks, token, made,
              cursor, batch, since, shown, reached, seen, acking>>

NotRaised == [pc |-> "idle", at |-> 0, tok |-> 0]

AttentionTypeOK ==
    /\ clock \in 1..MaxTime /\ reported \in BOOLEAN /\ lock \in BOOLEAN
    /\ windows \in 0..Cardinality(Raises)
    /\ raises \in [Raises -> [pc : {"idle", "bind", "claim", "stamp", "insert", "devices",
                                    "send", "dead", "done"},
                              at : 0..MaxTime, tok : 0..MaxTokens]]
    /\ rows \in [Raises -> {"none", "pending", "acked"}]
    /\ acks \in [Raises -> 0..1]
    /\ token \in 0..MaxTokens /\ made \in 0..MaxTokens /\ token <= made
    /\ cursor \in 0..MaxTime /\ reached \in cursor..MaxTime /\ since \in [Polls -> 0..MaxTime]
    /\ \A p \in Polls : batch[p] = NoRaise \/ batch[p] \in SUBSET Raises
    /\ shown \in SUBSET Raises /\ seen \in SUBSET Raises
    /\ acking \in Raises \cup {NoRaise}

AttentionInit ==
    /\ clock = 1 /\ reported = FALSE /\ lock = FALSE /\ windows = 0
    /\ raises = [r \in Raises |-> NotRaised]
    /\ rows = [r \in Raises |-> "none"] /\ acks = [r \in Raises |-> 0]
    /\ token = 0 /\ made = 0
    /\ cursor = 0 /\ batch = [p \in Polls |-> NoRaise] /\ since = [p \in Polls |-> 0]
    /\ reached = 0 /\ shown = {} /\ seen = {} /\ acking = NoRaise

client == <<cursor, batch, since, shown, reached, seen, acking>>

-----------------------------------------------------------------------------
(* Raising. *)

\* handleHookRequest, runAttentionRaise: the session is heartbeaten first, so
\* that its row exists, and then the event is raised.  Some other caller of the
\* route may not have.
Raised(r) ==
    /\ raises[r] = NotRaised
    /\ raises' = [raises EXCEPT ![r].pc = "bind"]
    /\ reported' \in {reported, TRUE}
    /\ UNCHANGED <<clock, lock, windows, rows, acks, token, made, client>>

\* A host or an org over its budget is a 429, an unknown session a 404.
Binds(r) ==
    /\ raises[r].pc = "bind"
    /\ \/ reported /\ raises' = [raises EXCEPT ![r].pc = "claim"]
       \/ raises' = [raises EXCEPT ![r].pc = "done"]
    /\ UNCHANGED <<clock, reported, lock, windows, rows, acks, token, made, client>>

\* Mutation: the key is set whether or not it is there.
ClaimsAlways == TRUE

\* SET NX PX: the first raise of a window goes on, the others coalesce.
Wins == ~lock

Claims(r) ==
    /\ raises[r].pc = "claim"
    /\ IF Wins
       THEN /\ lock' = TRUE /\ windows' = windows + IF lock THEN 0 ELSE 1
            /\ raises' = [raises EXCEPT ![r].pc = "stamp"]
       ELSE raises' = [raises EXCEPT ![r].pc = "done"] /\ UNCHANGED <<lock, windows>>
    /\ UNCHANGED <<clock, reported, rows, acks, token, made, client>>

LockExpires ==
    /\ lock /\ lock' = FALSE
    /\ UNCHANGED <<clock, reported, windows, raises, rows, acks, token, made, client>>

\* The row's time is read before the insert is sent.
Stamps(r) ==
    /\ raises[r].pc = "stamp"
    /\ raises' = [raises EXCEPT ![r].pc = "insert", ![r].at = clock]
    /\ UNCHANGED <<clock, reported, lock, windows, rows, acks, token, made, client>>

\* The insert commits, or fails and the raise with it.
Inserts(r) ==
    /\ raises[r].pc = "insert"
    /\ \/ /\ rows' = [rows EXCEPT ![r] = "pending"]
          /\ raises' = [raises EXCEPT ![r].pc = "devices"]
       \/ raises' = [raises EXCEPT ![r].pc = "done"] /\ UNCHANGED rows
    /\ UNCHANGED <<clock, reported, lock, windows, acks, token, made, client>>

\* The org's devices are loaded once; the push and ring channels skip one
\* without a token.
LoadsDevices(r) ==
    /\ raises[r].pc = "devices"
    /\ raises' = [raises EXCEPT ![r].pc = IF token = 0 THEN "done" ELSE "send",
                                ![r].tok = token]
    /\ UNCHANGED <<clock, reported, lock, windows, rows, acks, token, made, client>>

\* makeApnsPushSender: 410, or a 400 that names the token, is a dead one, and
\* only a token that is not the live one is dead; a throw is not.
Outcomes(t) == IF t = made THEN {"done"} ELSE {"done", "dead"}

Sends(r) ==
    /\ raises[r].pc = "send"
    /\ \E o \in Outcomes(raises[r].tok) : raises' = [raises EXCEPT ![r].pc = o]
    /\ UNCHANGED <<clock, reported, lock, windows, rows, acks, token, made, client>>

\* healDelivery clears the device's column.
Heals(r) ==
    /\ raises[r].pc = "dead"
    /\ token' = 0
    /\ raises' = [raises EXCEPT ![r].pc = "done"]
    /\ UNCHANGED <<clock, reported, lock, windows, rows, acks, made, client>>

\* APNs gives the phone a new token; the app registers the live one.
NewToken ==
    /\ made < MaxTokens /\ made' = made + 1
    /\ UNCHANGED <<clock, reported, lock, windows, raises, rows, acks, token, client>>

RegistersToken ==
    /\ made > 0 /\ token # made /\ token' = made
    /\ UNCHANGED <<clock, reported, lock, windows, raises, rows, acks, made, client>>

Ticks ==
    /\ clock < MaxTime /\ clock' = clock + 1
    /\ UNCHANGED <<reported, lock, windows, raises, rows, acks, token, made, client>>

-----------------------------------------------------------------------------
(* The inbox. *)

\* Mutation: the cursor is inclusive.
ListedFrom(c) == {r \in Raises : rows[r] = "pending" /\ raises[r].at >= c}

\* listAttention: pending, and later than the cursor.
Listed(c) == {r \in Raises : rows[r] = "pending" /\ raises[r].at > c}

\* Newest first and cut off at the cap: an older one that is cut off is not
\* listed again once the cursor has passed it.
Pages(c) ==
    {page \in SUBSET Listed(c) :
        /\ Cardinality(page) = Min({ListCap, Cardinality(Listed(c))})
        /\ \A r \in page, q \in Listed(c) \ page : raises[r].at >= raises[q].at}

Asks(p) ==
    /\ batch[p] = NoRaise
    /\ \E page \in Pages(cursor) : batch' = [batch EXCEPT ![p] = page]
    /\ since' = [since EXCEPT ![p] = cursor]
    /\ UNCHANGED <<clock, reported, lock, windows, raises, rows, acks, token, made,
                   cursor, shown, reached, seen, acking>>

\* The latest time in the answer, counted from the cursor it was asked with: where
\* a later poll has been merged meanwhile, that may be back.
Advanced(p) ==
    CHOOSE t \in {since[p]} \cup {raises[r].at : r \in batch[p]} :
        t >= since[p] /\ \A r \in batch[p] : t >= raises[r].at

Answered(p) ==
    /\ batch[p] # NoRaise
    /\ batch' = [batch EXCEPT ![p] = NoRaise] /\ since' = [since EXCEPT ![p] = 0]
    /\ UNCHANGED <<clock, reported, lock, windows, raises, rows, acks, token, made, acking>>

\* The answer is merged by id; an empty one changes nothing.
Merges(p) ==
    /\ Answered(p)
    /\ shown' = shown \cup batch[p] /\ seen' = seen \cup batch[p]
    /\ cursor' = IF batch[p] = {} THEN cursor ELSE Advanced(p)
    /\ reached' = Max({reached, cursor'})

PollFails(p) == Answered(p) /\ UNCHANGED <<shown, reached, seen, cursor>>

\* The inbox removes the row at once and sends the ack.
AckClicked(r) ==
    /\ acking = NoRaise /\ r \in shown
    /\ shown' = shown \ {r} /\ acking' = r
    /\ UNCHANGED <<clock, reported, lock, windows, raises, rows, acks, token, made,
                   cursor, batch, since, reached, seen>>

\* Mutation: the row's acked_at is not looked at.
ClearsAny(r) == rows[r] # "none"

\* ackAttention: one guarded UPDATE.
Clears(r) == rows[r] = "pending"

\* The plane handles an ack, the inbox's or another controller's.
Acked(r) ==
    /\ IF Clears(r)
       THEN rows' = [rows EXCEPT ![r] = "acked"] /\ acks' = [acks EXCEPT ![r] = @ + 1]
       ELSE UNCHANGED <<rows, acks>>
    /\ UNCHANGED <<clock, reported, lock, windows, raises, token, made>>

OtherAcks(r) == rows[r] # "none" /\ Acked(r) /\ UNCHANGED client

\* An ack that failed puts the row back in view.
FailedReturns == shown' = shown \cup {acking}

\* Told ok or 404 it stays gone; a failure, before or after the update.
AckReturns ==
    /\ acking # NoRaise /\ acking' = NoRaise
    /\ \/ Acked(acking) /\ UNCHANGED shown
       \/ Acked(acking) /\ FailedReturns
       \/ /\ FailedReturns
          /\ UNCHANGED <<clock, reported, lock, windows, raises, rows, acks, token, made>>
    /\ UNCHANGED <<cursor, batch, since, reached, seen>>

RaiseSteps(r) ==
    \/ Binds(r) \/ Claims(r) \/ Stamps(r) \/ Inserts(r)
    \/ LoadsDevices(r) \/ Sends(r) \/ Heals(r)

AttentionNext ==
    \/ \E r \in Raises : Raised(r) \/ RaiseSteps(r) \/ AckClicked(r) \/ OtherAcks(r)
    \/ LockExpires \/ NewToken \/ RegistersToken \/ Ticks \/ AckReturns
    \/ \E p \in Polls : Asks(p) \/ Merges(p) \/ PollFails(p)

AttentionSpec == AttentionInit /\ [][AttentionNext]_attnVars

-----------------------------------------------------------------------------

\* A flapping session rings once a window: no more rows than windows, however
\* the raises interleave with the expiry of the key.
OneRowPerWindow == Cardinality({r \in Raises : rows[r] # "none"}) <= windows

\* What the inbox was given and does not show was acknowledged, or is being;
\* an event leaves the view in no other way.
GoneMeansAcked == \A r \in seen \ shown : rows[r] = "acked" \/ acking = r

\* The queue holds no more than was let through, and the inbox drops nothing it
\* was given. (It may never be given an event that was committed, or cut off by the
\* cap, behind its cursor.)
AttentionSafe == OneRowPerWindow /\ GoneMeansAcked

\* A poll is answered with nothing that an earlier one has delivered: "page
\* forward without re-seeing what it has" (services/attention.ts). Polls overlap,
\* and an answer merged after a later poll's may put the cursor back; what is then
\* delivered again lies between the cursor and the furthest it has been, and
\* nothing else ever is.
NeverRedelivered ==
    [][\A p \in Polls : batch[p] = NoRaise /\ batch'[p] # NoRaise =>
         \A r \in batch'[p] \cap seen :
            cursor < raises[r].at /\ raises[r].at <= reached]_attnVars

\* attention-channels.ts: only "a dead token" is cleared; the phone's live token
\* stays in its row.
LiveTokenKept == [][token = made /\ made > 0 => token' # 0]_attnVars
=============================================================================
