---------------------------- MODULE LinkProofs ----------------------------
(***************************************************************************)
(* Proofs about the served connection, for any number of calls and frames, *)
(* any bound of the buffer and wherever either end closes.                 *)
(*                                                                         *)
(* LinkInv relates what each end keeps to what is under way between them:  *)
(* who has been proven to the host (Proven), how far the handshake is      *)
(* (Greeted), the line of requests from #send to dispatch (Lined), the     *)
(* answers owed and the stream (Keeps), and the one operation on a session *)
(* at a time that callers keep to (OneAtATime).  admit() dispatches any    *)
(* number of held requests in one step, so that Keeps is stated of a       *)
(* handler (sink, hooks, answers, calls dispatched) and carried through    *)
(* the requests by induction (AllHandled).                                 *)
(***************************************************************************)
EXTENDS MCSecure, SecureChannelProofs, WellFoundedInduction, TLAPS

-----------------------------------------------------------------------------
(* The inductive invariant. *)

In(x, s) == \E i \in DOMAIN s : s[i] = x

\* Who is served: the greeting, the gate and the capabilities.
Proven ==
    /\ hostUp <=> phase # "dead"
    /\ phase \in {"verifying", "serving"} => peer = "current"
    /\ phase = "verifying" => gate # "none"
    /\ phase = "serving" => gate # "refuses" /\ caps = served \cap asked
    /\ phase \in {"awaiting-hello", "serving"} => held = <<>>
    /\ phase \in {"awaiting-hello", "verifying"} => ran = <<>>
    /\ ran # <<>> => /\ peer = "current" /\ gate # "refuses"
                     /\ caps = served \cap asked

\* Before the handshake is through there is the Hello under way at most; before
\* the host has it, the host has said nothing.
Unspoken == shake = "opening" \/ In(0, toHost)

Greeted ==
    /\ \A i \in DOMAIN toHost : toHost[i] = 0 => Len(toHost) = 1 /\ peer # "legacy"
    /\ Unspoken => toCtl = <<>> /\ phase \in {"awaiting-hello", "dead"}
    /\ phase = "awaiting-hello" => toCtl = <<>>
    /\ shake = "opening" => toHost = <<>>
    /\ shake \in {"opening", "awaiting"} => \A c \in Made : calls[c].st = "gated"
    /\ shake = "negotiated" => ~In(0, toHost)
    /\ shake # "negotiated" =>
         /\ ran = <<>> /\ held = <<>> /\ tracked = 0
         /\ \A i \in DOMAIN toHost : toHost[i] = 0
         /\ \A c \in Made : calls[c].st \in {"gated", "failed"}

\* What was dispatched, what is held and what is under way: the calls let go,
\* in order.
InLine(c) == In(c, ran) \/ In(c, held) \/ In(c, toHost)

Lined ==
    /\ Ascending(ran) /\ Ascending(held) /\ Ascending(toHost)
    /\ \A i \in DOMAIN ran, j \in DOMAIN held : ran[i] < held[j]
    /\ \A i \in DOMAIN ran, j \in DOMAIN toHost : ran[i] < toHost[j]
    /\ \A i \in DOMAIN held, j \in DOMAIN toHost : held[i] < toHost[j]
    /\ \A c \in Ids : InLine(c) => c \in LetGo
    /\ \A c \in Made, d \in Ids : calls[c].st = "gated" /\ InLine(d) => d < c
    /\ \A c \in LetGo, i \in DOMAIN ran : c < ran[i] => In(c, ran)
    /\ hostUp => \A c \in LetGo, d \in Ids : InLine(d) /\ c < d => InLine(c)
    /\ hostUp /\ ctlUp /\ shake = "negotiated" => \A c \in LetGo : InLine(c)
    /\ ctlUp => \A c \in Ids : In(c, held) \/ In(c, toHost) => calls[c].st = "sent"

\* What the host has subscribed, running and answered belongs to what it
\* dispatched: r, with the sink s, the hooks rn and the answers out.
Belongs(s, rn, r) ==
    /\ s # 0 => In(s, r) /\ calls[s].m = "subscribe"
    /\ \A c \in rn : /\ In(c, r) /\ calls[c].m = "claim"
                     /\ ctlUp => calls[c].st = "sent"

Answers(rn, out, r) ==
    /\ \A i \in DOMAIN out : out[i].t = "binary" =>
         In(out[i].id, r) /\ calls[out[i].id].m = "subscribe"
    /\ \A i \in DOMAIN out : out[i].t = "response" =>
         /\ In(out[i].id, r) /\ out[i].id \notin rn
         /\ ctlUp => calls[out[i].id].st = "sent"
         /\ calls[out[i].id].m = "subscribe" => out[i].ok = known
    /\ \A i, j \in DOMAIN out :
         out[i].t = "response" /\ out[j].t = "response" /\ out[i].id = out[j].id => i = j
    /\ \A i, j \in DOMAIN out :
         i < j /\ out[i].t = "binary" /\ out[j].t = "response" => out[i].id # out[j].id

\* While both ends are up, a call that was dispatched and has not settled has
\* its hook running or its answer under way.
Answer(c, out) == \E i \in DOMAIN out : out[i].t = "response" /\ out[i].id = c

Owed(rn, out, r) ==
    \A c \in Made : In(c, r) /\ calls[c].st = "sent" /\ c \notin rn => Answer(c, out)

\* The stream of call x (of none, if 0) stands as the host's sink has it, or
\* the session is over and its end has been or will be read.
LastShot(x) == [t |-> "binary", id |-> x, last |-> TRUE]

InStep(s, out, x) ==
    \/ x = s
    \/ frames > MaxFrames /\ s = 0 /\ (x \in ended \/ In(LastShot(x), out))

Pending(c, m) == Open(c) /\ calls[c].m = m

Subscribing(c, r) == Pending(c, "subscribe") /\ In(c, r) /\ known

Streams(s, out, r) ==
    /\ \A c \in Made : Subscribing(c, r) => InStep(s, out, c)
    /\ \A c \in Made : Pending(c, "unsubscribe") => tracked = 0 /\ (In(c, r) => s = 0)
    /\ \/ InStep(s, out, tracked)
       \/ \E c \in Made : Pending(c, "unsubscribe") \/ Subscribing(c, r)

OneAtATime ==
    /\ ctlUp => \A c, d \in Made :
                  /\ Open(c) /\ calls[c].m \in {"subscribe", "unsubscribe"}
                  /\ Open(d) /\ calls[d].m \in {"subscribe", "unsubscribe"}
                  => c = d
    /\ ClosedOwesNothing
    /\ \A c \in Made : calls[c].m = "unsubscribe" => calls[c].on # 0

Keeps(s, rn, out, r) ==
    /\ Belongs(s, rn, r) /\ Answers(rn, out, r)
    /\ ctlUp /\ hostUp => Owed(rn, out, r) /\ Streams(s, out, r)

LinkInv ==
    /\ LinkTypeOK /\ Len(calls) <= MaxCalls
    /\ Proven /\ Greeted /\ Lined /\ OneAtATime
    /\ Keeps(sink, running, toCtl, ran)

-----------------------------------------------------------------------------
(* Members of sequences. *)

LEMMA AppendIs ==
    ASSUME NEW S, NEW s \in Seq(S), NEW y \in S, NEW o, o = Append(s, y)
    PROVE  /\ o \in Seq(S) /\ Len(s) \in Nat /\ Len(o) = Len(s) + 1
           /\ DOMAIN s = 1..Len(s) /\ DOMAIN o = 1..Len(o) /\ o[Len(s) + 1] = y
           /\ \A i \in DOMAIN s : i \in DOMAIN o /\ o[i] = s[i]
<1>1. o \in Seq(S) /\ Len(s) \in Nat /\ Len(o) = Len(s) + 1
  OBVIOUS
<1>2. DOMAIN s = 1..Len(s) /\ DOMAIN o = 1..Len(o) /\ o[Len(s) + 1] = y
  OBVIOUS
<1>3. ASSUME NEW i \in 1..Len(s) PROVE i \in 1..Len(o) /\ o[i] = s[i]
  BY <1>1
<1> QED  BY <1>1, <1>2, <1>3

LEMMA InAppend ==
    ASSUME NEW S, NEW s \in Seq(S), NEW y \in S, NEW x
    PROVE  In(x, Append(s, y)) <=> In(x, s) \/ x = y
<1>1. Append(s, y) \in Seq(S) /\ DOMAIN Append(s, y) = 1..(Len(s) + 1) /\ DOMAIN s = 1..Len(s)
  OBVIOUS
<1>2. \A i \in 1..Len(s) : Append(s, y)[i] = s[i]
  OBVIOUS
<1>3. Append(s, y)[Len(s) + 1] = y
  OBVIOUS
<1>4. ASSUME In(x, Append(s, y)) PROVE In(x, s) \/ x = y
  BY <1>1, <1>2, <1>3, <1>4 DEF In
<1>5. ASSUME In(x, s) PROVE In(x, Append(s, y))
  BY <1>1, <1>2, <1>5 DEF In
<1>6. ASSUME x = y PROVE In(x, Append(s, y))
  BY <1>1, <1>3, <1>6 DEF In
<1> QED  BY <1>4, <1>5, <1>6

LEMMA InTail ==
    ASSUME NEW S, NEW s \in Seq(S), s # <<>>, NEW x
    PROVE  In(x, s) <=> In(x, Tail(s)) \/ x = Head(s)
<1>1. Tail(s) \in Seq(S) /\ DOMAIN Tail(s) = 1..(Len(s) - 1) /\ DOMAIN s = 1..Len(s)
  OBVIOUS
<1>2. Head(s) = s[1] /\ \A i \in 1..(Len(s) - 1) : Tail(s)[i] = s[i + 1]
  OBVIOUS
<1>3. Len(s) \in Nat /\ Len(s) >= 1
  OBVIOUS
<1>4. ASSUME In(x, s) PROVE In(x, Tail(s)) \/ x = Head(s)
  <2>1. PICK i \in 1..Len(s) : s[i] = x
    BY <1>1, <1>4 DEF In
  <2>2. CASE i # 1
    <3>1. i - 1 \in 1..(Len(s) - 1) /\ Tail(s)[i - 1] = x
      BY <1>2, <1>3, <2>1, <2>2
    <3> QED  BY <1>1, <3>1 DEF In
  <2> QED  BY <1>2, <2>1, <2>2
<1>5. ASSUME In(x, Tail(s)) PROVE In(x, s)
  <2>1. PICK i \in 1..(Len(s) - 1) : Tail(s)[i] = x
    BY <1>1, <1>5 DEF In
  <2>2. i + 1 \in 1..Len(s) /\ s[i + 1] = x
    BY <1>2, <1>3, <2>1
  <2> QED  BY <1>1, <2>2 DEF In
<1>6. ASSUME x = Head(s) PROVE In(x, s)
  BY <1>1, <1>2, <1>3, <1>6 DEF In
<1> QED  BY <1>4, <1>5, <1>6

LEMMA CutIs ==
    ASSUME NEW S, NEW s \in Seq(S), NEW t \in Cut(s)
    PROVE  /\ t \in Seq(S) /\ Len(t) \in 0..Len(s) /\ DOMAIN t = 1..Len(t)
           /\ DOMAIN s = 1..Len(s) /\ \A i \in 1..Len(t) : t[i] = s[i]
<1>1. PICK k \in 0..Len(s) : t = SubSeq(s, 1, k)
  BY DEF Cut
<1> QED  BY <1>1

-----------------------------------------------------------------------------
(* What dispatch does. *)


Messages == {[t |-> "ack"]} \cup Response \cup Binary

Handlers == [sink : Ids \cup {0}, running : SUBSET Ids, out : Seq(Messages),
             ran : Seq(Ids), caps : SUBSET Capabilities]

Yes(c, ok) == [t |-> "response", id |-> c, ok |-> ok]
Shot(c, last) == [t |-> "binary", id |-> c, last |-> last]

LEMMA MessageTypes ==
    /\ [t |-> "ack"] \in Messages
    /\ \A c \in Ids, b \in BOOLEAN : Yes(c, b) \in Messages /\ Shot(c, b) \in Messages
BY DEF Messages, Response, Binary, Yes, Shot

LEMMA MessageKinds ==
    ASSUME NEW u \in Messages
    PROVE  \/ u.t = "ack"
           \/ u.t = "response" /\ u.id \in Ids /\ u.ok \in BOOLEAN
           \/ u.t = "binary" /\ u.id \in Ids /\ u.last \in BOOLEAN
BY DEF Messages, Response, Binary

LEMMA HandlerFields ==
    ASSUME NEW h \in Handlers
    PROVE  /\ h.sink \in Ids \cup {0} /\ h.running \in SUBSET Ids
           /\ h.out \in Seq(Messages) /\ h.ran \in Seq(Ids)
           /\ h.caps \in SUBSET Capabilities
BY DEF Handlers

Call == [m : Methods, st : {"gated", "sent", "ok", "failed"}, on : Ids \cup {0}]

LEMMA CallTypes ==
    ASSUME LinkTypeOK, NEW c \in Made
    PROVE  /\ calls \in Seq(Call) /\ calls[c] \in Call /\ calls[c].m \in Methods
           /\ calls[c].st \in {"gated", "sent", "ok", "failed"}
           /\ calls[c].on \in Ids \cup {0}
<1>1. calls \in Seq(Call)
  BY DEF LinkTypeOK, Call
<1>2. calls[c] \in Call
  BY <1>1 DEF Made
<1> QED  BY <1>1, <1>2 DEF Call

LEMMA TwoAppended ==
    ASSUME NEW s \in Seq(Messages), NEW x \in Messages, NEW y \in Messages
    PROVE  /\ Append(Append(s, x), y) \in Seq(Messages)
           /\ Append(Append(s, x), y) = s \o <<x, y>>
           /\ \A i \in DOMAIN s : /\ i \in DOMAIN Append(Append(s, x), y)
                                /\ Append(Append(s, x), y)[i] = s[i]
           /\ Len(s) + 1 \in DOMAIN Append(Append(s, x), y)
           /\ Append(Append(s, x), y)[Len(s) + 1] = x
<1>1. Append(Append(s, x), y) = s \o <<x, y>>
  OBVIOUS
<1>2. PICK p : p = Append(s, x)
  OBVIOUS
<1>3. /\ p \in Seq(Messages) /\ Len(p) = Len(s) + 1 /\ p[Len(s) + 1] = x /\ DOMAIN p = 1..Len(p)
      /\ Len(s) \in Nat /\ \A i \in DOMAIN s : i \in DOMAIN p /\ p[i] = s[i]
  BY <1>2, AppendIs
<1>4. PICK o : o = Append(p, y)
  OBVIOUS
<1>5. o \in Seq(Messages) /\ \A i \in DOMAIN p : i \in DOMAIN o /\ o[i] = p[i]
  BY <1>3, <1>4, AppendIs
<1>6. Len(s) + 1 \in DOMAIN p
  BY <1>3
<1> QED  BY <1>1, <1>2, <1>3, <1>4, <1>5, <1>6

\* One handler step, by method: what it adds to the handler.
Effect(h, c, d) ==
    /\ d \in Handlers /\ d.caps = h.caps /\ d.ran = Append(h.ran, c)
    /\ calls[c].m = "claim" =>
         d.sink = h.sink /\ d.running = h.running \cup {c} /\ d.out = h.out
    /\ calls[c].m = "unsubscribe" =>
         /\ d.sink = 0 /\ d.running = h.running
         /\ d.out = Append(h.out, Yes(c, TRUE))
    /\ calls[c].m = "input" =>
         /\ d.sink = h.sink /\ d.running = h.running
         /\ d.out = Append(h.out, Yes(c, known))
    /\ calls[c].m = "subscribe" /\ ~known =>
         /\ d.sink = h.sink /\ d.running = h.running
         /\ d.out = Append(h.out, Yes(c, known))
    /\ calls[c].m = "subscribe" /\ known =>
         /\ d.sink = c /\ d.running = h.running
         /\ d.out = Append(Append(h.out, Yes(c, known)), Shot(c, FALSE))

LEMMA DispatchIs ==
    ASSUME LinkTypeOK, NEW h \in Handlers, NEW c \in Ids, c \in Made,
           requiredCapability(calls[c].m) \subseteq h.caps,
           NEW d, d = Dispatch(h, c)
    PROVE  Effect(h, c, d)
<1> USE DEF Effect
<1>1. calls[c].m \in Methods /\ known \in BOOLEAN
  BY CallTypes DEF LinkTypeOK
<1>2. /\ h.sink \in Ids \cup {0} /\ h.running \in SUBSET Ids
      /\ h.out \in Seq(Messages) /\ h.ran \in Seq(Ids)
  BY HandlerFields
<1>3. PICK r : r = Append(h.ran, c)
  OBVIOUS
<1>4. r \in Seq(Ids)
  BY <1>2, <1>3
<1>5. PICK g : g = [h EXCEPT !.ran = r]
  OBVIOUS
<1>6. /\ g \in Handlers /\ g.sink = h.sink /\ g.running = h.running /\ g.out = h.out
      /\ g.caps = h.caps /\ g.ran = Append(h.ran, c)
  BY <1>3, <1>4, <1>5 DEF Handlers
<1>7. Dispatch(h, c) =
        CASE calls[c].m = "claim" -> [g EXCEPT !.running = @ \cup {c}]
          [] calls[c].m = "unsubscribe" -> [Answered(g, c, TRUE) EXCEPT !.sink = 0]
          [] calls[c].m = "subscribe" -> IF known THEN Subscribed(g, c)
                                         ELSE Answered(g, c, FALSE)
          [] calls[c].m = "input" -> Answered(g, c, known)
  BY <1>3, <1>5, <1>6, Zenon DEF Dispatch
<1>8. ASSUME NEW ok \in BOOLEAN, NEW w, w = Answered(g, c, ok)
      PROVE  /\ w \in Handlers /\ w.sink = h.sink /\ w.running = h.running
             /\ w.out = Append(h.out, Yes(c, ok)) /\ w.caps = h.caps
             /\ w.ran = Append(h.ran, c)
  <2>1. Append(h.out, Yes(c, ok)) \in Seq(Messages)
    BY <1>2, MessageTypes
  <2>2. w = [g EXCEPT !.out = Append(h.out, Yes(c, ok))]
    BY <1>6, <1>8, Zenon DEF Answered, Yes
  <2> QED  BY <1>6, <2>1, <2>2 DEF Handlers
<1>9. CASE calls[c].m = "claim"
  <2>1. d = [g EXCEPT !.running = h.running \cup {c}]
    BY <1>6, <1>7, <1>9
  <2>2. h.running \cup {c} \in SUBSET Ids
    BY <1>2
  <2> QED  BY <1>6, <1>9, <2>1, <2>2 DEF Handlers
<1>10. CASE calls[c].m = "unsubscribe"
  <2>1. PICK w : w = Answered(g, c, TRUE)
    OBVIOUS
  <2>2. d = [w EXCEPT !.sink = 0]
    BY <1>7, <1>10, <2>1
  <2>3. /\ w \in Handlers /\ w.running = h.running
        /\ w.out = Append(h.out, Yes(c, TRUE)) /\ w.caps = h.caps /\ w.ran = Append(h.ran, c)
    BY <1>8, <2>1
  <2> QED  BY <1>10, <2>2, <2>3 DEF Handlers
<1>11. CASE calls[c].m = "input"
  <2>1. d = Answered(g, c, known)
    BY <1>7, <1>11
  <2> QED  BY <1>1, <1>8, <1>11, <2>1
<1>12. CASE calls[c].m = "subscribe" /\ ~known
  <2>1. d = Answered(g, c, FALSE)
    BY <1>7, <1>12
  <2>2. known = FALSE
    BY <1>1, <1>12
  <2> QED  BY <1>8, <1>12, <2>1, <2>2
<1>13. CASE calls[c].m = "subscribe" /\ known
  <2>1. PICK o : o = Append(Append(h.out, Yes(c, TRUE)), Shot(c, FALSE))
    OBVIOUS
  <2>2. o \in Seq(Messages) /\ o = h.out \o <<Yes(c, TRUE), Shot(c, FALSE)>>
    <3>1. Yes(c, TRUE) \in Messages /\ Shot(c, FALSE) \in Messages
      BY MessageTypes
    <3>2. /\ Append(Append(h.out, Yes(c, TRUE)), Shot(c, FALSE)) \in Seq(Messages)
          /\ Append(Append(h.out, Yes(c, TRUE)), Shot(c, FALSE)) =
               h.out \o <<Yes(c, TRUE), Shot(c, FALSE)>>
      <4>1. PICK x, y : x = Yes(c, TRUE) /\ y = Shot(c, FALSE)
        OBVIOUS
      <4>2. /\ Append(Append(h.out, x), y) \in Seq(Messages)
            /\ Append(Append(h.out, x), y) = h.out \o <<x, y>>
        BY <1>2, <3>1, <4>1, TwoAppended
      <4> QED  BY <4>1, <4>2
    <3> QED  BY <2>1, <3>2
  <2>3. d = Subscribed(g, c)
    BY <1>7, <1>13
  <2>4. d = [g EXCEPT !.sink = c, !.out = o]
    BY <1>6, <2>2, <2>3, Zenon DEF Subscribed, Yes, Shot
  <2>5. PICK w : w = [g EXCEPT !.sink = c]
    OBVIOUS
  <2>6. d = [w EXCEPT !.out = o]
    BY <2>4, <2>5
  <2>7. /\ w \in Handlers /\ w.sink = c /\ w.running = h.running /\ w.caps = h.caps
        /\ w.ran = Append(h.ran, c)
    BY <1>6, <2>5 DEF Handlers
  <2>8. known = TRUE
    BY <1>1, <1>13
  <2> QED  BY <1>13, <2>1, <2>2, <2>6, <2>7, <2>8 DEF Handlers
<1> QED  BY <1>1, <1>9, <1>10, <1>11, <1>12, <1>13 DEF Methods

-----------------------------------------------------------------------------
(* What the host keeps when it answers or sends a frame. *)

LEMMA AnsweredKeeps ==
    ASSUME NEW rn, NEW rn2, NEW out \in Seq(Messages), NEW r, NEW r2,
           NEW c \in Ids, NEW ok \in BOOLEAN,
           Answers(rn, out, r), rn2 \subseteq rn, c \notin rn2,
           \A x : In(x, r) => In(x, r2), In(c, r2),
           \A i \in DOMAIN out : out[i].t \in {"response", "binary"} => out[i].id # c,
           ctlUp => calls[c].st = "sent", calls[c].m = "subscribe" => ok = known
    PROVE  Answers(rn2, Append(out, Yes(c, ok)), r2)
<1> DEFINE n == Len(out) + 1
<1>1. PICK o : o = Append(out, Yes(c, ok))
  OBVIOUS
<1>0. Yes(c, ok) \in Messages
  BY MessageTypes
<1>2. /\ DOMAIN o = 1..n /\ DOMAIN out = 1..Len(out) /\ Len(out) \in Nat /\ o[n] = Yes(c, ok)
      /\ \A i \in 1..Len(out) : o[i] = out[i]
  BY <1>0, <1>1
<1>3. o[n].t = "response" /\ o[n].id = c /\ o[n].ok = ok
  BY <1>2 DEF Yes
<1>4. \A i \in DOMAIN o : i = n \/ (i \in DOMAIN out /\ i < n /\ o[i] = out[i])
  <2>1. \A i \in 1..n : i = n \/ (i \in 1..Len(out) /\ i < n)
    BY <1>2
  <2> QED  BY <1>2, <2>1
<1> HIDE DEF n
<1>5. \A i \in DOMAIN o : o[i].t = "binary" =>
         In(o[i].id, r2) /\ calls[o[i].id].m = "subscribe"
  BY <1>3, <1>4 DEF Answers
<1>6. \A i \in DOMAIN o : o[i].t = "response" =>
         /\ In(o[i].id, r2) /\ o[i].id \notin rn2
         /\ ctlUp => calls[o[i].id].st = "sent"
         /\ calls[o[i].id].m = "subscribe" => o[i].ok = known
  BY <1>3, <1>4 DEF Answers
<1>7. ASSUME NEW i \in DOMAIN o, NEW j \in DOMAIN o,
             o[i].t = "response", o[j].t = "response", o[i].id = o[j].id
      PROVE  i = j
  BY <1>3, <1>4, <1>7 DEF Answers
<1>8. ASSUME NEW i \in DOMAIN o, NEW j \in DOMAIN o,
             i < j, o[i].t = "binary", o[j].t = "response"
      PROVE  o[i].id # o[j].id
  BY <1>2, <1>3, <1>4, <1>8 DEF Answers, n
<1> QED  BY <1>1, <1>5, <1>6, <1>7, <1>8 DEF Answers

LEMMA ShotKeeps ==
    ASSUME NEW rn, NEW out \in Seq(Messages), NEW r, NEW c \in Ids, NEW last \in BOOLEAN,
           Answers(rn, out, r), In(c, r), calls[c].m = "subscribe"
    PROVE  Answers(rn, Append(out, Shot(c, last)), r)
<1> DEFINE n == Len(out) + 1
<1>1. PICK o : o = Append(out, Shot(c, last))
  OBVIOUS
<1>0. Shot(c, last) \in Messages
  BY MessageTypes
<1>2. /\ DOMAIN o = 1..n /\ DOMAIN out = 1..Len(out) /\ Len(out) \in Nat /\ o[n] = Shot(c, last)
      /\ \A i \in 1..Len(out) : o[i] = out[i]
  BY <1>0, <1>1
<1>3. o[n].t = "binary" /\ o[n].id = c
  BY <1>2 DEF Shot
<1>4. \A i \in DOMAIN o : i = n \/ (i \in DOMAIN out /\ i < n /\ o[i] = out[i])
  <2>1. \A i \in 1..n : i = n \/ (i \in 1..Len(out) /\ i < n)
    BY <1>2
  <2> QED  BY <1>2, <2>1
<1> HIDE DEF n
<1>5. \A i \in DOMAIN o : o[i].t = "binary" =>
         In(o[i].id, r) /\ calls[o[i].id].m = "subscribe"
  BY <1>3, <1>4 DEF Answers
<1>6. \A i \in DOMAIN o : o[i].t = "response" =>
         /\ In(o[i].id, r) /\ o[i].id \notin rn
         /\ ctlUp => calls[o[i].id].st = "sent"
         /\ calls[o[i].id].m = "subscribe" => o[i].ok = known
  BY <1>3, <1>4 DEF Answers
<1>7. ASSUME NEW i \in DOMAIN o, NEW j \in DOMAIN o,
             o[i].t = "response", o[j].t = "response", o[i].id = o[j].id
      PROVE  i = j
  BY <1>3, <1>4, <1>7 DEF Answers
<1>8. ASSUME NEW i \in DOMAIN o, NEW j \in DOMAIN o,
             i < j, o[i].t = "binary", o[j].t = "response"
      PROVE  o[i].id # o[j].id
  BY <1>2, <1>3, <1>4, <1>8 DEF Answers, n
<1> QED  BY <1>1, <1>5, <1>6, <1>7, <1>8 DEF Answers

\* A shorter or equal list of answers, more dispatched, no hook more.
LEMMA FewerAnswers ==
    ASSUME NEW rn, NEW out \in Seq(Messages), NEW r, NEW o \in Seq(Messages), NEW k \in Nat,
           Answers(rn, out, r),
           \A i \in DOMAIN o : i + k \in DOMAIN out /\ o[i] = out[i + k]
    PROVE  Answers(rn, o, r)
<1>1. DOMAIN o \subseteq Nat /\ \A i, j \in DOMAIN o : (i < j <=> i + k < j + k) /\ (i + k = j + k => i = j)
  OBVIOUS
<1>2. \A i, j \in DOMAIN o :
         o[i].t = "response" /\ o[j].t = "response" /\ o[i].id = o[j].id => i = j
  BY <1>1 DEF Answers
<1>3. \A i, j \in DOMAIN o :
         i < j /\ o[i].t = "binary" /\ o[j].t = "response" => o[i].id # o[j].id
  BY <1>1 DEF Answers
<1> QED  BY <1>2, <1>3 DEF Answers

\* A dispatched call is owed an answer, runs its hook, or has its answer.
LEMMA DispatchKeeps ==
    ASSUME LinkTypeOK, OneAtATime, Len(calls) <= MaxCalls,
           NEW h \in Handlers, Keeps(h.sink, h.running, h.out, h.ran),
           NEW c \in Made, ~In(c, h.ran),
           requiredCapability(calls[c].m) \subseteq h.caps,
           ctlUp => calls[c].st = "sent",
           NEW d, d = Dispatch(h, c)
    PROVE  Keeps(d.sink, d.running, d.out, d.ran)
<1>a. /\ Belongs(h.sink, h.running, h.ran) /\ Answers(h.running, h.out, h.ran)
      /\ ctlUp /\ hostUp => Owed(h.running, h.out, h.ran) /\ Streams(h.sink, h.out, h.ran)
  BY DEF Keeps
<1>1. /\ c \in Ids /\ c # 0 /\ calls[c].m \in Methods /\ known \in BOOLEAN
  BY SMTT(40), LinkAssumption, CallTypes DEF Made, Ids, LinkTypeOK
<1>2. /\ h.out \in Seq(Messages) /\ h.ran \in Seq(Ids) /\ h.running \in SUBSET Ids
  BY HandlerFields
<1>0. Effect(h, c, d)
  BY <1>1, DispatchIs
<1>3. d.ran = Append(h.ran, c) /\ d.out \in Seq(Messages)
  BY <1>0, HandlerFields DEF Effect
<1>4. \A x : In(x, d.ran) <=> In(x, h.ran) \/ x = c
  BY <1>1, <1>2, <1>3, InAppend
<1>5. c \notin h.running /\ h.sink # c
  BY <1>a, <1>1 DEF Belongs
<1>6. \A i \in DOMAIN h.out : h.out[i].t \in {"response", "binary"} => h.out[i].id # c
  BY <1>a DEF Answers
<1>7. ASSUME NEW ok \in BOOLEAN, calls[c].m = "subscribe" => ok = known
      PROVE  Answers(h.running, Append(h.out, Yes(c, ok)), d.ran)
  BY <1>a, <1>1, <1>2, <1>4, <1>5, <1>6, <1>7, AnsweredKeeps
<1>8. ASSUME NEW o, NEW x, In(x, h.out), o \in Seq(Messages),
             \A i \in DOMAIN h.out : i \in DOMAIN o /\ o[i] = h.out[i]
      PROVE  In(x, o)
  BY <1>8 DEF In
<1>9. ASSUME NEW o \in Seq(Messages), NEW ok \in BOOLEAN,
             \/ o = Append(h.out, Yes(c, ok))
             \/ o = Append(Append(h.out, Yes(c, ok)), Shot(c, FALSE))
      PROVE  /\ \A i \in DOMAIN h.out : i \in DOMAIN o /\ o[i] = h.out[i]
             /\ Answer(c, o)
  <2>1. Yes(c, ok) \in Messages /\ Shot(c, FALSE) \in Messages
    BY <1>1, MessageTypes
  <2>2. Yes(c, ok).t = "response" /\ Yes(c, ok).id = c
    BY DEF Yes
  <2>3. /\ \A i \in DOMAIN h.out : i \in DOMAIN o /\ o[i] = h.out[i]
        /\ Len(h.out) + 1 \in DOMAIN o /\ o[Len(h.out) + 1] = Yes(c, ok)
    <3>1. CASE o = Append(h.out, Yes(c, ok))
      BY <1>2, <2>1, <3>1
    <3>2. CASE o = Append(Append(h.out, Yes(c, ok)), Shot(c, FALSE))
      <4>1. PICK x, y : x = Yes(c, ok) /\ y = Shot(c, FALSE)
        OBVIOUS
      <4>2. o = Append(Append(h.out, x), y) /\ x \in Messages /\ y \in Messages
        BY <2>1, <3>2, <4>1
      <4>3. /\ \A i \in DOMAIN h.out : i \in DOMAIN o /\ o[i] = h.out[i]
            /\ Len(h.out) + 1 \in DOMAIN o /\ o[Len(h.out) + 1] = x
        BY <1>2, <4>2, TwoAppended
      <4> QED  BY <4>1, <4>3
    <3> QED  BY <1>9, <3>1, <3>2
  <2> QED  BY <2>2, <2>3 DEF Answer
<1>10. ASSUME NEW o, \A i \in DOMAIN h.out : i \in DOMAIN o /\ o[i] = h.out[i],
              NEW x, Answer(x, h.out)
       PROVE  Answer(x, o)
  BY <1>10 DEF Answer
<1>11. ASSUME ctlUp, NEW e \in Made, e # c, Open(e),
              calls[e].m \in {"subscribe", "unsubscribe"},
              calls[c].m \in {"subscribe", "unsubscribe"}
       PROVE  FALSE
  BY <1>11 DEF OneAtATime, Open
<1>12. CASE calls[c].m = "claim"
  <2>1. d.sink = h.sink /\ d.running = h.running \cup {c} /\ d.out = h.out
    BY <1>0, <1>3, <1>12 DEF Effect
  <2>2. Belongs(d.sink, d.running, d.ran)
    BY <1>a, <1>4, <1>12, <2>1 DEF Belongs
  <2>3. Answers(d.running, d.out, d.ran)
    BY <1>a, <1>4, <1>6, <2>1 DEF Answers
  <2>4. ASSUME ctlUp, hostUp PROVE Owed(d.running, d.out, d.ran)
    BY <1>a, <1>4, <2>1, <2>4 DEF Owed
  <2>5. ASSUME ctlUp, hostUp PROVE Streams(d.sink, d.out, d.ran)
    BY <1>a, <1>4, <1>12, <2>1, <2>5 DEF Streams, Subscribing, Pending
  <2> QED  BY <2>2, <2>3, <2>4, <2>5 DEF Keeps
<1>13. CASE calls[c].m = "input" \/ (calls[c].m = "subscribe" /\ ~known)
  <2>1. /\ d.sink = h.sink /\ d.running = h.running /\ d.out = Append(h.out, Yes(c, known))
        /\ d.out \in Seq(Messages)
    BY <1>0, <1>3, <1>13 DEF Effect
  <2>2. Belongs(d.sink, d.running, d.ran)
    BY <1>a, <1>4, <2>1 DEF Belongs
  <2>3. Answers(d.running, d.out, d.ran)
    BY <1>1, <1>7, <2>1
  <2>4. /\ \A i \in DOMAIN h.out : i \in DOMAIN d.out /\ d.out[i] = h.out[i]
        /\ Answer(c, d.out)
    BY <1>1, <1>9, <2>1
  <2>5. ASSUME ctlUp, hostUp PROVE Owed(d.running, d.out, d.ran)
    BY <1>a, <1>4, <1>10, <2>1, <2>4, <2>5 DEF Owed
  <2>6. ASSUME ctlUp, hostUp PROVE Streams(d.sink, d.out, d.ran)
    <3>1. \A x : InStep(h.sink, h.out, x) => InStep(d.sink, d.out, x)
      BY <1>8, <2>1, <2>4 DEF InStep
    <3>2. \A e \in Made : Subscribing(e, d.ran) <=> Subscribing(e, h.ran)
      BY <1>4, <1>13 DEF Subscribing, Pending
    <3>3. \A e \in Made : Pending(e, "unsubscribe") => e # c
      BY <1>13 DEF Pending
    <3> QED  BY <1>a, <1>4, <2>1, <2>6, <3>1, <3>2, <3>3 DEF Streams
  <2> QED  BY <2>2, <2>3, <2>5, <2>6 DEF Keeps
<1>14. CASE calls[c].m = "unsubscribe"
  <2>1. /\ d.sink = 0 /\ d.running = h.running /\ d.out = Append(h.out, Yes(c, TRUE))
        /\ d.out \in Seq(Messages)
    BY <1>0, <1>3, <1>14 DEF Effect
  <2>2. Belongs(d.sink, d.running, d.ran)
    BY <1>a, <1>4, <2>1 DEF Belongs
  <2>3. Answers(d.running, d.out, d.ran)
    BY <1>1, <1>7, <1>14, <2>1
  <2>4. /\ \A i \in DOMAIN h.out : i \in DOMAIN d.out /\ d.out[i] = h.out[i]
        /\ Answer(c, d.out)
    BY <1>1, <1>9, <2>1
  <2>5. ASSUME ctlUp, hostUp PROVE Owed(d.running, d.out, d.ran)
    BY <1>a, <1>4, <1>10, <2>1, <2>4, <2>5 DEF Owed
  <2>6. ASSUME ctlUp, hostUp PROVE Streams(d.sink, d.out, d.ran)
    <3>1. Pending(c, "unsubscribe")
      BY <1>14, <2>6 DEF Pending, Open
    <3>2. \A e \in Made : ~Subscribing(e, d.ran)
      BY <1>11, <1>14, <2>6 DEF Subscribing, Pending
    <3> QED  BY <1>a, <2>1, <2>6, <3>1, <3>2 DEF Streams
  <2> QED  BY <2>2, <2>3, <2>5, <2>6 DEF Keeps
<1>15. CASE calls[c].m = "subscribe" /\ known
  <2>1. /\ d.sink = c /\ d.running = h.running /\ d.out \in Seq(Messages)
        /\ d.out = Append(Append(h.out, Yes(c, known)), Shot(c, FALSE))
    BY <1>0, <1>3, <1>15 DEF Effect
  <2>2. Belongs(d.sink, d.running, d.ran)
    BY <1>a, <1>4, <1>15, <2>1 DEF Belongs
  <2>3. Answers(d.running, d.out, d.ran)
    <3>1. Append(h.out, Yes(c, known)) \in Seq(Messages)
      BY <1>1, <1>2, MessageTypes
    <3>2. Answers(h.running, Append(h.out, Yes(c, known)), d.ran) /\ In(c, d.ran)
      BY <1>1, <1>4, <1>7
    <3> QED  BY <1>1, <1>15, <2>1, <3>1, <3>2, ShotKeeps
  <2>4. /\ \A i \in DOMAIN h.out : i \in DOMAIN d.out /\ d.out[i] = h.out[i]
        /\ Answer(c, d.out)
    BY <1>1, <1>9, <2>1
  <2>5. ASSUME ctlUp, hostUp PROVE Owed(d.running, d.out, d.ran)
    BY <1>a, <1>4, <1>10, <2>1, <2>4, <2>5 DEF Owed
  <2>6. ASSUME ctlUp, hostUp PROVE Streams(d.sink, d.out, d.ran)
    <3>1. Subscribing(c, d.ran) /\ InStep(d.sink, d.out, c)
      BY <1>4, <1>15, <2>1, <2>6 DEF Subscribing, Pending, Open, InStep
    <3>2. \A e \in Made : e # c => ~Subscribing(e, d.ran) /\ ~Pending(e, "unsubscribe")
      BY <1>11, <1>15, <2>6 DEF Subscribing, Pending
    <3>3. ~Pending(c, "unsubscribe")
      BY <1>15 DEF Pending
    <3> QED  BY <3>1, <3>2, <3>3 DEF Streams
  <2> QED  BY <2>2, <2>3, <2>5, <2>6 DEF Keeps
<1>16. \/ calls[c].m = "claim" \/ calls[c].m = "input" \/ calls[c].m = "unsubscribe"
       \/ calls[c].m = "subscribe"
  BY <1>1 DEF Methods
<1> QED  BY <1>12, <1>13, <1>14, <1>15, <1>16

-----------------------------------------------------------------------------
(* Requests handled one after the other. *)

Less == {pair \in Nat \X Nat : pair[1] < pair[2]}

LEMMA LessWellFounded == IsWellFoundedOn(Less, Nat)
BY NatLessThanWellFounded DEF OpToRel, Less

\* Induction over the naturals is by the least counterexample.
LEMMA LeastMember ==
    ASSUME NEW T, T \subseteq Nat, T # {}
    PROVE  \E n \in T : \A m \in T : n <= m
<1>1. PICK n \in T : \A m \in T : <<m, n>> \notin Less
  BY LessWellFounded, WFMin
<1>2. ASSUME NEW m \in T PROVE n <= m
  <2>1. CASE m < n
    <3>1. <<m, n>> \in Nat \X Nat
      OBVIOUS
    <3>2. <<m, n>> \in Less
      BY <2>1, <3>1 DEF Less
    <3> QED  BY <1>1, <3>2
  <2> QED  BY <2>1
<1> QED  BY <1>2

Runs(f, n, cs, rs) ==
    f = [i \in 0..n |-> IF i = 0 THEN Handler(cs) ELSE Dispatch(f[i - 1], rs[i])]

\* The recursion that Handled is written with has a solution.
LEMMA RunExists ==
    ASSUME NEW cs, NEW rs, NEW n \in Nat
    PROVE  \E f : Runs(f, n, cs, rs)
<1> DEFINE T == {k \in Nat : ~\E f : Runs(f, k, cs, rs)}
<1>1. ASSUME T # {} PROVE FALSE
  <2>1. PICK k \in T : \A l \in T : k <= l
    BY <1>1, LeastMember
  <2>2. CASE k = 0
    <3>1. PICK f : f = [i \in 0..0 |-> Handler(cs)]
      OBVIOUS
    <3>2. f = [i \in 0..0 |-> IF i = 0 THEN Handler(cs) ELSE Dispatch(f[i - 1], rs[i])]
      BY <3>1
    <3>3. Runs(f, 0, cs, rs)
      BY <3>2 DEF Runs
    <3> QED  BY <2>1, <2>2, <3>3
  <2>3. CASE k # 0
    <3>1. k \in Nat /\ k - 1 \in Nat /\ k - 1 \notin T
      BY <2>1, <2>3
    <3>2. PICK f : Runs(f, k - 1, cs, rs)
      BY <3>1
    <3>3. PICK g : g = [i \in 0..k |-> IF i = k THEN Dispatch(f[k - 1], rs[k]) ELSE f[i]]
      OBVIOUS
    <3>4. ASSUME NEW i \in 0..k
          PROVE  g[i] = IF i = 0 THEN Handler(cs) ELSE Dispatch(g[i - 1], rs[i])
      <4>1. CASE i = 0
        <5>1. g[0] = f[0] /\ f[0] = Handler(cs)
          BY <2>3, <3>1, <3>2, <3>3 DEF Runs
        <5> QED  BY <4>1, <5>1
      <4>2. CASE i = k
        <5>1. g[k] = Dispatch(f[k - 1], rs[k]) /\ g[k - 1] = f[k - 1]
          BY <2>3, <3>1, <3>3
        <5> QED  BY <2>3, <4>2, <5>1
      <4>3. CASE i # 0 /\ i # k
        <5>1. i - 1 \in 0..(k - 1) /\ i \in 0..(k - 1) /\ i - 1 # k /\ i - 1 \in 0..k
          BY <3>1, <4>3
        <5>2. g[i] = f[i] /\ g[i - 1] = f[i - 1]
          BY <3>3, <4>3, <5>1
        <5>3. f[i] = Dispatch(f[i - 1], rs[i])
          BY <3>2, <4>3, <5>1 DEF Runs
        <5> QED  BY <4>3, <5>2, <5>3
      <4> QED  BY <4>1, <4>2, <4>3
    <3>5. g = [i \in 0..k |-> IF i = 0 THEN Handler(cs) ELSE Dispatch(g[i - 1], rs[i])]
      BY <3>3, <3>4
    <3>6. Runs(g, k, cs, rs)
      BY <3>5 DEF Runs
    <3> QED  BY <2>1, <3>6
  <2> QED  BY <2>2, <2>3
<1> QED  BY <1>1

LEMMA HandledIs ==
    ASSUME NEW cs, NEW rs, Len(rs) \in Nat, NEW hs, hs = Handled(cs, rs)
    PROVE  /\ hs[0] = Handler(cs)
           /\ \A i \in 1..Len(rs) : hs[i] = Dispatch(hs[i - 1], rs[i])
<1>0. PICK f : Runs(f, Len(rs), cs, rs)
  BY RunExists
<1>1. \E g : g = [i \in 0..Len(rs) |-> IF i = 0 THEN Handler(cs) ELSE Dispatch(g[i - 1], rs[i])]
  BY <1>0, Zenon DEF Runs
<1>2. hs = [i \in 0..Len(rs) |-> IF i = 0 THEN Handler(cs) ELSE Dispatch(hs[i - 1], rs[i])]
  BY <1>1, Zenon DEF Handled
<1> QED  BY <1>2

LEMMA IdsAre == \A x \in Ids : x \in Nat /\ x \in Int /\ x # 0
BY LinkAssumption DEF Ids

\* Dispatched behind r, in order: the first i of rs.
Behind(r2, r, rs, i) ==
    /\ r2 \in Seq(Ids) /\ Len(r2) = Len(r) + i
    /\ \A j \in 1..Len(r) : r2[j] = r[j]
    /\ \A j \in 1..i : r2[Len(r) + j] = rs[j]

Reached(h, cs, rs, i) ==
    /\ h \in Handlers /\ h.caps = cs /\ Keeps(h.sink, h.running, h.out, h.ran)
    /\ Behind(h.ran, ran, rs, i)

LEMMA HandlerTyped ==
    ASSUME LinkTypeOK, NEW cs \in SUBSET Capabilities, NEW h, h = Handler(cs)
    PROVE  /\ h \in Handlers /\ h.sink = sink /\ h.running = running /\ h.out = toCtl
           /\ h.ran = ran /\ h.caps = cs
BY DEF LinkTypeOK, Handler, Handlers, Messages

\* Requests the host may dispatch next: let go, above all it dispatched.
Dispatchable(rs) ==
    /\ rs \in Seq(Ids) /\ Ascending(rs)
    /\ \A i \in DOMAIN ran, j \in DOMAIN rs : ran[i] < rs[j]
    /\ \A j \in DOMAIN rs : /\ rs[j] \in Made /\ MayRequest(rs[j])
                            /\ ctlUp => calls[rs[j]].st = "sent"

LEMMA OneMore ==
    ASSUME LinkTypeOK, OneAtATime, Len(calls) <= MaxCalls, NEW cs, cs = served \cap asked,
           NEW rs, Dispatchable(rs), NEW i \in 1..Len(rs),
           NEW h, Reached(h, cs, rs, i - 1), NEW d, d = Dispatch(h, rs[i])
    PROVE  Reached(d, cs, rs, i)
<1>1. /\ h \in Handlers /\ h.caps = cs /\ Keeps(h.sink, h.running, h.out, h.ran)
      /\ Behind(h.ran, ran, rs, i - 1)
  BY DEF Reached
<1>2. rs \in Seq(Ids) /\ Len(rs) \in Nat /\ DOMAIN rs = 1..Len(rs) /\ i \in DOMAIN rs
  BY DEF Dispatchable
<1>3. ran \in Seq(Ids) /\ Len(ran) \in Nat /\ DOMAIN ran = 1..Len(ran)
  BY DEF LinkTypeOK
<1>4. h.ran \in Seq(Ids) /\ DOMAIN h.ran = 1..(Len(ran) + (i - 1)) /\ Len(h.ran) = Len(ran) + (i - 1)
  BY <1>1, <1>2, <1>3 DEF Behind
<1>5. PICK c : c = rs[i]
  OBVIOUS
<1>6. /\ c \in Made /\ c \in Ids /\ requiredCapability(calls[c].m) \subseteq cs
      /\ ctlUp => calls[c].st = "sent"
  BY <1>2, <1>5 DEF Dispatchable, MayRequest
<1>7. ~In(c, h.ran)
  <2>1. ASSUME NEW j \in 1..(Len(ran) + (i - 1)), h.ran[j] = c PROVE FALSE
    <3>1. CASE j <= Len(ran)
      <4>1. j \in 1..Len(ran) /\ h.ran[j] = ran[j]
        BY <1>1, <1>3, <3>1 DEF Behind
      <4>2. ran[j] < rs[i] /\ ran[j] \in Int
        <5>1. ran[j] \in Ids /\ j \in DOMAIN ran
          BY <1>3, <4>1
        <5> QED  BY <1>2, <5>1, IdsAre DEF Dispatchable
      <4> QED  BY <1>5, <2>1, <4>1, <4>2
    <3>2. CASE j > Len(ran)
      <4>1. PICK k : k = j - Len(ran)
        OBVIOUS
      <4>2. k \in 1..(i - 1) /\ j = Len(ran) + k /\ k < i /\ k \in DOMAIN rs
        BY <1>2, <1>3, <3>2, <4>1
      <4>3. h.ran[j] = rs[k]
        BY <1>1, <4>2 DEF Behind
      <4>4. rs[k] < rs[i] /\ rs[k] \in Int
        <5>1. rs[k] \in Ids
          BY <1>2, <4>2
        <5> QED  BY <1>2, <4>2, <5>1, IdsAre DEF Dispatchable, Ascending
      <4> QED  BY <1>5, <2>1, <4>3, <4>4
    <3> QED  BY <1>3, <3>1, <3>2
  <2> QED  BY <1>4, <2>1 DEF In
<1>8. Effect(h, c, d)
  BY <1>1, <1>5, <1>6, DispatchIs
<1>9. d \in Handlers /\ d.caps = cs /\ d.ran = Append(h.ran, c)
  BY <1>1, <1>8 DEF Effect
<1>10. Keeps(d.sink, d.running, d.out, d.ran)
  BY <1>1, <1>5, <1>6, <1>7, DispatchKeeps
<1>11. Behind(d.ran, ran, rs, i)
  <2>1. PICK r2 : r2 = Append(h.ran, c)
    OBVIOUS
  <2>2. /\ r2 \in Seq(Ids) /\ Len(r2) = Len(ran) + i /\ r2[Len(ran) + i] = c
        /\ \A j \in 1..(Len(ran) + (i - 1)) : r2[j] = h.ran[j]
    <3>1. /\ r2 \in Seq(Ids) /\ Len(r2) = Len(h.ran) + 1 /\ r2[Len(h.ran) + 1] = c
          /\ \A j \in DOMAIN h.ran : r2[j] = h.ran[j]
      BY <1>4, <1>6, <2>1, AppendIs
    <3>2. Len(h.ran) + 1 = Len(ran) + i
      BY <1>2, <1>3, <1>4
    <3> QED  BY <1>4, <3>1, <3>2
  <2>3. ASSUME NEW j \in 1..Len(ran) PROVE r2[j] = ran[j]
    <3>1. j \in 1..(Len(ran) + (i - 1))
      BY <1>2, <1>3
    <3> QED  BY <1>1, <2>2, <3>1 DEF Behind
  <2>4. ASSUME NEW j \in 1..i PROVE r2[Len(ran) + j] = rs[j]
    <3>1. CASE j = i
      BY <1>5, <2>2, <3>1
    <3>2. CASE j # i
      <4>1. j \in 1..(i - 1) /\ Len(ran) + j \in 1..(Len(ran) + (i - 1))
        BY <1>2, <1>3, <3>2
      <4> QED  BY <1>1, <2>2, <4>1 DEF Behind
    <3> QED  BY <3>1, <3>2
  <2> QED  BY <1>9, <2>1, <2>2, <2>3, <2>4 DEF Behind
<1> QED  BY <1>9, <1>10, <1>11 DEF Reached

LEMMA AllHandled ==
    ASSUME LinkTypeOK, OneAtATime, Len(calls) <= MaxCalls,
           Keeps(sink, running, toCtl, ran), NEW cs, cs = served \cap asked,
           NEW rs, Dispatchable(rs), NEW h, h = Handled(cs, rs)[Len(rs)]
    PROVE  Reached(h, cs, rs, Len(rs))
<1>1. rs \in Seq(Ids) /\ Len(rs) \in Nat /\ cs \in SUBSET Capabilities
  BY DEF Dispatchable, LinkTypeOK
<1>2. PICK hs : hs = Handled(cs, rs)
  OBVIOUS
<1>3. hs[0] = Handler(cs) /\ \A i \in 1..Len(rs) : hs[i] = Dispatch(hs[i - 1], rs[i])
  BY <1>1, <1>2, HandledIs
<1> DEFINE T == {i \in Nat : i <= Len(rs) /\ ~Reached(hs[i], cs, rs, i)}
<1>4. ASSUME T # {} PROVE FALSE
  <2>1. PICK k \in T : \A l \in T : k <= l
    BY <1>4, LeastMember
  <2>2. CASE k = 0
    <3>1. /\ hs[0] \in Handlers /\ hs[0].sink = sink /\ hs[0].running = running
          /\ hs[0].out = toCtl /\ hs[0].ran = ran /\ hs[0].caps = cs
      BY <1>1, <1>3, HandlerTyped
    <3>2. Behind(ran, ran, rs, 0)
      BY DEF Behind, LinkTypeOK
    <3>3. Reached(hs[0], cs, rs, 0)
      BY <3>1, <3>2 DEF Reached
    <3> QED  BY <2>1, <2>2, <3>3
  <2>3. CASE k # 0
    <3>0. k \in Nat /\ k <= Len(rs)
      BY <2>1
    <3>1. k \in 1..Len(rs) /\ k - 1 \in Nat /\ k - 1 <= Len(rs) /\ k - 1 \notin T
      <4> HIDE DEF T
      <4>1. k \in 1..Len(rs) /\ k - 1 \in Nat /\ k - 1 <= Len(rs) /\ ~(k <= k - 1)
        BY <1>1, <2>3, <3>0
      <4> QED  BY <2>1, <4>1
    <3>2. Reached(hs[k - 1], cs, rs, k - 1)
      BY <3>1
    <3>3. hs[k] = Dispatch(hs[k - 1], rs[k])
      BY <1>3, <3>1
    <3>4. PICK g, d : g = hs[k - 1] /\ d = hs[k]
      OBVIOUS
    <3>5. Reached(d, cs, rs, k)
      <4>1. Reached(g, cs, rs, k - 1) /\ d = Dispatch(g, rs[k])
        BY <3>2, <3>3, <3>4
      <4> QED  BY <3>1, <4>1, OneMore
    <3>6. Reached(hs[k], cs, rs, k)
      BY <3>4, <3>5
    <3> QED  BY <2>1, <3>6
  <2> QED  BY <2>2, <2>3
<1>5. Reached(hs[Len(rs)], cs, rs, Len(rs))
  <2>1. Len(rs) \notin T /\ Len(rs) <= Len(rs)
    <3> HIDE DEF T
    <3> QED  BY <1>1, <1>4
  <2> QED  BY <1>1, <2>1
<1> QED  BY <1>2, <1>5

-----------------------------------------------------------------------------
(* Parts of the invariant that a step leaves alone. *)

keepVars == <<sink, running, toCtl, ran, calls, known, ctlUp, hostUp, frames, ended,
              tracked>>
lineVars == <<ran, held, toHost, calls, hostUp, ctlUp, shake, served, asked>>
provenVars == <<hostUp, phase, peer, gate, caps, served, asked, held, ran>>
greetVars == <<toHost, peer, shake, toCtl, phase, calls, ran, held, tracked>>

LEMMA KeepsAlone ==
    ASSUME LinkInv, UNCHANGED keepVars
    PROVE  Keeps(sink, running, toCtl, ran)'
BY DEF LinkInv, keepVars, Keeps, Belongs, Answers, Owed, Streams, InStep, Subscribing,
       Pending, Open, Made, Answer, LastShot, In

LEMMA LinedAlone ==
    ASSUME LinkInv, UNCHANGED lineVars
    PROVE  Lined'
BY DEF LinkInv, lineVars, Lined, InLine, In, LetGo, MayRequest, Made, Ascending

LEMMA ProvenAlone ==
    ASSUME LinkInv, UNCHANGED provenVars
    PROVE  Proven'
BY DEF LinkInv, provenVars, Proven

LEMMA GreetedAlone ==
    ASSUME LinkInv, UNCHANGED greetVars
    PROVE  Greeted'
BY DEF LinkInv, greetVars, Greeted, Unspoken, In, Made

LEMMA OneAlone ==
    ASSUME LinkInv, UNCHANGED <<calls, ctlUp>>
    PROVE  OneAtATime' /\ Len(calls') <= MaxCalls
BY DEF LinkInv, OneAtATime, ClosedOwesNothing, Open, Made

-----------------------------------------------------------------------------
(* The initial states. *)

LEMMA InitLinkInv == LinkInit => LinkInv
<1> SUFFICES ASSUME LinkInit PROVE LinkInv
  OBVIOUS
<1>1. LinkTypeOK /\ Len(calls) <= MaxCalls
  BY LinkAssumption DEF LinkInit, LinkTypeOK, Capabilities
<1>2. /\ DOMAIN ran = {} /\ DOMAIN held = {} /\ DOMAIN toHost = {} /\ DOMAIN toCtl = {}
      /\ Made = {}
  BY DEF LinkInit, Made
<1>3. Proven /\ Greeted
  BY <1>2 DEF LinkInit, Proven, Greeted, Unspoken, In
<1>4. Lined
  <2>1. LetGo = {} /\ \A c : ~InLine(c)
    BY <1>2 DEF LetGo, InLine, In
  <2>2. Ascending(ran) /\ Ascending(held) /\ Ascending(toHost)
    BY <1>2 DEF Ascending
  <2>3. \A c : ~In(c, held) /\ ~In(c, toHost)
    BY <1>2 DEF In
  <2> QED  BY <1>2, <2>1, <2>2, <2>3 DEF Lined
<1>5. OneAtATime
  BY <1>2 DEF OneAtATime, ClosedOwesNothing
<1>6. Keeps(sink, running, toCtl, ran)
  BY <1>2 DEF LinkInit, Keeps, Belongs, Answers, Owed, Streams, InStep
<1> QED  BY <1>1, <1>3, <1>4, <1>5, <1>6 DEF LinkInv

-----------------------------------------------------------------------------
(* The controller. *)

LEMMA GreetsStep == LinkInv /\ Greets => LinkInv'
<1> SUFFICES ASSUME LinkInv, Greets PROVE LinkInv'
  OBVIOUS
<1>1. LinkTypeOK' /\ toHost \in Seq({0} \cup Ids)
  <2>1. LinkTypeOK /\ toHost \in Seq({0} \cup Ids)
    BY DEF LinkInv, LinkTypeOK
  <2>2. UNCHANGED <<peer, gate, served, asked, known, phase, caps, held, sink, running, hostUp,
                    ctlUp, calls, tracked, ended, toCtl, ran, frames>>
    BY DEF Greets, linkConfig, hostVars
  <2>3. shake' \in {"opening", "awaiting", "negotiated", "failed"}
    BY DEF Greets
  <2>4. toHost' = toHost \/ toHost' = Append(toHost, 0)
    BY DEF Greets
  <2>5. toHost' \in Seq({0} \cup Ids)
    BY <2>1, <2>4
  <2> QED  BY <2>1, <2>2, <2>3, <2>5 DEF LinkTypeOK
<1>2. Proven'
  BY ProvenAlone DEF Greets, provenVars, linkConfig, hostVars
<1>3. OneAtATime' /\ Len(calls') <= MaxCalls
  BY OneAlone DEF Greets
<1>4. Keeps(sink, running, toCtl, ran)'
  BY KeepsAlone DEF Greets, keepVars, linkConfig, hostVars
<1>5. /\ toHost = <<>> /\ toCtl = <<>> /\ phase \in {"awaiting-hello", "dead"}
      /\ ran = <<>> /\ held = <<>> /\ tracked = 0
      /\ \A c \in Made : calls[c].st = "gated"
  BY DEF LinkInv, Greeted, Greets, Unspoken
<1>6. \/ peer = "legacy" /\ toHost' = <<>> /\ shake' = "negotiated"
      \/ peer # "legacy" /\ toHost' = <<0>> /\ shake' = "awaiting"
  BY <1>5 DEF Greets
<1>7. UNCHANGED <<linkConfig, hostVars, ctlUp, calls, tracked, toCtl, ran>>
  BY DEF Greets
<1>8. Greeted'
  <2>1. toHost' = <<>> => ~In(0, toHost')
    BY DEF In
  <2>2. toHost' = <<0>> => DOMAIN toHost' = {1} /\ toHost'[1] = 0 /\ Len(toHost') = 1
    OBVIOUS
  <2>3. toHost' = <<>> => DOMAIN toHost' = {}
    OBVIOUS
  <2> QED  BY <1>5, <1>6, <1>7, <2>1, <2>2, <2>3 DEF Greeted, Unspoken, In, Made, linkConfig, hostVars
<1>9. Lined'
  <2>1. DOMAIN ran' = {} /\ DOMAIN held' = {} /\ \A i \in DOMAIN toHost' : toHost'[i] = 0 /\ i = 1
    BY <1>5, <1>6, <1>7 DEF hostVars
  <2>2. LetGo' = {}
    BY <1>5, <1>7 DEF LetGo, Made
  <2>3. \A c \in Ids : ~InLine(c)'
    BY <2>1, IdsAre DEF InLine, In
  <2>4. Ascending(ran)' /\ Ascending(held)' /\ Ascending(toHost)'
    BY <2>1 DEF Ascending
  <2>5. \A c \in Ids : ~In(c, held)' /\ ~In(c, toHost)'
    BY <2>1, IdsAre DEF In
  <2> QED  BY <2>1, <2>2, <2>3, <2>4, <2>5 DEF Lined
<1> QED  BY <1>1, <1>2, <1>3, <1>4, <1>8, <1>9 DEF LinkInv

LEMMA CallsStep == ASSUME LinkInv, NEW m \in Methods, Calls(m) PROVE LinkInv'
<1>0. PICK n : n = Len(calls) + 1
  OBVIOUS
<1>1. PICK new : new = [m |-> m, st |-> IF shake = "failed" THEN "failed" ELSE "gated",
                        on |-> IF m = "unsubscribe" THEN tracked ELSE 0]
  OBVIOUS
<1>2. /\ LinkTypeOK /\ calls \in Seq(Call) /\ Len(calls) \in Nat /\ DOMAIN calls = 1..Len(calls)
      /\ tracked \in Ids \cup {0} /\ Len(calls) < MaxCalls /\ ctlUp
      /\ Proven /\ Greeted /\ Lined /\ OneAtATime /\ Keeps(sink, running, toCtl, ran)
  BY DEF LinkInv, LinkTypeOK, Call, Calls
<1>3. /\ new \in Call /\ new.m = m /\ (new.st = IF shake = "failed" THEN "failed" ELSE "gated")
      /\ (new.on = IF m = "unsubscribe" THEN tracked ELSE 0)
  BY <1>1, <1>2 DEF Call
<1>4. calls' = Append(calls, new)
  BY <1>1 DEF Calls
<1>5. /\ calls' \in Seq(Call) /\ Len(calls') = n /\ DOMAIN calls' = 1..n /\ calls'[n] = new
      /\ \A c \in 1..Len(calls) : calls'[c] = calls[c]
  BY <1>0, <1>2, <1>3, <1>4, AppendIs
<1>6. /\ Made' = Made \cup {n} /\ n \notin Made /\ Made \subseteq Ids /\ n \in Ids
      /\ \A c \in Made : c < n /\ calls'[c] = calls[c]
  BY <1>0, <1>2, <1>5, LinkAssumption DEF Made, Ids
<1>7. /\ UNCHANGED <<linkConfig, hostVars, shake, ctlUp, ended, toHost, toCtl, ran, frames>>
      /\ tracked' = IF m = "unsubscribe" THEN 0 ELSE tracked
  BY DEF Calls
<1>8. /\ m \in {"subscribe", "unsubscribe"} => Settled
      /\ m = "unsubscribe" => tracked # 0
  BY DEF Calls
<1>9. LinkTypeOK' /\ Len(calls') <= MaxCalls
  <2>1. tracked' \in Ids \cup {0} /\ calls' \in Seq(Call)
    BY <1>2, <1>5, <1>7
  <2>2. Len(calls') <= MaxCalls
    BY <1>0, <1>2, <1>5, LinkAssumption
  <2> QED  BY <1>2, <1>7, <2>1, <2>2 DEF LinkTypeOK, Call, linkConfig, hostVars
<1>10. Proven'
  BY <1>7, ProvenAlone DEF provenVars, linkConfig, hostVars
<1>11. Greeted'
  BY <1>2, <1>3, <1>5, <1>6, <1>7, <1>8 DEF Greeted, Unspoken, In, linkConfig, hostVars
<1>12. \A c \in Made : MayRequest(c)' <=> MayRequest(c)
  BY <1>6, <1>7 DEF MayRequest, linkConfig
<1>13. \A c : InLine(c)' <=> InLine(c)
  BY <1>7 DEF InLine, In, hostVars
<1>14. \A c : c # n => (c \in LetGo' <=> c \in LetGo)
  BY <1>6, <1>12 DEF LetGo
<1>15. n \in LetGo' => shake # "negotiated" /\ shake = "failed"
  BY <1>3, <1>5 DEF LetGo
<1>16. shake = "failed" => \A c \in Ids : ~InLine(c)
  BY <1>2, IdsAre DEF Greeted, InLine, In
<1>17. Lined'
  <2>1. Ascending(ran)' /\ Ascending(held)' /\ Ascending(toHost)'
    BY <1>2, <1>7 DEF Lined, Ascending, hostVars
  <2>2. /\ \A i \in DOMAIN ran', j \in DOMAIN held' : ran'[i] < held'[j]
        /\ \A i \in DOMAIN ran', j \in DOMAIN toHost' : ran'[i] < toHost'[j]
        /\ \A i \in DOMAIN held', j \in DOMAIN toHost' : held'[i] < toHost'[j]
    BY <1>2, <1>7 DEF Lined, hostVars
  <2>3. \A c \in Ids : InLine(c)' => c \in LetGo'
    <3>1. \A c \in Ids : InLine(c) => c \in LetGo /\ c # n
      BY <1>2, <1>6 DEF Lined, LetGo
    <3> QED  BY <1>13, <1>14, <3>1
  <2>4. \A c \in Made', d \in Ids : calls'[c].st = "gated" /\ InLine(d)' => d < c
    <3>1. \A d \in Ids : InLine(d) => d < n
      BY <1>2, <1>6 DEF Lined, LetGo
    <3> QED  BY <1>2, <1>6, <1>13, <3>1 DEF Lined
  <2>5. \A c \in LetGo', i \in DOMAIN ran' : c < ran'[i] => In(c, ran)'
    <3>1. ASSUME NEW c \in LetGo', NEW i \in DOMAIN ran, c < ran[i] PROVE In(c, ran)
      <4>1. ran[i] \in Ids /\ InLine(ran[i])
        BY <1>2 DEF LinkTypeOK, InLine, In
      <4>2. c # n
        BY <1>15, <1>16, <3>1, <4>1
      <4> QED  BY <1>2, <1>14, <3>1, <4>2 DEF Lined
    <3> QED  BY <1>7, <3>1 DEF In
  <2>6. hostUp' => \A c \in LetGo', d \in Ids : InLine(d)' /\ c < d => InLine(c)'
    <3>1. ASSUME hostUp, NEW c \in LetGo', NEW d \in Ids, InLine(d), c < d PROVE InLine(c)
      <4>1. c # n
        BY <1>15, <1>16, <3>1
      <4> QED  BY <1>2, <1>14, <3>1, <4>1 DEF Lined
    <3> QED  BY <1>7, <1>13, <3>1 DEF hostVars
  <2>7. hostUp' /\ ctlUp' /\ shake' = "negotiated" => \A c \in LetGo' : InLine(c)'
    BY <1>2, <1>7, <1>13, <1>14, <1>15 DEF Lined, hostVars
  <2>8. ctlUp' => \A c \in Ids : In(c, held)' \/ In(c, toHost)' => calls'[c].st = "sent"
    <3>1. \A c \in Ids : In(c, held) \/ In(c, toHost) => c \in Made
      BY <1>2 DEF Lined, InLine, LetGo
    <3>2. \A c : (In(c, held)' <=> In(c, held)) /\ (In(c, toHost)' <=> In(c, toHost))
      BY <1>7 DEF In, hostVars
    <3> QED  BY <1>2, <1>6, <1>7, <3>1, <3>2 DEF Lined
  <2> QED  BY <2>1, <2>2, <2>3, <2>4, <2>5, <2>6, <2>7, <2>8 DEF Lined
<1>18. /\ \A c \in Made : Open(c)' <=> Open(c)
       /\ Open(n)' => new.st = "gated"
  BY <1>3, <1>5, <1>6 DEF Open
<1>19. OneAtATime'
  <2>1. ctlUp /\ ctlUp'
    BY <1>2, <1>7
  <2>2. ASSUME NEW c \in Made', NEW d \in Made',
               Open(c)', calls'[c].m \in {"subscribe", "unsubscribe"},
               Open(d)', calls'[d].m \in {"subscribe", "unsubscribe"}
        PROVE  c = d
    <3>1. CASE c \in Made /\ d \in Made
      BY <1>2, <1>6, <1>18, <2>2, <3>1 DEF OneAtATime
    <3>2. CASE c = n /\ d \in Made
      BY <1>3, <1>5, <1>6, <1>8, <1>18, <2>2, <3>2 DEF Settled
    <3>3. CASE d = n /\ c \in Made
      BY <1>3, <1>5, <1>6, <1>8, <1>18, <2>2, <3>3 DEF Settled
    <3> QED  BY <1>6, <3>1, <3>2, <3>3
  <2>3. ClosedOwesNothing'
    BY <2>1 DEF ClosedOwesNothing
  <2>4. \A c \in Made' : calls'[c].m = "unsubscribe" => calls'[c].on # 0
    BY <1>2, <1>3, <1>5, <1>6, <1>8 DEF OneAtATime
  <2> QED  BY <2>2, <2>3, <2>4 DEF OneAtATime
<1>20. \A c : In(c, ran) => c \in Made
  <2>1. \A c : In(c, ran) => c \in Ids /\ InLine(c)
    BY <1>2 DEF LinkTypeOK, In, InLine
  <2> QED  BY <1>2, <2>1 DEF Lined, LetGo
<1>21. Belongs(sink, running, ran)'
  BY <1>2, <1>6, <1>7, <1>20 DEF Keeps, Belongs, In, hostVars
<1>22. Answers(running, toCtl, ran)'
  BY <1>2, <1>6, <1>7, <1>20 DEF Keeps, Answers, In, hostVars, linkConfig
<1>23. ctlUp' /\ hostUp' => Owed(running, toCtl, ran)'
  BY <1>2, <1>6, <1>7, <1>20 DEF Keeps, Owed, Answer, In, hostVars
<1>24. ctlUp' /\ hostUp' => Streams(sink, toCtl, ran)'
  <2> SUFFICES ASSUME hostUp PROVE Streams(sink, toCtl, ran)'
    BY <1>7 DEF hostVars
  <2>1. Streams(sink, toCtl, ran)
    BY <1>2 DEF Keeps
  <2>2. \A x : InStep(sink, toCtl, x)' <=> InStep(sink, toCtl, x)
    BY <1>7 DEF InStep, In, LastShot, hostVars
  <2>3. /\ \A c \in Made : Subscribing(c, ran)' <=> Subscribing(c, ran)
        /\ \A c \in Made : Pending(c, "unsubscribe")' <=> Pending(c, "unsubscribe")
    BY <1>6, <1>7, <1>18 DEF Subscribing, Pending, In, linkConfig
  <2>4. ~Subscribing(n, ran)'
    BY <1>6, <1>7, <1>20 DEF Subscribing, In
  <2>5. CASE m = "unsubscribe"
    <3>1. tracked' = 0 /\ tracked # 0
      BY <1>7, <1>8, <2>5
    <3>2. shake = "negotiated"
      BY <1>2, <3>1 DEF Greeted
    <3>3. Pending(n, "unsubscribe")' /\ ~In(n, ran)'
      BY <1>3, <1>5, <1>6, <1>7, <1>20, <2>5, <3>2 DEF Pending, Open, In
    <3>4. \A c \in Made : ~Subscribing(c, ran) /\ ~Pending(c, "unsubscribe")
      BY <1>8, <2>5 DEF Settled, Subscribing, Pending
    <3> QED  BY <1>6, <2>3, <2>4, <3>1, <3>3, <3>4 DEF Streams
  <2>6. CASE m # "unsubscribe"
    <3>1. ~Pending(n, "unsubscribe")' /\ tracked' = tracked
      BY <1>3, <1>5, <1>7, <2>6 DEF Pending
    <3>2. \A c : In(c, ran)' <=> In(c, ran)
      BY <1>7 DEF In
    <3>3. sink' = sink
      BY <1>7 DEF hostVars
    <3> QED  BY <1>6, <2>1, <2>2, <2>3, <2>4, <3>1, <3>2, <3>3 DEF Streams
  <2> QED  BY <2>5, <2>6
<1> QED  BY <1>9, <1>10, <1>11, <1>17, <1>19, <1>21, <1>22, <1>23, <1>24 DEF LinkInv, Keeps

\* Calls that change nothing but their state.
Relabelled ==
    /\ calls' \in Seq(Call) /\ Len(calls') = Len(calls) /\ Made' = Made
    /\ \A d \in Made : calls'[d].m = calls[d].m /\ calls'[d].on = calls[d].on

LEMMA SetState ==
    ASSUME LinkTypeOK, NEW c \in Made, NEW s \in {"gated", "sent", "ok", "failed"},
           calls' = [calls EXCEPT ![c].st = s]
    PROVE  /\ Relabelled /\ calls'[c].st = s
           /\ \A d \in Made : d # c => calls'[d].st = calls[d].st
<1>1. calls \in Seq(Call) /\ DOMAIN calls = Made /\ Len(calls) \in Nat
  BY DEF LinkTypeOK, Call, Made
<1>2. PICK new : new = [calls[c] EXCEPT !.st = s]
  OBVIOUS
<1>3. calls[c] \in Call
  BY <1>1
<1>4. new \in Call /\ new.m = calls[c].m /\ new.on = calls[c].on /\ new.st = s
  BY <1>2, <1>3 DEF Call
<1>5. calls' = [calls EXCEPT ![c] = new]
  BY <1>2
<1>6. /\ calls' \in Seq(Call) /\ Len(calls') = Len(calls) /\ calls'[c] = new
      /\ \A d \in Made : d # c => calls'[d] = calls[d]
  BY <1>1, <1>4, <1>5
<1> QED  BY <1>4, <1>6 DEF Relabelled, Made

LEMMA RejectedIs ==
    ASSUME LinkTypeOK, calls' = Rejected(calls)
    PROVE  /\ Relabelled
           /\ \A d \in Made : calls'[d].st = IF calls[d].st \in {"gated", "sent"} THEN "failed"
                                             ELSE calls[d].st
<1>1. calls \in Seq(Call) /\ DOMAIN calls = Made /\ Len(calls) \in Nat
  BY DEF LinkTypeOK, Call, Made
<1>2. ASSUME NEW d \in Made
      PROVE  /\ calls'[d] \in Call /\ calls'[d].m = calls[d].m /\ calls'[d].on = calls[d].on
             /\ calls'[d].st = IF calls[d].st \in {"gated", "sent"} THEN "failed"
                               ELSE calls[d].st
  <2>1. calls[d] \in Call
    BY <1>1
  <2>2. calls'[d] = IF calls[d].st \in {"gated", "sent"} THEN [calls[d] EXCEPT !.st = "failed"]
                    ELSE calls[d]
    BY <1>1 DEF Rejected
  <2>3. CASE calls[d].st \in {"gated", "sent"}
    <3>1. PICK new : new = [calls[d] EXCEPT !.st = "failed"]
      OBVIOUS
    <3>2. new \in Call /\ new.m = calls[d].m /\ new.on = calls[d].on /\ new.st = "failed"
      BY <2>1, <3>1 DEF Call
    <3> QED  BY <2>2, <2>3, <3>1, <3>2
  <2>4. CASE calls[d].st \notin {"gated", "sent"}
    BY <2>1, <2>2, <2>4
  <2> QED  BY <2>3, <2>4
<1>3. calls' \in [1..Len(calls) -> Call]
  <2>1. calls' = [d \in Made |-> IF calls[d].st \in {"gated", "sent"}
                                 THEN [calls[d] EXCEPT !.st = "failed"] ELSE calls[d]]
    BY <1>1 DEF Rejected
  <2> QED  BY <1>2, <2>1 DEF Made
<1>4. calls' \in Seq(Call) /\ Len(calls') = Len(calls)
  BY <1>1, <1>3
<1> QED  BY <1>2, <1>4 DEF Relabelled, Made

\* No call opens: callers still wait for one operation at a time.
LEMMA OneKept ==
    ASSUME LinkInv, Relabelled, ctlUp' => ctlUp, \A d \in Made : Open(d)' => Open(d),
           ~ctlUp' => \A d \in Made : ~Open(d)'
    PROVE  OneAtATime' /\ Len(calls') <= MaxCalls
<1>1. /\ Made' = Made /\ Len(calls') = Len(calls)
      /\ \A d \in Made : calls'[d].m = calls[d].m /\ calls'[d].on = calls[d].on
  BY DEF Relabelled
<1>2. OneAtATime /\ Len(calls) <= MaxCalls
  BY DEF LinkInv
<1>3. ClosedOwesNothing'
  BY <1>1 DEF ClosedOwesNothing
<1>4. \A c \in Made' : calls'[c].m = "unsubscribe" => calls'[c].on # 0
  BY <1>1, <1>2 DEF OneAtATime
<1> QED  BY <1>1, <1>2, <1>3, <1>4 DEF OneAtATime

LEMMA LinePlaces ==
    ASSUME LinkInv
    PROVE  /\ \A c \in Ids : InLine(c) => c \in Made
           /\ \A c : In(c, ran) => c \in Ids /\ c \in Made /\ InLine(c)
           /\ \A c : In(c, held) => c \in Ids /\ c \in Made /\ InLine(c)
           /\ \A c : In(c, toHost) => c = 0 \/ (c \in Ids /\ c \in Made /\ InLine(c))
           /\ 0 \notin Made /\ Made \subseteq Ids
<1>1. LinkTypeOK /\ Lined /\ Len(calls) <= MaxCalls
  BY DEF LinkInv
<1>2. \A c \in Ids : InLine(c) => c \in Made
  BY <1>1 DEF Lined, LetGo
<1>3. /\ \A c : In(c, ran) => c \in Ids
      /\ \A c : In(c, held) => c \in Ids
      /\ \A c : In(c, toHost) => c = 0 \/ c \in Ids
  BY <1>1 DEF LinkTypeOK, In
<1>4. 0 \notin Made /\ Made \subseteq Ids
  BY <1>1, LinkAssumption DEF LinkTypeOK, Made, Ids
<1> QED  BY <1>2, <1>3, <1>4 DEF InLine

LEMMA RequestsStep == ASSUME LinkInv, NEW c \in Ids, Requests(c) PROVE LinkInv'
<1>1. /\ LinkTypeOK /\ Proven /\ Greeted /\ Lined /\ OneAtATime
      /\ Keeps(sink, running, toCtl, ran) /\ toHost \in Seq({0} \cup Ids)
  BY DEF LinkInv, LinkTypeOK
<1>2. /\ ctlUp /\ shake = "negotiated" /\ c \in Made /\ calls[c].st = "gated"
      /\ \A d \in 1..(c - 1) : calls[d].st # "gated"
      /\ UNCHANGED <<linkConfig, hostVars, shake, ctlUp, tracked, ended, toCtl, ran, frames>>
  BY DEF Requests
<1>3. PICK s : s = IF MayRequest(c) THEN "sent" ELSE "failed"
  OBVIOUS
<1>4. /\ calls' = [calls EXCEPT ![c].st = s] /\ s \in {"gated", "sent", "ok", "failed"}
      /\ MayRequest(c) => s = "sent" /\ toHost' = Append(toHost, c)
      /\ ~MayRequest(c) => s = "failed" /\ toHost' = toHost
  BY <1>3 DEF Requests
<1>5. /\ Relabelled /\ calls'[c].st = s
      /\ \A d \in Made : d # c => calls'[d].st = calls[d].st
  BY <1>1, <1>2, <1>4, SetState
<1>6. /\ calls' \in Seq(Call) /\ Made' = Made
      /\ \A d \in Made : calls'[d].m = calls[d].m /\ calls'[d].on = calls[d].on
  BY <1>5 DEF Relabelled
<1>7. toHost' \in Seq({0} \cup Ids)
  BY <1>1, <1>4, AppendIs
<1>8. LinkTypeOK'
  BY <1>1, <1>2, <1>6, <1>7 DEF LinkTypeOK, Call, linkConfig, hostVars
<1>9. Proven'
  BY <1>2, ProvenAlone DEF provenVars, linkConfig, hostVars
<1>10. /\ \A d \in Made : Open(d)' => Open(d)
       /\ \A d \in Made : d # c => (Open(d)' <=> Open(d))
  BY <1>2, <1>5, <1>6 DEF Open
<1>11. OneAtATime' /\ Len(calls') <= MaxCalls
  BY <1>2, <1>5, <1>10, OneKept
<1>12. /\ \A x : In(x, toHost)' <=> In(x, toHost) \/ (MayRequest(c) /\ x = c)
       /\ \A x : (In(x, ran)' <=> In(x, ran)) /\ (In(x, held)' <=> In(x, held))
  <2>1. \A x : (In(x, ran)' <=> In(x, ran)) /\ (In(x, held)' <=> In(x, held))
    BY <1>2 DEF In, hostVars
  <2>2. CASE MayRequest(c)
    <3>1. \A x : In(x, Append(toHost, c)) <=> In(x, toHost) \/ x = c
      BY <1>1, InAppend
    <3>2. \A x : In(x, toHost)' <=> In(x, Append(toHost, c))
      BY <1>4, <2>2 DEF In
    <3> QED  BY <2>1, <2>2, <3>1, <3>2
  <2>3. CASE ~MayRequest(c)
    BY <1>4, <2>1, <2>3 DEF In
  <2> QED  BY <2>2, <2>3
<1>13. \A x : InLine(x)' <=> InLine(x) \/ (MayRequest(c) /\ x = c)
  BY <1>12 DEF InLine
<1>14. \A d \in Made : MayRequest(d)' <=> MayRequest(d)
  BY <1>2, <1>6 DEF MayRequest, linkConfig
<1>15. \A x : x \in LetGo' <=> x \in LetGo \/ (MayRequest(c) /\ x = c)
  BY <1>2, <1>4, <1>5, <1>6, <1>14 DEF LetGo
<1>16. /\ \A d \in Ids : InLine(d) => d < c
       /\ ~In(0, toHost) /\ c # 0 /\ ~InLine(c)
  <2>1. \A d \in Ids : InLine(d) => d < c
    BY <1>1, <1>2 DEF Lined
  <2>2. ~In(0, toHost) /\ c # 0 /\ ~(c < c)
    BY <1>1, <1>2, IdsAre DEF Greeted
  <2> QED  BY <2>1, <2>2
<1>17. Greeted'
  <2>1. ~In(0, toHost)'
    BY <1>12, <1>16
  <2> QED  BY <1>1, <1>2, <2>1 DEF Greeted, Unspoken, In, hostVars
<1>18. Lined'
  <2>1. Ascending(ran)' /\ Ascending(held)'
    BY <1>1, <1>2 DEF Lined, Ascending, hostVars
  <2>2. \A j \in DOMAIN toHost : toHost[j] \in Ids /\ InLine(toHost[j]) /\ toHost[j] < c
    <3>1. \A j \in DOMAIN toHost : toHost[j] \in Ids /\ In(toHost[j], toHost)
      BY <1>1, <1>16 DEF In
    <3> QED  BY <1>16, <3>1 DEF InLine
  <2>3. \A j \in DOMAIN toHost' : \/ j \in DOMAIN toHost /\ toHost'[j] = toHost[j]
                                 \/ /\ MayRequest(c) /\ toHost'[j] = c
                                    /\ \A i \in DOMAIN toHost : i < j
                                    /\ \A i \in DOMAIN toHost' : i <= j
    <3>1. CASE MayRequest(c)
      <4>1. /\ DOMAIN toHost' = 1..(Len(toHost) + 1) /\ DOMAIN toHost = 1..Len(toHost)
            /\ Len(toHost) \in Nat /\ toHost'[Len(toHost) + 1] = c
            /\ \A j \in DOMAIN toHost : toHost'[j] = toHost[j]
        BY <1>1, <1>4, <3>1, AppendIs
      <4> QED  BY <3>1, <4>1
    <3>2. CASE ~MayRequest(c)
      BY <1>4, <3>2
    <3> QED  BY <3>1, <3>2
  <2>4. Ascending(toHost)'
    <3>1. DOMAIN toHost' \subseteq Nat /\ DOMAIN toHost \subseteq Nat
      BY <1>1, <1>7
    <3>2. ASSUME NEW i \in DOMAIN toHost', NEW j \in DOMAIN toHost', i < j
          PROVE  toHost'[i] < toHost'[j]
      <4>1. CASE j \in DOMAIN toHost /\ i \in DOMAIN toHost
        <5>1. toHost'[i] = toHost[i] /\ toHost'[j] = toHost[j]
          BY <2>3, <3>1, <4>1
        <5> QED  BY <1>1, <3>2, <4>1, <5>1 DEF Lined, Ascending
      <4>2. CASE j \notin DOMAIN toHost /\ i \in DOMAIN toHost
        <5>1. toHost'[i] = toHost[i] /\ toHost'[j] = c
          BY <2>3, <3>1, <4>2
        <5> QED  BY <2>2, <4>2, <5>1
      <4>3. CASE i \notin DOMAIN toHost
        BY <2>3, <3>1, <3>2, <4>3
      <4> QED  BY <4>1, <4>2, <4>3
    <3> QED  BY <3>2 DEF Ascending
  <2>5. /\ \A i \in DOMAIN ran', j \in DOMAIN held' : ran'[i] < held'[j]
        /\ \A i \in DOMAIN ran', j \in DOMAIN toHost' : ran'[i] < toHost'[j]
        /\ \A i \in DOMAIN held', j \in DOMAIN toHost' : held'[i] < toHost'[j]
    <3>1. /\ \A i \in DOMAIN ran : ran[i] < c
          /\ \A i \in DOMAIN held : held[i] < c
      <4>1. /\ \A i \in DOMAIN ran : In(ran[i], ran)
            /\ \A i \in DOMAIN held : In(held[i], held)
        BY DEF In
      <4> QED  BY <1>16, <4>1, LinePlaces
    <3> QED  BY <1>1, <1>2, <2>3, <3>1 DEF Lined, hostVars
  <2>6. \A x \in Ids : InLine(x)' => x \in LetGo'
    BY <1>1, <1>13, <1>15 DEF Lined
  <2>7. \A x \in Made', d \in Ids : calls'[x].st = "gated" /\ InLine(d)' => d < x
    <3>1. ASSUME NEW x \in Made, NEW d \in Ids, calls'[x].st = "gated", InLine(d)' PROVE d < x
      <4>1. x # c /\ calls[x].st = "gated"
        BY <1>3, <1>5, <3>1
      <4>2. CASE InLine(d)
        BY <1>1, <3>1, <4>1, <4>2 DEF Lined
      <4>3. CASE d = c
        <5>1. x \in Nat /\ c \in Nat /\ x \in 1..Len(calls) /\ x >= 1
          BY <1>2, LinePlaces, IdsAre DEF Made
        <5>2. ~(x < c)
          BY <1>2, <4>1, <5>1
        <5> QED  BY <4>1, <4>3, <5>1, <5>2
      <4> QED  BY <1>13, <3>1, <4>2, <4>3
    <3> QED  BY <1>6, <3>1
  <2>8. \A x \in LetGo', i \in DOMAIN ran' : x < ran'[i] => In(x, ran)'
    <3>1. ASSUME NEW x \in LetGo', NEW i \in DOMAIN ran, x < ran[i] PROVE In(x, ran)
      <4>1. ran[i] \in Ids /\ ran[i] < c /\ ran[i] \in Nat /\ c \in Nat
        <5>1. In(ran[i], ran)
          BY DEF In
        <5> QED  BY <1>16, <5>1, LinePlaces, IdsAre
      <4>2. x # c
        BY <3>1, <4>1
      <4> QED  BY <1>1, <1>15, <3>1, <4>2 DEF Lined
    <3> QED  BY <1>2, <1>12, <3>1
  <2>9. hostUp' => \A x \in LetGo', d \in Ids : InLine(d)' /\ x < d => InLine(x)'
    <3>1. ASSUME hostUp, NEW x \in LetGo PROVE InLine(x)
      BY <1>1, <1>2, <3>1 DEF Lined
    <3> QED  BY <1>2, <1>13, <1>15, <3>1 DEF hostVars
  <2>10. hostUp' /\ ctlUp' /\ shake' = "negotiated" => \A x \in LetGo' : InLine(x)'
    BY <1>1, <1>2, <1>13, <1>15 DEF Lined, hostVars
  <2>11. ctlUp' => \A x \in Ids : In(x, held)' \/ In(x, toHost)' => calls'[x].st = "sent"
    BY <1>1, <1>2, <1>4, <1>5, <1>12, LinePlaces, IdsAre DEF Lined
  <2> QED  BY <2>1, <2>4, <2>5, <2>6, <2>7, <2>8, <2>9, <2>10, <2>11 DEF Lined
<1>19. Belongs(sink, running, ran)'
  <2>1. sink' = sink /\ running' = running
    BY <1>2 DEF hostVars
  <2>2. Belongs(sink, running, ran)
    BY <1>1 DEF Keeps
  <2> QED  BY <1>2, <1>5, <1>6, <1>12, <2>1, <2>2, LinePlaces DEF Belongs
<1>20. Answers(running, toCtl, ran)'
  <2>1. /\ running' = running /\ toCtl' = toCtl /\ known' = known /\ ctlUp' /\ ctlUp
        /\ Answers(running, toCtl, ran)
    BY <1>1, <1>2 DEF hostVars, linkConfig, Keeps
  <2>2. \A i \in DOMAIN toCtl : toCtl[i].t \in {"response", "binary"} =>
          toCtl[i].id \in Made /\ In(toCtl[i].id, ran)'
    BY <1>12, <2>1, LinePlaces DEF Answers
  <2>3. \A i \in DOMAIN toCtl : toCtl[i].t = "response" => toCtl[i].id # c
    BY <1>2, <2>1 DEF Answers
  <2> QED  BY <1>5, <1>6, <2>1, <2>2, <2>3 DEF Answers
<1>21. ctlUp' /\ hostUp' => Owed(running, toCtl, ran)'
  <2> SUFFICES ASSUME hostUp PROVE Owed(running, toCtl, ran)'
    BY <1>2 DEF hostVars
  <2>1. Owed(running, toCtl, ran) /\ running' = running /\ toCtl' = toCtl /\ ~In(c, ran)
    BY <1>1, <1>2, <1>16 DEF Keeps, hostVars, InLine
  <2>2. \A x : Answer(x, toCtl)' <=> Answer(x, toCtl)
    BY <2>1 DEF Answer
  <2> QED  BY <1>5, <1>6, <1>12, <2>1, <2>2 DEF Owed
<1>22. ctlUp' /\ hostUp' => Streams(sink, toCtl, ran)'
  <2> SUFFICES ASSUME hostUp PROVE Streams(sink, toCtl, ran)'
    BY <1>2 DEF hostVars
  <2>1. /\ Streams(sink, toCtl, ran) /\ ~In(c, ran) /\ sink' = sink /\ tracked' = tracked
    BY <1>1, <1>2, <1>16 DEF Keeps, hostVars, InLine
  <2>2. \A x : InStep(sink, toCtl, x)' <=> InStep(sink, toCtl, x)
    BY <1>2 DEF InStep, In, LastShot, hostVars
  <2>3. \A d \in Made : Subscribing(d, ran)' <=> Subscribing(d, ran)
    BY <1>2, <1>6, <1>10, <1>12, <2>1 DEF Subscribing, Pending, linkConfig
  <2>4. \A d \in Made : Pending(d, "unsubscribe")' <=> Pending(d, "unsubscribe")
    <3>1. calls[c].m = "unsubscribe" => MayRequest(c)
      BY DEF MayRequest, requiredCapability
    <3>2. calls[c].m = "unsubscribe" => Open(c) /\ Open(c)'
      BY <1>2, <1>4, <1>5, <1>6, <3>1 DEF Open
    <3> QED  BY <1>6, <1>10, <3>2 DEF Pending
  <2> QED  BY <1>6, <1>12, <2>1, <2>2, <2>3, <2>4 DEF Streams
<1> QED  BY <1>8, <1>9, <1>11, <1>17, <1>18, <1>19, <1>20, <1>21, <1>22 DEF LinkInv, Keeps

LEMMA TailIs ==
    ASSUME NEW S, NEW s \in Seq(S), s # <<>>, NEW o, o = Tail(s)
    PROVE  /\ o \in Seq(S) /\ 1 \in DOMAIN s /\ Head(s) = s[1] /\ Head(s) \in S
           /\ DOMAIN s \subseteq Nat /\ DOMAIN o \subseteq Nat
           /\ \A i \in DOMAIN o : i + 1 \in DOMAIN s /\ o[i] = s[i + 1]
           /\ \A i \in DOMAIN s : i # 1 => i - 1 \in DOMAIN o /\ o[i - 1] = s[i]
<1>1. /\ o \in Seq(S) /\ Len(s) \in Nat /\ Len(s) >= 1 /\ Len(o) = Len(s) - 1
      /\ DOMAIN s = 1..Len(s) /\ DOMAIN o = 1..Len(o)
  OBVIOUS
<1>2. \A i \in 1..(Len(s) - 1) : o[i] = s[i + 1]
  OBVIOUS
<1>3. 1 \in DOMAIN s /\ Head(s) = s[1] /\ Head(s) \in S
  BY <1>1
<1>4. \A i \in DOMAIN o : i + 1 \in DOMAIN s /\ o[i] = s[i + 1]
  BY <1>1, <1>2
<1>5. ASSUME NEW i \in DOMAIN s, i # 1 PROVE i - 1 \in DOMAIN o /\ o[i - 1] = s[i]
  <2>1. i - 1 \in 1..(Len(s) - 1) /\ (i - 1) + 1 = i
    BY <1>1, <1>5
  <2> QED  BY <1>1, <1>2, <2>1
<1>6. DOMAIN s \subseteq Nat /\ DOMAIN o \subseteq Nat
  BY <1>1
<1> QED  BY <1>1, <1>3, <1>4, <1>5, <1>6

LEMMA ClosesStep ==
    ASSUME LinkInv, CtlCloses, UNCHANGED <<linkConfig, hostVars, toCtl, ran, frames>>
    PROVE  LinkInv'
<1>1. /\ LinkTypeOK /\ Proven /\ Greeted /\ Lined /\ OneAtATime
      /\ Keeps(sink, running, toCtl, ran) /\ toHost \in Seq({0} \cup Ids)
      /\ tracked \in Ids \cup {0} /\ ended \in SUBSET Ids
  BY DEF LinkInv, LinkTypeOK
<1>2. /\ ctlUp' = FALSE /\ tracked' = 0 /\ toHost' \in Cut(toHost)
      /\ shake' = (IF shake \in {"opening", "awaiting"} THEN "failed" ELSE shake)
      /\ calls' = Rejected(calls)
      /\ ended' = ended \cup ({tracked} \ {0}) \cup StreamsOf(calls)
  BY DEF CtlCloses
<1>3. /\ Relabelled
      /\ \A d \in Made : calls'[d].st = IF calls[d].st \in {"gated", "sent"} THEN "failed"
                                        ELSE calls[d].st
  BY <1>1, <1>2, RejectedIs
<1>4. /\ calls' \in Seq(Call) /\ Made' = Made /\ DOMAIN calls = Made
      /\ \A d \in Made : calls'[d].m = calls[d].m /\ calls'[d].on = calls[d].on
  BY <1>1, <1>3 DEF Relabelled, LinkTypeOK, Made
<1>5. /\ toHost' \in Seq({0} \cup Ids) /\ Len(toHost') \in 0..Len(toHost)
      /\ DOMAIN toHost' = 1..Len(toHost') /\ DOMAIN toHost = 1..Len(toHost)
      /\ \A i \in 1..Len(toHost') : toHost'[i] = toHost[i]
  BY <1>1, <1>2, CutIs
<1>6. /\ Len(toHost) \in Nat /\ DOMAIN toHost' \subseteq DOMAIN toHost
      /\ DOMAIN toHost \subseteq Nat
      /\ \A i \in DOMAIN toHost' : toHost'[i] = toHost[i]
  BY <1>1, <1>5
<1>7. LinkTypeOK'
  <2>1. \A d \in Made : calls[d].m = "unsubscribe" => calls[d].on \in Ids
    BY <1>1, CallTypes DEF OneAtATime
  <2>2. StreamsOf(calls) \subseteq Ids
    BY <1>4, <2>1 DEF StreamsOf
  <2>3. ended' \in SUBSET Ids
    BY <1>1, <1>2, <2>2
  <2>4. shake' \in {"opening", "awaiting", "negotiated", "failed"}
    BY <1>1, <1>2 DEF LinkTypeOK
  <2> QED  BY <1>1, <1>2, <1>4, <1>5, <2>3, <2>4 DEF LinkTypeOK, Call, linkConfig, hostVars
<1>8. Proven'
  BY ProvenAlone DEF provenVars, linkConfig, hostVars
<1>9. OneAtATime' /\ Len(calls') <= MaxCalls
  <2>1. \A d \in Made : ~Open(d)'
    BY <1>3, <1>4 DEF Open
  <2> QED  BY <1>2, <1>3, <2>1, OneKept
<1>10. /\ \A x : In(x, toHost)' => In(x, toHost)
       /\ \A x : (In(x, ran)' <=> In(x, ran)) /\ (In(x, held)' <=> In(x, held))
  BY <1>6 DEF In, hostVars
<1>11. Greeted'
  <2>1. UNCHANGED <<peer, phase, toCtl, ran, held>>
    BY DEF linkConfig, hostVars
  <2>2. \A i \in DOMAIN toHost' : toHost'[i] = 0 => Len(toHost') = 1 /\ peer # "legacy"
    <3>1. ASSUME NEW i \in DOMAIN toHost', toHost'[i] = 0 PROVE Len(toHost') = 1 /\ peer # "legacy"
      <4>1. Len(toHost) = 1 /\ peer # "legacy"
        BY <1>1, <1>6, <3>1 DEF Greeted
      <4> QED  BY <1>5, <3>1, <4>1
    <3> QED  BY <3>1
  <2>3. Unspoken' => Unspoken
    BY <1>2, <1>10 DEF Unspoken
  <2>4. shake' = "negotiated" <=> shake = "negotiated"
    BY <1>2
  <2>5. shake' \notin {"opening", "awaiting"}
    BY <1>2
  <2>6. shake # "negotiated" => \A d \in Made : calls'[d].st \in {"gated", "failed"}
    BY <1>1, <1>3 DEF Greeted
  <2> QED  BY <1>1, <1>2, <1>4, <1>6, <1>10, <2>1, <2>2, <2>3, <2>4, <2>5, <2>6 DEF Greeted
<1>12. \A d \in Made : MayRequest(d)' <=> MayRequest(d)
  BY <1>4 DEF MayRequest, linkConfig
<1>13. /\ \A x : x \in LetGo => x \in LetGo'
       /\ \A x \in LetGo' : x \in LetGo \/ (x \in Made /\ calls[x].st = "gated")
  BY <1>3, <1>4, <1>12 DEF LetGo
<1>14. \A x : InLine(x)' => InLine(x)
  BY <1>10 DEF InLine
<1>15. Lined'
  <2>1. ran' = ran /\ held' = held /\ hostUp' = hostUp
    BY DEF hostVars
  <2>2. Ascending(ran)' /\ Ascending(held)' /\ Ascending(toHost)'
    BY <1>1, <1>6, <2>1 DEF Lined, Ascending
  <2>3. /\ \A i \in DOMAIN ran', j \in DOMAIN held' : ran'[i] < held'[j]
        /\ \A i \in DOMAIN ran', j \in DOMAIN toHost' : ran'[i] < toHost'[j]
        /\ \A i \in DOMAIN held', j \in DOMAIN toHost' : held'[i] < toHost'[j]
    BY <1>1, <1>6, <2>1 DEF Lined
  <2>4. \A x \in Ids : InLine(x)' => x \in LetGo'
    BY <1>1, <1>13, <1>14 DEF Lined
  <2>5. \A x \in Made' : calls'[x].st # "gated"
    BY <1>3, <1>4
  <2>6. ASSUME NEW x \in LetGo', NEW d \in Ids, InLine(d), x < d PROVE x \in LetGo
    <3>1. CASE x \in Made /\ calls[x].st = "gated"
      <4>1. d < x
        BY <1>1, <2>6, <3>1 DEF Lined
      <4>2. d \in Nat /\ x \in Nat
        BY <3>1, IdsAre, LinePlaces
      <4> QED  BY <2>6, <4>1, <4>2
    <3> QED  BY <1>13, <3>1
  <2>7. \A x \in LetGo', i \in DOMAIN ran' : x < ran'[i] => In(x, ran)'
    <3>1. \A i \in DOMAIN ran : ran[i] \in Ids /\ InLine(ran[i])
      BY LinePlaces DEF In
    <3> QED  BY <1>1, <1>10, <2>1, <2>6, <3>1 DEF Lined
  <2>8. hostUp' => \A x \in LetGo', d \in Ids : InLine(d)' /\ x < d => InLine(x)'
    <3>1. ASSUME hostUp, NEW x \in LetGo', NEW d \in Ids, InLine(d)', x < d PROVE InLine(x)'
      <4>1. InLine(x) /\ x \in LetGo
        BY <1>1, <1>14, <2>6, <3>1 DEF Lined
      <4>2. x \in Nat /\ d \in Nat
        BY <4>1, IdsAre, LinePlaces DEF LetGo
      <4>3. CASE In(x, ran) \/ In(x, held)
        BY <1>10, <4>3 DEF InLine
      <4>4. CASE In(x, toHost)
        <5>1. PICK k \in DOMAIN toHost : toHost[k] = x
          BY <4>4 DEF In
        <5>2. ~In(d, ran) /\ ~In(d, held)
          <6>1. In(d, ran) \/ In(d, held) => d < x
            BY <1>1, <5>1 DEF Lined, In
          <6> QED  BY <3>1, <4>2, <6>1
        <5>3. PICK i \in DOMAIN toHost' : toHost'[i] = d
          BY <1>10, <3>1, <5>2 DEF InLine, In
        <5>4. i \in DOMAIN toHost /\ toHost[i] = d /\ i \in Nat /\ k \in Nat
          BY <1>6, <5>1, <5>3
        <5>5. ~(i < k) /\ i # k
          BY <1>1, <3>1, <4>2, <5>1, <5>4 DEF Lined, Ascending
        <5>6. k \in DOMAIN toHost'
          BY <1>5, <5>1, <5>3, <5>4, <5>5
        <5>7. toHost'[k] = x
          BY <1>6, <5>1, <5>6
        <5> QED  BY <5>6, <5>7 DEF InLine, In
      <4> QED  BY <4>1, <4>3, <4>4 DEF InLine
    <3> QED  BY <2>1, <3>1
  <2> QED  BY <1>2, <2>2, <2>3, <2>4, <2>5, <2>7, <2>8 DEF Lined
<1>16. Belongs(sink, running, ran)'
  <2>1. sink' = sink /\ running' = running /\ Belongs(sink, running, ran)
    BY <1>1 DEF hostVars, Keeps
  <2> QED  BY <1>2, <1>4, <1>10, <2>1, LinePlaces DEF Belongs
<1>17. Answers(running, toCtl, ran)'
  <2>1. /\ running' = running /\ toCtl' = toCtl /\ known' = known
        /\ Answers(running, toCtl, ran)
    BY <1>1 DEF hostVars, linkConfig, Keeps
  <2>2. \A i \in DOMAIN toCtl : toCtl[i].t \in {"response", "binary"} =>
          toCtl[i].id \in Made /\ In(toCtl[i].id, ran)'
    BY <1>10, <2>1, LinePlaces DEF Answers
  <2> QED  BY <1>2, <1>4, <2>1, <2>2 DEF Answers
<1> QED  BY <1>2, <1>7, <1>8, <1>9, <1>11, <1>15, <1>16, <1>17 DEF LinkInv, Keeps

LEMMA TakesAckStep == LinkInv /\ TakesAck => LinkInv'
<1> SUFFICES ASSUME LinkInv, TakesAck PROVE LinkInv'
  OBVIOUS
<1>1. /\ LinkTypeOK /\ Proven /\ Greeted /\ Lined /\ OneAtATime
      /\ Keeps(sink, running, toCtl, ran) /\ toCtl \in Seq(Messages)
      /\ Len(calls) <= MaxCalls /\ calls \in Seq(Call)
  BY DEF LinkInv, LinkTypeOK, Messages, Call
<1>2. /\ ctlUp /\ shake = "awaiting" /\ toCtl # <<>> /\ toCtl' = Tail(toCtl)
      /\ UNCHANGED <<linkConfig, hostVars, ctlUp, tracked, ended, toHost, ran, frames>>
      /\ \/ shake' = "failed" /\ calls' = Rejected(calls)
         \/ shake' = "negotiated" /\ calls' = calls
  BY DEF TakesAck
<1>3. /\ Relabelled
      /\ \A d \in Made : Open(d)' => Open(d)
      /\ shake' = "failed" => \A d \in Made : calls'[d].st \in {"gated", "failed"}
      /\ shake' = "negotiated" => \A d \in Made : calls'[d].st = "gated"
  <2>1. \A d \in Made : calls[d].st = "gated"
    BY <1>1, <1>2 DEF Greeted
  <2>2. CASE shake' = "negotiated" /\ calls' = calls
    BY <1>1, <2>1, <2>2 DEF Relabelled, Made, Open
  <2>3. CASE shake' = "failed" /\ calls' = Rejected(calls)
    <3>1. /\ Relabelled
          /\ \A d \in Made : calls'[d].st = IF calls[d].st \in {"gated", "sent"} THEN "failed"
                                            ELSE calls[d].st
      BY <1>1, <2>3, RejectedIs
    <3> QED  BY <2>1, <2>3, <3>1 DEF Relabelled, Open
  <2> QED  BY <1>2, <2>2, <2>3
<1>4. /\ calls' \in Seq(Call) /\ Made' = Made
      /\ \A d \in Made : calls'[d].m = calls[d].m /\ calls'[d].on = calls[d].on
  BY <1>3 DEF Relabelled
<1>5. /\ toCtl' \in Seq(Messages) /\ \A i \in DOMAIN toCtl' : i + 1 \in DOMAIN toCtl /\ toCtl'[i] = toCtl[i + 1]
  BY <1>1, <1>2, TailIs
<1>6. LinkTypeOK'
  BY <1>1, <1>2, <1>4, <1>5 DEF LinkTypeOK, Call, Messages, linkConfig, hostVars
<1>7. Proven'
  BY <1>2, ProvenAlone DEF provenVars, linkConfig, hostVars
<1>8. OneAtATime' /\ Len(calls') <= MaxCalls
  BY <1>2, <1>3, OneKept
<1>9. /\ ran = <<>> /\ held = <<>> /\ tracked = 0 /\ ~In(0, toHost) /\ phase # "awaiting-hello"
      /\ \A i \in DOMAIN toHost : toHost[i] = 0
  BY <1>1, <1>2 DEF Greeted, Unspoken
<1>10. DOMAIN toHost = {} /\ DOMAIN ran = {} /\ DOMAIN held = {}
  BY <1>9 DEF In
<1>11. \A x : ~In(x, ran)' /\ ~In(x, held)' /\ ~In(x, toHost)' /\ ~InLine(x)'
  BY <1>2, <1>10 DEF In, InLine, hostVars
<1>12. Greeted'
  BY <1>2, <1>3, <1>4, <1>9, <1>10, <1>11 DEF Greeted, Unspoken, hostVars
<1>13. Lined'
  <2>1. Ascending(ran)' /\ Ascending(held)' /\ Ascending(toHost)'
    BY <1>2, <1>10 DEF Ascending, hostVars
  <2>2. shake' = "negotiated" => LetGo' = {}
    BY <1>3, <1>4 DEF LetGo
  <2> QED  BY <1>2, <1>10, <1>11, <2>1, <2>2 DEF Lined, hostVars
<1>14. sink = 0 /\ running = {} /\ \A i \in DOMAIN toCtl : toCtl[i].t \notin {"response", "binary"}
  <2>1. \A x : ~In(x, ran)
    BY <1>10 DEF In
  <2> QED  BY <1>1, <2>1 DEF Keeps, Belongs, Answers
<1>15. sink' = 0 /\ running' = {} /\ tracked' = 0 /\ \A i \in DOMAIN toCtl' : toCtl'[i].t \notin {"response", "binary"}
  BY <1>2, <1>5, <1>9, <1>14 DEF hostVars
<1>16. Keeps(sink, running, toCtl, ran)'
  BY <1>11, <1>15 DEF Keeps, Belongs, Answers, Owed, Streams, Subscribing, InStep
<1> QED  BY <1>6, <1>7, <1>8, <1>12, <1>13, <1>16 DEF LinkInv

LEMMA TakesResponseStep == LinkInv /\ TakesResponse => LinkInv'
<1> SUFFICES ASSUME LinkInv, TakesResponse PROVE LinkInv'
  OBVIOUS
<1>1. /\ LinkTypeOK /\ Proven /\ Greeted /\ Lined /\ OneAtATime
      /\ Keeps(sink, running, toCtl, ran) /\ toCtl \in Seq(Messages)
      /\ tracked \in Ids \cup {0} /\ ended \in SUBSET Ids
  BY DEF LinkInv, LinkTypeOK, Messages
<1>2. PICK r, c, s : /\ r = Head(toCtl) /\ c = r.id
                     /\ s = IF r.ok THEN "ok" ELSE "failed"
  OBVIOUS
<1>3. /\ ctlUp /\ toCtl # <<>> /\ toCtl' = Tail(toCtl) /\ r.t = "response"
      /\ UNCHANGED <<linkConfig, hostVars, shake, ctlUp, toHost, ran, frames>>
      /\ calls' = [calls EXCEPT ![c].st = s]
      /\ tracked' = (IF calls[c].m = "subscribe" /\ r.ok THEN c ELSE tracked)
      /\ ended' = (IF calls[c].m = "unsubscribe" THEN ended \cup {calls[c].on} ELSE ended)
  BY <1>2 DEF TakesResponse
<1>4. /\ toCtl' \in Seq(Messages) /\ 1 \in DOMAIN toCtl /\ r = toCtl[1] /\ r \in Messages
      /\ DOMAIN toCtl \subseteq Nat /\ DOMAIN toCtl' \subseteq Nat
      /\ \A i \in DOMAIN toCtl' : i + 1 \in DOMAIN toCtl /\ toCtl'[i] = toCtl[i + 1]
      /\ \A i \in DOMAIN toCtl : i # 1 => i - 1 \in DOMAIN toCtl' /\ toCtl'[i - 1] = toCtl[i]
  BY <1>1, <1>2, <1>3, TailIs
<1>5. /\ Belongs(sink, running, ran) /\ Answers(running, toCtl, ran)
      /\ hostUp => Owed(running, toCtl, ran) /\ Streams(sink, toCtl, ran)
  BY <1>1, <1>3 DEF Keeps
<1>6. /\ In(c, ran) /\ c \in Ids /\ c \in Made /\ c \notin running /\ calls[c].st = "sent"
      /\ calls[c].m = "subscribe" => r.ok = known
      /\ s \in {"gated", "sent", "ok", "failed"} /\ s \notin {"gated", "sent"}
  <2>1. In(c, ran) /\ c \notin running /\ calls[c].st = "sent" /\ (calls[c].m = "subscribe" => r.ok = known)
    BY <1>2, <1>3, <1>4, <1>5 DEF Answers
  <2>2. s \in {"gated", "sent", "ok", "failed"} /\ s \notin {"gated", "sent"}
    BY <1>2
  <2> QED  BY <2>1, <2>2, LinePlaces
<1>7. /\ Relabelled /\ calls'[c].st = s
      /\ \A d \in Made : d # c => calls'[d].st = calls[d].st
  BY <1>1, <1>3, <1>6, SetState
<1>8. /\ calls' \in Seq(Call) /\ Made' = Made
      /\ \A d \in Made : calls'[d].m = calls[d].m /\ calls'[d].on = calls[d].on
  BY <1>7 DEF Relabelled
<1>9. LinkTypeOK'
  <2>1. tracked' \in Ids \cup {0}
    BY <1>1, <1>3, <1>6
  <2>2. calls[c].m = "unsubscribe" => calls[c].on \in Ids
    BY <1>1, <1>6, CallTypes DEF OneAtATime
  <2>3. ended' \in SUBSET Ids
    BY <1>1, <1>3, <2>2
  <2> QED  BY <1>1, <1>3, <1>4, <1>8, <2>1, <2>3 DEF LinkTypeOK, Call, Messages, linkConfig, hostVars
<1>10. Proven'
  BY <1>3, ProvenAlone DEF provenVars, linkConfig, hostVars
<1>11. /\ \A d \in Made : Open(d)' => Open(d)
       /\ \A d \in Made : d # c => (Open(d)' <=> Open(d))
       /\ ~Open(c)' /\ Open(c)
  BY <1>6, <1>7, <1>8 DEF Open
<1>12. OneAtATime' /\ Len(calls') <= MaxCalls
  BY <1>3, <1>7, <1>11, OneKept
<1>13. shake = "negotiated" /\ phase # "awaiting-hello" /\ ~Unspoken
  BY <1>1, <1>3, <1>6 DEF Greeted
<1>14. Greeted'
  BY <1>1, <1>3, <1>13 DEF Greeted, Unspoken, In, hostVars
<1>15. \A x : /\ (In(x, ran)' <=> In(x, ran)) /\ (In(x, held)' <=> In(x, held))
              /\ (In(x, toHost)' <=> In(x, toHost))
  BY <1>3 DEF In, hostVars
<1>16. \A x : InLine(x)' <=> InLine(x)
  BY <1>15 DEF InLine
<1>17. LetGo' = LetGo
  <2>1. \A d \in Made : MayRequest(d)' <=> MayRequest(d)
    BY <1>3, <1>8 DEF MayRequest, linkConfig
  <2>2. \A d \in Made : calls'[d].st # "gated" <=> calls[d].st # "gated"
    BY <1>6, <1>7
  <2> QED  BY <1>8, <2>1, <2>2 DEF LetGo
<1>18. Lined'
  <2>1. ran' = ran /\ held' = held /\ toHost' = toHost /\ hostUp' = hostUp /\ shake' = shake /\ ctlUp' = ctlUp
    BY <1>3 DEF hostVars
  <2>2. Ascending(ran)' /\ Ascending(held)' /\ Ascending(toHost)'
    BY <1>1, <2>1 DEF Lined, Ascending
  <2>3. \A x \in Made', d \in Ids : calls'[x].st = "gated" /\ InLine(d)' => d < x
    <3>1. \A x \in Made : calls'[x].st = "gated" => calls[x].st = "gated"
      BY <1>6, <1>7
    <3> QED  BY <1>1, <1>8, <1>16, <3>1 DEF Lined
  <2>4. ~In(c, held) /\ ~In(c, toHost)
    <3>1. PICK i \in DOMAIN ran : ran[i] = c
      BY <1>6 DEF In
    <3>2. ~(c < c)
      BY <1>6, IdsAre
    <3> QED  BY <1>1, <3>1, <3>2 DEF Lined, In
  <2>5. \A x \in Ids : In(x, held)' \/ In(x, toHost)' => calls'[x].st = "sent"
    <3>1. \A x \in Ids : In(x, held) \/ In(x, toHost) => x \in Made /\ x # c /\ calls[x].st = "sent"
      BY <1>1, <1>3, <2>4, LinePlaces, IdsAre DEF Lined
    <3> QED  BY <1>7, <1>15, <3>1
  <2> QED  BY <1>1, <1>15, <1>16, <1>17, <2>1, <2>2, <2>3, <2>5 DEF Lined
<1>19. Belongs(sink, running, ran)'
  <2>1. sink' = sink /\ running' = running
    BY <1>3 DEF hostVars
  <2> QED  BY <1>3, <1>5, <1>6, <1>7, <1>8, <1>15, <2>1, LinePlaces DEF Belongs
<1>20. Answers(running, toCtl, ran)'
  <2>1. /\ running' = running /\ known' = known /\ ctlUp' = ctlUp
    BY <1>3 DEF hostVars, linkConfig
  <2>2. \A i \in DOMAIN toCtl : toCtl[i].t \in {"response", "binary"} =>
          toCtl[i].id \in Made /\ In(toCtl[i].id, ran')
    BY <1>5, <1>15, LinePlaces DEF Answers
  <2>3. \A i \in DOMAIN toCtl : toCtl[i].t = "response" /\ i # 1 => toCtl[i].id # c
    BY <1>2, <1>3, <1>4, <1>5 DEF Answers
  <2>4. \A i \in DOMAIN toCtl' : i \in Nat /\ i + 1 # 1 /\ i + 1 \in DOMAIN toCtl /\ toCtl'[i] = toCtl[i + 1]
    BY <1>4
  <2>5. \A i \in DOMAIN toCtl' : toCtl'[i].t = "binary" =>
          In(toCtl'[i].id, ran') /\ calls'[toCtl'[i].id].m = "subscribe"
    BY <1>5, <1>8, <2>2, <2>4 DEF Answers
  <2>6. \A i \in DOMAIN toCtl' : toCtl'[i].t = "response" =>
          /\ In(toCtl'[i].id, ran') /\ toCtl'[i].id \notin running'
          /\ ctlUp' => calls'[toCtl'[i].id].st = "sent"
          /\ calls'[toCtl'[i].id].m = "subscribe" => toCtl'[i].ok = known'
    BY <1>5, <1>7, <1>8, <2>1, <2>2, <2>3, <2>4 DEF Answers
  <2>7. ASSUME NEW i \in DOMAIN toCtl', NEW j \in DOMAIN toCtl',
               toCtl'[i].t = "response", toCtl'[j].t = "response", toCtl'[i].id = toCtl'[j].id
        PROVE  i = j
    <3>1. i + 1 = j + 1
      BY <1>5, <2>4, <2>7 DEF Answers
    <3> QED  BY <2>4, <3>1
  <2>8. ASSUME NEW i \in DOMAIN toCtl', NEW j \in DOMAIN toCtl', i < j,
               toCtl'[i].t = "binary", toCtl'[j].t = "response"
        PROVE  toCtl'[i].id # toCtl'[j].id
    <3>1. i + 1 < j + 1
      BY <2>4, <2>8
    <3> QED  BY <1>5, <2>4, <2>8, <3>1 DEF Answers
  <2> QED  BY <2>5, <2>6, <2>7, <2>8 DEF Answers
<1>21. ctlUp' /\ hostUp' => Owed(running, toCtl, ran)'
  <2> SUFFICES ASSUME hostUp PROVE Owed(running, toCtl, ran)'
    BY <1>3 DEF hostVars
  <2>1. ASSUME NEW d \in Made, d # c, Answer(d, toCtl) PROVE Answer(d, toCtl)'
    <3>1. PICK i \in DOMAIN toCtl : toCtl[i].t = "response" /\ toCtl[i].id = d
      BY <2>1 DEF Answer
    <3>2. i # 1
      BY <1>2, <1>4, <2>1, <3>1
    <3> QED  BY <1>4, <3>1, <3>2 DEF Answer
  <2>2. running' = running
    BY <1>3 DEF hostVars
  <2> QED  BY <1>5, <1>6, <1>7, <1>8, <1>15, <2>1, <2>2 DEF Owed
<1>22. ctlUp' /\ hostUp' => Streams(sink, toCtl, ran)'
  <2> SUFFICES ASSUME hostUp PROVE Streams(sink, toCtl, ran)'
    BY <1>3 DEF hostVars
  <2>1. Streams(sink, toCtl, ran) /\ sink' = sink /\ known' = known /\ known \in BOOLEAN
    BY <1>1, <1>3, <1>5 DEF hostVars, linkConfig, LinkTypeOK
  <2>2. ASSUME NEW x, InStep(sink, toCtl, x) PROVE InStep(sink, toCtl, x)'
    <3>1. In(LastShot(x), toCtl) => In(LastShot(x), toCtl')
      <4>1. LastShot(x).t = "binary"
        BY DEF LastShot
      <4> QED  BY ZenonT(40), <1>3, <1>4, <4>1 DEF In
    <3>2. ended \subseteq ended' /\ frames' = frames
      BY <1>3
    <3>3. In(LastShot(x), toCtl)' <=> In(LastShot(x), toCtl')
      BY DEF In, LastShot
    <3> QED  BY <2>1, <2>2, <3>1, <3>2, <3>3 DEF InStep
  <2>3. \A d \in Made : d # c => (Subscribing(d, ran)' <=> Subscribing(d, ran))
    BY <1>8, <1>11, <1>15, <2>1 DEF Subscribing, Pending
  <2>4. \A d \in Made : d # c => (Pending(d, "unsubscribe")' <=> Pending(d, "unsubscribe"))
    BY <1>8, <1>11 DEF Pending
  <2>5. ~Subscribing(c, ran)' /\ ~Pending(c, "unsubscribe")'
    BY <1>11 DEF Subscribing, Pending
  <2>6. CASE calls[c].m \in {"subscribe", "unsubscribe"}
    <3>1. \A d \in Made : d # c => ~Subscribing(d, ran) /\ ~Pending(d, "unsubscribe")
      BY <1>1, <1>3, <1>6, <1>11, <2>6 DEF OneAtATime, Subscribing, Pending
    <3>2. InStep(sink, toCtl, tracked)'
      <4>1. CASE calls[c].m = "subscribe" /\ known
        <5>1. Subscribing(c, ran) /\ tracked' = c
          BY <1>3, <1>6, <1>11, <4>1 DEF Subscribing, Pending
        <5>2. InStep(sink, toCtl, c)'
          BY <1>6, <2>1, <2>2, <5>1 DEF Streams
        <5> QED  BY <5>1, <5>2 DEF InStep, LastShot, In
      <4>2. CASE calls[c].m = "subscribe" /\ ~known
        <5>1. tracked' = tracked /\ ~Subscribing(c, ran) /\ ~Pending(c, "unsubscribe")
          BY <1>3, <1>6, <4>2 DEF Subscribing, Pending
        <5>2. InStep(sink, toCtl, tracked)
          BY <2>1, <3>1, <5>1 DEF Streams
        <5>3. PICK x : x = tracked
          OBVIOUS
        <5>4. InStep(sink, toCtl, x)'
          BY <2>2, <5>2, <5>3
        <5> QED  BY <5>1, <5>3, <5>4 DEF InStep, LastShot, In
      <4>3. CASE calls[c].m = "unsubscribe"
        <5>1. Pending(c, "unsubscribe")
          BY <1>11, <4>3 DEF Pending
        <5>2. tracked' = 0 /\ sink' = 0
          BY <1>3, <1>6, <2>1, <4>3, <5>1 DEF Streams
        <5> QED  BY <5>2 DEF InStep
      <4> QED  BY <2>6, <4>1, <4>2, <4>3
    <3> QED  BY <1>8, <2>3, <2>4, <2>5, <3>1, <3>2 DEF Streams
  <2>7. CASE calls[c].m \notin {"subscribe", "unsubscribe"}
    <3>1. tracked' = tracked /\ ~Subscribing(c, ran) /\ ~Pending(c, "unsubscribe")
      BY <1>3, <2>7 DEF Subscribing, Pending
    <3>2. PICK x : x = tracked
      OBVIOUS
    <3>3. InStep(sink, toCtl, tracked) => InStep(sink, toCtl, x)'
      BY <2>2, <3>2
    <3>4. InStep(sink, toCtl, x)' => InStep(sink, toCtl, tracked)'
      BY <3>1, <3>2 DEF InStep, LastShot, In
    <3>5. \A d \in Made : Subscribing(d, ran)' => InStep(sink, toCtl, d)'
      BY <2>1, <2>2, <2>3, <2>5 DEF Streams
    <3>6. \A d \in Made : Pending(d, "unsubscribe")' => tracked' = 0 /\ (In(d, ran)' => sink' = 0)
      BY <1>15, <2>1, <2>4, <2>5, <3>1 DEF Streams
    <3>7. \/ InStep(sink, toCtl, tracked)'
          \/ \E d \in Made : Pending(d, "unsubscribe")' \/ Subscribing(d, ran)'
      BY <2>1, <2>3, <2>4, <3>1, <3>3, <3>4 DEF Streams
    <3> QED  BY <1>8, <3>5, <3>6, <3>7 DEF Streams
  <2> QED  BY <2>6, <2>7
<1> QED  BY <1>9, <1>10, <1>12, <1>14, <1>18, <1>19, <1>20, <1>21, <1>22 DEF LinkInv, Keeps

\* The first thing under way to the controller is taken off.
LEMMA TailAnswers ==
    ASSUME LinkInv, toCtl # <<>>, toCtl' = Tail(toCtl),
           UNCHANGED <<running, ran, calls, ctlUp, known>>
    PROVE  /\ toCtl' \in Seq(Messages) /\ 1 \in DOMAIN toCtl /\ Head(toCtl) = toCtl[1]
           /\ \A i \in DOMAIN toCtl : i # 1 => i - 1 \in DOMAIN toCtl' /\ toCtl'[i - 1] = toCtl[i]
           /\ Answers(running, toCtl, ran)'
<1>1. toCtl \in Seq(Messages) /\ Answers(running, toCtl, ran)
  BY DEF LinkInv, LinkTypeOK, Messages, Keeps
<1>2. PICK o : o = Tail(toCtl)
  OBVIOUS
<1>3. /\ o \in Seq(Messages) /\ 1 \in DOMAIN toCtl /\ Head(toCtl) = toCtl[1]
      /\ \A i \in DOMAIN o : i + 1 \in DOMAIN toCtl /\ o[i] = toCtl[i + 1]
      /\ \A i \in DOMAIN toCtl : i # 1 => i - 1 \in DOMAIN o /\ o[i - 1] = toCtl[i]
  BY <1>1, <1>2, TailIs
<1>4. Answers(running, o, ran)
  BY <1>1, <1>3, FewerAnswers
<1>5. Answers(running, toCtl, ran)'
  BY <1>2, <1>4 DEF Answers, In
<1> QED  BY <1>2, <1>3, <1>5

LEMMA TakesFrameStep == LinkInv /\ TakesFrame => LinkInv'
<1> SUFFICES ASSUME LinkInv, TakesFrame PROVE LinkInv'
  OBVIOUS
<1>1. /\ LinkTypeOK /\ Greeted /\ OneAtATime /\ Keeps(sink, running, toCtl, ran)
      /\ toCtl \in Seq(Messages)
      /\ tracked \in Ids \cup {0} /\ ended \in SUBSET Ids
  BY DEF LinkInv, LinkTypeOK, Messages
<1>2. /\ ctlUp /\ toCtl # <<>> /\ toCtl' = Tail(toCtl) /\ Head(toCtl).t = "binary"
      /\ UNCHANGED <<linkConfig, hostVars, shake, ctlUp, calls, tracked, toHost, ran, frames>>
      /\ ended' = IF Head(toCtl).last THEN ended \cup ({tracked} \ {0}) ELSE ended
  BY DEF TakesFrame
<1>3. /\ toCtl' \in Seq(Messages) /\ 1 \in DOMAIN toCtl /\ Head(toCtl) = toCtl[1]
      /\ \A i \in DOMAIN toCtl : i # 1 => i - 1 \in DOMAIN toCtl' /\ toCtl'[i - 1] = toCtl[i]
      /\ Answers(running, toCtl, ran)'
  BY <1>2, TailAnswers DEF hostVars, linkConfig
<1>4. LinkTypeOK'
  <2>1. ended' \in SUBSET Ids
    BY <1>1, <1>2
  <2> QED  BY <1>1, <1>2, <1>3, <2>1 DEF LinkTypeOK, Messages, linkConfig, hostVars
<1>5. Proven' /\ Lined'
  BY <1>2, ProvenAlone, LinedAlone DEF provenVars, lineVars, linkConfig, hostVars
<1>6. OneAtATime' /\ Len(calls') <= MaxCalls
  BY <1>2, OneAlone
<1>7. ~Unspoken /\ phase # "awaiting-hello"
  BY <1>1, <1>2 DEF Greeted
<1>8. Greeted'
  BY <1>1, <1>2, <1>7 DEF Greeted, Unspoken, In, Made, hostVars, linkConfig
<1>9. Belongs(sink, running, ran)'
  BY <1>1, <1>2 DEF Keeps, Belongs, In, hostVars
<1>10. ctlUp' /\ hostUp' => Owed(running, toCtl, ran)'
  <2> SUFFICES ASSUME hostUp PROVE Owed(running, toCtl, ran)'
    BY <1>2 DEF hostVars
  <2>1. Owed(running, toCtl, ran) /\ running' = running /\ ran' = ran /\ calls' = calls
    BY <1>1, <1>2 DEF Keeps, hostVars
  <2>2. ASSUME NEW d, Answer(d, toCtl) PROVE Answer(d, toCtl)'
    <3>1. PICK i \in DOMAIN toCtl : toCtl[i].t = "response" /\ toCtl[i].id = d
      BY <2>2 DEF Answer
    <3>2. i # 1
      BY <1>2, <1>3, <3>1
    <3> QED  BY <1>3, <3>1, <3>2 DEF Answer
  <2> QED  BY <2>1, <2>2 DEF Owed, Made, In
<1>11. ctlUp' /\ hostUp' => Streams(sink, toCtl, ran)'
  <2> SUFFICES ASSUME hostUp PROVE Streams(sink, toCtl, ran)'
    BY <1>2 DEF hostVars
  <2>1. /\ Owed(running, toCtl, ran) /\ Streams(sink, toCtl, ran)
        /\ Belongs(sink, running, ran) /\ Answers(running, toCtl, ran)
    BY <1>1, <1>2 DEF Keeps
  <2>2. /\ sink' = sink /\ tracked' = tracked /\ ended \subseteq ended' /\ frames' = frames
        /\ Made' = Made
    BY <1>2 DEF hostVars, Made
  <2>3. /\ \A d : Subscribing(d, ran)' <=> Subscribing(d, ran)
        /\ \A d : Pending(d, "unsubscribe")' <=> Pending(d, "unsubscribe")
        /\ \A d : In(d, ran)' <=> In(d, ran)
    BY <1>2 DEF Subscribing, Pending, Open, Made, In, linkConfig
  <2>4. ASSUME NEW x, InStep(sink, toCtl, x), x # toCtl[1].id \/ x = tracked
        PROVE  InStep(sink, toCtl, x)'
    <3>1. CASE x = sink
      BY <2>2, <3>1 DEF InStep
    <3>2. CASE frames > MaxFrames /\ sink = 0 /\ x \in ended
      BY <2>2, <3>2 DEF InStep
    <3>3. CASE frames > MaxFrames /\ sink = 0 /\ x # 0 /\ In(LastShot(x), toCtl)
      <4>1. PICK i \in DOMAIN toCtl : toCtl[i] = LastShot(x)
        BY <3>3 DEF In
      <4>2. CASE i = 1
        <5>1. toCtl[1].id = x /\ toCtl[1].last = TRUE
          BY <4>1, <4>2 DEF LastShot
        <5>2. x \in ended'
          BY <1>2, <1>3, <2>4, <3>3, <5>1
        <5> QED  BY <2>2, <3>3, <5>2 DEF InStep
      <4>3. CASE i # 1
        <5>1. In(LastShot(x), toCtl')
          BY <1>3, <4>1, <4>3 DEF In
        <5>2. In(LastShot(x), toCtl)'
          BY <5>1 DEF In, LastShot
        <5> QED  BY <2>2, <3>3, <5>2 DEF InStep
      <4> QED  BY <4>2, <4>3
    <3> QED  BY <2>4, <3>1, <3>2, <3>3 DEF InStep
  <2>5. ASSUME NEW d \in Made, Subscribing(d, ran) PROVE d # toCtl[1].id
    <3>1. calls[d].st \in {"gated", "sent"} /\ calls[d].m = "subscribe" /\ In(d, ran)
      BY <2>5 DEF Subscribing, Pending, Open
    <3>2. calls[d].st # "gated"
      <4>1. d \in LetGo
        BY <3>1, LinePlaces DEF LinkInv, Lined
      <4> QED  BY <4>1 DEF LetGo
    <3>3. d \notin running
      BY <2>1, <3>1 DEF Belongs
    <3>4. PICK j \in DOMAIN toCtl : toCtl[j].t = "response" /\ toCtl[j].id = d
      BY <2>1, <3>1, <3>2, <3>3 DEF Owed, Answer
    <3>5. 1 < j
      <4>1. j # 1 /\ j \in Nat /\ j >= 1
        BY <1>1, <1>2, <1>3, <3>4
      <4> QED  BY <4>1
    <3> QED  BY <1>2, <1>3, <2>1, <3>4, <3>5 DEF Answers
  <2>6. \A d \in Made' : Subscribing(d, ran)' => InStep(sink, toCtl, d)'
    BY <2>1, <2>2, <2>3, <2>4, <2>5 DEF Streams
  <2>7. PICK x : x = tracked
    OBVIOUS
  <2>8. InStep(sink, toCtl, tracked) => InStep(sink, toCtl, tracked)'
    <3>1. InStep(sink, toCtl, x) => InStep(sink, toCtl, x)'
      BY <2>4, <2>7
    <3>2. InStep(sink, toCtl, x)' <=> InStep(sink, toCtl, tracked)'
      BY <2>2, <2>7 DEF InStep, LastShot, In
    <3> QED  BY <2>7, <3>1, <3>2
  <2> QED  BY <2>1, <2>2, <2>3, <2>6, <2>8 DEF Streams
<1> QED  BY <1>3, <1>4, <1>5, <1>6, <1>8, <1>9, <1>10, <1>11 DEF LinkInv, Keeps

LEMMA CtlIgnoresStep == LinkInv /\ CtlIgnores => LinkInv'
<1> SUFFICES ASSUME LinkInv, CtlIgnores PROVE LinkInv'
  OBVIOUS
<1>1. /\ LinkTypeOK /\ Greeted /\ Keeps(sink, running, toCtl, ran)
  BY DEF LinkInv
<1>2. /\ ~ctlUp /\ toCtl # <<>> /\ toCtl' = Tail(toCtl)
      /\ UNCHANGED <<linkConfig, hostVars, shake, ctlUp, calls, tracked, ended, toHost, ran, frames>>
  BY DEF CtlIgnores, ctlVars
<1>3. toCtl' \in Seq(Messages) /\ Answers(running, toCtl, ran)'
  BY <1>2, TailAnswers DEF hostVars, linkConfig
<1>4. LinkTypeOK'
  BY <1>1, <1>2, <1>3 DEF LinkTypeOK, Messages, linkConfig, hostVars
<1>5. Proven' /\ Lined'
  BY <1>2, ProvenAlone, LinedAlone DEF provenVars, lineVars, linkConfig, hostVars
<1>6. OneAtATime' /\ Len(calls') <= MaxCalls
  BY <1>2, OneAlone
<1>7. ~Unspoken /\ phase # "awaiting-hello"
  BY <1>1, <1>2 DEF Greeted
<1>8. Greeted'
  BY <1>1, <1>2, <1>7 DEF Greeted, Unspoken, In, Made, hostVars, linkConfig
<1>9. Belongs(sink, running, ran)'
  BY <1>1, <1>2 DEF Keeps, Belongs, In, hostVars
<1> QED  BY <1>2, <1>3, <1>4, <1>5, <1>6, <1>8, <1>9 DEF LinkInv, Keeps

-----------------------------------------------------------------------------
(* The host. *)

\* The host takes what comes next, if anything.
Shrinks == toHost' = toHost \/ (toHost # <<>> /\ toHost' = Tail(toHost))

LEMMA Shrunk ==
    ASSUME LinkInv, Shrinks
    PROVE  /\ toHost' \in Seq({0} \cup Ids) /\ Ascending(toHost')
           /\ \A j \in DOMAIN toHost' : In(toHost'[j], toHost)
           /\ \A x : In(x, toHost') => In(x, toHost)
           /\ In(0, toHost') => toHost' = toHost
<1>1. toHost \in Seq({0} \cup Ids) /\ Ascending(toHost) /\ Greeted
  BY DEF LinkInv, LinkTypeOK, Lined
<1>2. CASE toHost' = toHost
  BY <1>1, <1>2 DEF In
<1>3. CASE toHost # <<>> /\ toHost' = Tail(toHost)
  <2>1. PICK o : o = Tail(toHost)
    OBVIOUS
  <2>2. /\ o \in Seq({0} \cup Ids) /\ DOMAIN o \subseteq Nat
        /\ \A i \in DOMAIN o : i + 1 \in DOMAIN toHost /\ o[i] = toHost[i + 1]
    BY <1>1, <1>3, <2>1, TailIs
  <2>3. ASSUME NEW i \in DOMAIN o, NEW j \in DOMAIN o, i < j PROVE o[i] < o[j]
    <3>1. i + 1 < j + 1
      BY <2>2, <2>3
    <3> QED  BY <1>1, <2>2, <3>1 DEF Ascending
  <2>4. Ascending(o)
    BY <2>3 DEF Ascending
  <2>5. \A x : In(x, o) => In(x, toHost)
    BY <2>2 DEF In
  <2>6. ~In(0, o)
    <3>1. ASSUME NEW i \in DOMAIN o, o[i] = 0 PROVE FALSE
      <4>1. i + 1 \in DOMAIN toHost /\ toHost[i + 1] = 0 /\ i \in Nat /\ i >= 1
        BY <2>2, <3>1
      <4>2. Len(toHost) = 1 /\ DOMAIN toHost = 1..Len(toHost)
        BY <1>1, <4>1 DEF Greeted
      <4> QED  BY <4>1, <4>2
    <3> QED  BY <3>1 DEF In
  <2>7. \A j \in DOMAIN o : In(o[j], o)
    BY DEF In
  <2> QED  BY <1>3, <2>1, <2>2, <2>4, <2>5, <2>6, <2>7
<1> QED  BY <1>2, <1>3 DEF Shrinks

\* The line of a host that is down.
LEMMA DownLine ==
    ASSUME LinkInv, Shrinks, ~hostUp',
           UNCHANGED <<ran, held, calls, ctlUp, shake, served, asked>>
    PROVE  Lined'
<1>1. Lined
  BY DEF LinkInv
<1>2. /\ Ascending(toHost') /\ \A j \in DOMAIN toHost' : In(toHost'[j], toHost)
      /\ \A x : In(x, toHost') => In(x, toHost)
  BY Shrunk
<1>3. Ascending(ran)' /\ Ascending(held)' /\ Ascending(toHost)'
  BY <1>1, <1>2 DEF Lined, Ascending
<1>4. /\ \A i \in DOMAIN ran', j \in DOMAIN held' : ran'[i] < held'[j]
      /\ \A i \in DOMAIN ran', j \in DOMAIN toHost' : ran'[i] < toHost'[j]
      /\ \A i \in DOMAIN held', j \in DOMAIN toHost' : held'[i] < toHost'[j]
  BY <1>1, <1>2 DEF Lined, In
<1>5. \A x : /\ (In(x, ran)' <=> In(x, ran)) /\ (In(x, held)' <=> In(x, held))
             /\ (In(x, toHost)' => In(x, toHost))
  BY <1>2 DEF In
<1>6. \A x : InLine(x)' => InLine(x)
  BY <1>5 DEF InLine
<1>7. LetGo' = LetGo /\ Made' = Made
  BY DEF LetGo, Made, MayRequest
<1> QED  BY <1>1, <1>3, <1>4, <1>5, <1>6, <1>7 DEF Lined

LEMMA AckAnswers ==
    ASSUME LinkInv, NEW out, out = toCtl \/ out = Ack
    PROVE  out \in Seq(Messages) /\ Answers(running, out, ran)
<1>1. toCtl \in Seq(Messages) /\ Answers(running, toCtl, ran)
  BY DEF LinkInv, LinkTypeOK, Messages, Keeps
<1>2. CASE out = Ack
  <2>1. PICK a : a = [t |-> "ack"]
    OBVIOUS
  <2>2. a \in Messages /\ a.t = "ack" /\ out = Append(toCtl, a)
    BY <1>2, <2>1, MessageTypes DEF Ack
  <2>3. /\ out \in Seq(Messages) /\ out[Len(toCtl) + 1] = a /\ DOMAIN out = 1..(Len(toCtl) + 1)
        /\ DOMAIN toCtl = 1..Len(toCtl) /\ Len(toCtl) \in Nat
        /\ \A i \in DOMAIN toCtl : out[i] = toCtl[i]
    BY <1>1, <2>2, AppendIs
  <2>4. \A i \in DOMAIN out : \/ i \in DOMAIN toCtl /\ out[i] = toCtl[i]
                             \/ out[i].t = "ack"
    <3>1. \A i \in DOMAIN out : i \in DOMAIN toCtl \/ i = Len(toCtl) + 1
      BY <2>3
    <3> QED  BY <2>2, <2>3, <3>1
  <2>5. /\ \A i \in DOMAIN out : out[i].t = "response" => i \in DOMAIN toCtl /\ out[i] = toCtl[i]
        /\ \A i \in DOMAIN out : out[i].t = "binary" => i \in DOMAIN toCtl /\ out[i] = toCtl[i]
    BY <2>4
  <2> QED  BY <1>1, <2>3, <2>5 DEF Answers
<1> QED  BY <1>1, <1>2

LEMMA DiesStep ==
    ASSUME LinkInv, NEW out, out = toCtl \/ (out = Ack /\ ~Unspoken'), FailsClosed(out),
           Shrinks, UNCHANGED <<linkConfig, ctlVars, frames>>
    PROVE  LinkInv'
<1>1. /\ LinkTypeOK /\ Proven /\ Greeted /\ Keeps(sink, running, toCtl, ran)
  BY DEF LinkInv
<1>2. /\ phase' = "dead" /\ hostUp' = FALSE /\ sink' = 0 /\ toCtl' \in Cut(out)
      /\ UNCHANGED <<held, caps, running, ran>>
      /\ UNCHANGED <<peer, gate, served, asked, known, shake, ctlUp, calls, tracked, ended, frames>>
  BY DEF FailsClosed, HostDies, linkConfig, ctlVars
<1>3. out \in Seq(Messages) /\ Answers(running, out, ran)
  BY AckAnswers
<1>4. /\ toCtl' \in Seq(Messages) /\ DOMAIN toCtl' = 1..Len(toCtl') /\ DOMAIN out = 1..Len(out)
      /\ Len(toCtl') \in 0..Len(out) /\ \A i \in 1..Len(toCtl') : toCtl'[i] = out[i]
  BY <1>2, <1>3, CutIs
<1>5. Answers(running, toCtl', ran)
  <2>1. PICK o : o = toCtl'
    OBVIOUS
  <2>2. /\ o \in Seq(Messages) /\ 0 \in Nat
        /\ \A i \in DOMAIN o : i + 0 \in DOMAIN out /\ o[i] = out[i + 0]
    BY <1>3, <1>4, <2>1
  <2>3. Answers(running, o, ran)
    BY <1>3, <2>2, FewerAnswers
  <2> QED  BY <2>1, <2>3
<1>6. /\ toHost' \in Seq({0} \cup Ids) /\ \A x : In(x, toHost') => In(x, toHost)
      /\ In(0, toHost') => toHost' = toHost
      /\ \A j \in DOMAIN toHost' : In(toHost'[j], toHost)
  BY Shrunk
<1>7. LinkTypeOK'
  BY <1>1, <1>2, <1>4, <1>6 DEF LinkTypeOK, Messages
<1>8. Proven'
  BY <1>1, <1>2 DEF Proven
<1>9. OneAtATime' /\ Len(calls') <= MaxCalls
  BY <1>2, OneAlone
<1>10. Lined'
  BY <1>2, DownLine
<1>11. Greeted'
  <2>1. Unspoken' => toCtl' = <<>>
    <3>1. ASSUME Unspoken' PROVE toCtl' = <<>>
      <4>1. Unspoken /\ out = toCtl
        BY <1>2, <1>6, <3>1 DEF Unspoken, In
      <4>2. Len(toCtl') = 0
        BY <1>1, <1>4, <4>1 DEF Greeted
      <4> QED  BY <1>4, <4>2
    <3> QED  BY <3>1
  <2>2. ASSUME NEW i \in DOMAIN toHost', toHost'[i] = 0 PROVE Len(toHost') = 1 /\ peer # "legacy"
    <3>1. toHost' = toHost
      BY <1>6, <2>2 DEF In
    <3> QED  BY <1>1, <2>2, <3>1 DEF Greeted
  <2>3. shake = "opening" => toHost' = <<>>
    <3>1. ASSUME shake = "opening" PROVE toHost' = <<>>
      <4>1. toHost = <<>>
        BY <1>1, <3>1 DEF Greeted
      <4> QED  BY <4>1 DEF Shrinks
    <3> QED  BY <3>1
  <2>4. shake = "negotiated" => ~In(0, toHost')
    BY <1>1, <1>6 DEF Greeted
  <2>5. shake # "negotiated" => \A i \in DOMAIN toHost' : toHost'[i] = 0
    BY <1>1, <1>6 DEF Greeted, In
  <2>6. In(0, toHost)' <=> In(0, toHost')
    BY DEF In
  <2> QED  BY <1>1, <1>2, <2>1, <2>2, <2>3, <2>4, <2>5, <2>6 DEF Greeted, Made
<1>12. Belongs(sink, running, ran)'
  BY <1>1, <1>2 DEF Keeps, Belongs, In
<1>13. Answers(running, toCtl, ran)'
  BY <1>2, <1>5 DEF Answers, In
<1> QED  BY <1>2, <1>7, <1>8, <1>9, <1>10, <1>11, <1>12, <1>13 DEF LinkInv, Keeps

LEMMA HostClosesStep == LinkInv /\ HostCloses => LinkInv'
BY DiesStep DEF HostCloses, Shrinks

LEMMA HostIgnoresStep == LinkInv /\ HostIgnores => LinkInv'
<1> SUFFICES ASSUME LinkInv, HostIgnores PROVE LinkInv'
  OBVIOUS
<1>1. LinkTypeOK /\ Greeted
  BY DEF LinkInv
<1>2. /\ ~hostUp /\ Shrinks /\ toHost # <<>>
      /\ UNCHANGED <<peer, gate, served, asked, known, phase, caps, held, sink, running, hostUp,
                     shake, ctlUp, calls, tracked, ended, toCtl, ran, frames>>
  BY DEF HostIgnores, Shrinks, linkConfig, hostVars, ctlVars
<1>3. /\ toHost' \in Seq({0} \cup Ids) /\ \A x : In(x, toHost') => In(x, toHost)
      /\ In(0, toHost') => toHost' = toHost
      /\ \A j \in DOMAIN toHost' : In(toHost'[j], toHost)
  BY <1>2, Shrunk
<1>4. LinkTypeOK'
  BY <1>1, <1>2, <1>3 DEF LinkTypeOK
<1>5. Proven' /\ Keeps(sink, running, toCtl, ran)'
  BY <1>2, ProvenAlone, KeepsAlone DEF provenVars, keepVars
<1>6. OneAtATime' /\ Len(calls') <= MaxCalls
  BY <1>2, OneAlone
<1>7. Lined'
  BY <1>2, DownLine
<1>8. Greeted'
  <2>1. ASSUME NEW i \in DOMAIN toHost', toHost'[i] = 0 PROVE Len(toHost') = 1 /\ peer # "legacy"
    <3>1. toHost' = toHost
      BY <1>3, <2>1 DEF In
    <3> QED  BY <1>1, <2>1, <3>1 DEF Greeted
  <2>2. shake # "opening" /\ (Unspoken' => Unspoken)
    BY <1>1, <1>2, <1>3 DEF Greeted, Unspoken, In
  <2>3. shake = "negotiated" => ~In(0, toHost')
    BY <1>1, <1>3 DEF Greeted
  <2>4. shake # "negotiated" => \A i \in DOMAIN toHost' : toHost'[i] = 0
    BY <1>1, <1>3 DEF Greeted, In
  <2>5. In(0, toHost)' <=> In(0, toHost')
    BY DEF In
  <2> QED  BY <1>1, <1>2, <2>1, <2>2, <2>3, <2>4, <2>5 DEF Greeted, Made
<1> QED  BY <1>4, <1>5, <1>6, <1>7, <1>8 DEF LinkInv

LEMMA AdmitsStep ==
    ASSUME LinkInv, hostUp, phase = "awaiting-hello", toHost # <<>>, Head(toHost) = 0,
           toHost' = Tail(toHost), toCtl' = Ack, peer # "incompatible",
           \/ phase' = "verifying" /\ gate # "none" /\ caps' = caps
           \/ phase' = "serving" /\ gate # "refuses" /\ caps' = served \cap asked,
           UNCHANGED <<held, sink, running, hostUp, ran, linkConfig, ctlVars, frames>>
    PROVE  LinkInv'
<1>1. /\ LinkTypeOK /\ Proven /\ Greeted /\ Lined /\ Keeps(sink, running, toCtl, ran)
      /\ toHost \in Seq({0} \cup Ids) /\ Shrinks
  BY DEF LinkInv, LinkTypeOK, Shrinks
<1>2. UNCHANGED <<peer, gate, served, asked, known, shake, ctlUp, calls, tracked, ended>>
  BY DEF linkConfig, ctlVars
<1>3. toHost[1] = 0 /\ 1 \in DOMAIN toHost /\ In(0, toHost)
  BY <1>1, TailIs DEF In
<1>4. /\ Len(toHost) = 1 /\ peer = "current" /\ toCtl = <<>> /\ shake # "negotiated" /\ shake # "opening"
  <2>1. Len(toHost) = 1 /\ peer # "legacy" /\ toCtl = <<>> /\ shake # "negotiated" /\ shake # "opening"
    BY <1>1, <1>3 DEF Greeted
  <2> QED  BY <1>1, <2>1 DEF LinkTypeOK
<1>5. toHost' = <<>> /\ DOMAIN toHost' = {}
  BY <1>1, <1>4
<1>6. ran = <<>> /\ held = <<>> /\ tracked = 0
  BY <1>1, <1>4 DEF Greeted
<1>7. \A x : ~In(x, ran)' /\ ~In(x, held)' /\ ~In(x, toHost)' /\ ~InLine(x)' /\ ~In(x, ran)
  BY <1>5, <1>6 DEF In, InLine
<1>8. sink = 0 /\ running = {}
  BY <1>1, <1>7 DEF Keeps, Belongs
<1>9. toCtl' \in Seq(Messages) /\ \A i \in DOMAIN toCtl' : toCtl'[i].t = "ack"
  <2>1. PICK a : a = [t |-> "ack"]
    OBVIOUS
  <2>2. toCtl' = <<a>> /\ a \in Messages /\ a.t = "ack"
    BY <1>4, <2>1, MessageTypes DEF Ack
  <2> QED  BY <2>2
<1>10. LinkTypeOK'
  BY <1>1, <1>2, <1>5, <1>9 DEF LinkTypeOK, Messages
<1>11. Proven'
  BY <1>1, <1>2, <1>4, <1>6 DEF Proven
<1>12. OneAtATime' /\ Len(calls') <= MaxCalls
  BY <1>2, OneAlone
<1>13. Greeted'
  BY <1>1, <1>2, <1>4, <1>5, <1>6, <1>7 DEF Greeted, Unspoken, Made
<1>14. Lined'
  <2>1. Ascending(ran)' /\ Ascending(held)' /\ Ascending(toHost)'
    BY <1>5, <1>6 DEF Ascending
  <2>2. DOMAIN ran' = {} /\ DOMAIN held' = {}
    BY <1>6
  <2> QED  BY <1>2, <1>4, <1>5, <1>7, <2>1, <2>2 DEF Lined
<1>15. Keeps(sink, running, toCtl, ran)'
  BY <1>2, <1>6, <1>7, <1>8, <1>9 DEF Keeps, Belongs, Answers, Owed, Streams, Subscribing, InStep
<1> QED  BY <1>10, <1>11, <1>12, <1>13, <1>14, <1>15 DEF LinkInv

LEMMA TakesHelloStep == LinkInv /\ TakesHello => LinkInv'
<1> SUFFICES ASSUME LinkInv, TakesHello PROVE LinkInv'
  OBVIOUS
<1>1. /\ hostUp /\ phase = "awaiting-hello" /\ toHost # <<>> /\ toHost' = Tail(toHost)
      /\ Shrinks /\ UNCHANGED <<linkConfig, ctlVars, frames>>
  BY DEF TakesHello, Shrinks
<1>2. CASE FailsClosed(toCtl)
  BY <1>1, <1>2, DiesStep
<1>3. CASE Head(toHost) = 0 /\ FailsClosed(Ack)
  <2>1. ~In(0, toHost')
    <3>1. toHost \in Seq({0} \cup Ids)
      BY DEF LinkInv, LinkTypeOK
    <3>2. toHost' # toHost
      BY <1>1, <3>1
    <3> QED  BY <1>1, <3>2, Shrunk
  <2>2. shake' # "opening"
    BY <1>1 DEF LinkInv, Greeted, ctlVars
  <2>3. ~Unspoken'
    BY <2>1, <2>2 DEF Unspoken, In
  <2> QED  BY <1>1, <1>3, <2>3, DiesStep
<1>4. CASE /\ Head(toHost) = 0 /\ peer # "incompatible" /\ gate # "none"
           /\ phase' = "verifying" /\ toCtl' = Ack
           /\ UNCHANGED <<caps, held, sink, running, hostUp, ran>>
  BY <1>1, <1>4, AdmitsStep
<1>5. CASE /\ Head(toHost) = 0 /\ peer # "incompatible" /\ gate # "refuses"
           /\ phase' = "serving" /\ caps' = served \cap asked /\ toCtl' = Ack
           /\ UNCHANGED <<held, sink, running, hostUp, ran>>
  BY <1>1, <1>5, AdmitsStep
<1> QED  BY <1>2, <1>3, <1>4, <1>5 DEF TakesHello

LEMMA HandlesStep ==
    ASSUME LinkInv, NEW cs, cs = served \cap asked, NEW rs, Dispatchable(rs), Handles(cs, rs),
           UNCHANGED <<calls, known, ctlUp, hostUp, frames, ended, tracked>>
    PROVE  /\ sink' \in Ids \cup {0} /\ running' \in SUBSET Ids /\ toCtl' \in Seq(Messages)
           /\ ran' \in Seq(Ids) /\ caps' = cs /\ cs \in SUBSET Capabilities
           /\ Behind(ran', ran, rs, Len(rs))
           /\ Keeps(sink, running, toCtl, ran)'
<1>1. /\ LinkTypeOK /\ OneAtATime /\ Len(calls) <= MaxCalls /\ Keeps(sink, running, toCtl, ran)
      /\ cs \in SUBSET Capabilities
  BY DEF LinkInv, LinkTypeOK
<1>2. PICK h : h = Handled(cs, rs)[Len(rs)]
  OBVIOUS
<1>3. /\ sink' = h.sink /\ running' = h.running /\ toCtl' = h.out /\ ran' = h.ran /\ caps' = cs
  BY <1>2 DEF Handles
<1>4. Reached(h, cs, rs, Len(rs))
  BY <1>1, <1>2, AllHandled
<1>5. h \in Handlers /\ Keeps(h.sink, h.running, h.out, h.ran) /\ Behind(h.ran, ran, rs, Len(rs))
  BY <1>4 DEF Reached
<1>6. PICK s, rn, out, r : s = h.sink /\ rn = h.running /\ out = h.out /\ r = h.ran
  OBVIOUS
<1>7. Keeps(s, rn, out, r)
  BY <1>5, <1>6
<1>8. sink' = s /\ running' = rn /\ toCtl' = out /\ ran' = r
  BY <1>3, <1>6
<1>9. Keeps(sink, running, toCtl, ran)'
  BY <1>7, <1>8 DEF Keeps, Belongs, Answers, Owed, Streams, InStep, Subscribing, Pending, Open,
                    Made, Answer, LastShot, In
<1> QED  BY <1>1, <1>3, <1>5, <1>9, HandlerFields

LEMMA VerdictStep == LinkInv /\ Verdict => LinkInv'
<1> SUFFICES ASSUME LinkInv, Verdict PROVE LinkInv'
  OBVIOUS
<1>1. /\ LinkTypeOK /\ Proven /\ Greeted /\ Lined /\ Keeps(sink, running, toCtl, ran)
  BY DEF LinkInv
<1>2. /\ phase = "verifying"
      /\ UNCHANGED <<linkConfig, ctlVars, toHost, frames>>
      /\ UNCHANGED <<peer, gate, served, asked, known, shake, ctlUp, calls, tracked, ended>>
  BY DEF Verdict, linkConfig, ctlVars
<1>3. CASE gate # "admits"
  BY <1>2, <1>3, DiesStep DEF Verdict, Shrinks
<1>4. CASE gate = "admits"
  <2>1. /\ phase' = "serving" /\ held' = <<>> /\ hostUp' = hostUp /\ Handles(served \cap asked, held)
    BY <1>4 DEF Verdict, Replayed
  <2>2. hostUp /\ ran = <<>> /\ peer = "current" /\ held \in Seq(Ids) /\ ~Unspoken
    BY <1>1, <1>2 DEF Proven, LinkTypeOK, Greeted
  <2>3. Dispatchable(held)
    <3>1. \A j \in DOMAIN held : held[j] \in Ids /\ In(held[j], held) /\ InLine(held[j])
      BY <2>2 DEF In, InLine
    <3>2. \A j \in DOMAIN held :
            held[j] \in Made /\ MayRequest(held[j]) /\ (ctlUp => calls[held[j]].st = "sent")
      BY <1>1, <3>1 DEF Lined, LetGo
    <3>3. Ascending(held) /\ DOMAIN ran = {}
      BY <1>1, <2>2 DEF Lined
    <3> QED  BY <2>2, <3>2, <3>3 DEF Dispatchable
  <2>4. /\ sink' \in Ids \cup {0} /\ running' \in SUBSET Ids /\ toCtl' \in Seq(Messages)
        /\ ran' \in Seq(Ids) /\ caps' = served \cap asked /\ caps' \in SUBSET Capabilities
        /\ Behind(ran', ran, held, Len(held))
        /\ Keeps(sink, running, toCtl, ran)'
    BY <1>2, <2>1, <2>3, HandlesStep
  <2>5. ran' = held
    <3>1. /\ Len(ran) = 0 /\ Len(ran') = Len(held) /\ Len(held) \in Nat
          /\ \A j \in 1..Len(held) : ran'[j] = held[j]
      BY <2>2, <2>4 DEF Behind
    <3> QED  BY <2>2, <2>4, <3>1
  <2>6. LinkTypeOK'
    BY <1>1, <1>2, <2>1, <2>4, LinkAssumption DEF LinkTypeOK, Messages
  <2>7. Proven'
    BY <1>1, <1>2, <1>4, <2>1, <2>2, <2>4 DEF Proven
  <2>8. OneAtATime' /\ Len(calls') <= MaxCalls
    BY <1>2, OneAlone
  <2>9. Greeted'
    BY <1>1, <1>2, <2>1, <2>2, <2>5 DEF Greeted, Unspoken, In, Made
  <2>10. /\ \A x : In(x, ran)' <=> In(x, held)
         /\ \A x : ~In(x, ran) /\ ~In(x, held)' /\ (In(x, toHost)' <=> In(x, toHost))
    BY <1>2, <2>1, <2>2, <2>5 DEF In
  <2>11. /\ \A x : InLine(x)' <=> InLine(x)
         /\ LetGo' = LetGo /\ Made' = Made
    BY <1>2, <2>10 DEF InLine, LetGo, Made, MayRequest
  <2>12. Lined'
    <3>1. Ascending(ran)' /\ Ascending(held)' /\ Ascending(toHost)' /\ DOMAIN held' = {}
      BY <1>1, <1>2, <2>1, <2>5 DEF Lined, Ascending
    <3>2. \A i \in DOMAIN ran', j \in DOMAIN toHost' : ran'[i] < toHost'[j]
      BY <1>1, <1>2, <2>5 DEF Lined
    <3>3. ASSUME NEW x \in LetGo, NEW i \in DOMAIN held, x < held[i] PROVE In(x, held)
      <4>1. held[i] \in Ids /\ InLine(held[i]) /\ x \in Nat /\ held[i] \in Nat
        BY <2>2, LinePlaces, IdsAre DEF In, LetGo
      <4>2. InLine(x)
        BY <1>1, <2>2, <3>3, <4>1 DEF Lined
      <4>3. ~In(x, toHost)
        <5>1. In(x, toHost) => held[i] < x
          BY <1>1 DEF Lined, In
        <5> QED  BY <3>3, <4>1, <5>1
      <4> QED  BY <2>10, <4>2, <4>3 DEF InLine
    <3>4. \A x \in LetGo', i \in DOMAIN ran' : x < ran'[i] => In(x, ran)'
      BY <2>5, <2>10, <2>11, <3>3
    <3> QED  BY <1>1, <1>2, <2>1, <2>2, <2>10, <2>11, <3>1, <3>2, <3>4 DEF Lined
  <2> QED  BY <2>4, <2>6, <2>7, <2>8, <2>9, <2>12 DEF LinkInv
<1> QED  BY <1>3, <1>4

\* A request leaves the line to the host.
LEMMA HeadOfLine ==
    ASSUME LinkInv, hostUp, phase \in {"verifying", "serving"}, toHost # <<>>
    PROVE  /\ Head(toHost) \in Ids /\ Head(toHost) \in Made /\ MayRequest(Head(toHost))
           /\ Head(toHost) \in LetGo /\ InLine(Head(toHost))
           /\ ctlUp => calls[Head(toHost)].st = "sent"
           /\ ~Unspoken /\ ~In(0, Tail(toHost)) /\ Tail(toHost) \in Seq({0} \cup Ids)
           /\ shake = "negotiated" /\ Ascending(Tail(toHost))
           /\ \A j \in DOMAIN Tail(toHost) : In(Tail(toHost)[j], toHost) /\ Head(toHost) < Tail(toHost)[j]
           /\ \A x : In(x, toHost) <=> In(x, Tail(toHost)) \/ x = Head(toHost)
<1>1. LinkTypeOK /\ Greeted /\ Lined /\ toHost \in Seq({0} \cup Ids)
  BY DEF LinkInv, LinkTypeOK
<1>2. PICK c, o : c = Head(toHost) /\ o = Tail(toHost)
  OBVIOUS
<1>3. \A x : In(x, toHost) <=> In(x, o) \/ x = c
  BY <1>1, <1>2, InTail
<1>4. ~Unspoken /\ ~In(0, toHost)
  BY <1>1 DEF Greeted, Unspoken
<1>5. o \in Seq({0} \cup Ids) /\ c \in {0} \cup Ids
  BY <1>1, <1>2
<1>6. c \in Ids /\ In(c, toHost) /\ InLine(c)
  BY <1>3, <1>4, <1>5 DEF InLine
<1>7. c \in LetGo /\ (ctlUp => calls[c].st = "sent")
  BY <1>1, <1>6 DEF Lined
<1>8. shake = "negotiated"
  BY <1>1, <1>4, <1>6 DEF Greeted, In
<1>9. /\ Len(toHost) \in Nat /\ DOMAIN o = 1..(Len(toHost) - 1) /\ DOMAIN toHost = 1..Len(toHost)
      /\ c = toHost[1] /\ \A j \in 1..(Len(toHost) - 1) : o[j] = toHost[j + 1]
  BY <1>1, <1>2
<1>10. Ascending(toHost)
  BY <1>1 DEF Lined
<1>11. Ascending(o)
  <2>1. ASSUME NEW i \in DOMAIN o, NEW j \in DOMAIN o, i < j PROVE o[i] < o[j]
    <3>1. i + 1 \in DOMAIN toHost /\ j + 1 \in DOMAIN toHost /\ i + 1 < j + 1
      BY <1>9, <2>1
    <3> QED  BY <1>9, <1>10, <3>1 DEF Ascending
  <2> QED  BY <2>1 DEF Ascending
<1>12. ASSUME NEW j \in DOMAIN o PROVE In(o[j], toHost) /\ c < o[j]
  <2>1. j + 1 \in DOMAIN toHost /\ 1 \in DOMAIN toHost /\ 1 < j + 1 /\ o[j] = toHost[j + 1]
    BY <1>9
  <2> QED  BY <1>9, <1>10, <2>1 DEF Ascending, In
<1> QED  BY <1>2, <1>3, <1>4, <1>5, <1>6, <1>7, <1>8, <1>11, <1>12 DEF LetGo

LEMMA HoldsStep ==
    ASSUME LinkInv, hostUp, phase = "verifying", toHost # <<>>, toHost' = Tail(toHost),
           Len(held) < MaxHeld, held' = Append(held, Head(toHost)),
           UNCHANGED <<phase, caps, sink, running, hostUp, toCtl, ran, linkConfig, ctlVars, frames>>
    PROVE  LinkInv'
<1>1. /\ LinkTypeOK /\ Proven /\ Greeted /\ Lined /\ held \in Seq(Ids)
  BY DEF LinkInv, LinkTypeOK
<1>2. UNCHANGED <<peer, gate, served, asked, known, shake, ctlUp, calls, tracked, ended>>
  BY DEF linkConfig, ctlVars
<1>3. PICK c : c = Head(toHost)
  OBVIOUS
<1>4. /\ c \in Ids /\ c \in LetGo /\ InLine(c) /\ (ctlUp => calls[c].st = "sent")
      /\ ~Unspoken /\ ~In(0, toHost') /\ toHost' \in Seq({0} \cup Ids)
      /\ shake = "negotiated" /\ Ascending(toHost')
      /\ \A j \in DOMAIN toHost' : In(toHost'[j], toHost) /\ c < toHost'[j]
      /\ \A x : In(x, toHost) <=> In(x, toHost') \/ x = c
  BY <1>3, HeadOfLine
<1>5. /\ held' \in Seq(Ids) /\ Len(held) \in Nat /\ Len(held') = Len(held) + 1
      /\ DOMAIN held = 1..Len(held) /\ DOMAIN held' = 1..Len(held') /\ held'[Len(held) + 1] = c
      /\ \A i \in DOMAIN held : i \in DOMAIN held' /\ held'[i] = held[i]
  BY <1>1, <1>3, <1>4, AppendIs
<1>6. \A x : In(x, held') <=> In(x, held) \/ x = c
  BY <1>1, <1>3, <1>4, InAppend
<1>7. /\ \A x : InLine(x)' <=> InLine(x)
      /\ LetGo' = LetGo /\ Made' = Made
  <2>1. \A x : InLine(x)' <=> In(x, ran) \/ In(x, held') \/ In(x, toHost')
    BY DEF InLine, In
  <2>2. \A x : InLine(x)' <=> InLine(x)
    BY <1>4, <1>6, <2>1 DEF InLine
  <2> QED  BY <1>2, <2>2 DEF LetGo, Made, MayRequest
<1>8. LinkTypeOK'
  <2>1. Len(held') <= MaxHeld
    BY <1>5, LinkAssumption
  <2> QED  BY <1>1, <1>2, <1>4, <1>5, <2>1 DEF LinkTypeOK
<1>9. Proven'
  BY <1>1, <1>2 DEF Proven
<1>10. OneAtATime' /\ Len(calls') <= MaxCalls
  BY <1>2, OneAlone
<1>11. Greeted'
  BY <1>1, <1>2, <1>4 DEF Greeted, Unspoken, In, Made
<1>12. Keeps(sink, running, toCtl, ran)'
  BY <1>2, KeepsAlone DEF LinkInv, keepVars
<1>13. Lined'
  <2>0. ran = <<>> /\ DOMAIN ran = {}
    BY <1>1 DEF Proven
  <2>1. \A i \in DOMAIN held : held[i] < c
    <3>1. \E j \in DOMAIN toHost : toHost[j] = c
      BY <1>4 DEF In
    <3> QED  BY <1>1, <3>1 DEF Lined
  <2>2. Ascending(held')
    <3>1. ASSUME NEW i \in DOMAIN held', NEW j \in DOMAIN held', i < j PROVE held'[i] < held'[j]
      <4>1. i \in DOMAIN held /\ (j \in DOMAIN held \/ j = Len(held) + 1)
        BY <1>5, <3>1
      <4> QED  BY <1>1, <1>5, <2>1, <3>1, <4>1 DEF Lined, Ascending
    <3> QED  BY <3>1 DEF Ascending
  <2>3. ASSUME NEW i \in DOMAIN held', NEW j \in DOMAIN toHost' PROVE held'[i] < toHost'[j]
    <3>1. i \in DOMAIN held \/ i = Len(held) + 1
      BY <1>5
    <3>2. CASE i \in DOMAIN held
      BY <1>1, <1>4, <1>5, <3>2 DEF Lined, In
    <3>3. CASE i = Len(held) + 1
      BY <1>4, <1>5, <3>3
    <3> QED  BY <3>1, <3>2, <3>3
  <2>4. ctlUp => \A x \in Ids : In(x, held') \/ In(x, toHost') => calls[x].st = "sent"
    BY <1>1, <1>4, <1>6 DEF Lined
  <2>5. Ascending(ran)' /\ Ascending(held)' /\ Ascending(toHost)' /\ DOMAIN ran' = {}
    BY <1>4, <2>0, <2>2 DEF Ascending
  <2>6. /\ \A x \in Ids : InLine(x)' => x \in LetGo'
        /\ \A x \in Made', d \in Ids : calls'[x].st = "gated" /\ InLine(d)' => d < x
        /\ hostUp' => \A x \in LetGo', d \in Ids : InLine(d)' /\ x < d => InLine(x)'
        /\ hostUp' /\ ctlUp' /\ shake' = "negotiated" => \A x \in LetGo' : InLine(x)'
    BY <1>1, <1>2, <1>7 DEF Lined
  <2>7. ctlUp' => \A x \in Ids : In(x, held)' \/ In(x, toHost)' => calls'[x].st = "sent"
    BY <1>2, <2>4 DEF In
  <2> QED  BY <2>3, <2>5, <2>6, <2>7 DEF Lined
<1> QED  BY <1>8, <1>9, <1>10, <1>11, <1>12, <1>13 DEF LinkInv

LEMMA ServesStep ==
    ASSUME LinkInv, hostUp, phase = "serving", toHost # <<>>, toHost' = Tail(toHost),
           Handles(caps, <<Head(toHost)>>),
           UNCHANGED <<phase, held, hostUp, linkConfig, ctlVars, frames>>
    PROVE  LinkInv'
<1>1. /\ LinkTypeOK /\ Proven /\ Greeted /\ Lined /\ ran \in Seq(Ids)
  BY DEF LinkInv, LinkTypeOK
<1>2. UNCHANGED <<peer, gate, served, asked, known, shake, ctlUp, calls, tracked, ended>>
  BY DEF linkConfig, ctlVars
<1>3. PICK c, rs : c = Head(toHost) /\ rs = <<c>>
  OBVIOUS
<1>4. /\ c \in Ids /\ c \in Made /\ MayRequest(c) /\ c \in LetGo /\ InLine(c)
      /\ ctlUp => calls[c].st = "sent"
      /\ ~Unspoken /\ ~In(0, toHost') /\ toHost' \in Seq({0} \cup Ids)
      /\ shake = "negotiated" /\ Ascending(toHost')
      /\ \A j \in DOMAIN toHost' : In(toHost'[j], toHost) /\ c < toHost'[j]
      /\ \A x : In(x, toHost) <=> In(x, toHost') \/ x = c
  BY <1>3, HeadOfLine
<1>5. held = <<>> /\ caps = served \cap asked /\ peer = "current" /\ gate # "refuses"
  BY <1>1 DEF Proven
<1>6. \A i \in DOMAIN ran : ran[i] < c
  <2>1. \E j \in DOMAIN toHost : toHost[j] = c
    BY <1>4 DEF In
  <2> QED  BY <1>1, <2>1 DEF Lined
<1>7. rs \in Seq(Ids) /\ Len(rs) = 1 /\ DOMAIN rs = {1} /\ rs[1] = c
  BY <1>3, <1>4
<1>8. Dispatchable(rs)
  <2>1. Ascending(rs)
    BY <1>7 DEF Ascending
  <2>2. \A i \in DOMAIN ran, j \in DOMAIN rs : ran[i] < rs[j]
    BY <1>6, <1>7
  <2>3. \A j \in DOMAIN rs :
          rs[j] \in Made /\ MayRequest(rs[j]) /\ (ctlUp => calls[rs[j]].st = "sent")
    BY <1>4, <1>7
  <2> QED  BY <1>7, <2>1, <2>2, <2>3 DEF Dispatchable
<1>9. /\ sink' \in Ids \cup {0} /\ running' \in SUBSET Ids /\ toCtl' \in Seq(Messages)
      /\ ran' \in Seq(Ids) /\ caps' = served \cap asked /\ caps' \in SUBSET Capabilities
      /\ Behind(ran', ran, rs, Len(rs))
      /\ Keeps(sink, running, toCtl, ran)'
  <2>1. Handles(served \cap asked, rs)
    BY <1>3, <1>5
  <2> QED  BY <1>2, <1>8, <2>1, HandlesStep
<1>10. /\ Len(ran) \in Nat /\ DOMAIN ran = 1..Len(ran) /\ DOMAIN ran' = 1..(Len(ran) + 1)
       /\ ran'[Len(ran) + 1] = c /\ \A i \in DOMAIN ran : i \in DOMAIN ran' /\ ran'[i] = ran[i]
  <2>1. Len(ran) \in Nat /\ DOMAIN ran = 1..Len(ran)
    BY <1>1
  <2>2. /\ Len(ran') = Len(ran) + 1 /\ \A i \in 1..Len(ran) : ran'[i] = ran[i]
        /\ \A j \in 1..1 : ran'[Len(ran) + j] = rs[j]
    BY <1>7, <1>9 DEF Behind
  <2>3. DOMAIN ran' = 1..(Len(ran) + 1)
    BY <1>9, <2>2
  <2>4. ran'[Len(ran) + 1] = c
    BY <1>7, <2>2
  <2> QED  BY <2>1, <2>2, <2>3, <2>4
<1>11. \A x : In(x, ran') <=> In(x, ran) \/ x = c
  <2>1. ASSUME NEW x, In(x, ran') PROVE In(x, ran) \/ x = c
    <3>1. PICK i \in DOMAIN ran' : ran'[i] = x
      BY <2>1 DEF In
    <3>2. i \in DOMAIN ran \/ i = Len(ran) + 1
      BY <1>10
    <3> QED  BY <1>10, <3>1, <3>2 DEF In
  <2>2. ASSUME NEW x, In(x, ran) PROVE In(x, ran')
    BY <1>10, <2>2 DEF In
  <2>3. In(c, ran')
    BY <1>10 DEF In
  <2> QED  BY <2>1, <2>2, <2>3
<1>12. /\ \A x : ~In(x, held) /\ ~In(x, held')
       /\ \A x : InLine(x)' <=> InLine(x)
       /\ LetGo' = LetGo /\ Made' = Made
  <2>1. \A x : ~In(x, held) /\ ~In(x, held')
    BY <1>5 DEF In
  <2>2. \A x : InLine(x)' <=> In(x, ran') \/ In(x, held') \/ In(x, toHost')
    BY DEF InLine, In
  <2>3. \A x : InLine(x)' <=> InLine(x)
    BY <1>4, <1>11, <2>1, <2>2 DEF InLine
  <2> QED  BY <1>2, <2>1, <2>3 DEF LetGo, Made, MayRequest
<1>13. LinkTypeOK'
  BY <1>1, <1>2, <1>4, <1>9 DEF LinkTypeOK, Messages
<1>14. Proven'
  BY <1>1, <1>2, <1>5, <1>9 DEF Proven
<1>15. OneAtATime' /\ Len(calls') <= MaxCalls
  BY <1>2, OneAlone
<1>16. Greeted'
  BY <1>1, <1>2, <1>4 DEF Greeted, Unspoken, In, Made
<1>17. Lined'
  <2>1. Ascending(ran')
    <3>1. ASSUME NEW i \in DOMAIN ran', NEW j \in DOMAIN ran', i < j PROVE ran'[i] < ran'[j]
      <4>1. i \in DOMAIN ran /\ (j \in DOMAIN ran \/ j = Len(ran) + 1)
        BY <1>10, <3>1
      <4> QED  BY <1>1, <1>6, <1>10, <3>1, <4>1 DEF Lined, Ascending
    <3> QED  BY <3>1 DEF Ascending
  <2>2. ASSUME NEW i \in DOMAIN ran', NEW j \in DOMAIN toHost' PROVE ran'[i] < toHost'[j]
    <3>1. i \in DOMAIN ran \/ i = Len(ran) + 1
      BY <1>10
    <3>2. CASE i \in DOMAIN ran
      BY <1>1, <1>4, <1>10, <3>2 DEF Lined, In
    <3>3. CASE i = Len(ran) + 1
      BY <1>4, <1>10, <3>3
    <3> QED  BY <3>1, <3>2, <3>3
  <2>3. ASSUME NEW x \in LetGo, NEW i \in DOMAIN ran', x < ran'[i] PROVE In(x, ran')
    <3>1. i \in DOMAIN ran \/ i = Len(ran) + 1
      BY <1>10
    <3>2. CASE i \in DOMAIN ran
      BY <1>1, <1>10, <1>11, <2>3, <3>2 DEF Lined
    <3>3. CASE i = Len(ran) + 1
      <4>1. x < c /\ x \in Nat /\ c \in Nat /\ x # c
        BY <1>4, <1>10, <2>3, <3>3, IdsAre DEF LetGo, Made
      <4>2. InLine(x)
        BY <1>1, <1>4, <4>1 DEF Lined
      <4>3. ~In(x, toHost')
        <5>1. In(x, toHost') => c < x
          BY <1>4 DEF In
        <5> QED  BY <4>1, <5>1
      <4> QED  BY <1>4, <1>11, <1>12, <4>1, <4>2, <4>3 DEF InLine
    <3> QED  BY <3>1, <3>2, <3>3
  <2>4. ctlUp => \A x \in Ids : In(x, toHost') => calls[x].st = "sent"
    BY <1>1, <1>4 DEF Lined
  <2>5. /\ Ascending(ran)' /\ Ascending(held)' /\ Ascending(toHost)' /\ DOMAIN held' = {}
    BY <1>4, <1>5, <2>1 DEF Ascending
  <2>6. /\ \A x \in Ids : InLine(x)' => x \in LetGo'
        /\ \A x \in Made', d \in Ids : calls'[x].st = "gated" /\ InLine(d)' => d < x
        /\ hostUp' => \A x \in LetGo', d \in Ids : InLine(d)' /\ x < d => InLine(x)'
        /\ hostUp' /\ ctlUp' /\ shake' = "negotiated" => \A x \in LetGo' : InLine(x)'
    BY <1>1, <1>2, <1>12 DEF Lined
  <2>7. ctlUp' => \A x \in Ids : In(x, held)' \/ In(x, toHost)' => calls'[x].st = "sent"
    BY <1>2, <1>12, <2>4 DEF In
  <2>8. \A x \in LetGo', i \in DOMAIN ran' : x < ran'[i] => In(x, ran)'
    BY <1>12, <2>3 DEF In
  <2> QED  BY <2>2, <2>5, <2>6, <2>7, <2>8 DEF Lined
<1> QED  BY <1>9, <1>13, <1>14, <1>15, <1>16, <1>17 DEF LinkInv

LEMMA HostReceivesStep == LinkInv /\ HostReceives => LinkInv'
<1> SUFFICES ASSUME LinkInv, HostReceives PROVE LinkInv'
  OBVIOUS
<1>1. /\ hostUp /\ phase \in {"verifying", "serving"} /\ toHost # <<>> /\ toHost' = Tail(toHost)
      /\ TakesRequest(Head(toHost)) /\ Shrinks /\ UNCHANGED <<linkConfig, ctlVars, frames>>
  BY DEF HostReceives, Shrinks
<1>2. CASE phase = "serving"
  <2>1. Handles(caps, <<Head(toHost)>>) /\ UNCHANGED <<phase, held, hostUp>>
    BY <1>1, <1>2 DEF TakesRequest
  <2> QED  BY <1>1, <1>2, <2>1, ServesStep
<1>3. CASE phase = "verifying" /\ Len(held) < MaxHeld
  <2>1. /\ held' = Append(held, Head(toHost))
        /\ UNCHANGED <<phase, caps, sink, running, hostUp, toCtl, ran>>
    BY <1>1, <1>3 DEF TakesRequest
  <2> QED  BY <1>1, <1>3, <2>1, HoldsStep
<1>4. CASE phase = "verifying" /\ ~(Len(held) < MaxHeld)
  <2>1. FailsClosed(toCtl)
    BY <1>1, <1>4 DEF TakesRequest
  <2> QED  BY <1>1, <2>1, DiesStep
<1> QED  BY <1>1, <1>2, <1>3, <1>4

\* The host has dispatched something: the handshake is long through.
LEMMA LongGreeted ==
    ASSUME LinkInv, ran # <<>>,
           UNCHANGED <<linkConfig, ctlVars, toHost, phase, held, ran>>
    PROVE  Greeted'
<1>1. LinkTypeOK /\ Proven /\ Greeted
  BY DEF LinkInv
<1>2. UNCHANGED <<peer, gate, served, asked, known, shake, ctlUp, calls, tracked, ended>>
  BY DEF linkConfig, ctlVars
<1>3. shake = "negotiated" /\ phase # "awaiting-hello" /\ ~In(0, toHost)
  BY <1>1 DEF Greeted, Proven
<1>4. ~Unspoken' /\ ~In(0, toHost)'
  BY <1>2, <1>3 DEF Unspoken, In
<1> QED  BY <1>1, <1>2, <1>3, <1>4 DEF Greeted, Made

LEMMA CompletesStep == ASSUME LinkInv, NEW c \in Ids, Completes(c) PROVE LinkInv'
<1>1. /\ LinkTypeOK /\ Proven /\ Belongs(sink, running, ran) /\ Answers(running, toCtl, ran)
      /\ toCtl \in Seq(Messages) /\ running \in SUBSET Ids
  BY DEF LinkInv, LinkTypeOK, Messages, Keeps
<1>2. /\ c \in running /\ running' = running \ {c} /\ HookSettles(c)
      /\ UNCHANGED <<phase, caps, held, sink, hostUp, toHost, ran, frames, linkConfig, ctlVars>>
      /\ UNCHANGED <<peer, gate, served, asked, known, shake, ctlUp, calls, tracked, ended>>
  BY DEF Completes, HookSettles, linkConfig, ctlVars
<1>3. In(c, ran) /\ calls[c].m = "claim" /\ (ctlUp => calls[c].st = "sent")
  BY <1>1, <1>2 DEF Belongs
<1>4. ran # <<>>
  BY <1>3 DEF In
<1>5. Belongs(sink, running, ran)'
  BY <1>1, <1>2 DEF Belongs, In
<1>6. /\ toCtl' \in Seq(Messages) /\ Answers(running', toCtl', ran)
      /\ hostUp => /\ \A i \in DOMAIN toCtl : i \in DOMAIN toCtl' /\ toCtl'[i] = toCtl[i]
                   /\ Answer(c, toCtl')
  <2>1. CASE ~hostUp
    <3>1. toCtl' = toCtl
      BY <1>2, <2>1 DEF HookSettles
    <3> QED  BY <1>1, <1>2, <2>1, <3>1 DEF Answers
  <2>2. CASE hostUp
    <3>1. PICK ok \in BOOLEAN : toCtl' = Answered(Handler(caps), c, ok).out
      BY <1>2, <2>2 DEF HookSettles
    <3>2. toCtl' = Append(toCtl, Yes(c, ok))
      BY <3>1 DEF Answered, Handler, Yes
    <3>3. \A i \in DOMAIN toCtl : toCtl[i].t \in {"response", "binary"} => toCtl[i].id # c
      BY <1>1, <1>2, <1>3 DEF Answers
    <3>4. PICK rn : rn = running'
      OBVIOUS
    <3>5. rn \subseteq running /\ c \notin rn /\ (calls[c].m = "subscribe" => ok = known)
      BY <1>2, <1>3, <3>4
    <3>6. Answers(rn, Append(toCtl, Yes(c, ok)), ran)
      BY <1>1, <1>3, <3>3, <3>5, AnsweredKeeps
    <3>7. Yes(c, ok) \in Messages /\ Yes(c, ok).t = "response" /\ Yes(c, ok).id = c
      BY MessageTypes DEF Yes
    <3>8. PICK o : o = Append(toCtl, Yes(c, ok))
      OBVIOUS
    <3>9. /\ o \in Seq(Messages) /\ Len(toCtl) \in Nat /\ Len(o) = Len(toCtl) + 1
          /\ DOMAIN o = 1..Len(o) /\ o[Len(toCtl) + 1] = Yes(c, ok)
          /\ \A i \in DOMAIN toCtl : i \in DOMAIN o /\ o[i] = toCtl[i]
      BY <1>1, <3>7, <3>8, AppendIs
    <3>10. Len(toCtl) + 1 \in DOMAIN o
      BY <3>9
    <3>11. Answer(c, o)
      BY <3>7, <3>9, <3>10 DEF Answer
    <3> QED  BY <3>2, <3>4, <3>6, <3>8, <3>9, <3>11
  <2> QED  BY <2>1, <2>2
<1>7. Answers(running, toCtl, ran)'
  BY <1>2, <1>6 DEF Answers, In
<1>8. ASSUME ctlUp, hostUp PROVE Owed(running, toCtl, ran)' /\ Streams(sink, toCtl, ran)'
  <2>1. Owed(running, toCtl, ran) /\ Streams(sink, toCtl, ran)
    BY <1>8 DEF LinkInv, Keeps
  <2>2. \A x : Answer(x, toCtl) => Answer(x, toCtl')
    BY <1>6, <1>8 DEF Answer
  <2>3. ASSUME NEW x \in Made, In(x, ran), calls[x].st = "sent", x \notin running'
        PROVE  Answer(x, toCtl')
    BY <1>2, <1>6, <1>8, <2>1, <2>2, <2>3 DEF Owed
  <2>4. Owed(running, toCtl, ran)'
    BY <1>2, <2>3 DEF Owed, In, Made, Answer
  <2>5. \A x : InStep(sink, toCtl, x) => InStep(sink, toCtl, x)'
    BY <1>2, <1>6, <1>8 DEF InStep, In, LastShot
  <2>6. Streams(sink, toCtl, ran)'
    BY <1>2, <2>1, <2>5 DEF Streams, Subscribing, Pending, Open, Made, In
  <2> QED  BY <2>4, <2>6
<1>9. Keeps(sink, running, toCtl, ran)'
  BY <1>2, <1>5, <1>7, <1>8 DEF Keeps
<1>10. LinkTypeOK'
  BY <1>1, <1>2, <1>6 DEF LinkTypeOK, Messages
<1>11. Proven' /\ OneAtATime' /\ Len(calls') <= MaxCalls /\ Greeted'
  BY <1>2, <1>4, ProvenAlone, OneAlone, LongGreeted DEF LinkInv, provenVars
<1>12. Lined'
  BY <1>2, LinedAlone DEF LinkInv, lineVars
<1> QED  BY <1>9, <1>10, <1>11, <1>12 DEF LinkInv

LEMMA EmitsStep == ASSUME LinkInv, NEW last \in BOOLEAN, Emits(last) PROVE LinkInv'
<1>1. /\ LinkTypeOK /\ Proven /\ Belongs(sink, running, ran) /\ Answers(running, toCtl, ran)
      /\ toCtl \in Seq(Messages) /\ sink \in Ids \cup {0} /\ frames \in 0..(MaxFrames + 1)
  BY DEF LinkInv, LinkTypeOK, Messages, Keeps
<1>2. /\ sink # 0 /\ sink' = IF last THEN 0 ELSE sink
      /\ toCtl' = Append(toCtl, Shot(sink, last))
      /\ UNCHANGED <<phase, caps, held, running, hostUp, toHost, ran, linkConfig, ctlVars>>
      /\ UNCHANGED <<peer, gate, served, asked, known, shake, ctlUp, calls, tracked, ended>>
  BY DEF Emits, Shot, linkConfig, ctlVars
<1>3. sink \in Ids /\ In(sink, ran) /\ calls[sink].m = "subscribe" /\ ran # <<>>
  BY <1>1, <1>2 DEF Belongs, In
<1>4. frames' \in 0..(MaxFrames + 1) /\ (last => frames' > MaxFrames)
  <2>1. CASE last
    BY <2>1, LinkAssumption DEF Emits
  <2>2. CASE ~last
    BY <1>1, <2>2, LinkAssumption DEF Emits
  <2> QED  BY <2>1, <2>2
<1>5. Belongs(sink, running, ran)'
  BY <1>1, <1>2 DEF Belongs, In
<1>6. PICK o, u : u = Shot(sink, last) /\ o = Append(toCtl, u)
  OBVIOUS
<1>7. u \in Messages
  BY <1>3, <1>6, MessageTypes
<1>8. /\ o \in Seq(Messages) /\ Len(toCtl) \in Nat /\ Len(o) = Len(toCtl) + 1
      /\ DOMAIN o = 1..Len(o) /\ o[Len(toCtl) + 1] = u
      /\ \A i \in DOMAIN toCtl : i \in DOMAIN o /\ o[i] = toCtl[i]
  BY <1>1, <1>6, <1>7, AppendIs
<1>9. toCtl' = o /\ Answers(running, o, ran)
  BY <1>1, <1>2, <1>3, <1>6, ShotKeeps
<1>10. Answers(running, toCtl, ran)'
  BY <1>2, <1>9 DEF Answers, In
<1>11. Len(toCtl) + 1 \in DOMAIN o
  BY <1>8
<1>12. last => In(LastShot(sink), o)
  <2>1. ASSUME last PROVE u = LastShot(sink)
    BY <1>6, <2>1 DEF Shot, LastShot
  <2> QED  BY <1>8, <1>11, <2>1 DEF In
<1>13. ASSUME ctlUp, hostUp PROVE Owed(running, toCtl, ran)' /\ Streams(sink, toCtl, ran)'
  <2>1. Owed(running, toCtl, ran) /\ Streams(sink, toCtl, ran)
    BY <1>13 DEF LinkInv, Keeps
  <2>2. \A x : Answer(x, toCtl) => Answer(x, toCtl)'
    BY <1>8, <1>9 DEF Answer
  <2>3. Owed(running, toCtl, ran)'
    BY <1>2, <2>1, <2>2 DEF Owed, In, Made
  <2>4. ASSUME NEW x, InStep(sink, toCtl, x) PROVE InStep(sink, toCtl, x)'
    <3>1. x = sink
      BY <1>2, <2>4 DEF InStep
    <3>2. CASE ~last
      BY <1>2, <3>1, <3>2 DEF InStep
    <3>3. CASE last
      <4>1. frames' > MaxFrames /\ sink' = 0
        BY <1>2, <1>4, <3>3
      <4>2. In(LastShot(x), toCtl)'
        BY <1>9, <1>12, <3>1, <3>3 DEF In, LastShot
      <4> QED  BY <4>1, <4>2 DEF InStep
    <3> QED  BY <3>2, <3>3
  <2>5. sink = 0 => sink' = 0
    BY <1>2
  <2>6. Streams(sink, toCtl, ran)'
    BY <1>2, <2>1, <2>4, <2>5 DEF Streams, Subscribing, Pending, Open, Made, In
  <2> QED  BY <2>3, <2>6
<1>14. Keeps(sink, running, toCtl, ran)'
  BY <1>2, <1>5, <1>10, <1>13 DEF Keeps
<1>15. LinkTypeOK'
  <2>1. sink' \in Ids \cup {0}
    BY <1>1, <1>2
  <2> QED  BY <1>1, <1>2, <1>4, <1>8, <1>9, <2>1 DEF LinkTypeOK, Messages
<1>16. Proven' /\ OneAtATime' /\ Len(calls') <= MaxCalls /\ Greeted'
  BY <1>2, <1>3, ProvenAlone, OneAlone, LongGreeted DEF LinkInv, provenVars
<1>17. Lined'
  BY <1>2, LinedAlone DEF LinkInv, lineVars
<1> QED  BY <1>14, <1>15, <1>16, <1>17 DEF LinkInv

-----------------------------------------------------------------------------
(* Every step, and every reachable state. *)

LEMMA NextLinkInv == LinkInv /\ [LinkNext]_linkVars => LinkInv'
<1> SUFFICES ASSUME LinkInv, [LinkNext]_linkVars PROVE LinkInv'
  OBVIOUS
<1>1. CASE UNCHANGED linkVars
  <2>1. UNCHANGED <<peer, gate, served, asked, known, phase, caps, held, sink, running, hostUp,
                    shake, ctlUp, calls, tracked, ended, toHost, toCtl, ran, frames>>
    BY <1>1 DEF linkVars, linkConfig, hostVars, ctlVars
  <2>2. LinkTypeOK'
    BY <2>1 DEF LinkInv, LinkTypeOK
  <2> QED
    BY <2>1, <2>2, KeepsAlone, LinedAlone, ProvenAlone, GreetedAlone, OneAlone
    DEF LinkInv, keepVars, lineVars, provenVars, greetVars
<1>2. CASE AckTimesOut \/ ControllerCloses
  BY <1>2, ClosesStep DEF AckTimesOut, ControllerCloses
<1>3. CASE CtlReceives
  BY <1>3, TakesAckStep, TakesResponseStep, TakesFrameStep, CtlIgnoresStep DEF CtlReceives
<1>4. CASE HostTakes
  BY <1>4, TakesHelloStep, HostReceivesStep, HostIgnoresStep DEF HostTakes
<1>5. ASSUME NEW m \in Methods, Calls(m) PROVE LinkInv'
  BY <1>5, CallsStep
<1>6. ASSUME NEW c \in Ids, Requests(c) \/ Completes(c) PROVE LinkInv'
  BY <1>6, RequestsStep, CompletesStep
<1>7. ASSUME NEW last \in BOOLEAN, Emits(last) PROVE LinkInv'
  BY <1>7, EmitsStep
<1>8. CASE Greets \/ Verdict \/ HostCloses
  BY <1>8, GreetsStep, VerdictStep, HostClosesStep
<1> QED  BY <1>1, <1>2, <1>3, <1>4, <1>5, <1>6, <1>7, <1>8 DEF LinkNext

LEMMA SpecLinkInv == LinkSpec => []LinkInv
BY InitLinkInv, NextLinkInv, PTL DEF LinkSpec

-----------------------------------------------------------------------------
(* What the invariant says of the line, the answers and the streams. *)

LEMMA InConcat ==
    ASSUME NEW s \in Seq(Nat), NEW u \in Seq(Nat), Ascending(s), Ascending(u),
           \A i \in DOMAIN s, j \in DOMAIN u : s[i] < u[j], NEW o, o = s \o u
    PROVE  /\ o \in Seq(Nat) /\ Ascending(o)
           /\ \A x : In(x, o) <=> In(x, s) \/ In(x, u)
<1>1. /\ o \in Seq(Nat) /\ Len(s) \in Nat /\ Len(u) \in Nat /\ DOMAIN s = 1..Len(s)
      /\ DOMAIN u = 1..Len(u) /\ DOMAIN o = 1..(Len(s) + Len(u))
  OBVIOUS
<1>2. \A i \in 1..Len(s) : i \in DOMAIN o /\ o[i] = s[i]
  BY <1>1
<1>3. ASSUME NEW j \in 1..Len(u) PROVE Len(s) + j \in DOMAIN o /\ o[Len(s) + j] = u[j]
  BY <1>1
<1>4. ASSUME NEW i \in DOMAIN o
      PROVE  i \in DOMAIN s \/ \E j \in DOMAIN u : i = Len(s) + j
  <2>1. CASE i > Len(s)
    <3>1. i - Len(s) \in 1..Len(u) /\ i = Len(s) + (i - Len(s))
      BY <1>1, <2>1
    <3> QED  BY <1>1, <3>1
  <2>2. CASE ~(i > Len(s))
    BY <1>1, <2>2
  <2> QED  BY <2>1, <2>2
<1>5. ASSUME NEW i \in DOMAIN o, NEW k \in DOMAIN o, i < k PROVE o[i] < o[k]
  <2>1. CASE i \in DOMAIN s /\ k \in DOMAIN s
    BY <1>1, <1>2, <1>5, <2>1 DEF Ascending
  <2>2. ASSUME i \in DOMAIN s, NEW j \in DOMAIN u, k = Len(s) + j PROVE o[i] < o[k]
    BY <1>1, <1>2, <1>3, <2>2
  <2>3. ASSUME NEW h \in DOMAIN u, i = Len(s) + h, k \in DOMAIN s PROVE FALSE
    BY <1>1, <1>5, <2>3
  <2>4. ASSUME NEW h \in DOMAIN u, NEW j \in DOMAIN u, i = Len(s) + h, k = Len(s) + j
        PROVE  o[i] < o[k]
    <3>1. h < j
      BY <1>1, <1>5, <2>4
    <3>2. u[h] < u[j] /\ o[i] = u[h] /\ o[k] = u[j]
      BY <1>1, <1>3, <2>4, <3>1 DEF Ascending
    <3> QED  BY <3>2
  <2> QED  BY <1>4, <2>1, <2>2, <2>3, <2>4
<1>6. ASSUME NEW x, In(x, o) PROVE In(x, s) \/ In(x, u)
  BY <1>1, <1>2, <1>3, <1>4, <1>6 DEF In
<1>7. ASSUME NEW x, In(x, s) \/ In(x, u) PROVE In(x, o)
  <2>1. CASE In(x, s)
    BY <1>1, <1>2, <2>1 DEF In
  <2>2. CASE In(x, u)
    <3>1. PICK j \in 1..Len(u) : u[j] = x
      BY <1>1, <2>2 DEF In
    <3> QED  BY <1>3, <3>1 DEF In
  <2> QED  BY <1>7, <2>1, <2>2
<1>8. Ascending(o)
  BY <1>5 DEF Ascending
<1> QED  BY <1>1, <1>6, <1>7, <1>8

LEMMA InvServedInOrder == LinkInv => ServedInOrder
<1> SUFFICES ASSUME LinkInv PROVE ServedInOrder
  OBVIOUS
<1>1. LinkTypeOK /\ Greeted /\ Lined
  BY DEF LinkInv
<1>2. /\ ran \in Seq(Ids) /\ held \in Seq(Ids) /\ toHost \in Seq({0} \cup Ids)
      /\ DOMAIN ran = 1..Len(ran) /\ Len(ran) \in Nat
  BY <1>1 DEF LinkTypeOK
<1>3. Ids \subseteq Nat /\ {0} \cup Ids \subseteq Nat
  BY IdsAre
<1>4. ran \in Seq(Nat) /\ held \in Seq(Nat) /\ toHost \in Seq(Nat)
  BY <1>2, <1>3, SeqGrows
<1>5. Ascending(ran) /\ Ascending(held) /\ Ascending(toHost)
  BY <1>1 DEF Lined
<1>6. ASSUME NEW i \in DOMAIN ran PROVE {c \in LetGo : c <= ran[i]} = {ran[j] : j \in 1..i}
  <2>1. i \in Nat /\ i \in 1..Len(ran) /\ ran[i] \in Nat
    BY <1>2, <1>4
  <2>2. ASSUME NEW c \in LetGo, c <= ran[i] PROVE \E j \in 1..i : c = ran[j]
    <3>0. c \in Nat
      BY LinePlaces, IdsAre DEF LetGo
    <3>1. CASE c = ran[i]
      BY <2>1, <3>1
    <3>2. CASE c # ran[i]
      <4>1. c < ran[i]
        BY <2>1, <2>2, <3>0, <3>2
      <4>2. PICK j \in DOMAIN ran : ran[j] = c
        BY <1>1, <4>1 DEF Lined, In
      <4>3. ~(i < j)
        <5>1. i < j => ran[i] < ran[j]
          BY <1>5, <4>2 DEF Ascending
        <5> QED  BY <2>1, <3>0, <4>1, <4>2, <5>1
      <4> QED  BY <1>2, <2>1, <4>2, <4>3
    <3> QED  BY <3>1, <3>2
  <2>3. ASSUME NEW j \in 1..i PROVE ran[j] \in LetGo /\ ran[j] <= ran[i]
    <3>1. j \in DOMAIN ran /\ j \in Nat /\ (j = i \/ j < i)
      BY <1>2, <2>1
    <3>2. ran[j] \in Ids /\ InLine(ran[j]) /\ ran[j] \in Nat
      <4>1. ran[j] \in Ids
        BY <1>2, <3>1
      <4>2. In(ran[j], ran)
        BY <3>1 DEF In
      <4> QED  BY <1>3, <4>1, <4>2 DEF InLine
    <3>3. ran[j] \in LetGo
      BY <1>1, <3>2 DEF Lined
    <3>4. ran[j] = ran[i] \/ ran[j] < ran[i]
      BY <1>5, <3>1 DEF Ascending
    <3> QED  BY <2>1, <3>2, <3>3, <3>4
  <2> QED  BY <2>2, <2>3
<1>7. ASSUME hostUp, ctlUp, shake = "negotiated", NEW line, line = ran \o held \o toHost
      PROVE  Ascending(line) /\ {line[i] : i \in DOMAIN line} = LetGo
  <2>1. PICK p : p = ran \o held
    OBVIOUS
  <2>2. /\ \A i \in DOMAIN ran, j \in DOMAIN held : ran[i] < held[j]
        /\ \A i \in DOMAIN ran, j \in DOMAIN toHost : ran[i] < toHost[j]
        /\ \A i \in DOMAIN held, j \in DOMAIN toHost : held[i] < toHost[j]
    BY <1>1 DEF Lined
  <2>3. p \in Seq(Nat) /\ Ascending(p) /\ \A x : In(x, p) <=> In(x, ran) \/ In(x, held)
    BY <1>4, <1>5, <2>1, <2>2, InConcat
  <2>4. ASSUME NEW i \in DOMAIN p, NEW j \in DOMAIN toHost PROVE p[i] < toHost[j]
    <3>1. In(p[i], ran) \/ In(p[i], held)
      BY <2>3 DEF In
    <3> QED  BY <2>2, <3>1 DEF In
  <2>5. line = p \o toHost
    BY <1>7, <2>1
  <2>6. Ascending(line) /\ \A x : In(x, line) <=> In(x, p) \/ In(x, toHost)
    BY <1>4, <1>5, <2>3, <2>4, <2>5, InConcat
  <2>7. \A x : In(x, line) <=> InLine(x)
    BY <2>3, <2>6 DEF InLine
  <2>8. \A x \in LetGo : InLine(x)
    BY <1>1, <1>7 DEF Lined
  <2>9. \A x : InLine(x) => x \in LetGo
    <3>1. ~In(0, toHost)
      BY <1>1, <1>7 DEF Greeted
    <3>2. ASSUME NEW x, InLine(x) PROVE x \in Ids
      BY <3>1, <3>2, LinePlaces DEF InLine
    <3> QED  BY <1>1, <3>2 DEF Lined
  <2>10. \A x : x \in LetGo <=> \E i \in DOMAIN line : line[i] = x
    BY <2>7, <2>8, <2>9 DEF In
  <2> QED  BY <2>6, <2>10
<1> QED  BY <1>5, <1>6, <1>7 DEF ServedInOrder

LEMMA InvStreamHasSink == LinkInv => StreamHasSink
<1> SUFFICES ASSUME LinkInv, hostUp, ctlUp, toHost = <<>>, toCtl = <<>>, Settled
             PROVE  tracked = sink \/ (frames > MaxFrames /\ tracked \in ended)
  BY DEF StreamHasSink
<1>1. Streams(sink, toCtl, ran)
  BY DEF LinkInv, Keeps
<1>2. \A c \in Made : ~Pending(c, "unsubscribe") /\ ~Subscribing(c, ran)
  BY DEF Settled, Pending, Subscribing
<1>3. InStep(sink, toCtl, tracked)
  BY <1>1, <1>2 DEF Streams
<1> QED  BY <1>3 DEF InStep, In

LEMMA InvNoSurpriseRefusal == LinkInv => NoSurpriseRefusal
<1> SUFFICES ASSUME LinkInv, NEW i \in DOMAIN ran
             PROVE  requiredCapability(calls[ran[i]].m) \subseteq caps
  BY DEF NoSurpriseRefusal
<1>1. LinkTypeOK /\ Proven /\ Lined /\ ran \in Seq(Ids)
  BY DEF LinkInv, LinkTypeOK
<1>2. ran[i] \in Ids /\ InLine(ran[i]) /\ ran # <<>>
  BY <1>1 DEF InLine, In
<1>3. MayRequest(ran[i]) /\ caps = served \cap asked
  BY <1>1, <1>2 DEF Lined, LetGo, Proven
<1> QED  BY <1>3 DEF MayRequest

-----------------------------------------------------------------------------
(* The theorems. *)

\* Nothing a controller sends is dispatched (handleRpcPayload) unless it has
\* greeted compatibly and the device gate did not refuse it: not what came in
\* before the verdict, and not what admit() replays after it.
THEOREM OnlyProven == LinkSpec => []OnlyProvenServed
<1>1. LinkInv => OnlyProvenServed
  BY DEF LinkInv, LinkTypeOK, Proven, OnlyProvenServed
<1> QED  BY <1>1, SpecLinkInv, PTL

\* Whatever the two ends do and wherever the connection is cut: requests are
\* dispatched in the order #send let them out and without a gap, a frame comes
\* behind the answer to its subscribe, dispatch refuses nothing #send let out,
\* a quiet connection has a sink exactly where the controller has a stream, and
\* #onClose leaves no call waiting.
THEOREM InStepHolds == LinkSpec => []LinkInStep
<1>1. LinkInv => AnswerBeforeFrames
  BY DEF LinkInv, Keeps, Answers, AnswerBeforeFrames
<1>2. LinkInv => ClosedOwesNothing
  BY DEF LinkInv, OneAtATime
<1>3. LinkInv => LinkInStep
  BY <1>1, <1>2, InvServedInOrder, InvStreamHasSink, InvNoSurpriseRefusal DEF LinkInStep
<1> QED  BY <1>3, SpecLinkInv, PTL

\* The fields of both SecureChannel ends, of the Controller and of the served
\* connection stay what their declarations say, whichever part moves.
THEOREM SecureTypes == MCSpec => []MCTypeOK
<1> DEFINE Both == IInv /\ LinkInv
<1>1. MCInit => Both
  BY InitIInv, InitLinkInv DEF MCInit
<1>2. Both /\ [MCNext]_MCVars => Both'
  <2>1. [MCNext]_MCVars => [ChannelNext]_chanVars /\ [LinkNext]_linkVars
    BY DEF MCNext, MCVars
  <2> QED  BY <2>1, NextIInv, NextLinkInv
<1>3. Both => MCTypeOK
  BY DEF IInv, LinkInv, MCTypeOK
<1> HIDE DEF Both
<1> QED  BY <1>1, <1>2, <1>3, PTL DEF MCSpec
=============================================================================
