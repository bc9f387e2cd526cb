------------------------- MODULE SecureChannelProofs ------------------------
(***************************************************************************)
(* Proofs about SecureChannel, for any number of frames and of faults: the *)
(* channel implements a FIFO stream each way, and what goes beyond silence *)
(* needs a peer with the same keys.                                        *)
(*                                                                         *)
(* The transport invents no records: each one it carries, wherever it was  *)
(* moved, was sealed by the far end under the keys that end has for good,  *)
(* with the number and the body of its place in what was sent.  So the one *)
(* that opens next is the next one, and the first that opens shows that    *)
(* the two ends derived the same keys.                                     *)
(***************************************************************************)
EXTENDS SecureChannel, TLAPS

\* The units that may be under way to e.
Genuine(e) ==
    {u \in Unit : u.t = "record" =>
        /\ state[Peer(e)] # "handshaking"
        /\ u.from = Peer(e) /\ u.k = SessionKeys(Peer(e))
        /\ u.n < Len(sent[Peer(e)]) /\ u.body = sent[Peer(e)][u.n + 1]}

Carries(w) == w \in [Ends -> Seq(Unit)] /\ \A e \in Ends : w[e] \in Seq(Genuine(e))

Wires == Carries(wire)

\* Before its handshake an end has done nothing; from then on its keys stay.
Early ==
    /\ static["responder"] = "host" /\ context["responder"] = "bound"
    /\ \A e \in Ends : state[e] = "handshaking" =>
         seen[e] = "none" /\ sent[e] = <<>> /\ got[e] = <<>> /\ ~authed[e]
    /\ \A e \in Ends : state[e] = "open" => seen[e] # "none"

\* An end takes its peer for proven only if both have the same keys for good.
Agreed ==
    /\ \A e \in Ends : got[e] # <<>> => authed[e]
    /\ \A e \in Ends : authed[e] =>
         /\ state[e] # "handshaking" /\ state[Peer(e)] # "handshaking"
         /\ SessionKeys(e) = SessionKeys(Peer(e))
    /\ Len(sent["initiator"]) > 1 => authed["initiator"]

IInv == ChannelTypeOK /\ Wires /\ Early /\ Agreed

-----------------------------------------------------------------------------
(* Units and wires. *)

LEMMA PeerOf == \A e \in Ends : Peer(e) \in Ends /\ Peer(e) # e /\ Peer(Peer(e)) = e
BY DEF Ends, Peer

LEMMA PlainGenuine ==
  ASSUME NEW e \in Ends
  PROVE  /\ \A x \in Ephemerals : [t |-> "ephemeral", e |-> x] \in Genuine(e)
         /\ [t |-> "garbled"] \in Genuine(e)
         /\ Genuine(e) \subseteq Unit
BY DEF Genuine, Unit

\* Records stay genuine: keys are for good and what was sent is only added to.
LEMMA GenuineGrows ==
  ASSUME NEW e \in Ends, UNCHANGED config,
         sent[Peer(e)] \in Seq(Bodies),
         state[Peer(e)] # "handshaking" =>
            state'[Peer(e)] # "handshaking" /\ seen'[Peer(e)] = seen[Peer(e)],
         \/ sent'[Peer(e)] = sent[Peer(e)]
         \/ \E b \in Bodies : sent'[Peer(e)] = Append(sent[Peer(e)], b)
  PROVE  Genuine(e) \subseteq Genuine(e)'
<1> DEFINE f == Peer(e)
<1> SUFFICES ASSUME NEW u \in Genuine(e) PROVE u \in Genuine(e)'
  OBVIOUS
<1>1. CASE u.t # "record"
  BY <1>1 DEF Genuine
<1>2. CASE u.t = "record"
  <2>1. /\ u \in Unit /\ state[f] # "handshaking" /\ u.from = f
        /\ u.k = SessionKeys(f) /\ u.n < Len(sent[f]) /\ u.body = sent[f][u.n + 1]
    BY <1>2 DEF Genuine
  <2>2. u.n \in Nat
    BY <1>2, <2>1 DEF Unit
  <2>3. SessionKeys(f)' = SessionKeys(f)
    BY <2>1 DEF SessionKeys, config
  <2>4. u.n < Len(sent'[f]) /\ sent'[f][u.n + 1] = sent[f][u.n + 1]
    BY <2>1, <2>2
  <2>5. state'[f] # "handshaking"
    BY <2>1
  <2> QED  BY <2>1, <2>3, <2>4, <2>5 DEF Genuine
<1> QED  BY <1>1, <1>2

LEMMA SeqGrows ==
  ASSUME NEW S, NEW T, S \subseteq T, NEW w \in Seq(S)
  PROVE  w \in Seq(T)
OBVIOUS

\* A step after which an end knows no more and no less: no keys are made,
\* nothing is sealed and nothing delivered.
Calm ==
    /\ UNCHANGED <<config, seen, authed, sent, got>>
    /\ state' \in [Ends -> {"handshaking", "open", "closed"}]
    /\ \A e \in Ends : state'[e] \in {state[e], "closed"}
    /\ wedged' \in [Ends -> BOOLEAN] /\ begun' \in BOOLEAN /\ faults' \in 0..MaxFaults
    /\ Carries(wire')

LEMMA CalmIInv ==
  ASSUME IInv, Calm
  PROVE  IInv'
<1>1. ChannelTypeOK'
  BY DEF IInv, ChannelTypeOK, Calm, Carries, config
<1>2. Early'
  BY DEF IInv, Early, Calm, config
<1>3. Agreed'
  <2>1. \A e \in Ends : SessionKeys(e)' = SessionKeys(e)
    BY DEF SessionKeys, Calm, config
  <2>2. \A e \in Ends : state[e] # "handshaking" => state'[e] # "handshaking"
    BY DEF Calm
  <2> QED  BY PeerOf, <2>1, <2>2 DEF IInv, Agreed, Calm
<1>4. Wires'
  <2> SUFFICES ASSUME NEW e \in Ends PROVE wire'[e] \in Seq(Genuine(e)')
    BY DEF Wires, Carries, Calm
  <2>1. Genuine(e) \subseteq Genuine(e)'
    <3>1. Peer(e) \in Ends
      BY PeerOf
    <3>2. /\ sent[Peer(e)] \in Seq(Bodies) /\ sent'[Peer(e)] = sent[Peer(e)]
          /\ UNCHANGED config /\ seen'[Peer(e)] = seen[Peer(e)]
          /\ state[Peer(e)] # "handshaking" => state'[Peer(e)] # "handshaking"
      BY <3>1 DEF IInv, ChannelTypeOK, Calm
    <3> QED  BY <3>2, GenuineGrows
  <2>2. wire'[e] \in Seq(Genuine(e))
    BY DEF Calm, Carries
  <2> QED  BY <2>1, <2>2, SeqGrows
<1> QED  BY <1>1, <1>2, <1>3, <1>4 DEF IInv

\* A unit is taken from the head of a wire, or put at the end of one.
LEMMA TakenCarries ==
  ASSUME Wires, NEW e \in Ends, wire[e] # <<>>
  PROVE  Carries(Taken(e)) /\ Head(wire[e]) \in Genuine(e)
<1>1. wire \in [Ends -> Seq(Unit)] /\ \A f \in Ends : wire[f] \in Seq(Genuine(f))
  BY DEF Wires, Carries
<1>2. /\ Tail(wire[e]) \in Seq(Unit) /\ Tail(wire[e]) \in Seq(Genuine(e))
      /\ Head(wire[e]) \in Genuine(e)
  <2>1. wire[e] \in Seq(Unit) /\ wire[e] \in Seq(Genuine(e))
    BY <1>1
  <2> QED  BY <2>1
<1>3. Taken(e) \in [Ends -> Seq(Unit)] /\ \A f \in Ends : Taken(e)[f] \in Seq(Genuine(f))
  BY <1>1, <1>2 DEF Taken
<1> QED  BY <1>2, <1>3 DEF Carries

LEMMA PutCarries ==
  ASSUME NEW w, Carries(w), NEW e \in Ends, NEW u \in Genuine(e)
  PROVE  Carries([w EXCEPT ![e] = Append(@, u)])
<1>1. u \in Unit /\ w \in [Ends -> Seq(Unit)] /\ \A f \in Ends : w[f] \in Seq(Genuine(f))
  BY DEF Carries, Genuine
<1>2. Append(w[e], u) \in Seq(Unit) /\ Append(w[e], u) \in Seq(Genuine(e))
  <2>1. w[e] \in Seq(Unit) /\ w[e] \in Seq(Genuine(e))
    BY <1>1
  <2> QED  BY <1>1, <2>1
<1> QED  BY <1>1, <1>2 DEF Carries

\* Whatever the transport does at the head of a wire, it makes no record.
LEMMA TamperedGenuine ==
  ASSUME NEW e \in Ends, wire[e] \in Seq(Genuine(e)), wire[e] # <<>>, NEW w \in Tampered(e)
  PROVE  w \in Seq(Genuine(e))
<1> DEFINE v == wire[e]
           G == Genuine(e)
           x == [t |-> "garbled"]
           y == [t |-> "ephemeral", e |-> "garbled"]
<1>1. v \in Seq(G) /\ v # <<>> /\ x \in G /\ y \in G
  BY PlainGenuine DEF Ephemerals
<1>2. \/ w \in {Tail(v), <<Head(v)>> \o v, <<x>> \o Tail(v), <<y>> \o Tail(v)}
      \/ Len(v) > 1 /\ w = <<v[2], v[1]>> \o SubSeq(v, 3, Len(v))
  BY DEF Tampered
<1> HIDE DEF v, G, x, y
<1>3. Tail(v) \in Seq(G) /\ Head(v) \in G
  BY <1>1
<1>4. <<Head(v)>> \in Seq(G) /\ <<x>> \in Seq(G) /\ <<y>> \in Seq(G)
  BY <1>1, <1>3
<1>5. ASSUME Len(v) > 1
      PROVE  <<v[2], v[1]>> \in Seq(G) /\ SubSeq(v, 3, Len(v)) \in Seq(G)
  <2>1. v[1] \in G /\ v[2] \in G
    BY <1>1, <1>5
  <2>2. SubSeq(v, 3, Len(v)) \in Seq(G)
    BY <1>1
  <2> QED  BY <2>1, <2>2
<1>6. \A a, b \in Seq(G) : a \o b \in Seq(G)
  OBVIOUS
<1>7. w \in Seq(G)
  BY <1>1, <1>2, <1>3, <1>4, <1>5, <1>6
<1> QED  BY <1>7 DEF G

-----------------------------------------------------------------------------
(* The steps. *)

LEMMA InitIInv == ChannelInit => IInv
<1> SUFFICES ASSUME ChannelInit PROVE IInv
  OBVIOUS
<1>1. ChannelTypeOK
  <2>1. /\ sent \in [Ends -> Seq(Bodies)] /\ got \in [Ends -> Seq(Bodies)]
        /\ \A e \in Ends : wire[e] \in Seq(Unit)
    BY DEF ChannelInit
  <2>2. faults \in 0..MaxFaults
    BY ChannelAssumption DEF ChannelInit
  <2> QED  BY <2>1, <2>2 DEF ChannelInit, ChannelTypeOK
<1>2. Wires
  BY DEF ChannelInit, Wires, Carries
<1>3. Early
  BY DEF ChannelInit, Early, Ends
<1>4. Agreed
  BY DEF ChannelInit, Agreed, Ends
<1> QED  BY <1>1, <1>2, <1>3, <1>4 DEF IInv

\* The initiator's first message, closing, tampering and what is not opened.
LEMMA BeginsIInv ==
  ASSUME IInv, Begins
  PROVE  IInv'
<1>1. Carries(wire')
  <2>1. Carries([wire EXCEPT !["responder"] = Append(@, [t |-> "ephemeral", e |-> "eI"])])
    BY PlainGenuine, PutCarries DEF IInv, Wires, Ends, Ephemerals
  <2> QED  BY <2>1 DEF Begins, Put, IInv, Wires
<1> QED  BY <1>1, CalmIInv DEF Begins, Calm, IInv, ChannelTypeOK

LEMMA CloseIInv ==
  ASSUME IInv, NEW e \in Ends, Close(e)
  PROVE  IInv'
BY CalmIInv DEF Close, Shutdown, Calm, IInv, ChannelTypeOK, Wires

LEMMA TamperIInv ==
  ASSUME IInv, NEW e \in Ends, Tamper(e)
  PROVE  IInv'
<1>a. wire \in [Ends -> Seq(Unit)] /\ \A f \in Ends : wire[f] \in Seq(Genuine(f))
  BY DEF IInv, Wires, Carries
<1>1. PICK w \in Tampered(e) : wire' = [wire EXCEPT ![e] = w]
  BY DEF Tamper
<1>2. w \in Seq(Genuine(e)) /\ w \in Seq(Unit)
  <2>1. w \in Seq(Genuine(e))
    BY <1>a, TamperedGenuine DEF Tamper
  <2> QED  BY <2>1, PlainGenuine, SeqGrows
<1>3. Carries(wire')
  BY <1>a, <1>1, <1>2 DEF Carries
<1>4. faults' \in 0..MaxFaults
  BY ChannelAssumption DEF Tamper, IInv, ChannelTypeOK
<1> QED  BY <1>3, <1>4, CalmIInv DEF Tamper, Calm, IInv, ChannelTypeOK

LEMMA DropsIInv ==
  ASSUME IInv, NEW e \in Ends, NEW u,
         Rejects(e, u) \/ Misframes(e, u) \/ Ignores(e, u)
  PROVE  IInv'
<1>1. wire[e] # <<>> /\ wire' = Taken(e)
  BY DEF Rejects, Misframes, Ignores, Arrives
<1>2. Carries(wire')
  BY <1>1, TakenCarries DEF IInv
<1>3. state' \in [Ends -> {"handshaking", "open", "closed"}]
      /\ \A f \in Ends : state'[f] \in {state[f], "closed"}
  BY DEF Rejects, Misframes, Ignores, Shutdown, IInv, ChannelTypeOK
<1>4. wedged' \in [Ends -> BOOLEAN]
  BY DEF Rejects, Misframes, Ignores, IInv, ChannelTypeOK
<1>5. UNCHANGED <<config, seen, authed, begun, sent, got, faults>>
  BY DEF Rejects, Misframes, Ignores
<1> QED  BY <1>2, <1>3, <1>4, <1>5, CalmIInv DEF Calm, IInv, ChannelTypeOK

\* An end makes its keys.
Opened(e) ==
    /\ state[e] = "handshaking" /\ state' = [state EXCEPT ![e] = "open"]
    /\ \E x \in Ephemerals : seen' = [seen EXCEPT ![e] = x]
    /\ UNCHANGED <<config, authed, begun, sent, got, faults>>
    /\ wedged' \in [Ends -> BOOLEAN]
    /\ Carries(wire')

LEMMA OpenedIInv ==
  ASSUME IInv, NEW e \in Ends, Opened(e)
  PROVE  IInv'
<1>a. ChannelTypeOK /\ Early /\ Agreed
  BY DEF IInv
<1>b. PICK x \in Ephemerals : seen' = [seen EXCEPT ![e] = x]
  BY DEF Opened
<1>c. x # "none"
  BY DEF Ephemerals
<1>1. ChannelTypeOK'
  BY <1>a, <1>b DEF Opened, ChannelTypeOK, Carries, config
<1>2. Early'
  BY <1>a, <1>b, <1>c DEF Opened, ChannelTypeOK, Early, config
<1>3. Agreed'
  <2>1. \A f \in Ends : ~authed[f]
    BY <1>a DEF Opened, Agreed, Ends, Peer
  <2> QED  BY <1>a, <2>1 DEF Opened, Agreed, Ends
<1>4. Wires'
  <2> SUFFICES ASSUME NEW f \in Ends PROVE wire'[f] \in Seq(Genuine(f)')
    BY DEF Wires, Carries, Opened
  <2>1. Peer(f) \in Ends /\ sent[Peer(f)] \in Seq(Bodies)
    BY <1>a, PeerOf DEF ChannelTypeOK
  <2>2. state[Peer(f)] # "handshaking" =>
           state'[Peer(f)] # "handshaking" /\ seen'[Peer(f)] = seen[Peer(f)]
    BY <1>a, <1>b, <2>1 DEF Opened, ChannelTypeOK
  <2>3. Genuine(f) \subseteq Genuine(f)'
    BY <2>1, <2>2, GenuineGrows DEF Opened
  <2>4. wire'[f] \in Seq(Genuine(f))
    BY DEF Opened, Carries
  <2> QED  BY <2>3, <2>4, SeqGrows
<1> QED  BY <1>1, <1>2, <1>3, <1>4 DEF IInv

LEMMA HandshakeIInv ==
  ASSUME IInv, NEW e \in Ends, NEW u, Handshakes(e, u) \/ Misreads(e, u)
  PROVE  IInv'
<1>a. ChannelTypeOK /\ Wires
  BY DEF IInv
<1>1. wire[e] # <<>> /\ u = Head(wire[e]) /\ state[e] = "handshaking"
  BY DEF Handshakes, Misreads, Arrives
<1>2. Carries(Taken(e)) /\ u \in Genuine(e)
  BY <1>a, <1>1, TakenCarries
<1>3. u.t = "ephemeral" => u.e \in Ephemerals
  BY <1>2 DEF Genuine, Unit
<1>4. Carries([Taken(e) EXCEPT ![Peer(e)] = Append(@, [t |-> "ephemeral", e |-> "eR"])])
  <2>1. Peer(e) \in Ends /\ "eR" \in Ephemerals
    BY PeerOf DEF Ephemerals
  <2> QED  BY <1>2, <2>1, PlainGenuine, PutCarries
<1>5. CASE Handshakes(e, u)
  <2>1. Carries(wire')
    BY <1>2, <1>4, <1>5 DEF Handshakes
  <2>2. Opened(e)
    BY <1>a, <1>1, <1>3, <1>5, <2>1 DEF Handshakes, Opened, ChannelTypeOK
  <2> QED  BY <2>2, OpenedIInv
<1>6. CASE Misreads(e, u) /\ Shutdown(e) /\ UNCHANGED <<seen, wedged>> /\ wire' = Taken(e)
  BY <1>a, <1>2, <1>6, CalmIInv DEF Misreads, Shutdown, Calm, ChannelTypeOK
<1>7. CASE /\ Misreads(e, u)
           /\ seen' = [seen EXCEPT ![e] = "garbled"]
           /\ state' = [state EXCEPT ![e] = "open"]
           /\ wedged' = [wedged EXCEPT ![e] = TRUE]
           /\ wire' = IF e = "responder"
                      THEN [Taken(e) EXCEPT ![Peer(e)] =
                              Append(@, [t |-> "ephemeral", e |-> "eR"])]
                      ELSE Taken(e)
  <2>1. Carries(wire')
    BY <1>2, <1>4, <1>7
  <2>2. wedged' \in [Ends -> BOOLEAN] /\ "garbled" \in Ephemerals
    BY <1>a, <1>7 DEF ChannelTypeOK, Ephemerals
  <2>3. Opened(e)
    BY <1>1, <1>7, <2>1, <2>2 DEF Misreads, Opened
  <2> QED  BY <2>3, OpenedIInv
<1> QED  BY <1>5, <1>6, <1>7 DEF Misreads

\* The record that opens was sealed by the peer under the keys of this end, and
\* it is the next of those sent.
LEMMA DeliveredIsNext ==
  ASSUME IInv, NEW e \in Ends, NEW u, Delivers(e, u)
  PROVE  /\ u \in Genuine(e) /\ u.body \in Bodies
         /\ state[Peer(e)] # "handshaking" /\ SessionKeys(e) = SessionKeys(Peer(e))
         /\ Len(got[e]) < Len(sent[Peer(e)])
         /\ u.body = sent[Peer(e)][Len(got[e]) + 1]
<1>1. wire[e] # <<>> /\ u = Head(wire[e]) /\ Opens(e, u)
  BY DEF Delivers, Arrives
<1>2. u \in Genuine(e)
  BY <1>1, TakenCarries DEF IInv
<1>3. u.t = "record" /\ u.k = SessionKeys(e) /\ u.n = Len(got[e])
  BY <1>1 DEF Opens
<1>4. u.body \in Bodies
  BY <1>2, <1>3 DEF Genuine, Unit
<1> QED  BY <1>2, <1>3, <1>4 DEF Genuine

LEMMA DeliversIInv ==
  ASSUME IInv, NEW e \in Ends, NEW u, Delivers(e, u)
  PROVE  IInv'
<1>a. ChannelTypeOK /\ Wires /\ Early /\ Agreed
  BY DEF IInv
<1>b. /\ u.body \in Bodies /\ state[Peer(e)] # "handshaking"
      /\ SessionKeys(e) = SessionKeys(Peer(e))
  BY DeliveredIsNext
<1>c. UNCHANGED <<config, state, seen, wedged, begun, sent, faults>>
  BY DEF Delivers
<1>d. Carries(wire')
  BY <1>a, TakenCarries DEF Delivers, Arrives
<1>1. got' \in [Ends -> Seq(Bodies)] /\ authed' \in [Ends -> BOOLEAN]
  BY <1>a, <1>b DEF Delivers, ChannelTypeOK
<1>2. ChannelTypeOK'
  BY <1>a, <1>c, <1>d, <1>1 DEF ChannelTypeOK, Carries, config
<1>3. Early'
  BY <1>a, <1>c DEF Delivers, Early, ChannelTypeOK, config
<1>4. Agreed'
  <2>1. \A f \in Ends : SessionKeys(f)' = SessionKeys(f)
    BY <1>c DEF SessionKeys, config
  <2>2. /\ authed'[e] /\ state[e] = "open"
        /\ \A f \in Ends \ {e} : authed'[f] = authed[f] /\ got'[f] = got[f]
    BY <1>a DEF Delivers, ChannelTypeOK
  <2>3. \A f \in Ends : got'[f] # <<>> => authed'[f]
    BY <1>a, <2>2 DEF Agreed
  <2>4. \A f \in Ends : authed'[f] =>
           /\ state[f] # "handshaking" /\ state[Peer(f)] # "handshaking"
           /\ SessionKeys(f) = SessionKeys(Peer(f))
    BY <1>a, <1>b, <2>2 DEF Agreed
  <2>5. Len(sent["initiator"]) > 1 => authed'["initiator"]
    BY <1>a, <2>2 DEF Agreed, Ends
  <2> QED  BY <1>c, <2>1, <2>3, <2>4, <2>5, PeerOf DEF Agreed
<1>5. Wires'
  <2>1. \A f \in Ends : Genuine(f)' = Genuine(f)
    BY <1>c DEF Genuine, SessionKeys, config
  <2> QED  BY <1>d, <2>1 DEF Wires, Carries
<1> QED  BY <1>2, <1>3, <1>4, <1>5 DEF IInv

LEMMA SendIInv ==
  ASSUME IInv, NEW e \in Ends, NEW b \in Bodies, Send(e, b)
  PROVE  IInv'
<1>a. ChannelTypeOK /\ Wires /\ Early /\ Agreed
  BY DEF IInv
<1>b. /\ state[e] = "open" /\ sent' = [sent EXCEPT ![e] = Append(@, b)]
      /\ UNCHANGED <<config, state, seen, authed, wedged, begun, got, faults>>
      /\ wire' = [wire EXCEPT ![Peer(e)] = Append(@, Sealed(e, b))]
  BY DEF Send, MaySend, Put
<1>c. Peer(e) \in Ends /\ Peer(e) # e /\ Peer(Peer(e)) = e
  BY PeerOf
<1>d. /\ sent[e] \in Seq(Bodies) /\ Len(sent[e]) \in Nat /\ sent'[e] = Append(sent[e], b)
      /\ \A f \in Ends \ {e} : sent'[f] = sent[f]
  BY <1>a, <1>b DEF ChannelTypeOK
<1>e. Len(sent'[e]) = Len(sent[e]) + 1 /\ sent'[e][Len(sent[e]) + 1] = b
  BY <1>d
<1>f. \A f \in Ends : SessionKeys(f)' = SessionKeys(f)
  BY <1>b DEF SessionKeys, config
<1>1. Sealed(e, b) \in Genuine(Peer(e))'
  <2>1. SessionKeys(e) \in Keys
    <3>1. seen[e] \in Ephemerals
      BY <1>a, <1>b DEF ChannelTypeOK, Early
    <3>2. static[e] \in {"host", "other"} /\ context[e] \in {"bound", "unbound"}
      BY <1>a DEF ChannelTypeOK
    <3>3. Own(e) \in Ephemerals
      BY DEF Own, Ephemerals
    <3> QED  BY <3>1, <3>2, <3>3 DEF SessionKeys, Keys
  <2>2. Sealed(e, b) \in Unit
    BY <1>d, <2>1 DEF Sealed, Unit
  <2>3. /\ Sealed(e, b).from = e /\ Sealed(e, b).k = SessionKeys(e)
        /\ Sealed(e, b).n = Len(sent[e]) /\ Sealed(e, b).body = b
    BY DEF Sealed
  <2>4. Len(sent[e]) < Len(sent'[e])
    BY <1>d, <1>e
  <2> QED  BY <1>b, <1>c, <1>e, <1>f, <2>2, <2>3, <2>4 DEF Genuine
<1>2. \A f \in Ends : Genuine(f) \subseteq Genuine(f)'
  <2> SUFFICES ASSUME NEW f \in Ends PROVE Genuine(f) \subseteq Genuine(f)'
    OBVIOUS
  <2>1. Peer(f) \in Ends /\ sent[Peer(f)] \in Seq(Bodies)
    BY <1>a, PeerOf DEF ChannelTypeOK
  <2>2. \/ sent'[Peer(f)] = sent[Peer(f)]
        \/ sent'[Peer(f)] = Append(sent[Peer(f)], b)
    BY <1>d, <2>1
  <2> QED  BY <1>b, <2>1, <2>2, GenuineGrows
<1>3. Wires'
  <2>1. wire \in [Ends -> Seq(Unit)] /\ \A f \in Ends : wire[f] \in Seq(Genuine(f)')
    BY <1>a, <1>2, SeqGrows DEF Wires, Carries
  <2>2. Sealed(e, b) \in Unit
    BY <1>1 DEF Genuine
  <2>3. /\ Append(wire[Peer(e)], Sealed(e, b)) \in Seq(Unit)
        /\ Append(wire[Peer(e)], Sealed(e, b)) \in Seq(Genuine(Peer(e))')
    <3>1. wire[Peer(e)] \in Seq(Unit) /\ wire[Peer(e)] \in Seq(Genuine(Peer(e))')
      BY <1>c, <2>1
    <3> QED  BY <1>1, <2>2, <3>1
  <2>4. wire' \in [Ends -> Seq(Unit)] /\ \A f \in Ends : wire'[f] \in Seq(Genuine(f)')
    BY <1>b, <1>c, <2>1, <2>3
  <2> QED  BY <2>4 DEF Wires, Carries
<1>4. ChannelTypeOK'
  <2>1. sent' \in [Ends -> Seq(Bodies)]
    BY <1>a, <1>b, <1>d DEF ChannelTypeOK
  <2> QED  BY <1>a, <1>b, <1>3, <2>1 DEF ChannelTypeOK, Wires, Carries, config
<1>5. Early'
  BY <1>a, <1>b, <1>d DEF Early, config
<1>6. Agreed'
  <2>1. Len(sent'["initiator"]) > 1 => authed["initiator"]
    <3>1. CASE e = "initiator"
      BY <1>d, <1>e, <3>1 DEF Send, MaySend
    <3>2. CASE e # "initiator"
      BY <1>a, <1>d, <3>2 DEF Agreed, Ends
    <3> QED  BY <3>1, <3>2
  <2> QED  BY <1>a, <1>b, <1>f, <2>1, PeerOf DEF Agreed
<1> QED  BY <1>3, <1>4, <1>5, <1>6 DEF IInv

LEMMA ReceiveIInv ==
  ASSUME IInv, NEW e \in Ends, Receive(e)
  PROVE  IInv'
<1>1. PICK u : \/ Handshakes(e, u) \/ Misreads(e, u) \/ Delivers(e, u)
               \/ Rejects(e, u) \/ Misframes(e, u) \/ Ignores(e, u)
  BY DEF Receive
<1> QED  BY <1>1, HandshakeIInv, DeliversIInv, DropsIInv

LEMMA NextIInv == IInv /\ [ChannelNext]_chanVars => IInv'
<1> SUFFICES ASSUME IInv, [ChannelNext]_chanVars PROVE IInv'
  OBVIOUS
<1>1. CASE Begins
  BY <1>1, BeginsIInv
<1>2. ASSUME NEW e \in Ends, Receive(e) PROVE IInv'
  BY <1>2, ReceiveIInv
<1>3. ASSUME NEW e \in Ends, Close(e) PROVE IInv'
  BY <1>3, CloseIInv
<1>4. ASSUME NEW e \in Ends, Tamper(e) PROVE IInv'
  BY <1>4, TamperIInv
<1>5. ASSUME NEW e \in Ends, NEW b \in Bodies, Send(e, b) PROVE IInv'
  BY <1>5, SendIInv
<1>6. CASE UNCHANGED chanVars
  BY <1>6, CalmIInv DEF chanVars, Calm, IInv, ChannelTypeOK, Wires
<1> QED  BY <1>1, <1>2, <1>3, <1>4, <1>5, <1>6 DEF ChannelNext

LEMMA SpecIInv == ChannelSpec => []IInv
BY InitIInv, NextIInv, PTL DEF ChannelSpec

-----------------------------------------------------------------------------
(* The theorems. *)

\* Every field of both SecureChannel ends stays what its declaration says,
\* and the transport carries ephemerals, records and garbled bytes.
THEOREM TypeCorrect == ChannelSpec => []ChannelTypeOK
<1>1. IInv => ChannelTypeOK
  BY DEF IInv
<1> QED  BY <1>1, SpecIInv, PTL

\* deriveSessionKeys binds the host's static key and the context: ends that
\* disagree on either never deliver a frame or authenticate one another, and
\* send() lets an initiator past its opening record only towards a peer that
\* holds its very keys, whatever the transport did.
THEOREM ChannelFailsClosed == ChannelSpec => []ChannelSafe
<1>1. ASSUME IInv, NEW e \in Ends, authed[e]
      PROVE  Matched /\ seen["initiator"] = "eR" /\ seen["responder"] = "eI"
  <2>1. SessionKeys("initiator") = SessionKeys("responder")
    BY <1>1 DEF IInv, Agreed, Ends, Peer
  <2>2. /\ SessionKeys("initiator").i = "eI" /\ SessionKeys("responder").i = seen["responder"]
        /\ SessionKeys("initiator").r = seen["initiator"] /\ SessionKeys("responder").r = "eR"
        /\ \A f \in Ends : SessionKeys(f).s = static[f] /\ SessionKeys(f).c = context[f]
    BY DEF SessionKeys, Own
  <2> QED  BY <1>1, <2>1, <2>2 DEF IInv, Early, Matched, Ends
<1>2. IInv => MismatchedStaySilent
  BY <1>1 DEF MismatchedStaySilent, IInv, Agreed
<1>3. IInv => OnlyToProvenPeer
  BY <1>1 DEF OnlyToProvenPeer, IInv, Agreed, Ends
<1>4. IInv => ChannelSafe
  BY <1>2, <1>3 DEF ChannelSafe
<1> QED  BY <1>4, SpecIInv, PTL

\* Opener.open accepts the record numbered next and nothing else: each
\* direction implements a FIFO stream, so that no fault of the transport makes
\* an end skip, repeat or reorder what its peer sealed.
THEOREM IsFifo == ChannelSpec => ImplementsFifoStream
<1> DEFINE mapped == [e \in Ends |-> got[Peer(e)]]
<1>1. ChannelInit => Fifo!Init
  BY PeerOf DEF ChannelInit, Fifo!Init
<1>2. IInv /\ [ChannelNext]_chanVars => [Fifo!Next]_<<sent, mapped>>
  <2> SUFFICES ASSUME IInv, [ChannelNext]_chanVars
               PROVE  Fifo!Next \/ UNCHANGED <<sent, mapped>>
    OBVIOUS
  <2>1. CASE UNCHANGED <<sent, got>>
    BY <2>1
  <2>2. ASSUME NEW e \in Ends, NEW b \in Bodies, Send(e, b) PROVE Fifo!Next
    <3>1. sent' = [sent EXCEPT ![e] = Append(@, b)] /\ UNCHANGED mapped
      BY <2>2 DEF Send
    <3>2. Fifo!Send(e)
      BY <3>1 DEF Fifo!Send
    <3> QED  BY <3>2 DEF Fifo!Next
  <2>3. ASSUME NEW e \in Ends, NEW u, Delivers(e, u) PROVE Fifo!Next
    <3>1. /\ u.body = sent[Peer(e)][Len(got[e]) + 1]
          /\ Len(got[e]) < Len(sent[Peer(e)])
      BY <2>3, DeliveredIsNext
    <3>2. /\ got \in [Ends -> Seq(Bodies)]
          /\ got' = [got EXCEPT ![e] = Append(@, u.body)] /\ UNCHANGED sent
      BY <2>3 DEF Delivers, IInv, ChannelTypeOK
    <3>3. mapped' = [mapped EXCEPT ![Peer(e)] = Append(@, sent[Peer(e)][Len(@) + 1])]
      BY <3>1, <3>2, PeerOf
    <3>4. Fifo!Deliver(Peer(e))
      BY <3>1, <3>2, <3>3, PeerOf DEF Fifo!Deliver
    <3> QED  BY <3>4, PeerOf DEF Fifo!Next
  <2>4. \/ UNCHANGED <<sent, got>>
        \/ \E e \in Ends, b \in Bodies : Send(e, b)
        \/ \E e \in Ends : \E u : Delivers(e, u)
    BY DEF ChannelNext, chanVars, Receive, Begins, Close, Tamper, Handshakes,
           Misreads, Rejects, Misframes, Ignores
  <2> QED  BY <2>1, <2>2, <2>3, <2>4
<1> QED  BY <1>1, <1>2, SpecIInv, PTL DEF ChannelSpec, ImplementsFifoStream, Fifo!Spec
=============================================================================
