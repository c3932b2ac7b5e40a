----------------------------- MODULE MeshProofs -----------------------------
(***************************************************************************)
(* Proofs about Mesh, for every network, table size and TTL.               *)
(***************************************************************************)
EXTENDS Mesh, FiniteSetTheorems, SequenceTheorems, TLAPS

\* Pushing an entry on a table of bounded length keeps its element type and its bound
\* (the eviction of the oldest entry).
LEMMA PushType ==
  ASSUME NEW S, NEW s \in Seq(S), NEW size \in Nat \ {0}, Len(s) <= size, NEW e \in S
  PROVE  Push(s, size, e) \in Seq(S) /\ Len(Push(s, size, e)) <= size
  BY DEF Push

\* Taking an entry out of a table keeps the type and shortens it by one.
LEMMA RemoveAtType ==
  ASSUME NEW S, NEW s \in Seq(S), NEW i \in 1 .. Len(s)
  PROVE  RemoveAt(s, i) \in Seq(S) /\ Len(RemoveAt(s, i)) = Len(s) - 1
<1> DEFINE front == SubSeq(s, 1, i - 1)
           back == SubSeq(s, i + 1, Len(s))
<1>1. front \in Seq(S) /\ Len(front) = i - 1
  BY SubSeqProperties
<1>2. back \in Seq(S) /\ Len(back) = Len(s) - i
  BY SubSeqProperties
<1>3. front \o back \in Seq(S) /\ Len(front \o back) = Len(front) + Len(back)
  BY <1>1, <1>2
<1>4. RemoveAt(s, i) = front \o back
  BY DEF RemoveAt
<1>5. Len(s) \in Nat
  OBVIOUS
<1> HIDE DEF front, back
<1> QED BY <1>1, <1>2, <1>3, <1>4, <1>5

\* presence_touch keeps the presence table a bounded list of nodes.
LEMMA TouchType ==
  ASSUME NEW p \in Seq(Node), Len(p) <= PresenceSize, NEW s \in Node
  PROVE  Touch(p, s) \in Seq(Node) /\ Len(Touch(p, s)) <= PresenceSize
<1>1. CASE s \in ToSet(p)
  <2> DEFINE rest == RemoveAt(p, PresenceSlot(p, s))
  <2>1. PresenceSlot(p, s) \in 1 .. Len(p)
    BY <1>1 DEF ToSet, PresenceSlot
  <2>2. rest \in Seq(Node) /\ Len(rest) = Len(p) - 1
    BY <2>1, RemoveAtType
  <2>3. Touch(p, s) = Append(rest, s)
    BY <1>1 DEF Touch
  <2> HIDE DEF rest
  <2> QED BY <2>2, <2>3
<1>2. CASE s \notin ToSet(p)
  BY <1>2, PushType, SizeAssumption DEF Touch
<1> QED BY <1>1, <1>2

RateOK(r) == r \in RateTable /\ Len(r.tab) <= RateSize /\ r.aged <= Len(r.tab)

\* The slot of an originator that the rate table tracks is one of its slots.
LEMMA SlotType ==
  ASSUME NEW r \in RateTable, NEW s, Tracked(r, s)
  PROVE  Slot(r, s) \in 1 .. Len(r.tab) /\ r.tab[Slot(r, s)].src = s
  BY DEF RateTable, Tracked, Slot

\* rate_limited keeps the rate table within its bounds, whichever of its three ways it
\* takes.
LEMMA CountType ==
  ASSUME NEW r, RateOK(r), NEW s \in Node
  PROVE  RateOK(Count(r, s))
<1> DEFINE new == [src |-> s, count |-> 1]
           younger == IF r.aged = 0 THEN 0 ELSE r.aged - 1
<1>1. /\ r.tab \in Seq(RateEntry) /\ r.aged \in Nat /\ Len(r.tab) \in Nat
      /\ Len(r.tab) <= RateSize /\ r.aged <= Len(r.tab) /\ RateSize \in Nat \ {0}
  BY SizeAssumption DEF RateOK, RateTable
<1>2. new \in RateEntry
  BY SizeAssumption DEF RateEntry
<1>3. CASE Fresh(r, s)
  <2> DEFINE i == Slot(r, s)
             e == [r.tab[i] EXCEPT !.count = IF @ > RateMax THEN @ ELSE @ + 1]
  <2>1. i \in 1 .. Len(r.tab)
    BY <1>3, SlotType DEF Fresh, RateOK
  <2>2. e \in RateEntry
    <3>1. r.tab[i] \in RateEntry
      BY <1>1, <2>1
    <3> HIDE DEF i
    <3> QED BY <3>1, SizeAssumption DEF RateEntry
  <2>3. Count(r, s) = [r EXCEPT !.tab = [r.tab EXCEPT ![i] = e]]
    BY <1>3 DEF Count
  <2>4. [r.tab EXCEPT ![i] = e] \in Seq(RateEntry) /\ Len([r.tab EXCEPT ![i] = e]) = Len(r.tab)
    BY <1>1, <2>1, <2>2, ExceptSeq
  <2> HIDE DEF e, i
  <2> QED BY <1>1, <2>3, <2>4 DEF RateOK, RateTable
<1>4. CASE ~Fresh(r, s) /\ Tracked(r, s)
  <2> DEFINE rest == RemoveAt(r.tab, Slot(r, s))
  <2>1. Slot(r, s) \in 1 .. Len(r.tab) /\ r.aged > 0
    BY <1>1, <1>4, SlotType DEF Fresh, RateOK
  <2>2. rest \in Seq(RateEntry) /\ Len(rest) = Len(r.tab) - 1
    BY <1>1, <2>1, RemoveAtType
  <2>3. Count(r, s) = [tab |-> Append(rest, new), aged |-> younger]
    BY <1>4 DEF Count
  <2> HIDE DEF rest, new
  <2>4. Append(rest, new) \in Seq(RateEntry) /\ Len(Append(rest, new)) = Len(r.tab)
    BY <1>1, <1>2, <2>2
  <2> QED BY <1>1, <2>1, <2>3, <2>4 DEF RateOK, RateTable
<1>5. CASE ~Tracked(r, s)
  <2> DEFINE tab == Push(r.tab, RateSize, new)
             aged == IF Len(r.tab) < RateSize THEN r.aged ELSE younger
  <2>1. Count(r, s) = [tab |-> tab, aged |-> aged]
    BY <1>5 DEF Count, Fresh
  <2>2. tab \in Seq(RateEntry) /\ Len(tab) <= RateSize
    BY <1>1, <1>2, PushType
  <2>3. aged \in Nat /\ aged <= Len(tab)
    BY <1>1, <1>2 DEF Push
  <2> HIDE DEF tab, aged
  <2> QED BY <2>1, <2>2, <2>3 DEF RateOK, RateTable
<1> QED BY <1>3, <1>4, <1>5

-----------------------------------------------------------------------------
(* Type correctness. *)

AirType == [Node -> Frame \cup {NoFrame}]

\* A transmission leaves a frame or nothing in every radio.
LEMMA TransmitType ==
  ASSUME NEW n \in Node, NEW f \in Frame, NEW pending \in AirType, Transmit(n, f, pending)
  PROVE  rxbuf' \in AirType
  BY DEF Transmit, AirType

\* Taking the frame out of a radio leaves a frame or nothing in every radio.
LEMMA TakenType ==
  ASSUME TypeOK, NEW n \in Node
  PROVE  Taken(n) \in AirType
  BY DEF TypeOK, Taken, AirType

\* A frame that has arrived is a frame: its originator and addressee are nodes.
LEMMA ArrivedType ==
  ASSUME TypeOK, NEW n \in Node, Arrived(n)
  PROVE  rxbuf[n] \in Frame /\ rxbuf[n].src \in Node
  BY DEF TypeOK, Arrived, Frame

\* A DATA frame in a radio has an identifier, two nodes and a hop left.
LEMMA DataType ==
  ASSUME NEW f \in Frame, f.kind = "data"
  PROVE  /\ f.id \in MsgId /\ f.src \in Node /\ f.dst \in Node /\ f.ttl \in 1 .. DefaultTtl
         /\ f = Data(f.id, f.src, f.dst, f.ttl)
  BY DEF Frame, KeyKinds, Data

\* Letting a frame through keeps the rate table, the presence table and the count in
\* shape.
LEMMA AcceptType ==
  ASSUME TypeOK, NEW n \in Node, Accept(n)
  PROVE  /\ presence' \in [Node -> Seq(Node)]
         /\ \A i \in Node : Len(presence'[i]) <= PresenceSize
         /\ rate' \in [Node -> RateTable]
         /\ \A i \in Node : Len(rate'[i].tab) <= RateSize /\ rate'[i].aged <= Len(rate'[i].tab)
         /\ accepted' \in [Node -> [Node -> Nat]]
<1> DEFINE s == rxbuf[n].src
<1>1. s \in Node
  BY ArrivedType DEF Accept
<1>2. RateOK(Count(rate[n], s))
  <2>1. RateOK(rate[n])
    BY DEF TypeOK, RateOK
  <2> QED BY <1>1, <2>1, CountType
<1>3. Touch(presence[n], s) \in Seq(Node) /\ Len(Touch(presence[n], s)) <= PresenceSize
  BY <1>1, TouchType DEF TypeOK
<1>4. presence' = [presence EXCEPT ![n] = Touch(presence[n], s)]
  BY DEF Accept
<1>5. rate' = [rate EXCEPT ![n] = Count(rate[n], s)]
  BY DEF Accept
<1>6. accepted' = [accepted EXCEPT ![n] = [accepted[n] EXCEPT ![s] = accepted[n][s] + 1]]
  BY DEF Accept
<1> HIDE DEF s
<1>7. accepted' \in [Node -> [Node -> Nat]]
  BY <1>1, <1>6 DEF TypeOK
<1>8. presence' \in [Node -> Seq(Node)] /\ \A i \in Node : Len(presence'[i]) <= PresenceSize
  BY <1>3, <1>4 DEF TypeOK
<1>9. rate' \in [Node -> RateTable] /\ \A i \in Node : RateOK(rate'[i])
  BY <1>2, <1>5 DEF TypeOK, RateOK
<1> QED BY <1>7, <1>8, <1>9 DEF RateOK

\* Remembering an identifier keeps the memory within DEDUP_CACHE_SIZE.
LEMMA RememberType ==
  ASSUME TypeOK, NEW n \in Node, NEW m \in MsgId,
         seen' = [seen EXCEPT ![n] = Remember(@, m)]
  PROVE  seen' \in [Node -> Seq(MsgId)] /\ \A i \in Node : Len(seen'[i]) <= DedupSize
<1>1. seen[n] \in Seq(MsgId) /\ Len(seen[n]) <= DedupSize /\ DedupSize \in Nat \ {0}
  BY SizeAssumption DEF TypeOK
<1>2. Remember(seen[n], m) \in Seq(MsgId) /\ Len(Remember(seen[n], m)) <= DedupSize
  BY <1>1, PushType DEF Remember
<1> QED BY <1>2 DEF TypeOK

\* One transmission more is still a natural number.
LEMMA OneMoreType == \A k \in Nat : OneMore(k) \in Nat
  BY DEF OneMore

\* A relay puts a frame with at least one hop left on the air, or none.
LEMMA RelayType ==
  ASSUME TypeOK, NEW n \in Node, rxbuf[n] \in Frame, rxbuf[n].kind = "data", Relay(n)
  PROVE  rxbuf' \in AirType /\ aired' \in [Node -> [MsgId -> Nat]]
<1> DEFINE f == rxbuf[n]
<1>1. f.id \in MsgId /\ f.ttl \in 1 .. DefaultTtl /\ f = Data(f.id, f.src, f.dst, f.ttl)
  BY DataType
<1>2. CASE f.ttl > 1
  <2>1. [f EXCEPT !.ttl = @ - 1] = Data(f.id, f.src, f.dst, f.ttl - 1)
    BY <1>1 DEF Data
  <2>2. [f EXCEPT !.ttl = @ - 1] \in Frame
    BY <1>1, <1>2, <2>1, DataType, SizeAssumption DEF Frame, Data
  <2>3. Transmit(n, [f EXCEPT !.ttl = @ - 1], Taken(n))
    BY <1>2 DEF Relay
  <2>4. aired' = [aired EXCEPT ![n] = [aired[n] EXCEPT ![f.id] = OneMore(aired[n][f.id])]]
    BY <1>2 DEF Relay
  <2> HIDE DEF f
  <2>5. aired' \in [Node -> [MsgId -> Nat]]
    BY <1>1, <2>4, OneMoreType DEF TypeOK
  <2> QED BY <2>2, <2>3, <2>5, TakenType, TransmitType
<1>3. CASE ~(f.ttl > 1)
  BY <1>3, TakenType DEF Relay, TypeOK
<1> QED BY <1>2, <1>3

\* A reboot leaves every table empty and in shape.
LEMMA ForgetType ==
  ASSUME TypeOK, NEW n \in Node, Forget(n)
  PROVE  /\ mode' \in [Node -> {"listening", "ready"}]
         /\ seen' \in [Node -> Seq(MsgId)] /\ \A i \in Node : Len(seen'[i]) <= DedupSize
         /\ presence' \in [Node -> Seq(Node)]
         /\ \A i \in Node : Len(presence'[i]) <= PresenceSize
         /\ rate' \in [Node -> RateTable]
         /\ \A i \in Node : Len(rate'[i].tab) <= RateSize /\ rate'[i].aged <= Len(rate'[i].tab)
         /\ rxbuf' \in AirType
         /\ aired' \in [Node -> [MsgId -> Nat]]
         /\ accepted' \in [Node -> [Node -> Nat]]
<1>1. EmptyRate \in RateTable /\ Len(EmptyRate.tab) = 0 /\ EmptyRate.aged = 0
  BY DEF EmptyRate, RateTable
<1>2. rate' \in [Node -> RateTable]
      /\ \A i \in Node : Len(rate'[i].tab) <= RateSize /\ rate'[i].aged <= Len(rate'[i].tab)
  BY <1>1, SizeAssumption DEF Forget, TypeOK
<1>3. rxbuf' \in AirType
  BY TakenType DEF Forget
<1>4. /\ mode' \in [Node -> {"listening", "ready"}]
      /\ aired' \in [Node -> [MsgId -> Nat]]
      /\ accepted' \in [Node -> [Node -> Nat]]
  BY DEF Forget, TypeOK
<1>5. /\ seen' \in [Node -> Seq(MsgId)] /\ \A i \in Node : Len(seen'[i]) <= DedupSize
      /\ presence' \in [Node -> Seq(Node)] /\ \A i \in Node : Len(presence'[i]) <= PresenceSize
  BY SizeAssumption DEF Forget, TypeOK
<1> QED BY <1>2, <1>3, <1>4, <1>5

\* Adding a peer keeps the sessions of every node a set of nodes.
LEMMA SessionType ==
  ASSUME TypeOK, NEW n \in Node, NEW s \in Node
  PROVE  [session EXCEPT ![n] = @ \cup {s}] \in [Node -> SUBSET Node]
<1>1. session[n] \cup {s} \in SUBSET Node
  BY DEF TypeOK
<1> QED BY <1>1 DEF TypeOK

\* Using up a key keeps the opened messages a set of identifiers.
LEMMA OpenedType ==
  ASSUME TypeOK, NEW n \in Node, NEW m \in MsgId
  PROVE  [opened EXCEPT ![n] = @ \cup {m}] \in [Node -> SUBSET MsgId]
<1>1. opened[n] \cup {m} \in SUBSET MsgId
  BY DEF TypeOK
<1> QED BY <1>1 DEF TypeOK

\* The bound counter stays a natural number.
LEMMA StimulusType ==
  ASSUME TypeOK, Stimulus
  PROVE  stimuli' \in Nat
  BY DEF TypeOK, Stimulus

\* Handing a message to the application keeps the inbox a list of messages with a
\* sender.
LEMMA InboxType ==
  ASSUME TypeOK, NEW n \in Node, NEW m \in MsgId, NEW s \in Node
  PROVE  [inbox EXCEPT ![n] = Append(@, [id |-> m, src |-> s])]
           \in [Node -> Seq([id : MsgId, src : Node])]
<1> DEFINE e == [id |-> m, src |-> s]
<1>1. inbox[n] \in Seq([id : MsgId, src : Node]) /\ e \in [id : MsgId, src : Node]
  BY DEF TypeOK
<1> HIDE DEF e
<1>2. Append(inbox[n], e) \in Seq([id : MsgId, src : Node])
  BY <1>1
<1> QED BY <1>2 DEF TypeOK, e

\* The state after the first boot has the right shape.
LEMMA TypeInit == Init => TypeOK
<1> SUFFICES ASSUME Init PROVE TypeOK
  OBVIOUS
<1>1. EmptyRate \in RateTable /\ Len(EmptyRate.tab) = 0 /\ EmptyRate.aged = 0
  BY DEF EmptyRate, RateTable
<1> QED BY <1>1, SizeAssumption, PairedAssumption DEF Init, TypeOK

\* Every way through on_radio_rx keeps the shape of the state.
LEMMA TypeRx ==
  ASSUME TypeOK, NEW n \in Node, OnRadioRx(n)
  PROVE  TypeOK'
<1> USE DEF vars, ram, nvs, history
<1>1. Taken(n) \in AirType
  BY TakenType
<1>2. ASSUME AcceptData(n) PROVE /\ rxbuf[n] \in Frame
                                 /\ seen' \in [Node -> Seq(MsgId)]
                                 /\ \A i \in Node : Len(seen'[i]) <= DedupSize
  <2>1. rxbuf[n] \in Frame
    BY <1>2, ArrivedType DEF AcceptData, Accept
  <2> QED BY <1>2, <2>1, DataType, RememberType DEF AcceptData
<1>3. CASE RxEcho(n)
  BY <1>1, <1>3 DEF RxEcho, TypeOK, AirType
<1>4. CASE RxLimited(n)
  <2>1. RateOK(rate[n]) /\ rxbuf[n].src \in Node
    BY <1>4, ArrivedType DEF RxLimited, TypeOK, RateOK
  <2>2. RateOK(Count(rate[n], rxbuf[n].src))
    BY <2>1, CountType
  <2>3. rate' \in [Node -> RateTable] /\ \A i \in Node : RateOK(rate'[i])
    BY <1>4, <2>2 DEF RxLimited, TypeOK, RateOK
  <2> QED BY <1>1, <1>4, <2>3 DEF RxLimited, TypeOK, RateOK, AirType
<1>5. CASE RxBeacon(n)
  BY <1>1, <1>5, AcceptType DEF RxBeacon, TypeOK, AirType
<1>6. CASE RxKeyOverheard(n)
  BY <1>1, <1>6, AcceptType DEF RxKeyOverheard, TypeOK, AirType
<1>7. CASE RxKeyRequest(n)
  <2>1. KeyFrame("response", n, rxbuf[n].src) \in Frame
    BY <1>7, ArrivedType DEF RxKeyRequest, Accept, KeyFrame, Frame, KeyKinds
  <2>2. rxbuf' \in AirType
    BY <1>1, <1>7, <2>1, TransmitType DEF RxKeyRequest
  <2> QED BY <1>7, <2>2, AcceptType DEF RxKeyRequest, TypeOK, AirType
<1>8. CASE RxKeyResponse(n)
  <2>1. rxbuf[n].src \in Node
    BY <1>8, ArrivedType DEF RxKeyResponse, Accept
  <2>2. session' \in [Node -> SUBSET Node]
    <3>1. \/ session' = [session EXCEPT ![n] = @ \cup {rxbuf[n].src}]
          \/ session' = session
      BY <1>8 DEF RxKeyResponse
    <3>2. session \in [Node -> SUBSET Node]
      BY DEF TypeOK
    <3> QED BY <2>1, <3>1, <3>2, SessionType
  <2> QED BY <1>1, <1>8, <2>2, AcceptType DEF RxKeyResponse, TypeOK, AirType
<1>9. CASE RxDuplicate(n)
  BY <1>1, <1>9, AcceptType DEF RxDuplicate, TypeOK, AirType
<1>10. CASE RxTransit(n)
  <2>1. Accept(n) /\ rxbuf[n].kind = "data" /\ Relay(n) /\ AcceptData(n)
    BY <1>10 DEF RxTransit, AcceptData
  <2>2. rxbuf' \in AirType /\ aired' \in [Node -> [MsgId -> Nat]]
    BY <1>2, <2>1, RelayType
  <2> QED BY <1>2, <1>10, <2>1, <2>2, AcceptType DEF RxTransit, TypeOK, AirType
<1>11. CASE RxDeliver(n)
  <2>1. Accept(n) /\ rxbuf[n].kind = "data" /\ Relay(n) /\ AcceptData(n)
    BY <1>11 DEF RxDeliver, AcceptData
  <2>2. rxbuf' \in AirType /\ aired' \in [Node -> [MsgId -> Nat]]
    BY <1>2, <2>1, RelayType
  <2>3. rxbuf[n].id \in MsgId /\ rxbuf[n].src \in Node
    BY <1>2, <2>1, DataType
  <2>4. opened' \in [Node -> SUBSET MsgId]
    BY <1>11, <2>3, OpenedType DEF RxDeliver
  <2>5. session' \in [Node -> SUBSET Node]
    <3>1. session' = [session EXCEPT ![n] = @ \cup {rxbuf[n].src}]
      BY <1>11 DEF RxDeliver
    <3> QED BY <2>3, <3>1, SessionType
  <2>6. inbox' \in [Node -> Seq([id : MsgId, src : Node])]
    BY <1>11, <2>3, InboxType DEF RxDeliver
  <2> QED BY <1>2, <1>11, <2>1, <2>2, <2>4, <2>5, <2>6, AcceptType DEF RxDeliver, TypeOK, AirType
<1>12. CASE RxUnopened(n)
  <2>1. Accept(n) /\ rxbuf[n].kind = "data" /\ Relay(n) /\ AcceptData(n)
    BY <1>12 DEF RxUnopened, AcceptData
  <2>2. rxbuf' \in AirType /\ aired' \in [Node -> [MsgId -> Nat]]
    BY <1>2, <2>1, RelayType
  <2> QED BY <1>2, <1>12, <2>1, <2>2, AcceptType DEF RxUnopened, TypeOK, AirType
<1> QED
  BY <1>3, <1>4, <1>5, <1>6, <1>7, <1>8, <1>9, <1>10, <1>11, <1>12 DEF OnRadioRx

\* Every step keeps the shape of the state.
LEMMA TypeNext == TypeOK /\ [Next]_vars => TypeOK'
<1> SUFFICES ASSUME TypeOK, [Next]_vars PROVE TypeOK'
  OBVIOUS
<1> USE DEF ram, nvs, history
<1>0. rxbuf \in AirType
  BY DEF TypeOK, AirType
<1>1. ASSUME NEW n \in Node, OnRadioRx(n) PROVE TypeOK'
  BY <1>1, TypeRx
<1>2. ASSUME NEW n \in Node, SetRxCallback(n) PROVE TypeOK'
  BY <1>2 DEF SetRxCallback, TypeOK
<1>3. ASSUME NEW n \in Node, SendBeacon(n) PROVE TypeOK'
  <2>1. Beacon(n) \in Frame
    BY DEF Beacon, Frame
  <2>2. rxbuf' \in AirType
    BY <1>0, <1>3, <2>1, TransmitType DEF SendBeacon
  <2> QED BY <1>3, <2>2, StimulusType DEF SendBeacon, TypeOK, AirType
<1>4. ASSUME NEW n \in Node, NEW d \in Node, SendKeyRequest(n, d) PROVE TypeOK'
  <2>1. KeyFrame("request", n, d) \in Frame
    BY DEF KeyFrame, Frame, KeyKinds
  <2>2. rxbuf' \in AirType
    BY <1>0, <1>4, <2>1, TransmitType DEF SendKeyRequest
  <2> QED BY <1>4, <2>2, StimulusType DEF SendKeyRequest, TypeOK, AirType
<1>5. ASSUME NEW n \in Node, NEW d \in Node, NEW m \in MsgId, SendData(n, d, m) PROVE TypeOK'
  <2>1. Data(m, n, d, DefaultTtl) \in Frame
    BY SizeAssumption DEF Data, Frame
  <2>2. rxbuf' \in AirType
    BY <1>0, <1>5, <2>1, TransmitType DEF SendData
  <2>3. seen' \in [Node -> Seq(MsgId)] /\ \A i \in Node : Len(seen'[i]) <= DedupSize
    BY <1>5, RememberType DEF SendData
  <2>4. aired' = [aired EXCEPT ![n] = [aired[n] EXCEPT ![m] = OneMore(aired[n][m])]]
    BY <1>5 DEF SendData
  <2>5. aired' \in [Node -> [MsgId -> Nat]]
    BY <2>4, OneMoreType DEF TypeOK
  <2>6. msg' \in [MsgId -> [src : Node, dst : Node] \cup {Unsent}]
    BY <1>5 DEF SendData, TypeOK
  <2> QED
    BY <1>5, <2>2, <2>3, <2>5, <2>6, StimulusType DEF SendData, TypeOK, AirType
<1>6. ASSUME NEW n \in Node, WindowPasses(n) PROVE TypeOK'
  <2> DEFINE k == rate[n].aged + 1
  <2>1. k \in 1 .. Len(rate[n].tab) /\ rate[n].tab \in Seq(RateEntry)
    BY <1>6 DEF WindowPasses, TypeOK, RateTable
  <2>2. rate[n].tab[k].src \in Node
    <3>1. rate[n].tab[k] \in RateEntry
      BY <2>1
    <3> HIDE DEF k
    <3> QED BY <3>1 DEF RateEntry
  <2>3. rate' = [rate EXCEPT ![n] = [rate[n] EXCEPT !.aged = k]]
    BY <1>6 DEF WindowPasses
  <2>4. accepted' = [accepted EXCEPT ![n] = [accepted[n] EXCEPT ![rate[n].tab[k].src] = 0]]
    BY <1>6 DEF WindowPasses
  <2>5. accepted' \in [Node -> [Node -> Nat]]
    BY <2>2, <2>4 DEF TypeOK
  <2> HIDE DEF k
  <2>6. [rate[n] EXCEPT !.aged = k] \in RateTable
    <3>1. rate[n] \in RateTable /\ k \in Nat
      BY <2>1 DEF TypeOK
    <3> QED BY <3>1 DEF RateTable
  <2>7. /\ rate' \in [Node -> RateTable]
        /\ \A i \in Node : Len(rate'[i].tab) <= RateSize /\ rate'[i].aged <= Len(rate'[i].tab)
    BY <2>1, <2>3, <2>6 DEF TypeOK, RateTable
  <2> QED BY <1>6, <2>5, <2>7 DEF WindowPasses, TypeOK
<1>7. ASSUME NEW n \in Node, Reboot(n) PROVE TypeOK'
  BY <1>7, ForgetType, StimulusType DEF Reboot, TypeOK, AirType
<1>8. ASSUME NEW n \in Node, RebootBeforeCallback(n) PROVE TypeOK'
  <2>1. rxbuf[n].id \in MsgId /\ rxbuf[n].src \in Node
    BY <1>8, ArrivedType, DataType DEF RebootBeforeCallback
  <2>2. opened' \in [Node -> SUBSET MsgId]
    BY <1>8, <2>1, OpenedType DEF RebootBeforeCallback
  <2>3. session' \in [Node -> SUBSET Node]
    BY <1>8, <2>1, SessionType DEF RebootBeforeCallback
  <2> QED
    BY <1>8, <2>2, <2>3, ForgetType, StimulusType DEF RebootBeforeCallback, TypeOK, AirType
<1>9. CASE UNCHANGED vars
  BY <1>9 DEF vars, TypeOK
<1> QED
  BY <1>1, <1>2, <1>3, <1>4, <1>5, <1>6, <1>7, <1>8, <1>9 DEF Next

\* Every variable of the routing layer keeps its shape, every frame on the air has
\* between 1 and DefaultTtl hops left, and no table outgrows its array, in every
\* network and for every size of the tables.
THEOREM TypeCorrect == Spec => []TypeOK
  BY TypeInit, TypeNext, PTL DEF Spec

-----------------------------------------------------------------------------
(* Delivery: the inductive invariant and the refinement. *)

IInv == TypeOK /\ AirTruthful /\ InboxOpened

\* Beacons, key frames and an empty radio are not DATA.
LEMMA KindNotData ==
  /\ NoFrame.kind # "data"
  /\ \A s \in Node : Beacon(s).kind # "data"
  /\ \A s, d \in Node : KeyFrame("request", s, d).kind # "data"
  /\ \A s, d \in Node : KeyFrame("response", s, d).kind # "data"
  BY DEF NoFrame, Beacon, KeyFrame

\* Frames that are not DATA leave the frames on the air truthful.
LEMMA TruthfulOther ==
  ASSUME AirTruthful, msg' = msg, NEW n \in Node, NEW f, f.kind # "data",
         NEW pending, pending = rxbuf \/ pending = Taken(n),
         rxbuf \in AirType, Transmit(n, f, pending)
  PROVE  AirTruthful'
<1>1. PICK heard \in SUBSET Link[n] :
        rxbuf' = [m \in Node |-> IF m \in heard THEN f ELSE pending[m]]
  BY DEF Transmit
<1>2. ASSUME NEW m \in Node PROVE rxbuf'[m] = f \/ rxbuf'[m] = rxbuf[m] \/ rxbuf'[m] = NoFrame
  BY <1>1 DEF Taken, AirType
<1> QED BY <1>2, KindNotData DEF AirTruthful

\* Taking a frame leaves the others truthful.
LEMMA TruthfulTaken ==
  ASSUME AirTruthful, msg' = msg, NEW n \in Node, rxbuf \in AirType, rxbuf' = Taken(n)
  PROVE  AirTruthful'
  BY KindNotData DEF AirTruthful, Taken, AirType

\* A relay repeats sender and addressee of the frame it passes on.
LEMMA TruthfulRelay ==
  ASSUME TypeOK, AirTruthful, msg' = msg, NEW n \in Node,
         rxbuf[n] \in Frame, rxbuf[n].kind = "data", Relay(n)
  PROVE  AirTruthful'
<1> DEFINE f == rxbuf[n]
           g == [f EXCEPT !.ttl = @ - 1]
<1>0. rxbuf \in AirType
  BY DEF TypeOK, AirType
<1>1. CASE f.ttl > 1
  <2>1. Transmit(n, g, Taken(n))
    BY <1>1 DEF Relay
  <2>2. PICK heard \in SUBSET Link[n] :
          rxbuf' = [m \in Node |-> IF m \in heard THEN g ELSE Taken(n)[m]]
    BY <2>1 DEF Transmit
  <2>3. f = Data(f.id, f.src, f.dst, f.ttl)
    BY DataType
  <2>4. g.id = f.id /\ g.src = f.src /\ g.dst = f.dst
    BY <2>3 DEF Data
  <2>5. msg[g.id] = [src |-> g.src, dst |-> g.dst]
    BY <2>4 DEF AirTruthful
  <2>6. ASSUME NEW m \in Node PROVE rxbuf'[m] = g \/ rxbuf'[m] = rxbuf[m] \/ rxbuf'[m] = NoFrame
    BY <1>0, <2>2 DEF Taken, AirType
  <2> HIDE DEF g
  <2> QED BY <2>5, <2>6, KindNotData DEF AirTruthful
<1>2. CASE ~(f.ttl > 1)
  BY <1>0, <1>2, TruthfulTaken DEF Relay
<1> QED BY <1>1, <1>2

\* The invariant holds after the first boot.
LEMMA IInvInit == Init => IInv
<1> SUFFICES ASSUME Init PROVE IInv
  OBVIOUS
<1>1. AirTruthful
  BY KindNotData DEF Init, AirTruthful
<1>2. InboxOpened
  BY DEF Init, InboxOpened
<1> QED BY <1>1, <1>2, TypeInit DEF IInv

\* Every way through on_radio_rx keeps the invariant.
LEMMA IInvRx ==
  ASSUME IInv, NEW n \in Node, OnRadioRx(n)
  PROVE  AirTruthful' /\ InboxOpened'
<1> USE DEF ram, nvs, history
<1>0. TypeOK /\ AirTruthful /\ InboxOpened /\ rxbuf \in AirType
  BY DEF IInv, TypeOK, AirType
<1>a. ASSUME Accept(n) PROVE rxbuf[n] \in Frame /\ rxbuf[n].src \in Node
  BY <1>0, <1>a, ArrivedType DEF Accept
<1>1. CASE RxEcho(n)
  BY <1>0, <1>1, TruthfulTaken DEF RxEcho, InboxOpened
<1>2. CASE RxLimited(n)
  BY <1>0, <1>2, TruthfulTaken DEF RxLimited, InboxOpened
<1>3. CASE RxBeacon(n)
  BY <1>0, <1>3, TruthfulTaken DEF RxBeacon, InboxOpened
<1>4. CASE RxKeyOverheard(n)
  BY <1>0, <1>4, TruthfulTaken DEF RxKeyOverheard, InboxOpened
<1>5. CASE RxKeyRequest(n)
  <2>1. KeyFrame("response", n, rxbuf[n].src).kind # "data"
    BY DEF KeyFrame
  <2>2. AirTruthful'
    BY <1>0, <1>5, <2>1, TruthfulOther DEF RxKeyRequest
  <2> QED BY <1>0, <1>5, <2>2 DEF RxKeyRequest, InboxOpened
<1>6. CASE RxKeyResponse(n)
  BY <1>0, <1>6, TruthfulTaken DEF RxKeyResponse, InboxOpened
<1>7. CASE RxDuplicate(n)
  BY <1>0, <1>7, TruthfulTaken DEF RxDuplicate, InboxOpened
<1>8. CASE RxTransit(n)
  <2>1. AirTruthful'
    BY <1>0, <1>a, <1>8, TruthfulRelay DEF RxTransit, AcceptData
  <2> QED BY <1>0, <1>8, <2>1 DEF RxTransit, InboxOpened
<1>9. CASE RxDeliver(n)
  <2>1. AirTruthful'
    BY <1>0, <1>a, <1>9, TruthfulRelay DEF RxDeliver, AcceptData
  <2> DEFINE e == [id |-> rxbuf[n].id, src |-> rxbuf[n].src]
  <2>2. inbox' = [inbox EXCEPT ![n] = Append(inbox[n], e)]
    BY <1>9 DEF RxDeliver
  <2>3. opened' = [opened EXCEPT ![n] = @ \cup {rxbuf[n].id}]
    BY <1>9 DEF RxDeliver
  <2>4. ASSUME NEW p \in Node, NEW i \in DOMAIN inbox'[p] PROVE inbox'[p][i].id \in opened'[p]
    <3>1. CASE p # n
      BY <1>0, <2>2, <2>3, <2>4, <3>1 DEF InboxOpened, TypeOK
    <3>2. CASE p = n
      <4>1. inbox[n] \in Seq([id : MsgId, src : Node]) /\ opened'[n] = opened[n] \cup {e.id}
        BY <1>0, <2>3 DEF TypeOK
      <4>2. inbox'[n] = Append(inbox[n], e)
        BY <1>0, <2>2 DEF TypeOK
      <4> HIDE DEF e
      <4>3. inbox'[n][i] = e \/ (i \in DOMAIN inbox[n] /\ inbox'[n][i] = inbox[n][i])
        BY <2>4, <3>2, <4>1, <4>2
      <4> QED BY <1>0, <3>2, <4>1, <4>3 DEF InboxOpened
    <3> QED BY <3>1, <3>2
  <2> QED BY <2>1, <2>4 DEF InboxOpened
<1>10. CASE RxUnopened(n)
  <2>1. AirTruthful'
    BY <1>0, <1>a, <1>10, TruthfulRelay DEF RxUnopened, AcceptData
  <2> QED BY <1>0, <1>10, <2>1 DEF RxUnopened, InboxOpened
<1> QED
  BY <1>1, <1>2, <1>3, <1>4, <1>5, <1>6, <1>7, <1>8, <1>9, <1>10 DEF OnRadioRx

\* A message enters the air with its own sender and addressee.
LEMMA IInvSendData ==
  ASSUME IInv, NEW n \in Node, NEW d \in Node, NEW m \in MsgId, SendData(n, d, m)
  PROVE  AirTruthful' /\ InboxOpened'
<1> USE DEF ram, nvs, history
<1> DEFINE f == Data(m, n, d, DefaultTtl)
<1>1. PICK heard \in SUBSET Link[n] : rxbuf' = [p \in Node |-> IF p \in heard THEN f ELSE rxbuf[p]]
  BY DEF SendData, Transmit
<1>2. msg[m] = Unsent /\ msg' = [msg EXCEPT ![m] = [src |-> n, dst |-> d]]
  BY DEF SendData
<1>3. f.id = m /\ f.src = n /\ f.dst = d
  BY DEF Data
<1>4. ASSUME NEW p \in Node, rxbuf'[p].kind = "data"
      PROVE  msg'[rxbuf'[p].id] = [src |-> rxbuf'[p].src, dst |-> rxbuf'[p].dst]
  <2>1. CASE rxbuf'[p] = f
    BY <1>2, <1>3, <2>1 DEF IInv, TypeOK
  <2>2. CASE rxbuf'[p] # f
    <3> DEFINE g == rxbuf[p]
    <3>1. rxbuf'[p] = g
      BY <1>1, <2>2
    <3>2. g \in Frame
      BY <1>4, <3>1, KindNotData DEF IInv, TypeOK
    <3>3. g.id \in MsgId /\ g.src \in Node /\ g.dst \in Node
      BY <1>4, <3>1, <3>2, DataType
    <3>4. msg[g.id] = [src |-> g.src, dst |-> g.dst]
      BY <1>4, <3>1 DEF IInv, AirTruthful
    <3>5. g.id # m
      BY <1>2, <3>3, <3>4, NodeAssumption DEF Unsent
    <3> QED BY <1>2, <3>1, <3>3, <3>4, <3>5 DEF IInv, TypeOK
  <2> QED BY <2>1, <2>2
<1>5. InboxOpened'
  BY DEF SendData, IInv, InboxOpened
<1> QED BY <1>4, <1>5 DEF AirTruthful

\* The invariant is inductive.
LEMMA IInvNext == IInv /\ [Next]_vars => IInv'
<1> SUFFICES ASSUME IInv, [Next]_vars PROVE IInv'
  OBVIOUS
<1> USE DEF ram, nvs, history
<1>0. TypeOK /\ AirTruthful /\ InboxOpened /\ rxbuf \in AirType
  BY DEF IInv, TypeOK, AirType
<1>1. ASSUME NEW n \in Node, OnRadioRx(n) PROVE AirTruthful' /\ InboxOpened'
  BY <1>1, IInvRx
<1>2. ASSUME NEW n \in Node, SetRxCallback(n) PROVE AirTruthful' /\ InboxOpened'
  BY <1>0, <1>2 DEF SetRxCallback, AirTruthful, InboxOpened
<1>3. ASSUME NEW n \in Node, SendBeacon(n) PROVE AirTruthful' /\ InboxOpened'
  BY <1>0, <1>3, KindNotData, TruthfulOther DEF SendBeacon, InboxOpened
<1>4. ASSUME NEW n \in Node, NEW d \in Node, SendKeyRequest(n, d)
      PROVE  AirTruthful' /\ InboxOpened'
  BY <1>0, <1>4, KindNotData, TruthfulOther DEF SendKeyRequest, InboxOpened
<1>5. ASSUME NEW n \in Node, NEW d \in Node, NEW m \in MsgId, SendData(n, d, m)
      PROVE  AirTruthful' /\ InboxOpened'
  BY <1>5, IInvSendData
<1>6. ASSUME NEW n \in Node, WindowPasses(n) PROVE AirTruthful' /\ InboxOpened'
  BY <1>0, <1>6 DEF WindowPasses, AirTruthful, InboxOpened
<1>7. ASSUME NEW n \in Node, Reboot(n) PROVE AirTruthful' /\ InboxOpened'
  BY <1>0, <1>7, TruthfulTaken DEF Reboot, Forget, InboxOpened
<1>8. ASSUME NEW n \in Node, RebootBeforeCallback(n) PROVE AirTruthful' /\ InboxOpened'
  BY <1>0, <1>8, TruthfulTaken DEF RebootBeforeCallback, Forget, InboxOpened, TypeOK
<1>9. ASSUME UNCHANGED vars PROVE AirTruthful' /\ InboxOpened'
  BY <1>0, <1>9 DEF vars, AirTruthful, InboxOpened
<1>10. AirTruthful' /\ InboxOpened'
  BY <1>1, <1>2, <1>3, <1>4, <1>5, <1>6, <1>7, <1>8, <1>9 DEF Next
<1> QED BY <1>0, <1>10, TypeNext DEF IInv

\* Handing a message to the application is a Deliver step of the promise: it was sent
\* to this node by that sender, and was not handed over before.
LEMMA DeliverStep ==
  ASSUME IInv, NEW n \in Node, RxDeliver(n)
  PROVE  Promise!Next
<1> DEFINE f == rxbuf[n]
<1>1. /\ f \in Frame /\ f.kind = "data" /\ f.dst = n /\ f.id \notin opened[n]
      /\ inbox' = [inbox EXCEPT ![n] = Append(@, [id |-> f.id, src |-> f.src])]
      /\ msg' = msg
  BY ArrivedType DEF IInv, RxDeliver, AcceptData, Accept, ForUs, Opens
<1>2. f.id \in MsgId /\ f.src \in Node /\ f.dst \in Node
  BY <1>1, DataType
<1>3. msg[f.id] = [src |-> f.src, dst |-> f.dst]
  BY <1>1 DEF IInv, AirTruthful
<1>4. msg[f.id] # Promise!Unsent
  BY <1>2, <1>3, NodeAssumption DEF Promise!Unsent
<1>5. f.id \notin Promise!Handed(n)
  BY <1>1 DEF IInv, InboxOpened, Promise!Handed
<1>6. Promise!Deliver(n, f.id)
  BY <1>1, <1>3, <1>4, <1>5 DEF Promise!Deliver
<1> QED BY <1>2, <1>6 DEF Promise!Next

\* Every step is a step of the promise or leaves its variables alone.
LEMMA RefinesNext == IInv /\ [Next]_vars => [Promise!Next]_<<msg, inbox>>
<1> SUFFICES ASSUME IInv, [Next]_vars PROVE [Promise!Next]_<<msg, inbox>>
  OBVIOUS
<1> USE DEF history
<1>1. ASSUME NEW n \in Node, OnRadioRx(n) PROVE Promise!Next \/ UNCHANGED <<msg, inbox>>
  <2>1. CASE RxDeliver(n)
    BY <2>1, DeliverStep
  <2>2. CASE ~RxDeliver(n)
    BY <1>1, <2>2 DEF OnRadioRx, RxEcho, RxLimited, RxBeacon, RxKeyOverheard, RxKeyRequest,
                      RxKeyResponse, RxDuplicate, RxTransit, RxUnopened
  <2> QED BY <2>1, <2>2
<1>2. ASSUME NEW n \in Node, NEW d \in Node, NEW m \in MsgId, SendData(n, d, m)
      PROVE  Promise!Next
  <2>1. Promise!Submit(m)
    BY <1>2 DEF SendData, Promise!Submit, Unsent, Promise!Unsent
  <2> QED BY <2>1 DEF Promise!Next
<1>3. ASSUME NEW n \in Node,
             \/ SetRxCallback(n) \/ SendBeacon(n) \/ WindowPasses(n)
             \/ Reboot(n) \/ RebootBeforeCallback(n)
             \/ \E d \in Node \ {n} : SendKeyRequest(n, d)
      PROVE  UNCHANGED <<msg, inbox>>
  BY <1>3 DEF SetRxCallback, SendBeacon, WindowPasses, Reboot, RebootBeforeCallback,
              SendKeyRequest
<1>4. CASE UNCHANGED vars
  BY <1>4 DEF vars
<1> QED BY <1>1, <1>2, <1>3, <1>4 DEF Next

\* The initial states are initial states of the promise.
LEMMA RefinesInit == Init => Promise!Init
  BY DEF Init, Promise!Init, Unsent, Promise!Unsent

\* In every network, with tables of every size, whatever is lost, comes back or
\* reboots: the application of the addressee gets each message at most once, and as
\* coming from the node that sent it.
THEOREM DeliversOnce == Spec => Delivers
<1>1. Init /\ [][Next]_vars => []IInv
  BY IInvInit, IInvNext, PTL
<1>2. Spec => Promise!Init /\ [][Promise!Next]_<<msg, inbox>>
  BY <1>1, RefinesInit, RefinesNext, PTL DEF Spec
<1> QED BY <1>2 DEF Delivers, Promise!Spec

\* What the promise comes to in a state: no application was called twice for a message, and
\* every call named the sender of a message that was submitted for this very node.
Received ==
  \A n \in Node :
    /\ \A i, j \in 1 .. Len(inbox[n]) : inbox[n][i].id = inbox[n][j].id => i = j
    /\ \A i \in 1 .. Len(inbox[n]) :
         msg[inbox[n][i].id] = [src |-> inbox[n][i].src, dst |-> n]

\* Submitting a message leaves those that were submitted before.
LEMMA ReceivedSubmit ==
  ASSUME TypeOK, Received, NEW m \in MsgId, Promise!Submit(m)
  PROVE  Received'
<1>1. /\ inbox' = inbox /\ msg[m] = Unsent
      /\ \A x \in MsgId : x # m => msg'[x] = msg[x]
  BY DEF Promise!Submit, TypeOK, Unsent, Promise!Unsent
<1>2. ASSUME NEW n \in Node, NEW i \in 1 .. Len(inbox[n]) PROVE inbox[n][i].id \in MsgId
  <2>1. inbox[n] \in Seq([id : MsgId, src : Node])
    BY DEF TypeOK
  <2>2. inbox[n][i] \in [id : MsgId, src : Node]
    BY <2>1, ElementOfSeq
  <2> QED BY <2>2
<1>3. ASSUME NEW n \in Node, NEW i \in 1 .. Len(inbox[n])
      PROVE  msg'[inbox[n][i].id] = [src |-> inbox[n][i].src, dst |-> n]
  <2>1. msg[inbox[n][i].id] = [src |-> inbox[n][i].src, dst |-> n]
    BY DEF Received
  <2>2. msg[inbox[n][i].id].dst = n /\ Unsent.dst = "nobody"
    BY <2>1 DEF Unsent
  <2>3. inbox[n][i].id # m
    BY <1>1, <2>2, NodeAssumption
  <2> QED BY <1>1, <1>2, <2>1, <2>3
<1>4. \A n \in Node : \A i, j \in 1 .. Len(inbox[n]) : inbox[n][i].id = inbox[n][j].id => i = j
  BY DEF Received
<1> QED BY <1>1, <1>3, <1>4 DEF Received

\* A delivery appends a message that its node has not had.
LEMMA ReceivedDeliver ==
  ASSUME TypeOK, Received, NEW p \in Node, NEW m \in MsgId, Promise!Deliver(p, m)
  PROVE  Received'
<1> DEFINE L == Len(inbox[p])
           e == [id |-> m, src |-> msg[m].src]
<1>0. inbox \in [Node -> Seq([id : MsgId, src : Node])]
  BY DEF TypeOK
<1>a. inbox[p] \in Seq([id : MsgId, src : Node])
  BY <1>0
<1>b. msg' = msg /\ inbox' = [inbox EXCEPT ![p] = Append(inbox[p], e)]
  BY DEF Promise!Deliver
<1> HIDE DEF e
<1>1. /\ msg' = msg /\ inbox'[p] = Append(inbox[p], e)
      /\ \A n \in Node : n # p => inbox'[n] = inbox[n]
      /\ inbox[p] \in Seq([id : MsgId, src : Node]) /\ L \in Nat
  BY <1>0, <1>a, <1>b
<1>2. /\ Len(inbox'[p]) = L + 1 /\ inbox'[p][L + 1] = e
      /\ \A i \in 1 .. L : inbox'[p][i] = inbox[p][i]
  <2>1. e \in [id : MsgId, src : Node]
    BY DEF e, Promise!Deliver, TypeOK, Unsent, Promise!Unsent
  <2> QED BY <1>1, <2>1
<1>3. msg[m] = [src |-> msg[m].src, dst |-> p]
  BY DEF Promise!Deliver, TypeOK, Unsent, Promise!Unsent
<1>4. \A i \in 1 .. L : inbox[p][i].id # m
  <2>1. DOMAIN inbox[p] = 1 .. L
    BY <1>1
  <2> QED BY <2>1 DEF Promise!Deliver, Promise!Handed
<1>5. \A i \in 1 .. L + 1 : i = L + 1 \/ i \in 1 .. L
  BY <1>1
<1>6. /\ \A i, j \in 1 .. L : inbox[p][i].id = inbox[p][j].id => i = j
      /\ \A i \in 1 .. L : msg[inbox[p][i].id] = [src |-> inbox[p][i].src, dst |-> p]
  BY DEF Received
<1>7. e.id = m /\ e.src = msg[m].src
  BY DEF e
<1> HIDE DEF L
<1>8. /\ \A i, j \in 1 .. L + 1 : inbox'[p][i].id = inbox'[p][j].id => i = j
      /\ \A i \in 1 .. L + 1 : msg[inbox'[p][i].id] = [src |-> inbox'[p][i].src, dst |-> p]
  BY <1>2, <1>3, <1>4, <1>5, <1>6, <1>7
<1>9. ASSUME NEW n \in Node, n # p
      PROVE  /\ \A i, j \in 1 .. Len(inbox'[n]) : inbox'[n][i].id = inbox'[n][j].id => i = j
             /\ \A i \in 1 .. Len(inbox'[n]) :
                  msg[inbox'[n][i].id] = [src |-> inbox'[n][i].src, dst |-> n]
  BY <1>1, <1>9 DEF Received
<1> QED BY <1>1, <1>2, <1>8, <1>9 DEF Received

LEMMA ReceivedNext == TypeOK /\ Received /\ [Promise!Next]_<<msg, inbox>> => Received'
<1> SUFFICES ASSUME TypeOK, Received, [Promise!Next]_<<msg, inbox>> PROVE Received'
  OBVIOUS
<1>1. CASE UNCHANGED <<msg, inbox>>
  BY <1>1 DEF Received
<1>2. CASE Promise!Next
  BY <1>2, ReceivedSubmit, ReceivedDeliver DEF Promise!Next
<1> QED BY <1>1, <1>2

\* The promise as an invariant: nothing is handed over twice, under a wrong name or to the
\* wrong node (on_radio_rx), whatever is lost, duplicated, delayed or reboots.
THEOREM ReceivedOnce == Spec => []Received
<1>1. Init => Received
  BY DEF Init, Received
<1>2. Init /\ [][Next]_vars => []IInv
  BY IInvInit, IInvNext, PTL
<1>3. IInv /\ Received /\ [Next]_vars => Received'
  BY RefinesNext, ReceivedNext DEF IInv
<1> QED BY <1>1, <1>2, <1>3, PTL DEF Spec

-----------------------------------------------------------------------------
(* How far a message goes. *)

\* A path may wait at its end, and go on over a link.
LEMMA WithinLonger ==
  ASSUME NEW k \in 0 .. DefaultTtl, NEW j \in k .. DefaultTtl, NEW a \in Node, NEW b \in Node,
         <<a, b>> \in Within[k]
  PROVE  <<a, b>> \in Within[j]
<1>1. PICK path \in [0 .. k -> Node] :
        /\ path[0] = a /\ path[k] = b
        /\ \A i \in 1 .. k : path[i] = path[i-1] \/ path[i] \in Link[path[i-1]]
  BY DEF Within
<1> DEFINE longer == [i \in 0 .. j |-> IF i <= k THEN path[i] ELSE b]
<1>2. k \in Nat /\ j \in Nat /\ k <= j /\ j \in 0 .. DefaultTtl
  BY SizeAssumption
<1>3. longer \in [0 .. j -> Node]
  BY <1>2
<1>4. longer[0] = a /\ longer[j] = b
  BY <1>1, <1>2
<1>5. \A i \in 1 .. j : longer[i] = longer[i-1] \/ longer[i] \in Link[longer[i-1]]
  <2> SUFFICES ASSUME NEW i \in 1 .. j
               PROVE  longer[i] = longer[i-1] \/ longer[i] \in Link[longer[i-1]]
    OBVIOUS
  <2>1. CASE i <= k
    BY <1>1, <1>2, <2>1
  <2>2. CASE i = k + 1
    BY <1>1, <1>2, <2>2
  <2>3. CASE i > k + 1
    BY <1>1, <1>2, <2>3
  <2> QED BY <1>2, <2>1, <2>2, <2>3
<1> HIDE DEF longer
<1> QED BY <1>2, <1>3, <1>4, <1>5 DEF Within

LEMMA WithinHop ==
  ASSUME NEW k \in 0 .. DefaultTtl, k < DefaultTtl, NEW a \in Node, NEW b \in Node, NEW c \in Link[b],
         <<a, b>> \in Within[k]
  PROVE  c \in Node /\ <<a, c>> \in Within[k + 1]
<1>1. PICK path \in [0 .. k -> Node] :
        /\ path[0] = a /\ path[k] = b
        /\ \A i \in 1 .. k : path[i] = path[i-1] \/ path[i] \in Link[path[i-1]]
  BY DEF Within
<1> DEFINE longer == [i \in 0 .. k + 1 |-> IF i <= k THEN path[i] ELSE c]
<1>2. k \in Nat /\ k + 1 \in 0 .. DefaultTtl
  BY SizeAssumption
<1>0. c \in Node
  BY LinkAssumption
<1>3. longer \in [0 .. k + 1 -> Node]
  BY <1>0, <1>2
<1>4. longer[0] = a /\ longer[k + 1] = c
  BY <1>1, <1>2
<1>5. \A i \in 1 .. k + 1 : longer[i] = longer[i-1] \/ longer[i] \in Link[longer[i-1]]
  <2> SUFFICES ASSUME NEW i \in 1 .. k + 1
               PROVE  longer[i] = longer[i-1] \/ longer[i] \in Link[longer[i-1]]
    OBVIOUS
  <2>1. CASE i <= k
    BY <1>1, <1>2, <2>1
  <2>2. CASE i = k + 1
    BY <1>1, <1>2, <2>2
  <2> QED BY <1>2, <2>1, <2>2
<1> HIDE DEF longer
<1> QED BY <1>0, <1>2, <1>3, <1>4, <1>5 DEF Within

LEMMA WithinSelf ==
  ASSUME NEW a \in Node
  PROVE  <<a, a>> \in Within[0]
<1> DEFINE path == [i \in 0 .. 0 |-> a]
<1>1. /\ path \in [0 .. 0 -> Node] /\ path[0] = a
      /\ \A i \in 1 .. 0 : path[i] = path[i-1] \/ path[i] \in Link[path[i-1]]
  OBVIOUS
<1> HIDE DEF path
<1> QED BY <1>1, SizeAssumption DEF Within

\* A copy at p has made no more hops than it has lost; who remembers m knows its sender.
Near(f, p) == f.kind = "data" => <<f.src, p>> \in Within[DefaultTtl - f.ttl + 1]

Remembered(p, m) == msg[m].src \in Node /\ <<msg[m].src, p>> \in Within[DefaultTtl]

HInv ==
  /\ \A p \in Node : Near(rxbuf[p], p)
  /\ \A p \in Node : \A m \in ToSet(seen[p]) : Remembered(p, m)

LEMMA HInvBound == HInv => HopBound
  BY DEF HInv, Near, Remembered, HopBound

\* What a step may do to radios, memories and messages.
LEMMA HInvKept ==
  ASSUME TypeOK, HInv,
         \A p \in Node : rxbuf'[p] = rxbuf[p] \/ Near(rxbuf'[p], p),
         \A p \in Node : \A m \in ToSet(seen'[p]) : m \in ToSet(seen[p]) \/ Remembered(p, m)',
         \A m \in MsgId : msg[m].src \in Node => msg'[m] = msg[m]
  PROVE  HInv'
<1>1. \A p \in Node : \A m \in ToSet(seen[p]) : m \in MsgId
  BY DEF TypeOK, ToSet
<1>2. \A p \in Node : Near(rxbuf'[p], p)
  BY DEF HInv
<1>3. \A p \in Node : \A m \in ToSet(seen'[p]) : Remembered(p, m)'
  BY <1>1 DEF HInv, Remembered
<1> QED BY <1>2, <1>3 DEF HInv, Near

\* The memory holds at most one identifier more after a call.
LEMMA RememberSet ==
  ASSUME NEW s \in Seq(MsgId), NEW m \in MsgId
  PROVE  \A x \in ToSet(Remember(s, m)) : x = m \/ x \in ToSet(s)
<1>1. CASE Len(s) < DedupSize
  BY <1>1 DEF Remember, Push, ToSet
<1>2. CASE ~(Len(s) < DedupSize)
  <2>1. s # << >> /\ Len(s) \in Nat
    BY <1>2, SizeAssumption
  <2>2. Tail(s) \in Seq(MsgId) /\ Len(Tail(s)) = Len(s) - 1
        /\ \A k \in 1 .. Len(s) - 1 : Tail(s)[k] = s[k + 1]
    BY <2>1
  <2>3. Remember(s, m) = Append(Tail(s), m)
    BY <1>2 DEF Remember, Push
  <2>4. ASSUME NEW i \in DOMAIN Remember(s, m)
        PROVE  Remember(s, m)[i] = m \/ \E j \in DOMAIN s : Remember(s, m)[i] = s[j]
    <3>1. i \in 1 .. Len(s)
      BY <2>1, <2>2, <2>3, <2>4
    <3>2. CASE i = Len(s)
      BY <2>2, <2>3, <3>2
    <3>3. CASE i # Len(s)
      <4>1. i \in 1 .. Len(s) - 1 /\ i + 1 \in DOMAIN s
        BY <2>1, <3>1, <3>3
      <4>2. Remember(s, m)[i] = s[i + 1]
        BY <2>2, <2>3, <4>1
      <4> QED BY <4>1, <4>2
    <3> QED BY <3>2, <3>3
  <2> QED BY <2>4 DEF ToSet
<1> QED BY <1>1, <1>2

\* A step that remembers nothing and puts no DATA on the air.
LEMMA HInvOther ==
  ASSUME TypeOK, HInv, seen' = seen, msg' = msg,
         \A p \in Node : rxbuf'[p] = rxbuf[p] \/ rxbuf'[p].kind # "data"
  PROVE  HInv'
  BY HInvKept DEF Near

LEMMA OtherFrames ==
  ASSUME NEW n \in Node, NEW pending, pending = rxbuf \/ pending = Taken(n), TypeOK,
         \/ rxbuf' = pending
         \/ \E f : f.kind # "data" /\ Transmit(n, f, pending)
  PROVE  \A p \in Node : rxbuf'[p] = rxbuf[p] \/ rxbuf'[p].kind # "data"
<1>1. \A p \in Node : pending[p] = rxbuf[p] \/ pending[p] = NoFrame
  BY DEF Taken, TypeOK
<1>2. CASE rxbuf' = pending
  BY <1>1, <1>2, KindNotData
<1>3. ASSUME NEW f, f.kind # "data", Transmit(n, f, pending)
      PROVE  \A p \in Node : rxbuf'[p] = rxbuf[p] \/ rxbuf'[p].kind # "data"
  <2>1. PICK heard \in SUBSET Link[n] :
          rxbuf' = [m \in Node |-> IF m \in heard THEN f ELSE pending[m]]
    BY <1>3 DEF Transmit
  <2> QED BY <1>1, <1>3, <2>1, KindNotData
<1> QED BY <1>2, <1>3

\* A frame that is passed on has made one hop more and lost one.
LEMMA HInvRelay ==
  ASSUME TypeOK, AirTruthful, HInv, msg' = msg, NEW n \in Node, AcceptData(n), Relay(n)
  PROVE  HInv'
<1> DEFINE f == rxbuf[n]
           g == [f EXCEPT !.ttl = @ - 1]
<1>1. f \in Frame /\ f.kind = "data" /\ seen' = [seen EXCEPT ![n] = Remember(@, f.id)]
  BY ArrivedType DEF AcceptData, Accept
<1>2. /\ f.id \in MsgId /\ f.src \in Node /\ f.dst \in Node /\ f.ttl \in 1 .. DefaultTtl
      /\ f = Data(f.id, f.src, f.dst, f.ttl)
  BY <1>1, DataType
<1>3. <<f.src, n>> \in Within[DefaultTtl - f.ttl + 1]
  BY <1>1 DEF HInv, Near
<1>3b. msg[f.id].src = f.src
  <2>1. msg[f.id] = [src |-> f.src, dst |-> f.dst]
    BY <1>1 DEF AirTruthful
  <2> QED BY <2>1
<1>4. DefaultTtl \in Nat /\ DefaultTtl - f.ttl + 1 \in 0 .. DefaultTtl
      /\ DefaultTtl \in (DefaultTtl - f.ttl + 1) .. DefaultTtl
  BY <1>2, SizeAssumption
<1>5. PICK x \in MsgId : x = f.id
  BY <1>2
<1>5b. Remembered(n, x)'
  <2>1. <<f.src, n>> \in Within[DefaultTtl]
    BY <1>2, <1>3, <1>4, WithinLonger
  <2>2. msg'[x].src = f.src
    BY <1>3b, <1>5
  <2> QED BY <1>2, <2>1, <2>2 DEF Remembered
<1>6. \A p \in Node : \A m \in ToSet(seen'[p]) : m \in ToSet(seen[p]) \/ Remembered(p, m)'
  <2>1. \A p \in Node : seen'[p] = IF p = n THEN Remember(seen[n], f.id) ELSE seen[p]
    BY <1>1 DEF TypeOK
  <2>2. \A m \in ToSet(Remember(seen[n], f.id)) : m = f.id \/ m \in ToSet(seen[n])
    BY <1>2, RememberSet DEF TypeOK
  <2> QED BY <2>1, <2>2, <1>5, <1>5b
<1>7. \A p \in Node : rxbuf'[p] = rxbuf[p] \/ Near(rxbuf'[p], p)
  <2>1. CASE f.ttl > 1
    <3>1. PICK heard \in SUBSET Link[n] :
            rxbuf' = [m \in Node |-> IF m \in heard THEN g ELSE Taken(n)[m]]
      BY <2>1 DEF Relay, Transmit
    <3>2. g.kind = "data" /\ g.src = f.src /\ g.ttl = f.ttl - 1
      BY <1>2 DEF Data
    <3> HIDE DEF g
    <3>3. ASSUME NEW p \in heard PROVE Near(g, p)
      <4>1. p \in Link[n] /\ DefaultTtl - f.ttl + 1 < DefaultTtl
        BY <1>2, <1>4, <2>1, <3>3
      <4>2. <<f.src, p>> \in Within[(DefaultTtl - f.ttl + 1) + 1]
        BY <1>2, <1>3, <1>4, <4>1, WithinHop
      <4>3. DefaultTtl - g.ttl + 1 = (DefaultTtl - f.ttl + 1) + 1
        BY <1>2, <1>4, <3>2
      <4> QED BY <3>2, <4>2, <4>3 DEF Near
    <3>4. ASSUME NEW p \in Node \ heard PROVE rxbuf'[p] = rxbuf[p] \/ Near(rxbuf'[p], p)
      <4>1. rxbuf'[p] = rxbuf[p] \/ rxbuf'[p] = NoFrame
        BY <3>1 DEF Taken, TypeOK
      <4> QED BY <4>1, KindNotData DEF Near
    <3> QED BY <3>1, <3>3, <3>4
  <2>2. CASE ~(f.ttl > 1)
    <3>1. \A p \in Node : rxbuf'[p] = rxbuf[p] \/ rxbuf'[p] = NoFrame
      BY <2>2 DEF Relay, Taken, TypeOK
    <3> QED BY <3>1, KindNotData DEF Near
  <2> QED BY <2>1, <2>2
<1> QED BY <1>6, <1>7, HInvKept

\* A message starts with all its hops.
LEMMA HInvSendData ==
  ASSUME TypeOK, HInv, NEW n \in Node, NEW d \in Node, NEW m \in MsgId, SendData(n, d, m)
  PROVE  HInv'
<1> DEFINE f == Data(m, n, d, DefaultTtl)
<1>1. /\ msg[m] = Unsent /\ msg' = [msg EXCEPT ![m] = [src |-> n, dst |-> d]]
      /\ seen' = [seen EXCEPT ![n] = Remember(@, m)]
  BY DEF SendData
<1>2. PICK heard \in SUBSET Link[n] : rxbuf' = [p \in Node |-> IF p \in heard THEN f ELSE rxbuf[p]]
  BY DEF SendData, Transmit
<1>3. f.kind = "data" /\ f.src = n /\ f.ttl = DefaultTtl
  BY DEF Data
<1> HIDE DEF f
<1>4. msg'[m].src = n /\ \A x \in MsgId : msg[x].src \in Node => msg'[x] = msg[x]
  BY <1>1, NodeAssumption DEF TypeOK, Unsent
<1>5. DefaultTtl \in Nat \ {0} /\ DefaultTtl - DefaultTtl + 1 = 0 + 1
  BY SizeAssumption
<1>6. Remembered(n, m)'
  <2>1. 0 \in 0 .. DefaultTtl /\ DefaultTtl \in 0 .. DefaultTtl
    BY <1>5
  <2>2. <<n, n>> \in Within[DefaultTtl]
    BY <2>1, WithinSelf, WithinLonger
  <2> QED BY <1>4, <2>2 DEF Remembered
<1>7. \A p \in heard : Near(f, p)
  <2>1. ASSUME NEW p \in heard PROVE <<n, p>> \in Within[0 + 1]
    <3>1. 0 \in 0 .. DefaultTtl /\ 0 < DefaultTtl /\ p \in Link[n]
      BY <1>5
    <3> QED BY <3>1, WithinSelf, WithinHop
  <2> QED BY <2>1, <1>3, <1>5 DEF Near
<1>8. \A p \in Node : rxbuf'[p] = rxbuf[p] \/ Near(rxbuf'[p], p)
  BY <1>2, <1>7
<1>9. \A p \in Node : \A x \in ToSet(seen'[p]) : x \in ToSet(seen[p]) \/ Remembered(p, x)'
  <2>1. \A p \in Node : seen'[p] = IF p = n THEN Remember(seen[n], m) ELSE seen[p]
    BY <1>1 DEF TypeOK
  <2>2. \A x \in ToSet(Remember(seen[n], m)) : x = m \/ x \in ToSet(seen[n])
    BY RememberSet DEF TypeOK
  <2> QED BY <1>6, <2>1, <2>2
<1> QED BY <1>4, <1>8, <1>9, HInvKept

LEMMA HInvForget ==
  ASSUME TypeOK, HInv, msg' = msg, NEW n \in Node, Forget(n)
  PROVE  HInv'
<1>1. \A p \in Node : rxbuf'[p] = rxbuf[p] \/ rxbuf'[p].kind # "data"
  BY OtherFrames DEF Forget
<1>2. \A p \in Node : \A m \in ToSet(seen'[p]) : m \in ToSet(seen[p])
  BY DEF Forget, TypeOK, ToSet
<1> QED BY <1>1, <1>2, HInvKept DEF Near

LEMMA HInvInit == Init => HInv
  BY KindNotData DEF Init, HInv, Near, ToSet

LEMMA HInvNext == IInv /\ HInv /\ [Next]_vars => HInv'
<1> SUFFICES ASSUME IInv, HInv, [Next]_vars PROVE HInv'
  OBVIOUS
<1> USE DEF ram, nvs, history
<1>0. TypeOK /\ AirTruthful
  BY DEF IInv
<1>1. ASSUME NEW n \in Node, OnRadioRx(n) PROVE HInv'
  <2>1. CASE \/ RxEcho(n) \/ RxLimited(n) \/ RxBeacon(n) \/ RxKeyOverheard(n)
             \/ RxKeyResponse(n) \/ RxDuplicate(n)
    <3>1. seen' = seen /\ msg' = msg /\ rxbuf' = Taken(n)
      BY <2>1 DEF RxEcho, RxLimited, RxBeacon, RxKeyOverheard, RxKeyResponse, RxDuplicate
    <3>2. \A p \in Node : rxbuf'[p] = rxbuf[p] \/ rxbuf'[p].kind # "data"
      BY <1>0, <3>1, OtherFrames
    <3> QED BY <1>0, <3>1, <3>2, HInvOther
  <2>2. CASE RxKeyRequest(n)
    <3>1. KeyFrame("response", n, rxbuf[n].src).kind # "data"
      BY DEF KeyFrame
    <3>2. \A p \in Node : rxbuf'[p] = rxbuf[p] \/ rxbuf'[p].kind # "data"
      BY <1>0, <2>2, <3>1, OtherFrames DEF RxKeyRequest
    <3> QED BY <1>0, <2>2, <3>2, HInvOther DEF RxKeyRequest
  <2>3. CASE RxTransit(n) \/ RxDeliver(n) \/ RxUnopened(n)
    BY <1>0, <2>3, HInvRelay DEF RxTransit, RxDeliver, RxUnopened
  <2> QED BY <1>1, <2>1, <2>2, <2>3 DEF OnRadioRx
<1>2. ASSUME NEW n \in Node, SetRxCallback(n) \/ WindowPasses(n) PROVE HInv'
  BY <1>0, <1>2, HInvOther DEF SetRxCallback, WindowPasses
<1>3. ASSUME NEW n \in Node, SendBeacon(n) PROVE HInv'
  <2>1. \A p \in Node : rxbuf'[p] = rxbuf[p] \/ rxbuf'[p].kind # "data"
    BY <1>0, <1>3, KindNotData, OtherFrames DEF SendBeacon
  <2> QED BY <1>0, <1>3, <2>1, HInvOther DEF SendBeacon
<1>4. ASSUME NEW n \in Node, NEW d \in Node, SendKeyRequest(n, d) PROVE HInv'
  <2>1. \A p \in Node : rxbuf'[p] = rxbuf[p] \/ rxbuf'[p].kind # "data"
    BY <1>0, <1>4, KindNotData, OtherFrames DEF SendKeyRequest
  <2> QED BY <1>0, <1>4, <2>1, HInvOther DEF SendKeyRequest
<1>5. ASSUME NEW n \in Node, NEW d \in Node, NEW m \in MsgId, SendData(n, d, m) PROVE HInv'
  BY <1>0, <1>5, HInvSendData
<1>6. ASSUME NEW n \in Node, Reboot(n) \/ RebootBeforeCallback(n) PROVE HInv'
  BY <1>0, <1>6, HInvForget DEF Reboot, RebootBeforeCallback
<1>7. CASE UNCHANGED vars
  BY <1>0, <1>7, HInvOther DEF vars
<1> QED BY <1>1, <1>2, <1>3, <1>4, <1>5, <1>6, <1>7 DEF Next

\* A copy never gets further from its sender than DefaultTtl hops, and no node beyond
\* them remembers its identifier, in every network and with every TTL (mesh.c, line 227).
THEOREM HopsBounded == Spec => []HopBound
<1>1. Init /\ [][Next]_vars => []IInv
  BY IInvInit, IInvNext, PTL
<1> QED BY <1>1, HInvInit, HInvNext, HInvBound, PTL DEF Spec

-----------------------------------------------------------------------------
(* Once on the air. *)

\* The memory of identifiers is large enough for every message.
Roomy == IsFiniteSet(MsgId) /\ Cardinality(MsgId) <= DedupSize

NoRepeats(s) == \A i, j \in 1 .. Len(s) : s[i] = s[j] => i = j

\* A node remembers what it put on the air, each identifier in one slot.
OInv ==
  /\ \A p \in Node : NoRepeats(seen[p])
  /\ \A p \in Node, m \in MsgId :
        aired[p][m] = 0 \/ (aired[p][m] = 1 /\ m \in ToSet(seen[p]))

\* A memory without repetitions that lacks an identifier is not full.
LEMMA RoomForOne ==
  ASSUME Roomy, NEW s \in Seq(MsgId), NoRepeats(s), NEW m \in MsgId, m \notin ToSet(s)
  PROVE  Len(s) < DedupSize
<1> DEFINE n == Len(s) + 1
           f == [i \in 1 .. n |-> IF i <= Len(s) THEN s[i] ELSE m]
<1>1. Len(s) \in Nat /\ \A i \in 1 .. Len(s) : s[i] \in MsgId /\ s[i] # m
  BY DEF ToSet
<1>2. f \in [1 .. n -> MsgId]
  BY <1>1
<1>3. \A i, j \in 1 .. n : f[i] = f[j] => i = j
  BY <1>1 DEF NoRepeats
<1> HIDE DEF f
<1>4. f \in Injection(1 .. n, MsgId)
  BY <1>2, <1>3 DEF Injection, IsInjective
<1>5. Cardinality(1 .. n) <= Cardinality(MsgId)
  BY <1>4, FS_Injection DEF Roomy
<1>6. Cardinality(1 .. n) = n
  BY <1>1, FS_Interval
<1>7. Cardinality(MsgId) \in Nat
  BY FS_CardinalityType DEF Roomy
<1> QED BY <1>1, <1>5, <1>6, <1>7, SizeAssumption DEF Roomy

\* So nothing is forgotten when it remembers one more.
LEMMA RememberAll ==
  ASSUME Roomy, NEW s \in Seq(MsgId), NoRepeats(s), NEW m \in MsgId, m \notin ToSet(s)
  PROVE  /\ NoRepeats(Remember(s, m))
         /\ ToSet(Remember(s, m)) = ToSet(s) \cup {m}
<1>1. Remember(s, m) = Append(s, m)
  BY RoomForOne DEF Remember, Push
<1>2. /\ Len(s) \in Nat /\ Len(Append(s, m)) = Len(s) + 1 /\ Append(s, m)[Len(s) + 1] = m
      /\ \A i \in 1 .. Len(s) : Append(s, m)[i] = s[i] /\ s[i] # m
  BY DEF ToSet
<1>3. NoRepeats(Append(s, m))
  BY <1>2 DEF NoRepeats
<1>4. \A x : x \in ToSet(Append(s, m)) <=> (x = m \/ x \in ToSet(s))
  BY <1>2 DEF ToSet
<1> QED BY <1>1, <1>3, <1>4

\* An identifier that a node remembers and puts on the air at once.
LEMMA OInvOnce ==
  ASSUME Roomy, TypeOK, OInv, NEW n \in Node, NEW m \in MsgId, m \notin ToSet(seen[n]),
         seen' = [seen EXCEPT ![n] = Remember(@, m)],
         aired' = aired \/ aired' = [aired EXCEPT ![n][m] = OneMore(@)]
  PROVE  OInv'
<1>1. seen[n] \in Seq(MsgId) /\ NoRepeats(seen[n]) /\ aired[n][m] = 0
  BY DEF TypeOK, OInv
<1>2. NoRepeats(seen'[n]) /\ ToSet(seen'[n]) = ToSet(seen[n]) \cup {m}
  BY <1>1, RememberAll DEF TypeOK
<1>3. \A p \in Node : p # n => seen'[p] = seen[p]
  BY DEF TypeOK
<1>4. \A p \in Node, x \in MsgId : ~(p = n /\ x = m) => aired'[p][x] = aired[p][x]
  BY DEF TypeOK
<1>5. aired'[n][m] = 0 \/ aired'[n][m] = 1
  BY <1>1 DEF TypeOK, OneMore
<1>6. \A p \in Node : NoRepeats(seen'[p])
  BY <1>2, <1>3 DEF OInv
<1>7. ASSUME NEW p \in Node, NEW x \in MsgId
      PROVE  aired'[p][x] = 0 \/ (aired'[p][x] = 1 /\ x \in ToSet(seen'[p]))
  <2>1. CASE p = n /\ x = m
    BY <1>2, <1>5, <2>1
  <2>2. CASE ~(p = n /\ x = m)
    BY <1>2, <1>3, <1>4, <2>2 DEF OInv
  <2> QED BY <2>1, <2>2
<1> QED BY <1>6, <1>7 DEF OInv, NoRepeats

LEMMA OInvForget ==
  ASSUME TypeOK, OInv, NEW n \in Node, Forget(n)
  PROVE  OInv'
<1>1. /\ seen'[n] = << >> /\ \A p \in Node : p # n => seen'[p] = seen[p]
      /\ \A m \in MsgId : aired'[n][m] = 0
      /\ \A p \in Node : p # n => aired'[p] = aired[p]
  BY DEF Forget, TypeOK
<1>2. \A p \in Node : NoRepeats(seen'[p])
  BY <1>1 DEF OInv, NoRepeats
<1> QED BY <1>1, <1>2 DEF OInv, NoRepeats

LEMMA OInvNext == Roomy /\ IInv /\ HInv /\ OInv /\ [Next]_vars => OInv'
<1> SUFFICES ASSUME Roomy, IInv, HInv, OInv, [Next]_vars PROVE OInv'
  OBVIOUS
<1> USE DEF ram, nvs, history
<1>0. TypeOK
  BY DEF IInv
<1>1. CASE UNCHANGED <<seen, aired>>
  BY <1>1 DEF OInv
<1>2. ASSUME NEW n \in Node, RxTransit(n) \/ RxDeliver(n) \/ RxUnopened(n) PROVE OInv'
  <2>1. AcceptData(n) /\ Relay(n)
    BY <1>2 DEF RxTransit, RxDeliver, RxUnopened
  <2>2. rxbuf[n].id \in MsgId
    BY <1>0, <2>1, ArrivedType, DataType DEF AcceptData, Accept
  <2> QED BY <1>0, <2>1, <2>2, OInvOnce DEF AcceptData, Relay
<1>3. ASSUME NEW n \in Node, NEW d \in Node, NEW m \in MsgId, SendData(n, d, m) PROVE OInv'
  <2>1. m \notin ToSet(seen[n])
    <3>1. msg[m].src = "nobody"
      BY <1>3 DEF SendData, Unsent
    <3>2. \A x \in ToSet(seen[n]) : msg[x].src \in Node
      BY DEF HInv, Remembered
    <3> QED BY <3>1, <3>2, NodeAssumption
  <2> QED BY <1>0, <1>3, <2>1, OInvOnce DEF SendData
<1>4. ASSUME NEW n \in Node, Reboot(n) \/ RebootBeforeCallback(n) PROVE OInv'
  BY <1>0, <1>4, OInvForget DEF Reboot, RebootBeforeCallback
<1>5. ASSUME NEW n \in Node,
             \/ RxEcho(n) \/ RxLimited(n) \/ RxBeacon(n) \/ RxKeyOverheard(n)
             \/ RxKeyRequest(n) \/ RxKeyResponse(n) \/ RxDuplicate(n)
      PROVE  UNCHANGED <<seen, aired>>
  BY <1>5 DEF RxEcho, RxLimited, RxBeacon, RxKeyOverheard, RxKeyRequest, RxKeyResponse, RxDuplicate
<1>6. ASSUME NEW n \in Node,
             \/ SetRxCallback(n) \/ SendBeacon(n) \/ WindowPasses(n)
             \/ \E d \in Node : SendKeyRequest(n, d)
      PROVE  UNCHANGED <<seen, aired>>
  BY <1>6 DEF SetRxCallback, SendBeacon, WindowPasses, SendKeyRequest
<1>7. CASE UNCHANGED vars
  BY <1>1, <1>7 DEF vars
<1> QED BY <1>1, <1>2, <1>3, <1>4, <1>5, <1>6, <1>7 DEF Next, OnRadioRx

\* While the memory holds every identifier, a node puts a message on the air at most
\* once between two boots, in every network (mesh.c, line 200).
THEOREM RelaysOnce == Roomy /\ Spec => []RelayOnce
<1> SUFFICES ASSUME Roomy PROVE Spec => []RelayOnce
  OBVIOUS
<1>1. Init => OInv
  BY DEF Init, OInv, NoRepeats
<1>2. Init /\ [][Next]_vars => []IInv
  BY IInvInit, IInvNext, PTL
<1>3. Init /\ [][Next]_vars => []HInv
  BY <1>2, HInvInit, HInvNext, PTL
<1>4. IInv /\ HInv /\ OInv /\ [Next]_vars => OInv'
  BY OInvNext
<1>5. OInv => RelayOnce
  BY DEF OInv, RelayOnce
<1> QED BY <1>1, <1>2, <1>3, <1>4, <1>5, PTL DEF Spec

-----------------------------------------------------------------------------
(* The rate of an originator. *)

\* The rate table has a slot for every node that a node can hear of.
Spacious == IsFiniteSet(Node) /\ Cardinality(Node) - 1 <= RateSize

\* The count of an originator whose window runs covers what was let through in it;
\* outside a window nothing counts.
Tally(r, acc, n) ==
  /\ \A i, j \in 1 .. Len(r.tab) : r.tab[i].src = r.tab[j].src => i = j
  /\ \A i \in 1 .. Len(r.tab) : r.tab[i].src # n
  /\ \A s \in Node : acc[s] <= RateMax
  /\ \A i \in 1 .. Len(r.tab) : i > r.aged => acc[r.tab[i].src] <= r.tab[i].count
  /\ \A s \in Node : (\A i \in 1 .. Len(r.tab) : r.tab[i].src = s => i <= r.aged) => acc[s] = 0

TInv == \A p \in Node : Tally(rate[p], accepted[p], p)

\* What RemoveAt leaves in each place.
LEMMA RemoveAtElements ==
  ASSUME NEW S, NEW s \in Seq(S), NEW i \in 1 .. Len(s)
  PROVE  \A j \in 1 .. Len(s) - 1 : RemoveAt(s, i)[j] = IF j < i THEN s[j] ELSE s[j + 1]
<1> DEFINE front == SubSeq(s, 1, i - 1)
           back == SubSeq(s, i + 1, Len(s))
<1>0. Len(s) \in Nat
  OBVIOUS
<1>1. /\ front \in Seq(S) /\ Len(front) = i - 1
      /\ \A j \in 1 .. i - 1 : front[j] = s[j]
  BY <1>0, SubSeqProperties
<1>2. /\ back \in Seq(S) /\ Len(back) = Len(s) - i
      /\ \A j \in 1 .. Len(s) - i : back[j] = s[i + j]
  BY <1>0, SubSeqProperties
<1>3. RemoveAt(s, i) = front \o back
  BY DEF RemoveAt
<1> HIDE DEF front, back
<1> SUFFICES ASSUME NEW j \in 1 .. Len(s) - 1
             PROVE  (front \o back)[j] = IF j < i THEN s[j] ELSE s[j + 1]
  BY <1>3
<1>4. CASE j < i
  BY <1>0, <1>1, <1>2, <1>4
<1>5. CASE ~(j < i)
  <2>1. /\ j - Len(front) \in 1 .. Len(s) - i
        /\ j > Len(front) /\ j <= Len(front) + Len(back)
        /\ i + (j - Len(front)) = j + 1
    BY <1>0, <1>1, <1>2, <1>5
  <2>2. (front \o back)[j] = back[j - Len(front)]
    BY <1>0, <1>1, <1>2, <2>1
  <2>3. back[j - Len(front)] = s[j + 1]
    BY <1>2, <2>1
  <2> QED BY <1>5, <2>2, <2>3
<1> QED BY <1>4, <1>5

\* What the slots of a rate table hold.
LEMMA EntryType ==
  ASSUME NEW r \in RateTable
  PROVE  \A i \in 1 .. Len(r.tab) : r.tab[i].src \in Node /\ r.tab[i].count \in Nat
<1>1. r.tab \in Seq(RateEntry)
  BY DEF RateTable
<1>2. \A i \in 1 .. Len(r.tab) : r.tab[i] \in RateEntry
  BY <1>1
<1>3. \A x \in RateEntry : x.src \in Node /\ x.count \in Nat
  BY SizeAssumption DEF RateEntry
<1> QED BY <1>2, <1>3

\* A table that does not track an originator other than its owner has a free slot.
LEMMA FreeSlot ==
  ASSUME Spacious, NEW r, RateOK(r), NEW acc, NEW n \in Node, Tally(r, acc, n),
         NEW s \in Node, s # n, ~Tracked(r, s)
  PROVE  Len(r.tab) < RateSize
<1> DEFINE L == Len(r.tab)
           f == [i \in 1 .. L + 2 |-> IF i <= L THEN r.tab[i].src ELSE IF i = L + 1 THEN s ELSE n]
<1>1. L \in Nat /\ \A i \in 1 .. L : r.tab[i].src \in Node
  BY EntryType DEF RateOK, RateTable
<1>2. \A i \in 1 .. L : r.tab[i].src # s /\ r.tab[i].src # n
  BY DEF Tracked, Tally
<1>3. \A i, j \in 1 .. L : r.tab[i].src = r.tab[j].src => i = j
  BY DEF Tally
<1> HIDE DEF L
<1>4. f \in [1 .. L + 2 -> Node]
  BY <1>1
<1>5. \A i, j \in 1 .. L + 2 : f[i] = f[j] => i = j
  BY <1>1, <1>2, <1>3
<1> HIDE DEF f
<1>6. f \in Injection(1 .. L + 2, Node)
  BY <1>4, <1>5 DEF Injection, IsInjective
<1>7. Cardinality(1 .. L + 2) <= Cardinality(Node)
  BY <1>6, FS_Injection DEF Spacious
<1>8. Cardinality(1 .. L + 2) = L + 2
  BY <1>1, FS_Interval
<1>9. Cardinality(Node) \in Nat
  BY FS_CardinalityType DEF Spacious
<1> QED BY <1>1, <1>7, <1>8, <1>9, SizeAssumption DEF Spacious, L

\* rate_limited keeps the tally: of a frame it limits, and of one it lets through.
LEMMA CountTally ==
  ASSUME Spacious, NEW r, RateOK(r), NEW acc \in [Node -> Nat], NEW n \in Node,
         Tally(r, acc, n), NEW s \in Node, s # n, NEW new \in [Node -> Nat],
         \/ Limited(r, s) /\ new = acc
         \/ ~Limited(r, s) /\ new = [acc EXCEPT ![s] = @ + 1]
  PROVE  Tally(Count(r, s), new, n)
<1> DEFINE L == Len(r.tab)
           c == Count(r, s)
           k == Slot(r, s)
           e == [src |-> s, count |-> 1]
<1>1. /\ r.tab \in Seq(RateEntry) /\ r.aged \in Nat /\ L \in Nat /\ r.aged <= L
      /\ RateMax \in Nat \ {0} /\ r = [tab |-> r.tab, aged |-> r.aged]
      /\ \A i \in 1 .. L : r.tab[i].src \in Node /\ r.tab[i].count \in Nat
  BY EntryType, SizeAssumption DEF RateOK, RateTable
<1>2. \A x \in Node : x # s => new[x] = acc[x]
  OBVIOUS
<1>0. \A x \in Node : x # s => new[x] <= RateMax
  BY <1>2 DEF Tally
<1>9. 1 <= RateMax
  BY SizeAssumption
<1>b. \A i \in 1 .. L : r.tab[i].src \in Node
  BY <1>1
<1>3. CASE Fresh(r, s)
  <2>1. k \in 1 .. L /\ r.tab[k].src = s /\ k > r.aged
    BY <1>3, SlotType DEF Fresh, RateOK
  <2> DEFINE b == [r.tab[k] EXCEPT !.count = IF @ > RateMax THEN @ ELSE @ + 1]
  <2>2. r.tab[k] \in RateEntry
    BY <1>1, <2>1
  <2>3. c = [r EXCEPT !.tab = [r.tab EXCEPT ![k] = b]]
    BY <1>3 DEF Count
  <2>4. b.src = s /\ b.count = (IF r.tab[k].count > RateMax THEN r.tab[k].count ELSE r.tab[k].count + 1)
    BY <2>1, <2>2 DEF RateEntry
  <2> HIDE DEF b
  <2>5. c.aged = r.aged /\ c.tab = [r.tab EXCEPT ![k] = b]
    BY <1>1, <2>3
  <2>6. /\ Len(c.tab) = L
        /\ c.tab[k] = b
        /\ \A i \in 1 .. L : i # k => c.tab[i] = r.tab[i]
    <3>1. k \in 1 .. Len(r.tab) /\ r.tab \in Seq(RateEntry)
      BY <1>1, <2>1
    <3> HIDE DEF k, c
    <3> QED BY <2>5, <3>1
  <2>7. new[s] <= b.count /\ new[s] <= RateMax
    <3>1. acc[s] <= r.tab[k].count /\ acc[s] <= RateMax /\ acc[s] \in Nat
      BY <2>1 DEF Tally
    <3>2. r.tab[k].count \in Nat
      BY <1>1, <2>1
    <3>3. CASE Limited(r, s)
      BY <1>1, <2>4, <3>1, <3>2, <3>3
    <3>4. CASE ~Limited(r, s)
      <4>1. r.tab[k].count < RateMax
        BY <1>1, <1>3, <3>2, <3>4 DEF Limited
      <4>2. new[s] = acc[s] + 1
        BY <3>4
      <4> QED BY <1>1, <2>4, <3>1, <3>2, <4>1, <4>2
    <3> QED BY <3>3, <3>4
  <2> HIDE DEF c, k
  <2>8. \A i \in 1 .. L : c.tab[i].src = r.tab[i].src
    BY <2>1, <2>4, <2>6
  <2>9. \A i, j \in 1 .. L : c.tab[i].src = c.tab[j].src => i = j
    BY <2>8 DEF Tally
  <2>10. \A i \in 1 .. L : c.tab[i].src # n
    BY <2>8 DEF Tally
  <2>11. \A x \in Node : new[x] <= RateMax
    BY <1>0, <2>7
  <2>12. \A i \in 1 .. L : i > c.aged => new[c.tab[i].src] <= c.tab[i].count
    <3>1. ASSUME NEW i \in 1 .. L, i > c.aged, i # k
          PROVE  new[c.tab[i].src] <= c.tab[i].count
      <4>1. r.tab[i].src # s
        BY <2>1, <3>1 DEF Tally
      <4> QED BY <1>1, <1>2, <2>5, <2>6, <3>1, <4>1 DEF Tally
    <3> QED BY <2>4, <2>6, <2>7, <3>1
  <2>13. \A x \in Node : (\A i \in 1 .. L : c.tab[i].src = x => i <= c.aged) => new[x] = 0
    <3>1. ASSUME NEW x \in Node, \A i \in 1 .. L : c.tab[i].src = x => i <= c.aged
          PROVE  new[x] = 0
      <4>1. x # s
        BY <1>1, <2>1, <2>5, <2>8, <3>1
      <4> QED BY <1>2, <2>5, <2>8, <3>1, <4>1 DEF Tally
    <3> QED BY <3>1
  <2> QED BY <2>6, <2>9, <2>10, <2>11, <2>12, <2>13 DEF Tally, c
<1>4. ASSUME ~Fresh(r, s) PROVE new[s] = 1
  <2>1. \A i \in 1 .. L : r.tab[i].src = s => i <= r.aged
    <3>1. ASSUME NEW i \in 1 .. L, r.tab[i].src = s PROVE i <= r.aged
      <4>1. Tracked(r, s)
        BY <1>1, <3>1 DEF Tracked
      <4>2. k \in 1 .. L /\ r.tab[k].src = s
        BY <4>1, SlotType DEF RateOK
      <4>3. k = i
        BY <3>1, <4>2 DEF Tally
      <4> QED BY <1>1, <1>4, <4>1, <4>3 DEF Fresh
    <3> QED BY <3>1
  <2>2. acc[s] = 0
    BY <2>1 DEF Tally
  <2>3. new = [acc EXCEPT ![s] = @ + 1]
    BY <1>4 DEF Limited
  <2> QED BY <2>2, <2>3
<1>5. CASE ~Fresh(r, s) /\ Tracked(r, s)
  <2>1. k \in 1 .. L /\ r.tab[k].src = s /\ k <= r.aged
    BY <1>1, <1>5, SlotType DEF Fresh, RateOK
  <2> DEFINE rest == RemoveAt(r.tab, k)
  <2>2. rest \in Seq(RateEntry) /\ Len(rest) = L - 1
    BY <1>1, <2>1, RemoveAtType
  <2>3. \A j \in 1 .. L - 1 : rest[j] = IF j < k THEN r.tab[j] ELSE r.tab[j + 1]
    BY <1>1, <2>1, RemoveAtElements
  <2>4. c.tab = Append(rest, e) /\ c.aged = r.aged - 1
    BY <1>1, <1>5, <2>1 DEF Count
  <2> HIDE DEF rest, c, k, e, L
  <2>5. /\ Len(c.tab) = L /\ c.tab[L] = e
        /\ \A j \in 1 .. L - 1 : c.tab[j] = IF j < k THEN r.tab[j] ELSE r.tab[j + 1]
    BY <1>1, <2>1, <2>2, <2>3, <2>4
  <2>6. e.src = s /\ e.count = 1 /\ new[s] = 1
    BY <1>4, <1>5 DEF e
  <2>7. \A j \in 1 .. L : r.tab[j].src = s => j = k
    BY <2>1 DEF Tally, L
  <2> DEFINE old(j) == IF j < k THEN j ELSE j + 1
  <2>a. L \in Nat /\ k \in Nat
    BY <1>1, <2>1 DEF L
  <2>b. \A j \in 1 .. L - 1 : old(j) \in 1 .. L /\ old(j) # k /\ c.tab[j] = r.tab[old(j)]
    BY <2>a, <2>1, <2>5
  <2>c. \A i, j \in 1 .. L - 1 : old(i) = old(j) => i = j
    BY <2>a
  <2>d. \A i \in 1 .. L : i = L \/ i \in 1 .. L - 1
    BY <2>a
  <2> HIDE DEF old
  <2>8. \A j \in 1 .. L - 1 : c.tab[j].src # s
    BY <2>b, <2>7
  <2>9. \A i, j \in 1 .. L : c.tab[i].src = c.tab[j].src => i = j
    <3>1. \A i, j \in 1 .. L : r.tab[i].src = r.tab[j].src => i = j
      BY DEF Tally, L
    <3>2. \A i, j \in 1 .. L - 1 : c.tab[i].src = c.tab[j].src => i = j
      BY <2>b, <2>c, <3>1
    <3> QED BY <2>d, <2>5, <2>6, <2>8, <3>2
  <2>10. \A i \in 1 .. L : c.tab[i].src # n
    <3>1. \A i \in 1 .. L : r.tab[i].src # n
      BY DEF Tally, L
    <3>2. c.tab[L].src # n
      BY <2>5, <2>6
    <3>3. \A i \in 1 .. L - 1 : c.tab[i].src # n
      BY <2>b, <3>1
    <3> QED BY <2>d, <3>2, <3>3
  <2>11. \A x \in Node : new[x] <= RateMax
    BY <1>0, <1>9, <2>6
  <2>12. \A i \in 1 .. L : i > c.aged => new[c.tab[i].src] <= c.tab[i].count
    <3>1. ASSUME NEW i \in 1 .. L - 1, i > c.aged
          PROVE  new[c.tab[i].src] <= c.tab[i].count
      <4>1. c.tab[i] = r.tab[i + 1] /\ i + 1 \in 1 .. L /\ i + 1 > r.aged
        BY <1>1, <2>1, <2>4, <2>5, <3>1
      <4>2. acc[r.tab[i + 1].src] <= r.tab[i + 1].count
        BY <4>1 DEF Tally, L
      <4>3. c.tab[i].src # s
        BY <2>8
      <4>4. r.tab[i + 1].src \in Node
        BY <1>b, <4>1
      <4>5. new[r.tab[i + 1].src] = acc[r.tab[i + 1].src]
        BY <1>2, <4>1, <4>3, <4>4
      <4> QED BY <4>1, <4>2, <4>5
    <3>2. new[c.tab[L].src] <= c.tab[L].count
      BY <2>5, <2>6
    <3> QED BY <2>d, <3>1, <3>2
  <2>13. \A x \in Node : (\A i \in 1 .. L : c.tab[i].src = x => i <= c.aged) => new[x] = 0
    <3>1. ASSUME NEW x \in Node, \A i \in 1 .. L : c.tab[i].src = x => i <= c.aged
          PROVE  new[x] = 0
      <4>1. x # s
        BY <1>1, <2>1, <2>4, <2>5, <2>6, <3>1
      <4>2. ASSUME NEW i \in 1 .. L, r.tab[i].src = x PROVE i <= r.aged
        <5>1. i # k
          BY <2>1, <4>1, <4>2
        <5>2. CASE i < k
          BY <1>1, <2>1, <5>2
        <5>3. CASE i > k
          <6>1. i - 1 \in 1 .. L - 1 /\ ~(i - 1 < k) /\ (i - 1) + 1 = i
            BY <1>1, <2>1, <5>3
          <6>2. c.tab[i - 1] = r.tab[i]
            BY <2>5, <6>1
          <6>3. i - 1 \in 1 .. L /\ c.tab[i - 1].src = x
            BY <2>a, <4>2, <6>1, <6>2
          <6>4. i - 1 <= c.aged
            BY <3>1, <6>3
          <6> QED BY <1>1, <2>1, <2>4, <2>a, <5>3, <6>4
        <5> QED BY <1>1, <2>1, <5>1, <5>2, <5>3
      <4>3. acc[x] = 0
        BY <4>2 DEF Tally, L
      <4> QED BY <1>2, <4>1, <4>3
    <3> QED BY <3>1
  <2> QED BY <2>5, <2>9, <2>10, <2>11, <2>12, <2>13 DEF Tally, c
<1>6. CASE ~Tracked(r, s)
  <2>1. Len(r.tab) < RateSize
    BY <1>6, FreeSlot
  <2>2. c.tab = Append(r.tab, e) /\ c.aged = r.aged
    BY <1>6, <2>1 DEF Count, Fresh, Push
  <2> HIDE DEF c, e, L
  <2>3. /\ Len(c.tab) = L + 1 /\ c.tab[L + 1] = e
        /\ \A j \in 1 .. L : c.tab[j] = r.tab[j]
    BY <1>1, <2>2 DEF L
  <2>4. e.src = s /\ e.count = 1 /\ new[s] = 1
    BY <1>4, <1>6 DEF e, Fresh
  <2>5. \A j \in 1 .. L : r.tab[j].src # s
    BY <1>1, <1>6 DEF Tracked, L
  <2>a. L \in Nat /\ \A i \in 1 .. L + 1 : i = L + 1 \/ i \in 1 .. L
    BY <1>1 DEF L
  <2>6. \A i, j \in 1 .. L + 1 : c.tab[i].src = c.tab[j].src => i = j
    <3>1. \A i, j \in 1 .. L : r.tab[i].src = r.tab[j].src => i = j
      BY DEF Tally, L
    <3> QED BY <2>a, <2>3, <2>4, <2>5, <3>1
  <2>7. \A i \in 1 .. L + 1 : c.tab[i].src # n
    <3>1. \A i \in 1 .. L : r.tab[i].src # n
      BY DEF Tally, L
    <3> QED BY <2>a, <2>3, <2>4, <3>1
  <2>8. \A x \in Node : new[x] <= RateMax
    BY <1>0, <1>9, <2>4
  <2>9. \A i \in 1 .. L + 1 : i > c.aged => new[c.tab[i].src] <= c.tab[i].count
    <3>1. \A i \in 1 .. L : i > r.aged => acc[r.tab[i].src] <= r.tab[i].count
      BY DEF Tally, L
    <3>2. \A i \in 1 .. L : i > c.aged => new[c.tab[i].src] <= c.tab[i].count
      BY <1>1, <1>2, <2>2, <2>3, <2>5, <3>1
    <3>3. new[c.tab[L + 1].src] <= c.tab[L + 1].count
      BY <2>3, <2>4
    <3> QED BY <2>a, <3>2, <3>3
  <2>10. \A x \in Node : (\A i \in 1 .. L + 1 : c.tab[i].src = x => i <= c.aged) => new[x] = 0
    <3>1. ASSUME NEW x \in Node, \A i \in 1 .. L + 1 : c.tab[i].src = x => i <= c.aged
          PROVE  new[x] = 0
      <4>1. x # s
        BY <1>1, <2>2, <2>3, <2>4, <3>1
      <4>2. \A i \in 1 .. L : r.tab[i].src = x => i <= r.aged
        BY <1>1, <2>2, <2>3, <3>1
      <4>3. acc[x] = 0
        BY <4>2 DEF Tally, L
      <4> QED BY <1>2, <4>1, <4>3
    <3> QED BY <3>1
  <2> QED BY <2>3, <2>6, <2>7, <2>8, <2>9, <2>10 DEF Tally, c
<1> QED BY <1>3, <1>5, <1>6

\* A frame that is judged changes the tally of the node that judges it.
LEMMA TInvJudged ==
  ASSUME Spacious, TypeOK, TInv, NEW n \in Node, Arrived(n),
         rate' = [rate EXCEPT ![n] = Count(@, rxbuf[n].src)],
         \/ Limited(rate[n], rxbuf[n].src) /\ accepted' = accepted
         \/ ~Limited(rate[n], rxbuf[n].src) /\ accepted' = [accepted EXCEPT ![n][rxbuf[n].src] = @ + 1]
  PROVE  TInv'
<1> DEFINE s == rxbuf[n].src
<1>1. s \in Node /\ s # n
  BY ArrivedType DEF Arrived
<1>2. RateOK(rate[n]) /\ accepted[n] \in [Node -> Nat] /\ Tally(rate[n], accepted[n], n)
  BY DEF TypeOK, RateOK, TInv
<1>3. rate'[n] = Count(rate[n], s) /\ \A p \in Node : p # n => rate'[p] = rate[p]
  BY DEF TypeOK
<1>4. \A p \in Node : p # n => accepted'[p] = accepted[p]
  BY DEF TypeOK
<1>5. /\ accepted'[n] \in [Node -> Nat]
      /\ \/ Limited(rate[n], s) /\ accepted'[n] = accepted[n]
         \/ ~Limited(rate[n], s) /\ accepted'[n] = [accepted[n] EXCEPT ![s] = @ + 1]
  <2>1. accepted[n] \in [Node -> Nat] /\ accepted \in [Node -> [Node -> Nat]]
    BY DEF TypeOK
  <2>2. CASE Limited(rate[n], s) /\ accepted' = accepted
    BY <2>1, <2>2
  <2>3. CASE ~Limited(rate[n], s) /\ accepted' = [accepted EXCEPT ![n][s] = @ + 1]
    <3> DEFINE more == [accepted[n] EXCEPT ![s] = @ + 1]
    <3>1. accepted' = [accepted EXCEPT ![n] = more]
      BY <2>3
    <3>2. more \in [Node -> Nat]
      BY <1>1, <2>1
    <3>3. accepted'[n] = more
      <4> HIDE DEF more
      <4> QED BY <2>1, <3>1
    <3> QED BY <2>3, <3>2, <3>3
  <2> QED BY <2>2, <2>3
<1> HIDE DEF s
<1>6. Tally(Count(rate[n], s), accepted'[n], n)
  BY <1>1, <1>2, <1>5, CountTally
<1>7. \A p \in Node : Tally(rate'[p], accepted'[p], p)
  BY <1>3, <1>4, <1>6 DEF TInv
<1> QED BY <1>7 DEF TInv, Tally

\* A window that is over takes its count with it.
LEMMA TInvWindow ==
  ASSUME TypeOK, TInv, NEW n \in Node, WindowPasses(n)
  PROVE  TInv'
<1> DEFINE r == rate[n]
           k == r.aged + 1
           x == r.tab[k].src
<1>1. /\ r \in RateTable /\ r.aged \in Nat /\ Len(r.tab) \in Nat /\ k \in 1 .. Len(r.tab)
      /\ accepted[n] \in [Node -> Nat]
  BY DEF TypeOK, WindowPasses, RateTable
<1>2. x \in Node
  BY <1>1, EntryType
<1>3. rate'[n].tab = r.tab /\ rate'[n].aged = k /\ \A p \in Node : p # n => rate'[p] = rate[p]
  BY <1>1 DEF TypeOK, WindowPasses, RateTable
<1>4. /\ accepted'[n][x] = 0 /\ \A s \in Node : s # x => accepted'[n][s] = accepted[n][s]
      /\ \A p \in Node : p # n => accepted'[p] = accepted[p]
  BY <1>1, <1>2 DEF TypeOK, WindowPasses
<1>5. Tally(r, accepted[n], n)
  BY DEF TInv
<1>6. \A i \in 1 .. Len(r.tab) : r.tab[i].src \in Node /\ r.tab[i].count \in Nat
  BY <1>1, EntryType
<1>7. \A i \in 1 .. Len(r.tab) : r.tab[i].src = x => i = k
  BY <1>1, <1>5 DEF Tally
<1>8. k = r.aged + 1 /\ RateMax \in Nat
  BY SizeAssumption
<1> HIDE DEF r, k, x
<1>9. Tally(rate'[n], accepted'[n], n)
  <2>1. \A s \in Node : accepted'[n][s] <= RateMax
    BY <1>4, <1>5, <1>8 DEF Tally
  <2>2. \A i \in 1 .. Len(r.tab) : i > k => accepted'[n][r.tab[i].src] <= r.tab[i].count
    <3>1. ASSUME NEW i \in 1 .. Len(r.tab), i > k
          PROVE  accepted'[n][r.tab[i].src] <= r.tab[i].count
      <4>1. i > r.aged /\ i # k
        BY <1>1, <1>8, <3>1
      <4>2. r.tab[i].src \in Node /\ r.tab[i].src # x
        BY <1>6, <1>7, <4>1
      <4>3. accepted[n][r.tab[i].src] <= r.tab[i].count
        BY <1>5, <4>1 DEF Tally
      <4> QED BY <1>4, <4>2, <4>3
    <3> QED BY <3>1
  <2>3. \A s \in Node : (\A i \in 1 .. Len(r.tab) : r.tab[i].src = s => i <= k)
                           => accepted'[n][s] = 0
    <3>1. ASSUME NEW s \in Node, s # x, \A i \in 1 .. Len(r.tab) : r.tab[i].src = s => i <= k
          PROVE  accepted'[n][s] = 0
      <4>1. r.tab[k].src = x
        BY DEF x
      <4>2. \A i \in 1 .. Len(r.tab) : r.tab[i].src = s => i <= r.aged
        BY <1>1, <1>8, <3>1, <4>1
      <4>3. accepted[n][s] = 0
        BY <1>5, <4>2 DEF Tally
      <4> QED BY <1>4, <3>1, <4>3
    <3> QED BY <1>4, <3>1
  <2> QED BY <1>3, <1>5, <2>1, <2>2, <2>3 DEF Tally
<1>10. \A p \in Node : Tally(rate'[p], accepted'[p], p)
  BY <1>3, <1>4, <1>9 DEF TInv
<1> QED BY <1>10 DEF TInv, Tally

\* A node without a rate table has let nothing through.
LEMMA EmptyTally ==
  ASSUME NEW acc, \A s \in Node : acc[s] = 0, NEW n
  PROVE  Tally(EmptyRate, acc, n)
  BY SizeAssumption DEF Tally, EmptyRate

LEMMA TInvForget ==
  ASSUME TypeOK, TInv, NEW n \in Node, Forget(n)
  PROVE  TInv'
<1>1. /\ rate'[n] = EmptyRate /\ \A s \in Node : accepted'[n][s] = 0
      /\ \A p \in Node : p # n => rate'[p] = rate[p] /\ accepted'[p] = accepted[p]
  BY DEF Forget, TypeOK
<1>2. Tally(rate'[n], accepted'[n], n)
  BY <1>1, EmptyTally
<1>3. \A p \in Node : Tally(rate'[p], accepted'[p], p)
  BY <1>1, <1>2 DEF TInv
<1> QED BY <1>3 DEF TInv, Tally

LEMMA TInvNext == Spacious /\ TypeOK /\ TInv /\ [Next]_vars => TInv'
<1> SUFFICES ASSUME Spacious, TypeOK, TInv, [Next]_vars PROVE TInv'
  OBVIOUS
<1> USE DEF ram, nvs, history
<1>1. CASE UNCHANGED <<rate, accepted>>
  BY <1>1 DEF TInv, Tally
<1>2. ASSUME NEW n \in Node, Accept(n) PROVE TInv'
  BY <1>2, TInvJudged DEF Accept
<1>3. ASSUME NEW n \in Node, RxLimited(n) PROVE TInv'
  BY <1>3, TInvJudged DEF RxLimited
<1>4. ASSUME NEW n \in Node,
             \/ RxBeacon(n) \/ RxKeyOverheard(n) \/ RxKeyRequest(n) \/ RxKeyResponse(n)
             \/ RxDuplicate(n) \/ RxTransit(n) \/ RxDeliver(n) \/ RxUnopened(n)
      PROVE  Accept(n)
  BY <1>4 DEF RxBeacon, RxKeyOverheard, RxKeyRequest, RxKeyResponse, RxDuplicate, RxTransit,
              RxDeliver, RxUnopened, AcceptData
<1>5. ASSUME NEW n \in Node, Reboot(n) \/ RebootBeforeCallback(n) PROVE TInv'
  BY <1>5, TInvForget DEF Reboot, RebootBeforeCallback
<1>6. ASSUME NEW n \in Node, WindowPasses(n) PROVE TInv'
  BY <1>6, TInvWindow
<1>7. ASSUME NEW n \in Node,
             \/ RxEcho(n) \/ SetRxCallback(n) \/ SendBeacon(n)
             \/ \E d \in Node : SendKeyRequest(n, d)
             \/ \E d \in Node, m \in MsgId : SendData(n, d, m)
      PROVE  UNCHANGED <<rate, accepted>>
  BY <1>7 DEF RxEcho, SetRxCallback, SendBeacon, SendKeyRequest, SendData
<1>8. CASE UNCHANGED vars
  BY <1>1, <1>8 DEF vars
<1> QED BY <1>1, <1>2, <1>3, <1>4, <1>5, <1>6, <1>7, <1>8 DEF Next, OnRadioRx

\* With a slot for every originator, a node lets at most RateMax frames of one of them
\* through in a window, in every network (mesh.c, rate_limited).
THEOREM RateBounded == Spacious /\ Spec => []RateBound
<1> SUFFICES ASSUME Spacious PROVE Spec => []RateBound
  OBVIOUS
<1>1. Init => TInv
  BY EmptyTally DEF Init, TInv
<1>2. Init /\ [][Next]_vars => []TypeOK
  BY TypeInit, TypeNext, PTL
<1>3. TypeOK /\ TInv /\ [Next]_vars => TInv'
  BY TInvNext
<1>4. TInv => RateBound
  BY DEF TInv, Tally, RateBound
<1> QED BY <1>1, <1>2, <1>3, <1>4, PTL DEF Spec

-----------------------------------------------------------------------------
(* One slot for every originator. *)

\* The entries of a table have different keys; key[x] is the key of entry x.
Apart(key, s) == \A i, j \in 1 .. Len(s) : key[s[i]] = key[s[j]] => i = j

\* An entry that moves to the end of its table, with the key it had, doubles no key.
LEMMA ApartRefreshed ==
  ASSUME NEW S, NEW key, NEW s \in Seq(S), NEW k \in 1 .. Len(s), NEW e \in S,
         Apart(key, s), key[s[k]] = key[e]
  PROVE  Apart(key, Append(RemoveAt(s, k), e))
<1> DEFINE L == Len(s)
           rest == RemoveAt(s, k)
           t == Append(rest, e)
<1>1. L \in Nat /\ L >= 1
  OBVIOUS
<1>2. rest \in Seq(S) /\ Len(rest) = L - 1
  BY RemoveAtType
<1>3. \A j \in 1 .. L - 1 : rest[j] = IF j < k THEN s[j] ELSE s[j + 1]
  BY RemoveAtElements
<1> HIDE DEF rest
<1>4. /\ Len(t) = L /\ t[L] = e
      /\ \A j \in 1 .. L - 1 : t[j] = rest[j]
  BY <1>1, <1>2
<1> DEFINE from(j) == IF j < k THEN j ELSE IF j < L THEN j + 1 ELSE k
<1>5. ASSUME NEW j \in 1 .. L PROVE from(j) \in 1 .. L /\ key[t[j]] = key[s[from(j)]]
  <2>0. k \in 1 .. L
    OBVIOUS
  <2> HIDE DEF t, L
  <2>1. CASE j = L
    <3>1. from(j) = k
      BY <1>1, <2>0, <2>1
    <3> QED BY <1>4, <2>0, <2>1, <3>1
  <2>2. CASE j # L /\ j < k
    <3>1. from(j) = j /\ j \in 1 .. L - 1
      BY <1>1, <2>2
    <3> QED BY <1>3, <1>4, <2>2, <3>1
  <2>3. CASE j # L /\ ~(j < k)
    <3>1. from(j) = j + 1 /\ j \in 1 .. L - 1 /\ j + 1 \in 1 .. L
      BY <1>1, <2>3
    <3> QED BY <1>3, <1>4, <2>3, <3>1
  <2> QED BY <2>1, <2>2, <2>3
<1>6. \A i, j \in 1 .. L : from(i) = from(j) => i = j
  BY <1>1
<1> HIDE DEF from, t, L
<1>7. \A i, j \in 1 .. L : key[s[i]] = key[s[j]] => i = j
  BY DEF Apart, L
<1>8. \A i, j \in 1 .. L : key[t[i]] = key[t[j]] => i = j
  BY <1>5, <1>6, <1>7
<1> QED BY <1>4, <1>8 DEF Apart, t, rest

\* A new entry whose key is not in the table doubles none, with or without the eviction of
\* the oldest entry.
LEMMA ApartPushed ==
  ASSUME NEW S, NEW key, NEW s \in Seq(S), NEW size \in Nat \ {0}, Len(s) <= size,
         NEW e \in S, Apart(key, s), \A i \in 1 .. Len(s) : key[s[i]] # key[e]
  PROVE  Apart(key, Push(s, size, e))
<1> DEFINE t == Push(s, size, e)
           L == Len(s)
<1>0. L \in Nat
  OBVIOUS
<1>1. \A i, j \in 1 .. L : key[s[i]] = key[s[j]] => i = j
  BY DEF Apart
<1>2. CASE L < size
  <2>1. t = Append(s, e)
    BY <1>2 DEF Push
  <2>2. /\ Len(t) = L + 1 /\ t[L + 1] = e
        /\ \A i \in 1 .. L : t[i] = s[i]
    BY <2>1
  <2>3. \A i \in 1 .. L + 1 : i = L + 1 \/ i \in 1 .. L
    BY <1>0
  <2> HIDE DEF t, L
  <2>4. \A i, j \in 1 .. L + 1 : key[t[i]] = key[t[j]] => i = j
    BY <1>1, <2>2, <2>3 DEF L
  <2> QED BY <2>2, <2>4 DEF Apart, t
<1>3. CASE ~(L < size)
  <2>1. t = Append(Tail(s), e)
    BY <1>3 DEF Push
  <2>2. L >= 1 /\ s # << >>
    BY <1>0, <1>3
  <2>3. /\ Tail(s) \in Seq(S) /\ Len(Tail(s)) = L - 1
        /\ \A i \in 1 .. L - 1 : Tail(s)[i] = s[i + 1]
    BY <2>2
  <2>4. /\ Len(t) = L /\ t[L] = e
        /\ \A i \in 1 .. L - 1 : t[i] = s[i + 1]
    BY <1>0, <2>1, <2>2, <2>3
  <2>5. \A i \in 1 .. L : i = L \/ (i \in 1 .. L - 1 /\ i + 1 \in 1 .. L)
    BY <1>0
  <2>a. \A i \in 1 .. L : key[s[i]] # key[e]
    OBVIOUS
  <2> HIDE DEF t, L
  <2>6. \A i, j \in 1 .. L - 1 : i + 1 = j + 1 => i = j
    BY <1>0
  <2>7. \A i, j \in 1 .. L : key[t[i]] = key[t[j]] => i = j
    BY <1>1, <2>4, <2>5, <2>6, <2>a
  <2> QED BY <2>4, <2>7 DEF Apart, t
<1> QED BY <1>2, <1>3

Itself == [s \in Node |-> s]
Source == [x \in RateEntry |-> x.src]

\* presence_touch doubles no originator.
LEMMA TouchApart ==
  ASSUME NEW p \in Seq(Node), Len(p) <= PresenceSize, NEW s \in Node, Apart(Itself, p)
  PROVE  Apart(Itself, Touch(p, s))
<1>0. PresenceSize \in Nat \ {0} /\ \A i \in 1 .. Len(p) : p[i] \in Node /\ Itself[p[i]] = p[i]
  BY SizeAssumption DEF Itself
<1>1. CASE s \in ToSet(p)
  <2> DEFINE k == PresenceSlot(p, s)
  <2>1. k \in 1 .. Len(p) /\ p[k] = s
    BY <1>1 DEF ToSet, PresenceSlot
  <2>2. Touch(p, s) = Append(RemoveAt(p, k), s)
    BY <1>1 DEF Touch
  <2> HIDE DEF k
  <2> QED BY <2>1, <2>2, ApartRefreshed
<1>2. CASE s \notin ToSet(p)
  <2>1. Touch(p, s) = Push(p, PresenceSize, s)
    BY <1>2 DEF Touch
  <2>2. \A i \in 1 .. Len(p) : Itself[p[i]] # Itself[s]
    BY <1>0, <1>2 DEF ToSet, Itself
  <2> QED BY <1>0, <2>1, <2>2, ApartPushed
<1> QED BY <1>1, <1>2

\* rate_limited doubles no originator, whichever of its ways it takes.
LEMMA CountApart ==
  ASSUME NEW r, RateOK(r), NEW s \in Node, Apart(Source, r.tab)
  PROVE  Apart(Source, Count(r, s).tab)
<1> DEFINE tab == r.tab
           k == Slot(r, s)
           e == [src |-> s, count |-> 1]
<1>1. tab \in Seq(RateEntry) /\ Len(tab) <= RateSize /\ r = [tab |-> tab, aged |-> r.aged]
  BY DEF RateOK, RateTable
<1>2. e \in RateEntry /\ Source[e] = s /\ RateSize \in Nat \ {0}
  BY SizeAssumption DEF RateEntry, Source
<1>3. \A i \in 1 .. Len(tab) : tab[i] \in RateEntry /\ Source[tab[i]] = tab[i].src
  BY <1>1 DEF Source
<1>4. ASSUME Tracked(r, s) PROVE k \in 1 .. Len(tab) /\ tab[k].src = s
  BY <1>4, SlotType DEF RateOK
<1>5. CASE Fresh(r, s)
  <2> DEFINE b == [tab[k] EXCEPT !.count = IF @ > RateMax THEN @ ELSE @ + 1]
  <2>1. k \in 1 .. Len(tab) /\ tab[k].src = s
    BY <1>4, <1>5 DEF Fresh
  <2>2. tab[k] \in RateEntry
    BY <1>3, <2>1
  <2>3. b \in RateEntry /\ b.src = s
    <3>1. PICK c \in 1 .. RateMax + 1 : tab[k] = [src |-> s, count |-> c]
      BY <2>1, <2>2 DEF RateEntry
    <3> HIDE DEF tab, k
    <3>2. b = [src |-> s, count |-> IF c > RateMax THEN c ELSE c + 1]
      BY <3>1
    <3>3. (IF c > RateMax THEN c ELSE c + 1) \in 1 .. RateMax + 1
      BY SizeAssumption
    <3> HIDE DEF b
    <3> QED BY <3>2, <3>3 DEF RateEntry
  <2>4. Count(r, s) = [r EXCEPT !.tab = [tab EXCEPT ![k] = b]]
    BY <1>5 DEF Count
  <2> HIDE DEF b, k, e
  <2>5. Count(r, s).tab = [tab EXCEPT ![k] = b]
    BY <1>1, <2>4
  <2> HIDE DEF tab
  <2>6. /\ Len(Count(r, s).tab) = Len(tab)
        /\ Count(r, s).tab[k] = b
        /\ \A i \in 1 .. Len(tab) : i # k => Count(r, s).tab[i] = tab[i]
    BY <1>1, <2>1, <2>5
  <2>7. Source[b] = s /\ Source[tab[k]] = s
    BY <1>3, <2>1, <2>3 DEF Source
  <2>8. \A i \in 1 .. Len(tab) : Source[Count(r, s).tab[i]] = Source[tab[i]]
    BY <2>6, <2>7
  <2> QED BY <2>6, <2>8 DEF Apart, tab
<1>6. CASE Tracked(r, s) /\ ~Fresh(r, s)
  <2>1. k \in 1 .. Len(tab) /\ tab[k].src = s
    BY <1>4, <1>6
  <2>2. Source[tab[k]] = Source[e]
    BY <1>2, <1>3, <2>1
  <2>3. Count(r, s).tab = Append(RemoveAt(tab, k), e)
    BY <1>6 DEF Count
  <2> HIDE DEF k, e
  <2> QED BY <1>1, <1>2, <2>1, <2>2, <2>3, ApartRefreshed
<1>7. CASE ~Tracked(r, s)
  <2>1. \A i \in 1 .. Len(tab) : Source[tab[i]] # Source[e]
    BY <1>1, <1>2, <1>3, <1>7 DEF Tracked
  <2>2. Count(r, s).tab = Push(tab, RateSize, e)
    BY <1>7 DEF Count, Fresh
  <2> HIDE DEF e
  <2> QED BY <1>1, <1>2, <2>1, <2>2, ApartPushed
<1> QED BY <1>5, <1>6, <1>7 DEF Fresh

AInv == \A p \in Node : Apart(Itself, presence[p]) /\ Apart(Source, rate[p].tab)

\* A frame that is judged keeps the table of limits without doubles.
LEMMA AInvJudged ==
  ASSUME TypeOK, AInv, NEW n \in Node, Arrived(n),
         rate' = [rate EXCEPT ![n] = Count(@, rxbuf[n].src)]
  PROVE  \A p \in Node : Apart(Source, rate'[p].tab)
<1>1. rxbuf[n].src \in Node
  BY ArrivedType DEF Arrived
<1>2. RateOK(rate[n]) /\ Apart(Source, rate[n].tab)
  BY DEF TypeOK, RateOK, AInv
<1>3. rate'[n] = Count(rate[n], rxbuf[n].src) /\ \A p \in Node : p # n => rate'[p] = rate[p]
  BY DEF TypeOK
<1>4. Apart(Source, rate'[n].tab)
  BY <1>1, <1>2, <1>3, CountApart
<1> QED BY <1>3, <1>4 DEF AInv

\* A frame that is let through keeps both tables without doubles.
LEMMA AInvAccept ==
  ASSUME TypeOK, AInv, NEW n \in Node, Accept(n)
  PROVE  AInv'
<1>1. \A p \in Node : Apart(Source, rate'[p].tab)
  BY AInvJudged DEF Accept
<1>2. rxbuf[n].src \in Node
  BY ArrivedType DEF Accept, Arrived
<1>3. presence[n] \in Seq(Node) /\ Len(presence[n]) <= PresenceSize
      /\ Apart(Itself, presence[n])
  BY DEF TypeOK, AInv
<1>4. /\ presence'[n] = Touch(presence[n], rxbuf[n].src)
      /\ \A p \in Node : p # n => presence'[p] = presence[p]
  BY DEF Accept, TypeOK
<1>5. Apart(Itself, presence'[n])
  BY <1>2, <1>3, <1>4, TouchApart
<1>6. \A p \in Node : Apart(Itself, presence'[p])
  BY <1>4, <1>5 DEF AInv
<1> QED BY <1>1, <1>6 DEF AInv, Apart

\* A reboot leaves empty tables.
LEMMA AInvForget ==
  ASSUME TypeOK, AInv, NEW n \in Node, Forget(n)
  PROVE  AInv'
<1>1. /\ presence'[n] = << >> /\ rate'[n].tab = << >>
      /\ \A p \in Node : p # n => presence'[p] = presence[p] /\ rate'[p] = rate[p]
  BY DEF Forget, TypeOK, EmptyRate
<1>2. Apart(Itself, << >>) /\ Apart(Source, << >>)
  BY DEF Apart
<1>3. \A p \in Node : Apart(Itself, presence'[p]) /\ Apart(Source, rate'[p].tab)
  BY <1>1, <1>2 DEF AInv
<1> QED BY <1>3 DEF AInv, Apart

\* The end of a window only moves the mark in the table.
LEMMA AInvWindow ==
  ASSUME TypeOK, AInv, NEW n \in Node, WindowPasses(n)
  PROVE  AInv'
<1>1. rate[n] \in RateTable
  BY DEF TypeOK
<1>2. \A p \in Node : rate'[p].tab = rate[p].tab
  BY <1>1 DEF TypeOK, WindowPasses, RateTable
<1>3. \A p \in Node : Apart(Itself, presence'[p]) /\ Apart(Source, rate'[p].tab)
  BY <1>2 DEF AInv, WindowPasses
<1> QED BY <1>3 DEF AInv, Apart

LEMMA AInvNext == TypeOK /\ AInv /\ [Next]_vars => AInv'
<1> SUFFICES ASSUME TypeOK, AInv, [Next]_vars PROVE AInv'
  OBVIOUS
<1> USE DEF ram, nvs, history
<1>1. CASE UNCHANGED <<presence, rate>>
  BY <1>1 DEF AInv, Apart
<1>2. ASSUME NEW n \in Node, Accept(n) PROVE AInv'
  BY <1>2, AInvAccept
<1>3. ASSUME NEW n \in Node, RxLimited(n) PROVE AInv'
  <2>1. \A p \in Node : Apart(Source, rate'[p].tab)
    BY <1>3, AInvJudged DEF RxLimited
  <2>2. \A p \in Node : Apart(Itself, presence'[p])
    BY <1>3 DEF RxLimited, AInv
  <2> QED BY <2>1, <2>2 DEF AInv, Apart
<1>4. ASSUME NEW n \in Node,
             \/ RxBeacon(n) \/ RxKeyOverheard(n) \/ RxKeyRequest(n) \/ RxKeyResponse(n)
             \/ RxDuplicate(n) \/ RxTransit(n) \/ RxDeliver(n) \/ RxUnopened(n)
      PROVE  Accept(n)
  BY <1>4 DEF RxBeacon, RxKeyOverheard, RxKeyRequest, RxKeyResponse, RxDuplicate, RxTransit,
              RxDeliver, RxUnopened, AcceptData
<1>5. ASSUME NEW n \in Node, Reboot(n) \/ RebootBeforeCallback(n) PROVE AInv'
  BY <1>5, AInvForget DEF Reboot, RebootBeforeCallback
<1>6. ASSUME NEW n \in Node, WindowPasses(n) PROVE AInv'
  BY <1>6, AInvWindow
<1>7. ASSUME NEW n \in Node,
             \/ RxEcho(n) \/ SetRxCallback(n) \/ SendBeacon(n)
             \/ \E d \in Node : SendKeyRequest(n, d)
             \/ \E d \in Node, m \in MsgId : SendData(n, d, m)
      PROVE  UNCHANGED <<presence, rate>>
  BY <1>7 DEF RxEcho, SetRxCallback, SendBeacon, SendKeyRequest, SendData
<1>8. CASE UNCHANGED vars
  BY <1>1, <1>8 DEF vars
<1> QED BY <1>1, <1>2, <1>3, <1>4, <1>5, <1>6, <1>7, <1>8 DEF Next, OnRadioRx

\* No originator has two entries in the presence table or in the rate table of a node, in
\* every network, for every size of the tables, with and without evictions (presence_touch,
\* rate_limited).
THEOREM OneSlotPerOriginator == Spec => []OneSlotEach
<1>1. Init => AInv
  BY DEF Init, AInv, Apart, EmptyRate
<1>2. Init /\ [][Next]_vars => []TypeOK
  BY TypeInit, TypeNext, PTL
<1>3. TypeOK /\ AInv /\ [Next]_vars => AInv'
  BY AInvNext
<1>4. TypeOK /\ AInv => OneSlotEach
  <2> SUFFICES ASSUME TypeOK, AInv, NEW n \in Node
               PROVE  /\ \A i, j \in DOMAIN presence[n] : presence[n][i] = presence[n][j] => i = j
                      /\ \A i, j \in DOMAIN rate[n].tab :
                           rate[n].tab[i].src = rate[n].tab[j].src => i = j
    BY DEF OneSlotEach
  <2>1. presence[n] \in Seq(Node) /\ rate[n].tab \in Seq(RateEntry)
    BY DEF TypeOK, RateTable
  <2>2. \A i \in 1 .. Len(presence[n]) : Itself[presence[n][i]] = presence[n][i]
    BY <2>1 DEF Itself
  <2>3. \A i \in 1 .. Len(rate[n].tab) : Source[rate[n].tab[i]] = rate[n].tab[i].src
    BY <2>1 DEF Source
  <2>4. Apart(Itself, presence[n]) /\ Apart(Source, rate[n].tab)
    BY DEF AInv
  <2>5. DOMAIN presence[n] = 1 .. Len(presence[n]) /\ DOMAIN rate[n].tab = 1 .. Len(rate[n].tab)
    BY <2>1
  <2> QED BY <2>2, <2>3, <2>4, <2>5 DEF Apart
<1> QED BY <1>1, <1>2, <1>3, <1>4, PTL DEF Spec
=============================================================================
