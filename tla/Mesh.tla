-------------------------------- MODULE Mesh --------------------------------
(***************************************************************************)
(* The routing layer of the firmware (components/mesh): a network of nodes *)
(* that flood DATA frames with a TTL, drop the identifiers they remember,  *)
(* limit the rate of every originator, keep a presence table, and exchange *)
(* key bundles with the nodes they hear.                                   *)
(*                                                                         *)
(* One received frame runs on_radio_rx to its end: it is called from the   *)
(* radio's interrupt task only, so it is one action here, split into one   *)
(* action per return path.  The radio is the half-duplex medium as the     *)
(* receiver sees it: a transmission reaches an arbitrary subset of the     *)
(* nodes in range, and a frame that arrives before the previous one was    *)
(* handled replaces it.  Clocks are the order of the table entries: every  *)
(* table lists its entries from the oldest to the newest, and the passing  *)
(* of a rate window is an event.  Module Dedup refines the memory of       *)
(* identifiers to the ring and its interleavings.                          *)
(***************************************************************************)
EXTENDS Naturals, SequencesExt

CONSTANTS
  Node,           \* the nodes
  MsgId,          \* identifiers of DATA frames (msg_id, 16 random bytes)
  Link,           \* Link[n]: the nodes that can hear n
  Paired,         \* Paired[n]: the peers n has a session with in NVS at first boot
  DefaultTtl,     \* PKT_TTL_DEFAULT, 8
  DedupSize,      \* DEDUP_CACHE_SIZE, 64
  PresenceSize,   \* PRESENCE_TABLE_SIZE, 32
  RateSize,       \* RATE_TABLE_SIZE, 32
  RateMax,        \* RATE_LIMIT_MAX_PER_WIN, 20
  MaxStimuli      \* bound on the events that come from outside the routing layer

ASSUME NodeAssumption == "nobody" \notin Node   \* see Unsent
ASSUME LinkAssumption ==
  /\ Link \in [Node -> SUBSET Node]
  /\ \A n \in Node : n \notin Link[n]
ASSUME PairedAssumption == Paired \in [Node -> SUBSET Node]
ASSUME SizeAssumption ==
  /\ {DefaultTtl, DedupSize, PresenceSize, RateSize, RateMax} \subseteq Nat \ {0}
  /\ MaxStimuli \in Nat

VARIABLES
  mode,       \* mode[n]: "listening" until app_main has set the callback, then "ready"
  seen,       \* seen[n]: the identifiers n remembers (dedup.c)
  presence,   \* presence[n]: the originators in the presence table (presence.c)
  rate,       \* rate[n]: the rate table; its first `aged` entries have windows that are over
  session,    \* session[n]: the peers n has a Signal session with (NVS)
  opened,     \* opened[n]: the messages whose key n's ratchet has used up (NVS)
  rxbuf,      \* rxbuf[n]: the frame waiting in n's radio
  stimuli,    \* how many events came from outside so far
  msg,        \* history: sender and addressee of every message
  inbox,      \* history: what was handed to the application callback of n
  aired,      \* history: how often n has put a message on the air since it booted (0, 1, 2 = more)
  accepted    \* history: frames of s that n let through in the current rate window of s

ram     == <<seen, presence, rate>>
nvs     == <<session, opened>>
history == <<msg, inbox, aired, accepted>>
vars    == <<mode, ram, nvs, rxbuf, stimuli, history>>

-----------------------------------------------------------------------------
(* Frames. *)

NoFrame == [kind |-> "none"]
Beacon(s) == [kind |-> "beacon", src |-> s]
KeyFrame(k, s, d) == [kind |-> k, src |-> s, dst |-> d]
Data(m, s, d, t) == [kind |-> "data", id |-> m, src |-> s, dst |-> d, ttl |-> t]

KeyKinds == {"request", "response"}

Frame ==
  [kind : {"beacon"}, src : Node]
    \cup [kind : KeyKinds, src : Node, dst : Node]
    \cup [kind : {"data"}, id : MsgId, src : Node, dst : Node, ttl : 1 .. DefaultTtl]

Unsent == [src |-> "nobody", dst |-> "nobody"]

-----------------------------------------------------------------------------
(* The tables: sequences of bounded length, oldest entry first. *)

Push(s, size, e) == IF Len(s) < size THEN Append(s, e) ELSE Append(Tail(s), e)

RememberAllButLast(s, m) == IF Len(s) < DedupSize - 1 THEN Append(s, m) ELSE s

\* dedup_check_and_mark on an identifier the node does not remember.
Remember(s, m) == Push(s, DedupSize, m)

PresenceSlot(p, s) == CHOOSE i \in DOMAIN p : p[i] = s

TouchAppends(p, s) == Push(p, PresenceSize, s)

\* presence_touch: refresh the entry or take a slot, the oldest one when all are in use.
Touch(p, s) ==
  IF s \in ToSet(p)
    THEN Append(RemoveAt(p, PresenceSlot(p, s)), s)
    ELSE Push(p, PresenceSize, s)

RateEntry == [src : Node, count : 1 .. RateMax + 1]
RateTable == [tab : Seq(RateEntry), aged : Nat]
EmptyRate == [tab |-> << >>, aged |-> 0]

Tracked(r, s) == \E i \in DOMAIN r.tab : r.tab[i].src = s
Slot(r, s) == CHOOSE i \in DOMAIN r.tab : r.tab[i].src = s
Fresh(r, s) == Tracked(r, s) /\ Slot(r, s) > r.aged

LimitedOffByOne(r, s) == Fresh(r, s) /\ r.tab[Slot(r, s)].count > RateMax

\* The verdict of rate_limited(s), which counts the frame it judges.
Limited(r, s) == Fresh(r, s) /\ r.tab[Slot(r, s)].count >= RateMax

\* The table after rate_limited(s).  A count past the limit is as good as any
\* other, so it stops at RateMax + 1.
Count(r, s) ==
  LET i == Slot(r, s)
      new == [src |-> s, count |-> 1]
      younger == IF r.aged = 0 THEN 0 ELSE r.aged - 1
  IN IF Fresh(r, s)
       THEN [r EXCEPT !.tab[i].count = IF @ > RateMax THEN @ ELSE @ + 1]
     ELSE IF Tracked(r, s)
       THEN [tab |-> Append(RemoveAt(r.tab, i), new), aged |-> younger]
     ELSE [tab |-> Push(r.tab, RateSize, new),
           aged |-> IF Len(r.tab) < RateSize THEN r.aged ELSE younger]

-----------------------------------------------------------------------------
(* The air. *)

\* n puts frame f on the air: each node that can hear n gets it or misses it.
Transmit(n, f, pending) ==
  \E heard \in SUBSET Link[n] :
    rxbuf' = [m \in Node |-> IF m \in heard THEN f ELSE pending[m]]

\* The pending frames once n has taken the one in its radio.
Taken(n) == [rxbuf EXCEPT ![n] = NoFrame]

\* The history of transmissions tells none, one and several apart.
OneMore(k) == IF k < 2 THEN k + 1 ELSE k

Stimulus == stimuli < MaxStimuli /\ stimuli' = stimuli + 1

-----------------------------------------------------------------------------
(* on_radio_rx: one action per way through it. *)

\* A frame of another node waits at n.
Arrived(n) == rxbuf[n] # NoFrame /\ rxbuf[n].src # n

\* It passes the rate limit, is counted, and its originator marked present.
Accept(n) ==
  LET s == rxbuf[n].src IN
  /\ Arrived(n)
  /\ ~Limited(rate[n], s)
  /\ rate' = [rate EXCEPT ![n] = Count(@, s)]
  /\ presence' = [presence EXCEPT ![n] = Touch(@, s)]
  /\ accepted' = [accepted EXCEPT ![n][s] = @ + 1]

\* It is a DATA frame whose identifier n does not remember.
AcceptData(n) ==
  /\ Accept(n)
  /\ rxbuf[n].kind = "data"
  /\ rxbuf[n].id \notin ToSet(seen[n])
  /\ seen' = [seen EXCEPT ![n] = Remember(@, rxbuf[n].id)]

RelayOnZero(n) ==
  LET f == rxbuf[n] IN
  IF f.ttl > 0
    THEN /\ Transmit(n, [f EXCEPT !.ttl = @ - 1], Taken(n))
         /\ aired' = [aired EXCEPT ![n][f.id] = OneMore(@)]
    ELSE /\ rxbuf' = Taken(n)
         /\ aired' = aired

RelayAtSameTtl(n) ==
  IF rxbuf[n].ttl > 1
    THEN /\ Transmit(n, rxbuf[n], Taken(n))
         /\ aired' = [aired EXCEPT ![n][rxbuf[n].id] = OneMore(@)]
    ELSE /\ rxbuf' = Taken(n)
         /\ aired' = aired

\* The frame goes on with one hop less to live, or ends here.
Relay(n) ==
  LET f == rxbuf[n] IN
  IF f.ttl > 1
    THEN /\ Transmit(n, [f EXCEPT !.ttl = @ - 1], Taken(n))
         /\ aired' = [aired EXCEPT ![n][f.id] = OneMore(@)]
    ELSE /\ rxbuf' = Taken(n)
         /\ aired' = aired

ForUs(n) == rxbuf[n].dst = n /\ mode[n] = "ready"

OpensAgain(n, f) == f.dst = n

\* libsignal opens a message with the key of its position in the ratchet, once.
Opens(n, f) == f.dst = n /\ f.id \notin opened[n]

RxEcho(n) ==
  /\ rxbuf[n] # NoFrame
  /\ rxbuf[n].src = n
  /\ rxbuf' = Taken(n)
  /\ UNCHANGED <<mode, ram, nvs, stimuli, history>>

RxLimited(n) ==
  /\ Arrived(n)
  /\ Limited(rate[n], rxbuf[n].src)
  /\ rate' = [rate EXCEPT ![n] = Count(@, rxbuf[n].src)]
  /\ rxbuf' = Taken(n)
  /\ UNCHANGED <<mode, seen, presence, nvs, stimuli, history>>

RxBeacon(n) ==
  /\ Accept(n)
  /\ rxbuf[n].kind = "beacon"
  /\ rxbuf' = Taken(n)
  /\ UNCHANGED <<mode, seen, nvs, stimuli, msg, inbox, aired>>

\* A key frame for somebody else, overheard.
RxKeyOverheard(n) ==
  /\ Accept(n)
  /\ rxbuf[n].kind \in KeyKinds
  /\ rxbuf[n].dst # n
  /\ rxbuf' = Taken(n)
  /\ UNCHANGED <<mode, seen, nvs, stimuli, msg, inbox, aired>>

\* The answer may be missing (no bundle to give): then nobody hears it.
RxKeyRequest(n) ==
  /\ Accept(n)
  /\ rxbuf[n].kind = "request"
  /\ rxbuf[n].dst = n
  /\ Transmit(n, KeyFrame("response", n, rxbuf[n].src), Taken(n))
  /\ UNCHANGED <<mode, seen, nvs, stimuli, msg, inbox, aired>>

\* pcrypto_process_bundle builds the session, or refuses the bundle.
RxKeyResponse(n) ==
  LET s == rxbuf[n].src IN
  /\ Accept(n)
  /\ rxbuf[n].kind = "response"
  /\ rxbuf[n].dst = n
  /\ \/ session' = [session EXCEPT ![n] = @ \cup {s}]
     \/ UNCHANGED session
  /\ rxbuf' = Taken(n)
  /\ UNCHANGED <<mode, seen, opened, stimuli, msg, inbox, aired>>

RxDuplicate(n) ==
  /\ Accept(n)
  /\ rxbuf[n].kind = "data"
  /\ rxbuf[n].id \in ToSet(seen[n])
  /\ rxbuf' = Taken(n)
  /\ UNCHANGED <<mode, seen, nvs, stimuli, msg, inbox, aired>>

\* Not for n, or for n before the callback is set: only passed on.
RxTransit(n) ==
  /\ AcceptData(n)
  /\ ~ForUs(n)
  /\ Relay(n)
  /\ UNCHANGED <<mode, nvs, stimuli, msg, inbox>>

\* Decryption uses up the key and, for the first message of a session, leaves
\* the session in NVS; then the callback runs.
RxDeliver(n) ==
  LET f == rxbuf[n] IN
  /\ AcceptData(n)
  /\ ForUs(n)
  /\ Opens(n, f)
  /\ opened' = [opened EXCEPT ![n] = @ \cup {f.id}]
  /\ session' = [session EXCEPT ![n] = @ \cup {f.src}]
  /\ inbox' = [inbox EXCEPT ![n] = Append(@, [id |-> f.id, src |-> f.src])]
  /\ Relay(n)
  /\ UNCHANGED <<mode, stimuli, msg>>

\* Decryption can always fail (the one-time key is gone, the state differs) and
\* fails for a message that was opened before; the frame is passed on all the same.
RxUnopened(n) ==
  /\ AcceptData(n)
  /\ ForUs(n)
  /\ Relay(n)
  /\ UNCHANGED <<mode, nvs, stimuli, msg, inbox>>

OnRadioRx(n) ==
  \/ RxEcho(n)
  \/ RxLimited(n)
  \/ RxBeacon(n)
  \/ RxKeyOverheard(n)
  \/ RxKeyRequest(n)
  \/ RxKeyResponse(n)
  \/ RxDuplicate(n)
  \/ RxTransit(n)
  \/ RxDeliver(n)
  \/ RxUnopened(n)

-----------------------------------------------------------------------------
(* The main task, the phone and the world. *)

\* mesh_set_rx_callback, after mesh_init has already started reception.
SetRxCallback(n) ==
  /\ mode[n] = "listening"
  /\ mode' = [mode EXCEPT ![n] = "ready"]
  /\ UNCHANGED <<ram, nvs, rxbuf, stimuli, history>>

\* mesh_poll when the beacon is due; its timer is as good as any moment.
SendBeacon(n) ==
  /\ Stimulus
  /\ mode[n] = "ready"
  /\ Transmit(n, Beacon(n), rxbuf)
  /\ UNCHANGED <<mode, ram, nvs, history>>

\* mesh_send without a session: a request for keys instead of the message.
SendKeyRequest(n, d) ==
  /\ Stimulus
  /\ mode[n] = "ready"
  /\ d \notin session[n]
  /\ Transmit(n, KeyFrame("request", n, d), rxbuf)
  /\ UNCHANGED <<mode, ram, nvs, history>>

\* mesh_send with a session: a fresh identifier, remembered before it is sent.
SendData(n, d, m) ==
  /\ Stimulus
  /\ mode[n] = "ready"
  /\ d \in session[n]
  /\ msg[m] = Unsent
  /\ msg' = [msg EXCEPT ![m] = [src |-> n, dst |-> d]]
  /\ seen' = [seen EXCEPT ![n] = Remember(@, m)]
  /\ aired' = [aired EXCEPT ![n][m] = OneMore(@)]
  /\ Transmit(n, Data(m, n, d, DefaultTtl), rxbuf)
  /\ UNCHANGED <<mode, presence, rate, nvs, inbox, accepted>>

\* The window of the oldest entry that still counted is over.
WindowPasses(n) ==
  LET k == rate[n].aged + 1 IN
  /\ k <= Len(rate[n].tab)
  /\ rate' = [rate EXCEPT ![n].aged = k]
  /\ accepted' = [accepted EXCEPT ![n][rate[n].tab[k].src] = 0]
  /\ UNCHANGED <<mode, seen, presence, nvs, rxbuf, stimuli, msg, inbox, aired>>

\* Losing power: RAM and the radio start empty, NVS stays.
Forget(n) ==
  /\ mode' = [mode EXCEPT ![n] = "listening"]
  /\ seen' = [seen EXCEPT ![n] = << >>]
  /\ presence' = [presence EXCEPT ![n] = << >>]
  /\ rate' = [rate EXCEPT ![n] = EmptyRate]
  /\ rxbuf' = Taken(n)
  /\ aired' = [aired EXCEPT ![n] = [m \in MsgId |-> 0]]
  /\ accepted' = [accepted EXCEPT ![n] = [s \in Node |-> 0]]

Reboot(n) ==
  /\ Stimulus
  /\ Forget(n)
  /\ UNCHANGED <<nvs, msg, inbox>>

\* The power goes after libsignal stored the ratchet and before the callback ran.
RebootBeforeCallback(n) ==
  /\ Stimulus
  /\ Arrived(n)
  /\ rxbuf[n].kind = "data"
  /\ ~Limited(rate[n], rxbuf[n].src)
  /\ rxbuf[n].id \notin ToSet(seen[n])
  /\ ForUs(n)
  /\ Opens(n, rxbuf[n])
  /\ opened' = [opened EXCEPT ![n] = @ \cup {rxbuf[n].id}]
  /\ session' = [session EXCEPT ![n] = @ \cup {rxbuf[n].src}]
  /\ Forget(n)
  /\ UNCHANGED <<msg, inbox>>

-----------------------------------------------------------------------------
Init ==
  /\ mode = [n \in Node |-> "listening"]
  /\ seen = [n \in Node |-> << >>]
  /\ presence = [n \in Node |-> << >>]
  /\ rate = [n \in Node |-> EmptyRate]
  /\ session = Paired
  /\ opened = [n \in Node |-> {}]
  /\ rxbuf = [n \in Node |-> NoFrame]
  /\ stimuli = 0
  /\ msg = [m \in MsgId |-> Unsent]
  /\ inbox = [n \in Node |-> << >>]
  /\ aired = [n \in Node |-> [m \in MsgId |-> 0]]
  /\ accepted = [n \in Node |-> [s \in Node |-> 0]]

Next ==
  \E n \in Node :
    \/ OnRadioRx(n)
    \/ SetRxCallback(n)
    \/ SendBeacon(n)
    \/ \E d \in Node \ {n} : SendKeyRequest(n, d)
    \/ \E d \in Node \ {n}, m \in MsgId : SendData(n, d, m)
    \/ WindowPasses(n)
    \/ Reboot(n)
    \/ RebootBeforeCallback(n)

\* The interrupt task outranks every task that runs the firmware's own code, so a
\* frame the radio reported is handled.
Fairness == \A n \in Node : WF_vars(OnRadioRx(n))

Spec == Init /\ [][Next]_vars /\ Fairness

-----------------------------------------------------------------------------
(* Properties. *)

\* Every variable keeps its shape; a frame on the air always has a hop left, and
\* no table outgrows its array.
TypeOK ==
  /\ mode \in [Node -> {"listening", "ready"}]
  /\ seen \in [Node -> Seq(MsgId)]
  /\ \A n \in Node : Len(seen[n]) <= DedupSize
  /\ presence \in [Node -> Seq(Node)]
  /\ \A n \in Node : Len(presence[n]) <= PresenceSize
  /\ rate \in [Node -> RateTable]
  /\ \A n \in Node : Len(rate[n].tab) <= RateSize /\ rate[n].aged <= Len(rate[n].tab)
  /\ session \in [Node -> SUBSET Node]
  /\ opened \in [Node -> SUBSET MsgId]
  /\ rxbuf \in [Node -> Frame \cup {NoFrame}]
  /\ stimuli \in Nat
  /\ msg \in [MsgId -> [src : Node, dst : Node] \cup {Unsent}]
  /\ inbox \in [Node -> Seq([id : MsgId, src : Node])]
  /\ aired \in [Node -> [MsgId -> Nat]]
  /\ accepted \in [Node -> [Node -> Nat]]

\* Whatever the radio loses, duplicates over several paths or delays, and whoever
\* reboots in between, the application of the addressee is called at most once per
\* message, with the identity of its sender: Mesh implements Delivery.
Promise == INSTANCE Delivery WITH msg <- msg, inbox <- inbox
Delivers == Promise!Spec

\* What makes that promise inductive: a frame on the air says who sent its message
\* to whom, and the ratchet of a node has used up every key whose message its
\* application was given.
AirTruthful ==
  \A n \in Node :
    rxbuf[n].kind = "data" => msg[rxbuf[n].id] = [src |-> rxbuf[n].src, dst |-> rxbuf[n].dst]

InboxOpened ==
  \A n \in Node : \A i \in DOMAIN inbox[n] : inbox[n][i].id \in opened[n]

\* As long as the memory of identifiers holds all that circulate, a node puts a
\* message on the air at most once between two boots, by whatever paths its copies
\* come back ("ktos inny juz to rozgloscil, my tez to juz widzielismy").
RelayOnce == \A n \in Node, m \in MsgId : aired[n][m] <= 1

\* Within[k]: who can be reached from whom over at most k hops.
Within ==
  [k \in 0 .. DefaultTtl |->
    {e \in Node \X Node :
      \E path \in [0 .. k -> Node] :
        /\ path[0] = e[1]
        /\ path[k] = e[2]
        /\ \A i \in 1 .. k : path[i] = path[i-1] \/ path[i] \in Link[path[i-1]]}]

\* A message never travels further than DefaultTtl hops from its sender: a copy with
\* t hops left has made at most DefaultTtl - t + 1 of them, and only a node within
\* DefaultTtl hops remembers its identifier.
HopBound ==
  \A n \in Node :
    /\ rxbuf[n].kind = "data"
         => <<rxbuf[n].src, n>> \in Within[DefaultTtl - rxbuf[n].ttl + 1]
    /\ \A m \in ToSet(seen[n]) : <<msg[m].src, n>> \in Within[DefaultTtl]

\* With room for every originator in the table, a node lets at most RateMax frames
\* of one originator through in one of its windows, relayed copies included.
RateBound == \A n, s \in Node : accepted[n][s] <= RateMax

\* An originator takes one place in the presence table and one in the rate table,
\* whatever their sizes: an entry is refreshed, moved or evicted, never doubled, so no
\* node is shown twice and none has two limits (presence_touch, rate_limited).
OneSlotEach ==
  \A n \in Node :
    /\ \A i, j \in DOMAIN presence[n] : presence[n][i] = presence[n][j] => i = j
    /\ \A i, j \in DOMAIN rate[n].tab : rate[n].tab[i].src = rate[n].tab[j].src => i = j

\* Every flood dies out, even when the memory of identifiers is too small to stop
\* the copies that circulate: the TTL does.
FloodEnds == <>[](\A n \in Node : rxbuf[n].kind # "data")
=============================================================================
