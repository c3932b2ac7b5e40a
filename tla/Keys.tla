-------------------------------- MODULE Keys --------------------------------
(***************************************************************************)
(* The key store of a node (components/crypto): its identity and pre-keys  *)
(* in NVS, written one value at a time, the bundles it hands out, and the  *)
(* first messages that come back.  Power may go between any two writes,    *)
(* and NVS may refuse any of them (when it is full): the code that makes   *)
(* keys looks at no result, and goes on with what is there.                *)
(*                                                                         *)
(* Peers ask for a bundle until they have a session, build one from what   *)
(* they get, and then send messages that name the one-time key it came     *)
(* with.  Bundles and messages may be lost or late.  One task serves them  *)
(* all: the radio's interrupt task.  What libsignal does with its stores   *)
(* is taken from the callbacks in store.c and is external.                 *)
(***************************************************************************)
EXTENDS Naturals, FiniteSets

CONSTANTS
  Peer,        \* the nodes that want a session with this one
  NoPeer,
  Batch,       \* PRE_KEY_BATCH_SIZE, 20
  MaxId,       \* bound on the identifiers of one-time pre-keys
  MaxLosses,   \* bound on power losses
  MaxRefusals, \* bound on the writes that NVS refuses
  MaxBases     \* bound on the sessions that one peer builds

ASSUME PeerAssumption == NoPeer \notin Peer
ASSUME BatchAssumption == Batch \in Nat \ {0} /\ MaxId \in Nat
ASSUME BoundAssumption == MaxLosses \in Nat /\ MaxRefusals \in Nat /\ MaxBases \in Nat

VARIABLES
  \* NVS
  idPub, idPriv, spk,   \* the boot that wrote id_pub, id_priv and spk_1; 0: not there
  regId,      \* whether reg_id is there
  stored,     \* the identifiers id for which pk_id is there
  nextId,     \* next_pk_id; 0: not there
  sessions,   \* sessions[p]: the sessions with p, named by p's base key
  \* RAM
  pc,         \* where the node is
  first, at,  \* the batch under way: its first identifier, the next one to write
  whom,       \* the peer the batch or bundle is for; NoPeer while booting
  used,       \* the one-time key that a first message has used
  \* the peers and the air
  asks,       \* the peers with a request for a bundle on its way
  offer,      \* offer[p]: the one-time key of the bundle on its way to p
  holds,      \* holds[p]: the one-time key of the bundle p built its session from
  base,       \* base[p]: how many sessions p has built
  wire,       \* wire[p]: the message of p on its way: base key and one-time key
  \* history
  made,       \* made[id]: how often a key was stored under id
  handed,     \* the keys handed out
  served,     \* which session was opened with which key
  survived,   \* survived[id]: how often the key under id outlived its use
  refused,    \* id_pub and id_priv if NVS ever refused them, next_pk_id if the last time
  lacks,      \* the identifiers id for which NVS refused pk_id the last time
  refusals,   \* how often NVS refused a write
  losses      \* how often power was lost

nvs     == <<idPub, idPriv, spk, regId, stored, nextId, sessions>>
ram     == <<pc, first, at, whom, used>>
peers   == <<asks, offer, holds, base, wire>>
keys    == <<made, handed, served, survived>>
faults  == <<refused, lacks, refusals, losses>>
history == <<keys, faults>>
vars    == <<nvs, ram, peers, history>>

Ids == 1 .. MaxId

\* A key is an identifier and which of the keys generated under it.
Key == Ids \X Nat
NoKey == <<0, 0>>
Current(id) == <<id, made[id]>>

\* A write to NVS fails.
Refuse == refusals < MaxRefusals /\ refusals' = refusals + 1

\* The value is one whose failure is remembered here, or any other.
RefuseNamed(name) == Refuse /\ refused' = refused \cup {name} /\ UNCHANGED <<lacks, losses>>
RefuseOther == Refuse /\ UNCHANGED <<refused, lacks, losses>>

-----------------------------------------------------------------------------
(* pcrypto_init: identity_ensure_generated, one write to NVS per step. *)

\* The boot under way.
Boots == losses + 1

\* id_pub is there: the identity of an earlier boot is taken as it is.
FindIdentity ==
  /\ pc = "boot"
  /\ idPub # 0
  /\ pc' = "ready"
  /\ UNCHANGED <<nvs, first, at, whom, used, peers, history>>

WriteIdPub ==
  /\ pc = "boot"
  /\ idPub = 0
  /\ \/ idPub' = Boots /\ UNCHANGED faults
     \/ RefuseNamed("id_pub") /\ UNCHANGED idPub
  /\ pc' = "priv"
  /\ UNCHANGED <<idPriv, spk, regId, stored, nextId, sessions, first, at, whom, used, peers, keys>>

WriteIdPriv ==
  /\ pc = "priv"
  /\ \/ idPriv' = Boots /\ UNCHANGED faults
     \/ RefuseNamed("id_priv") /\ UNCHANGED idPriv
  /\ pc' = "reg"
  /\ UNCHANGED <<idPub, spk, regId, stored, nextId, sessions, first, at, whom, used, peers, keys>>

\* generate_pre_key_batch(start, PRE_KEY_BATCH_SIZE) for peer p, or for the boot.
BeginBatch(start, p) ==
  /\ start + Batch - 1 <= MaxId
  /\ pc' = "batch"
  /\ first' = start
  /\ at' = start
  /\ whom' = p
  /\ used' = used

WriteRegId ==
  /\ pc = "reg"
  /\ \/ regId' = TRUE /\ UNCHANGED faults
     \/ RefuseOther /\ UNCHANGED regId
  /\ BeginBatch(1, NoPeer)
  /\ UNCHANGED <<idPub, idPriv, spk, stored, nextId, sessions, peers, keys>>

BatchEndPastIt == first + Batch + 1
BatchEnd == first + Batch

WritePreKey ==
  /\ pc = "batch"
  /\ at < BatchEnd
  /\ \/ /\ stored' = stored \cup {at}
        /\ made' = [made EXCEPT ![at] = @ + 1]
        /\ lacks' = lacks \ {at}
        /\ UNCHANGED refusals
     \/ /\ Refuse
        /\ lacks' = lacks \cup {at}
        /\ UNCHANGED <<stored, made>>
  /\ at' = at + 1
  /\ UNCHANGED <<idPub, idPriv, spk, regId, nextId, sessions, pc, first, whom, used, peers,
                 handed, served, survived, refused, losses>>

ForgetfulAfter(start) == start
NextAfter(start) == start + Batch

WriteNextId ==
  /\ pc = "batch"
  /\ at = BatchEnd
  /\ \/ /\ nextId' = NextAfter(first)
        /\ refused' = refused \ {"next_pk_id"}
        /\ UNCHANGED <<lacks, refusals, losses>>
     \/ RefuseNamed("next_pk_id") /\ UNCHANGED nextId
  /\ pc' = IF whom = NoPeer THEN "spk" ELSE "retry"
  /\ UNCHANGED <<idPub, idPriv, spk, regId, stored, sessions, first, at, whom, used, peers, keys>>

WriteSignedPreKey ==
  /\ pc = "spk"
  /\ \/ spk' = Boots /\ UNCHANGED faults
     \/ RefuseOther /\ UNCHANGED spk
  /\ pc' = "ready"
  /\ UNCHANGED <<idPub, idPriv, regId, stored, nextId, sessions, first, at, whom, used, peers, keys>>

Boot ==
  \/ FindIdentity
  \/ WriteIdPub
  \/ WriteIdPriv
  \/ WriteRegId
  \/ WriteSignedPreKey

GenerateBatch == WritePreKey \/ WriteNextId

-----------------------------------------------------------------------------
(* pcrypto_local_bundle, called when a request of a peer arrives. *)

NextPreKeyId == IF nextId = 0 THEN Batch + 1 ELSE nextId

\* find_unused_pre_key: the lowest identifier that is still in NVS.
UnusedAnywhere == stored
Unused == {id \in stored : id < NextPreKeyId}
Lowest(id) == \A other \in Unused : id <= other

\* The parts of a bundle besides the one-time key.
CompleteUnchecked == idPub # 0
Complete == spk # 0 /\ idPub # 0

\* The bundle leaves for p, unless a part of it is missing.
HandOut(p) ==
  /\ pc' = "ready"
  /\ IF Unused # {} /\ Complete
       THEN \E id \in Unused :
              /\ Lowest(id)
              /\ offer' = [offer EXCEPT ![p] = Current(id)]
              /\ handed' = handed \cup {Current(id)}
       ELSE UNCHANGED <<offer, handed>>
  /\ UNCHANGED <<nvs, first, at, whom, used, holds, base, wire, made, served, survived,
                 faults>>

Asked(p) ==
  /\ pc = "ready"
  /\ p \in asks
  /\ asks' = asks \ {p}

LocalBundle(p) ==
  /\ Asked(p)
  /\ regId
  /\ Unused # {}
  /\ HandOut(p)

\* The pool is empty: a new batch is generated first.
Refill(p) ==
  /\ Asked(p)
  /\ regId
  /\ Unused = {}
  /\ BeginBatch(NextPreKeyId, p)
  /\ UNCHANGED <<nvs, offer, holds, base, wire, history>>

\* No registration id: an identity cut short by a loss of power, and no answer.
NoIdentity(p) ==
  /\ Asked(p)
  /\ ~regId
  /\ UNCHANGED <<nvs, ram, offer, holds, base, wire, history>>

\* The search after the refill: no bundle leaves when it finds nothing again.
LocalBundleAgain ==
  /\ pc = "retry"
  /\ HandOut(whom)
  /\ UNCHANGED asks

-----------------------------------------------------------------------------
(* The peers: pcrypto_process_bundle, then pcrypto_encrypt. *)

\* p has something to send and no session: it asks, again and again.
RequestBundle(p) ==
  /\ holds[p] = NoKey
  /\ asks' = asks \cup {p}
  /\ UNCHANGED <<nvs, ram, offer, holds, base, wire, history>>

\* The signed pre-key carries a signature by the identity of the boot that made it.
Signed == spk = idPub

\* A late bundle replaces the session, as an archived state of libsignal's record.
ProcessBundle(p) ==
  /\ offer[p] # NoKey
  /\ Signed
  /\ base[p] < MaxBases
  /\ holds' = [holds EXCEPT ![p] = offer[p]]
  /\ offer' = [offer EXCEPT ![p] = NoKey]
  /\ base' = [base EXCEPT ![p] = @ + 1]
  /\ UNCHANGED <<nvs, ram, asks, wire, history>>

\* The signature does not verify, and the bundle is dropped.
DropBundle(p) ==
  /\ offer[p] # NoKey
  /\ ~Signed
  /\ offer' = [offer EXCEPT ![p] = NoKey]
  /\ UNCHANGED <<nvs, ram, asks, holds, base, wire, history>>

\* Having a session, p sends; its messages name the key until it hears an answer.
SendMessage(p) ==
  /\ holds[p] # NoKey
  /\ wire' = [wire EXCEPT ![p] = <<base[p], holds[p]>>]
  /\ UNCHANGED <<nvs, ram, asks, offer, holds, base, history>>

-----------------------------------------------------------------------------
(* pcrypto_decrypt on a message of p. *)

NoMessage == <<0, NoKey>>
Base(p) == wire[p][1]
KeyOf(p) == wire[p][2]

Received(p) ==
  /\ pc = "ready"
  /\ wire[p] # NoMessage
  /\ wire' = [wire EXCEPT ![p] = NoMessage]

\* A message of a session the node has: no one-time key is needed.
OpenKnown(p) ==
  /\ Received(p)
  /\ Base(p) \in sessions[p]
  /\ UNCHANGED <<nvs, ram, asks, offer, holds, base, history>>

\* A first message can be opened: its one-time key is there, and so is the private key
\* that belongs to the identity in the bundle.
Openable(p) ==
  /\ KeyOf(p)[1] \in stored
  /\ KeyOf(p) = Current(KeyOf(p)[1])
  /\ idPriv = idPub

\* The session is stored, and then the one-time key erased.
OpenFirst(p) ==
  /\ Received(p)
  /\ Base(p) \notin sessions[p]
  /\ Openable(p)
  /\ sessions' = [sessions EXCEPT ![p] = @ \cup {Base(p)}]
  /\ served' = served \cup {<<KeyOf(p), p, Base(p)>>}
  /\ used' = KeyOf(p)[1]
  /\ pc' = "erase"
  /\ UNCHANGED <<idPub, idPriv, spk, regId, stored, nextId, first, at, whom, asks, offer, holds, base,
                 made, handed, survived, faults>>

\* The session cannot be stored: libsignal returns the error and the key stays.
StoreRefused(p) ==
  /\ Received(p)
  /\ Base(p) \notin sessions[p]
  /\ Openable(p)
  /\ RefuseOther
  /\ UNCHANGED <<nvs, ram, asks, offer, holds, base, keys>>

\* The message cannot be opened.
CannotOpen(p) ==
  /\ Received(p)
  /\ Base(p) \notin sessions[p]
  /\ ~Openable(p)
  /\ UNCHANGED <<nvs, ram, asks, offer, holds, base, history>>

KeepPreKey ==
  /\ pc = "erase"
  /\ pc' = "ready"
  /\ UNCHANGED <<nvs, first, at, whom, used, peers, history>>

\* remove_pre_key, after the session is stored.
RemovePreKey ==
  /\ pc = "erase"
  /\ \/ stored' = stored \ {used} /\ UNCHANGED <<survived, faults>>
     \/ /\ RefuseOther
        /\ survived' = [survived EXCEPT ![used] = @ + 1]
        /\ UNCHANGED stored
  /\ pc' = "ready"
  /\ UNCHANGED <<idPub, idPriv, spk, regId, nextId, sessions, first, at, whom, used, peers,
                 made, handed, served>>

Decrypt(p) == OpenKnown(p) \/ OpenFirst(p) \/ StoreRefused(p) \/ CannotOpen(p)

-----------------------------------------------------------------------------
LosePower ==
  /\ losses < MaxLosses
  /\ losses' = losses + 1
  /\ pc' = "boot"
  /\ first' = 0
  /\ at' = 0
  /\ whom' = NoPeer
  /\ used' = 0
  /\ survived' = IF pc = "erase" THEN [survived EXCEPT ![used] = @ + 1] ELSE survived
  /\ UNCHANGED <<nvs, peers, made, handed, served, refused, lacks, refusals>>

Init ==
  /\ idPub = 0
  /\ idPriv = 0
  /\ spk = 0
  /\ regId = FALSE
  /\ stored = {}
  /\ nextId = 0
  /\ sessions = [p \in Peer |-> {}]
  /\ pc = "boot"
  /\ first = 0
  /\ at = 0
  /\ whom = NoPeer
  /\ used = 0
  /\ asks = {}
  /\ offer = [p \in Peer |-> NoKey]
  /\ holds = [p \in Peer |-> NoKey]
  /\ base = [p \in Peer |-> 0]
  /\ wire = [p \in Peer |-> NoMessage]
  /\ made = [id \in Ids |-> 0]
  /\ handed = {}
  /\ served = {}
  /\ survived = [id \in Ids |-> 0]
  /\ refused = {}
  /\ lacks = {}
  /\ refusals = 0
  /\ losses = 0

Next ==
  \/ Boot
  \/ GenerateBatch
  \/ LocalBundleAgain
  \/ RemovePreKey
  \/ LosePower
  \/ \E p \in Peer :
       \/ RequestBundle(p)
       \/ LocalBundle(p)
       \/ Refill(p)
       \/ NoIdentity(p)
       \/ ProcessBundle(p)
       \/ DropBundle(p)
       \/ SendMessage(p)
       \/ Decrypt(p)

Spec == Init /\ [][Next]_vars

-----------------------------------------------------------------------------
\* Every variable keeps its shape, and the batch under way stays within its bounds.
TypeOK ==
  /\ idPub \in Nat /\ idPriv \in Nat /\ spk \in Nat
  /\ regId \in BOOLEAN
  /\ stored \subseteq Ids
  /\ nextId \in Nat
  /\ sessions \in [Peer -> SUBSET Nat]
  /\ pc \in {"boot", "priv", "reg", "batch", "spk", "ready", "retry", "erase"}
  /\ first \in Nat /\ at \in Nat
  /\ pc = "batch" =>
       first \in Ids /\ at \in first .. first + Batch /\ first + Batch - 1 <= MaxId
  /\ whom \in Peer \cup {NoPeer}
  /\ pc = "retry" => whom \in Peer
  /\ used \in Nat
  /\ pc = "erase" => used \in Ids
  /\ asks \subseteq Peer
  /\ offer \in [Peer -> Key \cup {NoKey}]
  /\ holds \in [Peer -> Key \cup {NoKey}]
  /\ base \in [Peer -> Nat]
  /\ wire \in [Peer -> Nat \X (Key \cup {NoKey})]
  /\ made \in [Ids -> Nat]
  /\ handed \subseteq Key
  /\ served \subseteq Key \X Peer \X Nat
  /\ survived \in [Ids -> Nat]
  /\ refused \subseteq {"id_pub", "id_priv", "next_pk_id"}
  /\ lacks \subseteq Ids
  /\ refusals \in Nat
  /\ losses \in Nat

\* "ID nigdy nie sa uzywane ponownie" (pcrypto.c): under the identifier of a key that was
\* handed out no other key is ever stored, wherever power was lost and whatever NVS refused,
\* next_pk_id itself included.
HandedStable == \A key \in handed : key = Current(key[1])

\* A one-time key opens one session, and one more for every time that its erasure was cut
\* short by a loss of power or refused by NVS: only after its session is stored can a key
\* outlive its use.
UsedOnce == \A key \in handed : Cardinality({s \in served : s[1] = key}) <= 1 + survived[key[1]]

\* The search after a refill finds a key, so that a node whose pool ran dry can answer, also
\* when power was lost in the middle of an earlier batch or NVS refused some of its keys.  It
\* finds none, and pcrypto_local_bundle answers ESP_ERR_NOT_FOUND, only if NVS refused
\* next_pk_id or each key of the batch: generate_pre_key_batch reports neither.
RefillFinds ==
  pc = "retry" =>
    \/ Unused # {}
    \/ "next_pk_id" \in refused
    \/ first .. first + Batch - 1 \subseteq lacks

\* pcrypto.h: "nasz komplet kluczy publicznych do rozeslania peerowi, zeby mogl zaczac
\* sesje X3DH".  A peer that has built its session from a bundle can start it: the
\* node has the session, or still the key.
BundleStarts ==
  \A p \in Peer :
    holds[p] # NoKey =>
      \/ base[p] \in sessions[p]
      \/ holds[p][1] \in stored /\ holds[p] = Current(holds[p][1])

\* A node whose first boot was cut short takes what it has for its identity and is never
\* whole (pcrypto.h says that pcrypto_init generates the identity or loads it), but hands
\* nothing out: neither a loss of power nor a refusal of reg_id, spk_1 or a one-time key lets
\* a bundle leave from an identity that lacks a part or mixes those of two boots.  A refusal
\* of id_pub or id_priv does: pcrypto_init looks at neither result, and pcrypto_local_bundle
\* never looks at id_priv.
HandedWhole ==
  handed # {} =>
    /\ regId /\ idPub # 0 /\ spk # 0
    /\ (refused \cap {"id_pub", "id_priv"} = {} => idPriv = idPub /\ Signed)
=============================================================================
