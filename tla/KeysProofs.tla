----------------------------- MODULE KeysProofs -----------------------------
(***************************************************************************)
(* However many peers ask, however long the batches are, wherever power is *)
(* lost and whatever NVS refuses, no identifier that was handed out gets   *)
(* another key, and a refill yields one unless NVS refused all that        *)
(* matters of it.                                                          *)
(***************************************************************************)
EXTENDS Keys, FiniteSetTheorems, TLAPS

\* Nothing is handed out before the identity is complete.
Booting ==
  (idPub = 0 \/ pc \in {"priv", "reg", "spk"} \/ (pc = "batch" /\ whom = NoPeer)) => handed = {}

\* next_pk_id lies above every key that was handed out.
Counted == \A key \in handed : key[1] < NextPreKeyId

\* The batch of identifiers that starts at first, up to the one before last.
Upto(last) == {id \in Ids : first <= id /\ id < last}

\* So does the batch under way, and what it has written stays until it ends; what it has
\* not, NVS refused.
Filling ==
  /\ pc = "batch" => \A key \in handed : key[1] < first
  /\ pc = "batch" => Upto(at) \subseteq stored \cup lacks
  /\ pc = "retry" => /\ first \in Ids /\ first + Batch - 1 \in Ids
                    /\ Upto(first + Batch) \subseteq stored \cup lacks
                    /\ ("next_pk_id" \in refused \/ NextPreKeyId = first + Batch)

\* What makes HandedStable inductive.
Inv == TypeOK /\ Booting /\ Counted /\ Filling /\ HandedStable

\* The constants and the pairs that stand for keys.
LEMMA KeyShape ==
  ASSUME TypeOK
  PROVE  /\ \A id \in Ids : Current(id) \in Key
         /\ \A key \in Key : key[1] \in Ids /\ key[2] \in Nat
         /\ NextPreKeyId \in Nat \ {0}
         /\ Unused \subseteq Ids
<1>1. \A id \in Ids : Current(id) \in Key
  BY DEF TypeOK, Current, Key
<1>2. \A key \in Key : key[1] \in Ids /\ key[2] \in Nat
  BY DEF Key
<1>3. NextPreKeyId \in Nat \ {0}
  BY BatchAssumption DEF TypeOK, NextPreKeyId
<1>4. Unused \subseteq Ids
  BY DEF TypeOK, Unused
<1> QED BY <1>1, <1>2, <1>3, <1>4

\* Init satisfies the invariant.
LEMMA InvInit == Init => Inv
<1> SUFFICES ASSUME Init PROVE Inv
  OBVIOUS
<1>1. TypeOK
  <2>1. [p \in Peer |-> NoMessage] \in [Peer -> Nat \X (Key \cup {NoKey})]
    BY DEF NoMessage
  <2> QED BY <2>1 DEF Init, TypeOK
<1> QED BY <1>1 DEF Init, Inv, Booting, Counted, Filling, Upto, HandedStable

\* What is remembered of a write that fails keeps its shape.
LEMMA FaultsKept ==
  ASSUME TypeOK,
         \/ UNCHANGED faults
         \/ RefuseOther
         \/ \E name \in {"id_pub", "id_priv", "next_pk_id"} : RefuseNamed(name)
  PROVE  /\ refused' \subseteq {"id_pub", "id_priv", "next_pk_id"}
         /\ lacks' \subseteq Ids /\ refusals' \in Nat /\ losses' \in Nat
         /\ lacks' = lacks
<1>1. /\ refused \subseteq {"id_pub", "id_priv", "next_pk_id"}
      /\ lacks \subseteq Ids /\ refusals \in Nat /\ losses \in Nat
  BY DEF TypeOK
<1>2. CASE UNCHANGED faults
  BY <1>1, <1>2 DEF faults
<1>3. CASE RefuseOther
  BY <1>1, <1>3 DEF RefuseOther, Refuse
<1>4. ASSUME NEW name \in {"id_pub", "id_priv", "next_pk_id"}, RefuseNamed(name)
      PROVE  /\ refused' \subseteq {"id_pub", "id_priv", "next_pk_id"}
             /\ refusals' \in Nat /\ lacks' = lacks /\ losses' = losses
  BY <1>1, <1>4 DEF RefuseNamed, Refuse
<1> QED BY <1>1, <1>2, <1>3, <1>4

\* Boots are numbered from 1.
LEMMA BootsNat == TypeOK => Boots \in Nat \ {0}
  BY DEF TypeOK, Boots

\* The steps of a boot.
LEMMA InvBoot == Inv /\ Boot => Inv'
<1> SUFFICES ASSUME Inv, Boot PROVE Inv'
  OBVIOUS
<1> USE DEF Inv, Booting, Counted, Filling, Upto, HandedStable, nvs, peers, history, keys, NextPreKeyId,
            Current
<1>1. CASE FindIdentity
  BY <1>1 DEF FindIdentity, TypeOK, faults
<1>2. CASE WriteIdPub
  BY <1>2, FaultsKept, BootsNat DEF WriteIdPub, TypeOK
<1>3. CASE WriteIdPriv
  BY <1>3, FaultsKept, BootsNat DEF WriteIdPriv, TypeOK
<1>4. CASE WriteRegId
  <2>1. 1 \in Ids /\ 1 \in 1 .. 1 + Batch /\ 1 + Batch - 1 <= MaxId
    BY <1>4, BatchAssumption DEF WriteRegId, BeginBatch, Ids
  <2>2. TypeOK'
    BY <1>4, <2>1, FaultsKept DEF WriteRegId, BeginBatch, TypeOK
  <2> QED BY <1>4, <2>1, <2>2 DEF WriteRegId, BeginBatch, Ids
<1>5. CASE WriteSignedPreKey
  BY <1>5, FaultsKept, BootsNat DEF WriteSignedPreKey, TypeOK
<1> QED BY <1>1, <1>2, <1>3, <1>4, <1>5 DEF Boot

\* A batch only writes identifiers that were never handed out.
LEMMA InvGenerate == Inv /\ GenerateBatch => Inv'
<1> SUFFICES ASSUME Inv, GenerateBatch PROVE Inv'
  OBVIOUS
<1> USE DEF Inv, peers, keys
<1>1. CASE WritePreKey
  <2>1. /\ pc = "batch" /\ first \in Ids /\ at \in Ids /\ first <= at /\ at < first + Batch
        /\ at + 1 \in first .. first + Batch
    BY <1>1, BatchAssumption DEF WritePreKey, BatchEnd, TypeOK, Ids
  <2>2. TypeOK'
    <3>1. stored' \subseteq Ids /\ made' \in [Ids -> Nat]
      <4>1. stored \subseteq Ids /\ made \in [Ids -> Nat]
        BY DEF TypeOK
      <4> QED BY <1>1, <2>1, <4>1 DEF WritePreKey
    <3>2. at' \in Nat /\ at' \in first' .. first' + Batch
      BY <1>1, <2>1 DEF WritePreKey, Ids
    <3>3. lacks' \subseteq Ids /\ refusals' \in Nat
      <4>1. lacks \subseteq Ids /\ refusals \in Nat
        BY DEF TypeOK
      <4> QED BY <1>1, <2>1, <4>1 DEF WritePreKey, Refuse
    <3> QED BY <1>1, <3>1, <3>2, <3>3 DEF WritePreKey, TypeOK
  <2>3. \A key \in handed : key[1] \in Ids /\ key[1] # at
    BY <2>1, KeyShape DEF Filling, TypeOK, Ids
  <2>4. HandedStable'
    BY <1>1, <2>3 DEF WritePreKey, HandedStable, Current, TypeOK
  <2>5. Filling'
    <3>1. Upto(at)' = Upto(at) \cup {at}
      BY <1>1, <2>1 DEF WritePreKey, Upto, Ids
    <3>2. at \in stored' \cup lacks' /\ stored \cup lacks \subseteq stored' \cup lacks'
      BY <1>1 DEF WritePreKey
    <3> QED BY <1>1, <2>1, <3>1, <3>2 DEF WritePreKey, Filling, Upto
  <2> QED BY <1>1, <2>1, <2>2, <2>4, <2>5 DEF WritePreKey, Booting, Counted, NextPreKeyId
<1>2. CASE WriteNextId
  <2>1. pc = "batch" /\ first \in Ids /\ first + Batch - 1 \in Ids /\ at = first + Batch
    <3>1. pc = "batch" /\ at = first + Batch
      BY <1>2 DEF WriteNextId, BatchEnd
    <3>2. first \in Ids /\ first + Batch - 1 <= MaxId
      BY <3>1 DEF TypeOK
    <3> QED BY <3>1, <3>2, BatchAssumption DEF Ids
  <2>2. \/ NextPreKeyId' = first + Batch
        \/ "next_pk_id" \in refused' /\ NextPreKeyId' = NextPreKeyId
    <3>1. CASE nextId' = NextAfter(first)
      <4>1. nextId' = first + Batch /\ first + Batch # 0
        BY <3>1, <2>1, BatchAssumption DEF NextAfter, Ids
      <4> QED BY <4>1 DEF NextPreKeyId
    <3>2. CASE RefuseNamed("next_pk_id") /\ UNCHANGED nextId
      BY <3>2 DEF RefuseNamed, NextPreKeyId
    <3> QED BY <1>2, <3>1, <3>2 DEF WriteNextId
  <2>3. TypeOK'
    <3>1. nextId' \in Nat
      BY <1>2, <2>1, BatchAssumption DEF WriteNextId, NextAfter, TypeOK, Ids
    <3>2. /\ refused' \subseteq {"id_pub", "id_priv", "next_pk_id"}
          /\ lacks' \subseteq Ids /\ refusals' \in Nat /\ losses' \in Nat
      <4>1. /\ refused \subseteq {"id_pub", "id_priv", "next_pk_id"}
            /\ lacks \subseteq Ids /\ refusals \in Nat /\ losses \in Nat
        BY DEF TypeOK
      <4>2. CASE RefuseNamed("next_pk_id")
        BY <4>1, <4>2 DEF RefuseNamed, Refuse
      <4>3. CASE refused' = refused \ {"next_pk_id"} /\ UNCHANGED <<lacks, refusals, losses>>
        BY <4>1, <4>3
      <4> QED BY <1>2, <4>2, <4>3 DEF WriteNextId
    <3> QED BY <1>2, <3>1, <3>2 DEF WriteNextId, TypeOK
  <2>4. \A key \in handed : key[1] < first + Batch
    <3>1. \A key \in handed : key[1] < first
      BY <2>1 DEF Filling
    <3>2. handed \subseteq Key /\ \A key \in Key : key[1] \in Nat
      BY KeyShape DEF TypeOK, Ids
    <3> QED BY <2>1, <3>1, <3>2, BatchAssumption DEF Ids
  <2>5. Counted'
    BY <1>2, <2>2, <2>4 DEF WriteNextId, Counted
  <2>6. Filling'
    <3>1. Upto(at)' = Upto(at) /\ Upto(first + Batch)' = Upto(at)
      BY <1>2, <2>1 DEF WriteNextId, Upto
    <3>2. lacks' = lacks /\ stored' = stored /\ first' = first
      BY <1>2 DEF WriteNextId, RefuseNamed
    <3> QED BY <1>2, <2>1, <2>2, <3>1, <3>2 DEF WriteNextId, Filling
  <2> QED BY <1>2, <2>3, <2>5, <2>6 DEF WriteNextId, Booting, HandedStable, Current
<1> QED BY <1>1, <1>2 DEF GenerateBatch

\* Only a key that is stored, and below next_pk_id, leaves in a bundle.
LEMMA InvHandOut ==
  ASSUME Inv, NEW p \in Peer, HandOut(p), asks' \subseteq Peer, pc \in {"ready", "retry"}
  PROVE  Inv'
<1> USE DEF Inv, HandOut, Complete, nvs, faults
<1>1. CASE Unused # {} /\ Complete
  <2>1. PICK id \in Unused :
          offer' = [offer EXCEPT ![p] = Current(id)] /\ handed' = handed \cup {Current(id)}
    BY <1>1
  <2>2. id \in Ids /\ Current(id) \in Key /\ id < NextPreKeyId
    BY KeyShape DEF Unused
  <2>3. TypeOK'
    BY <2>1, <2>2 DEF TypeOK
  <2>4. Counted' /\ HandedStable'
    BY <2>1, <2>2 DEF Counted, HandedStable, Current, NextPreKeyId
  <2> QED BY <1>1, <2>3, <2>4 DEF Booting, Filling, Upto
<1>2. CASE ~(Unused # {} /\ Complete)
  BY <1>2 DEF TypeOK, Booting, Counted, Filling, Upto, HandedStable, Current, NextPreKeyId
<1> QED BY <1>1, <1>2

\* The answer to a request, with and without a refill.
LEMMA InvAnswer ==
  ASSUME Inv, NEW p \in Peer, LocalBundle(p) \/ Refill(p) \/ NoIdentity(p)
  PROVE  Inv'
<1>1. CASE LocalBundle(p)
  BY <1>1, InvHandOut DEF LocalBundle, Asked, Inv, TypeOK
<1>2. CASE Refill(p)
  <2>1. NextPreKeyId \in Ids /\ NextPreKeyId \in NextPreKeyId .. NextPreKeyId + Batch
    BY <1>2, KeyShape, BatchAssumption DEF Refill, BeginBatch, Ids, Inv
  <2>2. TypeOK'
    BY <1>2, <2>1 DEF Refill, BeginBatch, Asked, Inv, TypeOK, nvs, history, keys, faults, Ids
  <2>3. /\ pc' = "batch" /\ first' = NextPreKeyId /\ at' = NextPreKeyId /\ handed' = handed
        /\ NextPreKeyId' = NextPreKeyId /\ whom' = p /\ idPub' = idPub
    BY <1>2 DEF Refill, BeginBatch, NextPreKeyId, nvs, history, keys
  <2>4. Filling'
    <3>1. Upto(at)' = {}
      BY <2>1, <2>3 DEF Upto, Ids
    <3>2. \A key \in handed : key[1] < NextPreKeyId
      BY DEF Inv, Counted
    <3> QED BY <2>3, <3>1, <3>2 DEF Filling
  <2>5. Booting' /\ Counted'
    BY <1>2, <2>3, PeerAssumption DEF Refill, Asked, Inv, Booting, Counted
  <2> QED BY <1>2, <2>2, <2>4, <2>5 DEF Refill, Inv, HandedStable, Current, history, keys
<1>3. CASE NoIdentity(p)
  BY <1>3 DEF NoIdentity, Asked, Inv, TypeOK, Booting, Counted, Filling, Upto, HandedStable, Current,
              NextPreKeyId, nvs, ram, history, keys, faults
<1> QED BY <1>1, <1>2, <1>3

\* The search after the refill.
LEMMA InvAnswerAgain == Inv /\ LocalBundleAgain => Inv'
  BY InvHandOut DEF LocalBundleAgain, Inv, TypeOK

\* What the peers do touches nothing that the keys depend on.
LEMMA InvPeer ==
  ASSUME Inv, NEW p \in Peer, RequestBundle(p) \/ ProcessBundle(p) \/ DropBundle(p) \/ SendMessage(p)
  PROVE  Inv'
<1> USE DEF nvs, ram, history, keys, faults
<1>1. TypeOK'
  <2>1. CASE RequestBundle(p)
    BY <2>1 DEF RequestBundle, Inv, TypeOK
  <2>2. CASE ProcessBundle(p)
    BY <2>2 DEF ProcessBundle, Inv, TypeOK
  <2>3. CASE DropBundle(p)
    BY <2>3 DEF DropBundle, Inv, TypeOK
  <2>4. CASE SendMessage(p)
    BY <2>4 DEF SendMessage, Inv, TypeOK
  <2> QED BY <2>1, <2>2, <2>3, <2>4
<1>2. UNCHANGED <<nvs, ram, history>>
  BY DEF RequestBundle, ProcessBundle, DropBundle, SendMessage
<1> QED BY <1>1, <1>2 DEF Inv, Booting, Counted, Filling, Upto, HandedStable, Current, NextPreKeyId

\* A message only ever stores a session and erases a key, outside every batch.
LEMMA InvDecrypt ==
  ASSUME Inv, NEW p \in Peer, Decrypt(p)
  PROVE  Inv'
<1> USE DEF nvs, ram, history, keys
<1>1. CASE OpenKnown(p) \/ StoreRefused(p) \/ CannotOpen(p)
  <2>1. NoMessage \in Nat \X (Key \cup {NoKey})
    BY DEF NoMessage
  <2>2. /\ refused' = refused /\ lacks' = lacks /\ losses' = losses /\ refusals' \in Nat
    BY <1>1 DEF OpenKnown, StoreRefused, CannotOpen, RefuseOther, Refuse, faults, Inv, TypeOK
  <2>3. TypeOK'
    BY <1>1, <2>1, <2>2 DEF OpenKnown, StoreRefused, CannotOpen, Received, Inv, TypeOK
  <2> QED BY <1>1, <2>2, <2>3 DEF OpenKnown, StoreRefused, CannotOpen, Received, Inv, Booting, Counted,
                            Filling, Upto, HandedStable, Current, NextPreKeyId
<1>2. CASE OpenFirst(p)
  <2>1. NoMessage \in Nat \X (Key \cup {NoKey})
    BY DEF NoMessage
  <2>2. KeyOf(p) \in Key /\ KeyOf(p)[1] \in Ids /\ KeyOf(p)[1] \in Nat /\ Base(p) \in Nat
    <3>1. KeyOf(p)[1] \in Ids /\ Base(p) \in Nat
      BY <1>2 DEF OpenFirst, Openable, Base, Inv, TypeOK
    <3>2. KeyOf(p) \in Key
      BY <1>2, <3>1, KeyShape DEF OpenFirst, Openable, Inv
    <3> QED BY <3>1, <3>2 DEF Ids
  <2>3. TypeOK'
    BY <1>2, <2>1, <2>2 DEF OpenFirst, Received, Inv, TypeOK, faults
  <2> QED BY <1>2, <2>3 DEF OpenFirst, Received, Inv, Booting, Counted, Filling, Upto,
                            HandedStable, Current, NextPreKeyId, faults
<1> QED BY <1>1, <1>2 DEF Decrypt

\* A key that is erased was used.
LEMMA InvRemove == Inv /\ RemovePreKey => Inv'
<1> SUFFICES ASSUME Inv, RemovePreKey PROVE Inv'
  OBVIOUS
<1>1. TypeOK'
  <2>1. /\ refused' = refused /\ lacks' = lacks /\ losses' = losses /\ refusals' \in Nat
        /\ survived' \in [Ids -> Nat] /\ stored' \subseteq Ids
    BY DEF RemovePreKey, RefuseOther, Refuse, faults, Inv, TypeOK
  <2> QED BY <2>1 DEF RemovePreKey, peers, Inv, TypeOK
<1> QED BY <1>1 DEF RemovePreKey, Inv, Booting, Counted, Filling, HandedStable, Current, NextPreKeyId

\* A loss of power clears the node's memory and nothing else.
LEMMA InvLosePower == Inv /\ LosePower => Inv'
<1> SUFFICES ASSUME Inv, LosePower PROVE Inv'
  OBVIOUS
<1>1. survived' \in [Ids -> Nat] /\ losses' \in Nat
  BY DEF LosePower, Inv, TypeOK
<1> QED BY <1>1 DEF LosePower, Inv, TypeOK, Booting, Counted, Filling, Upto, HandedStable, Current,
         NextPreKeyId, nvs, peers

\* The invariant is inductive.
LEMMA InvNext == Inv /\ [Next]_vars => Inv'
<1> SUFFICES ASSUME Inv, [Next]_vars PROVE Inv'
  OBVIOUS
<1>1. CASE Boot \/ GenerateBatch
  BY <1>1, InvBoot, InvGenerate
<1>2. CASE LocalBundleAgain \/ RemovePreKey \/ LosePower
  BY <1>2, InvAnswerAgain, InvRemove, InvLosePower
<1>3. ASSUME NEW p \in Peer, LocalBundle(p) \/ Refill(p) \/ NoIdentity(p) PROVE Inv'
  BY <1>3, InvAnswer
<1>4. ASSUME NEW p \in Peer, RequestBundle(p) \/ ProcessBundle(p) \/ DropBundle(p) \/ SendMessage(p)
      PROVE  Inv'
  BY <1>4, InvPeer
<1>5. ASSUME NEW p \in Peer, Decrypt(p) PROVE Inv'
  BY <1>5, InvDecrypt
<1>6. CASE UNCHANGED vars
  BY <1>6 DEF vars, nvs, ram, peers, history, keys, faults, Inv, TypeOK, Booting, Counted, Filling,
              Upto, HandedStable, Current, NextPreKeyId
<1> QED BY <1>1, <1>2, <1>3, <1>4, <1>5, <1>6 DEF Next

\* The invariant holds throughout.
LEMMA InvAlways == Spec => []Inv
  BY InvInit, InvNext, PTL DEF Spec

\* Every variable keeps its shape; a batch never writes past its end.
THEOREM KeysTypeCorrect == Spec => []TypeOK
<1>1. Inv => TypeOK
  BY DEF Inv
<1> QED BY InvAlways, <1>1, PTL

\* generate_pre_key_batch never stores another key under an identifier that a bundle
\* carried, wherever power is lost and whatever NVS refuses: next_pk_id is written last,
\* and find_unused_pre_key looks no further.
THEOREM HandedKeysStay == Spec => []HandedStable
<1>1. Inv => HandedStable
  BY DEF Inv
<1> QED BY InvAlways, <1>1, PTL

\* pcrypto_local_bundle answers that no key was found only when NVS refused next_pk_id or
\* each key of the batch.
THEOREM RefillFindsUnlessRefused == Spec => []RefillFinds
<1>1. Inv => RefillFinds
  <2> SUFFICES ASSUME Inv, pc = "retry", Unused = {}, "next_pk_id" \notin refused
               PROVE  first .. first + Batch - 1 \subseteq lacks
    BY DEF RefillFinds
  <2>0. Filling
    BY DEF Inv
  <2>1. /\ NextPreKeyId = first + Batch /\ first \in Ids /\ first + Batch - 1 \in Ids
        /\ Upto(first + Batch) \subseteq stored \cup lacks
    BY <2>0 DEF Filling
  <2>2. first .. first + Batch - 1 \subseteq Upto(first + Batch)
    BY <2>1, BatchAssumption DEF Upto, Ids
  <2>3. Upto(first + Batch) \cap stored \subseteq Unused
    BY <2>1 DEF Upto, Unused
  <2> QED BY <2>1, <2>2, <2>3
<1> QED BY InvAlways, <1>1, PTL

-----------------------------------------------------------------------------
(* What a bundle comes from. *)

NoPartRefused == refused \cap {"id_pub", "id_priv"} = {}

\* The parts of the identity are written in this order, and a boot that finds the first of
\* them writes none.  Unless NVS refused id_pub or id_priv, each belongs to the boot of those
\* that were there before it.
Order ==
  /\ handed # {} => regId /\ idPub # 0 /\ spk # 0
  /\ (pc = "retry" \/ (pc = "batch" /\ whom # NoPeer)) => regId
  /\ NoPartRefused =>
       /\ (idPub = 0 => (idPriv = 0 /\ spk = 0))
       /\ (spk # 0 => (idPriv = idPub /\ spk = idPub))
       /\ (pc = "priv" => (idPub = Boots /\ spk = 0))
       /\ ((pc \in {"reg", "spk"} \/ (pc = "batch" /\ whom = NoPeer)) =>
            (idPub = Boots /\ idPriv = Boots /\ spk = 0))

\* A bundle leaves only with a signed pre-key, which is the last part.
LEMMA OrderHandOut ==
  ASSUME Order, regId, NEW p \in Peer, HandOut(p)
  PROVE  Order'
  BY DEF Order, NoPartRefused, HandOut, Complete, nvs, faults, Boots

\* Every step keeps the order.
LEMMA OrderNext == Inv /\ Order /\ [Next]_vars => Order'
<1> SUFFICES ASSUME Inv, Order, [Next]_vars PROVE Order'
  OBVIOUS
<1> USE DEF NoPartRefused, Boots
<1>0. losses + 1 # 0 /\ idPub \in Nat
  BY DEF Inv, TypeOK
<1>1. CASE Boot
  <2>1. CASE FindIdentity
    BY <2>1 DEF FindIdentity, Order, nvs, history, keys, faults
  <2>2. CASE WriteIdPub
    BY <2>2, <1>0 DEF WriteIdPub, RefuseNamed, Order, keys, faults
  <2>3. CASE WriteIdPriv
    BY <2>3, <1>0 DEF WriteIdPriv, RefuseNamed, Order, keys, faults
  <2>4. CASE WriteRegId
    BY <2>4, <1>0 DEF WriteRegId, BeginBatch, RefuseOther, Order, keys, faults
  <2>5. CASE WriteSignedPreKey
    BY <2>5, <1>0 DEF WriteSignedPreKey, RefuseOther, Order, keys, faults
  <2> QED BY <1>1, <2>1, <2>2, <2>3, <2>4, <2>5 DEF Boot
<1>2. CASE WritePreKey
  BY <1>2 DEF WritePreKey, Order
<1>3. CASE WriteNextId
  BY <1>3 DEF WriteNextId, RefuseNamed, Order, keys
<1>4. CASE LocalBundleAgain
  BY <1>4, OrderHandOut DEF LocalBundleAgain, Inv, TypeOK, Order
<1>5. CASE RemovePreKey \/ LosePower \/ UNCHANGED vars
  BY <1>5 DEF RemovePreKey, RefuseOther, LosePower, vars, nvs, ram, history, keys, faults, Order
<1>6. ASSUME NEW p \in Peer, LocalBundle(p) PROVE Order'
  BY <1>6, OrderHandOut DEF LocalBundle
<1>7. ASSUME NEW p \in Peer, Refill(p) PROVE Order'
  BY <1>7, PeerAssumption DEF Refill, BeginBatch, nvs, history, keys, faults, Order
<1>8. ASSUME NEW p \in Peer, OpenFirst(p) \/ StoreRefused(p) PROVE Order'
  BY <1>8 DEF OpenFirst, StoreRefused, Received, RefuseOther, nvs, ram, keys, faults, Order
<1>9. ASSUME NEW p \in Peer, \/ RequestBundle(p) \/ NoIdentity(p) \/ ProcessBundle(p) \/ DropBundle(p)
                             \/ SendMessage(p) \/ OpenKnown(p) \/ CannotOpen(p)
      PROVE  Order'
  <2>1. UNCHANGED <<nvs, ram, handed, refused, losses>>
    BY <1>9 DEF RequestBundle, NoIdentity, ProcessBundle, DropBundle, SendMessage, OpenKnown,
                CannotOpen, history, keys, faults
  <2> QED BY <2>1 DEF Order, nvs, ram
<1> QED BY <1>1, <1>2, <1>3, <1>4, <1>5, <1>6, <1>7, <1>8, <1>9 DEF Next, GenerateBatch, Decrypt

\* pcrypto_local_bundle never answers from an identity that a loss of power cut short, or that
\* mixes two boots, unless NVS refused id_pub or id_priv.
THEOREM HandedIsWhole == Spec => []HandedWhole
<1>1. Init => Order
  BY DEF Init, Order
<1>2. Order => HandedWhole
  BY DEF Order, NoPartRefused, HandedWhole, Signed
<1> QED BY InvAlways, OrderNext, <1>1, <1>2, PTL DEF Spec

-----------------------------------------------------------------------------
(* How often a key is used. *)

\* The sessions opened with a key.
Uses(key) == {s \in served : s[1] = key}

Erasing(id) == pc = "erase" /\ used = id

\* A key that is there, and not being erased, was used as often as it outlived its use at the
\* most; no key is counted that was not made yet.
Spent ==
  /\ IsFiniteSet(served)
  /\ \A s \in served : s[1] \in Key /\ s[1][2] <= made[s[1][1]]
  /\ \A key \in Key : Cardinality(Uses(key)) <= 1 + survived[key[1]]
  /\ \A id \in stored : Erasing(id) \/ Cardinality(Uses(Current(id))) <= survived[id]

\* The uses of a key are a finite set, and one use more adds one at the most.
LEMMA UsesFinite ==
  ASSUME Spent, NEW key
  PROVE  IsFiniteSet(Uses(key)) /\ Cardinality(Uses(key)) \in Nat
<1>1. Uses(key) \subseteq served
  BY DEF Uses
<1> QED BY <1>1, FS_Subset, FS_CardinalityType DEF Spent

\* A step that neither uses, makes nor stores a key, and after which none outlives its use.
LEMMA SpentSame ==
  ASSUME Spent, served' = served, made' = made, survived' = survived, stored' \subseteq stored,
         \A id \in stored' : Erasing(id) => Erasing(id)'
  PROVE  Spent'
  BY DEF Spent, Uses, Current

\* A first message: the session is stored before the key is erased.
LEMMA SpentOpen ==
  ASSUME Inv, Spent, NEW p \in Peer, OpenFirst(p)
  PROVE  Spent'
<1>0. PICK key, u : key = KeyOf(p) /\ u = <<key, p, Base(p)>>
  OBVIOUS
<1>1. /\ key[1] \in stored /\ key = Current(key[1]) /\ pc = "ready"
      /\ served' = served \cup {u} /\ used' = key[1] /\ pc' = "erase"
      /\ stored' = stored /\ made' = made /\ survived' = survived
  BY <1>0 DEF OpenFirst, Openable, Received
<1>2. key[1] \in Ids /\ key \in Key /\ survived[key[1]] \in Nat /\ key[2] = made[key[1]]
      /\ made[key[1]] \in Nat
  <2>1. key[1] \in Ids
    BY <1>1 DEF Inv, TypeOK
  <2> QED BY <1>1, <2>1, KeyShape DEF Inv, TypeOK, Current
<1>4. Cardinality(Uses(key)) <= survived[key[1]]
  BY <1>1 DEF Spent, Erasing
<1>5. IsFiniteSet(served') /\ \A s \in served' : s[1] \in Key /\ s[1][2] <= made'[s[1][1]]
  <2>1. IsFiniteSet(served \cup {u})
    BY FS_AddElement DEF Spent
  <2>2. u[1] \in Key /\ u[1][2] <= made[u[1][1]]
    BY <1>0, <1>2
  <2> QED BY <1>1, <2>1, <2>2 DEF Spent
<1>6. ASSUME NEW other, other # key PROVE Uses(other)' = Uses(other)
  BY <1>0, <1>1, <1>6 DEF Uses
<1>7. Cardinality(Uses(key)') <= 1 + survived[key[1]]
  <2>1. Uses(key)' = Uses(key) \cup {u}
    BY <1>0, <1>1 DEF Uses
  <2>2. IsFiniteSet(Uses(key)) /\ Cardinality(Uses(key)) \in Nat
    BY UsesFinite
  <2>3. \/ Cardinality(Uses(key) \cup {u}) = Cardinality(Uses(key))
        \/ Cardinality(Uses(key) \cup {u}) = Cardinality(Uses(key)) + 1
    BY <2>2, FS_AddElement, Zenon
  <2> DEFINE c == Cardinality(Uses(key))
  <2>4. c \in Nat /\ c <= survived[key[1]]
    BY <1>4, <2>2
  <2>5. Cardinality(Uses(key)') = c \/ Cardinality(Uses(key)') = c + 1
    BY <2>1, <2>3, Zenon
  <2> HIDE DEF c
  <2> QED BY <1>2, <2>4, <2>5
<1>8. \A k \in Key : Cardinality(Uses(k)') <= 1 + survived'[k[1]]
  BY <1>1, <1>6, <1>7 DEF Spent
<1>9. \A id \in stored' : Erasing(id)' \/ Cardinality(Uses(Current(id))') <= survived'[id]
  <2> SUFFICES ASSUME NEW id \in stored, id # key[1]
               PROVE  Cardinality(Uses(Current(id))') <= survived[id]
    BY <1>1 DEF Erasing
  <2>1. Current(id) # key /\ Current(id)' = Current(id) /\ ~Erasing(id)
    BY <1>1 DEF Current, Erasing
  <2>2. Uses(Current(id))' = Uses(Current(id))
    BY <1>0, <1>1, <2>1 DEF Uses
  <2> QED BY <2>1, <2>2 DEF Spent
<1> QED BY <1>5, <1>8, <1>9 DEF Spent

\* A new key was used by nobody.
LEMMA SpentWrite == Inv /\ Spent /\ WritePreKey => Spent'
<1> SUFFICES ASSUME Inv, Spent, WritePreKey PROVE Spent'
  OBVIOUS
<1> SUFFICES ASSUME stored' = stored \cup {at}, made' = [made EXCEPT ![at] = @ + 1] PROVE Spent'
  <2>1. CASE UNCHANGED <<stored, made>>
    <3>1. \A id \in stored' : ~Erasing(id)
      BY DEF WritePreKey, Erasing
    <3> QED BY <2>1, <3>1, SpentSame DEF WritePreKey
  <2> QED BY <2>1 DEF WritePreKey
<1>1. /\ pc = "batch" /\ pc' = pc /\ at \in Ids /\ stored' = stored \cup {at}
      /\ made' = [made EXCEPT ![at] = @ + 1] /\ served' = served /\ survived' = survived
      /\ made \in [Ids -> Nat] /\ survived \in [Ids -> Nat] /\ stored \subseteq Ids
  <2>1. /\ made \in [Ids -> Nat] /\ survived \in [Ids -> Nat] /\ stored \subseteq Ids
        /\ pc = "batch" => first \in Ids /\ at \in first .. first + Batch /\ first + Batch - 1 <= MaxId
    BY DEF Inv, TypeOK
  <2>2. pc = "batch" /\ at < BatchEnd /\ pc' = pc /\ served' = served /\ survived' = survived
    BY DEF WritePreKey
  <2>3. at \in Ids
    BY <2>1, <2>2, BatchAssumption DEF BatchEnd, Ids
  <2> QED BY <2>1, <2>2, <2>3
<1>2. made' \in [Ids -> Nat] /\ \A id \in Ids : made[id] <= made'[id]
  BY <1>1
<1>3. \A s \in served' : s[1] \in Key /\ s[1][2] <= made'[s[1][1]]
  <2> SUFFICES ASSUME NEW s \in served PROVE s[1] \in Key /\ s[1][2] <= made'[s[1][1]]
    BY <1>1
  <2>1. s[1] \in Key /\ s[1][1] \in Ids /\ s[1][2] \in Nat /\ s[1][2] <= made[s[1][1]]
    BY KeyShape DEF Spent, Inv
  <2> QED BY <1>1, <1>2, <2>1
<1>4. \A key \in Key : Cardinality(Uses(key)') <= 1 + survived'[key[1]]
  BY <1>1 DEF Spent, Uses
<1>5. PICK fresh : fresh = <<at, made[at] + 1>>
  OBVIOUS
<1>6. Cardinality(Uses(fresh)') = 0
  <2>1. \A s \in served : s[1] # fresh
    BY <1>1, <1>5 DEF Spent
  <2>2. Uses(fresh)' = {}
    BY <1>1, <2>1 DEF Uses
  <2> QED BY <2>2, FS_EmptySet
<1>7. \A id \in stored' : Erasing(id)' \/ Cardinality(Uses(Current(id))') <= survived'[id]
  <2> SUFFICES ASSUME NEW id \in stored' PROVE Cardinality(Uses(Current(id))') <= survived'[id]
    OBVIOUS
  <2>1. CASE id = at
    <3>1. Current(id)' = fresh
      BY <1>1, <1>5, <2>1 DEF Current
    <3> QED BY <1>1, <1>6, <3>1
  <2>2. CASE id # at
    <3>1. id \in stored /\ Current(id)' = Current(id) /\ ~Erasing(id)
      BY <1>1, <2>2 DEF Current, Erasing
    <3>2. Uses(Current(id))' = Uses(Current(id))
      BY <1>1, <3>1 DEF Uses
    <3> QED BY <1>1, <3>1, <3>2 DEF Spent
  <2> QED BY <2>1, <2>2
<1>8. IsFiniteSet(served')
  BY <1>1 DEF Spent
<1> QED BY <1>3, <1>4, <1>7, <1>8 DEF Spent

\* After this step the key under the identifier that was being erased has outlived its use,
\* whether power was lost or NVS refused to erase it.
Outlived ==
  /\ pc = "erase" /\ used \in Ids
  /\ survived' = [survived EXCEPT ![used] = @ + 1]
  /\ served' = served /\ made' = made /\ stored' = stored

LEMMA SpentOutlived == Inv /\ Spent /\ Outlived => Spent'
<1> SUFFICES ASSUME Inv, Spent, Outlived PROVE Spent'
  OBVIOUS
<1>1. PICK u, v : u = used /\ v = survived'
  OBVIOUS
<1>2. /\ stored' = stored /\ made' = made /\ served' = served /\ stored \subseteq Ids
      /\ survived \in [Ids -> Nat] /\ u \in Ids /\ pc = "erase"
      /\ v = [survived EXCEPT ![u] = @ + 1]
  BY <1>1 DEF Outlived, Inv, TypeOK
<1>3. v \in [Ids -> Nat] /\ v[u] = survived[u] + 1 /\ \A id \in Ids : survived[id] <= v[id]
  BY <1>2
<1>4. \A key : Uses(key)' = Uses(key)
  BY <1>2 DEF Uses
<1>5. ASSUME NEW key \in Key PROVE Cardinality(Uses(key)') <= 1 + v[key[1]]
  <2>1. key[1] \in Ids
    BY KeyShape DEF Inv
  <2>2. Cardinality(Uses(key)) \in Nat /\ Cardinality(Uses(key)) <= 1 + survived[key[1]]
    BY UsesFinite DEF Spent
  <2> QED BY <1>2, <1>3, <1>4, <2>1, <2>2
<1>6. ASSUME NEW id \in stored PROVE Cardinality(Uses(Current(id))') <= v[id]
  <2>1. id \in Ids /\ Current(id)' = Current(id) /\ Current(id) \in Key /\ Current(id)[1] = id
    BY <1>2, KeyShape DEF Inv, Current
  <2>2. Cardinality(Uses(Current(id))) \in Nat /\ Uses(Current(id))' = Uses(Current(id))
    BY <1>2, <2>1, UsesFinite DEF Uses
  <2>3. CASE id = u
    <3>1. Cardinality(Uses(Current(id))) <= 1 + survived[id]
      BY <2>1 DEF Spent
    <3> QED BY <1>2, <1>3, <2>2, <2>3, <3>1
  <2>4. CASE id # u
    <3>1. Cardinality(Uses(Current(id))) <= survived[id]
      BY <1>1, <2>4 DEF Spent, Erasing
    <3> QED BY <1>2, <1>3, <2>1, <2>2, <3>1
  <2> QED BY <2>3, <2>4
<1> QED BY <1>1, <1>2, <1>5, <1>6 DEF Spent

\* Every step keeps the count.
LEMMA SpentNext == Inv /\ Spent /\ [Next]_vars => Spent'
<1> SUFFICES ASSUME Inv, Spent, [Next]_vars PROVE Spent'
  OBVIOUS
<1>1. CASE WritePreKey
  BY <1>1, SpentWrite
<1>2. ASSUME NEW p \in Peer, OpenFirst(p) PROVE Spent'
  BY <1>2, SpentOpen
<1> DEFINE Quiet == /\ served' = served /\ made' = made /\ survived' = survived /\ stored' = stored
                    /\ pc = "erase" => pc' = "erase" /\ used' = used
<1>3. ASSUME Quiet PROVE Spent'
  <2>1. \A id \in stored' : Erasing(id) => Erasing(id)'
    BY <1>3 DEF Erasing
  <2> QED BY <1>3, <2>1, SpentSame
<1>4. CASE LosePower
  <2>1. CASE pc = "erase"
    <3>1. Outlived
      BY <1>4, <2>1 DEF LosePower, Outlived, nvs, Inv, TypeOK
    <3> QED BY <3>1, SpentOutlived
  <2>2. CASE pc # "erase"
    <3>1. Quiet
      BY <1>4, <2>2 DEF LosePower, nvs
    <3> QED BY <3>1, <1>3
  <2> QED BY <2>1, <2>2
<1>5. CASE RemovePreKey
  <2>1. CASE stored' = stored \ {used} /\ survived' = survived
    <3>1. \A id \in stored' : ~Erasing(id)
      BY <2>1 DEF Erasing
    <3> QED BY <1>5, <2>1, <3>1, SpentSame DEF RemovePreKey
  <2>2. CASE Outlived
    BY <2>2, SpentOutlived
  <2> QED BY <1>5, <2>1, <2>2 DEF RemovePreKey, Outlived, Inv, TypeOK
<1>6. CASE Boot
  <2>1. Quiet
    BY <1>6 DEF Boot, FindIdentity, WriteIdPub, WriteIdPriv, WriteRegId, BeginBatch,
                WriteSignedPreKey, nvs, history, keys
  <2> QED BY <2>1, <1>3
<1>7. CASE WriteNextId \/ LocalBundleAgain \/ UNCHANGED vars
  <2>1. Quiet
    BY <1>7 DEF WriteNextId, LocalBundleAgain, HandOut, vars, nvs, ram, history, keys
  <2> QED BY <2>1, <1>3
<1>8. ASSUME NEW p \in Peer, \/ RequestBundle(p) \/ LocalBundle(p) \/ Refill(p) \/ NoIdentity(p)
                             \/ ProcessBundle(p) \/ DropBundle(p) \/ SendMessage(p)
                             \/ OpenKnown(p) \/ StoreRefused(p) \/ CannotOpen(p)
      PROVE  Spent'
  <2>1. Quiet
    BY <1>8 DEF RequestBundle, LocalBundle, Refill, BeginBatch, NoIdentity, Asked, HandOut,
                ProcessBundle, DropBundle, SendMessage, OpenKnown, StoreRefused, CannotOpen, Received,
                nvs, ram, history, keys
  <2> QED BY <2>1, <1>3
<1> QED BY <1>1, <1>2, <1>4, <1>5, <1>6, <1>7, <1>8 DEF Next, GenerateBatch, Decrypt

\* pcrypto_decrypt opens at most one session with a one-time key, and one more for each time
\* that a loss of power or NVS kept it from erasing the key it had used.
THEOREM KeysUsedOnce == Spec => []UsedOnce
<1>1. Init => Spent
  <2> SUFFICES ASSUME Init PROVE Spent
    OBVIOUS
  <2>1. served = {} /\ stored = {} /\ survived = [id \in Ids |-> 0]
    BY DEF Init
  <2>2. \A key : Uses(key) = {}
    BY <2>1 DEF Uses
  <2>3. \A key \in Key : key[1] \in Ids
    BY InvInit, KeyShape DEF Inv
  <2>4. \A key \in Key : Cardinality(Uses(key)) <= 1 + survived[key[1]]
    BY <2>1, <2>2, <2>3, FS_EmptySet
  <2> QED BY <2>1, <2>4, FS_EmptySet DEF Spent
<1>2. Inv /\ Spent => UsedOnce
  BY DEF Inv, TypeOK, Spent, Uses, UsedOnce
<1> QED BY InvAlways, SpentNext, <1>1, <1>2, PTL DEF Spec
=============================================================================
