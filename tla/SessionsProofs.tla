--------------------------- MODULE SessionsProofs ---------------------------
(***************************************************************************)
(* What module Sessions keeps, for any number of callers, slots, messages  *)
(* and stops, in the firmware and on the desktop.                          *)
(*                                                                         *)
(* That a position is used once rests on one fact: the record of a slot is *)
(* never behind a position that was handed out (Behind).  A caller on its  *)
(* way to store a record carries one that is ahead of all of them and of   *)
(* its own (Ahead), and as long as it is alone on its slot nobody else     *)
(* moves the record meanwhile (Alone).  A record of length zero, which the *)
(* desktop leaves behind when it is killed, is behind everything, but no   *)
(* session can be loaded from it, and the next one that is built there     *)
(* gets a new number.                                                      *)
(*                                                                         *)
(* The identity key of a slot stays because every call that brings one was *)
(* let through by is_trusted_identity, and alone on its slot it still      *)
(* brings the first one that was saved (in Ahead) when it saves it.        *)
(***************************************************************************)
EXTENDS Sessions, TLAPS

Working(t) == pc[t] # "idle"

\* Position x is spent in record r.
Behind(x, r) ==
  \/ x[3] < r.base
  \/ /\ x[3] = r.base
     /\ x[1] = "encrypt" => x[4] < r.next
     /\ x[1] = "decrypt" => <<x[3], x[4]>> \in r.seen

\* Two callers on one slot have raced.
Alone ==
  \A t, u \in Task :
    Working(t) /\ Working(u) /\ call[t].slot = call[u].slot /\ call[t].slot \notin raced => t = u

\* Numbers of sessions are those of sessions that were built.
Numbered ==
  /\ \A s \in Slot : session[s].base <= builds[s]
  /\ \A x \in handed : x[3] <= builds[x[2]]
  /\ \A t \in Task : Working(t) =>
       /\ 0 < call[t].new.base
       /\ call[t].new.base <= builds[call[t].slot]
       /\ call[t].op # "process" =>
            /\ call[t].position \in Position
            /\ call[t].position[2] = call[t].slot
            /\ call[t].position[3] <= builds[call[t].slot]

\* What t is about to store is ahead of all that was handed out, and of its own message.
Ahead ==
  \A t \in Task : Working(t) /\ call[t].slot \notin raced =>
    /\ \A x \in handed : x[2] = call[t].slot => Behind(x, call[t].new)
    /\ call[t].op # "process" =>
         /\ call[t].position \notin handed
         /\ Behind(call[t].position, call[t].new)
    /\ pc[t] = "return" => session[call[t].slot] = call[t].new
    /\ call[t].op \in Bringing => first[call[t].slot] \in {NoIdentity, call[t].identity}

\* A record that can be used is ahead of all that was handed out.
Stored ==
  \A s \in Slot \ raced : \A x \in handed :
    x[2] = s => session[s].base = 0 \/ Behind(x, session[s])

\* What is handed out is a message, not a bundle.
Handing == \A t \in Task : pc[t] = "return" => call[t].op # "process"

\* Under the lock nobody races.
Firmware == ~desktop => raced = {}

Inv ==
  /\ TypeOK
  /\ Firmware
  /\ Alone
  /\ Numbered
  /\ Ahead
  /\ Stored
  /\ Handing
  /\ KeyOnce
  /\ Pinned
  /\ Usable

-----------------------------------------------------------------------------
(* The three ways to begin a call build a call of the right shape. *)

LEMMA EncryptShape ==
  ASSUME TypeOK, NEW s \in Slot
  PROVE  [op |-> "encrypt", slot |-> s,
          new |-> [session[s] EXCEPT !.next = @ + 1],
          position |-> <<"encrypt", s, session[s].base, session[s].next>>,
          identity |-> NoIdentity] \in Call
  <1>1. session[s] \in Record
    BY DEF TypeOK
  <1>2. [session[s] EXCEPT !.next = @ + 1] \in Record
    BY <1>1 DEF Record
  <1>3. <<"encrypt", s, session[s].base, session[s].next>> \in Position
    BY <1>1 DEF Record, Position
  <1> QED
    BY <1>2, <1>3 DEF Call, Bringing

LEMMA DecryptShape ==
  ASSUME TypeOK, NEW s \in Slot, NEW m \in Nat
  PROVE  [op |-> "decrypt", slot |-> s,
          new |-> [session[s] EXCEPT !.seen = @ \cup {<<session[s].base, m>>}],
          position |-> <<"decrypt", s, session[s].base, m>>,
          identity |-> NoIdentity] \in Call
  <1>1. session[s] \in Record
    BY DEF TypeOK
  <1>2. [session[s] EXCEPT !.seen = @ \cup {<<session[s].base, m>>}] \in Record
    BY <1>1 DEF Record
  <1>3. <<"decrypt", s, session[s].base, m>> \in Position
    BY <1>1 DEF Record, Position
  <1> QED
    BY <1>2, <1>3 DEF Call, Bringing

LEMMA ProcessShape ==
  ASSUME TypeOK, NEW s \in Slot, NEW id \in Identity
  PROVE  [op |-> "process", slot |-> s,
          new |-> [exists |-> TRUE, base |-> builds[s] + 1, next |-> 0,
                   seen |-> session[s].seen],
          position |-> NoPosition,
          identity |-> id] \in Call
  <1>1. session[s] \in Record /\ builds[s] \in Nat
    BY DEF TypeOK
  <1>2. [exists |-> TRUE, base |-> builds[s] + 1, next |-> 0, seen |-> session[s].seen] \in Record
    BY <1>1 DEF Record
  <1> QED
    BY <1>2 DEF Call, Bringing

LEMMA FirstShape ==
  ASSUME TypeOK, NEW s \in Slot, NEW m \in Nat, NEW id \in Identity
  PROVE  [op |-> "first", slot |-> s,
          new |-> [exists |-> TRUE, base |-> builds[s] + 1, next |-> 0,
                   seen |-> session[s].seen \cup {<<builds[s] + 1, m>>}],
          position |-> <<"decrypt", s, builds[s] + 1, m>>,
          identity |-> id] \in Call
  <1>1. session[s] \in Record /\ builds[s] + 1 \in Nat
    BY DEF TypeOK
  <1>2. [exists |-> TRUE, base |-> builds[s] + 1, next |-> 0,
         seen |-> session[s].seen \cup {<<builds[s] + 1, m>>}] \in Record
    BY <1>1 DEF Record
  <1>3. <<"decrypt", s, builds[s] + 1, m>> \in Position
    BY <1>1 DEF Position
  <1> QED
    BY <1>2, <1>3 DEF Call, Bringing

LEMMA NextShape ==
  ASSUME TypeOK, NEW s \in Slot, NEW m \in Nat, NEW id \in Identity
  PROVE  [op |-> "first", slot |-> s,
          new |-> [session[s] EXCEPT !.seen = @ \cup {<<session[s].base, m>>}],
          position |-> <<"decrypt", s, session[s].base, m>>,
          identity |-> id] \in Call
  <1>1. session[s] \in Record
    BY DEF TypeOK
  <1>2. [session[s] EXCEPT !.seen = @ \cup {<<session[s].base, m>>}] \in Record
    BY <1>1 DEF Record
  <1>3. <<"decrypt", s, session[s].base, m>> \in Position
    BY <1>1 DEF Record, Position
  <1> QED
    BY <1>2, <1>3 DEF Call, Bringing

\* Entering with a call keeps the shape of what Enter changes.
LEMMA EnterShape ==
  ASSUME TypeOK, NEW t \in Task, NEW c \in Call, Enter(t, c)
  PROVE  /\ pc' \in [Task -> {"idle", "store", "write", "pin", "pinwrite", "return"}]
         /\ call' \in [Task -> Call \cup {NoCall}]
         /\ \A u \in Task :
              /\ pc'[u] = "idle" <=> call'[u] = NoCall
              /\ pc'[u] \in {"pin", "pinwrite"} => call'[u].op \in Bringing
              /\ pc'[u] = "return" => call'[u].position \in Position
         /\ raced' \subseteq Slot
  <1>1. c # NoCall /\ c.slot \in Slot
    BY DEF Call, NoCall
  <1> DEFINE step == IF c.op = "first" THEN "pin" ELSE "store"
  <1>2. pc' = [pc EXCEPT ![t] = step] /\ call' = [call EXCEPT ![t] = c]
    BY DEF Enter
  <1>3. step \in {"pin", "store"} /\ (step = "pin" => c.op \in Bringing)
    BY DEF Bringing
  <1>4. raced' \subseteq Slot
    BY <1>1 DEF Enter, TypeOK
  <1> HIDE DEF step
  <1>5. ASSUME NEW u \in Task
        PROVE  /\ pc'[u] = "idle" <=> call'[u] = NoCall
               /\ pc'[u] \in {"pin", "pinwrite"} => call'[u].op \in Bringing
               /\ pc'[u] = "return" => call'[u].position \in Position
    <2>1. CASE u = t
      BY <2>1, <1>1, <1>2, <1>3 DEF TypeOK
    <2>2. CASE u # t
      BY <2>2, <1>2 DEF TypeOK
    <2> QED BY <2>1, <2>2
  <1> QED
    BY <1>2, <1>3, <1>4, <1>5 DEF TypeOK

-----------------------------------------------------------------------------
(* A call may begin when what it is about to store is ahead. *)

CallNumbered(c) ==
  /\ 0 < c.new.base
  /\ c.new.base <= builds'[c.slot]
  /\ c.op # "process" =>
       /\ c.position \in Position
       /\ c.position[2] = c.slot
       /\ c.position[3] <= builds'[c.slot]

CallAhead(c) ==
  c.slot \notin raced =>
    /\ \A x \in handed : x[2] = c.slot => Behind(x, c.new)
    /\ c.op # "process" => c.position \notin handed /\ Behind(c.position, c.new)
    /\ c.op \in Bringing => first[c.slot] \in {NoIdentity, c.identity}

LEMMA EnterKeepsInv ==
  ASSUME Inv, NEW t \in Task, NEW c \in Call, Enter(t, c),
         UNCHANGED <<desktop, nvs, handed, twice, first, stops>>,
         builds' \in [Slot -> Nat], \A s \in Slot : builds[s] <= builds'[s],
         CallNumbered(c), CallAhead(c)
  PROVE  Inv'
<1>1. c.slot \in Slot /\ c # NoCall
  BY DEF Call, NoCall
<1>2. TypeOK'
  <2>1. TypeOK
    BY DEF Inv
  <2> QED
    BY <2>1, EnterShape DEF TypeOK, nvs
<1>3. /\ pc' = [pc EXCEPT ![t] = IF c.op = "first" THEN "pin" ELSE "store"] /\ call' = [call EXCEPT ![t] = c]
      /\ raced \subseteq raced'
      /\ Busy(c.slot) => c.slot \in raced'
      /\ raced' \subseteq raced \cup {c.slot}
  BY DEF Enter
<1>4. /\ pc'[t] \in {"pin", "store"} /\ call'[t] = c
      /\ \A u \in Task \ {t} : pc'[u] = pc[u] /\ call'[u] = call[u]
  BY <1>3 DEF Inv, TypeOK
<1>5. UNCHANGED <<desktop, session, identity, handed, twice, first>>
  BY DEF nvs
<1>6. Firmware'
  <2>1. ~desktop => ~Busy(c.slot)
    BY DEF Enter, Locked, Busy
  <2> QED
    BY <2>1, <1>5 DEF Enter, Inv, Firmware
<1>7. Alone'
  <2>1. SUFFICES ASSUME NEW u \in Task, NEW v \in Task, Working(u)', Working(v)',
                        call'[u].slot = call'[v].slot, call'[u].slot \notin raced'
                 PROVE  u = v
    BY DEF Alone, Working
  <2>2. CASE u # t /\ v # t
    BY <2>1, <2>2, <1>3, <1>4 DEF Inv, Alone, Working
  <2>3. CASE u = t /\ v # t
    <3>1. Busy(c.slot)
      BY <2>1, <2>3, <1>4 DEF Busy, Working
    <3> QED BY <3>1, <2>1, <2>3, <1>3, <1>4
  <2>4. CASE v = t /\ u # t
    <3>1. Busy(c.slot)
      BY <2>1, <2>4, <1>4 DEF Busy, Working
    <3> QED BY <3>1, <2>1, <2>4, <1>3, <1>4
  <2> QED BY <2>2, <2>3, <2>4
<1>8. Numbered'
  <2>1. \A s \in Slot : session'[s].base <= builds'[s]
    BY <1>5 DEF Inv, TypeOK, Numbered, Record
  <2>2. \A x \in handed' : x[3] <= builds'[x[2]]
    <3>1. SUFFICES ASSUME NEW x \in handed PROVE x[3] <= builds'[x[2]]
      BY <1>5
    <3>2. x[2] \in Slot /\ x[3] \in Nat
      BY DEF Inv, TypeOK, Position
    <3>3. x[3] <= builds[x[2]] /\ builds[x[2]] \in Nat
      BY <3>2 DEF Inv, Numbered, TypeOK
    <3>4. builds[x[2]] <= builds'[x[2]] /\ builds'[x[2]] \in Nat
      BY <3>2
    <3> QED BY <3>2, <3>3, <3>4
  <2>3. ASSUME NEW u \in Task, Working(u)'
        PROVE  /\ 0 < call'[u].new.base
               /\ call'[u].new.base <= builds'[call'[u].slot]
               /\ call'[u].op # "process" =>
                    /\ call'[u].position \in Position
                    /\ call'[u].position[2] = call'[u].slot
                    /\ call'[u].position[3] <= builds'[call'[u].slot]
    <3>1. CASE u = t
      BY <3>1, <1>4 DEF CallNumbered
    <3>2. CASE u # t
      <4>1. Working(u) /\ call'[u] = call[u]
        BY <2>3, <3>2, <1>4 DEF Working
      <4>2. call[u] \in Call
        BY <4>1 DEF Inv, TypeOK, Working
      <4>3. call[u].slot \in Slot /\ call[u].new.base \in Nat
        BY <4>2 DEF Call, Record
      <4>4. builds[call[u].slot] \in Nat /\ builds'[call[u].slot] \in Nat
            /\ builds[call[u].slot] <= builds'[call[u].slot]
        BY <4>3 DEF Inv, TypeOK
      <4>5. /\ 0 < call[u].new.base /\ call[u].new.base <= builds[call[u].slot]
            /\ call[u].op # "process" =>
                 /\ call[u].position \in Position
                 /\ call[u].position[2] = call[u].slot
                 /\ call[u].position[3] <= builds[call[u].slot]
        BY <4>1 DEF Inv, Numbered
      <4>6. call[u].position \in Position => call[u].position[3] \in Nat
        BY DEF Position
      <4> QED BY <4>1, <4>3, <4>4, <4>5, <4>6
    <3> QED BY <3>1, <3>2
  <2> QED BY <2>1, <2>2, <2>3 DEF Numbered, Working
<1>9. Ahead'
  <2>1. SUFFICES ASSUME NEW u \in Task, Working(u)', call'[u].slot \notin raced'
                 PROVE  /\ \A x \in handed : x[2] = call'[u].slot => Behind(x, call'[u].new)
                        /\ call'[u].op # "process" =>
                             /\ call'[u].position \notin handed
                             /\ Behind(call'[u].position, call'[u].new)
                        /\ pc'[u] = "return" => session[call'[u].slot] = call'[u].new
                        /\ call'[u].op \in Bringing =>
                             first[call'[u].slot] \in {NoIdentity, call'[u].identity}
    BY <1>5 DEF Ahead, Working, Behind
  <2>2. CASE u = t
    BY <2>1, <2>2, <1>3, <1>4 DEF CallAhead
  <2>3. CASE u # t
    <3>1. Working(u) /\ call'[u] = call[u] /\ pc'[u] = pc[u] /\ call[u].slot \notin raced
      BY <2>1, <2>3, <1>3, <1>4 DEF Working
    <3> QED BY <3>1 DEF Inv, Ahead
  <2> QED BY <2>2, <2>3
<1>10. Stored'
  BY <1>3, <1>5 DEF Inv, Stored, Behind
<1>11. KeyOnce'
  BY <1>3, <1>5 DEF Inv, KeyOnce
<1>12. Usable'
  BY <1>5 DEF Inv, Usable, HasSession, Loaded
<1>13. Handing'
  BY <1>4 DEF Inv, Handing
<1>14. Pinned'
  BY <1>3, <1>5 DEF Inv, Pinned
<1> QED
  BY <1>2, <1>6, <1>7, <1>8, <1>9, <1>10, <1>11, <1>12, <1>13, <1>14 DEF Inv

\* What a slot trusts is the first key that was saved there, if one was.
LEMMA TrustedFirst ==
  ASSUME Inv, NEW s \in Slot, NEW id \in Identity, Trusted(s, id)
  PROVE  s \notin raced => first[s] \in {NoIdentity, id}
BY IdentityAssumption DEF Inv, Pinned, Trusted

\* A record that can be loaded and its slot's number.
LEMMA LoadedRecord ==
  ASSUME Inv, NEW s \in Slot, Loaded(s)
  PROVE  /\ session[s] \in Record
         /\ 0 < session[s].base
         /\ session[s].base <= builds[s]
         /\ s \notin raced => \A x \in handed : x[2] = s => Behind(x, session[s])
<1>1. session[s] \in Record
  BY DEF Inv, TypeOK
<1>2. session[s].base \in Nat /\ session[s].base # 0
  BY <1>1 DEF Record, Loaded
<1> QED
  BY <1>1, <1>2 DEF Inv, Numbered, Stored

\* pcrypto_encrypt takes the next position.
LEMMA BeginEncryptKeepsInv ==
  ASSUME Inv, NEW t \in Task, NEW s \in Slot, BeginEncrypt(t, s)
  PROVE  Inv'
<1> DEFINE r == session[s]
           n == [r EXCEPT !.next = @ + 1]
           x0 == <<"encrypt", s, r.base, r.next>>
           c == [op |-> "encrypt", slot |-> s, new |-> n, position |-> x0, identity |-> NoIdentity]
<1>1. Loaded(s) /\ Enter(t, c) /\ UNCHANGED <<desktop, nvs, builds, handed, twice, first, stops>>
  BY DEF BeginEncrypt
<1>2. /\ r \in Record /\ 0 < r.base /\ r.base <= builds[s]
      /\ s \notin raced => \A x \in handed : x[2] = s => Behind(x, r)
  BY <1>1, LoadedRecord
<1>3. n.base = r.base /\ n.next = r.next + 1 /\ n.seen = r.seen /\ r.next \in Nat
  BY <1>2 DEF Record
<1>4. c \in Call
  BY EncryptShape DEF Inv
<1>5. x0 \in Position
  BY <1>2, <1>3 DEF Position, Record
<1>6. CallNumbered(c)
  BY <1>1, <1>2, <1>3, <1>5 DEF CallNumbered
<1>7. CallAhead(c)
  <2>1. SUFFICES ASSUME s \notin raced
                 PROVE  /\ \A x \in handed : x[2] = s => Behind(x, n)
                        /\ x0 \notin handed /\ Behind(x0, n)
    BY DEF CallAhead, Bringing
  <2>2. ASSUME NEW x \in handed, x[2] = s PROVE Behind(x, n)
    <3>1. Behind(x, r)
      BY <2>1, <2>2, <1>2
    <3>2. x[4] \in Nat
      BY DEF Inv, TypeOK, Position
    <3> QED BY <3>1, <3>2, <1>3 DEF Behind
  <2>3. x0 \notin handed
    <3>1. ~Behind(x0, r)
      BY <1>2, <1>3 DEF Behind, Record
    <3> QED BY <3>1, <1>2, <2>1
  <2>4. Behind(x0, n)
    BY <1>3 DEF Behind
  <2> QED BY <2>2, <2>3, <2>4
<1>8. builds' \in [Slot -> Nat] /\ \A u \in Slot : builds[u] <= builds'[u]
  BY <1>1 DEF Inv, TypeOK
<1> HIDE DEF c
<1> QED
  BY <1>1, <1>4, <1>6, <1>7, <1>8, EnterKeepsInv

\* pcrypto_decrypt opens a message that was not opened before.
LEMMA BeginDecryptKeepsInv ==
  ASSUME Inv, NEW t \in Task, NEW s \in Slot, NEW m \in Nat, BeginDecrypt(t, s, m)
  PROVE  Inv'
<1> DEFINE r == session[s]
           n == [r EXCEPT !.seen = @ \cup {<<r.base, m>>}]
           x0 == <<"decrypt", s, r.base, m>>
           c == [op |-> "decrypt", slot |-> s, new |-> n, position |-> x0, identity |-> NoIdentity]
<1>1. /\ Loaded(s) /\ Enter(t, c) /\ <<r.base, m>> \notin r.seen
      /\ UNCHANGED <<desktop, nvs, builds, handed, twice, first, stops>>
  BY DEF BeginDecrypt
<1>2. /\ r \in Record /\ 0 < r.base /\ r.base <= builds[s]
      /\ s \notin raced => \A x \in handed : x[2] = s => Behind(x, r)
  BY <1>1, LoadedRecord
<1>3. n.base = r.base /\ n.next = r.next /\ n.seen = r.seen \cup {<<r.base, m>>}
  BY <1>2 DEF Record
<1>4. c \in Call
  BY DecryptShape DEF Inv
<1>5. x0 \in Position
  BY <1>2 DEF Position, Record
<1>6. CallNumbered(c)
  BY <1>1, <1>2, <1>3, <1>5 DEF CallNumbered
<1>7. CallAhead(c)
  <2>1. SUFFICES ASSUME s \notin raced
                 PROVE  /\ \A x \in handed : x[2] = s => Behind(x, n)
                        /\ x0 \notin handed /\ Behind(x0, n)
    BY DEF CallAhead, Bringing
  <2>2. ASSUME NEW x \in handed, x[2] = s PROVE Behind(x, n)
    <3>1. Behind(x, r)
      BY <2>1, <2>2, <1>2
    <3> QED BY <3>1, <1>3 DEF Behind
  <2>3. x0 \notin handed
    <3>1. ~Behind(x0, r)
      BY <1>1, <1>2 DEF Behind, Record
    <3> QED BY <3>1, <1>2, <2>1
  <2>4. Behind(x0, n)
    BY <1>3 DEF Behind
  <2> QED BY <2>2, <2>3, <2>4
<1>8. builds' \in [Slot -> Nat] /\ \A u \in Slot : builds[u] <= builds'[u]
  BY <1>1 DEF Inv, TypeOK
<1> HIDE DEF c
<1> QED
  BY <1>1, <1>4, <1>6, <1>7, <1>8, EnterKeepsInv

\* pcrypto_process_bundle builds a session with a number of its own.
LEMMA BeginProcessBundleKeepsInv ==
  ASSUME Inv, NEW t \in Task, NEW s \in Slot, NEW id \in Identity, BeginProcessBundle(t, s, id)
  PROVE  Inv'
<1> DEFINE n == [exists |-> TRUE, base |-> builds[s] + 1, next |-> 0, seen |-> session[s].seen]
           c == [op |-> "process", slot |-> s, new |-> n, position |-> NoPosition, identity |-> id]
<1>1. /\ Trusted(s, id) /\ Enter(t, c) /\ builds' = [builds EXCEPT ![s] = @ + 1]
      /\ UNCHANGED <<desktop, nvs, handed, twice, first, stops>>
  BY DEF BeginProcessBundle
<1>2. builds \in [Slot -> Nat]
  BY DEF Inv, TypeOK
<1>3. builds' \in [Slot -> Nat] /\ \A u \in Slot : builds[u] <= builds'[u]
  BY <1>1, <1>2
<1>4. c \in Call
  BY ProcessShape DEF Inv
<1>5. CallNumbered(c)
  BY <1>1, <1>2 DEF CallNumbered
<1>6. CallAhead(c)
  <2>1. ASSUME NEW x \in handed, x[2] = s PROVE Behind(x, n)
    <3>1. x[3] <= builds[s] /\ x[3] \in Nat
      BY <2>1 DEF Inv, Numbered, TypeOK, Position
    <3>2. x[3] < n.base
      BY <3>1, <1>2
    <3> QED BY <3>2 DEF Behind
  <2> QED BY <2>1, <1>1, TrustedFirst DEF CallAhead
<1> HIDE DEF c
<1> QED
  BY <1>1, <1>3, <1>4, <1>5, <1>6, EnterKeepsInv

\* A peer's first message opens in a session with a number of its own ...
LEMMA BeginDecryptFirstKeepsInv ==
  ASSUME Inv, NEW t \in Task, NEW s \in Slot, NEW id \in Identity, NEW m \in Nat,
         BeginDecryptFirst(t, s, id, m)
  PROVE  Inv'
<1> DEFINE b == builds[s] + 1
           n == [exists |-> TRUE, base |-> b, next |-> 0, seen |-> session[s].seen \cup {<<b, m>>}]
           x0 == <<"decrypt", s, b, m>>
           c == [op |-> "first", slot |-> s, new |-> n, position |-> x0, identity |-> id]
<1>1. /\ Trusted(s, id) /\ Enter(t, c) /\ builds' = [builds EXCEPT ![s] = @ + 1]
      /\ UNCHANGED <<desktop, nvs, handed, twice, first, stops>>
  BY DEF BeginDecryptFirst
<1>2. builds \in [Slot -> Nat]
  BY DEF Inv, TypeOK
<1>3. builds' \in [Slot -> Nat] /\ \A u \in Slot : builds[u] <= builds'[u]
  BY <1>1, <1>2
<1>4. c \in Call
  BY FirstShape DEF Inv
<1>5. CallNumbered(c)
  BY <1>1, <1>2 DEF CallNumbered, Position
<1>6. CallAhead(c)
  <2>1. ASSUME NEW x \in handed, x[2] = s PROVE Behind(x, n) /\ x # x0
    <3>1. x[3] <= builds[s] /\ x[3] \in Nat
      BY <2>1 DEF Inv, Numbered, TypeOK, Position
    <3>2. x[3] < n.base
      BY <3>1, <1>2
    <3> QED BY <3>2, <1>2 DEF Behind
  <2>2. x0 \notin handed /\ Behind(x0, n)
    BY <2>1 DEF Behind
  <2> QED BY <2>1, <2>2, <1>1, TrustedFirst DEF CallAhead
<1> HIDE DEF c
<1> QED
  BY <1>1, <1>3, <1>4, <1>5, <1>6, EnterKeepsInv

\* ... and those that follow it in the one that is there.
LEMMA BeginDecryptNextKeepsInv ==
  ASSUME Inv, NEW t \in Task, NEW s \in Slot, NEW id \in Identity, NEW m \in Nat,
         BeginDecryptNext(t, s, id, m)
  PROVE  Inv'
<1> DEFINE r == session[s]
           n == [r EXCEPT !.seen = @ \cup {<<r.base, m>>}]
           x0 == <<"decrypt", s, r.base, m>>
           c == [op |-> "first", slot |-> s, new |-> n, position |-> x0, identity |-> id]
<1>1. /\ Loaded(s) /\ Trusted(s, id) /\ Enter(t, c) /\ <<r.base, m>> \notin r.seen
      /\ UNCHANGED <<desktop, nvs, builds, handed, twice, first, stops>>
  BY DEF BeginDecryptNext
<1>2. /\ r \in Record /\ 0 < r.base /\ r.base <= builds[s]
      /\ s \notin raced => \A x \in handed : x[2] = s => Behind(x, r)
  BY <1>1, LoadedRecord
<1>3. n.base = r.base /\ n.next = r.next /\ n.seen = r.seen \cup {<<r.base, m>>}
  BY <1>2 DEF Record
<1>4. c \in Call
  BY NextShape DEF Inv
<1>5. x0 \in Position
  BY <1>2 DEF Position, Record
<1>6. CallNumbered(c)
  BY <1>1, <1>2, <1>3, <1>5 DEF CallNumbered
<1>7. CallAhead(c)
  <2>1. SUFFICES ASSUME s \notin raced
                 PROVE  /\ \A x \in handed : x[2] = s => Behind(x, n)
                        /\ x0 \notin handed /\ Behind(x0, n)
                        /\ first[s] \in {NoIdentity, id}
    BY DEF CallAhead
  <2>2. ASSUME NEW x \in handed, x[2] = s PROVE Behind(x, n)
    <3>1. Behind(x, r)
      BY <2>1, <2>2, <1>2
    <3> QED BY <3>1, <1>3 DEF Behind
  <2>3. x0 \notin handed
    <3>1. ~Behind(x0, r)
      BY <1>1, <1>2 DEF Behind, Record
    <3> QED BY <3>1, <1>2, <2>1
  <2>4. Behind(x0, n)
    BY <1>3 DEF Behind
  <2>5. first[s] \in {NoIdentity, id}
    BY <1>1, <2>1, TrustedFirst
  <2> QED BY <2>2, <2>3, <2>4, <2>5
<1>8. builds' \in [Slot -> Nat] /\ \A u \in Slot : builds[u] <= builds'[u]
  BY <1>1 DEF Inv, TypeOK
<1> HIDE DEF c
<1> QED
  BY <1>1, <1>4, <1>6, <1>7, <1>8, EnterKeepsInv

-----------------------------------------------------------------------------
(* A caller that stores: the record of its slot is emptied or replaced. *)

LEMMA RecordMoves ==
  ASSUME Inv, NEW t \in Task, Working(t), NEW r \in Record, NEW to,
         session' = [session EXCEPT ![call[t].slot] = r],
         pc' = [pc EXCEPT ![t] = to],
         UNCHANGED <<desktop, identity, call, history>>,
         to \in {"write", "pin", "return"},
         to = "pin" <=> r = call[t].new /\ call[t].op = "process",
         to = "return" <=> r = call[t].new /\ call[t].op # "process",
         r.base = 0 \/ r = call[t].new,
         ~desktop => r = call[t].new
  PROVE  Inv'
<1> DEFINE s == call[t].slot
<1>1. call[t] \in Call /\ s \in Slot
  BY DEF Inv, TypeOK, Working, Call
<1>2. /\ session'[s] = r
      /\ \A v \in Slot \ {s} : session'[v] = session[v]
      /\ pc'[t] = to
      /\ \A u \in Task \ {t} : pc'[u] = pc[u]
      /\ UNCHANGED <<desktop, identity, call, builds, handed, twice, raced, first, stops>>
  BY <1>1 DEF Inv, TypeOK, history
<1>3. \A u \in Task : Working(u)' <=> Working(u)
  BY <1>2 DEF Working
<1>4. call[t].op # "process" => call[t].position \in Position
  BY DEF Inv, Numbered
<1>5. TypeOK'
  <2>1. session' \in [Slot -> Record]
    BY <1>1 DEF Inv, TypeOK
  <2>2. pc' \in [Task -> {"idle", "store", "write", "pin", "pinwrite", "return"}]
    BY DEF Inv, TypeOK
  <2>3. ASSUME NEW u \in Task
        PROVE  /\ pc'[u] = "idle" <=> call'[u] = NoCall
               /\ pc'[u] \in {"pin", "pinwrite"} => call'[u].op \in Bringing
               /\ pc'[u] = "return" => call'[u].position \in Position
    <3>1. CASE u = t
      <4>1. pc'[t] \in {"write", "pin", "return"} /\ call'[t] = call[t]
        BY <1>2
      <4>2. call[t] # NoCall
        BY DEF Inv, TypeOK, Working
      <4>3. pc'[t] = "pin" => call[t].op \in Bringing
        BY <1>2 DEF Bringing
      <4>4. pc'[t] = "return" => call[t].position \in Position
        BY <1>2, <1>4
      <4> QED BY <3>1, <4>1, <4>2, <4>3, <4>4
    <3>2. CASE u # t
      BY <3>2, <1>2 DEF Inv, TypeOK
    <3> QED BY <3>1, <3>2
  <2> QED
    BY <2>1, <2>2, <2>3, <1>2 DEF Inv, TypeOK
<1>6. Firmware'
  BY <1>2 DEF Inv, Firmware
<1>7. Alone'
  BY <1>2, <1>3 DEF Inv, Alone
<1>8. Numbered'
  <2>1. ASSUME NEW v \in Slot PROVE session'[v].base <= builds[v]
    <3>1. CASE v = s
      <4>1. call[t].new.base <= builds[s] /\ builds[s] \in Nat
        BY <1>1 DEF Inv, Numbered, TypeOK
      <4> QED BY <3>1, <4>1, <1>2
    <3>2. CASE v # s
      BY <3>2, <1>2 DEF Inv, Numbered
    <3> QED BY <3>1, <3>2
  <2> QED BY <2>1, <1>2, <1>3 DEF Inv, Numbered
<1>9. Ahead'
  <2>1. SUFFICES ASSUME NEW u \in Task, Working(u), call[u].slot \notin raced
                 PROVE  pc'[u] = "return" => session'[call[u].slot] = call[u].new
    BY <1>2, <1>3 DEF Inv, Ahead, Behind
  <2>2. CASE u = t
    BY <2>2, <1>2
  <2>3. CASE u # t
    <3>1. call[u].slot # s
      BY <2>1, <2>3 DEF Inv, Alone
    <3>2. call[u].slot \in Slot
      BY <2>1 DEF Inv, TypeOK, Working, Call
    <3> QED BY <2>1, <2>3, <3>1, <3>2, <1>2 DEF Inv, Ahead
  <2> QED BY <2>2, <2>3
<1>10. Stored'
  <2>1. ASSUME NEW v \in Slot \ raced, NEW x \in handed, x[2] = v
        PROVE  session'[v].base = 0 \/ Behind(x, session'[v])
    <3>1. CASE v = s
      BY <2>1, <3>1, <1>2 DEF Inv, Ahead
    <3>2. CASE v # s
      BY <2>1, <3>2, <1>2 DEF Inv, Stored
    <3> QED BY <3>1, <3>2
  <2> QED BY <2>1, <1>2 DEF Stored, Behind
<1>11. KeyOnce'
  BY <1>2 DEF Inv, KeyOnce
<1>12. Usable'
  <2>1. SUFFICES ASSUME ~desktop, NEW v \in Slot, session'[v].exists PROVE session'[v].base # 0
    BY <1>2 DEF Usable, HasSession, Loaded
  <2>2. CASE v = s
    <3>1. 0 < call[t].new.base
      BY DEF Inv, Numbered
    <3> QED BY <2>1, <2>2, <3>1, <1>2
  <2>3. CASE v # s
    BY <2>1, <2>3, <1>2 DEF Inv, Usable, HasSession, Loaded
  <2> QED BY <2>2, <2>3
<1>13. Handing'
  BY <1>2 DEF Inv, Handing
<1>14. Pinned'
  BY <1>2 DEF Inv, Pinned
<1> QED
  BY <1>5, <1>6, <1>7, <1>8, <1>9, <1>10, <1>11, <1>12, <1>13, <1>14 DEF Inv

\* nvs_set_blob of the desktop, its first half.
LEMMA TruncateKeepsInv ==
  ASSUME Inv, NEW t \in Task, Truncate(t)
  PROVE  Inv'
<1>1. /\ pc[t] = "store" /\ desktop
      /\ session' = [session EXCEPT ![call[t].slot] = Empty]
      /\ pc' = [pc EXCEPT ![t] = "write"]
      /\ UNCHANGED <<desktop, identity, call, history>>
  BY DEF Truncate, Truncates, Goes
<1>2. Working(t)
  BY <1>1 DEF Working
<1>3. Empty \in Record /\ Empty.base = 0
  BY DEF Empty, Absent, Record
<1>4. call[t].new # Empty
  <2>1. 0 < call[t].new.base
    BY <1>2 DEF Inv, Numbered
  <2> QED BY <2>1, <1>3
<1> QED
  BY <1>1, <1>2, <1>3, <1>4, RecordMoves

\* nvs_set_blob, and the way on.
LEMMA WriteKeepsInv ==
  ASSUME Inv, NEW t \in Task, Write(t)
  PROVE  Inv'
<1>1. /\ pc[t] \in {"store", "write"}
      /\ session' = [session EXCEPT ![call[t].slot] = call[t].new]
      /\ pc' = [pc EXCEPT ![t] = Written(t)]
      /\ UNCHANGED <<desktop, identity, call, history>>
  BY DEF Write, Goes
<1>2. Working(t)
  BY <1>1 DEF Working
<1>3. call[t].new \in Record
  BY <1>2 DEF Inv, TypeOK, Working, Call
<1>4. /\ Written(t) \in {"write", "pin", "return"}
      /\ Written(t) = "pin" <=> call[t].op = "process"
      /\ Written(t) = "return" <=> call[t].op # "process"
  BY DEF Written
<1> QED
  BY <1>1, <1>2, <1>3, <1>4, RecordMoves

-----------------------------------------------------------------------------
(* Callers that leave. *)

\* A caller that is still there has not moved.
Fewer == \A u \in Task : Working(u)' => pc'[u] = pc[u] /\ call'[u] = call[u]

LEMMA LeavesShape ==
  ASSUME TypeOK, NEW t \in Task, Leaves(t)
  PROVE  /\ Fewer
         /\ pc' \in [Task -> {"idle", "store", "write", "pin", "pinwrite", "return"}]
         /\ call' \in [Task -> Call \cup {NoCall}]
         /\ \A u \in Task :
              /\ pc'[u] = "idle" <=> call'[u] = NoCall
              /\ pc'[u] \in {"pin", "pinwrite"} => call'[u].op \in Bringing
              /\ pc'[u] = "return" => call'[u].position \in Position
         /\ pc'[t] = "idle"
BY DEF Leaves, Goes, TypeOK, Fewer, Working

LEMMA FewerKeepsInv ==
  ASSUME Inv, Fewer, TypeOK', UNCHANGED <<desktop, session, identity, builds, handed, twice, raced, first>>
  PROVE  Inv'
<1>1. \A u \in Task : Working(u)' => Working(u)
  BY DEF Fewer, Working
<1>2. Firmware' /\ Stored' /\ KeyOnce' /\ Pinned' /\ Usable'
  BY DEF Inv, Firmware, Stored, Behind, KeyOnce, Pinned, Usable, HasSession, Loaded
<1>3. Alone'
  BY <1>1 DEF Inv, Alone, Fewer
<1>4. Numbered'
  BY <1>1 DEF Inv, Numbered, Fewer
<1>5. Ahead'
  BY <1>1 DEF Inv, Ahead, Behind, Fewer
<1>6. Handing'
  BY <1>1 DEF Inv, Handing, Fewer, Working
<1> QED
  BY <1>2, <1>3, <1>4, <1>5, <1>6 DEF Inv

\* A failed write, lost power, a killed process.
LEMMA StoreFailsKeepsInv ==
  ASSUME Inv, NEW t \in Task, StoreFails(t)
  PROVE  Inv'
<1>1. Leaves(t) /\ UNCHANGED <<desktop, session, identity, builds, handed, twice, raced, first, stops>>
  BY DEF StoreFails, FailurePassedOn, nvs, history
<1>2. Fewer
  BY <1>1, LeavesShape DEF Inv
<1>3. TypeOK'
  BY <1>1, LeavesShape DEF Inv, TypeOK
<1> QED
  BY <1>1, <1>2, <1>3, FewerKeepsInv

LEMMA StopKeepsInv ==
  ASSUME Inv, NEW t \in Task, Stop(t)
  PROVE  Inv'
<1>1. UNCHANGED <<desktop, session, identity, builds, handed, twice, raced, first>>
  BY DEF Stop, nvs
<1>2. Fewer
  BY DEF Stop, Fewer, Working
<1>3. TypeOK'
  BY <1>1 DEF Inv, TypeOK, Stop
<1> QED
  BY <1>1, <1>2, <1>3, FewerKeepsInv

-----------------------------------------------------------------------------
(* save_identity. *)

\* After it libsignal has done, or goes on to store the session: nobody else moves.
LEMMA GoesOnShape ==
  ASSUME TypeOK, NEW t \in Task, pc[t] \in {"pin", "pinwrite"}, GoesOn(t)
  PROVE  /\ pc' \in [Task -> {"idle", "store", "write", "pin", "pinwrite", "return"}]
         /\ call' \in [Task -> Call \cup {NoCall}]
         /\ \A u \in Task :
              /\ pc'[u] = "idle" <=> call'[u] = NoCall
              /\ pc'[u] \in {"pin", "pinwrite"} => call'[u].op \in Bringing
              /\ pc'[u] = "return" => call'[u].position \in Position
         /\ pc'[t] \in {"idle", "store"}
         /\ \A u \in Task : Working(u)' => Working(u) /\ call'[u] = call[u] /\ (u # t => pc'[u] = pc[u])
<1>1. CASE Leaves(t)
  BY <1>1 DEF Leaves, Goes, TypeOK, Working
<1>2. CASE Goes(t, "store") /\ UNCHANGED call
  BY <1>2 DEF Goes, TypeOK, Working
<1> QED BY <1>1, <1>2 DEF GoesOn

\* A step of save_identity keeps the invariant if it keeps the identity keys as Pinned
\* wants them, and the first ones of the slots where it is not alone.
LEMMA IdentityKeepsInv ==
  ASSUME Inv, TypeOK', NEW t \in Task, Working(t),
         \A u \in Task : Working(u)' => Working(u) /\ call'[u] = call[u] /\ (u # t => pc'[u] = pc[u]),
         pc'[t] # "return",
         UNCHANGED <<desktop, session, builds, handed, twice, raced>>,
         Pinned',
         \A s \in Slot : s # call[t].slot => first'[s] = first[s],
         call[t].slot \notin raced =>
           (call[t].op \in Bringing => first'[call[t].slot] \in {NoIdentity, call[t].identity})
  PROVE  Inv'
<1>1. Firmware' /\ Stored' /\ KeyOnce' /\ Usable'
  BY DEF Inv, Firmware, Stored, Behind, KeyOnce, Usable, HasSession, Loaded
<1>2. Alone' /\ Numbered'
  BY DEF Inv, Alone, Numbered
<1>3. Handing'
  BY DEF Inv, Handing, Working
<1>4. Ahead'
  <2>1. SUFFICES ASSUME NEW u \in Task, Working(u)', call[u].slot \notin raced
                 PROVE  /\ pc'[u] = "return" => pc[u] = "return"
                        /\ call[u].op \in Bringing => first'[call[u].slot] \in {NoIdentity, call[u].identity}
    BY DEF Inv, Ahead, Behind, Working
  <2>2. CASE u = t
    BY <2>1, <2>2
  <2>3. CASE u # t
    <3>1. Working(u) /\ call[u].slot # call[t].slot /\ pc'[u] = pc[u]
      BY <2>1, <2>3 DEF Inv, Alone
    <3>2. call[u].slot \in Slot
      BY <3>1 DEF Inv, TypeOK, Working, Call
    <3> QED BY <2>1, <3>1, <3>2 DEF Inv, Ahead
  <2> QED BY <2>2, <2>3
<1> QED
  BY <1>1, <1>2, <1>3, <1>4 DEF Inv

\* Who saves an identity key has one, and it is the first of its slot if it is alone there.
LEMMA AtPin ==
  ASSUME Inv, NEW t \in Task, pc[t] \in {"pin", "pinwrite"}
  PROVE  /\ Working(t)
         /\ call[t].slot \in Slot /\ call[t].identity \in Identity /\ call[t].op \in Bringing
         /\ call[t].slot \notin raced => first[call[t].slot] \in {NoIdentity, call[t].identity}
<1>1. Working(t)
  BY DEF Working
<1>2. call[t] \in Call /\ call[t].op \in Bringing
  BY <1>1 DEF Inv, TypeOK, Working
<1>3. call[t].slot \in Slot /\ call[t].identity \in Identity
  BY <1>2 DEF Call, Bringing
<1> QED BY <1>1, <1>2, <1>3 DEF Inv, Ahead

\* On the desktop the file is emptied first ...
LEMMA TruncateIdentityKeepsInv ==
  ASSUME Inv, NEW t \in Task, TruncateIdentity(t)
  PROVE  Inv'
<1> DEFINE s == call[t].slot
<1>1. /\ pc[t] = "pin" /\ desktop
      /\ identity' = [identity EXCEPT ![s] = EmptyIdentity]
      /\ pc' = [pc EXCEPT ![t] = "pinwrite"]
      /\ UNCHANGED <<desktop, session, call, builds, handed, twice, raced, first, stops>>
  BY DEF TruncateIdentity, Truncates, Goes, history
<1>2. /\ Working(t) /\ s \in Slot /\ call[t].op \in Bringing
      /\ s \notin raced => first[s] \in {NoIdentity, call[t].identity}
  BY <1>1, AtPin
<1>3. /\ pc'[t] = "pinwrite"
      /\ \A u \in Task \ {t} : pc'[u] = pc[u]
  BY <1>1 DEF Inv, TypeOK
<1>4. TypeOK'
  <2>1. identity' \in [Slot -> Identity \cup {NoIdentity, EmptyIdentity}]
    BY <1>1 DEF Inv, TypeOK
  <2>2. pc' \in [Task -> {"idle", "store", "write", "pin", "pinwrite", "return"}]
    BY <1>1 DEF Inv, TypeOK
  <2>3. ASSUME NEW u \in Task
        PROVE  /\ pc'[u] = "idle" <=> call'[u] = NoCall
               /\ pc'[u] \in {"pin", "pinwrite"} => call'[u].op \in Bringing
               /\ pc'[u] = "return" => call'[u].position \in Position
    <3>1. CASE u = t
      BY <3>1, <1>1, <1>2, <1>3 DEF Inv, TypeOK
    <3>2. CASE u # t
      BY <3>2, <1>1, <1>3 DEF Inv, TypeOK
    <3> QED BY <3>1, <3>2
  <2> QED BY <2>1, <2>2, <2>3, <1>1 DEF Inv, TypeOK
<1>5. Pinned'
  <2>1. ASSUME NEW v \in Slot
        PROVE  identity'[v] = first[v] \/ (desktop /\ (identity'[v] = EmptyIdentity \/ v \in raced))
    <3>1. CASE v = s
      BY <3>1, <1>1 DEF Inv, TypeOK
    <3>2. CASE v # s
      BY <3>2, <1>1 DEF Inv, TypeOK, Pinned
    <3> QED BY <3>1, <3>2
  <2> QED BY <2>1, <1>1 DEF Pinned
<1>6. \A u \in Task : Working(u)' => Working(u) /\ call'[u] = call[u] /\ (u # t => pc'[u] = pc[u])
  BY <1>1, <1>2, <1>3 DEF Working
<1> QED
  BY <1>1, <1>2, <1>3, <1>4, <1>5, <1>6, IdentityKeepsInv

\* ... and then the key is written, the one that was there before or the first ...
LEMMA SaveIdentityKeepsInv ==
  ASSUME Inv, NEW t \in Task, SaveIdentity(t)
  PROVE  Inv'
<1> DEFINE s == call[t].slot
           f == IF first[s] = NoIdentity THEN call[t].identity ELSE first[s]
<1>1. /\ pc[t] \in {"pin", "pinwrite"} /\ GoesOn(t)
      /\ UNCHANGED <<desktop, session, builds, handed, twice, raced, stops>>
      /\ identity' = [identity EXCEPT ![s] = call[t].identity]
      /\ first' = [first EXCEPT ![s] = f]
  BY DEF SaveIdentity
<1>2. /\ Working(t) /\ s \in Slot /\ call[t].identity \in Identity /\ call[t].op \in Bringing
      /\ s \notin raced => first[s] \in {NoIdentity, call[t].identity}
  BY <1>1, AtPin
<1>3. /\ identity'[s] = call[t].identity /\ first'[s] = f
      /\ \A v \in Slot \ {s} : identity'[v] = identity[v] /\ first'[v] = first[v]
  BY <1>1, <1>2 DEF Inv, TypeOK
<1>4. s \notin raced => f = call[t].identity
  BY <1>2
<1>5. TypeOK'
  <2>1. identity' \in [Slot -> Identity \cup {NoIdentity, EmptyIdentity}]
        /\ first' \in [Slot -> Identity \cup {NoIdentity}]
    BY <1>1, <1>2 DEF Inv, TypeOK
  <2> QED BY <2>1, <1>1, GoesOnShape DEF Inv, TypeOK
<1>6. Pinned'
  <2>1. ASSUME NEW v \in Slot
        PROVE  identity'[v] = first'[v] \/ (desktop /\ (identity'[v] = EmptyIdentity \/ v \in raced))
    <3>1. CASE v = s
      BY <3>1, <1>3, <1>4 DEF Inv, Firmware
    <3>2. CASE v # s
      BY <3>2, <1>3 DEF Inv, Pinned
    <3> QED BY <3>1, <3>2
  <2> QED BY <2>1, <1>1 DEF Pinned
<1>7. /\ \A u \in Task : Working(u)' => Working(u) /\ call'[u] = call[u] /\ (u # t => pc'[u] = pc[u])
      /\ pc'[t] # "return"
  BY <1>1, GoesOnShape DEF Inv
<1> QED
  BY <1>1, <1>2, <1>3, <1>4, <1>5, <1>6, <1>7, IdentityKeepsInv

\* ... unless the write fails.
LEMMA SaveFailsKeepsInv ==
  ASSUME Inv, NEW t \in Task, SaveFails(t)
  PROVE  Inv'
<1>1. /\ pc[t] \in {"pin", "pinwrite"} /\ GoesOn(t)
      /\ UNCHANGED <<desktop, session, identity, builds, handed, twice, raced, first, stops>>
  BY DEF SaveFails, nvs, history
<1>2. TypeOK'
  BY <1>1, GoesOnShape DEF Inv, TypeOK
<1>3. Pinned'
  BY <1>1 DEF Inv, Pinned
<1>4. /\ \A u \in Task : Working(u)' => Working(u) /\ call'[u] = call[u] /\ (u # t => pc'[u] = pc[u])
      /\ pc'[t] # "return"
  BY <1>1, GoesOnShape DEF Inv
<1> QED
  BY <1>1, <1>2, <1>3, <1>4, AtPin, IdentityKeepsInv

\* The ciphertext or the plaintext is handed out: it is behind the record by now.
LEMMA ReturnKeepsInv ==
  ASSUME Inv, NEW t \in Task, Return(t)
  PROVE  Inv'
<1> DEFINE s == call[t].slot
           x0 == call[t].position
<1>1. /\ pc[t] = "return" /\ Leaves(t)
      /\ handed' = handed \cup {x0}
      /\ twice' = IF x0 \in handed THEN twice \cup {x0} ELSE twice
      /\ UNCHANGED <<desktop, session, identity, builds, raced, first, stops>>
  BY DEF Return, nvs
<1>2. Working(t) /\ call[t] \in Call /\ x0 \in Position
  BY <1>1 DEF Inv, TypeOK, Working
<1>3. /\ Fewer
      /\ pc'[t] = "idle"
  BY <1>1, LeavesShape DEF Inv
<1>4. \A u \in Task : Working(u)' => Working(u) /\ u # t /\ pc'[u] = pc[u] /\ call'[u] = call[u]
  BY <1>3 DEF Fewer, Working
<1>5. s \in Slot /\ call[t].op # "process"
  <2>1. s \in Slot
    BY <1>2 DEF Call
  <2>2. call[t].op # "process"
    BY <1>1 DEF Inv, Handing
  <2> QED BY <2>1, <2>2
<1>6. x0[2] = s /\ x0[3] <= builds[s]
  BY <1>2, <1>5 DEF Inv, Numbered
<1>7. s \notin raced => x0 \notin handed /\ Behind(x0, session[s])
  BY <1>1, <1>2, <1>5 DEF Inv, Ahead
<1>8. TypeOK'
  BY <1>1, <1>2, LeavesShape DEF Inv, TypeOK
<1>9. Firmware' /\ Usable' /\ Handing'
  BY <1>1, <1>4 DEF Inv, Firmware, Usable, HasSession, Loaded, Handing, Working
<1>10. Alone'
  BY <1>1, <1>4 DEF Inv, Alone
<1>11. Numbered'
  BY <1>1, <1>4, <1>6 DEF Inv, Numbered
<1>12. Ahead'
  <2>1. SUFFICES ASSUME NEW u \in Task, Working(u)', call[u].slot \notin raced
                 PROVE  /\ x0[2] # call[u].slot
                        /\ call[u].op # "process" => call[u].position # x0
    BY <1>1, <1>4 DEF Inv, Ahead, Behind
  <2>2. call[u].slot # s
    BY <2>1, <1>2, <1>4 DEF Inv, Alone
  <2>3. call[u].op # "process" => call[u].position[2] = call[u].slot
    BY <2>1, <1>4 DEF Inv, Numbered
  <2> QED BY <2>2, <2>3, <1>6
<1>13. Stored'
  <2>1. ASSUME NEW v \in Slot \ raced, NEW x \in handed', x[2] = v
        PROVE  session[v].base = 0 \/ Behind(x, session[v])
    <3>1. CASE x \in handed
      BY <2>1, <3>1 DEF Inv, Stored
    <3>2. CASE x = x0
      BY <2>1, <3>2, <1>6, <1>7
    <3> QED BY <3>1, <3>2, <1>1
  <2> QED BY <2>1, <1>1 DEF Stored, Behind
<1>14. KeyOnce'
  <2>1. x0 \in handed => desktop /\ s \in raced
    BY <1>7, <1>5 DEF Inv, Firmware
  <2> QED BY <2>1, <1>1, <1>6 DEF Inv, KeyOnce
<1>15. Pinned'
  BY <1>1 DEF Inv, Pinned
<1> QED
  BY <1>8, <1>9, <1>10, <1>11, <1>12, <1>13, <1>14, <1>15 DEF Inv

-----------------------------------------------------------------------------
LEMMA InvInit == Init => Inv
<1> SUFFICES ASSUME Init PROVE Inv
  OBVIOUS
<1>1. Absent \in Record /\ Absent.base = 0 /\ ~Absent.exists
  BY DEF Absent, Record
<1>2. TypeOK
  BY <1>1 DEF Init, TypeOK
<1>3. Firmware /\ KeyOnce /\ Pinned /\ Usable
  BY <1>1 DEF Init, Firmware, KeyOnce, Pinned, Usable, HasSession
<1>4. Alone /\ Numbered /\ Ahead /\ Stored /\ Handing
  BY <1>1 DEF Init, Alone, Numbered, Ahead, Stored, Handing, Working
<1> QED
  BY <1>2, <1>3, <1>4 DEF Inv

LEMMA InvNext == Inv /\ [Next]_vars => Inv'
<1> SUFFICES ASSUME Inv, [Next]_vars PROVE Inv'
  OBVIOUS
<1>1. CASE UNCHANGED vars
  <2>1. UNCHANGED <<desktop, session, identity, pc, call, builds, handed, twice, raced, first, stops>>
    BY <1>1 DEF vars, nvs, history
  <2>2. TypeOK' /\ Firmware' /\ KeyOnce' /\ Pinned' /\ Usable'
    BY <2>1 DEF Inv, TypeOK, Firmware, KeyOnce, Pinned, Usable, HasSession, Loaded
  <2>3. Alone' /\ Numbered' /\ Ahead' /\ Stored' /\ Handing'
    BY <2>1 DEF Inv, Alone, Numbered, Ahead, Stored, Behind, Handing, Working
  <2> QED BY <2>2, <2>3 DEF Inv
<1>2. ASSUME NEW t \in Task, NEW s \in Slot, BeginEncrypt(t, s) PROVE Inv'
  BY <1>2, BeginEncryptKeepsInv
<1>3. ASSUME NEW t \in Task, NEW s \in Slot, NEW m \in 1 .. MaxReceived, BeginDecrypt(t, s, m)
      PROVE  Inv'
  BY <1>3, BeginDecryptKeepsInv, BoundAssumption
<1>4. ASSUME NEW t \in Task, NEW s \in Slot, NEW id \in Identity, BeginProcessBundle(t, s, id)
      PROVE  Inv'
  BY <1>4, BeginProcessBundleKeepsInv
<1>5. ASSUME NEW t \in Task, Truncate(t) PROVE Inv'
  BY <1>5, TruncateKeepsInv
<1>6. ASSUME NEW t \in Task, Write(t) PROVE Inv'
  BY <1>6, WriteKeepsInv
<1>7. ASSUME NEW t \in Task, StoreFails(t) PROVE Inv'
  BY <1>7, StoreFailsKeepsInv
<1>8. ASSUME NEW t \in Task, SaveIdentity(t) PROVE Inv'
  BY <1>8, SaveIdentityKeepsInv
<1>9. ASSUME NEW t \in Task, Return(t) PROVE Inv'
  BY <1>9, ReturnKeepsInv
<1>10. ASSUME NEW t \in Task, Stop(t) PROVE Inv'
  BY <1>10, StopKeepsInv
<1>11. ASSUME NEW t \in Task, NEW s \in Slot, NEW id \in Identity, NEW m \in 1 .. MaxReceived,
              BeginDecryptFirst(t, s, id, m) \/ BeginDecryptNext(t, s, id, m)
       PROVE  Inv'
  BY <1>11, BeginDecryptFirstKeepsInv, BeginDecryptNextKeepsInv, BoundAssumption
<1>12. ASSUME NEW t \in Task, TruncateIdentity(t) \/ SaveFails(t) PROVE Inv'
  BY <1>12, TruncateIdentityKeepsInv, SaveFailsKeepsInv
<1> QED
  BY <1>1, <1>2, <1>3, <1>4, <1>5, <1>6, <1>7, <1>8, <1>9, <1>10, <1>11, <1>12 DEF Next

LEMMA AlwaysInv == Spec => []Inv
  BY InvInit, InvNext, PTL DEF Spec

\* Records and calls keep their shape (store.c, pcrypto.c).
THEOREM SessionsTypeCorrect == Spec => []TypeOK
<1>1. Inv => TypeOK
  BY DEF Inv
<1> QED
  BY <1>1, AlwaysInv, PTL

\* A position of a chain encrypts one message and opens one: the record is stored before
\* the result is handed out (store_session_func), under the lock of pcrypto.c.
THEOREM MessageKeyOnce == Spec => []KeyOnce
<1>1. Inv => KeyOnce
  BY DEF Inv
<1> QED
  BY <1>1, AlwaysInv, PTL

\* In the firmware every record that contains_session_func finds can be loaded.
THEOREM SessionsUsable == Spec => []Usable
<1>1. Inv => Usable
  BY DEF Inv
<1> QED
  BY <1>1, AlwaysInv, PTL

\* save_identity replaces no identity key by another (is_trusted_identity), in the firmware
\* ever, and on the desktop unless two processes race for a session; what else can happen
\* there is that the file is left empty.
THEOREM IdentityPinned == Spec => []Pinned
<1>1. Inv => Pinned
  BY DEF Inv
<1> QED
  BY <1>1, AlwaysInv, PTL
=============================================================================
