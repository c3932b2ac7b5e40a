---------------------------- MODULE DedupProofs ----------------------------
(***************************************************************************)
(* Until two calls write at once, the ring of dedup.c is a window over the *)
(* most recent new identifiers, whatever its size, however many            *)
(* identifiers there are and whatever the number of callers.               *)
(***************************************************************************)
EXTENDS Dedup, SequenceTheorems, TLAPS

\* The index after the last slot is the first.
LEMMA FollowingSlot ==
  ASSUME NEW i \in Slots
  PROVE  Following(i) = IF i + 1 = CacheSize THEN 0 ELSE i + 1
<1>1. CASE i + 1 = CacheSize
  BY <1>1, CacheSizeAssumption DEF Following, Slots
<1>2. CASE i + 1 # CacheSize
  <2>1. i + 1 \in 0 .. CacheSize - 1
    BY <1>2, CacheSizeAssumption DEF Slots
  <2>2. (i + 1) % CacheSize = i + 1
    BY <2>1, CacheSizeAssumption
  <2> QED BY <1>2, <2>2 DEF Following
<1> QED BY <1>1, <1>2

\* The window grows by one identifier until it is full; then the oldest leaves it.
LEMMA NewestType ==
  ASSUME NEW s \in Seq(Id), Len(s) <= CacheSize, NEW m \in Id
  PROVE  /\ Newest(s, m) \in Seq(Id)
         /\ Len(Newest(s, m)) <= CacheSize
         /\ Len(s) < CacheSize =>
              /\ Len(Newest(s, m)) = Len(s) + 1
              /\ \A k \in 1 .. Len(s) : Newest(s, m)[k] = s[k]
              /\ Newest(s, m)[Len(s) + 1] = m
         /\ Len(s) = CacheSize =>
              /\ Len(Newest(s, m)) = Len(s)
              /\ \A k \in 1 .. Len(s) - 1 : Newest(s, m)[k] = s[k + 1]
              /\ Newest(s, m)[Len(s)] = m
<1>1. CASE Len(s) < CacheSize
  BY <1>1, CacheSizeAssumption DEF Newest
<1>2. CASE Len(s) = CacheSize
  <2>1. Len(s) > 0 /\ s # << >>
    BY <1>2, CacheSizeAssumption
  <2>2. Tail(s) \in Seq(Id) /\ Len(Tail(s)) = Len(s) - 1
        /\ \A k \in 1 .. Len(s) - 1 : Tail(s)[k] = s[k + 1]
    BY <2>1
  <2> QED BY <1>2, <2>1, <2>2, CacheSizeAssumption DEF Newest
<1> QED BY <1>1, <1>2, CacheSizeAssumption

-----------------------------------------------------------------------------
\* The ring starts in shape.
LEMMA TypeInit == Init => TypeOK
<1> SUFFICES ASSUME Init PROVE TypeOK
  OBVIOUS
<1>1. recent \in Seq(Id) /\ Len(recent) <= CacheSize
  BY CacheSizeAssumption DEF Init
<1>2. overlapped \in BOOLEAN
  BY DEF Init
<1> QED BY <1>1, <1>2, CacheSizeAssumption DEF Init, TypeOK, Slots

\* Every step of every caller keeps the ring in shape.
LEMMA TypeNext == TypeOK /\ [Next]_vars => TypeOK'
<1> SUFFICES ASSUME TypeOK, [Next]_vars PROVE TypeOK'
  OBVIOUS
<1> USE DEF TypeOK
<1>1. CASE UNCHANGED vars
  BY <1>1 DEF vars
<1>2. ASSUME NEW t \in Task, NEW m \in Id, Call(t, m) PROVE TypeOK'
  BY <1>2, CacheSizeAssumption DEF Call, Offered
<1>3. ASSUME NEW t \in Task, AlreadySeen(t) PROVE TypeOK'
  BY <1>3 DEF AlreadySeen
<1>4. ASSUME NEW t \in Task, NextSlot(t) PROVE TypeOK'
  BY <1>4, CacheSizeAssumption DEF NextSlot, ScanEnd
<1>5. ASSUME NEW t \in Task, BeginCopy(t) PROVE TypeOK'
  BY <1>5, CacheSizeAssumption DEF BeginCopy, Slots
<1>6. ASSUME NEW t \in Task, EndCopy(t) PROVE TypeOK'
  BY <1>6 DEF EndCopy
<1>7. ASSUME NEW t \in Task, ReportNew(t) PROVE TypeOK'
  <2>1. arg[t] \in Id
    BY <1>7 DEF ReportNew
  <2>2. next' \in Slots
    BY <1>7, CacheSizeAssumption DEF ReportNew, Following, Slots
  <2>3. recent' \in Seq(Id) /\ Len(recent') <= CacheSize
    BY <1>7, <2>1, NewestType DEF ReportNew
  <2> QED BY <1>7, <2>2, <2>3 DEF ReportNew
<1> QED BY <1>1, <1>2, <1>3, <1>4, <1>5, <1>6, <1>7 DEF Next

\* The ring index, the slots and the callers keep their shape, with any callers at
\* all: the races lose identifiers, they do not write outside the ring.
THEOREM RingTypeCorrect == Spec => []TypeOK
<1> QED BY TypeInit, TypeNext, PTL DEF Spec

-----------------------------------------------------------------------------
(* The window. *)

\* The slot of the k-th identifier of the window: it starts at the next slot to be
\* written once the ring is full.
SlotOf(k) ==
  IF Len(recent) < CacheSize THEN k - 1
  ELSE IF next + k - 1 < CacheSize THEN next + k - 1
  ELSE next + k - 1 - CacheSize

Busy == \E t \in Task : Writes(t)

\* Before the ring is full the next slot is the first that was never written.
NextIsFree == Len(recent) < CacheSize => next = Len(recent)

\* A slot keeps the identifier the window has there, but for the one being written.
Kept ==
  /\ \A k \in DOMAIN recent : (Busy /\ SlotOf(k) = next) \/ cache[SlotOf(k)] = recent[k]
  /\ \A i \in Slots : i < Len(recent) \/ (Busy /\ i = next) \/ cache[i] = Empty

Distinct == \A j, k \in DOMAIN recent : recent[j] = recent[k] => j = k

OneWriter == \A t, u \in Task : Writes(t) /\ Writes(u) => t = u

\* Where each caller is, and what it knows by then.
Scanning == \A t \in Task : pc[t] = "scan" => \A j \in 0 .. pos[t] - 1 : cache[j] # arg[t]

Writing ==
  \A t \in Task :
    Writes(t) =>
      /\ pos[t] = next
      /\ arg[t] \notin ToSet(recent)
      /\ cache[next] = IF pc[t] = "copy" THEN Torn ELSE arg[t]

Window == NextIsFree /\ Kept /\ Distinct /\ OneWriter /\ Scanning /\ Writing

\* No two calls are about the same identifier: senders draw theirs.
Origins ==
  \A t \in Task :
    pc[t] # "idle" => IF t = Receiver THEN arg[t] \in Heard ELSE arg[t] \in sent

Apart ==
  \A t, u \in Task : pc[t] # "idle" /\ pc[u] # "idle" /\ t # u => arg[t] # arg[u]

WInv == TypeOK /\ Origins /\ Apart /\ (~overlapped => Window)

\* The slots of the window are slots, and different ones.
LEMMA SlotOfType ==
  ASSUME TypeOK, NextIsFree
  PROVE  /\ \A k \in DOMAIN recent : SlotOf(k) \in Slots
         /\ \A j, k \in DOMAIN recent : SlotOf(j) = SlotOf(k) => j = k
         /\ \A i \in Slots : i < Len(recent) => \E k \in DOMAIN recent : SlotOf(k) = i
<1>1. DOMAIN recent = 1 .. Len(recent) /\ Len(recent) \in Nat
  BY DEF TypeOK
<1>2. next \in 0 .. CacheSize - 1 /\ Len(recent) <= CacheSize
  BY DEF TypeOK, Slots
<1>3. \A k \in DOMAIN recent : SlotOf(k) \in Slots
  BY <1>1, <1>2, CacheSizeAssumption DEF SlotOf, Slots
<1>4. \A j, k \in DOMAIN recent : SlotOf(j) = SlotOf(k) => j = k
  BY <1>1, <1>2, CacheSizeAssumption DEF SlotOf
<1>5. ASSUME NEW i \in Slots, i < Len(recent) PROVE \E k \in DOMAIN recent : SlotOf(k) = i
  <2> DEFINE k == IF Len(recent) < CacheSize THEN i + 1
                  ELSE IF i >= next THEN i - next + 1 ELSE i - next + 1 + CacheSize
  <2>1. k \in DOMAIN recent /\ SlotOf(k) = i
    BY <1>1, <1>2, <1>5, CacheSizeAssumption DEF SlotOf, Slots
  <2> QED BY <2>1
<1> QED BY <1>3, <1>4, <1>5

\* Before the first call the window is empty.
LEMMA WInit == Init => WInv
<1> SUFFICES ASSUME Init PROVE WInv
  OBVIOUS
<1>1. recent = << >> /\ Len(recent) = 0 /\ DOMAIN recent = {}
  BY DEF Init
<1>2. \A t \in Task : pc[t] = "idle" /\ ~Writes(t)
  BY DEF Init, Writes
<1>3. Window
  BY <1>1, <1>2 DEF Init, Window, NextIsFree, Kept, Distinct, OneWriter, Scanning, Writing, Busy
<1> QED BY <1>2, <1>3, TypeInit DEF WInv, Origins, Apart

\* The callers stay apart: the receiver's identifiers are no one's own, and a sender's was
\* not drawn before.
LEMMA ApartNext == TypeOK /\ Origins /\ Apart /\ Next => Origins' /\ Apart'
<1> SUFFICES ASSUME TypeOK, Origins, Apart, Next PROVE Origins' /\ Apart'
  OBVIOUS
<1>1. ASSUME NEW t \in Task, NEW m \in Id, Call(t, m) PROVE Origins' /\ Apart'
  <2>1. /\ pc' = [pc EXCEPT ![t] = "scan"] /\ arg' = [arg EXCEPT ![t] = m]
        /\ pc[t] = "idle" /\ sent \subseteq sent'
        /\ pc \in [Task -> {"idle", "scan", "copy", "advance"}]
        /\ arg \in [Task -> Id \cup {Empty}]
    BY <1>1 DEF Call, Offered, TypeOK
  <2>2. IF t = Receiver THEN m \in Heard ELSE m \in sent' /\ m \in Own /\ m \notin sent
    BY <1>1 DEF Call, Offered
  <2>3. Origins'
    BY <2>1, <2>2 DEF Origins
  <2>4. ASSUME NEW u \in Task, u # t, pc[u] # "idle" PROVE arg[u] # m
    <3>1. CASE t = Receiver
      BY <2>2, <2>4, <3>1, IdAssumption DEF Origins, TypeOK
    <3>2. CASE t # Receiver
      BY <2>2, <2>4, <3>2, IdAssumption DEF Origins
    <3> QED BY <3>1, <3>2
  <2>5. Apart'
    BY <2>1, <2>4 DEF Apart
  <2> QED BY <2>3, <2>5
<1>2. ASSUME NEW t \in Task, \/ AlreadySeen(t) \/ NextSlot(t) \/ BeginCopy(t)
                             \/ EndCopy(t) \/ ReportNew(t)
      PROVE Origins' /\ Apart'
  <2>1. /\ arg' = arg /\ sent' = sent
        /\ \A u \in Task : pc'[u] # "idle" => pc[u] # "idle"
    BY <1>2 DEF AlreadySeen, NextSlot, BeginCopy, EndCopy, ReportNew, TypeOK
  <2> QED BY <2>1 DEF Origins, Apart
<1> QED BY <1>1, <1>2 DEF Next

\* A scan that found nothing: the identifier is not in the window.
LEMMA ScannedIsNew ==
  ASSUME TypeOK, Window, NEW t \in Task, pc[t] = "scan", pos[t] >= CacheSize, ~Busy
  PROVE  arg[t] \notin ToSet(recent)
<1>1. \A k \in DOMAIN recent : SlotOf(k) \in Slots /\ cache[SlotOf(k)] = recent[k]
  BY SlotOfType DEF Window, Kept
<1>2. \A i \in Slots : i \in 0 .. pos[t] - 1
  BY CacheSizeAssumption DEF TypeOK, Slots
<1>3. \A k \in DOMAIN recent : recent[k] # arg[t]
  BY <1>1, <1>2 DEF Window, Scanning
<1>4. ToSet(recent) = {recent[k] : k \in DOMAIN recent}
  BY DEF ToSet
<1> QED BY <1>3, <1>4

\* Reporting an identifier new moves the window on by one.
LEMMA WReport ==
  ASSUME TypeOK, TypeOK', Apart, Window, NEW t \in Task, ReportNew(t)
  PROVE  Window'
<1> DEFINE L == Len(recent)
           m == arg[t]
<1>1. TypeOK /\ TypeOK'
  OBVIOUS
<1>0. Writes(t) /\ Busy
  BY DEF ReportNew, Writes, Busy
<1>2. /\ pos[t] = next /\ cache[next] = m /\ m \in Id
      /\ recent' = Newest(recent, m) /\ cache' = cache /\ pc' = [pc EXCEPT ![t] = "idle"]
      /\ pos' = pos /\ arg' = arg
  BY <1>0 DEF Window, Writing, ReportNew, TypeOK
<1>3. next' = IF next + 1 = CacheSize THEN 0 ELSE next + 1
  BY <1>1, <1>2, FollowingSlot DEF ReportNew, TypeOK
<1>4. /\ recent \in Seq(Id) /\ L \in Nat /\ L <= CacheSize /\ DOMAIN recent = 1 .. L
      /\ next \in 0 .. CacheSize - 1
  BY <1>1 DEF TypeOK, Slots
<1>10. /\ recent' \in Seq(Id)
       /\ L < CacheSize =>
            /\ Len(recent') = L + 1
            /\ \A k \in 1 .. L : recent'[k] = recent[k]
            /\ recent'[L + 1] = m
       /\ L = CacheSize =>
            /\ Len(recent') = L
            /\ \A k \in 1 .. L - 1 : recent'[k] = recent[k + 1]
            /\ recent'[L] = m
  BY <1>2, <1>4, NewestType
<1>11. DOMAIN recent' = 1 .. Len(recent')
  BY <1>10
<1>5. m \notin ToSet(recent) /\ \A k \in 1 .. L : recent[k] # m
  BY <1>0, <1>4 DEF Window, Writing, ToSet
<1>6. \A u \in Task : (Writes(u)' => Writes(u) /\ u # t)
                      /\ (pc'[u] = "scan" => pc[u] = "scan")
  BY <1>2 DEF Writes, TypeOK
<1>13. \A u \in Task : ~Writes(u)'
  BY <1>0, <1>6 DEF Window, OneWriter
<1>14. ~Busy'
  BY <1>13 DEF Busy
<1>7. OneWriter' /\ Scanning' /\ Writing'
  BY <1>2, <1>6, <1>13 DEF Window, OneWriter, Scanning, Writing
<1>8. CASE L < CacheSize
  <2>1. /\ Len(recent') = L + 1 /\ DOMAIN recent' = 1 .. L + 1
        /\ \A k \in 1 .. L : recent'[k] = recent[k]
        /\ recent'[L + 1] = m
    BY <1>8, <1>10, <1>11
  <2>2. next = L /\ NextIsFree'
    BY <1>3, <1>4, <1>8, <2>1 DEF Window, NextIsFree
  <2>3. \A k \in 1 .. L + 1 : SlotOf(k)' = k - 1
    BY <1>3, <1>4, <1>8, <2>1, <2>2, CacheSizeAssumption DEF SlotOf
  <2>4. \A k \in 1 .. L : cache[k - 1] = recent[k]
    BY <1>4, <1>8, <2>2 DEF Window, Kept, SlotOf
  <2>5. \A k \in DOMAIN recent' : cache'[SlotOf(k)'] = recent'[k]
    BY <1>2, <1>4, <2>1, <2>2, <2>3, <2>4
  <2>6. \A i \in Slots : i < Len(recent') \/ cache'[i] = Empty
    <3>1. \A i \in Slots : i < L \/ i = L \/ cache[i] = Empty
      BY <2>2 DEF Window, Kept
    <3>2. \A i \in Slots : i < L + 1 \/ ~(i < L \/ i = L)
      <4> HIDE DEF L
      <4> QED BY <1>4, CacheSizeAssumption DEF Slots
    <3> QED BY <1>2, <2>1, <3>1, <3>2
  <2>7. Distinct'
    BY <1>4, <1>5, <2>1 DEF Window, Distinct
  <2>8. Kept'
    BY <2>5, <2>6 DEF Kept
  <2> QED BY <1>7, <2>2, <2>7, <2>8 DEF Window
<1>9. CASE L = CacheSize
  <2>1. /\ Len(recent') = L /\ DOMAIN recent' = 1 .. L
        /\ \A k \in 1 .. L - 1 : recent'[k] = recent[k + 1]
        /\ recent'[L] = m
    BY <1>9, <1>10, <1>11
  <2>2. NextIsFree'
    BY <1>9, <2>1, CacheSizeAssumption DEF NextIsFree
  <2>3. \A k \in 1 .. L - 1 : SlotOf(k)' = SlotOf(k + 1)
    BY <1>3, <1>4, <1>9, <2>1, CacheSizeAssumption DEF SlotOf
  <2>4. SlotOf(L)' = next
    BY <1>3, <1>4, <1>9, <2>1, CacheSizeAssumption DEF SlotOf
  <2>5. \A k \in 1 .. L - 1 : SlotOf(k + 1) # next
    BY <1>4, <1>9, CacheSizeAssumption DEF SlotOf
  <2>6. \A k \in 1 .. L - 1 : cache[SlotOf(k + 1)] = recent[k + 1]
    BY <1>4, <2>5 DEF Window, Kept
  <2>7. \A k \in DOMAIN recent' : cache'[SlotOf(k)'] = recent'[k]
    <3> SUFFICES ASSUME NEW k \in 1 .. L PROVE cache'[SlotOf(k)'] = recent'[k]
      BY <2>1
    <3>1. CASE k = L
      BY <1>2, <2>1, <2>4, <3>1
    <3>2. CASE k # L
      <4> HIDE DEF L
      <4>1. k \in 1 .. L - 1
        BY <1>4, <3>2
      <4>2. SlotOf(k)' = SlotOf(k + 1)
        BY <4>1, <2>3
      <4>3. cache[SlotOf(k + 1)] = recent[k + 1] /\ recent'[k] = recent[k + 1]
        BY <4>1, <2>1, <2>6
      <4> QED BY <1>2, <4>2, <4>3
    <3> QED BY <3>1, <3>2
  <2>8. \A i \in Slots : i < Len(recent') \/ cache'[i] = Empty
    BY <1>4, <1>9, <2>1 DEF Slots
  <2>9. Distinct'
    <3> HIDE DEF L
    <3>1. \A j, k \in 1 .. L - 1 : recent'[j] = recent'[k] => j = k
      <4>1. \A j, k \in 1 .. L : recent[j] = recent[k] => j = k
        BY <1>4 DEF Window, Distinct
      <4>2. SUFFICES ASSUME NEW j \in 1 .. L - 1, NEW k \in 1 .. L - 1, recent'[j] = recent'[k]
                     PROVE  j = k
        OBVIOUS
      <4>3. recent[j + 1] = recent[k + 1]
        BY <2>1, <4>2
      <4>4. j + 1 \in 1 .. L /\ k + 1 \in 1 .. L
        BY <1>4
      <4> QED BY <4>1, <4>3, <4>4
    <3>2. \A j \in 1 .. L - 1 : recent'[j] # m
      BY <1>4, <1>5, <2>1
    <3>3. \A j \in DOMAIN recent' : j \in 1 .. L - 1 \/ j = L
      BY <1>4, <2>1
    <3> QED BY <2>1, <3>1, <3>2, <3>3 DEF Distinct
  <2>10. Kept'
    BY <2>7, <2>8 DEF Kept
  <2> QED BY <1>7, <2>2, <2>9, <2>10 DEF Window
<1>12. L < CacheSize \/ L = CacheSize
  <2> HIDE DEF L
  <2> QED BY <1>4, CacheSizeAssumption
<1> QED BY <1>8, <1>9, <1>12

\* A step of a caller that writes nobody's slot but its own.
LEMMA WStep ==
  ASSUME TypeOK, TypeOK', Apart, Window, NEW t \in Task, ~overlapped',
         \/ \E m \in Id : Call(t, m)
         \/ AlreadySeen(t) \/ NextSlot(t) \/ BeginCopy(t) \/ EndCopy(t)
  PROVE  Window'
<1> USE DEF Window
<1>0. /\ pc \in [Task -> {"idle", "scan", "copy", "advance"}]
      /\ arg \in [Task -> Id \cup {Empty}] /\ pos \in [Task -> 0 .. CacheSize]
      /\ cache \in [Slots -> Id \cup {Empty, Torn}] /\ next \in Slots
  BY DEF TypeOK
<1>1. ASSUME \/ \E m \in Id : Call(t, m)
             \/ AlreadySeen(t) \/ NextSlot(t)
      PROVE  Window'
  <2>1. /\ cache' = cache /\ next' = next /\ recent' = recent
        /\ \A u \in Task : Writes(u)' <=> Writes(u)
        /\ \A u \in Task : Writes(u) => u # t
        /\ \A u \in Task : u # t => pc'[u] = pc[u] /\ arg'[u] = arg[u] /\ pos'[u] = pos[u]
    BY <1>0, <1>1 DEF Call, AlreadySeen, NextSlot, Writes
  <2>2. Busy' <=> Busy
    BY <2>1 DEF Busy
  <2>3. NextIsFree' /\ Kept' /\ Distinct' /\ OneWriter'
    BY <2>1, <2>2 DEF NextIsFree, Kept, Distinct, OneWriter, SlotOf
  <2>4. Writing'
    BY <2>1 DEF Writing, Writes
  <2>5. pc'[t] = "scan" => \A j \in 0 .. pos'[t] - 1 : cache[j] # arg'[t]
    <3>1. CASE \E m \in Id : Call(t, m)
      BY <1>0, <3>1 DEF Call
    <3>2. CASE AlreadySeen(t)
      BY <1>0, <3>2 DEF AlreadySeen
    <3>3. CASE NextSlot(t)
      BY <1>0, <3>3 DEF NextSlot, Scanning
    <3> QED BY <1>1, <3>1, <3>2, <3>3
  <2>6. Scanning'
    BY <2>1, <2>5 DEF Scanning
  <2> QED BY <2>3, <2>4, <2>6
<1>2. ASSUME BeginCopy(t) PROVE Window'
  <2>0. ~Busy
    BY <1>2 DEF BeginCopy, Busy
  <2>1. arg[t] \notin ToSet(recent)
    BY <1>2, <2>0, ScannedIsNew DEF BeginCopy, ScanEnd
  <2>2. /\ pc' = [pc EXCEPT ![t] = "copy"] /\ pos'[t] = next /\ next' = next /\ recent' = recent
        /\ arg' = arg /\ cache'[next] = Torn
        /\ \A i \in Slots : i = next \/ cache'[i] = cache[i]
        /\ \A u \in Task : u # t => pos'[u] = pos[u]
    BY <1>0, <1>2 DEF BeginCopy
  <2>3. \A u \in Task : Writes(u)' <=> u = t
    BY <1>0, <2>0, <2>2 DEF Writes, Busy
  <2>4. Busy' /\ OneWriter'
    BY <2>3 DEF Busy, OneWriter
  <2>5. Kept'
    BY <2>0, <2>2, <2>4, SlotOfType DEF Kept, SlotOf
  <2>6. Writing'
    BY <1>0, <2>1, <2>2, <2>3 DEF Writing
  <2>7. Scanning'
    <3>1. \A u \in Task : pc'[u] = "scan" => pc[u] = "scan" /\ pos'[u] = pos[u]
                                             /\ arg[u] \in Id /\ arg[u] # Torn
      BY <1>0, <2>2, SlotAssumption DEF TypeOK
    <3>2. ASSUME NEW u \in Task, pc'[u] = "scan", NEW j \in 0 .. pos'[u] - 1
          PROVE  cache'[j] # arg'[u]
      <4>1. j \in Slots
        BY <1>0, <3>1, <3>2, CacheSizeAssumption DEF Slots
      <4>2. CASE j = next
        BY <2>2, <3>1, <3>2, <4>2
      <4>3. CASE j # next
        BY <2>2, <3>1, <3>2, <4>1, <4>3 DEF Scanning
      <4> QED BY <4>2, <4>3
    <3> QED BY <3>2 DEF Scanning
  <2> QED BY <2>2, <2>4, <2>5, <2>6, <2>7 DEF NextIsFree, Distinct
<1>3. ASSUME EndCopy(t) PROVE Window'
  <2>0. Writes(t) /\ Busy /\ pc[t] = "copy"
    BY <1>3 DEF EndCopy, Writes, Busy
  <2>2. /\ pc' = [pc EXCEPT ![t] = "advance"] /\ pos' = pos /\ pos[t] = next /\ next' = next
        /\ recent' = recent /\ arg' = arg /\ cache'[next] = arg[t]
        /\ \A i \in Slots : i = next \/ cache'[i] = cache[i]
    BY <1>0, <1>3, <2>0 DEF EndCopy, Writing
  <2>3. \A u \in Task : Writes(u)' <=> u = t
    BY <1>0, <2>0, <2>2 DEF Writes, OneWriter
  <2>4. Busy' /\ OneWriter'
    BY <2>3 DEF Busy, OneWriter
  <2>5. Kept'
    BY <2>0, <2>2, <2>4, SlotOfType DEF Kept, SlotOf
  <2>6. Writing'
    BY <1>0, <2>0, <2>2, <2>3 DEF Writing
  <2>7. Scanning'
    <3>1. \A u \in Task : pc'[u] = "scan" => pc[u] = "scan" /\ u # t /\ arg[u] # arg[t]
      BY <1>0, <2>0, <2>2 DEF Apart
    <3>2. ASSUME NEW u \in Task, pc'[u] = "scan", NEW j \in 0 .. pos'[u] - 1
          PROVE  cache'[j] # arg'[u]
      <4>1. j \in Slots
        BY <1>0, <2>2, <3>2, CacheSizeAssumption DEF Slots
      <4>2. CASE j = next
        BY <2>2, <3>1, <3>2, <4>2
      <4>3. CASE j # next
        BY <2>2, <3>1, <3>2, <4>1, <4>3 DEF Scanning
      <4> QED BY <4>2, <4>3
    <3> QED BY <3>2 DEF Scanning
  <2> QED BY <2>2, <2>4, <2>5, <2>6, <2>7 DEF NextIsFree, Distinct
<1> QED BY <1>1, <1>2, <1>3

\* The window invariant is inductive.
LEMMA WNext == WInv /\ [Next]_vars => WInv'
<1> SUFFICES ASSUME WInv, [Next]_vars PROVE WInv'
  OBVIOUS
<1>1. TypeOK /\ TypeOK' /\ Origins /\ Apart
  BY TypeNext DEF WInv
<1>2. CASE UNCHANGED vars
  BY <1>1, <1>2 DEF WInv, vars, Origins, Apart, Window, NextIsFree, Kept, Distinct, OneWriter,
       Scanning, Writing, Writes, Busy, SlotOf
<1>3. CASE Next
  <2>1. Origins' /\ Apart'
    BY <1>1, <1>3, ApartNext
  <2>2. ~overlapped' => ~overlapped
    BY <1>3 DEF Next, Call, AlreadySeen, NextSlot, BeginCopy, EndCopy, ReportNew
  <2>3. ASSUME ~overlapped' PROVE Window'
    <3>1. Window
      BY <2>2, <2>3 DEF WInv
    <3>2. PICK t \in Task : \/ \E m \in Id : Call(t, m)
                            \/ AlreadySeen(t) \/ NextSlot(t) \/ BeginCopy(t) \/ EndCopy(t)
                            \/ ReportNew(t)
      BY <1>3 DEF Next
    <3>3. CASE ReportNew(t)
      BY <1>1, <3>1, <3>3, WReport
    <3>4. CASE \/ \E m \in Id : Call(t, m)
               \/ AlreadySeen(t) \/ NextSlot(t) \/ BeginCopy(t) \/ EndCopy(t)
      BY <1>1, <2>3, <3>1, <3>4, WStep
    <3> QED BY <3>2, <3>3, <3>4
  <2> QED BY <1>1, <2>1, <2>3 DEF WInv
<1> QED BY <1>2, <1>3

\* Between two calls the slots hold exactly the identifiers of the window.
LEMMA WImpliesWindow == WInv => RingIsWindow
<1> SUFFICES ASSUME WInv, Idle, ~overlapped
             PROVE  {cache[i] : i \in Slots} \ {Empty} = ToSet(recent)
  BY DEF RingIsWindow
<1>5. TypeOK /\ Window /\ NextIsFree
  BY DEF WInv, Window
<1>0. ~Busy
  BY DEF Idle, Busy, Writes
<1>1. \A k \in DOMAIN recent : SlotOf(k) \in Slots /\ cache[SlotOf(k)] = recent[k]
  BY <1>0, <1>5, SlotOfType DEF Window, Kept
<1>2. \A i \in Slots : cache[i] = Empty \/ \E k \in DOMAIN recent : cache[i] = recent[k]
  BY <1>0, <1>1, <1>5, SlotOfType DEF Window, Kept
<1>3. \A k \in DOMAIN recent : recent[k] # Empty
  BY <1>5, SlotAssumption DEF TypeOK
<1>4. ToSet(recent) = {recent[k] : k \in DOMAIN recent}
  BY DEF ToSet
<1> QED BY <1>1, <1>2, <1>3, <1>4

\* A match of a scan is in the window: a slot holds what the window has there, but for the
\* one being written, which holds no identifier or one of another call.
LEMMA MatchIsRemembered ==
  ASSUME TypeOK, Apart, Window, NEW t \in Task, AlreadySeen(t)
  PROVE  arg[t] \in ToSet(recent)
<1>1. pc[t] = "scan" /\ arg[t] \in Id /\ pos[t] \in Slots /\ cache[pos[t]] = arg[t]
  BY CacheSizeAssumption DEF AlreadySeen, TypeOK, ScanEnd, Slots
<1>2. arg[t] # Empty /\ arg[t] # Torn
  BY <1>1, SlotAssumption
<1>3. ~(Busy /\ pos[t] = next)
  <2>1. SUFFICES ASSUME NEW u \in Task, Writes(u), pos[t] = next PROVE FALSE
    BY DEF Busy
  <2>2. u # t /\ pc[u] # "idle"
    BY <1>1, <2>1 DEF Writes
  <2>3. cache[next] = Torn \/ cache[next] = arg[u]
    BY <2>1 DEF Window, Writing
  <2> QED BY <1>1, <1>2, <2>1, <2>2, <2>3 DEF Apart
<1>4. pos[t] < Len(recent)
  BY <1>1, <1>2, <1>3 DEF Window, Kept
<1>5. PICK k \in DOMAIN recent : SlotOf(k) = pos[t]
  BY <1>1, <1>4, SlotOfType DEF Window
<1>6. recent[k] = arg[t]
  BY <1>1, <1>3, <1>5 DEF Window, Kept
<1> QED BY <1>6 DEF ToSet

\* A call ends with a match, or by reporting an identifier that the window does not hold.
LEMMA WImpliesAnswer ==
  ASSUME WInv, [Next]_vars, NEW t \in Task, pc[t] # "idle", pc'[t] = "idle", ~overlapped
  PROVE  pc[t] = "scan" <=> arg[t] \in ToSet(recent)
<1>1. TypeOK /\ Apart /\ Window
  BY DEF WInv
<1>2. AlreadySeen(t) \/ ReportNew(t)
  <2>1. pc \in [Task -> {"idle", "scan", "copy", "advance"}]
    BY <1>1 DEF TypeOK
  <2> QED BY <2>1 DEF vars, Next, Call, AlreadySeen, NextSlot, BeginCopy, EndCopy, ReportNew
<1>3. CASE AlreadySeen(t)
  BY <1>1, <1>3, MatchIsRemembered DEF AlreadySeen
<1>4. CASE ReportNew(t)
  BY <1>1, <1>4 DEF ReportNew, Window, Writing, Writes
<1> QED BY <1>2, <1>3, <1>4

\* The ring is a window over the CacheSize most recent new identifiers, for every size of
\* ring and any number of callers, until two of them write at once.
THEOREM RingStaysWindow == Spec => []RingIsWindow
<1>1. WInv /\ [Next]_vars => WInv'
  BY WNext
<1>2. WInv => RingIsWindow
  BY WImpliesWindow
<1> QED BY WInit, <1>1, <1>2, PTL DEF Spec

\* Until then every call answers true exactly when its identifier is among the CacheSize
\* most recent new ones, for every size of ring and any number of callers.
THEOREM RingAnswersRight == Spec => AnswersRight
<1> DEFINE Right == \A t \in Task : pc[t] # "idle" /\ pc'[t] = "idle" /\ ~overlapped
                                      => (pc[t] = "scan" <=> arg[t] \in ToSet(recent))
<1>1. WInv /\ [Next]_vars => WInv'
  BY WNext
<1>2. WInv /\ [Next]_vars => [Right]_vars
  BY WImpliesAnswer
<1>3. AnswersRight <=> [][Right]_vars
  BY DEF AnswersRight
<1> HIDE DEF Right
<1> QED BY WInit, <1>1, <1>2, <1>3, PTL DEF Spec
=============================================================================
