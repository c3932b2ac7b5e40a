---------------------------- MODULE DriverProofs ----------------------------
(***************************************************************************)
(* The two drivers of a node.  Radio: the driver keeps its shape, a frame  *)
(* sent from within on_radio_rx is never confirmed, and a confirmation     *)
(* means that the frame went out, however many tasks send.  Bridge: the    *)
(* list of subscribers is exactly the phones with notifications on, and a  *)
(* phone that stays is reached, however many phones there are and in       *)
(* whatever order the stores to the list become visible.                   *)
(***************************************************************************)
EXTENDS Radio, Bridge, FiniteSetTheorems, TLAPS

\* What makes it inductive: while the interrupt task is between the draining of the
\* semaphore and the end of its wait, nobody has given it.
Inv ==
  /\ TypeOK
  /\ pc[Irq] \in {"drained", "waiting"} => ~sem
  /\ RelayUnconfirmed

\* The state after sx1262_start_rx satisfies the invariant.
LEMMA InvInit == Init => Inv
  BY DEF Init, Inv, TypeOK, RelayUnconfirmed, Task, Flag, Heard, MaxLength

\* Notice keeps account of tasks only.
LEMMA NoticeType == Notice => disturbed' \subseteq Task
  BY DEF Notice

\* The chip's own steps keep the invariant.
LEMMA InvChip == Inv /\ (FrameHeard \/ TxEnds) => Inv'
<1> SUFFICES ASSUME Inv, FrameHeard \/ TxEnds PROVE Inv'
  OBVIOUS
<1>1. ASSUME NEW f \in SUBSET Flag, Raise(f) PROVE flags' \subseteq Flag /\ notified' \in BOOLEAN
  BY <1>1 DEF Raise, Inv, TypeOK
<1>2. CASE FrameHeard
  <2>1. flags' \subseteq Flag /\ notified' \in BOOLEAN
    BY <1>1, <1>2 DEF FrameHeard, Flag
  <2> QED BY <1>2, <2>1, NoticeType DEF FrameHeard, Inv, TypeOK, RelayUnconfirmed, service, callers
<1>3. CASE TxEnds
  <2>1. flags' \subseteq Flag /\ notified' \in BOOLEAN
    BY <1>1, <1>3 DEF TxEnds, Flag
  <2>2. aired' \in [Task -> BOOLEAN]
    BY <1>3 DEF TxEnds, Inv, TypeOK
  <2> QED BY <1>3, <2>1, <2>2, NoticeType DEF TxEnds, Inv, TypeOK, RelayUnconfirmed, service
<1> QED BY <1>2, <1>3

\* Every step of a caller of sx1262_send keeps it.
LEMMA InvCall ==
  ASSUME Inv, NEW t \in Task, Continue(t)
  PROVE  Inv'
<1> USE DEF Inv, TypeOK, RelayUnconfirmed, Task, chip, service, callers, FrameOf, Returned
<1>1. CASE SetPacketParams(t)
  BY <1>1, NoticeType DEF SetPacketParams
<1>2. CASE DropStaleSignal(t)
  BY <1>2, NoticeType DEF DropStaleSignal
<1>3. CASE SetTx(t)
  BY <1>3, NoticeType DEF SetTx
<1>4. CASE TakeTxDone(t)
  BY <1>4, NoticeType DEF TakeTxDone
<1>5. CASE TimesOut(t)
  BY <1>5, NoticeType DEF TimesOut
<1> QED BY <1>1, <1>2, <1>3, <1>4, <1>5 DEF Continue

\* A call begins: by a task of its own, or by the interrupt task within its upcall.
LEMMA InvBegin ==
  ASSUME Inv, NEW t \in Task, WriteBuffer(t), t # Irq \/ handler = "upcall"
  PROVE  Inv'
  BY NoticeType DEF WriteBuffer, Inv, TypeOK, RelayUnconfirmed, Task, service, Flag

\* Every step of the interrupt task outside sx1262_send keeps it: the semaphore is
\* given where the interrupt task is in no call.
LEMMA InvHandle == Inv /\ Handle => Inv'
<1> SUFFICES ASSUME Inv, Handle PROVE Inv'
  OBVIOUS
<1>1. CASE UpcallSends
  BY <1>1, InvBegin DEF UpcallSends, Task
<1> USE DEF Inv, TypeOK, RelayUnconfirmed, Task, Flag, chip, service, callers, MaxLength
<1>2. CASE Wake \/ GetIrqStatus \/ ClearIrqStatus
  BY <1>2, NoticeType DEF Wake, GetIrqStatus, ClearIrqStatus
<1>3. CASE GiveTxDone
  BY <1>3, NoticeType DEF GiveTxDone
<1>4. CASE SetMaxLength \/ SetRx
  BY <1>4, NoticeType DEF SetMaxLength, SetRx
<1>5. CASE NothingReceived \/ ReadFrame \/ UpcallReturns
  BY <1>5, NoticeType DEF NothingReceived, ReadFrame, UpcallReturns
<1> QED BY <1>1, <1>2, <1>3, <1>4, <1>5 DEF Handle

\* The invariant is inductive.
LEMMA InvNext == Inv /\ [Next]_vars => Inv'
<1> SUFFICES ASSUME Inv, [Next]_vars PROVE Inv'
  OBVIOUS
<1>1. CASE UNCHANGED vars
  BY <1>1 DEF vars, chip, service, callers, Inv, TypeOK, RelayUnconfirmed
<1>2. ASSUME NEW t \in Senders, WriteBuffer(t) PROVE Inv'
  BY <1>2, InvBegin, SenderAssumption DEF Task
<1> QED BY <1>1, <1>2, InvChip, InvCall, InvHandle DEF Next

\* The driver's variables keep their shape, and the interrupt task sends from within
\* its upcall only, with any number of senders.
THEOREM RadioTypeCorrect == Spec => []TypeOK
<1>1. Inv => TypeOK
  BY DEF Inv
<1> QED BY InvInit, InvNext, <1>1, PTL DEF Spec

\* A frame sent from within on_radio_rx is never confirmed, with any number of senders.
THEOREM RelayNeverConfirmed == Spec => []RelayUnconfirmed
<1>1. Inv => RelayUnconfirmed
  BY DEF Inv
<1> QED BY InvInit, InvNext, <1>1, PTL DEF Spec

-----------------------------------------------------------------------------
(* A call that nothing got in the way of. *)

Alone(t) == \A u \in Task : u # t => pc[u] = "idle"

Still == flags = {} /\ ~notified /\ handler = "sleep"

\* Where such a call is: before its transmission, in it, or after it.
Held(t) ==
  /\ pc[t] \in {"written", "sized", "drained"} =>
       /\ Still /\ mode # "tx" /\ fifo = FrameOf(t)
       /\ pc[t] # "written" => length = FrameOf(t)
       /\ pc[t] = "drained" => ~sem
  /\ pc[t] = "waiting" =>
       \/ aired[t]
       \/ Still /\ mode = "tx" /\ fifo = FrameOf(t) /\ length = FrameOf(t) /\ ~sem
  /\ pc[t] # "idle" => Alone(t)
  /\ pc[t] = "idle" => (confirmed[t] => aired[t])

AInv == \A t \in Task : t \notin disturbed => Held(t)

\* What a step means to a call that it does not get in the way of.
LEMMA NoticeMeaning ==
  ASSUME Notice, NEW t \in Task, t \notin disturbed'
  PROVE  /\ pc[t] = "idle" /\ pc'[t] = "idle" => t \notin disturbed
         /\ pc[t] = "idle" /\ pc'[t] # "idle" => Quiet
         /\ pc[t] # "idle" => /\ t \notin disturbed
                              /\ pc'[t] # pc[t] \/ (pc[t] = "waiting" /\ pc' = pc)
  BY DEF Notice, Undisturbed

\* A task begins a call.
LEMMA HeldBegin ==
  ASSUME TypeOK, AInv, NEW u \in Task, WriteBuffer(u), NEW t \in Task, t \notin disturbed'
  PROVE  Held(t)'
<1>1. /\ pc[u] = "idle" /\ pc' = [pc EXCEPT ![u] = "written"] /\ fifo' = <<u, turn'[u]>>
      /\ turn' = [turn EXCEPT ![u] = 1 - @] /\ aired' = [aired EXCEPT ![u] = FALSE]
      /\ UNCHANGED <<mode, length, flags, notified, handler, status, sem, confirmed>> /\ Notice
      /\ pc \in [Task -> {"idle", "written", "sized", "drained", "waiting"}]
      /\ aired \in [Task -> BOOLEAN]
  BY DEF WriteBuffer, service, TypeOK
<1>2. CASE t = u
  <2>1. Quiet
    BY <1>1, <1>2, NoticeMeaning
  <2> QED BY <1>1, <1>2, <2>1 DEF Held, Alone, Still, FrameOf, Quiet
<1>3. CASE t # u
  <2>1. pc[t] = "idle" /\ pc'[t] = "idle" /\ t \notin disturbed
    BY <1>1, <1>3, NoticeMeaning
  <2> QED BY <1>1, <1>3, <2>1 DEF Held, AInv
<1> QED BY <1>2, <1>3

\* A task goes on with its call.
LEMMA HeldContinue ==
  ASSUME TypeOK, AInv, NEW u \in Task, Continue(u), NEW t \in Task, t \notin disturbed'
  PROVE  Held(t)'
<1>0. /\ pc \in [Task -> {"idle", "written", "sized", "drained", "waiting"}]
      /\ aired \in [Task -> BOOLEAN] /\ confirmed \in [Task -> BOOLEAN]
  BY DEF TypeOK
<1>1. /\ pc[u] # "idle" /\ Notice /\ aired' = aired
      /\ \A o \in Task : o # u => pc'[o] = pc[o] /\ confirmed'[o] = confirmed[o]
      /\ pc'[u] # pc[u]
  BY <1>0 DEF Continue, SetPacketParams, DropStaleSignal, SetTx, TakeTxDone, TimesOut
<1>2. CASE t # u
  <2>1. pc[t] = "idle"
    BY <1>1, <1>2, NoticeMeaning
  <2> QED BY <1>1, <1>2, <2>1, NoticeMeaning DEF Held, AInv
<1>3. CASE t = u
  <2>1. Held(t)
    BY <1>1, <1>3, NoticeMeaning DEF AInv
  <2>2. Alone(t)'
    BY <1>1, <1>3, <2>1 DEF Held, Alone
  <2> USE DEF chip, service, callers, FrameOf, Held, Still, Returned
  <2>3. CASE SetPacketParams(u)
    BY <1>0, <1>3, <2>1, <2>2, <2>3 DEF SetPacketParams
  <2>4. CASE DropStaleSignal(u)
    BY <1>0, <1>3, <2>1, <2>2, <2>4 DEF DropStaleSignal
  <2>5. CASE SetTx(u)
    BY <1>0, <1>3, <2>1, <2>2, <2>5 DEF SetTx
  <2>6. CASE TakeTxDone(u)
    BY <1>0, <1>3, <2>1, <2>2, <2>6 DEF TakeTxDone
  <2>7. CASE TimesOut(u)
    BY <1>0, <1>3, <2>1, <2>2, <2>7 DEF TimesOut
  <2> QED BY <1>3, <2>3, <2>4, <2>5, <2>6, <2>7 DEF Continue
<1> QED BY <1>2, <1>3

\* The chip and the interrupt task take a step.
LEMMA HeldElsewhere ==
  ASSUME TypeOK, AInv, FrameHeard \/ TxEnds \/ (Handle /\ ~UpcallSends),
         NEW t \in Task, t \notin disturbed'
  PROVE  Held(t)'
<1>0. aired \in [Task -> BOOLEAN]
  BY DEF TypeOK
<1>1. /\ Notice /\ pc' = pc /\ turn' = turn /\ confirmed' = confirmed
      /\ aired[t] => aired'[t]
  BY <1>0 DEF FrameHeard, TxEnds, Handle, Wake, GetIrqStatus, ClearIrqStatus, GiveTxDone,
       SetMaxLength, SetRx, NothingReceived, ReadFrame, UpcallReturns, chip, callers
<1>2. t \notin disturbed /\ Held(t) /\ pc[t] \in {"idle", "waiting"}
  BY <1>1, NoticeMeaning DEF AInv
<1>3. CASE pc[t] = "idle"
  BY <1>1, <1>2, <1>3 DEF Held
<1>4. CASE pc[t] = "waiting" /\ aired[t]
  BY <1>1, <1>2, <1>4 DEF Held, Alone
<1>5. CASE pc[t] = "waiting" /\ ~aired[t]
  <2>1. Still /\ mode = "tx" /\ fifo = FrameOf(t) /\ length = FrameOf(t)
    BY <1>2, <1>5 DEF Held
  <2>2. TxEnds
    BY <2>1 DEF Still, FrameHeard, Handle, Wake, GetIrqStatus, ClearIrqStatus, GiveTxDone,
           SetMaxLength, SetRx, NothingReceived, ReadFrame, UpcallReturns
  <2>3. aired'[t]
    BY <2>1, <2>2 DEF TxEnds
  <2> QED BY <1>1, <1>2, <1>5, <2>3 DEF Held, Alone
<1> QED BY <1>2, <1>3, <1>4, <1>5

\* The account of such calls is inductive.
LEMMA AInvNext == Inv /\ AInv /\ [Next]_vars => AInv'
<1> SUFFICES ASSUME Inv, AInv, [Next]_vars, NEW t \in Task, t \notin disturbed' PROVE Held(t)'
  BY DEF AInv
<1>0. TypeOK
  BY DEF Inv
<1>1. CASE UNCHANGED vars
  BY <1>1 DEF vars, chip, service, callers, AInv, Held, Alone, Still, FrameOf
<1>2. ASSUME NEW u \in Task, WriteBuffer(u) PROVE Held(t)'
  BY <1>0, <1>2, HeldBegin
<1>3. ASSUME NEW u \in Task, Continue(u) PROVE Held(t)'
  BY <1>0, <1>3, HeldContinue
<1>4. CASE UpcallSends
  BY <1>2, <1>4 DEF UpcallSends, Task
<1>5. CASE FrameHeard \/ TxEnds \/ (Handle /\ ~UpcallSends)
  BY <1>0, <1>5, HeldElsewhere
<1> QED BY <1>1, <1>2, <1>3, <1>4, <1>5 DEF Next, Task

\* sx1262_send returns ESP_OK to a caller that nothing got in the way of only if its frame
\* went out: a TxDone that came late for an earlier call does not confirm it.
THEOREM ConfirmedWasAired == Spec => []ConfirmedMeansAired
<1>1. Init => AInv
  BY DEF Init, AInv, Held
<1>2. AInv => ConfirmedMeansAired
  BY DEF AInv, Held, ConfirmedMeansAired
<1>3. Inv /\ AInv /\ [Next]_vars => AInv'
  BY AInvNext
<1> QED BY InvInit, InvNext, <1>1, <1>2, <1>3, PTL DEF Spec
-----------------------------------------------------------------------------
(* The list of subscribers: what the first n slots of an array hold. *)

Phones(c, n) == {c[j] : j \in 0 .. n - 1}
Once(c, n) == \A j, k \in 0 .. n - 1 : c[j] = c[k] => j = k

\* A phone written behind the others joins them.
LEMMA PhonesAppend ==
  ASSUME NEW c, NEW n \in Nat, NEW d, \A j \in 0 .. n - 1 : d[j] = c[j]
  PROVE  /\ Phones(d, n) = Phones(c, n)
         /\ Phones(d, n + 1) = Phones(c, n) \cup {d[n]}
         /\ Once(c, n) => Once(d, n)
         /\ Once(c, n) /\ d[n] \notin Phones(c, n) => Once(d, n + 1)
<1>1. (n + 1) - 1 = n /\ 0 .. n = (0 .. n - 1) \cup {n}
  OBVIOUS
<1>2. Phones(d, n) = Phones(c, n)
  BY DEF Phones
<1>3. Phones(d, n + 1) = Phones(c, n) \cup {d[n]}
  BY <1>1 DEF Phones
<1>4. Once(c, n) => Once(d, n)
  BY DEF Once
<1>5. Once(c, n) /\ d[n] \notin Phones(c, n) => Once(d, n + 1)
  BY <1>1 DEF Once, Phones
<1> QED BY <1>2, <1>3, <1>4, <1>5

\* The last of n phones, moved to the place of the one in slot k, leaves the others.
LEMMA PhonesMoveLast ==
  ASSUME NEW c, NEW n \in Nat \ {0}, NEW k \in 0 .. n - 1, Once(c, n),
         NEW d, d[k] = c[n - 1], \A j \in 0 .. n - 1 : j # k => d[j] = c[j]
  PROVE  Phones(d, n - 1) = Phones(c, n) \ {c[k]} /\ Once(d, n - 1)
<1>1. n - 1 \in Nat /\ 0 .. n - 1 = (0 .. (n - 1) - 1) \cup {n - 1} /\ n - 1 \notin 0 .. (n - 1) - 1
  OBVIOUS
<1>2. \A j, l \in 0 .. n - 1 : c[j] = c[l] => j = l
  BY DEF Once
<1>3. ASSUME NEW j \in 0 .. (n - 1) - 1 PROVE d[j] \in Phones(c, n) \ {c[k]}
  <2>1. j # n - 1 /\ j \in 0 .. n - 1 /\ n - 1 \in 0 .. n - 1
    BY <1>1
  <2>2. CASE j = k
    BY <1>2, <2>1, <2>2 DEF Phones
  <2>3. CASE j # k
    BY <1>2, <2>1, <2>3 DEF Phones
  <2> QED BY <2>2, <2>3
<1>4. ASSUME NEW j \in 0 .. n - 1, c[j] # c[k]
      PROVE  \E l \in 0 .. (n - 1) - 1 : d[l] = c[j]
  <2>1. CASE j = n - 1
    <3>1. k \in 0 .. (n - 1) - 1
      BY <1>1, <1>4, <2>1
    <3> QED BY <2>1, <3>1
  <2>2. CASE j # n - 1
    <3>1. j \in 0 .. (n - 1) - 1 /\ j # k
      BY <1>1, <1>4, <2>2
    <3> QED BY <3>1
  <2> QED BY <2>1, <2>2
<1>5. Phones(d, n - 1) = Phones(c, n) \ {c[k]}
  BY <1>3, <1>4 DEF Phones
<1>6. ASSUME NEW j \in 0 .. (n - 1) - 1, NEW l \in 0 .. (n - 1) - 1, d[j] = d[l] PROVE j = l
  <2>1. j \in 0 .. n - 1 /\ l \in 0 .. n - 1 /\ n - 1 \in 0 .. n - 1 /\ j # n - 1 /\ l # n - 1
    BY <1>1
  <2> QED BY <1>2, <1>6, <2>1
<1>7. Once(d, n - 1)
  BY <1>6 DEF Once
<1> QED BY <1>5, <1>7

\* As many phones as slots; and no phone is left out of a list that is full, as there
\* are no more connections than slots.
LEMMA PhonesCounted ==
  ASSUME NEW c \in [Slot -> Conn], NEW n \in 0 .. MaxSubscribers, Once(c, n)
  PROVE  /\ n = Cardinality(Phones(c, n))
         /\ n <= MaxConnections
         /\ n = MaxSubscribers => Phones(c, n) = Conn
<1> DEFINE J == 0 .. n - 1
           f == [j \in J |-> c[j]]
<1>1. MaxSubscribers \in Nat /\ MaxConnections \in Nat /\ n \in Nat /\ \A j \in J : c[j] \in Conn
  BY RoomAssumption DEF Slot
<1>2. IsFiniteSet(J) /\ Cardinality(J) = n /\ IsFiniteSet(Conn) /\ Cardinality(Conn) = MaxConnections
  <2>1. /\ IsFiniteSet(0 .. n - 1)
        /\ Cardinality(0 .. n - 1) = IF 0 > n - 1 THEN 0 ELSE (n - 1) - 0 + 1
    BY <1>1, FS_Interval
  <2>2. /\ IsFiniteSet(0 .. MaxConnections - 1)
        /\ Cardinality(0 .. MaxConnections - 1) =
             IF 0 > MaxConnections - 1 THEN 0 ELSE (MaxConnections - 1) - 0 + 1
    BY <1>1, FS_Interval
  <2> QED BY <1>1, <2>1, <2>2, RoomAssumption DEF Conn
<1>3. f \in Injection(J, Conn) /\ f \in Bijection(J, Phones(c, n))
  BY <1>1 DEF Phones, Once, Injection, Bijection, Surjection, IsInjective
<1> HIDE DEF f
<1>4. n = Cardinality(Phones(c, n))
  BY <1>2, <1>3, FS_Bijection DEF ExistsBijection
<1>5. n <= MaxConnections /\ (n = MaxConnections => f \in Surjection(J, Conn))
  BY <1>2, <1>3, FS_Injection
<1>6. ASSUME n = MaxSubscribers PROVE Phones(c, n) = Conn
  <2>1. n = MaxConnections
    BY <1>1, <1>5, <1>6, RoomAssumption
  <2>2. f \in Surjection(J, Conn) /\ f \in [J -> Phones(c, n)]
    BY <1>3, <1>5, <2>1 DEF Bijection, Surjection, Injection
  <2>3. \A h \in Conn : \E j \in J : f[j] = h
    BY <2>2 DEF Surjection
  <2>4. Phones(c, n) \subseteq Conn
    BY <1>1 DEF Phones
  <2> QED BY <2>2, <2>3, <2>4
<1> QED BY <1>4, <1>5, <1>6
-----------------------------------------------------------------------------
(* The host task: how many slots hold phones where it is, and which phones. *)

Settled ==
  CASE host \in {"fill", "shrink"} -> count - 1
    [] host = "move" -> count + 1
    [] OTHER -> count

ListInv ==
  /\ Settled \in 0 .. MaxSubscribers
  /\ Once(conns, Settled)
  /\ host \in {"idle", "advertise", "mesh_send", "shrink"} => Phones(conns, Settled) = notify
  /\ Adding => notify = Phones(conns, Settled) \cup {whom}
  /\ host \in {"grow", "fill"} => whom \notin Phones(conns, Settled)
  /\ host = "grow" => count < MaxSubscribers /\ conns[count] = whom
  /\ Removing /\ host # "shrink" => whom \notin notify /\ notify = Phones(conns, Settled) \ {whom}
  /\ host = "move" => whom \in Phones(conns, Settled)

\* What a step of subscriber_add or subscriber_remove leaves alone, and its outcome
\* while a phone is added.
LEMMA ListAdd ==
  ASSUME BridgeTypeOK, ListInv, ChangeList, Adding
  PROVE  /\ ListInv'
         /\ conns' \in [Slot -> Conn] /\ count' \in 0 .. MaxSubscribers
         /\ host' \in {"grow", "fill", "idle", "advertise"}
         /\ Settled <= Settled' /\ count <= count'
         /\ \A j \in 0 .. Settled - 1 : conns'[j] = conns[j]
<1>1. /\ conns \in [Slot -> Conn] /\ count \in 0 .. MaxSubscribers /\ whom \in Conn
      /\ MaxSubscribers \in Nat /\ notify' = notify
  BY RoomAssumption DEF BridgeTypeOK, ChangeList, nimble
<1>2. CASE NothingToAdd
  <2>1. host = "add" /\ host' \in {"idle", "advertise"} /\ conns' = conns /\ count' = count
    BY <1>2 DEF NothingToAdd, ListDone, list
  <2>2. /\ Settled = count /\ Settled' = count /\ Once(conns, count)
        /\ notify = Phones(conns, count) \cup {whom}
    BY <1>1, <2>1 DEF Settled, ListInv, Adding
  <2>3. whom \in Phones(conns, count)
    BY <1>1, <1>2, <2>2, PhonesCounted DEF NothingToAdd, AlreadyThere, Listed, Phones
  <2> QED BY <1>1, <2>1, <2>2, <2>3 DEF ListInv, Adding, Removing
<1>3. CASE Append /\ host = "add"
  <2>1. /\ whom \notin Phones(conns, count) /\ count < MaxSubscribers /\ whom' = whom
        /\ \/ /\ conns' = [conns EXCEPT ![count] = whom] /\ host' = "grow" /\ count' = count
           \/ /\ conns' = conns /\ host' = "fill" /\ count' = count + 1
    BY <1>3 DEF Append, AlreadyThere, Listed, Phones
  <2>2. /\ Settled = count /\ Settled' = count /\ Once(conns, count)
        /\ notify = Phones(conns, count) \cup {whom}
    BY <1>1, <1>3, <2>1 DEF Settled, ListInv, Adding
  <2>3. CASE host' = "grow"
    <3>1. conns' = [conns EXCEPT ![count] = whom] /\ count' = count
      BY <2>1, <2>3
    <3>2. /\ conns' \in [Slot -> Conn] /\ conns'[count] = whom
          /\ \A j \in 0 .. count - 1 : conns'[j] = conns[j]
      BY <1>1, <2>1, <3>1 DEF Slot
    <3>3. Phones(conns', count) = Phones(conns, count) /\ Once(conns', count)
      BY <1>1, <2>2, <3>2, PhonesAppend
    <3>4. ListInv'
      BY <1>1, <2>1, <2>2, <2>3, <3>1, <3>2, <3>3 DEF ListInv, Adding, Removing
    <3> QED BY <1>1, <2>2, <2>3, <3>1, <3>2, <3>4
  <2>4. CASE host' = "fill"
    BY <1>1, <2>1, <2>2, <2>4 DEF ListInv, Adding, Removing
  <2> QED BY <2>1, <2>3, <2>4
<1>4. CASE Append /\ host = "grow"
  <2>1. host' \in {"idle", "advertise"} /\ conns' = conns /\ count' = count + 1
    BY <1>4 DEF Append, ListDone
  <2>2. /\ Settled = count /\ Settled' = count + 1 /\ Once(conns, count)
        /\ notify = Phones(conns, count) \cup {whom} /\ whom \notin Phones(conns, count)
        /\ count < MaxSubscribers /\ conns[count] = whom
    BY <1>1, <1>4, <2>1 DEF Settled, ListInv, Adding
  <2>3. Phones(conns, count + 1) = notify /\ Once(conns, count + 1)
    BY <1>1, <2>2, PhonesAppend
  <2> QED BY <1>1, <2>1, <2>2, <2>3 DEF ListInv, Adding, Removing
<1>5. CASE Append /\ host = "fill"
  <2>1. /\ host' \in {"idle", "advertise"} /\ count' = count
        /\ conns' = [conns EXCEPT ![count - 1] = whom]
    BY <1>5 DEF Append, ListDone
  <2>2. /\ Settled = count - 1 /\ Settled' = count /\ count - 1 \in 0 .. MaxSubscribers
        /\ Once(conns, count - 1)
        /\ notify = Phones(conns, count - 1) \cup {whom} /\ whom \notin Phones(conns, count - 1)
    BY <1>1, <1>5, <2>1 DEF Settled, ListInv, Adding
  <2>3. count - 1 \in Nat /\ count - 1 < MaxSubscribers /\ (count - 1) + 1 = count
    BY <1>1, <2>2
  <2>4. PICK n \in Nat : n = count - 1
    BY <2>3
  <2>5. /\ conns' \in [Slot -> Conn] /\ conns'[n] = whom /\ n + 1 = count
        /\ \A j \in 0 .. n - 1 : conns'[j] = conns[j]
    BY <1>1, <2>1, <2>3, <2>4 DEF Slot
  <2>6. Once(conns, n) /\ whom \notin Phones(conns, n) /\ notify = Phones(conns, n) \cup {whom}
    BY <2>2, <2>4
  <2>7. Phones(conns', n + 1) = notify /\ Once(conns', n + 1)
    BY <2>5, <2>6, PhonesAppend
  <2>8. /\ Phones(conns', count) = notify /\ Once(conns', count)
        /\ Settled' = count /\ host' \in {"idle", "advertise"}
    BY <2>1, <2>2, <2>5, <2>7
  <2>9. ListInv'
    BY <1>1, <2>8 DEF ListInv, Adding, Removing
  <2> QED BY <1>1, <2>1, <2>2, <2>4, <2>5, <2>9
<1> QED BY <1>2, <1>3, <1>4, <1>5
     DEF ChangeList, SubscriberAdd, SubscriberRemove, NothingToRemove, MoveLast, Append, Adding

\* And while one is removed.  A phone that is not on the list moves nothing.
LEMMA ListRemove ==
  ASSUME BridgeTypeOK, ListInv, ChangeList, Removing
  PROVE  /\ ListInv'
         /\ conns' \in [Slot -> Conn] /\ count' \in 0 .. MaxSubscribers
         /\ host' \in {"shrink", "move", "idle", "advertise"}
         /\ host = "remove" /\ whom \notin Phones(conns, count) =>
              host' \in {"idle", "advertise"} /\ conns' = conns /\ count' = count
<1>1. /\ conns \in [Slot -> Conn] /\ count \in 0 .. MaxSubscribers /\ whom \in Conn
      /\ MaxSubscribers \in Nat /\ notify' = notify
  BY RoomAssumption DEF BridgeTypeOK, ChangeList, nimble
<1>2. CASE NothingToRemove
  <2>1. /\ host = "remove" /\ host' \in {"idle", "advertise"} /\ conns' = conns /\ count' = count
        /\ whom \notin Phones(conns, count)
    BY <1>2 DEF NothingToRemove, ListDone, Unlisted, Listed, Phones
  <2>2. /\ Settled = count /\ Settled' = count /\ Once(conns, count)
        /\ notify = Phones(conns, count) \ {whom}
    BY <1>1, <2>1 DEF Settled, ListInv, Removing
  <2> QED BY <1>1, <2>1, <2>2 DEF ListInv, Adding, Removing
<1>3. CASE MoveLast /\ host = "remove"
  <2>1. PICK j \in 0 .. count - 1 :
          /\ conns[j] = whom /\ whom' = whom
          /\ \/ /\ conns' = [conns EXCEPT ![j] = conns[count - 1]]
                /\ host' = "shrink" /\ count' = count
             \/ host' = "move" /\ count' = count - 1 /\ conns' = conns
    BY <1>3 DEF MoveLast, LastToHole, CountDown
  <2>2. /\ Settled = count /\ Once(conns, count) /\ whom \notin notify
        /\ notify = Phones(conns, count) \ {whom} /\ count \in 1 .. MaxSubscribers
        /\ whom \in Phones(conns, count)
    BY <1>1, <1>3, <2>1 DEF Settled, ListInv, Removing, Phones
  <2>3. CASE host' = "shrink"
    <3>1. conns' = [conns EXCEPT ![j] = conns[count - 1]] /\ count' = count /\ Settled' = count - 1
      BY <2>1, <2>3 DEF Settled
    <3>2. /\ conns' \in [Slot -> Conn] /\ count \in Nat \ {0}
          /\ conns'[j] = conns[count - 1]
          /\ \A k \in 0 .. count - 1 : k # j => conns'[k] = conns[k]
      BY <1>1, <2>1, <2>2, <3>1 DEF Slot
    <3>3. Phones(conns', count - 1) = notify /\ Once(conns', count - 1)
      BY <2>1, <2>2, <3>2, PhonesMoveLast
    <3>4. Settled' = count - 1 /\ count - 1 \in 0 .. MaxSubscribers
      BY <1>1, <2>2, <3>1
    <3>5. ListInv'
      BY <1>1, <2>3, <3>3, <3>4 DEF ListInv, Adding, Removing
    <3> QED BY <1>1, <2>2, <2>3, <3>1, <3>2, <3>5
  <2>4. CASE host' = "move"
    <3>1. conns' = conns /\ count' = count - 1 /\ Settled' = count
      BY <1>1, <2>1, <2>4 DEF Settled
    <3> QED BY <1>1, <1>3, <2>1, <2>2, <2>4, <3>1 DEF ListInv, Adding, Removing
  <2> QED BY <2>1, <2>3, <2>4
<1>4. CASE MoveLast /\ host = "shrink"
  <2>1. host' \in {"idle", "advertise"} /\ conns' = conns /\ count' = count - 1
    BY <1>4 DEF MoveLast, ListDone, CountDown
  <2>2. /\ Settled = count - 1 /\ Settled' = count - 1 /\ count - 1 \in 0 .. MaxSubscribers
        /\ Once(conns, count - 1) /\ Phones(conns, count - 1) = notify
    BY <1>1, <1>4, <2>1 DEF Settled, ListInv
  <2> QED BY <1>1, <1>4, <2>1, <2>2 DEF ListInv, Adding, Removing
<1>5. CASE MoveLast /\ host = "move"
  <2>1. PICK j \in 0 .. count :
          /\ conns[j] = whom /\ conns' = [conns EXCEPT ![j] = conns[count]]
          /\ host' \in {"idle", "advertise"} /\ count' = count
    BY <1>5 DEF MoveLast, ListDone, LastToHole
  <2>2. /\ Settled = count + 1 /\ Settled' = count /\ count + 1 \in 1 .. MaxSubscribers
        /\ Once(conns, count + 1) /\ notify = Phones(conns, count + 1) \ {whom}
        /\ (count + 1) - 1 = count
    BY <1>1, <1>5, <2>1 DEF Settled, ListInv, Removing
  <2>3. PICK n \in Nat \ {0} : n = count + 1
    BY <1>1
  <2>4. /\ conns' \in [Slot -> Conn] /\ n - 1 = count /\ j \in 0 .. n - 1
        /\ conns'[j] = conns[n - 1]
        /\ \A k \in 0 .. n - 1 : k # j => conns'[k] = conns[k]
    BY <1>1, <2>1, <2>2, <2>3 DEF Slot
  <2>5. Once(conns, n) /\ notify = Phones(conns, n) \ {conns[j]}
    BY <2>1, <2>2, <2>3
  <2>6. Phones(conns', n - 1) = notify /\ Once(conns', n - 1)
    BY <2>4, <2>5, PhonesMoveLast
  <2>7. ListInv'
    BY <1>1, <2>1, <2>2, <2>4, <2>6 DEF ListInv, Adding, Removing
  <2> QED BY <1>1, <1>5, <2>1, <2>4, <2>7
<1> QED BY <1>2, <1>3, <1>4, <1>5
     DEF ChangeList, SubscriberAdd, SubscriberRemove, NothingToAdd, MoveLast, Append, Removing
\* Events, and the ends of handlers, leave the list as it is.
Event ==
  \/ Advertise \/ Sync \/ Reset \/ AdvertisingEnds \/ MeshSendReturns
  \/ \E h \in Conn : Connect(h) \/ Disconnect(h) \/ Subscribe(h) \/ Unsubscribe(h) \/ Write(h)

LEMMA ListEvent ==
  ASSUME BridgeTypeOK, ListInv, Event
  PROVE  /\ ListInv' /\ conns' = conns /\ count' = count
         /\ host \in {"idle", "advertise", "mesh_send"}
         /\ host' \in {"idle", "advertise", "mesh_send", "add", "remove"}
<1>1. /\ conns' = conns /\ count' = count /\ host \in {"idle", "advertise", "mesh_send"}
      /\ \/ host' \in {"idle", "advertise", "mesh_send"} /\ notify' = notify
         \/ host' = "add" /\ notify' = notify \cup {whom'}
         \/ host' = "remove" /\ notify' = notify \ {whom'}
  BY DEF Event, Advertise, Sync, Reset, AdvertisingEnds, AdvertiseAgain, MeshSendReturns, Connect,
       Disconnect, Subscribe, Unsubscribe, Write, Leaves, list, nimble, history
<1>2. /\ Settled = count /\ Settled' = count /\ Once(conns, count) /\ count \in 0 .. MaxSubscribers
      /\ Phones(conns, count) = notify
  BY <1>1 DEF Settled, ListInv, Adding, Removing
<1> QED BY <1>1, <1>2 DEF ListInv, Adding, Removing

-----------------------------------------------------------------------------
(* The fan-out: who has been passed, and who was reached. *)

Left == "left" \in excuses
Joined == "joined" \in excuses
Starved == "no buffer" \in excuses

\* While no phone has left, phone h sits in a slot of its own, which does not change; once
\* the walk is past it, or over, h was notified or a buffer was missing.
Awaits(h) ==
  \E j \in 0 .. Settled - 1 :
    /\ conns[j] = h
    /\ fan = "done" => j < i
    /\ j < i => got[h] > 0 \/ Starved

\* While none has left or joined, who was notified was so once, from a slot that is passed.
Passed(h) == got[h] > 0 => got[h] = 1 /\ \E j \in 0 .. count - 1 : j < i /\ conns[j] = h

FanInv ==
  /\ fan = "idle" => /\ i = 0 /\ stayed = {} /\ excuses = {} /\ \A h \in Conn : got[h] = 0
  /\ stayed \subseteq notify
  /\ fan # "idle" /\ ~Left =>
       /\ host \notin {"shrink", "move"}
       /\ host = "remove" => whom \notin Phones(conns, Settled)
       /\ fan = "send" => i < count
       /\ \A h \in stayed : Awaits(h)
  /\ fan # "idle" /\ ~Left /\ ~Joined =>
       /\ ~Adding
       /\ \A h \in Conn : Passed(h)

BridgeInv == BridgeTypeOK /\ ListInv /\ FanInv

\* It holds when the bridge starts, with an empty list.
LEMMA BridgeInvInit == BridgeInit => BridgeInv
<1> SUFFICES ASSUME BridgeInit PROVE BridgeInv
  OBVIOUS
<1>1. MaxSubscribers \in Nat /\ 0 \in Conn /\ \A j \in 0 .. 0 - 1 : FALSE
  BY RoomAssumption DEF Conn
<1>2. BridgeTypeOK
  <2>1. conns \in [Slot -> Conn] /\ got \in [Conn -> Nat] /\ {count, i} \subseteq 0 .. MaxSubscribers
    BY <1>1 DEF BridgeInit
  <2> QED BY <1>1, <2>1 DEF BridgeInit, BridgeTypeOK
<1>3. Settled = 0 /\ Phones(conns, 0) = {} /\ Once(conns, 0)
  BY <1>1 DEF BridgeInit, Settled, Phones, Once
<1>4. ListInv
  BY <1>1, <1>3 DEF BridgeInit, ListInv, Adding, Removing
<1>5. FanInv
  BY DEF BridgeInit, FanInv, Conn
<1> QED BY <1>2, <1>4, <1>5 DEF BridgeInv

\* Every step keeps the bridge's variables in their range.
LEMMA BridgeTypeNext ==
  ASSUME BridgeTypeOK, ListInv, BridgeNext
  PROVE  BridgeTypeOK'
<1>0. /\ MaxSubscribers \in Nat /\ conns \in [Slot -> Conn] /\ count \in 0 .. MaxSubscribers
      /\ i \in 0 .. MaxSubscribers /\ (fan = "send" => i \in Slot) /\ got \in [Conn -> Nat]
  BY RoomAssumption DEF BridgeTypeOK
<1>1. CASE ChangeList
  <2>1. Adding \/ Removing
    BY <1>1 DEF ChangeList, SubscriberAdd, SubscriberRemove, NothingToAdd, Append, NothingToRemove,
         MoveLast, Adding, Removing
  <2>2. /\ conns' \in [Slot -> Conn] /\ count' \in 0 .. MaxSubscribers
        /\ host' \in {"idle", "advertise", "grow", "fill", "shrink", "move"}
    BY <1>1, <2>1, ListAdd, ListRemove
  <2>3. whom' \in Conn
    <3>1. 0 \in Conn
      BY RoomAssumption DEF Conn
    <3> QED BY <1>1, <3>1 DEF ChangeList, SubscriberAdd, SubscriberRemove, NothingToAdd, Append,
         NothingToRemove, MoveLast, ListDone, BridgeTypeOK
  <2> QED BY <1>1, <2>2, <2>3 DEF ChangeList, nimble, fanOut, history, BridgeTypeOK
<1>2. CASE Event
  <2>1. excuses' \subseteq {"left", "joined", "no buffer"}
    BY <1>2 DEF Event, Advertise, Sync, Reset, AdvertisingEnds, MeshSendReturns, Connect, Disconnect,
         Subscribe, Unsubscribe, Write, Leaves, Excuse, history, BridgeTypeOK
  <2>2. conns' = conns /\ count' = count /\ UNCHANGED fanOut
    BY <1>2, ListEvent DEF Event, Advertise, Sync, Reset, AdvertisingEnds, MeshSendReturns, Connect,
         Disconnect, Subscribe, Unsubscribe, Write
  <2> USE DEF BridgeTypeOK, fanOut, AdvertiseAgain, nimble, history, Leaves
  <2>3. CASE Advertise \/ Sync \/ Reset \/ AdvertisingEnds \/ MeshSendReturns
    BY <2>1, <2>2, <2>3 DEF Advertise, CanStart, Sync, Reset, AdvertisingEnds, MeshSendReturns
  <2>4. ASSUME NEW h \in Conn, Connect(h) \/ Write(h) PROVE BridgeTypeOK'
    BY <2>1, <2>2, <2>4 DEF Connect, Write
  <2>5. ASSUME NEW h \in Conn, Disconnect(h) \/ Subscribe(h) \/ Unsubscribe(h) PROVE BridgeTypeOK'
    BY <2>1, <2>2, <2>5 DEF Disconnect, Subscribe, Unsubscribe
  <2> QED BY <1>2, <2>3, <2>4, <2>5 DEF Event
<1>3. CASE OnMeshRx \/ Return
  <2>1. i' \in 0 .. MaxSubscribers /\ got' \in [Conn -> Nat]
    BY <1>0, <1>3 DEF OnMeshRx, Return
  <2>2. stayed' \subseteq Conn /\ excuses' \subseteq {"left", "joined", "no buffer"}
    BY <1>3 DEF OnMeshRx, Return, BridgeTypeOK
  <2> QED BY <1>3, <2>1, <2>2 DEF OnMeshRx, Return, list, nimble, BridgeTypeOK
<1>4. CASE Test
  <2>1. More => i \in Slot
    BY <1>0 DEF More, Slot
  <2> QED BY <1>4, <2>1 DEF Test, list, nimble, history, BridgeTypeOK
<1>5. CASE NoBuffer \/ Notify
  <2>0. fan = "send" /\ i \in Slot
    BY <1>0, <1>5 DEF NoBuffer, Notify
  <2>1. i \in Slot /\ i + 1 \in 0 .. MaxSubscribers
    BY <1>0, <2>0 DEF Slot
  <2>2. conns[i] \in Conn /\ got[conns[i]] + 1 \in Nat
    BY <1>0, <2>1
  <2>3. CASE NoBuffer
    BY <2>1, <2>3 DEF NoBuffer, NextPhone, Excuse, list, nimble, BridgeTypeOK
  <2>4. CASE Notify
    <3>1. got' \in [Conn -> Nat]
      BY <1>0, <2>2, <2>4 DEF Notify
    <3> QED BY <2>1, <2>4, <3>1 DEF Notify, list, nimble, history, BridgeTypeOK
  <2> QED BY <1>5, <2>3, <2>4
<1> QED BY <1>1, <1>2, <1>3, <1>4, <1>5 DEF BridgeNext, HostStep, FanOutStep, Event
\* Events: who leaves is not waited for, and who joins was not there from the beginning.
LEMMA FanEvent ==
  ASSUME BridgeTypeOK, ListInv, FanInv, Event
  PROVE  FanInv'
<1>1. /\ conns' = conns /\ count' = count /\ UNCHANGED <<fan, i, got>>
      /\ host \in {"idle", "advertise", "mesh_send"}
  BY ListEvent DEF Event, Advertise, Sync, Reset, AdvertisingEnds, MeshSendReturns, Connect,
       Disconnect, Subscribe, Unsubscribe, Write, fanOut, list
<1>2. /\ Settled = count /\ Phones(conns, count) = notify /\ ~Removing /\ ~Adding
  BY <1>1 DEF Settled, ListInv, Removing, Adding
<1>3. CASE Advertise \/ Sync \/ Reset \/ AdvertisingEnds \/ MeshSendReturns
             \/ \E h \in Conn : Connect(h) \/ Write(h)
  <2>1. host' \in {"idle", "advertise", "mesh_send"} /\ UNCHANGED <<notify, stayed, excuses>>
    BY <1>3 DEF Advertise, Sync, Reset, AdvertisingEnds, AdvertiseAgain, MeshSendReturns, Connect, Write,
         nimble, history
  <2>2. Settled' = count
    BY <1>1, <2>1 DEF Settled
  <2> QED BY <1>1, <1>2, <2>1, <2>2 DEF FanInv, Awaits, Passed, Left, Joined, Starved, Adding
<1>4. ASSUME NEW h \in Conn, Disconnect(h) \/ Unsubscribe(h) PROVE FanInv'
  <2>1. /\ host' = "remove" /\ whom' = h /\ notify' = notify \ {h} /\ stayed' = stayed \ {h}
        /\ excuses' = IF h \in notify
             THEN IF fan = "idle" THEN {} ELSE excuses \cup {"left"} ELSE excuses
    BY <1>4 DEF Disconnect, Unsubscribe, Leaves, Excuse
  <2>2. Settled' = count
    BY <1>1, <2>1 DEF Settled
  <2>3. CASE h \in notify /\ fan # "idle"
    <3>1. "left" \in excuses'
      BY <2>1, <2>3
    <3> QED BY <1>1, <2>1, <2>3, <3>1 DEF FanInv, Left
  <2>4. CASE fan = "idle"
    BY <1>1, <2>1, <2>4 DEF FanInv
  <2>5. CASE h \notin notify /\ fan # "idle"
    <3>1. excuses' = excuses
      BY <2>1, <2>5
    <3> QED BY <1>1, <1>2, <2>1, <2>2, <2>5, <3>1 DEF FanInv, Awaits, Passed, Left, Joined, Starved, Adding
  <2> QED BY <2>3, <2>4, <2>5
<1>5. ASSUME NEW h \in Conn, Subscribe(h) PROVE FanInv'
  <2>1. /\ host' = "add" /\ notify' = notify \cup {h} /\ stayed' = stayed
        /\ excuses' = IF fan = "idle" THEN {} ELSE excuses \cup {"joined"}
    BY <1>5 DEF Subscribe, Excuse
  <2>2. Settled' = count
    BY <1>1, <2>1 DEF Settled
  <2>3. CASE fan = "idle"
    BY <1>1, <2>1, <2>3 DEF FanInv
  <2>4. CASE fan # "idle"
    <3>1. "joined" \in excuses' /\ ("left" \in excuses' <=> Left) /\ ("no buffer" \in excuses' <=> Starved)
      BY <2>1, <2>4 DEF Left, Starved
    <3> QED BY <1>1, <1>2, <2>1, <2>2, <2>4, <3>1 DEF FanInv, Awaits, Left, Joined, Starved
  <2> QED BY <2>3, <2>4
<1> QED BY <1>3, <1>4, <1>5 DEF Event

\* The stores to the list: while no phone leaves, those who wait keep their slots; and while
\* none joins either, there are no stores.
LEMMA FanList ==
  ASSUME BridgeTypeOK, ListInv, FanInv, ChangeList
  PROVE  FanInv'
<1>0. count \in 0 .. MaxSubscribers /\ i \in 0 .. MaxSubscribers /\ MaxSubscribers \in Nat
  BY RoomAssumption DEF BridgeTypeOK
<1>1. UNCHANGED <<notify, fan, i, got, stayed, excuses>> /\ count \in Nat /\ i \in Nat
  BY <1>0 DEF ChangeList, nimble, fanOut, history
<1>2. CASE fan = "idle" \/ Left
  BY <1>1, <1>2 DEF FanInv, Left
<1>3. CASE fan # "idle" /\ ~Left /\ Adding
  <2>1. /\ host' \in {"grow", "fill", "idle", "advertise"} /\ Settled <= Settled' /\ count <= count'
        /\ \A j \in 0 .. Settled - 1 : conns'[j] = conns[j]
        /\ count' \in Nat /\ Settled' \in Nat /\ Settled \in Nat
    BY <1>3, ListAdd, RoomAssumption DEF ListInv
  <2>2. Joined
    BY <1>3 DEF FanInv
  <2>3. ASSUME NEW h \in stayed PROVE Awaits(h)'
    <3>1. PICK m \in Nat, n \in Nat : m = Settled /\ n = Settled' /\ m <= n
      BY <2>1
    <3>2. m <= n
      BY <3>1
    <3>3. \A l \in 0 .. m - 1 : l \in 0 .. n - 1
      BY <3>2
    <3>4. PICK j \in 0 .. m - 1 :
            /\ conns[j] = h
            /\ fan = "done" => j < i
            /\ j < i => got[h] > 0 \/ Starved
      BY <1>3, <2>3, <3>1 DEF FanInv, Awaits
    <3>5. j \in 0 .. n - 1
      BY <3>3, <3>4
    <3> QED BY <1>1, <2>1, <3>1, <3>4, <3>5 DEF Awaits, Starved
  <2>4. fan = "send" => i < count'
    BY <1>1, <1>3, <2>1 DEF FanInv
  <2> QED BY <1>1, <1>3, <2>1, <2>2, <2>3, <2>4 DEF FanInv, Left, Joined
<1>4. CASE fan # "idle" /\ ~Left /\ ~Adding
  <2>1. host = "remove" /\ whom \notin Phones(conns, Settled) /\ Settled = count
    BY <1>4 DEF FanInv, ChangeList, SubscriberAdd, SubscriberRemove, NothingToAdd, Append,
         NothingToRemove, MoveLast, Adding, Settled
  <2>2. host' \in {"idle", "advertise"} /\ conns' = conns /\ count' = count
    BY <2>1, ListRemove DEF Removing
  <2>3. Settled' = count
    BY <2>2 DEF Settled
  <2> QED BY <1>1, <1>4, <2>1, <2>2, <2>3 DEF FanInv, Awaits, Passed, Left, Joined, Starved, Adding
<1> QED BY <1>2, <1>3, <1>4
\* The walk: it starts with everyone on the list before it, notifies the phone in a slot
\* or misses it for want of a buffer, and ends behind the last slot.
LEMMA FanWalk ==
  ASSUME BridgeTypeOK, ListInv, FanInv, OnMeshRx \/ FanOutStep
  PROVE  FanInv'
<1>0. /\ count \in 0 .. MaxSubscribers /\ i \in 0 .. MaxSubscribers /\ MaxSubscribers \in Nat
      /\ conns \in [Slot -> Conn] /\ got \in [Conn -> Nat]
  BY RoomAssumption DEF BridgeTypeOK
<1>1. /\ UNCHANGED <<conns, count, links, notify, host, whom>> /\ count \in Nat /\ i \in Nat
      /\ Settled' = Settled
  <2>1. UNCHANGED <<conns, count, links, notify, host, whom>>
    BY DEF OnMeshRx, FanOutStep, Test, Notify, NoBuffer, Return, list, nimble
  <2>2. Settled' = Settled
    BY <2>1 DEF Settled
  <2>3. count \in Nat /\ i \in Nat
    BY <1>0
  <2> QED BY <2>1, <2>2, <2>3
<1>2. Settled \in Nat /\ (host \notin {"shrink", "move"} => Settled <= count)
  BY <1>0 DEF Settled, ListInv
<1>3. CASE OnMeshRx
  <2>1. /\ fan = "idle" /\ fan' = "test" /\ i' = i /\ got' = got
        /\ stayed' = IF Adding THEN notify \ {whom} ELSE notify
        /\ excuses' = (IF Removing THEN {"left"} ELSE {}) \cup (IF Adding THEN {"joined"} ELSE {})
    BY <1>3 DEF OnMeshRx
  <2>2. i = 0 /\ \A h \in Conn : got[h] = 0
    BY <2>1 DEF FanInv
  <2>3. ASSUME ~Removing, NEW h \in stayed' PROVE Awaits(h)'
    <3>1. h \in Phones(conns, Settled)
      BY <2>1, <2>3 DEF ListInv, Adding, Removing, BridgeTypeOK
    <3>2. PICK j \in 0 .. Settled - 1 : conns[j] = h
      BY <3>1 DEF Phones
    <3>3. ~(j < i)
      BY <1>2, <2>2, <3>2
    <3> QED BY <1>1, <2>1, <3>2, <3>3 DEF Awaits
  <2>4. ~Left' => ~Removing
    BY <2>1 DEF Left
  <2>5. ~Joined' => ~Adding
    BY <2>1 DEF Joined
  <2>6. \A h \in Conn : Passed(h)'
    BY <2>1, <2>2 DEF Passed
  <2> QED BY <1>1, <2>1, <2>3, <2>4, <2>5, <2>6 DEF FanInv, Removing, Adding
<1>4. CASE Test
  <2>1. /\ fan = "test" /\ fan' = IF i < count THEN "send" ELSE "done"
        /\ UNCHANGED <<i, got, stayed, excuses>>
    BY <1>4 DEF Test, More, history
  <2>2. ASSUME ~Left, NEW h \in stayed PROVE Awaits(h)'
    <3>1. host \notin {"shrink", "move"} /\ Awaits(h)
      BY <2>1, <2>2 DEF FanInv
    <3>2. PICK m \in Nat : m = Settled /\ m <= count
      BY <1>2, <3>1
    <3>3. PICK j \in 0 .. m - 1 : conns[j] = h /\ (j < i => got[h] > 0 \/ Starved)
      BY <3>1, <3>2 DEF Awaits
    <3>4. m <= count
      BY <3>2
    <3>5. fan' = "done" => j < i
      BY <1>1, <2>1, <3>3, <3>4
    <3> QED BY <1>1, <2>1, <3>2, <3>3, <3>5 DEF Awaits, Starved
  <2> QED BY <1>1, <2>1, <2>2 DEF FanInv, Passed, Left, Joined, Starved, Adding
<1>5. CASE NoBuffer
  <2>1. /\ fan = "send" /\ fan' = "test" /\ i' = i + 1 /\ UNCHANGED <<got, stayed>>
        /\ excuses' = excuses \cup {"no buffer"}
    BY <1>5 DEF NoBuffer, NextPhone, Excuse
  <2>2. ("left" \in excuses' <=> Left) /\ ("joined" \in excuses' <=> Joined) /\ "no buffer" \in excuses'
    BY <2>1 DEF Left, Joined
  <2>3. ASSUME ~Left, NEW h \in stayed PROVE Awaits(h)'
    BY <1>1, <2>1, <2>2, <2>3 DEF FanInv, Awaits, Starved
  <2>4. ASSUME ~Left, ~Joined, NEW h \in Conn PROVE Passed(h)'
    <3>1. Passed(h)
      BY <2>1, <2>4 DEF FanInv
    <3>2. PICK k \in Nat : k = i
      BY <1>1
    <3>3. \A j \in 0 .. count - 1 : j < k => j < k + 1
      BY <1>1
    <3> QED BY <1>1, <2>1, <3>1, <3>2, <3>3 DEF Passed
  <2> QED BY <1>1, <2>1, <2>2, <2>3, <2>4 DEF FanInv, Left, Joined, Adding
<1>6. CASE Notify
  <2>1. /\ fan = "send" /\ fan' = "test" /\ i' = i + 1 /\ UNCHANGED <<stayed, excuses>>
        /\ got' = IF conns[i] \in links THEN [got EXCEPT ![conns[i]] = @ + 1] ELSE got
        /\ i \in Slot /\ conns[i] \in Conn
    BY <1>6 DEF Notify, history, BridgeTypeOK
  <2>2. \A h \in Conn : /\ got'[h] >= got[h] /\ (h # conns[i] => got'[h] = got[h])
                        /\ (h = conns[i] /\ h \in links => got'[h] = got[h] + 1)
                        /\ got[h] \in Nat /\ got'[h] \in Nat
                        /\ got'[h] <= got[h] + 1
    BY <1>0, <2>1
  <2>3. ASSUME ~Left, NEW h \in stayed PROVE Awaits(h)'
    <3>1. h \in Conn /\ h \in links /\ Awaits(h)
      BY <2>1, <2>3 DEF FanInv, BridgeTypeOK
    <3>2. PICK m \in Nat : m = Settled
      BY <1>2
    <3>3. PICK j \in 0 .. m - 1 : conns[j] = h /\ (j < i => got[h] > 0 \/ Starved)
      BY <3>1, <3>2 DEF Awaits
    <3>4. j < i + 1 => got'[h] > 0 \/ Starved
      <4>1. CASE j < i
        BY <2>2, <3>1, <3>3, <4>1
      <4>2. CASE j = i
        BY <2>2, <3>1, <3>3, <4>2
      <4> QED BY <1>1, <3>3, <4>1, <4>2
    <3> QED BY <1>1, <2>1, <3>2, <3>3, <3>4 DEF Awaits, Starved
  <2>4. ASSUME ~Left, ~Joined, NEW h \in Conn, got'[h] > 0
        PROVE  got'[h] = 1 /\ \E j \in 0 .. count - 1 : j < i + 1 /\ conns[j] = h
    <3>1. ~Adding /\ Passed(h) /\ host \notin {"shrink", "move"} /\ i < count
      BY <2>1, <2>4 DEF FanInv
    <3>2. Once(conns, count) /\ i \in 0 .. count - 1
      BY <1>0, <3>1 DEF Settled, ListInv, Adding
    <3>3. CASE h # conns[i]
      <4>1. got'[h] = got[h]
        BY <2>2, <3>3
      <4>2. PICK j \in 0 .. count - 1 : j < i /\ conns[j] = h
        BY <2>4, <3>1, <4>1 DEF Passed
      <4>3. j < i + 1
        BY <1>1, <4>2
      <4> QED BY <2>4, <3>1, <4>1, <4>2, <4>3 DEF Passed
    <3>4. CASE h = conns[i]
      <4>1. ~(got[h] > 0)
        <5>1. SUFFICES ASSUME NEW j \in 0 .. count - 1, j < i, conns[j] = h PROVE FALSE
          BY <3>1 DEF Passed
        <5> QED BY <1>1, <3>2, <3>4, <5>1 DEF Once
      <4>2. got'[h] = 1 /\ i < i + 1
        BY <1>1, <2>2, <2>4, <4>1
      <4> QED BY <3>2, <3>4, <4>2
    <3> QED BY <3>3, <3>4
  <2>5. ASSUME ~Left, ~Joined, NEW h \in Conn PROVE Passed(h)'
    BY <1>1, <2>1, <2>4, <2>5 DEF Passed
  <2> QED BY <1>1, <2>1, <2>3, <2>5 DEF FanInv, Left, Joined, Adding
<1>7. CASE Return
  BY <1>7 DEF Return, FanInv
<1> QED BY <1>3, <1>4, <1>5, <1>6, <1>7 DEF FanOutStep
\* The invariant of the bridge is inductive.
LEMMA BridgeInvNext == BridgeInv /\ [BridgeNext]_bridgeVars => BridgeInv'
<1> SUFFICES ASSUME BridgeTypeOK, ListInv, FanInv, [BridgeNext]_bridgeVars PROVE BridgeInv'
  BY DEF BridgeInv
<1>1. CASE UNCHANGED bridgeVars
  <2>1. /\ UNCHANGED <<conns, count, links, notify, synced, advertising, host, whom, gaveUp>>
        /\ UNCHANGED <<fan, i, got, stayed, excuses>>
    BY <1>1 DEF bridgeVars, list, nimble, fanOut, history
  <2>2. BridgeTypeOK'
    BY <2>1 DEF BridgeTypeOK
  <2>3. ListInv'
    BY <2>1 DEF ListInv, Settled, Adding, Removing
  <2>4. FanInv'
    BY <2>1 DEF FanInv, Settled, Adding, Awaits, Passed, Left, Joined, Starved
  <2> QED BY <2>2, <2>3, <2>4 DEF BridgeInv
<1>2. CASE ChangeList
  <2>1. Adding \/ Removing
    BY <1>2 DEF ChangeList, SubscriberAdd, SubscriberRemove, NothingToAdd, Append, NothingToRemove,
         MoveLast, Adding, Removing
  <2>2. ListInv'
    BY <1>2, <2>1, ListAdd, ListRemove
  <2> QED BY <1>2, <2>2, BridgeTypeNext, FanList DEF BridgeInv, BridgeNext, HostStep
<1>3. CASE Event
  BY <1>3, ListEvent, BridgeTypeNext, FanEvent DEF BridgeInv, BridgeNext, HostStep, Event
<1>4. CASE OnMeshRx \/ FanOutStep
  <2>1. ListInv'
    BY <1>4 DEF OnMeshRx, FanOutStep, Test, Notify, NoBuffer, Return, list, nimble, ListInv,
         Settled, Adding, Removing
  <2> QED BY <1>4, <2>1, BridgeTypeNext, FanWalk DEF BridgeInv, BridgeNext
<1> QED BY <1>1, <1>2, <1>3, <1>4 DEF BridgeNext, HostStep, Event

\* For any number of connections and slots, as long as there are as many slots: the list
\* stays within its array, the walk reads no slot outside it, and every variable keeps its
\* range, whichever of the two stores becomes visible first.
THEOREM BridgeTypeCorrect == BridgeSpec => []BridgeTypeOK
<1>1. BridgeInv => BridgeTypeOK
  BY DEF BridgeInv
<1> QED BY BridgeInvInit, BridgeInvNext, <1>1, PTL DEF BridgeSpec

\* For any number of connections: between two events the list is exactly the phones that
\* have notifications on, each once, and none is refused for want of a slot.
THEOREM ListMirrors == BridgeSpec => []Mirrors
<1>1. ASSUME BridgeInv PROVE Mirrors
  <2>1. SUFFICES ASSUME ~(Adding \/ Removing) PROVE Listed = notify /\ count = Cardinality(notify)
    BY DEF Mirrors
  <2>2. Settled = count /\ host \in {"idle", "advertise", "mesh_send"}
    BY <1>1, <2>1 DEF BridgeInv, BridgeTypeOK, Settled, Adding, Removing
  <2>3. /\ Phones(conns, count) = notify /\ Once(conns, count)
        /\ count \in 0 .. MaxSubscribers /\ conns \in [Slot -> Conn]
    BY <1>1, <2>2 DEF BridgeInv, BridgeTypeOK, ListInv
  <2>4. count = Cardinality(Phones(conns, count))
    BY <2>3, PhonesCounted
  <2> QED BY <2>3, <2>4 DEF Listed, Phones
<1> QED BY BridgeInvInit, BridgeInvNext, <1>1, PTL DEF BridgeSpec

\* For any number of connections: a phone on the list from the first to the last step of a
\* fan-out is notified, unless one left meanwhile or a buffer was missing, and once, unless
\* one left or joined.
THEOREM PhonesReached == BridgeSpec => []Reached
<1>1. ASSUME BridgeInv PROVE Reached
  <2>1. SUFFICES ASSUME fan = "done", NEW h \in stayed
        PROVE  /\ got[h] = 0 => excuses \cap {"left", "no buffer"} # {}
               /\ got[h] > 1 => excuses \cap {"left", "joined"} # {}
    BY DEF Reached
  <2>2. h \in Conn /\ got[h] \in Nat
    BY <1>1, <2>1 DEF BridgeInv, BridgeTypeOK
  <2>3. ASSUME ~Left, ~Starved PROVE got[h] # 0
    <3>1. got[h] > 0
      BY <1>1, <2>1, <2>3 DEF BridgeInv, FanInv, Awaits
    <3> QED BY <2>2, <3>1
  <2>4. ASSUME ~Left, ~Joined PROVE ~(got[h] > 1)
    BY <1>1, <2>1, <2>2, <2>4 DEF BridgeInv, FanInv, Passed
  <2> QED BY <2>3, <2>4 DEF Left, Joined, Starved
<1> QED BY BridgeInvInit, BridgeInvNext, <1>1, PTL DEF BridgeSpec
=============================================================================
