--------------------------- MODULE MailboxProofs ---------------------------
(***************************************************************************)
(* Whatever fails, an accepted message is not lost, is not shown twice by  *)
(* readers whose records stay whole, and no counter is left without an end *)
(* but where a request was cut off; for any number of senders, messages    *)
(* and readers and any size of answer.                                     *)
(***************************************************************************)
EXTENDS Mailbox, TLAPS

-----------------------------------------------------------------------------
(* Types *)

\* Init has the right types.
LEMMA TypeInit == Init => TypeOK
<1> SUFFICES ASSUME Init PROVE TypeOK
  OBVIOUS
<1>1. /\ acks \in [Reader -> BOOLEAN]
      /\ reader \in [Reader -> {"idle", "over"}]
      /\ handler \in [Message -> {"none", "done"}]
  BY SizeAssumption DEF Init
<1> QED BY <1>1 DEF Init, TypeOK

\* Every step of a handler keeps the types.
LEMMA TypeSubmit ==
  ASSUME TypeOK, NEW m \in Message, SubmitMessage(m)
  PROVE  TypeOK'
<1>0. Src(m) \in Sender
  BY DEF Src, Message
<1>c. ASSUME NEW messages \in SUBSET Message, CutOff(messages) PROVE cut' \subseteq Sender
  BY <1>c DEF CutOff, TypeOK, Src, Message
<1> USE DEF TypeOK, At, database, redis, client
<1>1. CASE IsBlocked(m)
  BY <1>1 DEF IsBlocked
<1>2. CASE CheckRateLimit(m)
  BY <1>0, <1>2 DEF CheckRateLimit
<1>3. CASE SetEnd(m)
  BY <1>0, <1>3 DEF SetEnd
<1>4. CASE RedisFails(m)
  BY <1>4, <1>c DEF RedisFails
<1>5. CASE Insert(m)
  BY <1>5 DEF Insert
<1>6. CASE ClientGone(m)
  BY <1>6, <1>c DEF ClientGone
<1> QED BY <1>1, <1>2, <1>3, <1>4, <1>5, <1>6 DEF SubmitMessage

\* What else happens at the server.
ServerStep ==
  \/ ServerStops
  \/ \E m \in Message : Cleanup(m)
  \/ \E s \in Sender : WindowEnds(s) \/ BlockDevice(s) \/ UnblockDevice(s)

\* So does what else happens at the server.
LEMMA TypeServer == TypeOK /\ ServerStep => TypeOK'
<1> SUFFICES ASSUME TypeOK, ServerStep PROVE TypeOK'
  OBVIOUS
<1> USE DEF TypeOK, database, redis, client
<1>1. CASE ServerStops
  <2>1. cut' \subseteq Sender
    BY <1>1 DEF ServerStops, CutOff, Src, Message
  <2> QED BY <1>1, <2>1 DEF ServerStops
<1>2. ASSUME NEW m \in Message, Cleanup(m) PROVE TypeOK'
  BY <1>2 DEF Cleanup
<1>3. ASSUME NEW s \in Sender, WindowEnds(s) PROVE TypeOK'
  BY <1>3 DEF WindowEnds
<1>4. ASSUME NEW s \in Sender, BlockDevice(s) \/ UnblockDevice(s) PROVE TypeOK'
  BY <1>4 DEF BlockDevice, UnblockDevice
<1> QED BY <1>1, <1>2, <1>3, <1>4 DEF ServerStep

\* So does every step of a reader.
LEMMA TypeReader ==
  ASSUME TypeOK, NEW r \in Reader, PollOnce(r) \/ Interrupted(r)
  PROVE  TypeOK'
<1>w. ASSUME current[r] \in Message, NotWritten(r)
      PROVE  opened' \subseteq Message /\ torn' \subseteq Sender
  BY <1>w DEF NotWritten, TypeOK, Src, Message
<1> USE DEF TypeOK, Goes, Leaves, NextMessage, database, redis, server
<1>1. CASE PollMessages(r)
  BY <1>1 DEF PollMessages, Page
<1>2. ASSUME NEW m \in Message, Decrypt(r, m) PROVE TypeOK'
  <2>1. torn' \subseteq Sender
    BY <1>2 DEF Decrypt, Open, Src, Message
  <2> QED BY <1>2, <2>1 DEF Decrypt, Take, Open
<1>3. ASSUME NEW m \in Message, CannotDecrypt(r, m) PROVE TypeOK'
  BY <1>3 DEF CannotDecrypt, Take
<1>4. CASE StoreSession(r)
  BY <1>4 DEF StoreSession
<1>5. CASE StoreFails(r)
  BY <1>5, <1>w DEF StoreFails
<1>6. CASE PrintMessage(r)
  BY <1>6 DEF PrintMessage
<1>7. CASE AckMessage(r)
  BY <1>7 DEF AckMessage
<1>8. CASE AckNotFound(r) \/ PageEnds(r)
  BY <1>8 DEF AckNotFound, PageEnds
<1>9. CASE Interrupted(r)
  <2>1. opened' \subseteq Message /\ torn' \subseteq Sender
    BY <1>9, <1>w DEF Interrupted
  <2> QED BY <1>9, <2>1 DEF Interrupted
<1> QED BY <1>1, <1>2, <1>3, <1>4, <1>5, <1>6, <1>7, <1>8, <1>9 DEF PollOnce

\* The types are inductive.
LEMMA TypeNext == TypeOK /\ [Next]_vars => TypeOK'
<1> SUFFICES ASSUME TypeOK, [Next]_vars PROVE TypeOK'
  OBVIOUS
<1>1. CASE UNCHANGED vars
  BY <1>1 DEF vars, TypeOK, database, redis, client
<1>2. CASE Next
  BY <1>2, TypeSubmit, TypeServer, TypeReader DEF Next, ServerStep
<1> QED BY <1>1, <1>2

-----------------------------------------------------------------------------
(* Readers *)

\* A session that one reader at a time had in memory, and whose record was written whole.
Sound(m) == Src(m) \notin torn

\* What was shown has been opened, and stays so.
ShownOpened == \A m \in shown : Sound(m) => m \in opened

\* What a reader has in memory is the record as it is; what it is about to show was opened,
\* and not shown yet; what it acknowledges was shown.
AtHand ==
  \A r \in Reader :
    /\ reader[r] = "store" => loaded[r] \subseteq Same(current[r])
    /\ (reader[r] = "store" /\ Sound(current[r])) =>
         (current[r] \notin opened /\ loaded[r] = opened \cap Same(current[r]))
    /\ (reader[r] = "print" /\ Sound(current[r])) =>
         (current[r] \in opened /\ current[r] \notin shown)
    /\ reader[r] = "ack" => current[r] \in shown

\* Two readers do not have one session in memory, nor one message to show.
Apart ==
  \A r \in Reader : \A other \in Reader \ {r} :
    /\ (reader[r] = "store" /\ reader[other] = "store" /\ Sound(current[r])) =>
         Src(current[other]) # Src(current[r])
    /\ (reader[r] = "print" /\ reader[other] = "print" /\ Sound(current[r])) =>
         current[other] # current[r]

Reading == ShownOpened /\ AtHand /\ Apart

\* The server does not touch what the readers have.
LEMMA ReadingElsewhere == Reading /\ UNCHANGED client => Reading'
  BY DEF client, Reading, ShownOpened, AtHand, Apart, Sound, Same

\* A reader takes a message to the ratchet: one that was not opened.
LEMMA ReadingDecrypt ==
  ASSUME TypeOK, Reading, NEW r \in Reader, NEW m \in Message, Decrypt(r, m)
  PROVE  Reading'
<1>1. /\ reader \in [Reader -> {"idle", "page", "store", "print", "ack", "over"}]
      /\ current \in [Reader -> Message \cup {None}]
      /\ loaded \in [Reader -> SUBSET Message]
  BY DEF TypeOK
<1>2. /\ m \notin opened
      /\ reader' = [reader EXCEPT ![r] = "store"]
      /\ current' = [current EXCEPT ![r] = m]
      /\ loaded' = [loaded EXCEPT ![r] = opened \cap Same(m)]
      /\ UNCHANGED <<opened, shown>>
  BY DEF Decrypt, Open, Goes
<1>3. torn \subseteq torn' /\ (Shared(r, m) => Src(m) \in torn')
  BY DEF Decrypt, Open
<1>4. ShownOpened'
  BY <1>2, <1>3 DEF Reading, ShownOpened, Sound
<1>5. AtHand'
  BY <1>1, <1>2, <1>3 DEF Reading, AtHand, Sound, Same
<1>6. ASSUME NEW a \in Reader, NEW b \in Reader \ {a},
             reader'[a] = "store", reader'[b] = "store", Src(current'[a]) \notin torn'
      PROVE  Src(current'[b]) # Src(current'[a])
  <2>1. CASE a = r
    BY <1>1, <1>2, <1>3, <1>6, <2>1 DEF Shared
  <2>2. CASE b = r
    BY <1>1, <1>2, <1>3, <1>6, <2>2 DEF Shared
  <2>3. CASE a # r /\ b # r
    BY <1>1, <1>2, <1>3, <1>6, <2>3 DEF Reading, Apart, Sound
  <2> QED BY <2>1, <2>2, <2>3
<1>7. ASSUME NEW a \in Reader, NEW b \in Reader \ {a},
             reader'[a] = "print", reader'[b] = "print", Src(current'[a]) \notin torn'
      PROVE  current'[b] # current'[a]
  BY <1>1, <1>2, <1>3, <1>7 DEF Reading, Apart, Sound
<1> QED BY <1>4, <1>5, <1>6, <1>7 DEF Reading, Apart, Sound

\* It writes the record: with this message opened, and nothing else changed if the session is sound.
LEMMA ReadingStore ==
  ASSUME TypeOK, Reading, NEW r \in Reader, StoreSession(r)
  PROVE  Reading'
<1>1. /\ reader \in [Reader -> {"idle", "page", "store", "print", "ack", "over"}]
      /\ current \in [Reader -> Message \cup {None}]
      /\ loaded \in [Reader -> SUBSET Message]
  BY DEF TypeOK
<1> DEFINE m == current[r]
<1>2. /\ reader[r] = "store" /\ m \in Message
      /\ reader' = [reader EXCEPT ![r] = "print"]
      /\ loaded' = [loaded EXCEPT ![r] = {}]
      /\ opened' = (opened \ Same(m)) \cup loaded[r] \cup {m}
      /\ UNCHANGED <<current, shown, torn>>
  BY DEF StoreSession, Goes, TypeOK
<1>3. Sound(m) => (opened' = opened \cup {m} /\ m \notin opened /\ m \notin shown)
  BY <1>2 DEF Reading, AtHand, ShownOpened
<1>4. opened \subseteq Message /\ shown \subseteq Message
  BY DEF TypeOK
<1>5. ASSUME NEW o \in Message, Src(o) \notin torn, o # m
      PROVE  o \in opened' <=> o \in opened
  <2>1. CASE Sound(m)
    BY <1>3, <1>5, <2>1
  <2>2. CASE ~Sound(m)
    <3>1. loaded[r] \subseteq Same(m)
      BY <1>2 DEF Reading, AtHand
    <3>2. o \notin Same(m)
      BY <1>5, <2>2 DEF Sound, Same
    <3> QED BY <1>2, <1>5, <3>1, <3>2
  <2> QED BY <2>1, <2>2
<1>6. m \in opened'
  BY <1>2
<1>7. ShownOpened'
  BY <1>2, <1>4, <1>5, <1>6 DEF Reading, ShownOpened, Sound
<1>8. ASSUME NEW a \in Reader
      PROVE  /\ reader'[a] = "store" => loaded'[a] \subseteq Same(current[a])
             /\ (reader'[a] = "store" /\ Src(current[a]) \notin torn) =>
                  (current[a] \notin opened' /\ loaded'[a] = opened' \cap Same(current[a]))
             /\ (reader'[a] = "print" /\ Src(current[a]) \notin torn) =>
                  (current[a] \in opened' /\ current[a] \notin shown)
             /\ reader'[a] = "ack" => current[a] \in shown
  <2>1. CASE a = r
    BY <1>1, <1>2, <1>3, <1>6, <2>1 DEF Sound
  <2>2. CASE a # r /\ reader[a] = "store"
    <3>1. reader'[a] = "store" /\ loaded'[a] = loaded[a]
      BY <1>1, <1>2, <2>2
    <3>2. current[a] \in Message
      BY <2>2 DEF TypeOK
    <3>3. CASE Src(current[a]) \in torn
      BY <2>2, <3>1, <3>3 DEF Reading, AtHand, Sound
    <3>4. CASE Src(current[a]) \notin torn
      <4>1. Src(current[a]) # Src(m)
        BY <1>2, <2>2, <3>4 DEF Reading, Apart, Sound
      <4>2. \A o \in Same(current[a]) : o \in opened' <=> o \in opened
        BY <1>5, <3>4, <4>1 DEF Same
      <4>3. current[a] \in Same(current[a])
        BY <3>2 DEF Same
      <4> QED BY <2>2, <3>1, <3>4, <4>2, <4>3 DEF Reading, AtHand, Sound
    <3> QED BY <3>3, <3>4
  <2>3. CASE a # r /\ reader[a] # "store"
    <3>1. reader'[a] = reader[a]
      BY <1>1, <1>2, <2>3
    <3>2. reader[a] = "print" => current[a] \in Message
      BY DEF TypeOK
    <3> QED BY <1>5, <1>6, <2>3, <3>1, <3>2 DEF Reading, AtHand, Sound
  <2> QED BY <2>1, <2>2, <2>3
<1>9. AtHand'
  BY <1>2, <1>8 DEF AtHand, Sound, Same
<1>10. ASSUME NEW a \in Reader, NEW b \in Reader \ {a},
              reader'[a] = "store", reader'[b] = "store", Src(current[a]) \notin torn
       PROVE  Src(current[b]) # Src(current[a])
  BY <1>1, <1>2, <1>10 DEF Reading, Apart, Sound
<1>11. ASSUME NEW a \in Reader, NEW b \in Reader \ {a},
              reader'[a] = "print", reader'[b] = "print", Src(current[a]) \notin torn
       PROVE  current[b] # current[a]
  <2>1. CASE a = r \/ b = r
    BY <1>1, <1>2, <1>3, <1>11, <2>1 DEF Reading, AtHand, Sound
  <2>2. CASE a # r /\ b # r
    BY <1>1, <1>2, <1>11, <2>2 DEF Reading, Apart, Sound
  <2> QED BY <2>1, <2>2
<1> QED BY <1>2, <1>7, <1>9, <1>10, <1>11 DEF Reading, Apart, Sound

\* It shows a message that it had not shown.
LEMMA ReadingPrint ==
  ASSUME TypeOK, Reading, NEW r \in Reader, PrintMessage(r)
  PROVE  Reading'
<1>1. /\ reader \in [Reader -> {"idle", "page", "store", "print", "ack", "over"}]
      /\ current \in [Reader -> Message \cup {None}]
  BY DEF TypeOK
<1> DEFINE m == current[r]
<1>2. /\ reader[r] = "print"
      /\ shown' = shown \cup {m}
      /\ UNCHANGED <<opened, loaded, torn>>
      /\ \/ reader' = [reader EXCEPT ![r] = "ack"] /\ current' = current
         \/ reader' = [reader EXCEPT ![r] = "page"] /\ current' = [current EXCEPT ![r] = None]
  BY DEF PrintMessage, NextMessage, Goes
<1>3. \A a \in Reader \ {r} : reader'[a] = reader[a] /\ current'[a] = current[a]
  BY <1>1, <1>2
<1>4. reader'[r] = "ack" => current'[r] = m
  BY <1>1, <1>2
<1>5. reader'[r] \in {"ack", "page"}
  BY <1>1, <1>2
<1>6. ShownOpened'
  BY <1>2 DEF Reading, ShownOpened, AtHand, Sound
<1>7. ASSUME NEW a \in Reader
      PROVE  /\ reader'[a] = "store" => loaded[a] \subseteq Same(current'[a])
             /\ (reader'[a] = "store" /\ Src(current'[a]) \notin torn) =>
                  (current'[a] \notin opened /\ loaded[a] = opened \cap Same(current'[a]))
             /\ (reader'[a] = "print" /\ Src(current'[a]) \notin torn) =>
                  (current'[a] \in opened /\ current'[a] \notin shown')
             /\ reader'[a] = "ack" => current'[a] \in shown'
  <2>1. CASE a = r
    BY <1>2, <1>4, <1>5, <2>1
  <2>2. CASE a # r
    <3>1. (reader[a] = "print" /\ Src(current[a]) \notin torn) => current[a] # m
      BY <1>2, <2>2 DEF Reading, Apart, Sound
    <3> QED BY <1>2, <1>3, <2>2, <3>1 DEF Reading, AtHand, Sound
  <2> QED BY <2>1, <2>2
<1>8. AtHand'
  BY <1>2, <1>7 DEF AtHand, Sound, Same
<1>9. Apart'
  <2>1. \A a \in Reader : reader'[a] \in {"store", "print"} => a # r
    BY <1>5
  <2> QED BY <1>2, <1>3, <2>1 DEF Reading, Apart, Sound
<1> QED BY <1>6, <1>8, <1>9 DEF Reading

\* The record was not written whole, and the reader leaves the message or ends.
LEMMA ReadingFailed ==
  ASSUME TypeOK, Reading, NEW r \in Reader,
         reader[r] = "store", NotWritten(r), UNCHANGED shown,
         NEW step \in {"idle", "page", "over"},
         reader' = [reader EXCEPT ![r] = step],
         current' = [current EXCEPT ![r] = None],
         loaded' = [loaded EXCEPT ![r] = {}]
  PROVE  Reading'
<1>1. /\ reader \in [Reader -> {"idle", "page", "store", "print", "ack", "over"}]
      /\ current \in [Reader -> Message \cup {None}]
      /\ loaded \in [Reader -> SUBSET Message]
      /\ current[r] \in Message
      /\ shown \subseteq Message /\ opened \subseteq Message
  BY DEF TypeOK
<1>2. \A a \in Reader \ {r} : reader'[a] = reader[a] /\ current'[a] = current[a] /\ loaded'[a] = loaded[a]
  BY <1>1
<1>3. reader'[r] = step
  BY <1>1
<1>4. torn \subseteq torn' /\ opened' \subseteq opened
  BY DEF NotWritten
<1>5. \A o \in Message : Src(o) \notin torn' => (o \in opened' <=> o \in opened)
  BY DEF NotWritten, Same
<1>6. ShownOpened'
  BY <1>1, <1>4, <1>5 DEF Reading, ShownOpened, Sound
<1>7. ASSUME NEW a \in Reader, reader'[a] \in {"store", "print", "ack"}
      PROVE  /\ reader[a] = "store" => loaded[a] \subseteq Same(current[a])
             /\ (reader[a] = "store" /\ Src(current[a]) \notin torn') =>
                  (current[a] \notin opened' /\ loaded[a] = opened' \cap Same(current[a]))
             /\ (reader[a] = "print" /\ Src(current[a]) \notin torn') =>
                  (current[a] \in opened' /\ current[a] \notin shown)
             /\ reader[a] = "ack" => current[a] \in shown
  <2>1. a # r
    BY <1>3, <1>7
  <2>2. reader[a] = reader'[a] /\ current[a] \in Message
    BY <1>2, <1>7, <2>1 DEF TypeOK
  <2>3. CASE Src(current[a]) \in torn'
    BY <2>2, <2>3 DEF Reading, AtHand
  <2>4. CASE Src(current[a]) \notin torn'
    <3>1. \A o \in Same(current[a]) : o \in opened' <=> o \in opened
      BY <1>5, <2>4 DEF Same
    <3>2. current[a] \in Same(current[a])
      BY <2>2 DEF Same
    <3>3. opened' \cap Same(current[a]) = opened \cap Same(current[a])
      BY <3>1
    <3> QED BY <1>4, <2>4, <3>1, <3>2, <3>3 DEF Reading, AtHand, Sound
  <2> QED BY <2>3, <2>4
<1>8. AtHand'
  <2> SUFFICES ASSUME NEW a \in Reader, reader'[a] \in {"store", "print", "ack"}
               PROVE  /\ current'[a] = current[a] /\ loaded'[a] = loaded[a]
                      /\ reader'[a] = reader[a]
    BY <1>7 DEF AtHand, Sound, Same
  <2> QED BY <1>2, <1>3
<1>9. Apart'
  <2>1. \A a \in Reader : reader'[a] \in {"store", "print"} => a # r
    BY <1>3
  <2> QED BY <1>2, <1>4, <2>1 DEF Reading, Apart, Sound
<1> QED BY <1>6, <1>8, <1>9 DEF Reading

\* The reader goes to a place where nothing is at hand, or only what was at hand before.
LEMMA ReadingLeaves ==
  ASSUME TypeOK, Reading, NEW r \in Reader,
         UNCHANGED <<opened, shown, torn>>,
         NEW step \in {"idle", "page", "over"},
         reader' = [reader EXCEPT ![r] = step],
         \A a \in Reader \ {r} : current'[a] = current[a] /\ loaded'[a] = loaded[a]
  PROVE  Reading'
<1>1. reader \in [Reader -> {"idle", "page", "store", "print", "ack", "over"}]
  BY DEF TypeOK
<1>2. reader'[r] = step /\ \A a \in Reader \ {r} : reader'[a] = reader[a]
  BY <1>1
<1>3. ShownOpened'
  BY DEF Reading, ShownOpened, Sound
<1>4. \A a \in Reader : reader'[a] \in {"store", "print", "ack"} =>
        (a # r /\ reader'[a] = reader[a] /\ current'[a] = current[a] /\ loaded'[a] = loaded[a])
  BY <1>2
<1>5. AtHand'
  BY <1>4 DEF Reading, AtHand, Sound, Same
<1>6. Apart'
  BY <1>4 DEF Reading, Apart, Sound
<1> QED BY <1>3, <1>5, <1>6 DEF Reading

\* Every step of a reader.
LEMMA ReadingStep ==
  ASSUME TypeOK, Reading, NEW r \in Reader, PollOnce(r) \/ Interrupted(r)
  PROVE  Reading'
<1>t. /\ current \in [Reader -> Message \cup {None}]
      /\ loaded \in [Reader -> SUBSET Message]
  BY DEF TypeOK
<1>1. CASE PollMessages(r)
  BY <1>1, ReadingLeaves DEF PollMessages, Goes
<1>2. ASSUME NEW m \in Message, Decrypt(r, m) PROVE Reading'
  BY <1>2, ReadingDecrypt
<1>3. ASSUME NEW m \in Message, CannotDecrypt(r, m) PROVE Reading'
  BY <1>3 DEF CannotDecrypt, Reading, ShownOpened, AtHand, Apart, Sound, Same
<1>4. CASE StoreSession(r)
  BY <1>4, ReadingStore
<1>5. CASE StoreFails(r)
  BY <1>5, ReadingFailed DEF StoreFails, NextMessage, Goes
<1>6. CASE PrintMessage(r)
  BY <1>6, ReadingPrint
<1>7. CASE AckMessage(r)
  BY <1>7, <1>t, ReadingLeaves DEF AckMessage, NextMessage, Goes
<1>8. CASE AckNotFound(r) \/ PageEnds(r)
  <2> DEFINE step == IF r = Listener THEN "idle" ELSE "over"
  <2>1. step \in {"idle", "page", "over"}
    OBVIOUS
  <2>2. /\ reader' = [reader EXCEPT ![r] = step]
        /\ \A a \in Reader \ {r} : current'[a] = current[a] /\ loaded'[a] = loaded[a]
        /\ UNCHANGED <<opened, shown, torn>>
    BY <1>8, <1>t DEF AckNotFound, PageEnds, Leaves, Goes
  <2> HIDE DEF step
  <2> QED BY <2>1, <2>2, ReadingLeaves
<1>9. CASE Interrupted(r)
  <2> DEFINE step == IF r = Listener THEN "idle" ELSE "over"
  <2>1. step \in {"idle", "page", "over"}
    OBVIOUS
  <2>2. /\ reader' = [reader EXCEPT ![r] = step]
        /\ current' = [current EXCEPT ![r] = None]
        /\ loaded' = [loaded EXCEPT ![r] = {}]
        /\ UNCHANGED shown
    BY <1>9 DEF Interrupted, Leaves, Goes
  <2>3. \/ UNCHANGED <<opened, torn>>
        \/ reader[r] = "store" /\ NotWritten(r)
    BY <1>9 DEF Interrupted
  <2>4. \A a \in Reader \ {r} : current'[a] = current[a] /\ loaded'[a] = loaded[a]
    BY <2>2, <1>t
  <2> HIDE DEF step
  <2> QED BY <2>1, <2>2, <2>3, <2>4, ReadingLeaves, ReadingFailed
<1> QED BY <1>1, <1>2, <1>3, <1>4, <1>5, <1>6, <1>7, <1>8, <1>9 DEF PollOnce

-----------------------------------------------------------------------------
(* Messages and counters *)

\* No step loses a message: what leaves the table was shown, or its time was over.
LEMMA LostNext == TypeOK /\ Reading /\ NothingLost /\ Next => NothingLost'
<1> SUFFICES ASSUME TypeOK, Reading, NothingLost, Next PROVE NothingLost'
  OBVIOUS
<1>1. ASSUME NEW m \in Message, SubmitMessage(m) PROVE NothingLost'
  BY <1>1 DEF SubmitMessage, IsBlocked, CheckRateLimit, SetEnd, RedisFails, Insert, ClientGone,
              NothingLost, TypeOK, database, client
<1>2. CASE ServerStep
  BY <1>2 DEF ServerStep, ServerStops, Cleanup, WindowEnds, BlockDevice, UnblockDevice,
              NothingLost, database, client
<1>3. ASSUME NEW r \in Reader, AckMessage(r) PROVE NothingLost'
  BY <1>3 DEF AckMessage, Reading, AtHand, NothingLost
<1>4. ASSUME NEW r \in Reader, PollOnce(r) \/ Interrupted(r), ~AckMessage(r) PROVE NothingLost'
  <2>1. UNCHANGED <<stored, born, expired>> /\ shown \subseteq shown'
    BY <1>4 DEF PollOnce, Interrupted, PollMessages, Decrypt, Open, CannotDecrypt, StoreSession,
                StoreFails, PrintMessage, AckNotFound, PageEnds, database
  <2> QED BY <2>1 DEF NothingLost
<1> QED BY <1>1, <1>2, <1>3, <1>4 DEF Next, ServerStep

\* A handler that has not set the end of its counter is about to, or was cut off.
LEMMA LimitSubmit ==
  ASSUME TypeOK, LimitEnds, NEW m \in Message, SubmitMessage(m)
  PROVE  LimitEnds'
<1>0. Src(m) \in Sender
  BY DEF Src, Message
<1> USE DEF TypeOK, At, redis
<1>1. CASE IsBlocked(m)
  BY <1>1 DEF IsBlocked, LimitEnds
<1>2. CASE CheckRateLimit(m)
  <2>1. handler[m] = "count" /\ UNCHANGED <<timed, cut>>
    BY <1>2 DEF CheckRateLimit
  <2>2. ASSUME NEW s \in Sender, count'[s] > 0
        PROVE  s \in timed \/ (\E o \in Message : Src(o) = s /\ handler'[o] = "expire") \/ s \in cut
    <3>1. CASE count[s] > 0
      BY <1>0, <1>2, <3>1 DEF CheckRateLimit, LimitEnds
    <3>2. CASE ~(count[s] > 0)
      <4>1. s = Src(m) /\ count[s] = 0
        BY <1>0, <1>2, <2>2, <3>2 DEF CheckRateLimit
      <4>2. count'[Src(m)] = 1
        BY <1>0, <1>2, <4>1 DEF CheckRateLimit
      <4>3. handler' = [handler EXCEPT ![m] = "expire"]
        BY <1>2, <4>2, SizeAssumption DEF CheckRateLimit
      <4>4. handler'[m] = "expire"
        BY <4>3
      <4> QED BY <4>1, <4>4
    <3> QED BY <3>1, <3>2
  <2> QED BY <2>1, <2>2 DEF LimitEnds
<1>3. CASE SetEnd(m)
  BY <1>0, <1>3 DEF SetEnd, LimitEnds
<1>4. CASE Insert(m)
  BY <1>4 DEF Insert, LimitEnds
<1>5. CASE RedisFails(m) \/ ClientGone(m)
  <2>1. /\ UNCHANGED <<count, timed>>
        /\ cut \subseteq cut'
        /\ handler[m] = "expire" => Src(m) \in cut'
        /\ \A o \in Message : o # m => handler'[o] = handler[o]
    BY <1>5 DEF RedisFails, ClientGone, CutOff
  <2> QED BY <2>1 DEF LimitEnds
<1> QED BY <1>1, <1>2, <1>3, <1>4, <1>5 DEF SubmitMessage

\* So it is with every step.
LEMMA LimitNext == TypeOK /\ LimitEnds /\ Next => LimitEnds'
<1> SUFFICES ASSUME TypeOK, LimitEnds, Next PROVE LimitEnds'
  OBVIOUS
<1>1. ASSUME NEW m \in Message, SubmitMessage(m) PROVE LimitEnds'
  BY <1>1, LimitSubmit
<1>2. CASE ServerStops
  <2>1. /\ UNCHANGED <<count, timed>>
        /\ cut \subseteq cut'
        /\ \A o \in Message : handler[o] = "expire" => Src(o) \in cut'
    BY <1>2 DEF ServerStops, CutOff, redis
  <2> QED BY <2>1 DEF LimitEnds
<1>3. ASSUME NEW m \in Message, Cleanup(m) PROVE LimitEnds'
  BY <1>3 DEF Cleanup, LimitEnds, redis
<1>4. ASSUME NEW s \in Sender, WindowEnds(s) \/ BlockDevice(s) \/ UnblockDevice(s) PROVE LimitEnds'
  BY <1>4 DEF WindowEnds, BlockDevice, UnblockDevice, LimitEnds, redis, TypeOK
<1>5. ASSUME NEW r \in Reader, PollOnce(r) \/ Interrupted(r) PROVE LimitEnds'
  <2>1. UNCHANGED <<count, timed, handler, cut>>
    BY <1>5 DEF PollOnce, Interrupted, PollMessages, Decrypt, Open, CannotDecrypt, StoreSession,
                StoreFails, PrintMessage, AckMessage, AckNotFound, PageEnds, server, redis
  <2> QED BY <2>1 DEF LimitEnds
<1> QED BY <1>1, <1>2, <1>3, <1>4, <1>5 DEF Next

-----------------------------------------------------------------------------
(* The theorems *)

\* What makes the properties inductive.
Inv == TypeOK /\ Reading /\ NothingLost /\ LimitEnds

\* Init satisfies the invariant.
LEMMA InvInit == Init => Inv
<1> SUFFICES ASSUME Init PROVE Inv
  OBVIOUS
<1>1. reader \in [Reader -> {"idle", "over"}]
  BY DEF Init
<1>2. Reading /\ NothingLost /\ LimitEnds
  BY <1>1 DEF Init, Reading, ShownOpened, AtHand, Apart, NothingLost, LimitEnds
<1> QED BY <1>2, TypeInit DEF Inv

\* The invariant is inductive.
LEMMA InvNext == Inv /\ [Next]_vars => Inv'
<1> SUFFICES ASSUME Inv, [Next]_vars PROVE Inv'
  OBVIOUS
<1> USE DEF Inv
<1>1. CASE UNCHANGED vars
  <2>1. TypeOK' /\ Reading'
    BY <1>1, TypeNext, ReadingElsewhere DEF vars
  <2>2. NothingLost' /\ LimitEnds'
    BY <1>1 DEF vars, NothingLost, LimitEnds, database, redis, client
  <2> QED BY <2>1, <2>2
<1>2. CASE Next
  <2>1. TypeOK' /\ NothingLost' /\ LimitEnds'
    BY <1>2, TypeNext, LostNext, LimitNext
  <2>2. ASSUME NEW m \in Message, SubmitMessage(m) PROVE UNCHANGED client
    BY <2>2 DEF SubmitMessage, IsBlocked, CheckRateLimit, SetEnd, RedisFails, Insert, ClientGone
  <2>3. ASSUME ServerStep PROVE UNCHANGED client
    BY <2>3 DEF ServerStep, ServerStops, Cleanup, WindowEnds, BlockDevice, UnblockDevice
  <2>4. Reading'
    BY <1>2, <2>2, <2>3, ReadingElsewhere, ReadingStep DEF Next, ServerStep
  <2> QED BY <2>1, <2>4
<1> QED BY <1>1, <1>2

\* The invariant holds throughout.
LEMMA InvAlways == Spec => []Inv
  BY InvInit, InvNext, PTL DEF Spec

\* Every variable keeps its shape.
THEOREM MailboxTypeCorrect == Spec => []TypeOK
<1>1. Inv => TypeOK
  BY DEF Inv
<1> QED BY InvAlways, <1>1, PTL

\* A message that submit_message has inserted stays in the table until poll_once has
\* shown it or retention deletes it, whatever fails in between.
THEOREM NoMessageLost == Spec => []NothingLost
<1>1. Inv => NothingLost
  BY DEF Inv
<1> QED BY InvAlways, <1>1, PTL

\* However many readers there are, however they are interrupted and however often the server
\* returns it, a message is shown twice only if two readers had its session in memory at once,
\* or one of them left its record empty.
THEOREM NoMessageTwice == Spec => []PrintedOnce
<1>1. Inv => PrintedOnce
  BY DEF Inv, Reading, AtHand, Sound, PrintedOnce
<1> QED BY InvAlways, <1>1, PTL

\* check_rate_limit leaves a counter without an end only to a sender one of whose own
\* requests was cut off between INCR and EXPIRE.
THEOREM LimitsEnd == Spec => []LimitEnds
<1>1. Inv => LimitEnds
  BY DEF Inv
<1> QED BY InvAlways, <1>1, PTL
=============================================================================
