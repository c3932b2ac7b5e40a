------------------------------- MODULE Mailbox -------------------------------
(***************************************************************************)
(* The store-and-forward mailbox of one addressee: the server's handlers   *)
(* (server/src/routes/messages.rs), its blocklist and retention, and the   *)
(* desktop clients that send to the mailbox and read it (client/desktop).  *)
(*                                                                         *)
(* A handler runs from await to await, interleaved with all others, and is *)
(* dropped at an await when its client goes away.  A statement of          *)
(* PostgreSQL or a command of Redis is one step.  The readers are          *)
(* processes on one data directory, one that listens and others that poll  *)
(* once; nothing keeps two of them apart.                                  *)
(***************************************************************************)
EXTENDS Naturals, FiniteSets

CONSTANTS
  Sender,
  Reader,      \* the processes: "pabianice listen" and "pabianice poll"
  Listener,    \* the one that listens
  None,
  PerSender,   \* bound on the messages that one sender submits
  PageSize,    \* "limit 100" of poll_messages
  RateMax,     \* RATE_LIMIT_MAX_PER_WINDOW, 20
  Acks,        \* the ways a reader is started: TRUE with --ack, FALSE without
  MaxLoad,     \* bound on the readers of a run and the messages of a sender, together
  MaxFaults    \* bound on server stops, lost commands to Redis, interrupted readers and
               \* changes of the blocklist

ASSUME SizeAssumption ==
  /\ PerSender \in Nat
  /\ PageSize \in Nat \ {0}
  /\ RateMax \in Nat \ {0}
  /\ Acks \subseteq BOOLEAN
  /\ Listener \in Reader
  /\ MaxLoad \in Nat
  /\ MaxFaults \in Nat

\* A message is its sender and a number: the requests of a sender in the order of arrival.
Message == Sender \X (1 .. PerSender)
Src(m) == m[1]

VARIABLES
  \* PostgreSQL
  stored,    \* the messages in the table
  born,      \* born[m]: created_at, as the rank among all messages inserted
  blocked,   \* blocked_devices
  \* Redis
  count,     \* count[s]: ratelimit:submit:s; 0: the key is not there
  timed,     \* the senders whose counter has a time to live
  \* the server
  handler,   \* handler[m]: where the request that submits m is
  \* the session records of the data directory
  opened,    \* the messages that the ratchet of their sender has opened
  \* the readers: poll_once
  reader,    \* reader[r]: where it is
  acks,      \* acks[r]: whether it was started with --ack
  page,      \* page[r]: the messages of the answer that it has not come to yet
  current,   \* current[r]: the message at hand
  loaded,    \* loaded[r]: what the record it has in memory has opened
  \* history
  inserted,  \* how many messages were inserted
  expired,   \* the messages that retention deleted
  cut,       \* the senders with a request that ended between INCR and EXPIRE
  shown,     \* the messages that were shown
  torn,      \* the senders whose record two readers had at once, or a stopped one left empty
  faults

database == <<stored, born, blocked, inserted, expired>>
redis    == <<count, timed>>
client   == <<opened, reader, acks, page, current, loaded, shown, torn>>
vars     == <<database, redis, handler, cut, client, faults>>

At(m, step) == handler' = [handler EXCEPT ![m] = step]

-----------------------------------------------------------------------------
(* submit_message *)

IsBlocked(m) ==
  /\ handler[m] = "none"
  /\ \A n \in 1 .. m[2] - 1 : handler[<<Src(m), n>>] # "none"
  /\ At(m, IF Src(m) \in blocked THEN "done" ELSE "count")
  /\ UNCHANGED <<database, redis, cut, client, faults>>

\* INCR; the first of a window goes on to set its end.
CheckRateLimit(m) ==
  /\ handler[m] = "count"
  /\ count' = [count EXCEPT ![Src(m)] = @ + 1]
  /\ \/ count'[Src(m)] = 1 /\ At(m, "expire")
     \/ count'[Src(m)] \in 2 .. RateMax /\ At(m, "insert")
     \/ count'[Src(m)] > RateMax /\ At(m, "done")
  /\ UNCHANGED <<database, timed, cut, client, faults>>

EndForgotten(m) ==
  /\ handler[m] = "expire"
  /\ At(m, "insert")
  /\ UNCHANGED <<database, redis, cut, client, faults>>

SetEnd(m) ==
  /\ handler[m] = "expire"
  /\ timed' = timed \cup {Src(m)}
  /\ At(m, "insert")
  /\ UNCHANGED <<database, count, cut, client, faults>>

\* The requests that end, or go on without Redis, leave a counter without an end if they
\* were about to set it.
CutOff(messages) == cut' = cut \cup {Src(m) : m \in {o \in messages : handler[o] = "expire"}}

\* Redis does not answer: the message passes.
RedisFails(m) ==
  /\ faults < MaxFaults
  /\ faults' = faults + 1
  /\ handler[m] \in {"count", "expire"}
  /\ At(m, "insert")
  /\ CutOff({m})
  /\ UNCHANGED <<database, redis, client>>

Insert(m) ==
  /\ handler[m] = "insert"
  /\ stored' = stored \cup {m}
  /\ inserted' = inserted + 1
  /\ born' = [born EXCEPT ![m] = inserted + 1]
  /\ At(m, "done")
  /\ UNCHANGED <<blocked, expired, redis, cut, client, faults>>

\* The client closes its connection: hyper drops the handler at the await where it is.
ClientGone(m) ==
  /\ handler[m] \in {"count", "expire", "insert"}
  /\ At(m, "done")
  /\ CutOff({m})
  /\ UNCHANGED <<database, redis, client, faults>>

SubmitMessage(m) ==
  \/ IsBlocked(m)
  \/ CheckRateLimit(m)
  \/ SetEnd(m)
  \/ RedisFails(m)
  \/ Insert(m)
  \/ ClientGone(m)

\* The server stops and starts again: the requests under way are gone.
ServerStops ==
  /\ faults < MaxFaults
  /\ faults' = faults + 1
  /\ handler' = [m \in Message |-> IF handler[m] = "none" THEN "none" ELSE "done"]
  /\ CutOff(Message)
  /\ UNCHANGED <<database, redis, client>>

\* Redis drops a counter at its end.
WindowEnds(s) ==
  /\ s \in timed
  /\ count' = [count EXCEPT ![s] = 0]
  /\ timed' = timed \ {s}
  /\ UNCHANGED <<database, handler, cut, client, faults>>

BlockDevice(s) ==
  /\ s \notin blocked
  /\ faults < MaxFaults
  /\ faults' = faults + 1
  /\ blocked' = blocked \cup {s}
  /\ UNCHANGED <<stored, born, inserted, expired, redis, handler, cut, client>>

UnblockDevice(s) ==
  /\ s \in blocked
  /\ faults < MaxFaults
  /\ faults' = faults + 1
  /\ blocked' = blocked \ {s}
  /\ UNCHANGED <<stored, born, inserted, expired, redis, handler, cut, client>>

\* retention.rs: a message whose time is over.
Cleanup(m) ==
  /\ m \in stored
  /\ stored' = stored \ {m}
  /\ expired' = expired \cup {m}
  /\ UNCHANGED <<born, blocked, inserted, redis, handler, cut, client, faults>>

-----------------------------------------------------------------------------
(* poll_once *)

\* "order by created_at limit 100"
Oldest(m, messages) == Cardinality({o \in messages : born[o] < born[m]})
Page == {m \in stored : Oldest(m, stored) < PageSize}

Goes(r, step) == reader' = [reader EXCEPT ![r] = step]

\* poll_once returns: "poll" ends, "listen" comes back.
Leaves(r) ==
  /\ Goes(r, IF r = Listener THEN "idle" ELSE "over")
  /\ page' = [page EXCEPT ![r] = {}]
  /\ current' = [current EXCEPT ![r] = None]
  /\ loaded' = [loaded EXCEPT ![r] = {}]

\* The loop comes to the next message.
NextMessage(r) ==
  /\ Goes(r, "page")
  /\ current' = [current EXCEPT ![r] = None]

server == <<redis, handler, cut>>

PollMessages(r) ==
  /\ reader[r] = "idle"
  /\ stored # {}
  /\ page' = [page EXCEPT ![r] = Page]
  /\ Goes(r, "page")
  /\ UNCHANGED <<opened, acks, current, loaded, shown, torn, database, server, faults>>

\* The loop comes to the oldest message of the answer that is left.
Reaches(r, m) == reader[r] = "page" /\ m \in page[r] /\ Oldest(m, page[r]) = 0

TakeAndKeep(r, m) == Reaches(r, m) /\ UNCHANGED page

Take(r, m) ==
  /\ Reaches(r, m)
  /\ page' = [page EXCEPT ![r] = @ \ {m}]

\* The messages of its sender: one session, and one record in the data directory.
Same(m) == {o \in Message : Src(o) = Src(m)}

\* Another reader has the record in memory, and will write it.
Shared(r, m) == \E other \in Reader \ {r} : reader[other] = "store" /\ Src(current[other]) = Src(m)

\* The ratchet, as loaded, opens it; the step of libsignal's copy that comes before its store.
Open(r, m) ==
  /\ current' = [current EXCEPT ![r] = m]
  /\ loaded' = [loaded EXCEPT ![r] = opened \cap Same(m)]
  /\ torn' = IF Shared(r, m) THEN torn \cup {Src(m)} ELSE torn
  /\ Goes(r, "store")
  /\ UNCHANGED <<opened, acks, shown, database, server, faults>>

DecryptAgain(r, m) == Take(r, m) /\ Open(r, m)

Decrypt(r, m) ==
  /\ Take(r, m)
  /\ m \notin opened
  /\ Open(r, m)

\* The record is written whole, whatever another reader has made of it since.
StoreSession(r) ==
  /\ reader[r] = "store"
  /\ opened' = (opened \ Same(current[r])) \cup loaded[r] \cup {current[r]}
  /\ loaded' = [loaded EXCEPT ![r] = {}]
  /\ Goes(r, "print")
  /\ UNCHANGED <<acks, page, current, shown, torn, database, server, faults>>

\* nvs_set_blob of the shim empties a file before it writes it: a record may stay empty.
NotWritten(r) ==
  \/ UNCHANGED <<opened, torn>>
  \/ /\ opened' = opened \ Same(current[r])
     /\ torn' = torn \cup {Src(current[r])}

\* The write fails, and libsignal hands nothing out: an error message.
StoreFails(r) ==
  /\ reader[r] = "store"
  /\ faults < MaxFaults
  /\ faults' = faults + 1
  /\ NotWritten(r)
  /\ loaded' = [loaded EXCEPT ![r] = {}]
  /\ NextMessage(r)
  /\ UNCHANGED <<acks, page, shown, database, server>>

GiveUp(r, m) ==
  /\ Reaches(r, m)
  /\ Leaves(r)
  /\ UNCHANGED <<opened, acks, shown, torn, database, server, faults>>

AcknowledgeAnyway(r, m) ==
  /\ Take(r, m)
  /\ stored' = stored \ {m}
  /\ UNCHANGED <<born, blocked, inserted, expired, opened, reader, acks, current, loaded, shown,
                 torn, server, faults>>

\* An error message, and no acknowledgement: the message was opened before, or cannot be,
\* without a session, with one that no longer works, or being no message at all.
CannotDecrypt(r, m) ==
  /\ Take(r, m)
  /\ UNCHANGED <<opened, reader, acks, current, loaded, shown, torn, database, server, faults>>

PrintMessage(r) ==
  /\ reader[r] = "print"
  /\ shown' = shown \cup {current[r]}
  /\ IF acks[r] THEN Goes(r, "ack") /\ UNCHANGED current ELSE NextMessage(r)
  /\ UNCHANGED <<opened, acks, page, loaded, torn, database, server, faults>>

AckMessage(r) ==
  /\ reader[r] = "ack"
  /\ current[r] \in stored
  /\ stored' = stored \ {current[r]}
  /\ NextMessage(r)
  /\ UNCHANGED <<born, blocked, inserted, expired, opened, acks, page, loaded, shown, torn,
                 server, faults>>

\* 404: retention or another reader was faster, and the rest of the answer is dropped.
AckNotFound(r) ==
  /\ reader[r] = "ack"
  /\ current[r] \notin stored
  /\ Leaves(r)
  /\ UNCHANGED <<opened, acks, shown, torn, database, server, faults>>

PageEnds(r) ==
  /\ reader[r] = "page"
  /\ page[r] = {}
  /\ Leaves(r)
  /\ UNCHANGED <<opened, acks, shown, torn, database, server, faults>>

\* Ctrl-C, a crash, or a request that fails after it may have had its effect.  "listen" is
\* started again the same way.
Interrupted(r) ==
  /\ reader[r] \notin {"idle", "over"}
  /\ faults < MaxFaults
  /\ faults' = faults + 1
  /\ Leaves(r)
  /\ UNCHANGED acks
  /\ IF reader[r] = "store" THEN NotWritten(r) ELSE UNCHANGED <<opened, torn>>
  /\ UNCHANGED <<shown, database, server>>

PollOnce(r) ==
  \/ PollMessages(r)
  \/ \E m \in Message : Decrypt(r, m) \/ CannotDecrypt(r, m)
  \/ StoreSession(r)
  \/ StoreFails(r)
  \/ PrintMessage(r)
  \/ AckMessage(r)
  \/ AckNotFound(r)
  \/ PageEnds(r)

-----------------------------------------------------------------------------
Init ==
  /\ stored = {}
  /\ born = [m \in Message |-> 0]
  /\ blocked \in SUBSET Sender
  /\ count = [s \in Sender |-> 0]
  /\ timed = {}
  /\ opened = {}
  /\ page = [r \in Reader |-> {}]
  /\ current = [r \in Reader |-> None]
  /\ loaded = [r \in Reader |-> {}]
  /\ inserted = 0
  /\ expired = {}
  /\ cut = {}
  /\ shown = {}
  /\ torn = {}
  /\ faults = 0
  /\ \E readers \in SUBSET Reader, messages \in 0 .. PerSender :
       /\ Listener \in readers
       /\ Cardinality(readers) + messages = MaxLoad
       /\ \E ways \in [readers -> Acks] :
            acks = [r \in Reader |-> IF r \in readers THEN ways[r] ELSE FALSE]
       /\ reader = [r \in Reader |-> IF r \in readers THEN "idle" ELSE "over"]
       /\ handler = [m \in Message |-> IF m[2] <= messages THEN "none" ELSE "done"]

Next ==
  \/ \E m \in Message : SubmitMessage(m) \/ Cleanup(m)
  \/ \E s \in Sender : WindowEnds(s) \/ BlockDevice(s) \/ UnblockDevice(s)
  \/ ServerStops
  \/ \E r \in Reader : PollOnce(r) \/ Interrupted(r)

Spec == Init /\ [][Next]_vars

\* "pabianice listen" polls again and again.
FairSpec == Spec /\ WF_vars(PollOnce(Listener))

-----------------------------------------------------------------------------
\* Every variable keeps its shape.
TypeOK ==
  /\ stored \subseteq Message
  /\ born \in [Message -> Nat]
  /\ blocked \subseteq Sender
  /\ count \in [Sender -> Nat]
  /\ timed \subseteq Sender
  /\ handler \in [Message -> {"none", "count", "expire", "insert", "done"}]
  /\ reader \in [Reader -> {"idle", "page", "store", "print", "ack", "over"}]
  /\ acks \in [Reader -> BOOLEAN]
  /\ page \in [Reader -> SUBSET Message]
  /\ current \in [Reader -> Message \cup {None}]
  /\ \A r \in Reader : reader[r] \in {"store", "print", "ack"} => current[r] \in Message \ page[r]
  /\ loaded \in [Reader -> SUBSET Message]
  /\ opened \subseteq Message
  /\ shown \subseteq Message
  /\ inserted \in Nat
  /\ expired \subseteq Message
  /\ cut \subseteq Sender /\ torn \subseteq Sender
  /\ faults \in Nat

\* A message that was inserted stays until it was shown or its time is over,
\* wherever readers and server are interrupted.
NothingLost ==
  \A m \in Message : born[m] > 0 => m \in stored \cup shown \cup expired

\* A message is shown at most once, with --ack or without, also when the acknowledgement was
\* lost and it comes with every later answer: the ratchet has used up its key, and what comes
\* from then on is an error message.  (tutoriale/06-klient-desktopowy.md says that without
\* --ack the same messages appear at every further poll.)  The exception is a session that two
\* readers had in memory at once, each writing back what the other had not seen, or one whose
\* record was left empty by a reader that stopped while it wrote it.
PrintedOnce ==
  \A r \in Reader :
    reader[r] = "print" => current[r] \notin shown \/ Src(current[r]) \in torn

\* "Per-nadawca okno 60s": a sender's counter without an end exists only while a request is
\* about to set it, or if a request of this sender was cut off just there: by its client, by
\* Redis or by the server.
LimitEnds ==
  \A s \in Sender :
    count[s] > 0 =>
      \/ s \in timed
      \/ \E m \in Message : Src(m) = s /\ handler[m] = "expire"
      \/ s \in cut

\* messages.rs: "polling GET /v1/messages zawsze znajdzie wiadomosc w Postgresie".  The loop of
\* "listen" comes to every stored message in the end, or it is removed first, although messages
\* that were shown and not acknowledged, or that cannot be opened, come with every answer;
\* unless such messages fill every answer from some time on, which the comment does not foresee.
PollFinds ==
  \A m \in Message :
    m \in stored ~> \/ m \notin stored
                    \/ Reaches(Listener, m)
                    \/ [](m \in stored \ Page)
=============================================================================
