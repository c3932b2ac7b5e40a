------------------------------- MODULE Dedup -------------------------------
(***************************************************************************)
(* dedup_check_and_mark (components/mesh/dedup.c) as its callers run it:   *)
(* the radio's interrupt task for every DATA frame it receives, the main   *)
(* task and the Bluetooth host task for every message they send.  Nothing  *)
(* locks the ring, so a call is a sequence of steps.                       *)
(*                                                                         *)
(* A slot is compared or written in one step, except that an identifier is *)
(* copied in two: between them the slot matches no identifier.             *)
(***************************************************************************)
EXTENDS Naturals, SequencesExt

CONSTANTS
  Heard,       \* identifiers of other nodes' messages, which the radio receives
  Own,         \* identifiers drawn for messages of this node: its own echo never gets here
  CacheSize,   \* DEDUP_CACHE_SIZE, 64
  Receiver,    \* the task that checks what the radio received
  Senders,     \* the tasks that mark the messages they send
  Empty,       \* a slot that was never used
  Torn         \* a slot whose identifier is being copied

Id == Heard \cup Own

ASSUME CacheSizeAssumption == CacheSize \in Nat \ {0}
ASSUME TaskAssumption == Receiver \notin Senders
ASSUME IdAssumption == Heard \cap Own = {}
ASSUME SlotAssumption == Empty \notin Id /\ Torn \notin Id

Task == Senders \cup {Receiver}

VARIABLES
  cache,    \* s_cache
  next,     \* s_next_slot
  pc,       \* where each task is in its call
  arg,      \* the identifier of its call
  pos,      \* the index of its loop, then the slot it writes
  sent,     \* the identifiers drawn so far
  \* history
  recent,   \* the last CacheSize identifiers reported new, oldest first
  overlapped   \* two calls were writing at once

vars == <<cache, next, pc, arg, pos, sent, recent, overlapped>>

Slots == 0 .. CacheSize - 1

\* Any identifier can be received, over and over; one's own is 16 fresh random bytes.
Offered(t, m) ==
  IF t = Receiver
    THEN m \in Heard /\ sent' = sent
    ELSE m \in Own \ sent /\ sent' = sent \cup {m}

Call(t, m) ==
  /\ pc[t] = "idle"
  /\ Offered(t, m)
  /\ pc' = [pc EXCEPT ![t] = "scan"]
  /\ arg' = [arg EXCEPT ![t] = m]
  /\ pos' = [pos EXCEPT ![t] = 0]
  /\ UNCHANGED <<cache, next, recent, overlapped>>

ScanEndEarly == CacheSize - 1
ScanEnd == CacheSize

\* The loop over the slots: a match ends the call.
AlreadySeen(t) ==
  /\ pc[t] = "scan"
  /\ pos[t] < ScanEnd
  /\ cache[pos[t]] = arg[t]
  /\ pc' = [pc EXCEPT ![t] = "idle"]
  /\ UNCHANGED <<cache, next, arg, pos, sent, recent, overlapped>>

NextSlot(t) ==
  /\ pc[t] = "scan"
  /\ pos[t] < ScanEnd
  /\ cache[pos[t]] # arg[t]
  /\ pos' = [pos EXCEPT ![t] = @ + 1]
  /\ UNCHANGED <<cache, next, pc, arg, sent, recent, overlapped>>

\* A call that found nothing, until it has moved s_next_slot on.
Writes(t) == pc[t] \in {"copy", "advance"}

\* The scan found nothing: s_next_slot is read and memcpy begins.
BeginCopy(t) ==
  /\ pc[t] = "scan"
  /\ pos[t] >= ScanEnd
  /\ cache' = [cache EXCEPT ![next] = Torn]
  /\ pos' = [pos EXCEPT ![t] = next]
  /\ pc' = [pc EXCEPT ![t] = "copy"]
  /\ overlapped' = (overlapped \/ \E u \in Task : Writes(u))
  /\ UNCHANGED <<next, arg, sent, recent>>

EndCopy(t) ==
  /\ pc[t] = "copy"
  /\ cache' = [cache EXCEPT ![pos[t]] = arg[t]]
  /\ pc' = [pc EXCEPT ![t] = "advance"]
  /\ UNCHANGED <<next, arg, pos, sent, recent, overlapped>>

FollowingUnbounded(i) == i + 1
FollowingNoWrap(i) == IF i + 1 < CacheSize THEN i + 1 ELSE i
Following(i) == (i + 1) % CacheSize

Newest(s, m) == IF Len(s) < CacheSize THEN Append(s, m) ELSE Append(Tail(s), m)

\* s_next_slot moves on from the slot that was read, and the call returns false.
ReportNew(t) ==
  /\ pc[t] = "advance"
  /\ next' = Following(pos[t])
  /\ pc' = [pc EXCEPT ![t] = "idle"]
  /\ recent' = Newest(recent, arg[t])
  /\ UNCHANGED <<cache, arg, pos, sent, overlapped>>

Init ==
  /\ cache = [i \in Slots |-> Empty]
  /\ next = 0
  /\ pc = [t \in Task |-> "idle"]
  /\ arg = [t \in Task |-> Empty]
  /\ pos = [t \in Task |-> 0]
  /\ sent = {}
  /\ recent = << >>
  /\ overlapped = FALSE

Next ==
  \E t \in Task :
    \/ \E m \in Id : Call(t, m)
    \/ AlreadySeen(t)
    \/ NextSlot(t)
    \/ BeginCopy(t)
    \/ EndCopy(t)
    \/ ReportNew(t)

Spec == Init /\ [][Next]_vars

-----------------------------------------------------------------------------
\* Every variable keeps its shape: no caller writes outside the ring.
TypeOK ==
  /\ cache \in [Slots -> Id \cup {Empty, Torn}]
  /\ next \in Slots
  /\ pc \in [Task -> {"idle", "scan", "copy", "advance"}]
  /\ arg \in [Task -> Id \cup {Empty}]
  /\ \A t \in Task : pc[t] # "idle" => arg[t] \in Id
  /\ pos \in [Task -> 0 .. CacheSize]
  /\ sent \subseteq Own
  /\ recent \in Seq(Id)
  /\ Len(recent) <= CacheSize
  /\ overlapped \in BOOLEAN

Idle == \A t \in Task : pc[t] = "idle"

\* What module Mesh takes the ring for: between two calls it holds the last CacheSize
\* identifiers that were new, and nothing else (dedup.h: an identifier that was reported
\* new is remembered from then on).  Scans may overlap one another and a writing call; the
\* one thing that breaks it is two calls that write at once, into one slot.
RingIsWindow ==
  Idle /\ ~overlapped => {cache[i] : i \in Slots} \ {Empty} = ToSet(recent)

\* Until then every call answers as if it had asked the window at its end: true exactly
\* when the identifier is among the last CacheSize new ones.  So no message is handled
\* twice, and none is dropped for another one, though a slot may be overwritten before or
\* after a scan gets to it.
AnswersRight ==
  [][\A t \in Task : pc[t] # "idle" /\ pc'[t] = "idle" /\ ~overlapped
       => (pc[t] = "scan" <=> arg[t] \in ToSet(recent))]_vars
=============================================================================
