------------------------------ MODULE Sessions ------------------------------
(***************************************************************************)
(* The sessions in NVS (store.c, pcrypto.c) and the calls that read,       *)
(* advance and store one: pcrypto_encrypt, pcrypto_decrypt and             *)
(* pcrypto_process_bundle.  libsignal is external: it holds the lock of    *)
(* pcrypto.c while it loads a record, works on its copy and stores it, and *)
(* hands out its result after that.                                        *)
(*                                                                         *)
(* The same files run in two places, and Init picks one.  In the firmware  *)
(* the callers are tasks, which share the lock and lose power together; a  *)
(* write to NVS happens or does not.  On the desktop they are processes on *)
(* one data directory, each with a lock of its own, killed one by one;     *)
(* nvs_set_blob of the host shim empties a file before it writes it.       *)
(*                                                                         *)
(* The pre-keys that first messages use up are module Keys'.               *)
(***************************************************************************)
EXTENDS Naturals, TLC

CONSTANTS
  Task,         \* the callers
  Slot,         \* what crypto_node_key makes of a node identifier; peers may share one
  Identity,     \* identity keys
  NoIdentity,
  EmptyIdentity,   \* what a file of no length holds: no key at all
  MaxBuilds,    \* bound on the sessions built in a slot
  MaxSent, MaxReceived,   \* bounds on the messages of a session
  MaxStops      \* bound on losses of power and killed processes

ASSUME IdentityAssumption == {NoIdentity, EmptyIdentity} \cap Identity = {} /\ NoIdentity # EmptyIdentity
ASSUME BoundAssumption == {MaxBuilds, MaxSent, MaxReceived, MaxStops} \subseteq Nat

VARIABLES
  desktop,      \* where this runs
  \* NVS
  session,      \* session[s]: the record ss_...
  identity,     \* identity[s]: the identity key ik_...
  \* the callers
  pc,           \* pc[t]: where t is
  call,         \* call[t]: what t is about to store and to hand out
  \* history
  builds,       \* builds[s]: the sessions built in s
  handed,       \* the positions whose message was handed out, encrypted or opened
  twice,        \* those handed out again
  raced,        \* the slots on which two callers were at work at once
  first,        \* first[s]: the first identity key that was saved for s
  stops

nvs     == <<session, identity>>
history == <<builds, handed, twice, raced, first, stops>>
vars    == <<desktop, nvs, pc, call, history>>

\* A record: which session sends (0: none), the next position of its sending chain,
\* and the messages opened, of this session and of the archived ones.
Record == [exists : BOOLEAN, base : Nat, next : Nat, seen : SUBSET (Nat \X Nat)]

Absent == [exists |-> FALSE, base |-> 0, next |-> 0, seen |-> {}]
Empty == [Absent EXCEPT !.exists = TRUE]

\* A position: of which chain, slot, session, and which one.
Position == {"encrypt", "decrypt"} \X Slot \X Nat \X Nat
NoPosition == <<>>

\* Which calls bring an identity key.
Bringing == {"process", "first"}

Call ==
  [op : {"encrypt", "decrypt"}, slot : Slot, new : Record, position : Position,
   identity : {NoIdentity}]
  \cup
  [op : Bringing, slot : Slot, new : Record, position : Position \cup {NoPosition},
   identity : Identity]
NoCall == [op |-> "none"]

-----------------------------------------------------------------------------
(* lock_func, and the record as libsignal loads it. *)

Unlocked(t) == TRUE
Locked(t) == ~desktop => \A u \in Task : pc[u] = "idle"

Busy(s) == \E u \in Task : pc[u] # "idle" /\ call[u].slot = s

Enter(t, c) ==
  /\ pc[t] = "idle"
  /\ Locked(t)
  /\ pc' = [pc EXCEPT ![t] = IF c.op = "first" THEN "pin" ELSE "store"]
  /\ call' = [call EXCEPT ![t] = c]
  /\ raced' = IF Busy(c.slot) THEN raced \cup {c.slot} ELSE raced

\* pcrypto_has_session: there is a record, whatever its length.
HasSession(s) == session[s].exists

\* Without a session in the record libsignal refuses, and nothing changes.
Loaded(s) == session[s].base # 0

BeginEncrypt(t, s) ==
  /\ HasSession(s)
  /\ Loaded(s)
  /\ session[s].next < MaxSent
  /\ Enter(t, [op |-> "encrypt", slot |-> s,
               new |-> [session[s] EXCEPT !.next = @ + 1],
               position |-> <<"encrypt", s, session[s].base, session[s].next>>,
               identity |-> NoIdentity])
  /\ UNCHANGED <<desktop, nvs, builds, handed, twice, first, stops>>

\* A message that was opened before is refused.
BeginDecrypt(t, s, m) ==
  /\ Loaded(s)
  /\ <<session[s].base, m>> \notin session[s].seen
  /\ Enter(t, [op |-> "decrypt", slot |-> s,
               new |-> [session[s] EXCEPT !.seen = @ \cup {<<session[s].base, m>>}],
               position |-> <<"decrypt", s, session[s].base, m>>,
               identity |-> NoIdentity])
  /\ UNCHANGED <<desktop, nvs, builds, handed, twice, first, stops>>

\* is_trusted_identity: trust on first use, and the same key from then on.
TrustedAlways(s, id) == TRUE
Trusted(s, id) == identity[s] \in {NoIdentity, id}

\* The sessions before the new one are archived in the same record.
BeginProcessBundle(t, s, id) ==
  /\ Trusted(s, id)
  /\ builds[s] < MaxBuilds
  /\ builds' = [builds EXCEPT ![s] = @ + 1]
  /\ Enter(t, [op |-> "process", slot |-> s,
               new |-> [exists |-> TRUE, base |-> builds[s] + 1, next |-> 0,
                        seen |-> session[s].seen],
               position |-> NoPosition,
               identity |-> id])
  /\ UNCHANGED <<desktop, nvs, handed, twice, first, stops>>

\* A peer's first message carries its identity key, which libsignal saves before it opens the
\* message and stores the session it has built.
BeginDecryptFirst(t, s, id, m) ==
  /\ Trusted(s, id)
  /\ builds[s] < MaxBuilds
  /\ builds' = [builds EXCEPT ![s] = @ + 1]
  /\ Enter(t, [op |-> "first", slot |-> s,
               new |-> [exists |-> TRUE, base |-> builds[s] + 1, next |-> 0,
                        seen |-> session[s].seen \cup {<<builds[s] + 1, m>>}],
               position |-> <<"decrypt", s, builds[s] + 1, m>>,
               identity |-> id])
  /\ UNCHANGED <<desktop, nvs, handed, twice, first, stops>>

\* So do the ones that follow, until the peer has an answer; the session is there.
BeginDecryptNext(t, s, id, m) ==
  /\ Trusted(s, id)
  /\ Loaded(s)
  /\ <<session[s].base, m>> \notin session[s].seen
  /\ Enter(t, [op |-> "first", slot |-> s,
               new |-> [session[s] EXCEPT !.seen = @ \cup {<<session[s].base, m>>}],
               position |-> <<"decrypt", s, session[s].base, m>>,
               identity |-> id])
  /\ UNCHANGED <<desktop, nvs, builds, handed, twice, first, stops>>

-----------------------------------------------------------------------------
(* store_session_func, save_identity, and the way out. *)

Goes(t, to) == pc' = [pc EXCEPT ![t] = to]

Leaves(t) ==
  /\ Goes(t, "idle")
  /\ call' = [call EXCEPT ![t] = NoCall]

TruncatesAlways == TRUE
Truncates == desktop

Truncate(t) ==
  /\ pc[t] = "store"
  /\ Truncates
  /\ session' = [session EXCEPT ![call[t].slot] = Empty]
  /\ Goes(t, "write")
  /\ UNCHANGED <<desktop, identity, call, history>>

PinsAlways(t) == "pin"
Written(t) == IF call[t].op = "process" THEN "pin" ELSE "return"

Write(t) ==
  /\ pc[t] = IF Truncates THEN "write" ELSE "store"
  /\ session' = [session EXCEPT ![call[t].slot] = call[t].new]
  /\ Goes(t, Written(t))
  /\ UNCHANGED <<desktop, identity, call, history>>

\* nvs_set_blob fails, with what it did so far; nothing is handed out.
FailureIgnored(t) == Goes(t, Written(t)) /\ call' = call
FailurePassedOn(t) == Leaves(t)

StoreFails(t) ==
  /\ pc[t] \in {"store", "write"}
  /\ FailurePassedOn(t)
  /\ UNCHANGED <<desktop, nvs, history>>

\* libsignal goes on: a bundle is processed, a first message is to be opened and stored.
GoesOn(t) == IF call[t].op = "process" THEN Leaves(t) ELSE Goes(t, "store") /\ UNCHANGED call

TruncateIdentity(t) ==
  /\ pc[t] = "pin"
  /\ Truncates
  /\ identity' = [identity EXCEPT ![call[t].slot] = EmptyIdentity]
  /\ Goes(t, "pinwrite")
  /\ UNCHANGED <<desktop, session, call, history>>

SaveIdentity(t) ==
  /\ pc[t] = IF Truncates THEN "pinwrite" ELSE "pin"
  /\ identity' = [identity EXCEPT ![call[t].slot] = call[t].identity]
  /\ first' = [first EXCEPT ![call[t].slot] = IF @ = NoIdentity THEN call[t].identity ELSE @]
  /\ GoesOn(t)
  /\ UNCHANGED <<desktop, session, builds, handed, twice, raced, stops>>

\* save_identity ignores a failure of nvs_set_blob, which may have emptied the file.
SaveFails(t) ==
  /\ pc[t] \in {"pin", "pinwrite"}
  /\ GoesOn(t)
  /\ UNCHANGED <<desktop, nvs, history>>

Return(t) ==
  /\ pc[t] = "return"
  /\ handed' = handed \cup {call[t].position}
  /\ twice' = IF call[t].position \in handed THEN twice \cup {call[t].position} ELSE twice
  /\ Leaves(t)
  /\ UNCHANGED <<desktop, nvs, builds, raced, first, stops>>

\* Power is lost, or a process killed.
Stop(t) ==
  /\ stops < MaxStops
  /\ stops' = stops + 1
  /\ pc' = [u \in Task |-> IF desktop /\ u # t THEN pc[u] ELSE "idle"]
  /\ call' = [u \in Task |-> IF desktop /\ u # t THEN call[u] ELSE NoCall]
  /\ UNCHANGED <<desktop, nvs, builds, handed, twice, raced, first>>

Init ==
  /\ desktop \in BOOLEAN
  /\ session = [s \in Slot |-> Absent]
  /\ identity = [s \in Slot |-> NoIdentity]
  /\ pc = [t \in Task |-> "idle"]
  /\ call = [t \in Task |-> NoCall]
  /\ builds = [s \in Slot |-> 0]
  /\ handed = {}
  /\ twice = {}
  /\ raced = {}
  /\ first = [s \in Slot |-> NoIdentity]
  /\ stops = 0

Next ==
  \E t \in Task :
    \/ \E s \in Slot :
         \/ BeginEncrypt(t, s)
         \/ \E m \in 1 .. MaxReceived : BeginDecrypt(t, s, m)
         \/ \E id \in Identity : BeginProcessBundle(t, s, id)
         \/ \E id \in Identity, m \in 1 .. MaxReceived :
              BeginDecryptFirst(t, s, id, m) \/ BeginDecryptNext(t, s, id, m)
    \/ Truncate(t)
    \/ Write(t)
    \/ StoreFails(t)
    \/ TruncateIdentity(t)
    \/ SaveIdentity(t)
    \/ SaveFails(t)
    \/ Return(t)
    \/ Stop(t)

Spec == Init /\ [][Next]_vars

\* Callers are alike, and so are identity keys.
Alike == Permutations(Task) \cup Permutations(Identity)

-----------------------------------------------------------------------------
\* Records and calls keep their shape; a caller has a call exactly while it is busy.
TypeOK ==
  /\ desktop \in BOOLEAN
  /\ session \in [Slot -> Record]
  /\ identity \in [Slot -> Identity \cup {NoIdentity, EmptyIdentity}]
  /\ pc \in [Task -> {"idle", "store", "write", "pin", "pinwrite", "return"}]
  /\ call \in [Task -> Call \cup {NoCall}]
  /\ \A t \in Task :
       /\ pc[t] = "idle" <=> call[t] = NoCall
       /\ pc[t] \in {"pin", "pinwrite"} => call[t].op \in Bringing
       /\ pc[t] = "return" => call[t].position \in Position
  /\ builds \in [Slot -> Nat]
  /\ handed \subseteq Position
  /\ twice \subseteq Position
  /\ raced \subseteq Slot
  /\ first \in [Slot -> Identity \cup {NoIdentity}]
  /\ stops \in Nat

\* A position of a chain, that is a message key, encrypts one message and opens one,
\* whatever is lost, cut short or fails between loading a session and storing it.
\* The exception is what the lock of a process cannot prevent: two processes of the
\* desktop client at work on one session.
KeyOnce == \A x \in twice : desktop /\ x[2] \in raced

\* The identity key of a slot is the first that was saved there: neither another device nor
\* another node whose identifier folds to the same four bytes replaces it, however often it is
\* saved again.  The exceptions are the desktop client's: a file that a killed process or a
\* failed write has left empty, after which is_trusted_identity trusts nobody under this
\* identifier; and two processes that were at work on one session.
Pinned ==
  \A s \in Slot :
    \/ identity[s] = first[s]
    \/ desktop /\ (identity[s] = EmptyIdentity \/ s \in raced)

\* In the firmware a session that pcrypto_has_session reports can encrypt: mesh_send
\* never finds a record that neither works nor makes it ask for new keys.
Usable == ~desktop => \A s \in Slot : HasSession(s) => Loaded(s)
=============================================================================
