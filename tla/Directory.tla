----------------------------- MODULE Directory -----------------------------
(***************************************************************************)
(* The directory of keys: publication by its owner and requests of peers   *)
(* (server, routes/keys.rs), with the desktop clients at both ends.  Every *)
(* statement of PostgreSQL is a step of its own.  A client waits for one   *)
(* answer, but may give up and ask again while the server still works on   *)
(* the request before.                                                     *)
(*                                                                         *)
(* The server stores and gives out what it is sent; how the owner makes    *)
(* its keys, and what else uses them, is module Keys'.                     *)
(***************************************************************************)
EXTENDS Naturals, Sequences, SequencesExt

CONSTANTS
  Peer,
  MaxId,       \* bound on the owner's one-time keys
  MaxPuts,     \* bound on publications
  MaxGets,     \* bound on the requests of a peer
  MaxStops     \* bound on stops of the server or the owner

ASSUME BoundAssumption == {MaxId, MaxPuts, MaxGets, MaxStops} \subseteq Nat

VARIABLES
  \* PostgreSQL
  listed,      \* the row of nodes is there
  rows,        \* one_time_prekeys, in the order of their id
  used,        \* those with used_at set
  \* requests
  put,         \* put[n]: where publication n is, and its key
  at, got,     \* at[r], got[r]: where request r of a peer is, and the key it got
  \* the owner
  kept,        \* the one-time keys in its store
  erasing,     \* the key that a first message has used, before it is erased
  \* the peers
  holds,       \* holds[p]: the key p's session was built with, if it has one
  mail,        \* the peers with a first message on its way
  \* history
  given,       \* which key was given out in answer to which request
  opened,      \* the sessions opened by the owner
  stops

tables   == <<listed, rows, used>>
owner    == <<kept, erasing>>
peers    == <<holds, mail>>
history  == <<given, opened, stops>>
vars     == <<tables, put, at, got, owner, peers, history>>

Ids == 1 .. MaxId
NoKey == 0        \* a bundle without a one-time key
Request == Peer \X (1 .. MaxGets)

Moves(r, to) == at' = [at EXCEPT ![r] = to]
Ends(r) == Moves(r, "done") /\ got' = [got EXCEPT ![r] = NoKey]

-----------------------------------------------------------------------------
(* Publish: the owner offers its lowest unused key, again and again. *)

Offered(k) == k \in kept /\ \A other \in kept : k <= other

Publish(n) ==
  /\ put[n].at = "new"
  /\ \E k \in Ids : Offered(k) /\ put' = [put EXCEPT ![n] = [at |-> "node", key |-> k]]
  /\ UNCHANGED <<tables, at, got, owner, peers, history>>

UpsertNode(n) ==
  /\ put[n].at = "node"
  /\ put' = [put EXCEPT ![n].at = "key"]
  /\ listed' = TRUE
  /\ UNCHANGED <<rows, used, at, got, owner, peers, history>>

\* On conflict: do nothing.
FreshAgain(k) == /\ rows' = IF k \in Range(rows) THEN rows ELSE Append(rows, k)
                 /\ used' = used \ {k}
AddAnyway(k) == rows' = Append(rows, k) /\ used' = used
AddIfAbsent(k) == /\ rows' = IF k \in Range(rows) THEN rows ELSE Append(rows, k)
                  /\ used' = used

InsertKey(n) ==
  /\ put[n].at = "key"
  /\ put' = [put EXCEPT ![n].at = "done"]
  /\ AddIfAbsent(put[n].key)
  /\ UNCHANGED <<listed, at, got, owner, peers, history>>

-----------------------------------------------------------------------------
(* get_bundle *)

Latest(r) == \A n \in 1 .. MaxGets : n > r[2] => at[<<r[1], n>>] = "new"

\* Send without a session; what became of the requests before is not known.
AskForBundle(r) ==
  /\ at[r] = "new"
  /\ holds[r[1]] = {}
  /\ \A n \in 1 .. MaxGets : n < r[2] => at[<<r[1], n>>] # "new"
  /\ Moves(r, "node")
  /\ UNCHANGED <<tables, put, got, owner, peers, history>>

SelectNode(r) ==
  /\ at[r] = "node"
  /\ Moves(r, IF listed THEN "pick" ELSE "done")
  /\ UNCHANGED <<tables, put, got, owner, peers, history>>

Nobody(r) == {}
LockedByOthers(r) == {got[q] : q \in {q \in Request \ {r} : at[q] = "commit"}}

\* The subquery: the first row that is neither used nor locked is locked.
Free(r) == {i \in DOMAIN rows : rows[i] \notin used \cup LockedByOthers(r)}

Pick(r) ==
  /\ at[r] = "pick"
  /\ \E i \in Free(r) :
       /\ \A j \in Free(r) : i <= j
       /\ got' = [got EXCEPT ![r] = rows[i]]
  /\ Moves(r, "commit")
  /\ UNCHANGED <<tables, put, owner, peers, history>>

PickNone(r) ==
  /\ at[r] = "pick"
  /\ Free(r) = {}
  /\ Moves(r, "answer")
  /\ UNCHANGED <<tables, put, got, owner, peers, history>>

MarkUsed(r) ==
  /\ at[r] = "commit"
  /\ used' = used \cup {got[r]}
  /\ given' = given \cup {<<got[r], r>>}
  /\ Moves(r, "answer")
  /\ UNCHANGED <<listed, rows, put, got, owner, peers, opened, stops>>

AnswerLost(r) ==
  /\ at[r] = "answer"
  /\ Ends(r)
  /\ UNCHANGED <<tables, put, owner, peers, history>>

\* fetch_bundle and process_peer_bundle.
Receive(r) ==
  /\ at[r] = "answer"
  /\ Latest(r)
  /\ Ends(r)
  /\ holds' = [holds EXCEPT ![r[1]] = {got[r]}]
  /\ UNCHANGED <<tables, put, owner, mail, history>>

-----------------------------------------------------------------------------
(* The first message of a session, sent until the owner has answered one. *)

SendFirst(p) ==
  /\ holds[p] # {}
  /\ p \notin mail
  /\ mail' = mail \cup {p}
  /\ UNCHANGED <<tables, put, at, got, owner, holds, history>>

Arrives(p) ==
  /\ erasing = NoKey
  /\ p \in mail
  /\ mail' = mail \ {p}

\* It opens when its key is still there, or when it needs none.
OpenFirst(p) ==
  /\ Arrives(p)
  /\ \E k \in holds[p] :
       /\ <<k, p>> \notin opened
       /\ k \in kept \cup {NoKey}
       /\ opened' = opened \cup {<<k, p>>}
       /\ erasing' = k
  /\ UNCHANGED <<tables, put, at, got, kept, holds, given, stops>>

\* The session is there already, or the key is not.
OpenNot(p) ==
  /\ Arrives(p)
  /\ \A k \in holds[p] : <<k, p>> \in opened \/ k \notin kept \cup {NoKey}
  /\ UNCHANGED <<tables, put, at, got, owner, holds, history>>

RemovePreKey ==
  /\ erasing # NoKey
  /\ kept' = kept \ {erasing}
  /\ erasing' = NoKey
  /\ UNCHANGED <<tables, put, at, got, peers, history>>

\* The owner's process ends before it erased the key.
OwnerStops ==
  /\ erasing # NoKey
  /\ stops < MaxStops
  /\ stops' = stops + 1
  /\ erasing' = NoKey
  /\ UNCHANGED <<tables, put, at, got, kept, peers, given, opened>>

\* Requests under way end; a row that was locked is free again.
ServerStops ==
  /\ stops < MaxStops
  /\ stops' = stops + 1
  /\ put' = [n \in DOMAIN put |->
               IF put[n].at = "new" THEN put[n] ELSE [put[n] EXCEPT !.at = "done"]]
  /\ at' = [r \in Request |-> IF at[r] \in {"node", "pick", "commit"} THEN "done" ELSE at[r]]
  /\ got' = [r \in Request |-> IF at[r] = "commit" THEN NoKey ELSE got[r]]
  /\ UNCHANGED <<tables, owner, peers, given, opened>>

Init ==
  /\ listed = FALSE
  /\ rows = <<>>
  /\ used = {}
  /\ put = [n \in 1 .. MaxPuts |-> [at |-> "new", key |-> NoKey]]
  /\ at = [r \in Request |-> "new"]
  /\ got = [r \in Request |-> NoKey]
  /\ kept = Ids
  /\ erasing = NoKey
  /\ holds = [p \in Peer |-> {}]
  /\ mail = {}
  /\ given = {}
  /\ opened = {}
  /\ stops = 0

Next ==
  \/ \E n \in 1 .. MaxPuts :
       \/ Publish(n)
       \/ UpsertNode(n)
       \/ InsertKey(n)
  \/ \E r \in Request :
       \/ AskForBundle(r)
       \/ SelectNode(r)
       \/ Pick(r)
       \/ PickNone(r)
       \/ MarkUsed(r)
       \/ AnswerLost(r)
       \/ Receive(r)
  \/ \E p \in Peer :
       \/ SendFirst(p)
       \/ OpenFirst(p)
       \/ OpenNot(p)
  \/ RemovePreKey
  \/ OwnerStops
  \/ ServerStops

Spec == Init /\ [][Next]_vars

-----------------------------------------------------------------------------
\* Tables, requests and stores keep their shape; a row is there once, as its key is unique.
TypeOK ==
  /\ listed \in BOOLEAN
  /\ rows \in Seq(Ids)
  /\ \A i, j \in DOMAIN rows : rows[i] = rows[j] => i = j
  /\ used \subseteq Range(rows)
  /\ put \in [1 .. MaxPuts -> [at : {"new", "node", "key", "done"}, key : Ids \cup {NoKey}]]
  /\ at \in [Request -> {"new", "node", "pick", "commit", "answer", "done"}]
  /\ got \in [Request -> Ids \cup {NoKey}]
  /\ kept \subseteq Ids
  /\ erasing \in Ids \cup {NoKey}
  /\ holds \in [Peer -> SUBSET (Ids \cup {NoKey})]
  /\ mail \subseteq Peer
  /\ given \subseteq Ids \X Request
  /\ opened \subseteq (Ids \cup {NoKey}) \X Peer
  /\ stops \in Nat

\* "Zuzywa jeden one-time prekey (...), zeby nie dalo sie go zuzyc dwa razy" (keys.rs):
\* two answers never carry the same key, whatever requests run at once, are given up,
\* cut short or repeated, and however often the owner publishes the key again.
HandedOnce == \A x, y \in given : x[1] = y[1] => x = y

\* A peer whose session came from a bundle can start it: the owner has the key until a
\* message of that very peer has used it.  Over the mesh this fails (Keys!BundleStarts).
FirstOpens ==
  \A p \in Peer : \A k \in holds[p] \ {NoKey} : k \in kept \/ <<k, p>> \in opened

Promise == INSTANCE OneTimeKeys WITH
  Key <- Ids,
  public <- Range(rows),
  given <- {<<g[1], g[2][1]>> : g \in given},
  sessions <- {o \in opened : o[1] # NoKey}

\* The directory and its clients keep the promise of OneTimeKeys: a key goes to one peer,
\* and opens one session, with that peer.
OneTime == Promise!Spec
=============================================================================
