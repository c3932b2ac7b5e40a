--------------------------- MODULE DirectoryProofs ---------------------------
(***************************************************************************)
(* A one-time key goes to one peer and opens one session, with that peer,  *)
(* for any number of peers, keys, requests and stops.                      *)
(*                                                                         *)
(* The argument follows a key.  While a request has its row locked, no     *)
(* other request has, and the row is not used (Locked).  What was given is *)
(* used from then on (Spent).  A peer's session was built with a key given *)
(* to it (Built), and a session the owner opened was one of those (Came).  *)
(* A key leaves the owner's store only after it opened a session (Erased), *)
(* which is then the session of the only peer that has the key.            *)
(***************************************************************************)
EXTENDS Directory, SequenceTheorems, TLAPS

GivenTo(k, p) == \E n \in 1 .. MaxGets : <<k, <<p, n>>>> \in given

Locked ==
  /\ \A r \in Request : at[r] = "commit" => got[r] \in Range(rows) \ used
  /\ \A q, r \in Request : at[q] = "commit" /\ at[r] = "commit" /\ got[q] = got[r] => q = r

\* got[r] is set from the time the row is locked to the end of the request.
Carried ==
  \A r \in Request :
    /\ at[r] \in {"new", "node", "pick"} => got[r] = NoKey
    /\ at[r] = "answer" /\ got[r] # NoKey => <<got[r], r>> \in given

Spent == \A g \in given : g[1] \in used

Built == \A p \in Peer : \A k \in holds[p] : k = NoKey \/ GivenTo(k, p)

Came == \A o \in opened : o[1] = NoKey \/ GivenTo(o[1], o[2])

Erased ==
  /\ erasing = NoKey \/ \E p \in Peer : <<erasing, p>> \in opened
  /\ \A k \in Ids \ kept : \E p \in Peer : <<k, p>> \in opened

\* A publication under way has a key.
Put == \A n \in 1 .. MaxPuts : put[n].at \in {"node", "key"} => put[n].key \in Ids

Inv ==
  /\ TypeOK
  /\ Put
  /\ Locked
  /\ Carried
  /\ Spent
  /\ HandedOnce
  /\ Built
  /\ Came
  /\ Erased

-----------------------------------------------------------------------------
LEMMA RequestPair ==
  ASSUME NEW r \in Request
  PROVE  r[1] \in Peer /\ r[2] \in 1 .. MaxGets /\ r = <<r[1], r[2]>>
BY DEF Request

LEMMA KeyNotNone == \A k \in Ids : k # NoKey
BY BoundAssumption DEF Ids, NoKey

\* A step that changes neither tables nor history, nor what the owner and the peers have,
\* and locks no row.
LEMMA QuietStep ==
  ASSUME Inv, TypeOK', Put', UNCHANGED <<tables, kept, holds, given, opened>>,
         erasing' = erasing \/ erasing' = NoKey,
         \A r \in Request : at'[r] = "commit" => at[r] = "commit" /\ got'[r] = got[r],
         \A r \in Request : at'[r] \in {"new", "node", "pick"} => got'[r] = NoKey,
         \A r \in Request : at'[r] = "answer" /\ got'[r] # NoKey => <<got'[r], r>> \in given
  PROVE  Inv'
<1>1. UNCHANGED <<listed, rows, used>>
  BY DEF tables
<1>2. Locked'
  BY <1>1 DEF Inv, Locked
<1>3. Carried'
  BY DEF Carried
<1>4. Spent' /\ HandedOnce' /\ Built' /\ Came'
  BY <1>1 DEF Inv, Spent, HandedOnce, Built, Came, GivenTo
<1>5. Erased'
  BY DEF Inv, Erased
<1> QED
  BY <1>2, <1>3, <1>4, <1>5 DEF Inv

-----------------------------------------------------------------------------
(* Publication. *)

LEMMA PublishKeepsInv ==
  ASSUME Inv, NEW n \in 1 .. MaxPuts, Publish(n)
  PROVE  Inv'
<1>1. PICK k \in Ids : put' = [put EXCEPT ![n] = [at |-> "node", key |-> k]]
  BY DEF Publish
<1>2. TypeOK' /\ Put'
  BY <1>1 DEF Publish, Inv, TypeOK, Put, tables, owner, peers, history
<1> QED
  BY <1>2, QuietStep DEF Publish, Inv, Carried, tables, owner, peers, history

LEMMA UpsertNodeKeepsInv ==
  ASSUME Inv, NEW n \in 1 .. MaxPuts, UpsertNode(n)
  PROVE  Inv'
<1>1. /\ put[n].at = "node" /\ put' = [put EXCEPT ![n].at = "key"]
      /\ listed' = TRUE
      /\ UNCHANGED <<rows, used, at, got, kept, erasing, holds, mail, given, opened, stops>>
  BY DEF UpsertNode, owner, peers, history
<1>2. TypeOK' /\ Put'
  BY <1>1 DEF Inv, TypeOK, Put
<1>3. Locked' /\ Carried' /\ Spent' /\ HandedOnce' /\ Built' /\ Came' /\ Erased'
  BY <1>1 DEF Inv, Locked, Carried, Spent, HandedOnce, Built, Came, Erased, GivenTo
<1> QED
  BY <1>2, <1>3 DEF Inv

\* Appending a key that is not there keeps the rows distinct and adds it to their range.
LEMMA AppendNew ==
  ASSUME NEW S, NEW s \in Seq(S), NEW k \in S, k \notin Range(s),
         \A i, j \in DOMAIN s : s[i] = s[j] => i = j
  PROVE  /\ Append(s, k) \in Seq(S)
         /\ Range(Append(s, k)) = Range(s) \cup {k}
         /\ \A i, j \in DOMAIN Append(s, k) : Append(s, k)[i] = Append(s, k)[j] => i = j
<1> DEFINE t == Append(s, k)
<1>1. t \in Seq(S) /\ Len(t) = Len(s) + 1 /\ Len(s) \in Nat
  OBVIOUS
<1>2. DOMAIN s = 1 .. Len(s) /\ DOMAIN t = 1 .. Len(s) + 1
  BY <1>1
<1>3. \A i \in 1 .. Len(s) : t[i] = s[i]
  OBVIOUS
<1>4. t[Len(s) + 1] = k
  OBVIOUS
<1>5. \A i \in 1 .. Len(s) : s[i] # k
  BY <1>2 DEF Range
<1> HIDE DEF t
<1>6. Range(t) = Range(s) \cup {k}
  <2>1. \A i \in 1 .. Len(s) : i \in 1 .. Len(s) + 1
    BY <1>1
  <2>2. Len(s) + 1 \in 1 .. Len(s) + 1
    BY <1>1
  <2>3. \A i \in 1 .. Len(s) + 1 : i \in 1 .. Len(s) \/ i = Len(s) + 1
    BY <1>1
  <2> QED BY <2>1, <2>2, <2>3, <1>2, <1>3, <1>4 DEF Range
<1>7. ASSUME NEW i \in DOMAIN t, NEW j \in DOMAIN t, t[i] = t[j] PROVE i = j
  <2>1. \A h \in DOMAIN t : h \in 1 .. Len(s) \/ h = Len(s) + 1
    BY <1>1, <1>2
  <2> QED BY <2>1, <1>2, <1>3, <1>4, <1>5, <1>7
<1> QED
  BY <1>1, <1>6, <1>7 DEF t

LEMMA InsertKeyKeepsInv ==
  ASSUME Inv, NEW n \in 1 .. MaxPuts, InsertKey(n)
  PROVE  /\ Inv'
         /\ put[n].key \in Ids
         /\ Range(rows') = Range(rows) \cup {put[n].key}
<1> DEFINE k == put[n].key
<1>1. /\ put[n].at = "key" /\ put' = [put EXCEPT ![n].at = "done"]
      /\ rows' = IF k \in Range(rows) THEN rows ELSE Append(rows, k)
      /\ UNCHANGED <<listed, used, at, got, kept, erasing, holds, mail, given, opened, stops>>
  BY DEF InsertKey, AddIfAbsent, owner, peers, history
<1>2. k \in Ids
  BY <1>1 DEF Inv, Put
<1>3. /\ rows' \in Seq(Ids)
      /\ Range(rows') = Range(rows) \cup {k}
      /\ \A i, j \in DOMAIN rows' : rows'[i] = rows'[j] => i = j
  <2>1. rows \in Seq(Ids) /\ \A i, j \in DOMAIN rows : rows[i] = rows[j] => i = j
    BY DEF Inv, TypeOK
  <2>2. CASE k \in Range(rows)
    BY <2>1, <2>2, <1>1
  <2>3. CASE k \notin Range(rows)
    <3>1. rows' = Append(rows, k)
      BY <2>3, <1>1
    <3>2. /\ Append(rows, k) \in Seq(Ids)
          /\ Range(Append(rows, k)) = Range(rows) \cup {k}
          /\ \A i, j \in DOMAIN Append(rows, k) : Append(rows, k)[i] = Append(rows, k)[j] => i = j
      BY <2>1, <2>3, <1>2, AppendNew
    <3> QED BY <3>1, <3>2
  <2> QED BY <2>2, <2>3
<1>4. TypeOK' /\ Put'
  <2>1. put' \in [1 .. MaxPuts -> [at : {"new", "node", "key", "done"}, key : Ids \cup {NoKey}]]
    BY <1>1 DEF Inv, TypeOK
  <2>2. Put'
    BY <1>1 DEF Inv, TypeOK, Put
  <2> QED BY <2>1, <2>2, <1>1, <1>3 DEF Inv, TypeOK
<1>5. Locked' /\ Carried' /\ Spent' /\ HandedOnce' /\ Built' /\ Came' /\ Erased'
  BY <1>1, <1>3 DEF Inv, Locked, Carried, Spent, HandedOnce, Built, Came, Erased, GivenTo
<1> QED
  BY <1>2, <1>3, <1>4, <1>5 DEF Inv
-----------------------------------------------------------------------------
(* get_bundle and its client. *)

LEMMA AskForBundleKeepsInv ==
  ASSUME Inv, NEW r \in Request, AskForBundle(r)
  PROVE  Inv'
<1>1. /\ at[r] = "new" /\ at' = [at EXCEPT ![r] = "node"]
      /\ UNCHANGED <<listed, rows, used, put, got, kept, erasing, holds, mail, given, opened, stops>>
  BY DEF AskForBundle, Moves, tables, owner, peers, history
<1>2. TypeOK' /\ Put'
  BY <1>1 DEF Inv, TypeOK, Put
<1> QED
  BY <1>1, <1>2, QuietStep DEF Inv, TypeOK, Carried, tables

LEMMA SelectNodeKeepsInv ==
  ASSUME Inv, NEW r \in Request, SelectNode(r)
  PROVE  Inv'
<1>1. /\ at[r] = "node"
      /\ at' = [at EXCEPT ![r] = "pick"] \/ at' = [at EXCEPT ![r] = "done"]
      /\ UNCHANGED <<listed, rows, used, put, got, kept, erasing, holds, mail, given, opened, stops>>
  BY DEF SelectNode, Moves, tables, owner, peers, history
<1>2. TypeOK' /\ Put'
  BY <1>1 DEF Inv, TypeOK, Put
<1> QED
  BY <1>1, <1>2, QuietStep DEF Inv, TypeOK, Carried, tables

\* The row that is locked was neither used nor locked by another request.
LEMMA PickKeepsInv ==
  ASSUME Inv, NEW r \in Request, Pick(r)
  PROVE  Inv'
<1>1. PICK i \in DOMAIN rows :
        /\ rows[i] \notin used \cup LockedByOthers(r)
        /\ got' = [got EXCEPT ![r] = rows[i]]
  BY DEF Pick, Free
<1>2. /\ at[r] = "pick" /\ at' = [at EXCEPT ![r] = "commit"]
      /\ UNCHANGED <<listed, rows, used, put, kept, erasing, holds, mail, given, opened, stops>>
  BY DEF Pick, Moves, tables, owner, peers, history
<1>3. rows[i] \in Range(rows) /\ rows[i] \in Ids
  BY DEF Range, Inv, TypeOK
<1>4. \A q \in Request \ {r} : at[q] = "commit" => got[q] # rows[i]
  BY <1>1 DEF LockedByOthers
<1>5. TypeOK' /\ Put'
  BY <1>1, <1>2, <1>3 DEF Inv, TypeOK, Put
<1>6. Locked'
  BY <1>1, <1>2, <1>3, <1>4 DEF Inv, TypeOK, Locked
<1>7. Carried'
  BY <1>1, <1>2 DEF Inv, TypeOK, Carried
<1>8. Spent' /\ HandedOnce' /\ Built' /\ Came' /\ Erased'
  BY <1>2 DEF Inv, Spent, HandedOnce, Built, Came, Erased, GivenTo
<1> QED
  BY <1>5, <1>6, <1>7, <1>8 DEF Inv

LEMMA PickNoneKeepsInv ==
  ASSUME Inv, NEW r \in Request, PickNone(r)
  PROVE  Inv'
<1>1. /\ at[r] = "pick" /\ at' = [at EXCEPT ![r] = "answer"]
      /\ UNCHANGED <<listed, rows, used, put, got, kept, erasing, holds, mail, given, opened, stops>>
  BY DEF PickNone, Moves, tables, owner, peers, history
<1>2. TypeOK' /\ Put'
  BY <1>1 DEF Inv, TypeOK, Put
<1> QED
  BY <1>1, <1>2, QuietStep DEF Inv, TypeOK, Carried, tables

\* The update of the locked row: its key is used from here on, and was not before.
LEMMA MarkUsedKeepsInv ==
  ASSUME Inv, NEW r \in Request, MarkUsed(r)
  PROVE  /\ Inv'
         /\ got[r] \in Range(rows)
         /\ \A g \in given : g[1] # got[r]
<1>1. /\ at[r] = "commit" /\ at' = [at EXCEPT ![r] = "answer"]
      /\ used' = used \cup {got[r]}
      /\ given' = given \cup {<<got[r], r>>}
      /\ UNCHANGED <<listed, rows, put, got, kept, erasing, holds, mail, opened, stops>>
  BY DEF MarkUsed, Moves, owner, peers
<1>2. got[r] \in Range(rows) /\ got[r] \notin used
  BY <1>1 DEF Inv, Locked
<1>3. got[r] \in Ids
  BY <1>2 DEF Inv, TypeOK, Range
<1>4. \A g \in given : g[1] # got[r]
  BY <1>2 DEF Inv, Spent
<1>5. TypeOK' /\ Put'
  BY <1>1, <1>2, <1>3 DEF Inv, TypeOK, Put
<1>6. Locked'
  <2>1. ASSUME NEW q \in Request, at'[q] = "commit" PROVE got[q] \in Range(rows) \ used'
    <3>1. q # r /\ at[q] = "commit"
      BY <2>1, <1>1 DEF Inv, TypeOK
    <3>2. got[q] # got[r]
      BY <3>1, <1>1 DEF Inv, Locked
    <3> QED BY <3>1, <3>2, <1>1 DEF Inv, Locked
  <2>2. \A q \in Request : at'[q] = "commit" => at[q] = "commit"
    BY <1>1 DEF Inv, TypeOK
  <2> QED BY <2>1, <2>2, <1>1 DEF Inv, Locked
<1>7. Carried'
  BY <1>1 DEF Inv, TypeOK, Carried
<1>8. Spent' /\ HandedOnce'
  BY <1>1, <1>4 DEF Inv, Spent, HandedOnce
<1>9. Built' /\ Came' /\ Erased'
  BY <1>1 DEF Inv, Built, Came, Erased, GivenTo
<1> QED
  BY <1>2, <1>4, <1>5, <1>6, <1>7, <1>8, <1>9 DEF Inv

LEMMA AnswerLostKeepsInv ==
  ASSUME Inv, NEW r \in Request, AnswerLost(r)
  PROVE  Inv'
<1>1. /\ at' = [at EXCEPT ![r] = "done"] /\ got' = [got EXCEPT ![r] = NoKey]
      /\ UNCHANGED <<listed, rows, used, put, kept, erasing, holds, mail, given, opened, stops>>
  BY DEF AnswerLost, Ends, Moves, tables, owner, peers, history
<1>2. TypeOK' /\ Put'
  BY <1>1 DEF Inv, TypeOK, Put
<1> QED
  BY <1>1, <1>2, QuietStep DEF Inv, TypeOK, Carried, tables

LEMMA ReceiveKeepsInv ==
  ASSUME Inv, NEW r \in Request, Receive(r)
  PROVE  Inv'
<1>1. /\ at[r] = "answer"
      /\ at' = [at EXCEPT ![r] = "done"] /\ got' = [got EXCEPT ![r] = NoKey]
      /\ holds' = [holds EXCEPT ![r[1]] = {got[r]}]
      /\ UNCHANGED <<listed, rows, used, put, kept, erasing, mail, given, opened, stops>>
  BY DEF Receive, Ends, Moves, tables, owner, history
<1>2. r[1] \in Peer /\ r[2] \in 1 .. MaxGets /\ r = <<r[1], r[2]>>
  BY RequestPair
<1>3. TypeOK' /\ Put'
  BY <1>1, <1>2 DEF Inv, TypeOK, Put
<1>4. Locked' /\ Carried' /\ Spent' /\ HandedOnce' /\ Came' /\ Erased'
  BY <1>1 DEF Inv, TypeOK, Locked, Carried, Spent, HandedOnce, Came, Erased, GivenTo
<1>5. Built'
  <2>1. got[r] = NoKey \/ GivenTo(got[r], r[1])
    BY <1>1, <1>2 DEF Inv, Carried, GivenTo
  <2> QED BY <2>1, <1>1, <1>2 DEF Inv, TypeOK, Built, GivenTo
<1> QED
  BY <1>3, <1>4, <1>5 DEF Inv

-----------------------------------------------------------------------------
(* First messages. *)

LEMMA SendFirstKeepsInv ==
  ASSUME Inv, NEW p \in Peer, SendFirst(p)
  PROVE  Inv'
<1>1. TypeOK' /\ Put'
  BY DEF SendFirst, Inv, TypeOK, Put, tables, owner, history
<1> QED
  BY <1>1, QuietStep DEF SendFirst, Inv, TypeOK, Carried, owner, history, tables

LEMMA OpenNotKeepsInv ==
  ASSUME Inv, NEW p \in Peer, OpenNot(p)
  PROVE  Inv'
<1>1. TypeOK' /\ Put'
  BY DEF OpenNot, Arrives, Inv, TypeOK, Put, tables, owner, history
<1> QED
  BY <1>1, QuietStep DEF OpenNot, Arrives, Inv, TypeOK, Carried, owner, history, tables

LEMMA OpenFirstKeepsInv ==
  ASSUME Inv, NEW p \in Peer, OpenFirst(p)
  PROVE  Inv'
<1>1. PICK k \in holds[p] :
        /\ k \in kept \cup {NoKey}
        /\ opened' = opened \cup {<<k, p>>}
        /\ erasing' = k
  BY DEF OpenFirst
<1>2. /\ mail' = mail \ {p}
      /\ UNCHANGED <<listed, rows, used, put, at, got, kept, holds, given, stops>>
  BY DEF OpenFirst, Arrives, tables
<1>3. k \in Ids \cup {NoKey}
  BY <1>1 DEF Inv, TypeOK
<1>4. TypeOK' /\ Put'
  BY <1>1, <1>2, <1>3 DEF Inv, TypeOK, Put
<1>5. Locked' /\ Carried' /\ Spent' /\ HandedOnce' /\ Built' /\ Erased'
  BY <1>1, <1>2 DEF Inv, Locked, Carried, Spent, HandedOnce, Built, Erased, GivenTo
<1>6. Came'
  BY <1>1, <1>2 DEF Inv, Built, Came, GivenTo
<1> QED
  BY <1>4, <1>5, <1>6 DEF Inv

LEMMA RemovePreKeyKeepsInv ==
  ASSUME Inv, RemovePreKey
  PROVE  Inv'
<1>1. /\ kept' = kept \ {erasing} /\ erasing' = NoKey /\ erasing # NoKey
      /\ UNCHANGED <<listed, rows, used, put, at, got, holds, mail, given, opened, stops>>
  BY DEF RemovePreKey, tables, peers, history
<1>2. TypeOK' /\ Put'
  BY <1>1 DEF Inv, TypeOK, Put
<1>3. Locked' /\ Carried' /\ Spent' /\ HandedOnce' /\ Built' /\ Came'
  BY <1>1 DEF Inv, Locked, Carried, Spent, HandedOnce, Built, Came, GivenTo
<1>4. Erased'
  BY <1>1 DEF Inv, Erased
<1> QED
  BY <1>2, <1>3, <1>4 DEF Inv

-----------------------------------------------------------------------------
(* Stops. *)

LEMMA OwnerStopsKeepsInv ==
  ASSUME Inv, OwnerStops
  PROVE  Inv'
<1>1. TypeOK' /\ Put'
  BY DEF OwnerStops, Inv, TypeOK, Put, tables, peers
<1> QED
  BY <1>1, QuietStep DEF OwnerStops, Inv, TypeOK, Carried, peers, tables

LEMMA ServerStopsKeepsInv ==
  ASSUME Inv, ServerStops
  PROVE  Inv'
<1>1. /\ \A r \in Request :
           /\ at'[r] = IF at[r] \in {"node", "pick", "commit"} THEN "done" ELSE at[r]
           /\ got'[r] = IF at[r] = "commit" THEN NoKey ELSE got[r]
      /\ UNCHANGED <<listed, rows, used, kept, erasing, holds, mail, given, opened>>
  BY DEF ServerStops, tables, owner, peers
<1>2. Put'
  <2>1. DOMAIN put = 1 .. MaxPuts
    BY DEF Inv, TypeOK
  <2>2. \A n \in 1 .. MaxPuts : put'[n].at \in {"new", "done"}
    BY <2>1 DEF ServerStops, Inv, TypeOK
  <2> QED BY <2>2 DEF Put
<1>3. put' \in [1 .. MaxPuts -> [at : {"new", "node", "key", "done"}, key : Ids \cup {NoKey}]]
  <2>1. put \in [1 .. MaxPuts -> [at : {"new", "node", "key", "done"}, key : Ids \cup {NoKey}]]
    BY DEF Inv, TypeOK
  <2>2. put' = [n \in 1 .. MaxPuts |->
                 IF put[n].at = "new" THEN put[n] ELSE [put[n] EXCEPT !.at = "done"]]
    <3>1. DOMAIN put = 1 .. MaxPuts
      BY <2>1
    <3> QED BY <3>1 DEF ServerStops
  <2>3. ASSUME NEW n \in 1 .. MaxPuts
        PROVE  put'[n] \in [at : {"new", "node", "key", "done"}, key : Ids \cup {NoKey}]
    <3>1. put[n] \in [at : {"new", "node", "key", "done"}, key : Ids \cup {NoKey}]
      BY <2>1
    <3>2. put'[n] = IF put[n].at = "new" THEN put[n] ELSE [put[n] EXCEPT !.at = "done"]
      BY <2>2
    <3> QED BY <3>1, <3>2
  <2> QED BY <2>2, <2>3
<1>4. /\ at' \in [Request -> {"new", "node", "pick", "commit", "answer", "done"}]
      /\ got' \in [Request -> Ids \cup {NoKey}]
      /\ stops' \in Nat
  BY DEF ServerStops, Inv, TypeOK
<1>5. TypeOK'
  BY <1>1, <1>3, <1>4 DEF Inv, TypeOK
<1> QED
  BY <1>1, <1>2, <1>5, QuietStep DEF Inv, Carried, tables

-----------------------------------------------------------------------------
LEMMA InvInit == Init => Inv
<1> SUFFICES ASSUME Init PROVE Inv
  OBVIOUS
<1>1. rows = <<>> /\ rows \in Seq(Ids) /\ DOMAIN rows = {} /\ Range(rows) = {}
  BY DEF Init, Range
<1>2. TypeOK
  BY <1>1 DEF Init, TypeOK
<1>3. Put /\ Locked /\ Carried /\ Spent /\ HandedOnce /\ Built /\ Came /\ Erased
  BY DEF Init, Put, Locked, Carried, Spent, HandedOnce, Built, Came, Erased
<1> QED
  BY <1>2, <1>3 DEF Inv

LEMMA InvNext == Inv /\ [Next]_vars => Inv'
<1> SUFFICES ASSUME Inv, [Next]_vars PROVE Inv'
  OBVIOUS
<1>1. CASE UNCHANGED vars
  <2>1. UNCHANGED <<listed, rows, used, put, at, got, kept, erasing, holds, mail, given, opened, stops>>
    BY <1>1 DEF vars, tables, owner, peers, history
  <2>2. TypeOK' /\ Put'
    BY <2>1 DEF Inv, TypeOK, Put
  <2> QED BY <2>1, <2>2, QuietStep DEF Inv, Carried, tables
<1>2. ASSUME NEW n \in 1 .. MaxPuts, Publish(n) \/ UpsertNode(n) \/ InsertKey(n) PROVE Inv'
  BY <1>2, PublishKeepsInv, UpsertNodeKeepsInv, InsertKeyKeepsInv
<1>3. ASSUME NEW r \in Request,
             \/ AskForBundle(r) \/ SelectNode(r) \/ Pick(r) \/ PickNone(r)
             \/ MarkUsed(r) \/ AnswerLost(r) \/ Receive(r)
      PROVE  Inv'
  BY <1>3, AskForBundleKeepsInv, SelectNodeKeepsInv, PickKeepsInv, PickNoneKeepsInv,
     MarkUsedKeepsInv, AnswerLostKeepsInv, ReceiveKeepsInv
<1>4. ASSUME NEW p \in Peer, SendFirst(p) \/ OpenFirst(p) \/ OpenNot(p) PROVE Inv'
  BY <1>4, SendFirstKeepsInv, OpenFirstKeepsInv, OpenNotKeepsInv
<1>5. CASE RemovePreKey \/ OwnerStops \/ ServerStops
  BY <1>5, RemovePreKeyKeepsInv, OwnerStopsKeepsInv, ServerStopsKeepsInv
<1> QED
  BY <1>1, <1>2, <1>3, <1>4, <1>5 DEF Next

LEMMA AlwaysInv == Spec => []Inv
  BY InvInit, InvNext, PTL DEF Spec

\* The tables keep their shape and a key has one row (one_time_prekeys is unique).
THEOREM DirectoryTypeCorrect == Spec => []TypeOK
<1>1. Inv => TypeOK
  BY DEF Inv
<1> QED
  BY <1>1, AlwaysInv, PTL

\* get_bundle gives a key out once, whatever runs at once or stops.
THEOREM KeyHandedOnce == Spec => []HandedOnce
<1>1. Inv => HandedOnce
  BY DEF Inv
<1> QED
  BY <1>1, AlwaysInv, PTL

\* The owner has the key of a peer's bundle until that peer's first message used it: a key
\* that is gone opened a session, and only the peer that was given the key could open it.
THEOREM FirstMessageOpens == Spec => []FirstOpens
<1>1. Inv => FirstOpens
  <2>1. SUFFICES ASSUME Inv, NEW p \in Peer, NEW k \in holds[p] \ {NoKey}, k \notin kept
                 PROVE  <<k, p>> \in opened
    BY DEF FirstOpens
  <2>2. k \in Ids
    BY <2>1 DEF Inv, TypeOK
  <2>3. PICK q \in Peer : <<k, q>> \in opened
    BY <2>1, <2>2 DEF Inv, Erased
  <2>4. PICK n \in 1 .. MaxGets : <<k, <<q, n>>>> \in given
    BY <2>1, <2>3 DEF Inv, Came, GivenTo
  <2>5. PICK m \in 1 .. MaxGets : <<k, <<p, m>>>> \in given
    BY <2>1 DEF Inv, Built, GivenTo
  <2>6. <<k, <<q, n>>>> = <<k, <<p, m>>>>
    BY <2>1, <2>4, <2>5 DEF Inv, HandedOnce
  <2>7. q = p
    BY <2>6
  <2> QED BY <2>3, <2>7
<1> QED
  BY <1>1, AlwaysInv, PTL
-----------------------------------------------------------------------------
(* Directory and clients implement OneTimeKeys. *)

\* Two of the variables of the promise.
GivenPairs == {<<g[1], g[2][1]>> : g \in given}
Sessions == {o \in opened : o[1] # NoKey}

LEMMA PairOfGiven ==
  ASSUME Inv, NEW k, NEW p
  PROVE  <<k, p>> \in GivenPairs <=> GivenTo(k, p)
<1>1. ASSUME NEW g \in given PROVE g = <<g[1], <<g[2][1], g[2][2]>>>> /\ g[2][2] \in 1 .. MaxGets
  BY DEF Inv, TypeOK, Request
<1>2. GivenTo(k, p) => <<k, p>> \in GivenPairs
  BY DEF GivenTo, GivenPairs
<1>3. ASSUME <<k, p>> \in GivenPairs PROVE GivenTo(k, p)
  <2>1. PICK g \in given : <<k, p>> = <<g[1], g[2][1]>>
    BY <1>3 DEF GivenPairs
  <2>2. g = <<k, <<p, g[2][2]>>>> /\ g[2][2] \in 1 .. MaxGets
    BY <2>1, <1>1
  <2>3. <<k, <<p, g[2][2]>>>> \in given
    BY <2>2
  <2> QED BY <2>2, <2>3 DEF GivenTo
<1> QED
  BY <1>2, <1>3

LEMMA InsertKeyPublishes ==
  ASSUME Inv, NEW n \in 1 .. MaxPuts, InsertKey(n)
  PROVE  Promise!Next
<1>1. put[n].key \in Ids /\ Range(rows') = Range(rows) \cup {put[n].key}
  BY InsertKeyKeepsInv
<1>2. UNCHANGED <<given, opened>>
  BY DEF InsertKey, history
<1>3. Promise!Publish(put[n].key)
  BY <1>1, <1>2 DEF Promise!Publish
<1> QED
  BY <1>1, <1>3 DEF Promise!Next

LEMMA MarkUsedGives ==
  ASSUME Inv, NEW r \in Request, MarkUsed(r)
  PROVE  Promise!Next
<1>1. got[r] \in Range(rows) /\ \A g \in given : g[1] # got[r]
  BY MarkUsedKeepsInv
<1>2. got[r] \in Ids /\ r[1] \in Peer
  BY <1>1, RequestPair DEF Inv, TypeOK, Range
<1>3. given' = given \cup {<<got[r], r>>} /\ UNCHANGED <<rows, opened>>
  BY DEF MarkUsed
<1>4. GivenPairs' = GivenPairs \cup {<<got[r], r[1]>>}
  <2>1. ASSUME NEW x \in GivenPairs' PROVE x \in GivenPairs \cup {<<got[r], r[1]>>}
    <3>1. PICK g \in given' : x = <<g[1], g[2][1]>>
      BY DEF GivenPairs
    <3>2. g \in given \/ g = <<got[r], r>>
      BY <1>3
    <3> QED BY <3>1, <3>2 DEF GivenPairs
  <2>2. <<got[r], r[1]>> \in GivenPairs'
    <3>1. <<got[r], r>> \in given'
      BY <1>3
    <3>2. <<got[r], r>>[1] = got[r] /\ <<got[r], r>>[2][1] = r[1]
      OBVIOUS
    <3> QED BY <3>1, <3>2 DEF GivenPairs
  <2>3. GivenPairs \subseteq GivenPairs'
    BY <1>3 DEF GivenPairs
  <2> QED BY <2>1, <2>2, <2>3
<1>5. \A q \in Peer : <<got[r], q>> \notin GivenPairs
  BY <1>1 DEF GivenPairs
<1>6. Promise!Give(got[r], r[1])
  BY <1>1, <1>3, <1>4, <1>5 DEF Promise!Give, GivenPairs
<1> QED
  BY <1>2, <1>6 DEF Promise!Next

LEMMA OpenFirstOpens ==
  ASSUME Inv, NEW p \in Peer, OpenFirst(p)
  PROVE  Promise!Next \/ UNCHANGED Promise!vars
<1>1. PICK k \in holds[p] :
        /\ <<k, p>> \notin opened
        /\ k \in kept \cup {NoKey}
        /\ opened' = opened \cup {<<k, p>>}
  BY DEF OpenFirst
<1>2. UNCHANGED <<rows, given>>
  BY DEF OpenFirst, Arrives, tables
<1>3. CASE k = NoKey
  BY <1>1, <1>2, <1>3 DEF Promise!vars, GivenPairs, Sessions
<1>4. CASE k # NoKey
  <2>1. k \in Ids
    BY <1>1, <1>4 DEF Inv, TypeOK
  <2>2. GivenTo(k, p)
    BY <1>4 DEF Inv, Built
  <2>3. ASSUME NEW q \in Peer, <<k, q>> \in opened PROVE FALSE
    <3>1. PICK n \in 1 .. MaxGets : <<k, <<q, n>>>> \in given
      BY <2>3, <1>4 DEF Inv, Came, GivenTo
    <3>2. PICK m \in 1 .. MaxGets : <<k, <<p, m>>>> \in given
      BY <2>2 DEF GivenTo
    <3>3. <<k, <<q, n>>>> = <<k, <<p, m>>>>
      BY <3>1, <3>2 DEF Inv, HandedOnce
    <3>4. q = p
      BY <3>3
    <3> QED BY <2>3, <3>4, <1>1
  <2>4. Sessions' = Sessions \cup {<<k, p>>}
    BY <1>1, <1>4 DEF Sessions
  <2>5. <<k, p>> \in GivenPairs
    BY <2>2, PairOfGiven
  <2>6. Promise!Open(k, p)
    BY <1>2, <2>3, <2>4, <2>5 DEF Promise!Open, Sessions, GivenPairs
  <2> QED BY <2>1, <2>6 DEF Promise!Next
<1> QED
  BY <1>3, <1>4

LEMMA RefinesNext == Inv /\ [Next]_vars => [Promise!Next]_(Promise!vars)
<1> SUFFICES ASSUME Inv, [Next]_vars PROVE Promise!Next \/ UNCHANGED Promise!vars
  OBVIOUS
<1>1. ASSUME UNCHANGED <<rows, given, opened>> PROVE UNCHANGED Promise!vars
  BY <1>1 DEF Promise!vars, GivenPairs, Sessions
<1>2. CASE UNCHANGED vars
  BY <1>1, <1>2 DEF vars, tables, history
<1>3. ASSUME NEW n \in 1 .. MaxPuts, Publish(n) \/ UpsertNode(n) \/ InsertKey(n)
      PROVE  Promise!Next \/ UNCHANGED Promise!vars
  BY <1>1, <1>3, InsertKeyPublishes DEF Publish, UpsertNode, tables, history
<1>4. ASSUME NEW r \in Request,
             \/ AskForBundle(r) \/ SelectNode(r) \/ Pick(r) \/ PickNone(r)
             \/ MarkUsed(r) \/ AnswerLost(r) \/ Receive(r)
      PROVE  Promise!Next \/ UNCHANGED Promise!vars
  BY <1>1, <1>4, MarkUsedGives
     DEF AskForBundle, SelectNode, Pick, PickNone, AnswerLost, Receive, tables, history
<1>5. ASSUME NEW p \in Peer, SendFirst(p) \/ OpenFirst(p) \/ OpenNot(p)
      PROVE  Promise!Next \/ UNCHANGED Promise!vars
  BY <1>1, <1>5, OpenFirstOpens DEF SendFirst, OpenNot, tables, history
<1>6. CASE RemovePreKey \/ OwnerStops \/ ServerStops
  BY <1>1, <1>6 DEF RemovePreKey, OwnerStops, ServerStops, tables, history
<1> QED
  BY <1>2, <1>3, <1>4, <1>5, <1>6 DEF Next

LEMMA RefinesInit == Init => Promise!Init
  BY DEF Init, Promise!Init, Range

\* keys.rs with the clients at both ends gives a key to one peer, and it opens one session.
THEOREM DirectoryKeepsPromise == Spec => OneTime
<1>1. Spec => Promise!Init /\ [][Promise!Next]_(Promise!vars)
  BY AlwaysInv, RefinesInit, RefinesNext, PTL DEF Spec
<1> QED
  BY <1>1 DEF OneTime, Promise!Spec
=============================================================================
