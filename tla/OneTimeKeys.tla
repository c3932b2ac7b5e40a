---------------------------- MODULE OneTimeKeys ----------------------------
(***************************************************************************)
(* What a directory of one-time keys promises: a key its owner published   *)
(* is given to one peer at most, and opens one session, with that peer.    *)
(***************************************************************************)
CONSTANTS Key, Peer

VARIABLES
  public,     \* the keys in the directory
  given,      \* which key was given to which peer
  sessions    \* the sessions opened: with which key, with which peer

vars == <<public, given, sessions>>

Init ==
  /\ public = {}
  /\ given = {}
  /\ sessions = {}

Publish(k) ==
  /\ public' = public \cup {k}
  /\ UNCHANGED <<given, sessions>>

Give(k, p) ==
  /\ k \in public
  /\ \A q \in Peer : <<k, q>> \notin given
  /\ given' = given \cup {<<k, p>>}
  /\ UNCHANGED <<public, sessions>>

Open(k, p) ==
  /\ <<k, p>> \in given
  /\ \A q \in Peer : <<k, q>> \notin sessions
  /\ sessions' = sessions \cup {<<k, p>>}
  /\ UNCHANGED <<public, given>>

Next ==
  \E k \in Key :
    \/ Publish(k)
    \/ \E p \in Peer : Give(k, p) \/ Open(k, p)

Spec == Init /\ [][Next]_vars
=============================================================================
