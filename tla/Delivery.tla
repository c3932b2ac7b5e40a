------------------------------ MODULE Delivery ------------------------------
(***************************************************************************)
(* What the mesh promises an application: a message put into the network   *)
(* for one node is handed to that node's callback at most once, under the  *)
(* identity of the node that sent it, and to nobody else.  Nothing promises *)
(* that it arrives: the radio loses frames and no layer repeats them.      *)
(***************************************************************************)
EXTENDS Sequences

CONSTANTS
  Node,    \* the nodes of the network
  MsgId    \* the message identifiers, fresh and random in the code

VARIABLES
  msg,     \* msg[m] is the sender and the addressee of m, or Unsent
  inbox    \* inbox[n] is what the application callback of n was called with

Unsent == [src |-> "nobody", dst |-> "nobody"]

TypeOK ==
  /\ msg \in [MsgId -> [src : Node, dst : Node] \cup {Unsent}]
  /\ inbox \in [Node -> Seq([id : MsgId, src : Node])]

Handed(n) == {inbox[n][i].id : i \in DOMAIN inbox[n]}

Init ==
  /\ msg = [m \in MsgId |-> Unsent]
  /\ inbox = [n \in Node |-> << >>]

Submit(m) ==
  /\ msg[m] = Unsent
  /\ \E s, d \in Node : msg' = [msg EXCEPT ![m] = [src |-> s, dst |-> d]]
  /\ UNCHANGED inbox

Deliver(n, m) ==
  /\ msg[m] # Unsent
  /\ msg[m].dst = n
  /\ m \notin Handed(n)
  /\ inbox' = [inbox EXCEPT ![n] = Append(@, [id |-> m, src |-> msg[m].src])]
  /\ UNCHANGED msg

Next == \E m \in MsgId : Submit(m) \/ \E n \in Node : Deliver(n, m)

Spec == Init /\ [][Next]_<<msg, inbox>>
=============================================================================
