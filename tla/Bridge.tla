------------------------------- MODULE Bridge -------------------------------
(***************************************************************************)
(* The Bluetooth bridge (ble_bridge.c).  Two tasks share the list of       *)
(* subscribed phones, and no lock: NimBLE's host task, which runs every    *)
(* handler and alone writes the list, and the radio's interrupt task,      *)
(* which walks it to hand a message of the mesh to every phone.            *)
(*                                                                         *)
(* The two writes of subscriber_add, and those of subscriber_remove, are   *)
(* plain stores that the compiler may swap: both orders are here.          *)
(*                                                                         *)
(* Init, Next and Spec carry the component's name: a module can extend     *)
(* this one and Radio, the other driver of the node.                       *)
(***************************************************************************)
EXTENDS Naturals, FiniteSets

CONSTANTS
  MaxConnections,   \* CONFIG_BT_NIMBLE_MAX_CONNECTIONS, 3
  MaxSubscribers    \* BLE_MAX_SUBSCRIBERS, 3

ASSUME RoomAssumption ==
  /\ MaxConnections \in Nat \ {0}
  /\ MaxSubscribers \in Nat
  /\ MaxConnections <= MaxSubscribers

VARIABLES
  conns, count,        \* s_subscriber_conns, s_subscriber_count
  \* NimBLE
  links,               \* the handles of open connections
  notify,              \* those that have notifications of TX switched on
  synced, advertising,
  \* the host task
  host, whom,          \* where it is, and the phone its event is about
  \* the interrupt task
  fan, i,              \* where ble_bridge_on_mesh_rx is
  got,                 \* got[h]: how often h was notified of this message
  \* history
  stayed,              \* the phones on the list from the first to the last step of the fan-out
  excuses,             \* what happened meanwhile: "left", "joined", "no buffer"
  gaveUp               \* NimBLE refused the node an address, or what it last asked for

list       == <<conns, count>>
nimble     == <<links, notify, synced, advertising>>
fanOut     == <<fan, i, got>>
history    == <<stayed, excuses>>
bridgeVars == <<list, nimble, host, whom, fanOut, history, gaveUp>>

\* Connection handles; the array starts with zeros, and 0 is one of them.
Conn == 0 .. MaxConnections - 1
Slot == 0 .. MaxSubscribers - 1

Listed == {conns[j] : j \in 0 .. count - 1}

\* What happened during the fan-out under way, if one is.
Excuse(what) == excuses' = IF fan = "idle" THEN {} ELSE excuses \cup {what}

Adding == host \in {"add", "grow", "fill"}
Removing == host \in {"remove", "shrink", "move"}

-----------------------------------------------------------------------------
(* ble_advertise, at the end of several handlers. *)

CanStart == synced /\ Cardinality(links) < MaxConnections

\* It starts if it can; when NimBLE refuses the fields or the start, that is logged.
Advertise ==
  /\ host = "advertise"
  /\ host' = "idle"
  /\ \/ advertising' = (advertising \/ CanStart) /\ gaveUp' = FALSE
     \/ CanStart /\ advertising' = advertising /\ gaveUp' = ~advertising
  /\ UNCHANGED <<list, links, notify, synced, whom, fanOut, history>>

(* Events, each handled to its end before the next one. *)

\* ble_app_on_sync returns early when the node gets no address.
Sync ==
  /\ host = "idle"
  /\ ~synced
  /\ links = {}
  /\ synced' = TRUE
  /\ \/ host' = "advertise" /\ gaveUp' = gaveUp
     \/ host' = "idle" /\ gaveUp' = TRUE
  /\ UNCHANGED <<list, links, notify, advertising, whom, fanOut, history>>

\* ble_app_on_reset only logs: the connections end one by one, then comes Sync.
Reset ==
  /\ host = "idle"
  /\ synced
  /\ synced' = FALSE
  /\ advertising' = FALSE
  /\ gaveUp' = FALSE
  /\ UNCHANGED <<list, links, notify, host, whom, fanOut, history>>

\* The controller stops advertising when a connection is made ...
Connect(h) ==
  /\ host = "idle"
  /\ advertising
  /\ h \notin links
  /\ links' = links \cup {h}
  /\ advertising' = FALSE
  /\ host' = "advertise"
  /\ UNCHANGED <<list, notify, synced, whom, fanOut, history, gaveUp>>

\* ... when one fails, and when it ends by itself (ADV_COMPLETE).
IgnoreAdvComplete == host' = "idle"
AdvertiseAgain == host' = "advertise"

AdvertisingEnds ==
  /\ host = "idle"
  /\ advertising
  /\ advertising' = FALSE
  /\ AdvertiseAgain
  /\ UNCHANGED <<list, links, notify, synced, whom, fanOut, history, gaveUp>>

Leaves(h) ==
  /\ host' = "remove"
  /\ whom' = h
  /\ notify' = notify \ {h}
  /\ stayed' = stayed \ {h}
  /\ IF h \in notify THEN Excuse("left") ELSE excuses' = excuses

Disconnect(h) ==
  /\ host = "idle"
  /\ h \in links
  /\ links' = links \ {h}
  /\ Leaves(h)
  /\ UNCHANGED <<list, synced, advertising, fanOut, gaveUp>>

Unsubscribe(h) ==
  /\ host = "idle"
  /\ synced
  /\ h \in links
  /\ Leaves(h)
  /\ UNCHANGED <<list, links, synced, advertising, fanOut, gaveUp>>

\* The event may come again for a phone that is on the list.
Subscribe(h) ==
  /\ host = "idle"
  /\ synced
  /\ h \in links
  /\ notify' = notify \cup {h}
  /\ host' = "add"
  /\ whom' = h
  /\ Excuse("joined")
  /\ UNCHANGED <<list, links, synced, advertising, fanOut, stayed, gaveUp>>

\* gatt_svr_chr_access: the host task is busy until mesh_send returns.
Write(h) ==
  /\ host = "idle"
  /\ synced
  /\ h \in links
  /\ host' = "mesh_send"
  /\ UNCHANGED <<list, nimble, whom, fanOut, history, gaveUp>>

MeshSendReturns ==
  /\ host = "mesh_send"
  /\ host' = "idle"
  /\ UNCHANGED <<list, nimble, whom, fanOut, history, gaveUp>>

-----------------------------------------------------------------------------
(* subscriber_add and subscriber_remove, one store per step. *)

\* A disconnection ends with ble_advertise, a change of subscription does not.
ListDone ==
  /\ host' = IF whom \in links THEN "idle" ELSE "advertise"
  /\ whom' = 0

NeverThere == FALSE
AlreadyThere == whom \in Listed

NothingToAdd ==
  /\ host = "add"
  /\ AlreadyThere \/ count = MaxSubscribers
  /\ ListDone
  /\ UNCHANGED list

Append ==
  \/ /\ host = "add"
     /\ ~AlreadyThere /\ count < MaxSubscribers
     /\ \/ /\ conns' = [conns EXCEPT ![count] = whom]
           /\ host' = "grow"
           /\ UNCHANGED <<count, whom>>
        \/ /\ count' = count + 1
           /\ host' = "fill"
           /\ UNCHANGED <<conns, whom>>
  \/ /\ host = "grow"
     /\ count' = count + 1
     /\ ListDone
     /\ UNCHANGED conns
  \/ /\ host = "fill"
     /\ conns' = [conns EXCEPT ![count - 1] = whom]
     /\ ListDone
     /\ UNCHANGED count

CountDown == count' = count - 1
Unlisted == count' = count

NothingToRemove ==
  /\ host = "remove"
  /\ whom \notin Listed
  /\ ListDone
  /\ Unlisted
  /\ UNCHANGED conns

\* The last entry moves to the place of the one that goes.
HoleToLast(j, last) == conns' = conns
LastToHole(j, last) == conns' = [conns EXCEPT ![j] = conns[last]]

MoveLast ==
  \/ /\ host = "remove"
     /\ \E j \in 0 .. count - 1 :
          /\ conns[j] = whom
          /\ \/ /\ LastToHole(j, count - 1)
                /\ host' = "shrink"
                /\ UNCHANGED <<count, whom>>
             \/ /\ CountDown
                /\ host' = "move"
                /\ UNCHANGED <<conns, whom>>
  \/ /\ host = "shrink"
     /\ CountDown
     /\ ListDone
     /\ UNCHANGED conns
  \/ /\ host = "move"
     /\ \E j \in 0 .. count : conns[j] = whom /\ LastToHole(j, count)
     /\ ListDone
     /\ UNCHANGED count

SubscriberAdd == NothingToAdd \/ Append
SubscriberRemove == NothingToRemove \/ MoveLast

ChangeList ==
  /\ SubscriberAdd \/ SubscriberRemove
  /\ UNCHANGED <<nimble, fanOut, history, gaveUp>>

-----------------------------------------------------------------------------
(* ble_bridge_on_mesh_rx, called by the interrupt task. *)

OnMeshRx ==
  /\ fan = "idle"
  /\ count # 0
  /\ fan' = "test"
  /\ stayed' = IF Adding THEN notify \ {whom} ELSE notify
  /\ excuses' = (IF Removing THEN {"left"} ELSE {}) \cup (IF Adding THEN {"joined"} ELSE {})
  /\ UNCHANGED <<list, nimble, host, whom, i, got, gaveUp>>

SkipsLast == i + 1 < count
More == i < count

Test ==
  /\ fan = "test"
  /\ fan' = IF More THEN "send" ELSE "done"
  /\ UNCHANGED <<list, nimble, host, whom, i, got, history, gaveUp>>

Return ==
  /\ fan = "done"
  /\ fan' = "idle"
  /\ i' = 0
  /\ got' = [h \in Conn |-> 0]
  /\ stayed' = {}
  /\ excuses' = {}
  /\ UNCHANGED <<list, nimble, host, whom, gaveUp>>

\* ble_gatts_notify_custom: it fails when the connection is gone.
Notify ==
  /\ fan = "send"
  /\ got' = IF conns[i] \in links THEN [got EXCEPT ![conns[i]] = @ + 1] ELSE got
  /\ i' = i + 1
  /\ fan' = "test"
  /\ UNCHANGED <<list, nimble, host, whom, history, gaveUp>>

\* ble_hs_mbuf_from_flat found no buffer, and the loop continues.
TrySamePhone == i' = i
NextPhone == i' = i + 1

NoBuffer ==
  /\ fan = "send"
  /\ NextPhone
  /\ fan' = "test"
  /\ Excuse("no buffer")
  /\ UNCHANGED <<list, nimble, host, whom, got, stayed, gaveUp>>

-----------------------------------------------------------------------------
BridgeInit ==
  /\ conns = [j \in Slot |-> 0]
  /\ count = 0
  /\ links = {}
  /\ notify = {}
  /\ synced = FALSE
  /\ advertising = FALSE
  /\ host = "idle"
  /\ whom = 0
  /\ fan = "idle"
  /\ i = 0
  /\ got = [h \in Conn |-> 0]
  /\ stayed = {}
  /\ excuses = {}
  /\ gaveUp = FALSE

HostStep == Advertise \/ ChangeList \/ MeshSendReturns
FanOutStep == Test \/ Notify \/ NoBuffer \/ Return

BridgeNext ==
  \/ HostStep
  \/ Sync
  \/ Reset
  \/ AdvertisingEnds
  \/ \E h \in Conn :
       \/ Connect(h)
       \/ Disconnect(h)
       \/ Subscribe(h)
       \/ Unsubscribe(h)
       \/ Write(h)
  \/ OnMeshRx
  \/ FanOutStep

\* Both tasks run on; nothing is assumed of phones, controller and mesh.
BridgeSpec == BridgeInit /\ [][BridgeNext]_bridgeVars /\ WF_bridgeVars(HostStep) /\ WF_bridgeVars(FanOutStep)

-----------------------------------------------------------------------------
\* The list stays within its array, and what the tasks keep within its range.
BridgeTypeOK ==
  /\ conns \in [Slot -> Conn]
  /\ count \in 0 .. MaxSubscribers
  /\ notify \subseteq links /\ links \subseteq Conn
  /\ {synced, advertising, gaveUp} \subseteq BOOLEAN
  /\ host \in {"idle", "advertise", "mesh_send", "add", "grow", "fill", "remove", "shrink", "move"}
  /\ whom \in Conn
  /\ fan \in {"idle", "test", "send", "done"}
  /\ i \in 0 .. MaxSubscribers
  /\ fan = "send" => i \in Slot
  /\ got \in [Conn -> Nat]
  /\ stayed \subseteq Conn
  /\ excuses \subseteq {"left", "joined", "no buffer"}

\* Between two events the list is exactly the phones that have notifications on, each
\* once: repeated events add none, a connection that ends leaves none behind, and no
\* phone is refused although the array is bounded (subscriber_add).
Mirrors ==
  ~(Adding \/ Removing) => Listed = notify /\ count = Cardinality(notify)

\* "zeby wiadomosc z mesh trafiala do wszystkich podlaczonych telefonow" (ble_bridge.c):
\* a phone that is subscribed from the beginning of a fan-out to its end is notified.
\* It misses the message only when another phone left meanwhile, its place being taken
\* by the last entry, or a buffer was missing; and gets it twice only when another left
\* or joined meanwhile.
Reached ==
  fan = "done" =>
    \A h \in stayed :
      /\ got[h] = 0 => excuses \cap {"left", "no buffer"} # {}
      /\ got[h] > 1 => excuses \cap {"left", "joined"} # {}

\* "inaczej po pierwszym udanym polaczeniu wezel staje sie niewidoczny dla kolejnych
\* telefonow" (ble_bridge.c): with a connection to spare the node advertises again,
\* after a connection, a failed one, a disconnection, and a reset of the stack.  The exception
\* is that NimBLE refused it when it last asked: the bridge logs that, and asks again only
\* when the next of these events comes.
Visible ==
  []<>(advertising \/ ~synced \/ Cardinality(links) = MaxConnections \/ gaveUp)

\* The interrupt task comes back to the radio, also when phones come and go or buffers
\* are missing all the time.
FanOutEnds == fan # "idle" ~> fan = "idle"
=============================================================================
