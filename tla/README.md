# PabianiceMeshOS in TLA+

Models, model-checking runs and machine-checked proofs for PabianiceMeshOS: the
ESP32-S3 mesh firmware, its servers and its clients. Paths below are relative to the
repository.

## 1. The system

| Part | State it keeps | Operations | Talks to |
|---|---|---|---|
| Radio driver, `firmware/components/radio` | SX1262 mode, buffer and flags; `s_tx_done_sem`; notification of `irq_task` | `sx1262_send`, `irq_task`/`handle_irq`, `dio1_isr`, `sx1262_start_rx` | called by the mesh; calls `on_radio_rx` from its interrupt task |
| Mesh routing, `firmware/components/mesh` | identifier ring (`dedup.c`), presence table (`presence.c`), rate table, `s_rx_cb` | `on_radio_rx`, `mesh_send`, `mesh_poll`, `mesh_set_rx_callback`, `mesh_init` | radio, crypto, application |
| Key management, `firmware/components/crypto` | identity, signed pre-key, one-time pre-keys, `next_pk_id`, sessions, all in NVS | `pcrypto_init`, `pcrypto_local_bundle`, `pcrypto_process_bundle`, `pcrypto_encrypt`, `pcrypto_decrypt` | libsignal-protocol-c (external), NVS |
| Bluetooth bridge, `firmware/components/ble` | list of subscribed phones | GAP and GATT events, `ble_bridge_on_mesh_rx` | mesh, NimBLE (external) |
| Application, `firmware/main`, `components/board` | none of its own | boot order, beacon loop, pin setup | all of the above |
| Key directory and mailbox, `server` | PostgreSQL tables, Redis counters | publish and fetch bundles, submit, poll, acknowledge, block, expire | desktop client |
| Desktop client, `client/desktop` | the firmware's key store on a host shim | send, poll once, publish keys | server |
| Pabianice OS server, `pabianice-os/server` | users, sessions, channels, messages, settings | log in/out, manage users and channels, post, list, expire | admin panel |
| Web client, admin panel, website, documents | presentation only | | |

Three tasks of the firmware run on two cores: the radio's interrupt task (every received
frame, with everything `on_radio_rx` does: decryption, the application callback, relays),
the main task (beacons, test messages) and the Bluetooth host task (messages from phones).
Nothing but libsignal's own lock separates them. This, the half-duplex radio, the lossy
network with several paths, power loss between writes to NVS and writes that fail, concurrent
requests to the servers, and several processes of the desktop client on one data directory are
what is hard here; `PROJECT.json` lists every hazard at its line.

What makes each part correct:

* radio: a call returns; a call that reports success has sent its frame; an event of
  the chip is served;
* mesh: a message reaches the application at most once and says truthfully who sent
  it; a node repeats a message once; floods end and stay within the TTL; the rate
  limit holds;
* identifier ring: it is a window over the most recent new identifiers;
* keys: a one-time key serves one session; a key that was handed out is never replaced
  under the same identifier; an identity is complete or absent;
* bridge: the list of subscribers is exactly the phones that subscribed, a phone that stays
  gets a message once unless others come and go, the node stays visible;
* sessions: a position of a chain encrypts one message and opens one; the identity key of
  a peer gives way to no other;
* directory and mailbox: a pre-key is given to one peer and opens one session with it;
  a message is shown once at most and not lost before it was shown or its time is over;
* Pabianice OS: a password reset ends every session; what a request does its caller was
  allowed to do.

## 2. The modules

| Module | Models | Kind |
|---|---|---|
| `Delivery` | what routing promises an application | abstract specification |
| `Mesh`, `MeshMC` | `mesh.c`, `presence.c`, `pkt.c`, and `dedup.c` as a window; small networks for TLC | detailed specification, a network of nodes |
| `MeshProofs` | type correctness; `Mesh` implements `Delivery`; hops, relays, rates and tables | proofs |
| `Dedup` | `dedup.c` step by step, with its concurrent callers | detailed specification |
| `DedupProofs` | the ring is a window until two calls write at once | proofs |
| `Radio` | `sx1262.c`, one SPI command per step | detailed specification |
| `Keys` | `pcrypto.c` and the callbacks of `store.c`: identity and pre-keys, one write to NVS per step | detailed specification |
| `KeysProofs` | what is handed out is whole, stays, and serves once | proofs |
| `Sessions` | loading, advancing and storing a session; firmware tasks or desktop processes | detailed specification |
| `SessionsProofs` | no message key is used twice, no identity key gives way to another | proofs |
| `Bridge` | `ble_bridge.c`: the host task, the list, the fan-out | detailed specification |
| `DriverProofs` | of both drivers of a node: what a confirmation of `Radio` means; `Bridge` keeps its list and reaches the phones that stay | proofs |
| `Mailbox` | the server's mailbox, blocklist, rate limit and retention, and the desktop clients that read it | detailed specification |
| `MailboxProofs` | nothing is lost, nothing is shown twice, limits end | proofs |
| `OneTimeKeys` | what a directory of one-time keys promises | abstract specification |
| `Directory` | `routes/keys.rs`, statement by statement, with the desktop clients at both ends | detailed specification |
| `DirectoryProofs` | a key is handed out once; `Directory` implements `OneTimeKeys` | proofs |
| `Accounts` | the Pabianice OS server: login, sessions, roles, resets, channels, query by query | detailed specification |
| `AccountsProofs` | resets end sessions; what was done was allowed | proofs |

How they compose. `Mesh` takes the ring of identifiers for a window (what `Dedup` establishes),
a transmission for one that goes out or not (`Radio` says when it does), and a session for one
that encrypts (`Sessions`). `Keys` is how sessions over the mesh begin, `Directory` how those
through the server do, `Sessions` what happens to them afterwards in either place.
`Directory` uses the owner's store as `Keys` leaves it: a key stays until a first message has
used it. `Bridge` starts where the callback of `Mesh` ends. The modules are checked one by one: a
call into another part is a step there, or the steps up to its return, and never depends on more
of the other part's state than is named here. `Radio` alone follows the interrupt task into
`on_radio_rx`, because that is where its hardest behaviour is.

### Mesh and Delivery

`Mesh` runs `on_radio_rx` to its end in one action, because one task runs it and it is
not re-entered. There is an action for every way through the function
(`RxEcho`, `RxLimited`, `RxBeacon`, `RxKeyOverheard`, `RxKeyRequest`, `RxKeyResponse`,
`RxDuplicate`, `RxTransit`, `RxDeliver`, `RxUnopened`), made of the pieces the code is made
of: `Accept` is the rate limit and the presence table, `AcceptData` adds the memory of
identifiers, `Relay` is the flooding at the end. `SendData` and `SendKeyRequest` are
`mesh_send` with and without a session, `SendBeacon` is `mesh_poll`, `Reboot` loses
everything in RAM, and `RebootBeforeCallback` loses power between the ratchet's last
write and the callback. A call of `mesh_send` that fails before it transmits (a ciphertext
too long for a frame) changes nothing that this module keeps.

The tables are sequences from the oldest entry to the newest. In the code they are
arrays with time stamps that evict the smallest one; the order is what the time stamps
are used for. The rate table has a mark `aged`: entries up to it have a window
that is over, and `WindowPasses` moves it.

The air is as the receiver sees it. A transmission reaches any subset of the nodes in
range (`Transmit`); a frame that arrives before the last one was handled replaces it, as in
the chip's buffer. So loss, loss by collision, delay and duplication over several paths
are all there. One frame is pending at a node at a time.

`opened` stands for libsignal: a message key opens its message once and stays used up
over reboots. Decryption may also fail for other reasons (`RxUnopened`).

`Delivery` says: a message that was submitted is handed to its addressee's application
at most once, with its sender. `Mesh` implements it under the identity mapping of
`msg` and `inbox`.

### Dedup

A call of `dedup_check_and_mark` is a step per slot of the scan, two for the copy of the
identifier (half-copied it matches nothing), one for the advance. `Receiver` is the
interrupt task, which may check any identifier again and again; `Senders` are the main and the
Bluetooth task, which mark fresh random identifiers of their own. Nothing locks the ring.
`recent` is a history variable, the identifiers reported new, and `overlapped` another: two calls
were between the end of their scan and the advance of the index at once. `RingIsWindow`
(what `Mesh` relies on) and `AnswersRight` (a call answers as if it had asked the window at its end, so none is
handled twice and none dropped for another) hold until that happens, for any number of callers: scans may overlap
anything. After it a slot is lost and the ring can forget
what it reported new; that is the exception both properties name.

### Radio

The commands to the chip are steps, so that everything can come between two of them.
The chip receives only in mode "rx", transmits only in mode "tx" and falls to standby
afterwards, writes frames received and frames to send into the same place (both base
addresses are 0), keeps flags until they are cleared, and holds DIO1 high while a flag is
up; `notified` is set on a rising edge only. `fifo` and `length` say whose frame the
buffer and the packet length belong to. `UpcallSends` is `on_radio_rx` sending from
within the interrupt task. A wait for the semaphore may time out at any moment at which
the semaphore has not been given; time itself is not modelled.

`disturbed` is a history variable: the tasks whose call began while something was under way
(another call, a reception, an event not served yet), or that something got in the way of before
their frame was sent. `ConfirmedMeansAired` is what is left of "blocks until TxDone": without
a disturbance ESP_OK means that the frame went out. With one it may not: there is one buffer
in the chip and no lock around it.

### Keys

One node's key store and the peers that want sessions with it. Every write of
`identity_ensure_generated` and `generate_pre_key_batch` is a step, and `LosePower` may
come between any two; what was written stays. (With a stricter reading of NVS, in which
a value lasts only from the next `nvs_commit`, there are fewer places to fail, and
the gap between the commit of the first batch and the signed pre-key remains.)
One task serves all requests and messages, so they exclude one another, and `pc`
says what it is doing. The module is about the firmware, where a blob is written or not.

NVS may also refuse a write (it is full). The code that makes keys looks at no result, so each of
these actions has a second outcome that changes nothing in NVS and goes on: `refused` and `lacks`
are history variables that remember which values the properties have to know about. The
two failures that the code does pass on are `StoreRefused` (the session is not stored, and the
key stays) and a refused erasure, after which the session is there and so is the key
(`survived` counts how often that happened, by a loss of power or a refusal). Of `id_pub`, `id_priv` and `spk_1` the
model keeps which boot wrote them: a boot that finds no `id_pub` makes a new identity beside
what an earlier one left. A bundle whose signed pre-key is not signed by the
identity in it is dropped by the peer (`DropBundle`), and nothing opens without the private key that
belongs to it (`Openable`). A key is its identifier and which of the keys generated under it.
`asks`, `offer` and `wire` hold what is on its way from and to each peer, as long as
it likes: staying there for ever is a loss. libsignal is external: it opens a first
message when the one-time key it names is there, stores the session and then removes the
key (`OpenFirst`, `RemovePreKey`), and opens later messages of a session by its base key.
A peer keeps sending first messages, as it does until it has heard an answer.

A loss of power after `id_pub` leaves a node without the rest: `FindIdentity` takes it for
whole at every later boot. `HandedWhole` says that such a node hands nothing out, nor one whose
`reg_id` or `spk_1` was refused, and that what it hands out is of one boot. A refused `id_pub` or
`id_priv` is its exception: `pcrypto_local_bundle` never looks at `id_priv`. `RefillFinds` has two: a
refused `next_pk_id`, which hides the batch from the search, and a batch of which no key was stored;
this is when `pcrypto_local_bundle` answers `ESP_ERR_NOT_FOUND` at its second search.

### Sessions

The records of `store.c` in a slot (`crypto_node_key` folds an identifier of 8 bytes to
one of 4, so several peers may share a slot), and the three calls that load one, let libsignal
advance its copy and store it: `pcrypto_encrypt`, `pcrypto_decrypt`,
`pcrypto_process_bundle`. A call loads under the lock (`Begin...`), stores (`Write`, or
`StoreFails`), and hands its result out (`Return`). A bundle brings an identity key, and so does every
first message, the later ones of a session that has had no answer included (`BeginDecryptFirst`,
`BeginDecryptNext`): libsignal saves it again each time (`SaveIdentity`, or `SaveFails`, which `save_identity`
ignores), for a bundle after the session and for a message before it. `Init` picks the place. In the firmware tasks share one lock and lose
power together, and a blob in NVS is written or not. On the desktop processes share a
data directory, each has a lock of its own and is killed alone, and the host shim
truncates a file before it writes it, be it a session (`Truncate`) or an identity key
(`TruncateIdentity`): whoever is killed in between, or cannot write, leaves it empty. An empty identity
file is one that no key equals, so nobody is trusted under that identifier any more. `first` is a history variable, the
first identity key saved in a slot. A position of a chain is a slot, a
session, a direction and a number; `handed` is the set of those whose message left a call.

### Bridge

Two tasks and no lock. NimBLE's host task runs a handler at a time: `host` says where in it the task is,
and every handler is there (`Connect` and a failed one, `Disconnect`, `Subscribe`, `Unsubscribe`,
`AdvertisingEnds`, `Write`, `Sync`, `Reset`). It alone changes the list, with plain stores,
which the compiler may reorder: `Append` and `MoveLast` have both orders, a store per step. `ble_advertise`
may be refused by NimBLE at either of its two calls, and `ble_app_on_sync` may end before it; both are only
logged, and `gaveUp` remembers that the last attempt ended so, until the next event makes another. The interrupt
task walks the list meanwhile (`Test`, `Notify`, `NoBuffer`). `stayed` is the phones on the list
from the first to the last step of the walk, `excuses` what else happened during it.

### Mailbox

The mailbox of one addressee. A handler of the server is a task that gives way at every
`await`, so each statement of PostgreSQL and each command of Redis is a step:
`submit_message` is `IsBlocked`, `CheckRateLimit`, for the first message of a window `SetEnd`,
and `Insert`, which stands for the notification behind it too (nothing in the repository
listens to it). At any of these the client may close its connection, and the handler's future is dropped
where it is (`ClientGone`; nothing need fail for that); `RedisFails` is an error that `check_rate_limit` passes over,
`ServerStops` drops the requests under way and keeps the tables. `cut` is the senders of whom a request ended
between INCR and EXPIRE. Retention (`Cleanup`) may strike any message
at any moment; in the code it takes all that are over in one statement, here one after
the other.

Any number of readers share one data directory: one that listens and others that poll once.
`poll_once` is a loop over one answer: `PollMessages`, and per message
`Decrypt`, `StoreSession`, `PrintMessage` and, with `--ack`, `AckMessage`, or `CannotDecrypt`. `opened` is
what the ratchets in the data directory have opened, `loaded[r]` the record that a reader has in memory and
will write back whole, whatever another has made of it meanwhile; `torn` remembers the senders of
whom that happened, or whose record was left empty by a reader that stopped or failed while it wrote it (`NotWritten`).
`CannotDecrypt` is possible for any message: one opened before, but also one for
which there is no session, or one that no longer works, or that is no message at all; it is not acknowledged. `AckNotFound`
(retention or another reader was faster) and `Interrupted` leave the rest of an answer;
`Interrupted` is also a request that failed, be it before or after its effect (it may
follow `AckMessage`). A message that was opened, and whose reader was interrupted before it printed it, counts as
stored in `NothingLost`, although it can never be shown: that is how the code has it.

`PollFinds` says that the loop of `listen` comes to every message that is stored, unless from some time on every answer is
full of older ones: of those shown and not acknowledged, and of those that cannot be opened.

### Directory and OneTimeKeys

The keys of one owner, the publications of its client and the requests of its peers, a
statement of PostgreSQL per step. `get_bundle` is `SelectNode`, `Pick` (the subquery: the first row
that is neither used nor locked, which it locks), `MarkUsed` (the end of the
statement), and the answer, which arrives (`Receive`) or not (`AnswerLost`). A client that gave up asks
again while the server is still at work on the request before, so a peer's request is a pair of
a peer and a number. `Publish` offers the lowest key in the owner's store, again
and again, also when it was given out already; `AddIfAbsent` is the `on conflict do nothing`.
`OpenFirst` and `RemovePreKey` are the owner's `pcrypto_decrypt`, between which its process may end.
`OneTimeKeys` has three actions: a key is published, given to one peer, and opens one session
with that peer. `Directory` implements it with `public` the keys of the rows, `given` without the
numbers of the requests, and `sessions` those opened with a key.

### Accounts

Requests run at once, and each query of a handler is a step. A request comes with a token
(`Receive`); `require_session` finds its session and role (`Authenticate`) or not (`Unauthorized`);
then the handler does its queries, or answers `Forbidden`. Handlers of two queries have
two steps: `SetPassword` and `EndSessions`; `Clear` (the threshold of a channel) and
`Insert` or `SelectMessages`; at the login `LogIn` (the password) and `OpenSession`. `Stop`
drops the requests, without a transaction to roll back, and `Start` is
`bootstrap_admin`. Messages, names and settings are left out: what a request did is that
it got to "done".

`best[t]` and `least[t]` are history variables of a request: the highest role that its session
stood for, and the lowest threshold that its operation had, at any moment since it came in (a
session that is gone stands for nothing). `renewed[u]` is the last password whose reset was
answered. `late` marks a session whose login had checked the old password before a reset
and was inserted after it.

## 3. Runs

| Run | Bounds | Shows |
|---|---|---|
| `mesh_flood` | triangle a, b, c; TTL 3; one message; memory of 1; limit 2; 2 outside events | `TypeOK`, `RelayOnce`, `RateBound`, `OneSlotEach`, and `Delivers` (refinement of `Delivery`) |
| `mesh_reach` | one-way ring a→b→c→d→b; TTL 2; two messages; memory of 1; tables of 1, limit 1; 2 outside events | `HopBound`, and `FloodEnds` although the memory is too small |
| `dedup` | ring of 3, 5 identifiers, interrupt task and 2 senders | `TypeOK`, `RingIsWindow`, `AnswersRight` |
| `radio` | interrupt task and one sender | `TypeOK`, `RelayUnconfirmed`, `ConfirmedMeansAired`, `CallsReturn` |
| `radio_deaf` | the same | **violated**: `EventsServed` |
| `keys` | 2 peers; batches of 2, up to 6 identifiers; 2 losses of power, 2 refused writes; 2 sessions per peer | `TypeOK`, `HandedStable`, `HandedWhole`, `UsedOnce`, `RefillFinds` |
| `keys_wedge` | the same, 1 session per peer, no loss of power, no refusal | **violated**: `BundleStarts` |
| `sessions` | 2 callers, 1 slot, 2 identities; 2 sessions of 1 message each way; 2 stops; firmware and desktop | `TypeOK`, `KeyOnce`, `Usable`, `Pinned` |
| `bridge` | 3 connections, 3 places in the list, as configured | `BridgeTypeOK`, `Mirrors`, `Reached`, `Visible`, `FanOutEnds` |
| `mailbox` | 1 sender; 2 readers and 2 messages, or 1 and 3; answers of 2; limit 2; each reader with or without `--ack`; any number of clients that go away, 1 other fault | `TypeOK`, `NothingLost`, `PrintedOnce`, `LimitEnds`, `PollFinds` |
| `directory` | 2 peers with 2 requests each; 3 keys, 3 publications; 2 stops | `TypeOK`, `HandedOnce`, `FirstOpens`, and `OneTime` (refinement of `OneTimeKeys`) |
| `accounts` | 2 accounts, 1 channel, 2 requests at once, 3 in all, 2 sessions, 3 passwords, 1 stop | `TypeOK`, `Revoked`, `Allowed` |

Why these bounds are enough to meet the interesting cases. In a triangle with TTL 3 a
message returns to its sender and to a relay over two paths, each of which may be lost
or late, and 2 outside events allow a message and a reboot of any node at any moment of
the flood, or a message and a beacon or key request that uses up the limit of 2. Radio links
need not be symmetric (antennas, power, noise). In the ring with TTL 2 a message of a must not
reach d, which only a third hop could, and since b, c and d hear one another in a circle,
a message whose identifier is forgotten goes round; memories and tables of one entry
and two messages make every node forget. Five
identifiers go round a ring of three. In `Radio` nothing is bounded but the number of senders:
any number of calls and frames. Three batches of two
keys let a pool run dry twice, with a loss of power in the first batch and in a refill. Two
callers on one slot are all a race needs; a second session shows what an archived one keeps. The
bridge has its real sizes and no bound at all. Two refused writes in `Keys` are
a whole batch, or a key of it and `next_pk_id`, or `id_pub` and `id_priv`. In
`Mailbox` three messages are more than an answer and more than a window lets through, so two that
cannot be opened, or were shown to a reader without `--ack`, bury a third: the exception of `PollFinds`. Two
readers and two messages are what it takes to load a session twice, show a message twice or lose the race for
an acknowledgement. In `Directory` a peer gives up a request once, both peers compete for one row, one
publication comes after the key it repeats was given or used, and a bundle may have no key. In
`Accounts` an administrator's request runs against another one, and three requests let
a demotion, a reset or a changed channel fall between the queries of either; the third password
is a second reset. Requests are alike, and so are callers in `Sessions` and identity keys: TLC uses
the symmetry, no property tells them apart, and these runs check no liveness.

The deadlock check is off where a bound ends the run: `Mesh` with `MaxStimuli` events spent
and the floods over, `Keys` (also a node whose identity is incomplete does nothing more), `Mailbox`,
`Sessions`, `Directory` and `Accounts`. `Dedup`, `Radio` and `Bridge` check for deadlock; senders
of `Dedup` run out of identifiers of their own, the receiver never does.

Bounds that exist in the model only: `MaxStimuli` (outside events); the count in the rate
table, which stops at `RateMax + 1` since the code only compares it with the limit; the
history of transmissions, which counts to 2 (`OneMore`); in `Keys`, `MaxId`, `MaxLosses`, `MaxRefusals` and
`MaxBases` (sessions a peer builds); in `Sessions`, `MaxBuilds`, `MaxSent`, `MaxReceived` and `MaxStops`;
in `Mailbox`, `PerSender`, `MaxFaults` and `MaxLoad` (readers and messages together; the proofs hold for any); in `Directory`, `MaxId`, `MaxPuts`, `MaxGets` and
`MaxStops`; in `Accounts`, `MaxTokens`, `MaxRequests`, `MaxPasswords` and `MaxStops`.

### Fairness

* `Mesh`: weak fairness of `OnRadioRx(n)`: the interrupt task has priority
  `configMAX_PRIORITIES - 2`, above every task of the firmware itself, so a frame that
  was reported is handled. No fairness for sending, reboots or the environment.
* `Radio`: weak fairness of the interrupt task's steps, of the steps within a call of
  `sx1262_send`, and of the end of a transmission. Nobody need send and nothing need be
  heard.
* `Bridge`: weak fairness of the host task's steps within a handler (`HostStep`) and of the interrupt
  task's within a walk (`FanOutStep`): both are tasks of FreeRTOS that run on. Nothing is assumed of
  phones, of the controller or of how many messages come. `mesh_send`
  returns (`Radio!CallsReturn`), which is what `MeshSendReturns` within `HostStep` uses.
* `Mailbox`: weak fairness of the steps of the reader that listens: `listen` polls again after every interval and
  after every error. Nothing is assumed of other readers, of senders, server stops, Redis or retention.
* The other modules have no liveness property and no fairness.

## 4. Proofs

All theorems hold for every value of the constants that the modules' ASSUMEs allow
(sizes at least 1, no node linked to itself, and the like).

`MeshProofs`: `TypeCorrect == Spec => []TypeOK`; `TypeOK` is inductive, bounds every table
by its array and says that a frame on the air has between 1 and `DefaultTtl` hops left.
`DeliversOnce == Spec => Delivers` is the refinement of `Delivery`. Its invariant `IInv`
adds two facts. `AirTruthful`: a DATA frame in a radio carries the sender
and addressee its message was submitted with; relays copy them and only a submission
makes them. `InboxOpened`: what the application was given, the ratchet has used up;
so the guard `Opens` excludes a second delivery, also after a reboot has emptied the
memory of identifiers. Without either, a step of `RxDeliver` could not be shown to be a
`Deliver` step. That libsignal opens a message once (`Opens`) is assumed. `ReceivedOnce` draws the
conclusion as an invariant, from the steps of `Delivery` alone: no two calls of an application for one
message, and each with the sender of a message submitted for that node.
`HopsBounded`: `HInv` gives every copy a path no longer than the hops it has lost (`Near`), also
those that are not remembered yet. `RelaysOnce` assumes `Roomy`, a memory with room for every
identifier: what a node put on the air sits in one slot of its memory (`OInv`), and a memory without
repetitions that lacks an identifier has a free slot (`RoomForOne`, by counting), so nothing is
forgotten. `RateBounded` assumes `Spacious`, a rate table with a slot for every other node: the count of an
originator whose window runs covers what was let through in it, and nothing counts outside a
window (`Tally`); no entry that still counts is ever replaced. Both assumptions are about the network, and
without them both bounds fail: the code then forgets the oldest entry. `OneSlotPerOriginator` needs
neither: an entry that is refreshed, moved or evicted is never doubled (`ApartRefreshed`, `ApartPushed`,
two lemmas on sequences with a key, used for both tables), also where the tables are full, which the
triangle of `mesh_flood` never makes them.

`DedupProofs`, for any size of ring and number of callers: `RingTypeCorrect`, `RingStaysWindow`,
`RingAnswersRight`. Until two calls write at once, `Window` follows a call through the
function: the slot at `next` is the oldest one (`NextIsFree`), the other slots hold the window
(`Kept`) without repetition (`Distinct`), one call at most is writing (`OneWriter`), a scan under way has
not met its identifier in the slots it has passed (`Scanning`), and between the copy and
the advance the copied slot is the newest entry (`Writing`). That two calls at once are never about one
identifier (`Apart`) comes from where identifiers come from (`Origins`). The window is a sequence in the
model and a ring in the code; `Kept` maps one to the other.

`DriverProofs`, of `Radio`, for any number of sending tasks: `RadioTypeCorrect`; `RelayNeverConfirmed`, whose
invariant adds that while the interrupt task is between draining the semaphore and the end
of its wait, the semaphore is not given, since `GiveTxDone` is a step of that same task;
and `ConfirmedWasAired`, by following a call that nothing got in the way of (`Held`): until its transmission it is
alone, buffer and length are its own and no event is pending, and once the semaphore is given its frame is out.

`DriverProofs`, of `Bridge`, for any number of connections and at least as many slots: `BridgeTypeCorrect`, `ListMirrors`,
`PhonesReached`. Between two stores the list is neither the old nor the new one, so `ListInv` says, for each place of the host task,
how many slots hold phones (`Settled`) and which phones those are: the subscribed ones, but for the one being added or removed. They
hold each phone once (`Once`), so a full list holds every connection (`PhonesCounted`, by counting), which is why nobody is refused.
`FanInv` follows a walk: while nobody leaves, every phone that stays keeps a slot, and behind the walk it was notified or a
buffer was missing (`Awaits`); while nobody joins either, who was notified was so from one slot (`Passed`). Additions only write
behind the settled slots, so they disturb neither (`FanList`); what does is moving the last entry into a hole.

`KeysProofs`, for any number of peers, losses of power, refused writes and sizes of batch: `KeysTypeCorrect`,
`HandedKeysStay`, `RefillFindsUnlessRefused`, `HandedIsWhole` and `KeysUsedOnce`. `HandedStable` is not
inductive; `Inv` adds that
nothing is handed out before the identity is complete (`Booting`), that `next_pk_id` lies
above every key handed out (`Counted`), and that so does the batch under way, of which every key
is stored or was refused until the search after it (`Filling`). A batch that power cut short, or whose `next_pk_id` was
refused, is generated again under the same identifiers; none of them was handed out, since
`find_unused_pre_key` stops below `next_pk_id`, which is written last. `HandedWhole` follows from
the order of the writes (`Order`), which says of each part which boot it belongs to, as long as neither `id_pub` nor `id_priv`
was refused. `UsedOnce` counts: a key still in the store has opened no more sessions than
its erasure failed, one about to be erased or gone one more (`Spent`).

`SessionsProofs`, for any number of callers, slots, messages and stops, in both places:
`SessionsTypeCorrect`, `MessageKeyOnce`, `SessionsUsable`, `IdentityPinned`. The record of a slot is never
behind a position that was handed out (`Behind`, `Stored`); a caller on its way to store a record carries one
that is ahead of all of them and of its own (`Ahead`); alone on its slot (`Alone`), nobody moves the record
meanwhile. A record that a killed process left empty is behind everything, but nothing loads from
it, and the next session built there has a new number (`Numbered`). The identity key: a caller alone on its slot carries
the first one that was saved there, or any if none was (`Ahead` too), since `is_trusted_identity` let it through; after an empty file
it lets nobody through.

`MailboxProofs`, for any number of senders, readers, messages and failures and any size of answer:
`MailboxTypeCorrect`, `NoMessageLost`, `NoMessageTwice` and `LimitsEnd`. What makes them
inductive is `Reading`. Of the senders whose record was always written whole by one reader at a time (`Sound`): what was shown is
among what is opened and stays there (`ShownOpened`); what a reader has in memory is the record as it is, and the message
it is about to show has been opened and not shown (`AtHand`); two readers have neither one session nor one message between
loading and showing (`Apart`). Of all: what is about to be acknowledged was shown. So an
acknowledgement never removes an unseen message, and a second showing would need a second
opening.

`DirectoryProofs`, for any number of peers, keys, publications, requests and stops:
`DirectoryTypeCorrect`, `KeyHandedOnce`, `FirstMessageOpens`, and `DirectoryKeepsPromise`, the refinement of
`OneTimeKeys`. The argument follows a key. While a request has its row locked no other request has, and the row
is not used (`Locked`); what an answer carries was given to that request (`Carried`); what was given is used from
then on (`Spent`); a peer's session was built with a key given to it (`Built`); a session that the owner opened was one of
those (`Came`); a key leaves the owner's store only after it opened a session (`Erased`), which is then that of the only
peer that has the key. `MarkUsed` is `Give`, `OpenFirst` with a key is `Open`, `InsertKey` is `Publish` or a stutter, everything
else is a stutter.

`AccountsProofs`, for any number of accounts, channels, sessions and requests at once: `AccountsTypeCorrect`,
`SessionsRevoked`, `RequestsAllowed`. `Honest` says what a request may rely on: its role is at most the best its session
stood for, its threshold at least the least it had, and a request past its check has the one above
the other. `Watch` makes both histories grow with every change of the tables (`WatchGrows`). `Renewed`: no account has a
password older than its last answered reset, and a login in the making with such a password is marked.

Every invariant that a run checks is proved. Model-checked only is liveness (`FloodEnds`, `CallsReturn`, `PollFinds`,
`Visible`, `FanOutEnds`), which is out of the prover's reach.

## 5. Disagreements between the code and what it says

`PROJECT.json` quotes the lines. Two runs end in a counterexample, on purpose:

1. `radio_deaf`: a flag raised between reading and clearing the status makes the node deaf.
2. `keys_wedge`: the bundle handed to two peers starts only one session.

Two sentences are contradicted by properties that hold in the run `mailbox`:

3. `tutoriale/06-klient-desktopowy.md:65-66` says that without `--ack` the same messages appear at every further
   `poll`. They come from the server each time, but are shown once: the first `poll_once` has used up their keys,
   and every later one prints an error instead (`PrintedOnce`, with readers without `--ack`).
4. `server/src/routes/messages.rs:89-90` says that polling always finds a message. A full answer of messages that are not
   acknowledged, because they were shown without `--ack` or cannot be opened, hides every newer one for as long as
   retention keeps them (the exception of `PollFinds`).

Properties that hold and name an exception do so because the code has it. In short:

* two calls of `dedup_check_and_mark` that write at once lose an identifier that `dedup.h:8` says is
  remembered (`overlapped`);
* `sx1262_send` reports success for a frame that never left after another call, a reception or a late
  TxDone came between (`disturbed`);
* a relay, which waits in the task that would have to wake it, always runs into its timeout of 1 s, during which
  nothing is received (`RelayUnconfirmed`);
* an identity cut short by a loss of power is taken for complete at every later boot, and the node never hands out
  a bundle again (`HandedWhole` says no more than that);
* a write that NVS refuses while keys are made goes unnoticed: a node without `id_priv` hands out bundles from which no
  session can be opened (`HandedWhole`), one without `next_pk_id`, or without a single key of the batch, answers
  no request although it has just made a batch (`RefillFinds`);
* NimBLE's refusal to advertise is logged and not tried again until the next event (`gaveUp`);
* a client that goes away between INCR and EXPIRE, with server and Redis in health, leaves its sender limited for ever (`cut`);
* two desktop processes on one data directory can use a message key twice (`raced`) and show a message twice (`torn`), and one
  that is killed while it stores a session leaves an empty file, which `has_session` takes for
  a session (`Usable` is about the firmware);
* one that is killed while it saves an identity key leaves an empty file too, and then the true owner of the key is not
  trusted any more (`Pinned`);
* a phone that stays can miss a message, or get it twice, while others come and go (`excuses`);
* an owner whose lowest key was given out publishes the same one again until it is used, and its later peers get a bundle
  without a one-time key (`HandedOnce` holds, the directory is just empty);
* a login that checked the old password while a reset was under way gives a session that survives it (`late`), and a
  reset that fails or stops between its two statements leaves the old sessions (`renewed` counts answered ones);
* a request is held to a role and a threshold that were valid at two different moments (`Allowed`).

## 6. Not modelled

Cryptography and its providers (`provider.c` keeps no state), failures of `malloc` and of the random generator while
keys are made, a second desktop process at work on the same key store as `Keys` has it, packing of bytes (`pkt.c` as the frames it
distinguishes), BUSY polling, setup and radio parameters of the SX1262, pin and bus setup, time (orders and
events instead), NimBLE beyond what the bridge relies on. Of the Pabianice OS server: retention, categories,
topics and settings, which are single statements that nothing else here reads, `list_users`, and that the
last administrator can be demoted, of which no document speaks. The web client, the admin panel and the website, which
are pages over an interface modelled here; the installer.

## 7. What could follow

1. `Sessions` composed with `Mesh`: the ratchet in place of `opened`.
2. `Keys` composed with `Directory`: an owner that also answers over the mesh from the same store.
