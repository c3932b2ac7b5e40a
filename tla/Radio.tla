------------------------------- MODULE Radio -------------------------------
(***************************************************************************)
(* The SX1262 driver (components/radio/sx1262.c): the interrupt task, the  *)
(* tasks that call sx1262_send, and the chip between them.  Each command   *)
(* on the SPI bus is one step; so is each semaphore or notification call.  *)
(* The model starts where sx1262_start_rx returns.                         *)
(*                                                                         *)
(* on_radio_rx runs inside the interrupt task, and its relays and answers  *)
(* call sx1262_send from there.  The chip is external: what it does is     *)
(* taken from the commands and registers the driver uses.                  *)
(***************************************************************************)
EXTENDS Naturals

CONSTANTS
  Irq,       \* the interrupt task
  Senders    \* the tasks that send of their own: the main task, the Bluetooth host

ASSUME SenderAssumption == Irq \notin Senders

Task == Senders \cup {Irq}

VARIABLES
  \* the chip
  mode,       \* "rx", "tx" or "standby"
  fifo,       \* the frame in its buffer: transmission and reception both start at 0
  length,     \* the packet length it is set to: that of a task's frame, or "max"
  flags,      \* the interrupt flags that are up; DIO1 is high while there is one
  \* the interrupt task
  notified,   \* its task notification
  handler,    \* where it is in handle_irq
  status,     \* the flags handle_irq has read
  \* the callers of sx1262_send
  pc,         \* where each task is in sx1262_send
  turn,       \* turn[t] tells the frame of t's call from that of its last call
  sem,        \* s_tx_done_sem
  \* history
  aired,      \* aired[t]: the frame of t's call has gone out, whole
  disturbed,  \* the tasks that the chip or another task got in the way of
  confirmed   \* confirmed[t]: t's last call returned ESP_OK

chip    == <<mode, fifo, length, flags, notified>>
service == <<handler, status>>
callers == <<pc, turn, sem, aired, confirmed>>
vars    == <<chip, service, callers, disturbed>>

Flag == {"TxDone", "RxDone", "CrcErr"}
FrameOf(t) == <<t, turn[t]>>
Heard == <<"heard", 0>>     \* a frame of another node
MaxLength == <<"max", 0>>   \* set_packet_params(255)

-----------------------------------------------------------------------------
(* Which calls run as if they were alone: nothing was under way when they  *)
(* began, and nothing but themselves took a step until the transmission    *)
(* was started; from then on, no other caller did.                         *)

Quiet ==
  /\ flags = {} /\ ~notified
  /\ handler = "sleep" /\ mode # "tx"
  /\ \A t \in Task : pc[t] = "idle"

Undisturbed(t) ==
  IF pc[t] = "idle"
    THEN IF pc'[t] = "idle" THEN t \notin disturbed ELSE Quiet
    ELSE /\ t \notin disturbed
         /\ pc'[t] # pc[t] \/ (pc[t] = "waiting" /\ pc' = pc)

Notice == disturbed' = {t \in Task : ~Undisturbed(t)}

-----------------------------------------------------------------------------
(* The chip.  A flag that goes up while DIO1 is low is an edge: dio1_isr. *)

Raise(f) ==
  /\ flags' = flags \cup f
  /\ notified' = (notified \/ flags = {})

FrameHeard ==
  /\ mode = "rx"
  /\ fifo' = Heard
  /\ \E f \in {{"RxDone"}, {"RxDone", "CrcErr"}} : Raise(f)
  /\ UNCHANGED <<mode, length, service, callers>>
  /\ Notice

TxEnds ==
  /\ mode = "tx"
  /\ mode' = "standby"
  /\ Raise({"TxDone"})
  /\ aired' = [t \in Task |-> aired[t] \/ (fifo = FrameOf(t) /\ length = FrameOf(t))]
  /\ UNCHANGED <<fifo, length, service, pc, turn, sem, confirmed>>
  /\ Notice

-----------------------------------------------------------------------------
(* sx1262_send, called by task t. *)

WriteBuffer(t) ==
  /\ pc[t] = "idle"
  /\ turn' = [turn EXCEPT ![t] = 1 - @]
  /\ fifo' = <<t, turn'[t]>>
  /\ aired' = [aired EXCEPT ![t] = FALSE]
  /\ pc' = [pc EXCEPT ![t] = "written"]
  /\ UNCHANGED <<mode, length, flags, notified, service, sem, confirmed>>
  /\ Notice

SetPacketParams(t) ==
  /\ pc[t] = "written"
  /\ length' = FrameOf(t)
  /\ pc' = [pc EXCEPT ![t] = "sized"]
  /\ UNCHANGED <<mode, fifo, flags, notified, service, turn, sem, aired, confirmed>>
  /\ Notice

NotDrained(t) ==
  /\ pc[t] = "sized"
  /\ pc' = [pc EXCEPT ![t] = "drained"]
  /\ UNCHANGED <<chip, service, turn, sem, aired, confirmed>>
  /\ Notice

\* xSemaphoreTake(s_tx_done_sem, 0)
DropStaleSignal(t) ==
  /\ pc[t] = "sized"
  /\ sem' = FALSE
  /\ pc' = [pc EXCEPT ![t] = "drained"]
  /\ UNCHANGED <<chip, service, turn, aired, confirmed>>
  /\ Notice

SetTx(t) ==
  /\ pc[t] = "drained"
  /\ mode' = "tx"
  /\ pc' = [pc EXCEPT ![t] = "waiting"]
  /\ UNCHANGED <<fifo, length, flags, notified, service, turn, sem, aired, confirmed>>
  /\ Notice

\* What the caller does next: the interrupt task returns from handle_irq.
Returned(t) == handler' = IF t = Irq THEN "sleep" ELSE handler

TakeTxDone(t) ==
  /\ pc[t] = "waiting"
  /\ sem
  /\ sem' = FALSE
  /\ confirmed' = [confirmed EXCEPT ![t] = TRUE]
  /\ pc' = [pc EXCEPT ![t] = "idle"]
  /\ Returned(t)
  /\ UNCHANGED <<chip, status, turn, aired>>
  /\ Notice

NeverTimesOut(t) == FALSE /\ UNCHANGED vars

\* The wait ran out of time.  How long a transmission and the interrupt task take
\* against it is not modelled, so it can happen at any moment.
TimesOut(t) ==
  /\ pc[t] = "waiting"
  /\ ~sem
  /\ confirmed' = [confirmed EXCEPT ![t] = FALSE]
  /\ pc' = [pc EXCEPT ![t] = "idle"]
  /\ Returned(t)
  /\ UNCHANGED <<chip, status, turn, sem, aired>>
  /\ Notice

Continue(t) ==
  \/ SetPacketParams(t)
  \/ DropStaleSignal(t)
  \/ SetTx(t)
  \/ TakeTxDone(t)
  \/ TimesOut(t)

-----------------------------------------------------------------------------
(* irq_task and handle_irq. *)

Wake ==
  /\ handler = "sleep"
  /\ notified
  /\ notified' = FALSE
  /\ handler' = "awake"
  /\ UNCHANGED <<mode, fifo, length, flags, status, callers>>
  /\ Notice

GetIrqStatus ==
  /\ handler = "awake"
  /\ status' = flags
  /\ handler' = "read"
  /\ UNCHANGED <<chip, callers>>
  /\ Notice

\* Only the flags that were read are cleared; DIO1 falls if no other has come up.
ClearIrqStatus ==
  /\ handler = "read"
  /\ flags' = flags \ status
  /\ handler' = IF "TxDone" \in status THEN "txdone" ELSE "rxdone"
  /\ UNCHANGED <<mode, fifo, length, notified, status, callers>>
  /\ Notice

GiveTxDone ==
  /\ handler = "txdone"
  /\ sem' = TRUE
  /\ handler' = "resume"
  /\ UNCHANGED <<chip, status, pc, turn, aired, confirmed>>
  /\ Notice

\* enter_continuous_rx: two commands.
SetMaxLength ==
  /\ handler = "resume"
  /\ length' = MaxLength
  /\ handler' = "setrx"
  /\ UNCHANGED <<mode, fifo, flags, notified, status, callers>>
  /\ Notice

SetRx ==
  /\ handler = "setrx"
  /\ mode' = "rx"
  /\ handler' = "rxdone"
  /\ UNCHANGED <<fifo, length, flags, notified, status, callers>>
  /\ Notice

NothingReceived ==
  /\ handler = "rxdone"
  /\ "RxDone" \notin status \/ "CrcErr" \in status
  /\ handler' = "sleep"
  /\ UNCHANGED <<chip, status, callers>>
  /\ Notice

\* The frame is read from the buffer and on_radio_rx called with it.
ReadFrame ==
  /\ handler = "rxdone"
  /\ "RxDone" \in status /\ "CrcErr" \notin status
  /\ handler' = "upcall"
  /\ UNCHANGED <<chip, status, callers>>
  /\ Notice

ReturnsAfterSetTx ==
  /\ handler = "upcall"
  /\ pc[Irq] \in {"idle", "waiting"}
  /\ handler' = "sleep"
  /\ UNCHANGED <<chip, status, callers>>
  /\ Notice

\* on_radio_rx drops or delivers the frame, or sends: a relay or a key bundle.
UpcallReturns ==
  /\ handler = "upcall"
  /\ pc[Irq] = "idle"
  /\ handler' = "sleep"
  /\ UNCHANGED <<chip, status, callers>>
  /\ Notice

UpcallSends ==
  /\ handler = "upcall"
  /\ WriteBuffer(Irq)

Handle ==
  \/ Wake
  \/ GetIrqStatus
  \/ ClearIrqStatus
  \/ GiveTxDone
  \/ SetMaxLength
  \/ SetRx
  \/ NothingReceived
  \/ ReadFrame
  \/ UpcallReturns
  \/ UpcallSends

-----------------------------------------------------------------------------
Init ==
  /\ mode = "rx"
  /\ fifo = Heard
  /\ length = MaxLength
  /\ flags = {}
  /\ notified = FALSE
  /\ handler = "sleep"
  /\ status = {}
  /\ pc = [t \in Task |-> "idle"]
  /\ turn = [t \in Task |-> 0]
  /\ sem = FALSE
  /\ aired = [t \in Task |-> FALSE]
  /\ disturbed = {}
  /\ confirmed = [t \in Task |-> FALSE]

Next ==
  \/ FrameHeard
  \/ TxEnds
  \/ \E t \in Senders : WriteBuffer(t)
  \/ \E t \in Task : Continue(t)
  \/ Handle

\* Every task gets to run and a transmission ends; nobody need send or be heard.
Fairness ==
  /\ WF_vars(TxEnds)
  /\ WF_vars(Handle)
  /\ \A t \in Task : WF_vars(Continue(t))

Spec == Init /\ [][Next]_vars /\ Fairness

-----------------------------------------------------------------------------
\* Every variable keeps its shape, and the interrupt task sends from the upcall only.
TypeOK ==
  /\ mode \in {"rx", "tx", "standby"}
  /\ fifo \in (Task \X {0, 1}) \cup {Heard}
  /\ length \in (Task \X {0, 1}) \cup {MaxLength}
  /\ flags \subseteq Flag
  /\ notified \in BOOLEAN
  /\ handler \in {"sleep", "awake", "read", "txdone", "resume", "setrx", "rxdone", "upcall"}
  /\ status \subseteq Flag
  /\ pc \in [Task -> {"idle", "written", "sized", "drained", "waiting"}]
  /\ pc[Irq] # "idle" => handler = "upcall"
  /\ turn \in [Task -> {0, 1}]
  /\ sem \in BOOLEAN
  /\ aired \in [Task -> BOOLEAN]
  /\ disturbed \subseteq Task
  /\ confirmed \in [Task -> BOOLEAN]

\* A relay is never confirmed: the interrupt task is the only one that gives the
\* semaphore, and it cannot while it waits for it, so sx1262_send called from
\* on_radio_rx always runs to its timeout, though its frame goes out.
RelayUnconfirmed == ~confirmed[Irq]

\* Every call of sx1262_send returns, also the ones nobody can confirm and the ones
\* whose transmission another task's command has cut off.
CallsReturn == \A t \in Task : pc[t] # "idle" ~> pc[t] = "idle"

\* board.c: "DIO1 budzi nas na TxDone/RxDone/Timeout".  An event of the chip is served.
EventsServed == flags # {} ~> flags = {}

\* sx1262.h: sx1262_send "wysyła i blokuje do potwierdzenia TxDone albo timeoutu".  A call
\* that began when nothing was under way, and that nothing got in the way of before its
\* frame was on its way, returns ESP_OK only if that frame went out whole, also after
\* earlier calls that ran out of time and whose TxDone came late.  (A call that something
\* gets in the way of may return ESP_OK for a frame that never left: there is one buffer
\* in the chip, and no lock.)
ConfirmedMeansAired ==
  \A t \in Task : pc[t] = "idle" /\ confirmed[t] /\ t \notin disturbed => aired[t]
=============================================================================
