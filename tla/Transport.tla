------------------------------- MODULE Transport -------------------------------
(* The application's end of the RS-485 line: the receive interrupt, the poll   *)
(* of the loop, the transmission by DMA, the change of port, the commands that *)
(* wait for the transmitter and the reset into the bootloader, under a master  *)
(* that repeats what is not answered and also talks to other devices.          *)
EXTENDS Naturals, Sequences

CONSTANTS
  Gap,         \* silence that ends a frame: 4 ms in app_modbus_poll
  RxSize,      \* bytes the receive buffer holds
  Frame,       \* bytes of a request
  Burst,       \* bound: bytes other devices' traffic has without a pause
  Port,        \* settings of HR1
  AnswerTime,  \* milliseconds an answer may take, by port
  BootDelay,   \* wait before the reset into the bootloader: 10 ms
  Stall,       \* bound: how long a save stops the loop
  Pause,       \* silence the master leaves before it sends
  Timeout,     \* how long it waits for an answer
  Tries,       \* attempts per request: 3 in modbus_client.py
  Kinds,       \* what it asks for: subset of Kind
  MaxFaults    \* bound: bytes lost and instants misread

Kind == {"read", "save", "reload", "port", "boot"}

ASSUME TransportAssumption ==
  /\ Gap \in Nat \ {0} /\ Frame \in Nat \ {0} /\ RxSize \in Nat /\ RxSize >= Frame
  /\ Burst \in Nat /\ Tries \in Nat \ {0} /\ MaxFaults \in Nat
  /\ BootDelay \in Nat /\ Stall \in Nat /\ Pause \in Nat \ {0} /\ Timeout \in Nat
  /\ AnswerTime \in [Port -> SUBSET (Nat \ {0})] /\ Kinds \subseteq Kind

(* The latest, after its last byte, that a request is taken up.               *)
Latest == IF Stall >= Gap THEN Stall + 2 ELSE Gap + 1

(* In milliseconds: 4 of silence end a frame (app_modbus.c:202), a save takes  *)
(* some 55, the reset waits 10 (main.c:98); the client leaves 70 between      *)
(* requests (modbus_client.py:101, 125) and waits 1000 for an answer, of      *)
(* which the longest takes some 320 at 9600 baud.                             *)
ASSUME TimesAssumption ==
  /\ Gap >= 2 /\ Pause > Latest /\ Pause > BootDelay /\ Timeout > Latest
  /\ \A port \in Port : \A time \in AnswerTime[port] : Latest + time <= Timeout

VARIABLES
  rxBuf,     \* g_rx_buf up to g_rx_len
  age,       \* milliseconds since g_last_rx_ms, counted up to Gap
  txState,   \* g_tx_state
  de,        \* the line driver is on
  left,      \* milliseconds the answer still takes
  applied,   \* g_applied_port_cfg
  hr1,       \* hr1_port_config
  command,   \* g_command of the configuration registers
  pending,   \* pending_command of main
  boot,      \* bootloader_requested
  stage,     \* where the loop is
  seen,      \* the age of the last byte as app_modbus_poll computes it
  ticked,    \* the clock went on since it read it
  busy,      \* milliseconds a save or the wait before the reset still takes
  round,     \* the loop has come round since the clock last went on
  master,    \* what the master does
  at,        \* the port it uses
  asks,      \* what it asks for, "other" when it talks to another device
  sent, size,\* bytes of the frame it has sent, and will have
  since,     \* milliseconds since its last byte, or since it heard or gave up
  tries,     \* attempts at the present request
  reply,     \* an answer that has arrived whole, or "none"
  faults,    \* how many faults there were
  hurt       \* one of them hit the present frame

device == <<txState, de, left, applied, hr1, command, pending, boot, stage, busy, round>>
receiver == <<rxBuf, age, seen, ticked>>
client == <<master, at, asks, sent, size, since, tries, reply>>
harm == <<faults, hurt>>
vars == <<device, receiver, client, harm>>

Stage == {"poll", "compare", "command", "stall", "reset", "delay", "off"}
Longest == IF Pause > Timeout THEN Pause ELSE Timeout

TypeOK ==
  /\ Len(rxBuf) <= RxSize /\ age \in 0 .. Gap /\ seen \in 0 .. Gap /\ ticked \in BOOLEAN
  /\ txState \in {"idle", "dma", "tc"} /\ de \in BOOLEAN
  /\ left \in Nat /\ (left > 0 => txState # "idle" /\ de)
  /\ applied \in Port /\ hr1 \in Port
  /\ {command, pending} \subseteq {"none", "save", "reload"} /\ boot \in BOOLEAN
  /\ stage \in Stage /\ busy \in Nat /\ round \in BOOLEAN
  /\ master \in {"rest", "send", "wait", "retry", "failed"} /\ at \in Port
  /\ asks \in Kind \cup {"other"} /\ reply \in Kind \cup {"none"}
  /\ sent <= size /\ since \in 0 .. Longest /\ tries \in 0 .. Tries
  /\ faults \in 0 .. MaxFaults /\ hurt \in BOOLEAN

Init ==
  /\ rxBuf = <<>> /\ age = Gap /\ seen = 0 /\ ticked = FALSE
  /\ txState = "idle" /\ de = FALSE /\ left = 0
  /\ applied \in Port /\ hr1 = applied /\ at = applied
  /\ command = "none" /\ pending = "none" /\ boot = FALSE
  /\ stage = "poll" /\ busy = 0 /\ round = FALSE
  /\ master = "rest" /\ asks = "other" /\ sent = 0 /\ size = 0 /\ since = Pause
  /\ tries = 0 /\ reply = "none" /\ faults = 0 /\ hurt = FALSE
-------------------------------------------------------------------------------
(* Mutant: there is always room for another byte. *)
ReceiveUnbounded(byte) ==
  IF txState # "idle" \/ stage = "off" THEN UNCHANGED receiver
  ELSE /\ rxBuf' = Append(rxBuf, byte) /\ age' = 0
       /\ seen' = IF stage # "compare" THEN seen ELSE IF ticked THEN Gap ELSE 0
       /\ UNCHANGED ticked

(* usart1_isr, between any two steps of the loop.  A byte that arrives after  *)
(* app_modbus_poll has read the clock, and a millisecond later than that, is  *)
(* younger than the clock: the unsigned difference is enormous.               *)
Receive(byte) ==
  IF txState # "idle" \/ stage = "off" THEN UNCHANGED receiver
  ELSE IF Len(rxBuf) < RxSize
  THEN /\ rxBuf' = Append(rxBuf, byte) /\ age' = 0
       /\ seen' = IF stage # "compare" THEN seen ELSE IF ticked THEN Gap ELSE 0
       /\ UNCHANGED ticked
  ELSE rxBuf' = <<>> /\ UNCHANGED <<age, seen, ticked>>

tx_abort == txState' = "idle" /\ de' = FALSE /\ left' = 0

PollPort ==
  /\ stage = "poll" /\ hr1 # applied
  /\ rxBuf' = <<>> /\ applied' = hr1 /\ tx_abort
  /\ UNCHANGED <<age, seen, ticked, hr1, command, pending, boot, stage, busy, round, client, harm>>

Polls(state) == stage = "poll" /\ hr1 = applied /\ txState = state

(* The DMA is through with the answer shortly before its last byte is. *)
PollDma ==
  /\ Polls("dma")
  /\ \/ left <= 1 /\ txState' = "tc"
     \/ left >= 1 /\ UNCHANGED txState
  /\ stage' = "command"
  /\ UNCHANGED <<receiver, de, left, applied, hr1, command, pending, boot, busy, round, client, harm>>

(* Mutant: the flag of the DMA, cleared already, is looked at again. *)
PollTcStuck ==
  /\ Polls("tc")
  /\ stage' = "command"
  /\ UNCHANGED <<receiver, txState, de, left, applied, hr1, command, pending, boot, busy, round, client, harm>>

PollTc ==
  /\ Polls("tc")
  /\ IF left = 0 THEN tx_abort /\ rxBuf' = <<>> ELSE UNCHANGED <<txState, de, left, rxBuf>>
  /\ stage' = "command"
  /\ UNCHANGED <<age, seen, ticked, applied, hr1, command, pending, boot, busy, round, client, harm>>

PollIdle ==
  /\ Polls("idle")
  /\ de' = FALSE
  /\ IF rxBuf = <<>> THEN stage' = "command" /\ UNCHANGED <<seen, ticked>>
     ELSE stage' = "compare" /\ seen' = age /\ ticked' = FALSE
  /\ UNCHANGED <<rxBuf, age, txState, left, applied, hr1, command, pending, boot, busy, round, client, harm>>

Bytes(kind) == [i \in 1 .. Frame |-> <<kind, i>>]

NotYet ==
  /\ stage = "compare" /\ seen < Gap
  /\ stage' = "command"
  /\ UNCHANGED <<receiver, txState, de, left, applied, hr1, command, pending, boot, busy, round, client, harm>>

(* Mutant: the buffer is not emptied after a frame nobody answers. *)
ThrowAwayKept ==
  /\ stage = "compare" /\ seen = Gap /\ \A kind \in Kind : rxBuf # Bytes(kind)
  /\ stage' = "command"
  /\ UNCHANGED <<receiver, txState, de, left, applied, hr1, command, pending, boot,
                 busy, round, client, harm>>

(* process_frame: whatever is not one whole request to this device is thrown  *)
(* away unanswered.                                                           *)
ThrowAway ==
  /\ stage = "compare" /\ seen = Gap /\ \A kind \in Kind : rxBuf # Bytes(kind)
  /\ rxBuf' = <<>> /\ stage' = "command"
  /\ UNCHANGED <<age, seen, ticked, txState, de, left, applied, hr1, command, pending, boot,
                 busy, round, client, harm>>

Process(kind) ==
  /\ stage = "compare" /\ seen = Gap /\ rxBuf = Bytes(kind)
  /\ rxBuf' = <<>> /\ stage' = "command"
  /\ txState' = "dma" /\ de' = TRUE /\ left' \in AnswerTime[applied]
  /\ command' = IF kind \in {"save", "reload"} THEN kind ELSE command
  /\ hr1' \in IF kind = "port" THEN Port ELSE {hr1}
  /\ boot' = (boot \/ kind = "boot")
  /\ UNCHANGED <<age, seen, ticked, applied, pending, busy, round, client, harm>>

(* The command taken from the registers waits until the transmitter is idle.  *)
Taken == IF pending = "none" THEN command ELSE pending
Leftover == IF pending = "none" THEN "none" ELSE command

(* Mutant: it may also wait for the next round. *)
PostponeFreely ==
  /\ stage = "command"
  /\ pending' = Taken /\ command' = Leftover /\ stage' = "reset"
  /\ UNCHANGED <<receiver, txState, de, left, applied, hr1, boot, busy, round, client, harm>>

Postpone ==
  /\ stage = "command" /\ (Taken = "none" \/ txState # "idle")
  /\ pending' = Taken /\ command' = Leftover /\ stage' = "reset"
  /\ UNCHANGED <<receiver, txState, de, left, applied, hr1, boot, busy, round, client, harm>>

RunSave ==
  /\ stage = "command" /\ Taken = "save" /\ txState = "idle"
  /\ pending' = "none" /\ command' = Leftover
  /\ stage' = "stall" /\ busy' \in 0 .. Stall
  /\ UNCHANGED <<receiver, txState, de, left, applied, hr1, boot, round, client, harm>>

(* Mutant: the command does not wait for the transmitter. *)
ReloadAtOnce ==
  /\ stage = "command" /\ Taken = "reload"
  /\ pending' = "none" /\ command' = Leftover
  /\ hr1' \in Port /\ stage' = "reset"
  /\ UNCHANGED <<receiver, txState, de, left, applied, boot, busy, round, client, harm>>

RunReload ==
  /\ stage = "command" /\ Taken = "reload" /\ txState = "idle"
  /\ pending' = "none" /\ command' = Leftover
  /\ hr1' \in Port /\ stage' = "reset"
  /\ UNCHANGED <<receiver, txState, de, left, applied, boot, busy, round, client, harm>>

StallEnds ==
  /\ stage = "stall" /\ busy = 0 /\ stage' = "reset"
  /\ UNCHANGED <<receiver, txState, de, left, applied, hr1, command, pending, boot, busy, round, client, harm>>

(* The rest of the round, and the way into the bootloader. *)
Around ==
  /\ stage = "reset"
  /\ IF boot THEN stage' = "delay" /\ busy' = BootDelay /\ UNCHANGED round
     ELSE stage' = "poll" /\ round' = TRUE /\ UNCHANGED busy
  /\ UNCHANGED <<receiver, txState, de, left, applied, hr1, command, pending, boot, client, harm>>

ResetSystem ==
  /\ stage = "delay" /\ busy = 0 /\ stage' = "off" /\ tx_abort
  /\ UNCHANGED <<receiver, applied, hr1, command, pending, boot, busy, round, client, harm>>

Loop ==
  \/ PollPort \/ PollDma \/ PollTc \/ PollIdle
  \/ NotYet \/ ThrowAway \/ \E kind \in Kind : Process(kind)
  \/ Postpone \/ RunSave \/ RunReload \/ StallEnds \/ Around \/ ResetSystem
-------------------------------------------------------------------------------
(* The master.  It asks at the port it last wrote or an operator found out,   *)
(* and repeats at the same one.                                               *)
Starts(kind, n) ==
  /\ asks' = kind /\ size' = n /\ sent' = 0 /\ since' = 0 /\ master' = "send"
  /\ hurt' = FALSE
  /\ UNCHANGED <<device, receiver, reply, faults>>

Begin(kind) ==
  /\ master = "rest" /\ since >= Pause /\ stage # "off"
  /\ Starts(kind, Frame) /\ at' = hr1 /\ tries' = 1

(* Other devices are asked, and answer, after a silence that ends a frame.    *)
TalkToOther(n) ==
  /\ master = "rest" /\ since > Gap /\ stage # "off"
  /\ Starts("other", n) /\ at' = hr1 /\ tries' = 0

Repeat ==
  /\ master = "retry" /\ since >= Pause
  /\ Starts(asks, Frame) /\ tries' = tries + 1 /\ UNCHANGED at

(* Bytes sent at another speed, or to another device, are received as noise.  *)
Byte == IF asks = "other" \/ at # applied THEN <<"noise", 0>> ELSE <<asks, sent + 1>>

SendByte ==
  /\ master = "send"
  /\ sent' = sent + 1 /\ since' = 0
  /\ master' = IF sent + 1 < size THEN "send" ELSE IF asks = "other" THEN "rest" ELSE "wait"
  /\ UNCHANGED <<device, at, asks, size, tries, reply>>

Fault == faults < MaxFaults /\ faults' = faults + 1 /\ hurt' = TRUE

Misread == stage = "compare" /\ ticked /\ txState = "idle"

Arrives ==
  /\ SendByte /\ Receive(Byte)
  /\ IF Misread THEN Fault ELSE UNCHANGED harm

LoseByte == SendByte /\ Fault /\ UNCHANGED receiver

(* While flash is written bytes are lost that the interrupt cannot fetch.     *)
Overrun == stage = "stall" /\ SendByte /\ UNCHANGED <<receiver, harm>>

Hear ==
  /\ master = "wait" /\ reply # "none" /\ reply' = "none"
  /\ master' = "rest" /\ since' = 0 /\ tries' = 0
  /\ UNCHANGED <<device, receiver, at, asks, sent, size, harm>>

GiveUp ==
  /\ master = "wait" /\ reply = "none" /\ since = Timeout
  /\ master' = IF tries < Tries THEN "retry" ELSE "failed"
  /\ since' = 0
  /\ UNCHANGED <<device, receiver, at, asks, sent, size, tries, reply, harm>>

StartOver ==
  /\ master = "failed" /\ master' = "rest" /\ tries' = 0
  /\ UNCHANGED <<device, receiver, at, asks, sent, size, since, reply, harm>>

Master ==
  \/ \E kind \in Kinds : Begin(kind)
  \/ \E n \in 1 .. Burst : TalkToOther(n)
  \/ Repeat \/ Arrives \/ Overrun \/ Hear \/ GiveUp \/ StartOver
-------------------------------------------------------------------------------
(* A millisecond goes by.  The loop comes round at least once in it, unless   *)
(* it is stalled; the bytes of a frame follow each other within it; the       *)
(* master acts in time.                                                       *)
MayTick ==
  /\ IF stage \in {"stall", "delay"} THEN busy > 0 ELSE round \/ stage = "off"
  /\ ~(master = "send" /\ since > 0) /\ reply = "none"
  /\ ~(master = "wait" /\ since = Timeout)

Tick ==
  /\ MayTick
  /\ age' = IF age < Gap THEN age + 1 ELSE age
  /\ ticked' = (ticked \/ stage = "compare")
  /\ left' = IF left > 0 THEN left - 1 ELSE 0
  /\ reply' = IF left = 1 /\ master = "wait" /\ at = applied THEN asks ELSE "none"
  /\ busy' = IF busy > 0 THEN busy - 1 ELSE 0
  /\ round' = FALSE
  /\ since' = IF since < Longest THEN since + 1 ELSE since
  /\ UNCHANGED <<rxBuf, seen, txState, de, applied, hr1, command, pending, boot, stage,
                 master, at, asks, sent, size, tries, harm>>

(* After the reset the bootloader goes on. *)
Idle == stage = "off" /\ UNCHANGED vars

Next == Loop \/ Master \/ LoseByte \/ Tick \/ Idle

Spec == Init /\ [][Next]_vars

(* The loop, the clock, a frame once begun and the timers of the master go on. *)
(* Nobody has to ask anything.                                                *)
FairSpec ==
  /\ Spec
  /\ WF_vars(Loop) /\ WF_vars(Tick)
  /\ WF_vars(Arrives \/ Overrun \/ Hear \/ GiveUp)
-------------------------------------------------------------------------------
(* The device drives the line only while the master listens: the driver is    *)
(* off again before any device may be asked.  The wait before the reset is    *)
(* the exception, see NeverCollides.                                          *)
NoCollision == de /\ stage # "delay" => master # "send"

(* The same of the wait as well.  It fails: the driver stays on for the whole *)
(* of it, and other devices are asked meanwhile.                              *)
NeverCollides == de => master # "send"

(* No request is read or written while a command waits for its answer to go   *)
(* out (main.c:66-85): what is saved is what was in the registers when the    *)
(* save was asked for, as ConfigStore and ConfigRegisters take it.            *)
CommandGoesFirst ==
  stage = "compare" => command = "none" /\ pending = "none"

(* Of the requests that ask neither for another port nor for the bootloader,   *)
(* the device answers each one that no fault has hit while it was sent: other *)
(* devices' traffic, a full buffer, saves and earlier failures cost none.     *)
SilenceIsAFault ==
  master \in {"retry", "failed"} /\ asks \in {"read", "save", "reload"} => hurt

(* An answer is cut off only by the port it changes itself or by the reset    *)
(* into the bootloader.                                                       *)
AnswerIsWhole ==
  [][left > 0 /\ ~de' => asks \in {"port", "boot"}]_vars

(* The same of a change of port alone.  It fails: at a slow port the wait      *)
(* before the reset is shorter than an answer.                                *)
BootIsAnswered ==
  [][left > 0 /\ ~de' => asks = "port"]_vars

(* Every answer ends with the driver off, or the line would stay blocked for  *)
(* all devices on it: also when a port change or the reset cuts it off.       *)
LineIsReleased == de ~> ~de
===============================================================================
