---------------------------- MODULE TransportProofs ----------------------------
(* For any times, speeds and sizes: types; that commands go before further    *)
(* requests; that the line is shared, answers are whole and silence has a     *)
(* cause.                                                                     *)
EXTENDS Transport, TLAPS

Heard == (Kind \cup {"noise"}) \X Nat

(* TypeOK by what it speaks of, with what it needs to be inductive: a frame    *)
(* being sent is not over, an attempt is repeated only while some are left,   *)
(* and only a request to this device is waited for or repeated.               *)
DeviceTypes ==
  /\ txState \in {"idle", "dma", "tc"}
  /\ left \in Nat /\ (left > 0 => txState # "idle")
  /\ applied \in Port /\ hr1 \in Port
  /\ command \in {"none", "save", "reload"} /\ pending \in {"none", "save", "reload"}
  /\ stage \in Stage /\ busy \in Nat

ReceiverTypes ==
  /\ rxBuf \in Seq(Heard) /\ Len(rxBuf) <= RxSize
  /\ age \in 0 .. Gap /\ seen \in 0 .. Gap

ClientTypes ==
  /\ master \in {"rest", "send", "wait", "retry", "failed"} /\ at \in Port
  /\ asks \in Kind \cup {"other"} /\ reply \in Kind \cup {"none"}
  /\ sent \in Nat /\ size \in Nat /\ sent <= size
  /\ since \in 0 .. Longest /\ tries \in 0 .. Tries
  /\ master = "send" => sent < size
  /\ master = "retry" => tries < Tries
  /\ master \in {"wait", "retry"} => asks \in Kind

HarmTypes == faults \in 0 .. MaxFaults

Flags ==
  /\ ticked \in BOOLEAN /\ de \in BOOLEAN /\ boot \in BOOLEAN
  /\ round \in BOOLEAN /\ hurt \in BOOLEAN

DriverIsOn == left > 0 => de

TInv ==
  /\ DeviceTypes /\ ReceiverTypes /\ ClientTypes /\ HarmTypes
  /\ Flags /\ DriverIsOn

(* The empty buffer is a buffer. *)
LEMMA Empty == <<>> \in Seq(Heard) /\ Len(<<>>) = 0
  OBVIOUS

(* The clock of the master reaches its pause and its timeout. *)
LEMMA LongestIsNat == Longest \in Nat /\ Longest >= Pause /\ Longest >= Timeout
  BY TransportAssumption DEF TransportAssumption, Longest

LEMMA TInvTypes == TInv => TypeOK
  BY DEF TInv, DeviceTypes, ReceiverTypes, ClientTypes, HarmTypes, Flags, DriverIsOn, TypeOK

LEMMA InitTInv == Init => TInv
<1> SUFFICES ASSUME Init PROVE TInv
  OBVIOUS
<1> USE TransportAssumption, LongestIsNat, Empty DEF TransportAssumption, Init
<1>1. DeviceTypes BY DEF DeviceTypes, Stage
<1>2. ReceiverTypes BY DEF ReceiverTypes
<1>3. ClientTypes BY DEF ClientTypes
<1>4. HarmTypes BY DEF HarmTypes
<1>5. Flags BY DEF Flags
<1>6. DriverIsOn BY DEF DriverIsOn
<1> QED BY <1>1, <1>2, <1>3, <1>4, <1>5, <1>6 DEF TInv

(* The interrupt appends a byte only where there is room for it. *)
LEMMA ReceiveTypes ==
  ASSUME ReceiverTypes, NEW byte \in Heard, Receive(byte)
  PROVE  ReceiverTypes'
<1> USE TransportAssumption DEF TransportAssumption, ReceiverTypes
<1>1. CASE txState # "idle" \/ stage = "off"
  BY <1>1 DEF Receive, receiver
<1>2. CASE txState = "idle" /\ stage # "off" /\ Len(rxBuf) < RxSize
  <2>1. rxBuf' = Append(rxBuf, byte) /\ age' = 0 /\ seen' \in {seen, Gap, 0}
    BY <1>2 DEF Receive
  <2>2. rxBuf' \in Seq(Heard) /\ Len(rxBuf') = Len(rxBuf) + 1
    BY <2>1
  <2> QED BY <1>2, <2>1, <2>2
<1>3. CASE txState = "idle" /\ stage # "off" /\ ~(Len(rxBuf) < RxSize)
  BY <1>3, Empty DEF Receive
<1> QED BY <1>1, <1>2, <1>3

(* The loop does not touch the master, and of the receiver it empties the      *)
(* buffer and reads the age.                                                  *)
LEMMA LoopTypes ==
  TInv /\ Loop => DeviceTypes' /\ ReceiverTypes' /\ ClientTypes' /\ HarmTypes'
<1> SUFFICES ASSUME TInv, Loop
             PROVE  DeviceTypes' /\ ReceiverTypes' /\ ClientTypes' /\ HarmTypes'
  OBVIOUS
<1>1. UNCHANGED <<client, harm>>
  BY DEF Loop, PollPort, PollDma, PollTc, PollIdle, NotYet, ThrowAway, Process,
         Postpone, RunSave, RunReload, StallEnds, Around, ResetSystem
<1>2. ClientTypes' /\ HarmTypes'
  BY <1>1 DEF client, harm, TInv, ClientTypes, HarmTypes
<1>3. rxBuf' \in {rxBuf, <<>>} /\ age' = age /\ seen' \in {seen, age}
  BY DEF Loop, PollPort, PollDma, PollTc, PollIdle, NotYet, ThrowAway, Process,
         Postpone, RunSave, RunReload, StallEnds, Around, ResetSystem, receiver
<1>4. ReceiverTypes'
  <2>1. rxBuf' \in Seq(Heard) /\ Len(rxBuf') <= RxSize
    <3>1. CASE rxBuf' = rxBuf BY <3>1 DEF TInv, ReceiverTypes
    <3>2. CASE rxBuf' = <<>> BY <3>2, Empty, TransportAssumption DEF TransportAssumption
    <3> QED BY <1>3, <3>1, <3>2
  <2> QED BY <1>3, <2>1 DEF TInv, ReceiverTypes
<1>5. DeviceTypes'
  <2> USE TransportAssumption DEF TransportAssumption, TInv, DeviceTypes, Stage
  <2>1. CASE PollPort BY <2>1 DEF PollPort, tx_abort
  <2>2. CASE PollDma BY <2>2 DEF PollDma, Polls
  <2>3. CASE PollTc BY <2>3 DEF PollTc, Polls, tx_abort
  <2>4. CASE PollIdle BY <2>4 DEF PollIdle, Polls
  <2>5. CASE NotYet BY <2>5 DEF NotYet
  <2>6. CASE ThrowAway BY <2>6 DEF ThrowAway
  <2>7. ASSUME NEW kind \in Kind, Process(kind) PROVE DeviceTypes'
    BY <2>7 DEF Process
  <2>8. CASE Postpone BY <2>8 DEF Postpone, Taken, Leftover
  <2>9. CASE RunSave BY <2>9 DEF RunSave, Taken, Leftover
  <2>10. CASE RunReload BY <2>10 DEF RunReload, Taken, Leftover
  <2>11. CASE StallEnds BY <2>11 DEF StallEnds
  <2>12. CASE Around BY <2>12 DEF Around
  <2>13. CASE ResetSystem BY <2>13 DEF ResetSystem, tx_abort
  <2> QED
    BY <2>1, <2>2, <2>3, <2>4, <2>5, <2>6, <2>7, <2>8, <2>9, <2>10, <2>11, <2>12, <2>13
         DEF Loop
<1> QED BY <1>2, <1>4, <1>5

(* What the device keeps is not touched by a step that leaves its variables. *)
LEMMA DeviceStays ==
  ASSUME DeviceTypes, UNCHANGED device PROVE DeviceTypes'
  BY DEF DeviceTypes, device

LEMMA ReceiverStays ==
  ASSUME ReceiverTypes, UNCHANGED receiver PROVE ReceiverTypes'
  BY DEF ReceiverTypes, receiver

LEMMA HarmTakesFaults ==
  ASSUME HarmTypes, Fault \/ UNCHANGED harm PROVE HarmTypes'
  BY TransportAssumption DEF TransportAssumption, HarmTypes, Fault, harm

LEMMA SendTypes ==
  ASSUME ClientTypes, SendByte PROVE ClientTypes' /\ UNCHANGED device
  BY LongestIsNat DEF ClientTypes, SendByte

LEMMA MasterStepTypes ==
  TInv /\ (Master \/ LoseByte) => DeviceTypes' /\ ReceiverTypes' /\ ClientTypes' /\ HarmTypes'
<1> DEFINE Types == DeviceTypes /\ ReceiverTypes /\ ClientTypes /\ HarmTypes
<1> SUFFICES ASSUME TInv, Master \/ LoseByte PROVE Types'
  OBVIOUS
<1> USE DEF TInv
<1>1. ASSUME NEW kind \in Kind \cup {"other"}, NEW n \in Nat \ {0}, Starts(kind, n),
             at' \in Port, tries' \in 0 .. Tries
      PROVE Types'
  <2>1. ClientTypes' BY <1>1, LongestIsNat DEF ClientTypes, Starts
  <2>2. HarmTypes' BY <1>1 DEF HarmTypes, Starts
  <2> QED BY <1>1, <2>1, <2>2, DeviceStays, ReceiverStays DEF Starts
<1>2. ASSUME NEW kind \in Kinds, Begin(kind) PROVE Types'
  BY <1>1, <1>2, TransportAssumption DEF TransportAssumption, Begin, DeviceTypes
<1>3. ASSUME NEW n \in 1 .. Burst, TalkToOther(n) PROVE Types'
  BY <1>1, <1>3, TransportAssumption DEF TransportAssumption, TalkToOther, DeviceTypes
<1>4. CASE Repeat
  BY <1>1, <1>4, TransportAssumption DEF TransportAssumption, Repeat, ClientTypes
<1>5. CASE Arrives
  <2>1. Byte \in Heard BY <1>5 DEF Byte, Heard, Arrives, SendByte, ClientTypes
  <2>2. ReceiverTypes' BY <1>5, <2>1, ReceiveTypes DEF Arrives
  <2>3. HarmTypes' BY <1>5, HarmTakesFaults DEF Arrives
  <2> QED BY <1>5, <2>2, <2>3, SendTypes, DeviceStays DEF Arrives
<1>6. CASE Overrun
  BY <1>6, SendTypes, DeviceStays, ReceiverStays, HarmTakesFaults DEF Overrun, receiver, harm
<1>7. CASE LoseByte
  BY <1>7, SendTypes, DeviceStays, ReceiverStays, HarmTakesFaults DEF LoseByte
<1>8. CASE Hear \/ GiveUp \/ StartOver
  <2>1. UNCHANGED <<device, receiver, harm>> BY <1>8 DEF Hear, GiveUp, StartOver
  <2>2. ClientTypes' BY <1>8, LongestIsNat, TransportAssumption
    DEF TransportAssumption, ClientTypes, Hear, GiveUp, StartOver
  <2> QED BY <2>1, <2>2, DeviceStays, ReceiverStays, HarmTakesFaults
<1> QED BY <1>2, <1>3, <1>4, <1>5, <1>6, <1>7, <1>8 DEF Master

LEMMA TickTypes ==
  TInv /\ Tick => DeviceTypes' /\ ReceiverTypes' /\ ClientTypes' /\ HarmTypes'
<1> SUFFICES ASSUME TInv, Tick
             PROVE  DeviceTypes' /\ ReceiverTypes' /\ ClientTypes' /\ HarmTypes'
  OBVIOUS
<1> USE TransportAssumption DEF TransportAssumption, TInv, Tick
<1>1. DeviceTypes' BY DEF DeviceTypes
<1>2. ReceiverTypes' BY DEF ReceiverTypes
<1>3. ClientTypes' BY LongestIsNat DEF ClientTypes, MayTick
<1>4. HarmTypes' BY DEF HarmTypes, harm
<1> QED BY <1>1, <1>2, <1>3, <1>4

LEMMA LoopFlags == TInv /\ Loop => Flags' /\ DriverIsOn'
<1> SUFFICES ASSUME TInv, Loop PROVE Flags' /\ DriverIsOn'
  OBVIOUS
<1> USE DEF TInv, Flags, DriverIsOn, receiver, client, harm
<1>0. /\ txState = "idle" => ~(left > 0)
      /\ left' = 0 => ~(left' > 0)
      /\ left' = left /\ ~(left > 0) => ~(left' > 0)
  BY DEF DeviceTypes
<1>1. CASE PollPort BY <1>0, <1>1, Zenon DEF PollPort, tx_abort
<1>2. CASE PollDma BY <1>2, Zenon DEF PollDma, Polls
<1>3. CASE PollTc BY <1>0, <1>3, Zenon DEF PollTc, Polls, tx_abort
<1>4. CASE PollIdle BY <1>0, <1>4, Zenon DEF PollIdle, Polls
<1>5. CASE NotYet BY <1>5, Zenon DEF NotYet
<1>6. CASE ThrowAway BY <1>6, Zenon DEF ThrowAway
<1>7. ASSUME NEW kind \in Kind, Process(kind) PROVE Flags' /\ DriverIsOn'
  BY <1>7, Zenon DEF Process
<1>8. CASE Postpone BY <1>8, Zenon DEF Postpone
<1>9. CASE RunSave BY <1>9, Zenon DEF RunSave
<1>10. CASE RunReload BY <1>10, Zenon DEF RunReload
<1>11. CASE StallEnds BY <1>11, Zenon DEF StallEnds
<1>12. CASE Around BY <1>12, Zenon DEF Around
<1>13. CASE ResetSystem BY <1>0, <1>13, Zenon DEF ResetSystem, tx_abort
<1> QED
  BY <1>1, <1>2, <1>3, <1>4, <1>5, <1>6, <1>7, <1>8, <1>9, <1>10, <1>11, <1>12, <1>13 DEF Loop

LEMMA ReceiveFlags ==
  ASSUME ticked \in BOOLEAN, NEW byte, Receive(byte) PROVE ticked' \in BOOLEAN
  BY Zenon DEF Receive, receiver

LEMMA MasterFlags == TInv /\ (Master \/ LoseByte) => Flags' /\ DriverIsOn'
<1> SUFFICES ASSUME TInv, Master \/ LoseByte PROVE Flags' /\ DriverIsOn'
  OBVIOUS
<1>1. UNCHANGED device
  BY Zenon DEF Master, Begin, TalkToOther, Starts, Repeat, Arrives, Overrun, SendByte,
               Hear, GiveUp, StartOver, LoseByte
<1>2. hurt' \in BOOLEAN
  BY Zenon DEF TInv, Flags, Master, Begin, TalkToOther, Starts, Repeat, Arrives, Overrun,
               Hear, GiveUp, StartOver, LoseByte, Fault, harm
<1>3. ticked' \in BOOLEAN
  <2>1. CASE Arrives BY <2>1, ReceiveFlags DEF TInv, Flags, Arrives
  <2>2. CASE UNCHANGED receiver BY <2>2 DEF TInv, Flags, receiver
  <2> QED
    BY <2>1, <2>2, Zenon DEF Master, Begin, TalkToOther, Starts, Repeat, Overrun,
                             Hear, GiveUp, StartOver, LoseByte
<1> QED BY <1>1, <1>2, <1>3, Zenon DEF TInv, Flags, DriverIsOn, device

LEMMA TickFlags == TInv /\ Tick => Flags' /\ DriverIsOn'
<1> SUFFICES ASSUME TInv, Tick PROVE Flags' /\ DriverIsOn'
  OBVIOUS
<1>1. left' > 0 => left > 0 BY DEF TInv, DeviceTypes, Tick
<1> QED BY <1>1, Zenon DEF Tick, TInv, Flags, DriverIsOn, harm

LEMMA StepKeepsTInv == TInv /\ [Next]_vars => TInv'
<1> SUFFICES ASSUME TInv, [Next]_vars PROVE TInv'
  OBVIOUS
<1>1. CASE Idle \/ UNCHANGED vars
  <2>1. UNCHANGED vars BY <1>1 DEF Idle
  <2> QED BY <2>1 DEF vars, device, receiver, client, harm, TInv, DeviceTypes,
                      ReceiverTypes, ClientTypes, HarmTypes, Flags, DriverIsOn
<1>2. CASE Loop BY <1>2, LoopTypes, LoopFlags DEF TInv
<1>3. CASE Master \/ LoseByte BY <1>3, MasterStepTypes, MasterFlags DEF TInv
<1>4. CASE Tick BY <1>4, TickTypes, TickFlags DEF TInv
<1> QED BY <1>1, <1>2, <1>3, <1>4 DEF Next

(* The buffer never overflows, the driver is on while an answer is on the     *)
(* line, and no counter leaves its range, whatever the constants.             *)
THEOREM TransportTypes == Spec => []TypeOK
  BY InitTInv, TInvTypes, StepKeepsTInv, PTL DEF Spec
-------------------------------------------------------------------------------
Waiting == command # "none" \/ pending # "none"

(* While a command waits, its answer is on the line or the loop is about to   *)
(* take the command up, and no change of port is due that could end the       *)
(* answer and let a frame in first.                                           *)
OneWaits == command = "none" \/ pending = "none"
AnswerGoesOut == Waiting => hr1 = applied /\ (txState # "idle" \/ stage \in {"command", "off"})
PortIsSettled == stage = "compare" => hr1 = applied /\ txState = "idle"

IInv == OneWaits /\ AnswerGoesOut /\ PortIsSettled /\ CommandGoesFirst

(* Nothing waits and no frame is looked at when the loop begins. *)
LEMMA InitIInv == Init => IInv
  BY DEF Init, IInv, OneWaits, AnswerGoesOut, PortIsSettled, CommandGoesFirst, Waiting

(* What the invariant speaks of is changed by the loop alone. *)
LEMMA OthersKeepIInv ==
  ASSUME IInv, UNCHANGED <<txState, applied, hr1, command, pending, stage>>
  PROVE  IInv'
  BY DEF IInv, OneWaits, AnswerGoesOut, PortIsSettled, CommandGoesFirst, Waiting

(* Each step of the loop keeps the invariant: a command comes with an answer, *)
(* and it is taken up in the round in which the transmitter has become idle.  *)
LEMMA LoopKeepsIInv == IInv /\ Loop => IInv'
<1> SUFFICES ASSUME IInv, Loop PROVE IInv'
  OBVIOUS
<1> USE DEF IInv, OneWaits, AnswerGoesOut, PortIsSettled, CommandGoesFirst, Waiting
<1>1. CASE PollPort BY <1>1 DEF PollPort, tx_abort
<1>2. CASE PollDma BY <1>2 DEF PollDma, Polls
<1>3. CASE PollTc BY <1>3 DEF PollTc, Polls, tx_abort
<1>4. CASE PollIdle BY <1>4 DEF PollIdle, Polls
<1>5. CASE NotYet BY <1>5 DEF NotYet
<1>6. CASE ThrowAway BY <1>6 DEF ThrowAway
<1>7. ASSUME NEW kind \in Kind, Process(kind) PROVE IInv'
  BY <1>7 DEF Process
<1>8. CASE Postpone BY <1>8 DEF Postpone, Taken, Leftover
<1>9. CASE RunSave BY <1>9 DEF RunSave, Taken, Leftover
<1>10. CASE RunReload BY <1>10 DEF RunReload, Taken, Leftover
<1>11. CASE StallEnds BY <1>11 DEF StallEnds
<1>12. CASE Around BY <1>12 DEF Around
<1>13. CASE ResetSystem BY <1>13 DEF ResetSystem, tx_abort
<1> QED
  BY <1>1, <1>2, <1>3, <1>4, <1>5, <1>6, <1>7, <1>8, <1>9, <1>10, <1>11, <1>12, <1>13 DEF Loop

LEMMA StepKeepsIInv == IInv /\ [Next]_vars => IInv'
<1> SUFFICES ASSUME IInv, [Next]_vars PROVE IInv'
  OBVIOUS
<1> USE DEF device, harm
<1>1. CASE Loop BY <1>1, LoopKeepsIInv
<1>2. CASE Master
  <2>1. ASSUME NEW kind, NEW n, Starts(kind, n) PROVE IInv'
    BY <2>1, OthersKeepIInv DEF Starts
  <2>2. CASE Repeat BY <2>1, <2>2 DEF Repeat
  <2>3. CASE Arrives \/ Overrun BY <2>3, OthersKeepIInv DEF Arrives, Overrun, SendByte
  <2>4. CASE Hear \/ GiveUp \/ StartOver BY <2>4, OthersKeepIInv DEF Hear, GiveUp, StartOver
  <2> QED BY <1>2, <2>1, <2>2, <2>3, <2>4 DEF Master, Begin, TalkToOther
<1>3. CASE LoseByte BY <1>3, OthersKeepIInv DEF LoseByte, SendByte
<1>4. CASE Tick BY <1>4, OthersKeepIInv DEF Tick
<1>5. CASE Idle \/ UNCHANGED vars BY <1>5, OthersKeepIInv DEF Idle, vars
<1> QED BY <1>1, <1>2, <1>3, <1>4, <1>5 DEF Next

(* No request is read or written while a command waits (main.c:66-85).        *)
THEOREM CommandsGoFirst == Spec => []CommandGoesFirst
<1>1. IInv => CommandGoesFirst BY DEF IInv
<1> QED BY InitIInv, StepKeepsIInv, <1>1, PTL DEF Spec
-------------------------------------------------------------------------------
(* When frames are taken up and answers end.  The master waits while an answer *)
(* is on the line, so a collision needs a late answer or a driver left on.    *)
Noise == <<"noise", 0>>
Answered == master = "wait" /\ reply # "none"

(* How long the line has been at rest; a master that hears has no time pass.  *)
Rested == IF master = "wait" THEN 0 ELSE since

(* Whatever is in the buffer, but noise, is of the request under way. *)
Frames ==
  /\ master \in {"send", "wait"} /\ asks \in Kind => size = Frame
  /\ \A i \in 1 .. Len(rxBuf) : rxBuf[i] # Noise =>
       /\ master \in {"send", "wait"} /\ asks \in Kind /\ at = applied
       /\ rxBuf[i][1] = asks /\ rxBuf[i][2] \in 1 .. sent

(* Nothing is received while the device transmits, nor after it is told to    *)
(* reset, and an answer is heard when it is over.                             *)
Exclusive ==
  /\ txState # "idle" \/ stage \in {"delay", "off"} => rxBuf = <<>>
  /\ de => txState # "idle"
  /\ stage \in {"compare", "stall", "off"} => txState = "idle"
  /\ stage = "delay" => boot
  /\ boot => stage \in {"command", "reset", "delay", "off"}
  /\ boot /\ stage # "off" => txState = "dma"
  /\ reply # "none" => master = "wait" /\ rxBuf = <<>> /\ left = 0

(* The last byte received is at least as old as the last one sent. *)
Ages ==
  /\ age = Gap \/ age >= since
  /\ stage = "compare" /\ ticked => ~round
  /\ stage = "compare" /\ seen < Gap => IF ticked THEN since <= seen + 1 ELSE since <= seen

(* A buffer that is not empty is looked at in time, a save included. *)
Prompt ==
  /\ stage = "stall" => busy <= Stall
  /\ rxBuf # <<>> =>
       /\ stage = "stall" => since + busy <= Stall + 1 /\ (round => since = 0)
       /\ stage = "command" /\ Waiting => since <= 1 /\ (round => since = 0)
       /\ stage \in {"command", "reset"} => since < Latest /\ (round => since + 1 < Latest)
       /\ stage \in {"poll", "compare"} => since <= Latest /\ (round => since < Latest)

(* The master waits for the whole of an answer, and it is cut off only by the  *)
(* port or the reset it was asked for.                                        *)
Answering ==
  left > 0 =>
    /\ master = "wait" /\ at = applied /\ reply = "none" /\ since + left <= Timeout
    /\ hr1 # applied => asks = "port"
    /\ boot => asks = "boot"

(* After an answer the driver is off within the second round of the loop.     *)
Draining ==
  txState # "idle" /\ left = 0 /\ stage # "delay" =>
    /\ Answered \/ master = "rest"
    /\ txState = "dma" => \/ Rested = 0 /\ (round => stage = "poll")
                          \/ Rested = 1 /\ stage = "poll" /\ ~round
    /\ txState = "tc" => \/ Rested = 0
                         \/ Rested = 1 /\ (round => stage = "poll")
                         \/ Rested = 2 /\ stage = "poll" /\ ~round

Timed == Frames /\ Exclusive /\ Ages /\ Prompt /\ Answering /\ Draining



(* Sums of times, which the provers do not find among other facts. *)
LEMMA AddBounds ==
  ASSUME NEW a \in Nat, NEW b \in Nat, NEW c \in Nat, NEW d \in Nat, a <= b, c <= d
  PROVE  c + a <= b + d
  OBVIOUS

LEMMA AtMost ==
  ASSUME NEW a \in Nat, NEW b \in Nat, NEW c \in Nat, NEW d \in Nat, a <= b, b + c <= d
  PROVE  a + c <= d
  OBVIOUS

LEMMA OnePassed ==
  ASSUME NEW a \in Nat, NEW b \in Nat, NEW c \in Nat \ {0}, NEW d \in Nat, b <= a + 1, a + c <= d
  PROVE  b + (c - 1) <= d
  OBVIOUS

(* A request is taken up after the gap, and after a save that came before it. *)
LEMMA LatestIsNat == Latest \in Nat /\ Latest > Gap /\ Latest > Stall + 1
  BY TransportAssumption DEF TransportAssumption, Latest

LEMMA TimesAreNat ==
  /\ Gap \in Nat /\ Stall \in Nat /\ BootDelay \in Nat /\ Pause \in Nat /\ Timeout \in Nat
  /\ Longest \in Nat
  BY TransportAssumption, LongestIsNat DEF TransportAssumption

(* A whole request in the buffer is the one the master waits for. *)
LEMMA RequestIsOwn ==
  ASSUME TInv, Timed, stage = "compare", NEW kind \in Kind, rxBuf = Bytes(kind)
  PROVE  /\ rxBuf # <<>> /\ master = "wait" /\ asks = kind /\ at = applied
         /\ reply = "none" /\ since <= Latest
<1>1. Len(rxBuf) = Frame /\ Frame \in Nat \ {0} /\ rxBuf[Frame] = <<kind, Frame>>
  BY TransportAssumption DEF TransportAssumption, Bytes
<1>2. kind # "noise" BY DEF Kind
<1>3. rxBuf[Frame] # Noise BY <1>1, <1>2 DEF Noise
<1>4. Frame \in 1 .. Len(rxBuf) BY <1>1
<1>5. /\ master \in {"send", "wait"} /\ asks \in Kind /\ at = applied
      /\ asks = kind /\ Frame \in 1 .. sent
  <2>1. /\ rxBuf[Frame][1] = asks /\ rxBuf[Frame][2] \in 1 .. sent
        /\ master \in {"send", "wait"} /\ asks \in Kind /\ at = applied
    BY <1>3, <1>4 DEF Timed, Frames
  <2> QED BY <1>1, <2>1
<1>6. master = "wait" BY <1>1, <1>5 DEF TInv, ClientTypes, Timed, Frames
<1>7. rxBuf # <<>> BY <1>1
<1> QED BY <1>5, <1>6, <1>7 DEF Timed, Exclusive, Prompt

(* Nothing is received while the device transmits. *)
LEMMA LoopExclusive ==
  ASSUME TInv, IInv, Timed, Loop PROVE Exclusive'
<1> USE DEF Timed, Exclusive, IInv, PortIsSettled, receiver, client
<1>1. CASE PollPort BY <1>1 DEF PollPort, tx_abort
<1>2. CASE PollDma BY <1>2 DEF PollDma, Polls
<1>3. CASE PollTc BY <1>3 DEF PollTc, Polls, tx_abort
<1>4. CASE PollIdle BY <1>4 DEF PollIdle, Polls
<1>5. CASE NotYet BY <1>5 DEF NotYet
<1>6. CASE ThrowAway BY <1>6 DEF ThrowAway
<1>7. ASSUME NEW kind \in Kind, Process(kind) PROVE Exclusive'
  <2>1. reply = "none" BY <1>7, RequestIsOwn DEF Process
  <2>2. boot' => stage' = "command" /\ txState' = "dma" BY <1>7 DEF Process
  <2> QED BY <1>7, <2>1, <2>2 DEF Process
<1>8. CASE Postpone BY <1>8 DEF Postpone, Taken, Leftover
<1>9. CASE RunSave BY <1>9 DEF RunSave, Taken, Leftover
<1>10. CASE RunReload BY <1>10 DEF RunReload, Taken, Leftover
<1>11. CASE StallEnds BY <1>11 DEF StallEnds
<1>12. CASE Around BY <1>12 DEF Around
<1>13. CASE ResetSystem BY <1>13 DEF ResetSystem, tx_abort
<1> QED
  BY <1>1, <1>2, <1>3, <1>4, <1>5, <1>6, <1>7, <1>8, <1>9, <1>10, <1>11, <1>12, <1>13 DEF Loop

(* The loop reads the age as it is. *)
LEMMA LoopAges ==
  ASSUME TInv, IInv, Timed, Loop PROVE Ages'
<1> USE DEF TInv, ReceiverTypes, ClientTypes, Timed, Ages, receiver, client
<1>1. CASE PollPort BY <1>1 DEF PollPort, tx_abort
<1>2. CASE PollDma BY <1>2 DEF PollDma, Polls
<1>3. CASE PollTc BY <1>3 DEF PollTc, Polls, tx_abort
<1>4. CASE PollIdle BY <1>4 DEF PollIdle, Polls
<1>5. CASE NotYet BY <1>5 DEF NotYet
<1>6. CASE ThrowAway BY <1>6 DEF ThrowAway
<1>7. ASSUME NEW kind \in Kind, Process(kind) PROVE Ages'
  BY <1>7 DEF Process
<1>8. CASE Postpone BY <1>8 DEF Postpone, Taken, Leftover
<1>9. CASE RunSave BY <1>9 DEF RunSave, Taken, Leftover
<1>10. CASE RunReload BY <1>10 DEF RunReload, Taken, Leftover
<1>11. CASE StallEnds BY <1>11 DEF StallEnds
<1>12. CASE Around BY <1>12 DEF Around
<1>13. CASE ResetSystem BY <1>13 DEF ResetSystem, tx_abort
<1> QED
  BY <1>1, <1>2, <1>3, <1>4, <1>5, <1>6, <1>7, <1>8, <1>9, <1>10, <1>11, <1>12, <1>13 DEF Loop

(* The loop looks at the buffer in time: a save begins in the round in which the
   buffer was found empty. *)
LEMMA LoopPrompt ==
  ASSUME TInv, IInv, Timed, Loop PROVE Prompt'
<1> USE LatestIsNat, TimesAreNat
        DEF TInv, DeviceTypes, ReceiverTypes, ClientTypes, IInv, CommandGoesFirst, Waiting, Timed,
            Ages, Exclusive, Prompt, receiver, client
<1>1. CASE PollPort BY <1>1 DEF PollPort, tx_abort
<1>2. CASE PollDma BY <1>2 DEF PollDma, Polls
<1>3. CASE PollTc BY <1>3 DEF PollTc, Polls, tx_abort
<1>4. CASE PollIdle BY <1>4 DEF PollIdle, Polls
<1>5. CASE NotYet BY <1>5 DEF NotYet
<1>6. CASE ThrowAway BY <1>6 DEF ThrowAway
<1>7. ASSUME NEW kind \in Kind, Process(kind) PROVE Prompt'
  BY <1>7 DEF Process
<1>8. CASE Postpone BY <1>8 DEF Postpone, Taken, Leftover
<1>9. CASE RunSave
  <2>1. stage = "command" /\ Waiting BY <1>9 DEF RunSave, Taken
  <2>2. rxBuf # <<>> => since <= 1 /\ (round => since = 0) BY <2>1
  <2>3. stage' = "stall" /\ busy' \in 0 .. Stall /\ UNCHANGED <<rxBuf, since, round>>
    BY <1>9 DEF RunSave
  <2>4. since \in Nat /\ busy' <= Stall /\ busy' \in Nat /\ Stall \in Nat
    BY <2>3, LongestIsNat, TransportAssumption DEF TransportAssumption
  <2>5. rxBuf # <<>> => since' + busy' <= Stall + 1
    <3> HIDE DEF TInv, IInv, Timed
    <3>1. rxBuf # <<>> => since + busy' <= Stall + 1 BY <2>2, <2>4, AddBounds
    <3>2. since' = since BY <2>3
    <3> QED BY <3>1, <3>2
  <2>6. rxBuf # <<>> /\ round' => since' = 0 BY <2>2, <2>3, Zenon
  <2> QED BY <2>3, <2>4, <2>5, <2>6 DEF Prompt
<1>10. CASE RunReload BY <1>10 DEF RunReload, Taken, Leftover
<1>11. CASE StallEnds BY <1>11 DEF StallEnds
<1>12. CASE Around BY <1>12 DEF Around
<1>13. CASE ResetSystem BY <1>13 DEF ResetSystem, tx_abort
<1> QED
  BY <1>1, <1>2, <1>3, <1>4, <1>5, <1>6, <1>7, <1>8, <1>9, <1>10, <1>11, <1>12, <1>13 DEF Loop

(* An answer is begun while the master waits, and for a request of its own. *)
LEMMA LoopAnswering ==
  ASSUME TInv, IInv, Timed, Loop PROVE Answering'
<1> USE DEF TInv, DeviceTypes, Timed, Answering, Exclusive, IInv, PortIsSettled, client
<1>1. CASE PollPort BY <1>1 DEF PollPort, tx_abort
<1>2. CASE PollDma BY <1>2 DEF PollDma, Polls
<1>3. CASE PollTc BY <1>3 DEF PollTc, Polls, tx_abort
<1>4. CASE PollIdle BY <1>4 DEF PollIdle, Polls
<1>5. CASE NotYet BY <1>5 DEF NotYet
<1>6. CASE ThrowAway BY <1>6 DEF ThrowAway
<1>7. ASSUME NEW kind \in Kind, Process(kind) PROVE Answering'
  <2>1. stage = "compare" /\ rxBuf = Bytes(kind) /\ left' \in AnswerTime[applied]
    BY <1>7 DEF Process
  <2>2. /\ master = "wait" /\ asks = kind /\ at = applied
        /\ reply = "none" /\ since <= Latest
    BY <2>1, RequestIsOwn
  <2>3. left' \in Nat /\ Latest + left' <= Timeout
    BY <2>1, TransportAssumption, TimesAssumption DEF TransportAssumption
  <2>4. since + left' <= Timeout
    <3>1. since \in Nat BY LongestIsNat DEF ClientTypes
    <3> HIDE DEF TInv, DeviceTypes, Timed, Answering, Exclusive, IInv, PortIsSettled
    <3>2. Timeout \in Nat /\ since <= Latest BY <2>2, TimesAreNat
    <3> QED BY <2>3, <3>1, <3>2, LatestIsNat, AtMost
  <2>5. hr1 = applied /\ ~boot BY <2>1
  <2> QED BY <1>7, <2>2, <2>4, <2>5 DEF Process
<1>8. CASE Postpone BY <1>8 DEF Postpone, Taken, Leftover
<1>9. CASE RunSave BY <1>9 DEF RunSave, Taken, Leftover
<1>10. CASE RunReload BY <1>10 DEF RunReload, Taken, Leftover
<1>11. CASE StallEnds BY <1>11 DEF StallEnds
<1>12. CASE Around BY <1>12 DEF Around
<1>13. CASE ResetSystem BY <1>13 DEF ResetSystem, tx_abort
<1> QED
  BY <1>1, <1>2, <1>3, <1>4, <1>5, <1>6, <1>7, <1>8, <1>9, <1>10, <1>11, <1>12, <1>13 DEF Loop

(* Each round after an answer brings the transmitter one step on. *)
LEMMA LoopDraining ==
  ASSUME TInv, IInv, Timed, Loop PROVE Draining'
<1> USE DEF TInv, DeviceTypes, ClientTypes, Flags, IInv, PortIsSettled, Timed, Exclusive,
         Answering, Draining, Rested, Answered, client
<1>1. CASE PollPort BY <1>1 DEF PollPort, tx_abort
<1>2. CASE PollDma BY <1>2 DEF PollDma, Polls
<1>3. CASE PollTc BY <1>3 DEF PollTc, Polls, tx_abort
<1>4. CASE PollIdle BY <1>4 DEF PollIdle, Polls
<1>5. CASE NotYet BY <1>5 DEF NotYet
<1>6. CASE ThrowAway BY <1>6 DEF ThrowAway
<1>7. ASSUME NEW kind \in Kind, Process(kind) PROVE Draining'
  BY <1>7, TransportAssumption DEF TransportAssumption, Process
<1>8. CASE Postpone BY <1>8 DEF Postpone, Taken, Leftover
<1>9. CASE RunSave BY <1>9 DEF RunSave, Taken, Leftover
<1>10. CASE RunReload BY <1>10 DEF RunReload, Taken, Leftover
<1>11. CASE StallEnds BY <1>11 DEF StallEnds
<1>12. CASE Around BY <1>12 DEF Around
<1>13. CASE ResetSystem BY <1>13 DEF ResetSystem, tx_abort
<1> QED
  BY <1>1, <1>2, <1>3, <1>4, <1>5, <1>6, <1>7, <1>8, <1>9, <1>10, <1>11, <1>12, <1>13 DEF Loop

(* The loop takes nothing out of the buffer but all of it. *)
LEMMA LoopFrames ==
  ASSUME Timed, Loop PROVE Frames'
<1>1. UNCHANGED <<client, harm>>
  BY DEF Loop, PollPort, PollDma, PollTc, PollIdle, NotYet, ThrowAway, Process,
         Postpone, RunSave, RunReload, StallEnds, Around, ResetSystem
<1>2. rxBuf' = <<>> \/ (rxBuf' = rxBuf /\ applied' = applied)
  BY DEF Loop, PollPort, PollDma, PollTc, PollIdle, NotYet, ThrowAway, Process,
         Postpone, RunSave, RunReload, StallEnds, Around, ResetSystem, receiver
<1>3. CASE rxBuf' = <<>>
  BY <1>1, <1>3 DEF Timed, Frames, client
<1>4. CASE rxBuf' = rxBuf /\ applied' = applied BY <1>1, <1>4 DEF Timed, Frames, client
<1> QED BY <1>2, <1>3, <1>4

(* The buffer is empty when the master gives up. *)
LEMMA LateIsEmpty ==
  ASSUME TInv, Timed, since > Latest PROVE rxBuf = <<>>
  BY LatestIsNat, TimesAreNat
     DEF TInv, DeviceTypes, ClientTypes, Stage, Timed, Exclusive, Prompt

(* A frame is begun only when the driver is off. *)
LEMMA StartTimed ==
  ASSUME TInv, IInv, Timed, NEW kind \in Kind \cup {"other"}, NEW n \in Nat,
         Starts(kind, n), kind \in Kind => n = Frame,
         \/ master = "rest" /\ since > Gap
         \/ master = "retry"
  PROVE  Timed'
<1> USE DEF Timed, Starts
<1>0. Gap >= 2 /\ Gap \in Nat /\ since \in Nat /\ reply = "none"
  BY TimesAssumption, TimesAreNat DEF Exclusive, TInv, ClientTypes
<1>1. Frames'
  <2>1. \A i \in 1 .. Len(rxBuf) : rxBuf[i] = Noise BY DEF Frames
  <2> QED BY <2>1 DEF Frames, receiver
<1>2. Exclusive' BY <1>0 DEF Exclusive, device, receiver
<1>3. Ages' BY TimesAreNat DEF TInv, ReceiverTypes, Ages, device, receiver
<1>4. Prompt'
  BY LatestIsNat, TimesAreNat, TimesAssumption
     DEF TInv, DeviceTypes, Prompt, Waiting, device, receiver
<1>5. Answering' BY DEF Answering, device
<1>6. Draining'
  <2>1. ~(txState # "idle" /\ left = 0 /\ stage # "delay")
    BY <1>0 DEF Draining, Rested, Answered, TInv, DeviceTypes
  <2> QED BY <2>1 DEF Draining, device
<1> QED BY <1>1, <1>2, <1>3, <1>4, <1>5, <1>6

(* A byte is sent only when the driver is off, and is appended or is noise. *)
LEMMA SendTimed ==
  ASSUME TInv, IInv, Timed, SendByte, Receive(Byte) \/ UNCHANGED receiver
  PROVE  Timed'
<1> USE DEF Timed
<1>0. /\ since' = 0 /\ master = "send" /\ reply = "none" /\ reply' = "none" /\ left = 0
      /\ UNCHANGED device
  BY DEF SendByte, Exclusive, Answering, TInv, DeviceTypes
<1>1. txState # "idle" => stage = "delay"
  BY <1>0 DEF Draining, Answered
<1>2. Frames'
  <2>0. /\ sent \in Nat /\ sent' = sent + 1 /\ UNCHANGED <<at, asks, size, applied>>
        /\ asks \in Kind => master' \in {"send", "wait"}
    BY DEF SendByte, device, TInv, ClientTypes, Kind
  <2>1. rxBuf' \in {rxBuf, <<>>, Append(rxBuf, Byte)} /\ rxBuf \in Seq(Heard)
    BY DEF Receive, receiver, TInv, ReceiverTypes
  <2>2. Byte # Noise => asks \in Kind /\ at = applied /\ Byte = <<asks, sent + 1>>
    BY DEF Byte, Noise, TInv, ClientTypes
  <2>3. CASE rxBuf' = rxBuf BY <1>0, <2>0, <2>3 DEF Frames
  <2>4. CASE rxBuf' = <<>> BY <1>0, <2>0, <2>4 DEF Frames
  <2>5. CASE rxBuf' = Append(rxBuf, Byte)
    <3>1. ASSUME NEW i \in 1 .. Len(rxBuf'), rxBuf'[i] # Noise
          PROVE  /\ asks \in Kind /\ at = applied
                 /\ rxBuf'[i][1] = asks /\ rxBuf'[i][2] \in 1 .. sent'
      <4>1. CASE i \in 1 .. Len(rxBuf)
        <5>1. rxBuf'[i] = rxBuf[i] BY <2>1, <2>5, <4>1
        <5> QED BY <2>0, <3>1, <4>1, <5>1 DEF Frames
      <4>2. CASE i = Len(rxBuf) + 1
        <5>1. rxBuf'[i] = Byte BY <2>1, <2>5, <4>2
        <5> QED BY <2>0, <2>2, <3>1, <5>1
      <4> QED BY <2>1, <2>5, <4>1, <4>2
    <3> QED BY <1>0, <2>0, <3>1 DEF Frames
  <2> QED BY <2>1, <2>3, <2>4, <2>5
<1>3. Exclusive'
  <2>1. txState # "idle" \/ stage = "off" => rxBuf' = <<>>
    BY DEF Exclusive, Receive, receiver
  <2>2. stage = "delay" => txState # "idle" BY DEF Exclusive
  <2> QED BY <1>0, <2>1, <2>2 DEF Exclusive, device
<1>4. Ages'
  <2>1. age' \in Nat /\ seen' \in Nat /\ ticked' = ticked
    BY TimesAreNat DEF Receive, receiver, TInv, ReceiverTypes
  <2>2. (stage = "compare" /\ ticked => ~round)' BY <1>0, <2>1, Zenon DEF Ages, device
  <2>5. \A n \in Nat : 0 <= n /\ 0 <= n + 1 OBVIOUS
  <2>3. since' <= seen' + 1 /\ since' <= seen' BY <1>0, <2>1, <2>5
  <2>4. age' >= since' BY <1>0, <2>1
  <2> QED BY <2>2, <2>3, <2>4 DEF Ages
<1>5. Prompt'
  BY <1>0, LatestIsNat, TimesAreNat, TimesAssumption
       DEF TInv, DeviceTypes, Prompt, Waiting, device
<1>6. Answering' /\ Draining' BY <1>0, <1>1 DEF Answering, Draining, device
<1> QED BY <1>2, <1>3, <1>4, <1>5, <1>6

(* The steps of the master keep the times. *)
LEMMA MasterTimed ==
  ASSUME TInv, IInv, Timed, Master \/ LoseByte PROVE Timed'
<1> USE DEF TInv, Timed
<1>0. /\ Pause > Gap /\ Timeout > Latest /\ Burst \in Nat /\ Frame \in Nat /\ Kinds \subseteq Kind
      /\ since \in Nat
  BY TransportAssumption, TimesAssumption, LatestIsNat, TimesAreNat
     DEF TransportAssumption, ClientTypes
<1>1. ASSUME NEW kind \in Kinds, Begin(kind) PROVE Timed'
  <2>1. since > Gap BY <1>0, <1>1, TimesAreNat DEF Begin
  <2> QED BY <1>0, <1>1, <2>1, StartTimed DEF Begin
<1>2. ASSUME NEW n \in 1 .. Burst, TalkToOther(n) PROVE Timed'
  <2>1. n \in Nat /\ "other" \notin Kind BY <1>0 DEF Kind
  <2> QED BY <1>2, <2>1, StartTimed DEF TalkToOther
<1>3. CASE Repeat BY <1>0, <1>3, StartTimed DEF Repeat, ClientTypes
<1>4. CASE Arrives \/ Overrun \/ LoseByte
  BY <1>4, SendTimed DEF Arrives, Overrun, LoseByte
<1>5. CASE Hear \/ GiveUp \/ StartOver
  <2>1. UNCHANGED <<device, receiver, at, asks, size>> /\ master' \notin {"send", "wait"}
    BY <1>5 DEF Hear, GiveUp, StartOver
  <2>2. since' \in {0, since} /\ reply' = "none"
    BY <1>5 DEF Hear, GiveUp, StartOver, Exclusive
  <2>3. left = 0
    <3>1. GiveUp => since = Timeout /\ reply = "none" BY DEF GiveUp
    <3> QED BY <1>0, <1>5, <3>1 DEF Hear, GiveUp, StartOver, Answering, DeviceTypes
  <2>4. Frames'
    <3>1. \A i \in 1 .. Len(rxBuf) : rxBuf[i] = Noise
      <4>1. CASE Hear BY <4>1 DEF Hear, Exclusive
      <4>2. CASE GiveUp
        <5>1. since > Latest BY <1>0, <4>2 DEF GiveUp
        <5> QED BY <5>1, LateIsEmpty
      <4>3. CASE StartOver BY <4>3 DEF StartOver, Frames
      <4> QED BY <1>5, <4>1, <4>2, <4>3
    <3> QED BY <2>1, <3>1 DEF Frames, receiver
  <2>5. Exclusive' BY <2>1, <2>2 DEF Exclusive, device, receiver
  <2>6. Ages' BY <1>0, <2>1, <2>2, TimesAreNat DEF Ages, ReceiverTypes, device, receiver
  <2>7. Prompt'
    <3>1. CASE since' = 0
      BY <2>1, <3>1, LatestIsNat, TimesAreNat, TimesAssumption
         DEF DeviceTypes, Prompt, Waiting, device, receiver
    <3>2. CASE since' = since
      BY <2>1, <3>2 DEF Prompt, Waiting, device, receiver
    <3> QED BY <2>2, <3>1, <3>2
  <2>8. Answering' BY <2>1, <2>3 DEF Answering, device
  <2>9. Draining'
    <3>1. ~Hear => ~(txState # "idle" /\ left = 0 /\ stage # "delay")
      BY <1>5 DEF GiveUp, StartOver, Draining, Answered
    <3>2. Hear => Rested = 0 /\ master' = "rest" /\ Rested' = 0
      BY DEF Hear, Rested
    <3> QED BY <2>1, <3>1, <3>2 DEF Draining, device
  <2> QED BY <2>4, <2>5, <2>6, <2>7, <2>8, <2>9
<1> QED BY <1>1, <1>2, <1>3, <1>4, <1>5 DEF Master

(* A millisecond passes only when the loop has come round or is stalled. *)
LEMMA TickTimed ==
  ASSUME TInv, IInv, Timed, Tick PROVE Timed'
<1> USE DEF TInv, Timed
<1>0. /\ since \in Nat /\ since' \in {since, since + 1} /\ round' = FALSE
      /\ UNCHANGED <<rxBuf, seen, txState, de, applied, hr1, command, pending, boot, stage>>
      /\ UNCHANGED <<master, at, asks, sent, size>>
      /\ reply = "none"
  BY TimesAreNat DEF Tick, MayTick, ClientTypes
<1>1. Frames' BY <1>0 DEF Frames
<1>2. Exclusive' BY <1>0 DEF Tick, Exclusive, DeviceTypes
<1>3. Ages'
  <2>1. age' = Gap \/ age' >= since'
    BY <1>0, TimesAreNat DEF Tick, Ages, ReceiverTypes
  <2>2. stage = "compare" => ~ticked BY DEF Tick, MayTick, Ages
  <2>3. stage = "compare" => ticked' = TRUE BY DEF Tick
  <2> QED BY <1>0, <2>1, <2>2, <2>3 DEF Ages, ReceiverTypes
<1>4. Prompt'
  <2>1. CASE stage \in {"stall", "delay"}
    BY <1>0, <2>1, TimesAreNat DEF Tick, MayTick, Prompt, Exclusive, DeviceTypes
  <2>2. CASE stage = "off" BY <1>0, <2>2 DEF Exclusive, Prompt
  <2>3. CASE stage \notin {"stall", "delay", "off"}
    <3>1. round BY <2>3 DEF Tick, MayTick
    <3>2. CASE rxBuf = <<>> BY <1>0, <2>3, <3>2 DEF Prompt
    <3>3. CASE rxBuf # <<>>
      <4>1. /\ stage = "command" /\ Waiting => since = 0
            /\ stage \in {"command", "reset"} => since + 1 < Latest
            /\ stage \in {"poll", "compare"} => since < Latest
        BY <3>1, <3>3 DEF Prompt
      <4>2. /\ stage = "command" /\ Waiting => since' <= 1
            /\ stage \in {"command", "reset"} => since' < Latest
            /\ stage \in {"poll", "compare"} => since' <= Latest
        BY <1>0, <4>1, LatestIsNat
      <4> QED BY <1>0, <2>3, <4>2 DEF Prompt, Waiting
    <3> QED BY <3>2, <3>3
  <2> QED BY <2>1, <2>2, <2>3
<1>5. Answering'
  BY <1>0, TimesAreNat DEF Tick, Answering, DeviceTypes
<1>6. Draining'
  <2>1. CASE left = 0
    <3>1. left' = 0 /\ reply' = "none" BY <2>1 DEF Tick
    <3>2. CASE txState # "idle" /\ stage # "delay"
      <4>1. master = "rest" /\ round
        BY <1>0, <2>1, <3>2
           DEF Draining, Answered, Tick, MayTick, Exclusive
      <4>2. 2 < Longest /\ Longest \in Nat BY LongestIsNat, TimesAreNat, LatestIsNat, TimesAssumption
      <4> QED BY <1>0, <2>1, <3>1, <3>2, <4>1, <4>2 DEF Draining, Rested, Tick
    <3> QED BY <1>0, <3>2 DEF Draining
  <2>2. CASE left = 1
    <3>1. Answered' BY <1>0, <2>2 DEF Tick, Answering, Answered, ClientTypes, Kind
    <3> QED BY <1>0, <3>1 DEF Draining, Rested, Answered, DeviceTypes
  <2>3. CASE left > 1 BY <2>3 DEF Tick, Draining, DeviceTypes
  <2> QED BY <2>1, <2>2, <2>3 DEF DeviceTypes
<1> QED BY <1>1, <1>2, <1>3, <1>4, <1>5, <1>6

LEMMA InitTimed == Init => Timed
<1> SUFFICES ASSUME Init PROVE Timed
  OBVIOUS
<1> USE DEF Init
<1>1. Frames BY DEF Frames, Kind
<1>2. Exclusive /\ Prompt BY DEF Exclusive, Prompt
<1>3. Ages /\ Answering /\ Draining
  BY TransportAssumption
     DEF TransportAssumption, Ages, Answering, Draining
<1> QED BY <1>1, <1>2, <1>3 DEF Timed

LEMMA StepKeepsTimed == TInv /\ IInv /\ Timed /\ [Next]_vars => Timed'
<1> SUFFICES ASSUME TInv, IInv, Timed, [Next]_vars PROVE Timed'
  OBVIOUS
<1>1. CASE Loop
  BY <1>1, LoopFrames, LoopExclusive, LoopAges, LoopPrompt, LoopAnswering, LoopDraining
       DEF Timed
<1>2. CASE Master \/ LoseByte BY <1>2, MasterTimed
<1>3. CASE Tick BY <1>3, TickTimed
<1>4. CASE Idle \/ UNCHANGED vars
  <2>1. UNCHANGED vars BY <1>4 DEF Idle
  <2> QED
    BY <2>1 DEF vars, device, receiver, client, harm, Timed, Frames, Exclusive, Ages, Prompt,
                Answering, Draining, Waiting, Rested, Answered
<1> QED BY <1>1, <1>2, <1>3, <1>4 DEF Next

(* The driver of the line is off again before anyone may be asked, whatever    *)
(* the sizes, speeds and times; of the wait before the reset see NeverCollides. *)
THEOREM LineIsShared == Spec => []NoCollision
<1>1. TInv /\ Timed => NoCollision
  BY DEF TInv, DeviceTypes, Timed, Exclusive, Answering, Draining, Answered, NoCollision
<1> QED
  BY InitTInv, InitIInv, InitTimed, StepKeepsTInv, StepKeepsIInv, StepKeepsTimed, <1>1, PTL
       DEF Spec

(* An answer is cut off only by the port it changes itself or by the reset    *)
(* into the bootloader it acknowledges: never by another poll, a save or a    *)
(* reload.                                                                    *)
THEOREM AnswersAreWhole == Spec => AnswerIsWhole
<1>1. TInv /\ Timed /\ [Next]_vars => [left > 0 /\ ~de' => asks \in {"port", "boot"}]_vars
  <2> SUFFICES ASSUME TInv, Timed, Next, left > 0, ~de' PROVE asks \in {"port", "boot"}
    OBVIOUS
  <2>1. de /\ txState # "idle" BY Zenon DEF TInv, DriverIsOn, DeviceTypes
  <2>2. CASE PollPort BY <2>2 DEF PollPort, Timed, Answering
  <2>3. CASE ResetSystem BY <2>3 DEF ResetSystem, Timed, Exclusive, Answering
  <2>4. CASE PollTc
    <3>1. left # 0 BY DEF TInv, DeviceTypes
    <3> QED BY <2>1, <2>4, <3>1 DEF PollTc
  <2>5. CASE PollIdle BY <2>1, <2>5 DEF PollIdle, Polls
  <2>6. ASSUME NEW kind \in Kind, Process(kind) PROVE FALSE BY <2>6 DEF Process
  <2>7. CASE PollDma \/ NotYet \/ ThrowAway \/ Postpone \/ RunSave \/ RunReload \/ StallEnds \/ Around
    BY <2>1, <2>7
       DEF PollDma, NotYet, ThrowAway, Postpone, RunSave, RunReload, StallEnds, Around
  <2>8. CASE Master \/ LoseByte
    BY <2>1, <2>8 DEF Master, Begin, TalkToOther, Starts, Repeat, Arrives, Overrun, SendByte,
                      Hear, GiveUp, StartOver, LoseByte, device
  <2>9. CASE Tick \/ Idle BY <2>1, <2>9 DEF Tick, Idle, vars, device
  <2> QED BY <2>2, <2>3, <2>4, <2>5, <2>6, <2>7, <2>8, <2>9 DEF Next, Loop
<1> QED
  BY InitTInv, InitIInv, InitTimed, StepKeepsTInv, StepKeepsIInv, StepKeepsTimed, <1>1, PTL
     DEF Spec, AnswerIsWhole
-------------------------------------------------------------------------------
(* What a request that nothing has hit goes through.  While the device is busy *)
(* with an earlier one, the master waits for its answer, or has heard it and  *)
(* keeps its pause; other devices may be asked meanwhile.                     *)
Mild == {"read", "save", "reload"}
Free == master = "rest" \/ (master = "send" /\ asks = "other")

Occupied ==
  Waiting \/ stage \in {"stall", "delay"} \/ hr1 # applied \/ txState # "idle"

InTurn == Occupied /\ stage # "off" => left > 0 \/ Answered \/ Free

(* How soon after an answer the device is done with what was asked for. *)
BootWindow ==
  /\ stage \in {"delay", "off"} => boot
  /\ boot => ~Waiting /\ hr1 = applied
  /\ boot /\ stage \in {"command", "reset"} /\ left = 0 => Rested = 0 /\ ~round
  /\ stage = "delay" => Rested + busy <= BootDelay

CommandWindow ==
  Waiting /\ txState = "idle" => stage = "command" /\ Rested <= 2 /\ (round => Rested <= 1)

StallWindow == stage = "stall" => Rested + busy <= Stall + 2

PortWindow ==
  hr1 # applied /\ txState = "idle" =>
    \/ stage = "reset" /\ Rested <= 2 /\ (round => Rested <= 1)
    \/ stage = "poll" /\ Rested <= 3 /\ (round => Rested <= 2)

Windows == BootWindow /\ CommandWindow /\ StallWindow /\ PortWindow

(* The loop goes on from a buffer that overflowed under its comparison.       *)
EmptyCompare == stage = "compare" /\ rxBuf = <<>> => since <= 1 /\ (round => since = 0)

(* A request goes to the port in use, and every byte of it is received in its *)
(* place, or a fault has hit it.                                              *)
OwnPort ==
  /\ stage = "off" => /\ master \in {"retry", "failed"} => asks = "boot"
                      /\ master = "wait" /\ reply = "none" => asks = "boot"
                      /\ master = "send" => asks \in {"boot", "other"}
  /\ master \in {"send", "wait", "retry"} /\ asks \in Mild /\ reply = "none" =>
       at = applied /\ hr1 = applied

Unhurt == asks \in Mild /\ ~hurt /\ stage # "off"

Intact ==
  /\ master = "send" => since <= 1
  /\ master = "send" /\ Unhurt =>
       /\ rxBuf = [i \in 1 .. sent |-> <<asks, i>>] /\ (sent > 0 => age = since)
       /\ stage = "compare" => seen < Gap
  /\ master = "wait" /\ Unhurt /\ reply = "none" /\ left = 0 => rxBuf = Bytes(asks)

Served == InTurn /\ Windows /\ EmptyCompare /\ OwnPort /\ Intact /\ SilenceIsAFault

LEMMA InitServed == Init => Served
<1> SUFFICES ASSUME Init PROVE Served
  OBVIOUS
<1> USE DEF Init
<1>1. InTurn /\ Windows
  BY
       DEF InTurn, Occupied, Waiting, Windows, BootWindow, CommandWindow, StallWindow,
           PortWindow
<1>2. EmptyCompare /\ OwnPort /\ Intact /\ SilenceIsAFault
  BY DEF EmptyCompare, OwnPort, Mild, Intact, Unhurt, SilenceIsAFault
<1> QED BY <1>1, <1>2 DEF Served

LEMMA RestedIsNat == ASSUME ClientTypes PROVE Rested \in Nat /\ since \in Nat
  BY TimesAreNat DEF ClientTypes, Rested

(* The loop becomes busy with a request it answers, or with what waited for its answer. *)
LEMMA LoopInTurn ==
  ASSUME TInv, IInv, Timed, Served, Loop PROVE InTurn'
<1> USE TransportAssumption
     DEF TransportAssumption, TInv, DeviceTypes, IInv, OneWaits, AnswerGoesOut, Waiting,
         Timed, Exclusive, Served, InTurn, Occupied, Answered, Free, client
<1>1. CASE PollPort BY <1>1 DEF PollPort, tx_abort
<1>2. CASE PollDma BY <1>2 DEF PollDma, Polls
<1>3. CASE PollTc BY <1>3 DEF PollTc, Polls, tx_abort
<1>4. CASE PollIdle BY <1>4 DEF PollIdle, Polls
<1>5. CASE NotYet BY <1>5 DEF NotYet
<1>6. CASE ThrowAway BY <1>6 DEF ThrowAway
<1>7. ASSUME NEW kind \in Kind, Process(kind) PROVE InTurn'
  BY <1>7 DEF Process
<1>8. CASE Postpone BY <1>8 DEF Postpone, Taken, Leftover
<1>9. CASE RunSave BY <1>9 DEF RunSave, Taken, Leftover
<1>10. CASE RunReload BY <1>10 DEF RunReload, Taken, Leftover
<1>11. CASE StallEnds BY <1>11 DEF StallEnds
<1>12. CASE Around BY <1>12 DEF Around
<1>13. CASE ResetSystem BY <1>13 DEF ResetSystem, tx_abort
<1> QED
  BY <1>1, <1>2, <1>3, <1>4, <1>5, <1>6, <1>7, <1>8, <1>9, <1>10, <1>11, <1>12, <1>13 DEF Loop

(* A command is taken up in the round in which its answer has gone out. *)
LEMMA LoopWindows ==
  ASSUME TInv, IInv, Timed, Served, Loop PROVE Windows'
<1> USE TransportAssumption, RestedIsNat
     DEF TransportAssumption, TInv, DeviceTypes, IInv, OneWaits, AnswerGoesOut,
         CommandGoesFirst, PortIsSettled, Waiting, Timed, Exclusive, Draining, Answering,
         Served, Windows, BootWindow, CommandWindow, StallWindow, PortWindow, Rested, client
<1>1. CASE PollPort BY <1>1 DEF PollPort, tx_abort
<1>2. CASE PollDma BY <1>2 DEF PollDma, Polls
<1>3. CASE PollTc BY <1>3 DEF PollTc, Polls, tx_abort
<1>4. CASE PollIdle BY <1>4 DEF PollIdle, Polls
<1>5. CASE NotYet BY <1>5 DEF NotYet
<1>6. CASE ThrowAway BY <1>6 DEF ThrowAway
<1>7. ASSUME NEW kind \in Kind, Process(kind) PROVE Windows'
  BY <1>7 DEF Process
<1>8. CASE Postpone BY <1>8 DEF Postpone, Taken, Leftover
<1>9. CASE RunSave BY <1>9 DEF RunSave, Taken, Leftover
<1>10. CASE RunReload BY <1>10 DEF RunReload, Taken, Leftover
<1>11. CASE StallEnds BY <1>11 DEF StallEnds
<1>12. CASE Around BY <1>12 DEF Around
<1>13. CASE ResetSystem BY <1>13 DEF ResetSystem, tx_abort
<1> QED
  BY <1>1, <1>2, <1>3, <1>4, <1>5, <1>6, <1>7, <1>8, <1>9, <1>10, <1>11, <1>12, <1>13 DEF Loop

(* The buffer the loop looks at is not empty. *)
LEMMA LoopEmptyCompare ==
  ASSUME TInv, IInv, Timed, Served, Loop PROVE EmptyCompare'
<1> USE DEF Served, EmptyCompare, receiver, client
<1>1. CASE PollPort BY <1>1 DEF PollPort, tx_abort
<1>2. CASE PollDma BY <1>2 DEF PollDma, Polls
<1>3. CASE PollTc BY <1>3 DEF PollTc, Polls, tx_abort
<1>4. CASE PollIdle BY <1>4 DEF PollIdle, Polls
<1>5. CASE NotYet BY <1>5 DEF NotYet
<1>6. CASE ThrowAway BY <1>6 DEF ThrowAway
<1>7. ASSUME NEW kind \in Kind, Process(kind) PROVE EmptyCompare'
  BY <1>7 DEF Process
<1>8. CASE Postpone BY <1>8 DEF Postpone, Taken, Leftover
<1>9. CASE RunSave BY <1>9 DEF RunSave, Taken, Leftover
<1>10. CASE RunReload BY <1>10 DEF RunReload, Taken, Leftover
<1>11. CASE StallEnds BY <1>11 DEF StallEnds
<1>12. CASE Around BY <1>12 DEF Around
<1>13. CASE ResetSystem BY <1>13 DEF ResetSystem, tx_abort
<1> QED
  BY <1>1, <1>2, <1>3, <1>4, <1>5, <1>6, <1>7, <1>8, <1>9, <1>10, <1>11, <1>12, <1>13 DEF Loop

(* The port changes only when the master waits for it or keeps its pause. *)
LEMMA LoopOwnPort ==
  ASSUME TInv, IInv, Timed, Served, Loop PROVE OwnPort'
<1> USE DEF TInv, DeviceTypes, IInv, PortIsSettled, Waiting, Timed, Exclusive, Answering,
         Served, InTurn, Occupied, Answered, Free, OwnPort, Mild, client
<1>1. CASE PollPort BY <1>1 DEF PollPort, tx_abort
<1>2. CASE PollDma BY <1>2 DEF PollDma, Polls
<1>3. CASE PollTc BY <1>3 DEF PollTc, Polls, tx_abort
<1>4. CASE PollIdle BY <1>4 DEF PollIdle, Polls
<1>5. CASE NotYet BY <1>5 DEF NotYet
<1>6. CASE ThrowAway BY <1>6 DEF ThrowAway
<1>7. ASSUME NEW kind \in Kind, Process(kind) PROVE OwnPort'
  <2>1. asks = kind BY <1>7, RequestIsOwn DEF Process
  <2> QED BY <1>7, <2>1 DEF Process
<1>8. CASE Postpone BY <1>8 DEF Postpone, Taken, Leftover
<1>9. CASE RunSave BY <1>9 DEF RunSave, Taken, Leftover
<1>10. CASE RunReload BY <1>10 DEF RunReload, Taken, Leftover
<1>11. CASE StallEnds BY <1>11 DEF StallEnds
<1>12. CASE Around BY <1>12 DEF Around
<1>13. CASE ResetSystem BY <1>13 DEF ResetSystem, tx_abort
<1> QED
  BY <1>1, <1>2, <1>3, <1>4, <1>5, <1>6, <1>7, <1>8, <1>9, <1>10, <1>11, <1>12, <1>13 DEF Loop

(* The loop throws away no part of a request before it is whole. *)
LEMMA LoopIntact ==
  ASSUME TInv, IInv, Timed, Served, Loop PROVE Intact'
<1> USE TransportAssumption, TimesAssumption, RestedIsNat
     DEF TransportAssumption, TInv, DeviceTypes, ReceiverTypes, IInv, PortIsSettled,
         Waiting, Timed, Exclusive, Answering, Served, InTurn, Occupied, Answered, Free,
         OwnPort, Unhurt, Intact, Mild, Kind, receiver, client, harm
<1>1. CASE PollPort BY <1>1 DEF PollPort, tx_abort
<1>2. CASE PollDma BY <1>2 DEF PollDma, Polls
<1>3. CASE PollTc BY <1>3 DEF PollTc, Polls, tx_abort
<1>4. CASE PollIdle
  <2>1. ASSUME master = "send", Unhurt, rxBuf # <<>> PROVE age < Gap
    <3>1. rxBuf = [i \in 1 .. sent |-> <<asks, i>>] /\ since <= 1 BY <2>1
    <3>2. sent > 0
      <4>1. sent \in Nat BY DEF ClientTypes
      <4>2. sent = 0 => rxBuf = <<>> BY <3>1
      <4> QED BY <2>1, <4>1, <4>2
    <3> QED BY <2>1, <3>1, <3>2, TimesAreNat
  <2>2. UNCHANGED <<client, harm, rxBuf, age, left>> /\ stage' \in {"command", "compare"}
    BY <1>4 DEF PollIdle
  <2>3. stage' = "compare" => rxBuf # <<>> /\ seen' = age BY <1>4 DEF PollIdle
  <2>4. stage # "off" BY <1>4 DEF PollIdle, Polls
  <2> QED BY <2>1, <2>2, <2>3, <2>4
<1>5. CASE NotYet BY <1>5 DEF NotYet
<1>6. CASE ThrowAway BY <1>6 DEF ThrowAway
<1>7. ASSUME NEW kind \in Kind, Process(kind) PROVE Intact'
  BY <1>7 DEF Process
<1>8. CASE Postpone BY <1>8 DEF Postpone, Taken, Leftover
<1>9. CASE RunSave BY <1>9 DEF RunSave, Taken, Leftover
<1>10. CASE RunReload BY <1>10 DEF RunReload, Taken, Leftover
<1>11. CASE StallEnds BY <1>11 DEF StallEnds
<1>12. CASE Around BY <1>12 DEF Around
<1>13. CASE ResetSystem BY <1>13 DEF ResetSystem, tx_abort
<1> QED
  BY <1>1, <1>2, <1>3, <1>4, <1>5, <1>6, <1>7, <1>8, <1>9, <1>10, <1>11, <1>12, <1>13 DEF Loop

(* When the master begins a request the device is done with the one before.   *)
LEMMA DoneInPause ==
  ASSUME TInv, IInv, Timed, Served, master = "rest", since >= Pause
  PROVE  ~Occupied \/ stage = "off"
<1> SUFFICES ASSUME stage # "off" PROVE ~Occupied
  OBVIOUS
<1> USE DEF TInv, Timed, Served
<1>1. /\ since \in Nat /\ Rested = since /\ Pause \in Nat /\ Pause > Stall + 2 /\ Pause > 3
      /\ Pause > BootDelay /\ Stall \in Nat /\ BootDelay \in Nat
  BY RestedIsNat, LatestIsNat, TimesAreNat, TimesAssumption DEF Rested
<1>2. left = 0 BY DEF DeviceTypes, Answering
<1>3. stage \notin {"stall", "delay"}
  BY <1>1 DEF DeviceTypes, Windows, StallWindow, BootWindow
<1>4. txState = "idle" BY <1>1, <1>2, <1>3 DEF Draining, DeviceTypes
<1>5. ~Waiting BY <1>1, <1>4 DEF Windows, CommandWindow
<1>6. hr1 = applied BY <1>1, <1>4 DEF Windows, PortWindow
<1> QED BY <1>3, <1>4, <1>5, <1>6 DEF Occupied

(* Time rested does not grow in a step of the master. *)
LEMMA WindowsStay ==
  ASSUME TInv, Served, UNCHANGED device, Rested' \in {0, Rested} PROVE Windows'
<1> USE DEF Served, Windows, TInv
<1>0. /\ Rested \in Nat /\ Rested' \in Nat /\ Rested' <= Rested /\ busy \in Nat /\ busy' = busy
      /\ stage' = stage
  BY RestedIsNat DEF DeviceTypes, device
<1>1. ASSUME NEW limit \in Nat, Rested + busy <= limit PROVE Rested' + busy' <= limit
  <2>1. Rested' + busy <= limit BY <1>0, <1>1, AtMost
  <2> QED BY <1>0, <2>1
<1>2. BootWindow'
  <2>1. (stage = "delay" => Rested + busy <= BootDelay)'
    BY <1>0, <1>1, TimesAreNat DEF BootWindow
  <2>2. /\ (stage \in {"delay", "off"} => boot)'
        /\ (boot => ~Waiting /\ hr1 = applied)'
        /\ (boot /\ stage \in {"command", "reset"} /\ left = 0 => Rested = 0 /\ ~round)'
    BY <1>0 DEF BootWindow, Waiting, device
  <2> QED BY <2>1, <2>2 DEF BootWindow
<1>3. CommandWindow' BY <1>0 DEF CommandWindow, Waiting, device
<1>4. StallWindow'
  <2>1. Stall + 2 \in Nat BY TimesAreNat
  <2> QED BY <1>0, <1>1, <2>1 DEF StallWindow
<1>5. PortWindow' BY <1>0 DEF PortWindow, device
<1> QED BY <1>2, <1>3, <1>4, <1>5

(* The master does nothing to the device, and after each of its steps, but the
   decision to start over, the line is fresh. *)
LEMMA MasterRests ==
  ASSUME TInv, Master \/ LoseByte PROVE UNCHANGED device /\ Rested' \in {0, Rested}
<1>1. UNCHANGED device
  BY Zenon DEF Master, Begin, TalkToOther, Starts, Repeat, Arrives, Overrun, SendByte,
               Hear, GiveUp, StartOver, LoseByte
<1>2. since' = 0 \/ StartOver
  BY DEF Master, Begin, TalkToOther, Starts, Repeat, Arrives, Overrun, SendByte,
         Hear, GiveUp, LoseByte
<1>3. StartOver => Rested' = Rested BY DEF StartOver, Rested
<1> QED BY <1>1, <1>2, <1>3 DEF Rested

(* A request begins with an empty buffer and an idle device at its port. *)
LEMMA StartServed ==
  ASSUME TInv, IInv, Timed, Served, NEW kind \in Kind, Starts(kind, Frame),
         \/ master = "rest" /\ stage # "off" /\ at' = hr1
         \/ master = "retry" /\ at' = at /\ kind = asks,
         since >= Pause
  PROVE  (InTurn /\ EmptyCompare /\ OwnPort /\ Intact)'
<1> USE DEF Starts, TInv, Timed, Served
<1>0. since \in Nat /\ since > 1 /\ since > Latest /\ Frame \in Nat \ {0}
  BY RestedIsNat, LatestIsNat, TimesAreNat, TimesAssumption, TransportAssumption
       DEF TransportAssumption
<1>1. rxBuf = <<>> /\ reply = "none" /\ left = 0
  BY <1>0, LateIsEmpty DEF Exclusive, Answering, DeviceTypes
<1>2. ~Occupied \/ stage = "off"
  <2>1. CASE master = "rest" BY <2>1, DoneInPause
  <2>2. CASE master = "retry" BY <1>1, <2>2 DEF InTurn, Answered, Free
  <2> QED BY <2>1, <2>2
<1>3. stage # "compare" BY <1>0, <1>1 DEF EmptyCompare
<1>4. InTurn' BY <1>2 DEF InTurn, Occupied, Waiting, device
<1>5. EmptyCompare' BY <1>3 DEF EmptyCompare, device
<1>6. OwnPort' BY <1>1, <1>2 DEF OwnPort, Occupied, Mild, device
<1>7. Intact' BY <1>0, <1>1, <1>3 DEF Intact, device, receiver
<1> QED BY <1>4, <1>5, <1>6, <1>7

(* Other devices' traffic may begin while the device is still busy. *)
LEMMA OtherServed ==
  ASSUME TInv, Timed, Served, NEW n \in Nat, Starts("other", n), master = "rest", stage # "off"
  PROVE  (InTurn /\ EmptyCompare /\ OwnPort /\ Intact)'
<1> USE DEF Starts, TInv, Timed, Served
<1>1. InTurn' BY DEF InTurn, Free
<1>2. EmptyCompare' BY DEF EmptyCompare, device, receiver
<1>3. OwnPort' /\ Intact' BY DEF OwnPort, Intact, Unhurt, Mild, device
<1> QED BY <1>1, <1>2, <1>3

(* A byte of a request that no fault hits is appended in its place. *)
LEMMA ArrivesIntact ==
  ASSUME TInv, IInv, Timed, Served, Arrives, asks \in Mild, ~hurt', stage # "off"
  PROVE  /\ rxBuf' = [i \in 1 .. sent' |-> <<asks, i>>] /\ age' = 0
         /\ stage = "compare" => seen' < Gap
<1> USE DEF TInv, Timed, Served
<1>0. /\ master = "send" /\ sent' = sent + 1 /\ sent \in Nat /\ reply = "none" /\ left = 0
      /\ asks \in Kind /\ asks # "other" /\ Receive(Byte)
  BY DEF Arrives, SendByte, ClientTypes, Exclusive, Answering, DeviceTypes, Mild, Kind
<1>1. ~Occupied BY <1>0 DEF InTurn, Answered, Free
<1>2. at = applied BY <1>0 DEF OwnPort
<1>3. ~Misread /\ ~hurt BY Zenon DEF Arrives, Fault, harm
<1>4. rxBuf = [i \in 1 .. sent |-> <<asks, i>>] /\ (stage = "compare" => seen < Gap)
  BY <1>0, <1>3 DEF Intact, Unhurt
<1>5. Len(rxBuf) = sent /\ rxBuf \in Seq(Heard) BY <1>0, <1>4 DEF ReceiverTypes
<1>6. sent < RxSize
  BY <1>0, TransportAssumption DEF TransportAssumption, Frames, ClientTypes
<1>7. Byte = <<asks, sent + 1>> BY <1>0, <1>2 DEF Byte
<1>8. rxBuf' = Append(rxBuf, <<asks, sent + 1>>) /\ age' = 0
  BY <1>0, <1>1, <1>5, <1>6, <1>7 DEF Receive, Occupied
<1>9. stage = "compare" => seen' < Gap
  <2>1. Gap > 0 BY TimesAssumption, TimesAreNat
  <2> QED BY <1>0, <1>1, <1>3, <1>4, <1>5, <1>6, <2>1 DEF Receive, Occupied, Misread
<1>10. rxBuf' = [i \in 1 .. sent + 1 |-> <<asks, i>>]
  BY <1>0, <1>4, <1>8
<1> QED BY <1>0, <1>8, <1>9, <1>10

(* A byte goes to a device that listens, or it belongs to other traffic. *)
LEMMA SendServed ==
  ASSUME TInv, IInv, Timed, Served, Arrives \/ Overrun \/ LoseByte
  PROVE  (InTurn /\ EmptyCompare /\ OwnPort /\ Intact)'
<1> USE DEF TInv, Timed, Served
<1>0. /\ SendByte /\ UNCHANGED device /\ since' = 0 /\ master = "send" /\ reply = "none"
      /\ reply' = "none" /\ left = 0 /\ UNCHANGED <<at, asks, size>>
      /\ master' = IF sent + 1 < size THEN "send" ELSE IF asks = "other" THEN "rest" ELSE "wait"
  BY DEF Arrives, Overrun, LoseByte, SendByte, Exclusive, Answering, DeviceTypes
<1>1. InTurn' BY <1>0 DEF InTurn, Occupied, Answered, Free, Waiting, device
<1>2. EmptyCompare' BY <1>0 DEF EmptyCompare
<1>3. OwnPort' BY <1>0 DEF OwnPort, Mild, device
<1>4. Intact'
  <2>1. Overrun => asks = "other"
    BY <1>0 DEF Overrun, InTurn, Occupied, Answered, Free
  <2>2. LoseByte => hurt' = TRUE BY DEF LoseByte, Fault
  <2>3. asks \in Mild /\ ~hurt' => Arrives BY <2>1, <2>2 DEF Mild
  <2>4. asks \in Mild => /\ size = Frame /\ size \in Nat /\ sent \in Nat
                        /\ sent' = sent + 1 /\ sent + 1 <= size
    BY <1>0 DEF Mild, Kind, Frames, SendByte, ClientTypes
  <2>5. asks \in Mild /\ ~(sent + 1 < size) => sent' = Frame BY <2>4
  <2>6. asks \in Mild /\ ~hurt' /\ stage # "off" =>
          /\ rxBuf' = [i \in 1 .. sent' |-> <<asks, i>>] /\ age' = since'
          /\ stage = "compare" => seen' < Gap
    BY <1>0, <2>3, ArrivesIntact
  <2> QED BY <1>0, <2>4, <2>5, <2>6 DEF Intact, Unhurt, Bytes, Mild, device
<1> QED BY <1>1, <1>2, <1>3, <1>4

(* The master gives up a request only when a fault has hit it. *)
LEMMA GivesUpHurt ==
  ASSUME TInv, Timed, Served, GiveUp PROVE asks \in Mild => hurt
<1> USE DEF TInv, Timed, Served
<1>0. /\ master = "wait" /\ reply = "none" /\ since = Timeout /\ since \in Nat /\ since > Latest
  BY RestedIsNat, LatestIsNat, TimesAreNat, TimesAssumption DEF GiveUp
<1>1. left = 0 BY <1>0, TimesAreNat DEF Answering, DeviceTypes
<1>2. rxBuf = <<>> BY <1>0, LateIsEmpty
<1>3. Bytes(asks) # <<>>
  BY TransportAssumption DEF TransportAssumption, Bytes
<1>4. ~(asks \in Mild /\ ~hurt /\ stage # "off") BY <1>0, <1>1, <1>2, <1>3 DEF Intact, Unhurt
<1>5. stage = "off" => asks \notin Mild BY <1>0 DEF OwnPort, Mild
<1> QED BY <1>4, <1>5

(* The steps of the master keep what a request needs. *)
LEMMA MasterServed ==
  ASSUME TInv, IInv, Timed, Served, Master \/ LoseByte PROVE Served'
<1> USE DEF Served
<1>1. Windows' BY MasterRests, WindowsStay
<1>2. (InTurn /\ EmptyCompare /\ OwnPort /\ Intact)'
  <2>1. ASSUME NEW kind \in Kinds, Begin(kind)
        PROVE  (InTurn /\ EmptyCompare /\ OwnPort /\ Intact)'
    BY <2>1, StartServed, TransportAssumption DEF TransportAssumption, Begin
  <2>2. ASSUME NEW n \in 1 .. Burst, TalkToOther(n)
        PROVE  (InTurn /\ EmptyCompare /\ OwnPort /\ Intact)'
    BY <2>2, OtherServed, TransportAssumption DEF TransportAssumption, TalkToOther
  <2>3. CASE Repeat BY <2>3, StartServed DEF Repeat, TInv, ClientTypes
  <2>4. CASE Arrives \/ Overrun \/ LoseByte BY <2>4, SendServed
  <2>5. CASE Hear \/ GiveUp \/ StartOver
    <3>1. /\ UNCHANGED <<device, receiver, at, asks, sent, harm>> /\ reply' = "none"
          /\ master' \in {"rest", "retry", "failed"} /\ since' \in {0, since} /\ since \in Nat
      BY <2>5, TimesAreNat DEF Hear, GiveUp, StartOver, Timed, Exclusive, TInv, ClientTypes
    <3>2. InTurn'
      <4>1. CASE Hear \/ StartOver BY <4>1 DEF Hear, StartOver, InTurn, Free
      <4>2. CASE GiveUp
        <5>1. left = 0
          BY <4>2, TimesAreNat DEF GiveUp, TInv, DeviceTypes, Timed, Answering
        <5>2. ~Occupied \/ stage = "off" BY <4>2, <5>1 DEF GiveUp, InTurn, Answered, Free
        <5> QED BY <3>1, <5>2 DEF InTurn, Occupied, Waiting, device
      <4> QED BY <2>5, <4>1, <4>2
    <3>3. EmptyCompare' BY <3>1 DEF EmptyCompare, device, receiver
    <3>4. OwnPort' BY <2>5, <3>1 DEF Hear, GiveUp, StartOver, OwnPort, device
    <3>5. Intact' BY <3>1 DEF Intact
    <3> QED BY <3>2, <3>3, <3>4, <3>5
  <2> QED BY <2>1, <2>2, <2>3, <2>4, <2>5 DEF Master
<1>3. SilenceIsAFault'
  <2>1. CASE GiveUp
    <3>1. asks' = asks /\ hurt' = hurt BY <2>1 DEF GiveUp, harm
    <3> QED BY <2>1, <3>1, GivesUpHurt DEF SilenceIsAFault, Mild
  <2>2. CASE ~GiveUp
    BY <2>2 DEF SilenceIsAFault, Master, Begin, TalkToOther, Starts, Repeat, Arrives, Overrun,
                SendByte, Hear, StartOver, LoseByte, harm
  <2> QED BY <2>1, <2>2
<1> QED BY <1>1, <1>2, <1>3

(* The clock does not leave the device behind. *)
LEMMA TickServed ==
  ASSUME TInv, IInv, Timed, Served, Tick PROVE Served'
<1> USE DEF TInv, Timed, Served
<1>0. /\ since \in Nat /\ since' \in {since, since + 1} /\ round' = FALSE
      /\ UNCHANGED <<rxBuf, seen, txState, de, applied, hr1, command, pending, boot, stage>>
      /\ UNCHANGED <<master, at, asks, sent, size, harm>>
      /\ reply = "none"
  BY TimesAreNat DEF Tick, MayTick, ClientTypes
<1>1. /\ left \in Nat /\ busy \in Nat
      /\ left' = IF left > 0 THEN left - 1 ELSE 0
      /\ busy' = IF busy > 0 THEN busy - 1 ELSE 0
      /\ left = 1 => Answered'
      /\ left = 0 => reply' = "none"
      /\ stage \in {"stall", "delay"} => busy > 0
      /\ stage \notin {"stall", "delay", "off"} => round
  BY <1>0 DEF Tick, MayTick, DeviceTypes, Answering, Answered, ClientTypes, Kind
<1>2. /\ Rested \in Nat /\ Rested' \in {Rested, Rested + 1}
      /\ master = "wait" => Rested' = 0
  BY <1>0, RestedIsNat DEF Rested
<1>3. ASSUME NEW limit \in Nat, busy > 0, Rested + busy <= limit PROVE Rested' + busy' <= limit
  <2>1. busy' = busy - 1 /\ Rested' \in Nat /\ Rested' <= Rested + 1 /\ busy \in Nat \ {0}
    BY <1>1, <1>2, <1>3
  <2>2. Rested' + (busy - 1) <= limit BY <1>2, <1>3, <2>1, OnePassed
  <2> QED BY <2>1, <2>2
<1>4. InTurn' BY <1>0, <1>1 DEF InTurn, Occupied, Answered, Free, Waiting
<1>5. Windows'
  <2>1. BootWindow'
    <3>1. boot /\ stage \in {"command", "reset"} => left > 0 /\ master = "wait"
      BY <1>1 DEF Windows, BootWindow, Answering
    <3>2. (stage = "delay" => Rested + busy <= BootDelay)'
      BY <1>0, <1>1, <1>3, TimesAreNat DEF Windows, BootWindow
    <3>3. /\ (stage \in {"delay", "off"} => boot)'
          /\ (boot => ~Waiting /\ hr1 = applied)'
          /\ (boot /\ stage \in {"command", "reset"} /\ left = 0 => Rested = 0 /\ ~round)'
      BY <1>0, <1>2, <3>1 DEF Windows, BootWindow, Waiting
    <3> QED BY <3>2, <3>3 DEF BootWindow
  <2>2. CommandWindow' BY <1>0, <1>1, <1>2 DEF Windows, CommandWindow, Waiting
  <2>3. StallWindow'
    <3>1. Stall + 2 \in Nat BY TimesAreNat
    <3> QED BY <1>0, <1>1, <1>3, <3>1 DEF Windows, StallWindow
  <2>4. PortWindow' BY <1>0, <1>1, <1>2 DEF Windows, PortWindow
  <2> QED BY <2>1, <2>2, <2>3, <2>4 DEF Windows
<1>6. EmptyCompare' BY <1>0, <1>1 DEF EmptyCompare
<1>7. OwnPort' BY <1>0 DEF OwnPort, Tick, Exclusive
<1>8. Intact'
  <2>1. master = "send" => since = 0 /\ since' = 1
    BY <1>0, LongestIsNat, LatestIsNat, TimesAreNat, TimesAssumption DEF Tick, MayTick
  <2>2. age = 0 => age' = 1 BY TimesAreNat, TimesAssumption DEF Tick
  <2>3. left' = 0 /\ reply' = "none" => left = 0 BY <1>1 DEF Answered
  <2> QED BY <1>0, <2>1, <2>2, <2>3 DEF Intact, Unhurt, harm
<1>9. SilenceIsAFault' BY <1>0 DEF SilenceIsAFault, harm
<1> QED BY <1>4, <1>5, <1>6, <1>7, <1>8, <1>9

LEMMA StepKeepsServed == TInv /\ IInv /\ Timed /\ Served /\ [Next]_vars => Served'
<1> SUFFICES ASSUME TInv, IInv, Timed, Served, [Next]_vars PROVE Served'
  OBVIOUS
<1>1. CASE Loop
  <2>1. UNCHANGED <<client, harm>>
    BY <1>1 DEF Loop, PollPort, PollDma, PollTc, PollIdle, NotYet, ThrowAway, Process,
           Postpone, RunSave, RunReload, StallEnds, Around, ResetSystem
  <2>2. SilenceIsAFault' BY <2>1 DEF Served, SilenceIsAFault, client, harm
  <2> QED
    BY <1>1, <2>2, LoopInTurn, LoopWindows, LoopEmptyCompare, LoopOwnPort, LoopIntact
         DEF Served
<1>2. CASE Master \/ LoseByte BY <1>2, MasterServed
<1>3. CASE Tick BY <1>3, TickServed
<1>4. CASE Idle \/ UNCHANGED vars
  <2>1. UNCHANGED vars BY <1>4 DEF Idle
  <2> QED
    BY <2>1
         DEF vars, device, receiver, client, harm, Served, InTurn, Occupied, Waiting,
             Answered,
                Free, Windows, BootWindow, CommandWindow, StallWindow, PortWindow, Rested,
                EmptyCompare, OwnPort, Intact, Unhurt, SilenceIsAFault
<1> QED BY <1>1, <1>2, <1>3, <1>4 DEF Next

(* Of the requests that ask neither for another port nor for the bootloader,   *)
(* the master gives up only those a fault has hit: neither traffic for other  *)
(* devices, nor a full buffer, nor a save, a reload or a change of port       *)
(* before it costs an answer, whatever the sizes, speeds and times.           *)
THEOREM SilenceHasACause == Spec => []SilenceIsAFault
<1>1. Served => SilenceIsAFault BY DEF Served
<1> QED
  BY InitTInv, InitIInv, InitTimed, InitServed, StepKeepsTInv, StepKeepsIInv, StepKeepsTimed,
     StepKeepsServed, <1>1, PTL DEF Spec
===============================================================================
