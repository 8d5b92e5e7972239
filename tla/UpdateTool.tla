------------------------------ MODULE UpdateTool ------------------------------
(* modbus_update.py updating a device over a line that loses requests and     *)
(* answers, while the device may lose power at any moment.  The client asks   *)
(* again up to Tries times (modbus_client.py); an update that fails is        *)
(* started again by the operator.  The tool is one of the masters of Master.  *)
EXTENDS Master, Sequences

CONSTANTS
  Wanted,   \* images an operator may want on the device
  Tries,    \* attempts per request: 3 in modbus_client.py
  Faults,   \* kinds of fault that happen: subset of FaultKind
  MaxFaults \* bound: how many happen

FaultKind == {"request", "answer", "power"}

ASSUME ToolAssumption ==
  /\ Wanted \subseteq Image /\ Tries \in Nat \ {0}
  /\ Faults \subseteq FaultKind /\ MaxFaults \in Nat

(* The masters of Master may send what the tool does. *)
ASSUME SaysAssumption ==
  \A i \in Wanted :
     /\ {i.size, i.id} \cup 1 .. i.size \subseteq Number
     /\ {Part(i, b) : b \in 1 .. i.size} \subseteq Data

VARIABLES
  target,  \* the image file given to the tool
  step,    \* the request the tool is at, "done" or "failed"
  block,   \* the chunk being transferred
  waiting, \* a request has been sent and not yet answered
  tries,   \* attempts at the present request
  faults   \* how many faults of each kind there were

toolVars == <<target, step, block, waiting, tries>>
vars == <<deviceVars, lineVars, toolVars, faults>>

Steps ==
  {"mode", "enter", "await_boot", "size", "crc", "begin", "begin?", "erase", "erase?",
   "offset", "words", "chunk", "write", "write?", "verify", "verify?", "run", "await_app"}

TypeOK ==
  /\ DeviceTypeOK
  /\ target \in Image
  /\ step \in Steps \cup {"done", "failed"} /\ block \in Block
  /\ waiting \in BOOLEAN /\ tries \in 0 .. Tries
  /\ faults \in [FaultKind -> 0 .. MaxFaults]

-------------------------------------------------------------------------------
Ask ==
  CASE step \in {"mode", "await_boot", "await_app"} -> [Quiet EXCEPT !.op = "read", !.reg = "mode"]
    [] step \in {"begin?", "erase?", "write?", "verify?"} ->
         [Quiet EXCEPT !.op = "read", !.reg = "status"]
    [] step \in Command -> [Quiet EXCEPT !.op = "command", !.reg = step]
    [] step = "size"   -> [Quiet EXCEPT !.op = "write", !.reg = "size", !.n = target.size]
    [] step = "crc"    -> [Quiet EXCEPT !.op = "write", !.reg = "crc", !.n = target.id]
    [] step = "offset" -> [Quiet EXCEPT !.op = "write", !.reg = "offset", !.n = block]
    [] step = "words"  -> [Quiet EXCEPT !.op = "write", !.reg = "words", !.n = 1]
    [] step = "chunk"  -> [Quiet EXCEPT !.op = "write", !.reg = "chunk", !.part = Part(target, block)]

(* What update() does next when a request has been answered with value.       *)
NextStep(value) ==
  CASE step = "mode"       -> IF value = "app" THEN "enter" ELSE "size"
    [] step = "enter"      -> "await_boot"
    [] step = "await_boot" -> IF value = "boot" THEN "size" ELSE "failed"
    [] step = "size"       -> "crc"
    [] step = "crc"        -> "begin"
    [] step = "begin"      -> "begin?"
    [] step = "begin?"     -> IF value = "ready" THEN "erase" ELSE "failed"
    [] step = "erase"      -> "erase?"
    [] step = "erase?"     -> IF value = "ready" THEN "offset" ELSE "failed"
    [] step = "offset"     -> "words"
    [] step = "words"      -> "chunk"
    [] step = "chunk"      -> "write"
    [] step = "write"      -> "write?"
    [] step = "write?"     -> IF value # "ready" THEN "failed"
                              ELSE IF block < target.size THEN "offset" ELSE "verify"
    [] step = "verify"     -> "verify?"
    [] step = "verify?"    -> IF value = "valid" THEN "run" ELSE "failed"
    [] step = "run"        -> "await_app"
    [] step = "await_app"  -> IF value = "app" THEN "done" ELSE "failed"

Waits == step \in {"await_boot", "await_app"}

Init ==
  /\ DeviceInit
  /\ target \in Wanted
  /\ step = "mode" /\ block = 1 /\ waiting = FALSE /\ tries = 0
  /\ faults = [kind \in FaultKind |-> 0]

(* The input buffer is emptied before every attempt. *)
Send ==
  /\ step \in Steps /\ ~waiting /\ tries < Tries
  /\ rx' = Ask /\ tx' = Silence
  /\ waiting' = TRUE /\ tries' = tries + 1
  /\ UNCHANGED <<deviceVars, target, step, block, faults>>

Answered ==
  /\ waiting /\ tx.kind = "ok"
  /\ tx' = Silence /\ waiting' = FALSE /\ tries' = 0
  /\ step' = NextStep(tx.value)
  /\ block' = IF step = "write?" /\ step' = "offset" THEN block + 1
              ELSE IF step = "erase?" THEN 1 ELSE block
  /\ UNCHANGED <<deviceVars, target, rx, faults>>

(* An exception ends the update, except while wait_mode polls. *)
Excepted ==
  /\ waiting /\ tx.kind = "exception"
  /\ tx' = Silence /\ waiting' = FALSE /\ tries' = 0
  /\ step' = IF Waits THEN step ELSE "failed"
  /\ UNCHANGED <<deviceVars, target, rx, block, faults>>

(* No answer in time.  While a command still runs the bootloader is deaf: the *)
(* repeated request is lost and the late answer taken for its own.            *)
NoAnswer ==
  /\ waiting /\ tx.kind = "none" /\ rx.op = "none"
  /\ waiting' = FALSE
  /\ step' = IF tries = Tries /\ ~Waits THEN "failed" ELSE step
  /\ tries' = IF tries = Tries THEN 0 ELSE tries
  /\ UNCHANGED <<deviceVars, target, lineVars, block, faults>>

Impatient ==
  /\ waiting /\ job # 0 /\ tries < Tries
  /\ tries' = tries + 1
  /\ UNCHANGED <<deviceVars, target, lineVars, step, block, waiting, faults>>

(* The operator starts the tool again. *)
Again ==
  /\ step = "failed" /\ step' = "mode"
  /\ UNCHANGED <<deviceVars, target, lineVars, block, waiting, tries, faults>>

-------------------------------------------------------------------------------
Fault(kind) ==
  /\ kind \in Faults
  /\ faults["request"] + faults["answer"] + faults["power"] < MaxFaults
  /\ faults' = [faults EXCEPT ![kind] = @ + 1]

LoseRequest ==
  /\ Fault("request") /\ rx.op # "none" /\ job = 0 /\ rx' = Quiet
  /\ UNCHANGED <<deviceVars, tx, toolVars>>

LoseAnswer ==
  /\ Fault("answer") /\ tx.kind # "none" /\ tx' = Silence
  /\ UNCHANGED <<deviceVars, rx, toolVars>>

LosePower == Fault("power") /\ PowerLoss /\ UNCHANGED toolVars

Device == DeviceWorks /\ UNCHANGED <<toolVars, faults>>

Restart == (\E forced \in BOOLEAN : Boot(forced)) /\ UNCHANGED <<toolVars, faults>>

Tool == Send \/ Answered \/ Excepted \/ NoAnswer \/ Impatient \/ Again

(* A finished update leaves nothing to do. *)
Idle == step = "done" /\ UNCHANGED vars

Next == Device \/ Restart \/ Tool \/ LoseRequest \/ LoseAnswer \/ LosePower \/ Idle

Spec == Init /\ [][Next]_vars

(* The bootloader's loop and the reset go on, the tool's timeouts run out and  *)
(* an operator starts the tool again after a failure.  No fairness is asked   *)
(* of the faults or of the line.                                              *)
FairSpec == Spec /\ WF_vars(Device) /\ WF_vars(Restart) /\ WF_vars(Tool)

-------------------------------------------------------------------------------
(* When the tool says done, the image it was given is in flash and is one for *)
(* this device, whatever was lost on the line and whenever the power failed.  *)
DoneMeansInstalled == step = "done" => Holds(target) /\ target.ours

(* What executes was built for this board: the bootloader turns down firmware *)
(* of another device (boot_update.c:148, README.md:116).  VERIFY does; the    *)
(* boot decision after a reset does not look at device_id.                    *)
AppIsOurs == mode = "app" => Resident.ours

(* Once the faults have ended the update comes to its end, however often it   *)
(* failed before (README.md:392-393).  The code needs more than that: a lost  *)
(* answer to a chunk leaves an error flag that only a reset clears.           *)
EventuallyDone == <>(step = "done")

(* However often requests were lost and the power failed, and wherever the    *)
(* failed attempts stopped, an update with firmware for this device comes to  *)
(* its end, unless an answer was lost.                                        *)
EndsUnlessAnswerLost == target.ours => <>(step = "done" \/ faults["answer"] > 0)
===============================================================================
