------------------------------ MODULE ConfigTool ------------------------------
(* modbus_configure.py writing a configuration into a device and reading it   *)
(* back, over a line that loses requests and answers, while the device may    *)
(* lose power.  An operator whose attempt failed starts the tool again at the *)
(* address and port where the device then answers.                            *)
EXTENDS ConfigRegisters

CONSTANTS
  Starts,   \* what the device may have saved before
  Targets,  \* the registers normalize_config may make of a file, with a link
  Tries,    \* attempts per request: 3 in modbus_client.py
  Faults,   \* kinds of fault that happen: subset of FaultKind
  MaxFaults \* bound: how many happen

FaultKind == {"request", "answer", "power", "flash"}

ASSUME ToolAssumption ==
  /\ \A s \in Starts : s = NoSaved \/ ValidSettings(s)
  /\ \A t \in Targets :
        /\ t.cfg \in Config /\ t.link \in [address : Word, port : Word]
        /\ Globals(t.cfg).count <= Slots
  /\ Tries \in Nat \ {0} /\ Faults \subseteq FaultKind /\ MaxFaults \in Nat

VARIABLES
  target,  \* wanted
  before,  \* what was saved when the operator began; used by properties only
  client,  \* address and port the client uses
  step,    \* position in the script; "done" or "failed"
  waiting, \* a request has been sent and not yet answered
  tries,   \* attempts at the present request
  faults   \* how many faults of each kind there were

toolVars == <<target, client, step, waiting, tries>>
vars == <<deviceVars, rx, tx, toolVars, before, faults>>
-------------------------------------------------------------------------------
(* The requests of write_device and read_device, in order, and what each has   *)
(* to be answered with.  Those that write or read nothing but reserved        *)
(* registers are left out.                                                    *)
Step(ask, want) == [ask |-> ask, want |-> want]
Words(words) == Step([kind |-> "words", words |-> words], <<>>)

Put(t, regs) == Words([k \in DOMAIN regs |-> <<regs[k], At(t.cfg, regs[k])>>])
Zero(r) == Words(<<<<r, 0>>>>)
Get(t, regs) == Step([kind |-> "read", regs |-> regs], [k \in DOMAIN regs |-> At(t.cfg, regs[k])])

GlobalRegs     == [k \in DOMAIN GlobalFields |-> Global(GlobalFields[k])]
ProfileRegs(i) == [k \in DOMAIN ProfileFields |-> Profile(i, ProfileFields[k])]
BindingRegs(i) == [k \in DOMAIN BindingFields |-> Binding(i, BindingFields[k])]

Profiles(t) == [i \in Channel |-> Put(t, ProfileRegs(i))]
Disable     == [i \in Slot |-> Zero(Binding(i, "enabled"))]
Bindings(t) == [i \in Slot |-> Put(t, Tail(BindingRegs(i)))]
Enable(t)   == [i \in Slot |-> Put(t, <<Binding(i, "enabled")>>)]
Finish(t) ==
  <<Put(t, GlobalRegs),
    Step([kind |-> "address", value |-> t.link.address], <<>>),
    Step([kind |-> "port", value |-> t.link.port], <<>>),
    Step([kind |-> "save"], <<>>)>>

(* Mutants: the count is not zeroed first; nor are the slots disabled. *)
write_counted(t) == Profiles(t) \o Disable \o Bindings(t) \o Enable(t) \o Finish(t)
write_enabled(t) == Profiles(t) \o Bindings(t) \o Enable(t) \o Finish(t)

write_device(t) ==
  <<Zero(Global("count"))>>
    \o Profiles(t) \o Disable \o Bindings(t) \o Enable(t) \o Finish(t)

(* Only the bindings the device counts are read; a count other than the       *)
(* wanted one has failed the comparison before.                               *)
Counted(t) == 1 .. Globals(t.cfg).count

read_device(t) ==
  <<Step([kind |-> "read_link"], <<t.link.address, t.link.port>>), Get(t, GlobalRegs)>>
    \o [i \in Channel |-> Get(t, ProfileRegs(i))]
    \o [i \in Counted(t) |-> Get(t, SubSeq(BindingRegs(i), 1, 8))]
    \o [i \in Counted(t) |-> Get(t, SubSeq(BindingRegs(i), 9, 10))]

Script == [t \in Targets |-> write_device(t) \o read_device(t)]
Running == step \in 1 .. Len(Script[target])
Now == Script[target][step]

TypeOK ==
  /\ DeviceTypeOK
  /\ target \in Targets /\ before \in Starts
  /\ step \in 1 .. Len(Script[target]) \cup {0, Len(Script[target]) + 1}
  /\ waiting \in BOOLEAN /\ tries \in 0 .. Tries
  /\ faults \in [FaultKind -> 0 .. MaxFaults]
-------------------------------------------------------------------------------
Init ==
  /\ saved \in Starts /\ DeviceInit
  /\ target \in Targets /\ before = saved
  /\ client = link /\ step = 1 /\ waiting = FALSE /\ tries = 0
  /\ faults = [kind \in FaultKind |-> 0]

Failed == step = 0
Done == step = Len(Script[target]) + 1

(* The input buffer is emptied before every attempt.  A request to another    *)
(* address, or at another speed, is not received.                             *)
Send ==
  /\ Running /\ ~waiting /\ tries < Tries
  /\ rx' = IF client = link THEN Now.ask ELSE Quiet
  /\ tx' = Quiet /\ waiting' = TRUE /\ tries' = tries + 1
  /\ UNCHANGED <<deviceVars, target, client, step, before, faults>>

(* Mutant: what was read is not compared. *)
AnswerUnchecked ==
  /\ waiting /\ tx.kind = "ok"
  /\ tx' = Quiet /\ waiting' = FALSE /\ tries' = 0
  /\ step' = step + 1
  /\ client' = CASE Now.ask.kind = "address" -> [client EXCEPT !.address = target.link.address]
                 [] Now.ask.kind = "port"    -> [client EXCEPT !.port = target.link.port]
                 [] OTHER -> client
  /\ UNCHANGED <<deviceVars, rx, target, before, faults>>

(* The client goes on at the new address and port once their registers have   *)
(* been written; words other than the wanted ones end the tool.               *)
Answer ==
  /\ waiting /\ tx.kind = "ok"
  /\ tx' = Quiet /\ waiting' = FALSE /\ tries' = 0
  /\ step' = IF tx.values = Now.want THEN step + 1 ELSE 0
  /\ client' = CASE Now.ask.kind = "address" -> [client EXCEPT !.address = target.link.address]
                 [] Now.ask.kind = "port"    -> [client EXCEPT !.port = target.link.port]
                 [] OTHER -> client
  /\ UNCHANGED <<deviceVars, rx, target, before, faults>>

(* Mutant: an exception is passed over. *)
RefusedPassed ==
  /\ waiting /\ tx.kind = "exception"
  /\ tx' = Quiet /\ waiting' = FALSE /\ tries' = 0 /\ step' = step + 1
  /\ UNCHANGED <<deviceVars, rx, target, client, before, faults>>

Refused ==
  /\ waiting /\ tx.kind = "exception"
  /\ tx' = Quiet /\ waiting' = FALSE /\ tries' = 0 /\ step' = 0
  /\ UNCHANGED <<deviceVars, rx, target, client, before, faults>>

NoAnswer ==
  /\ waiting /\ rx = Quiet /\ tx = Quiet /\ ~command
  /\ waiting' = FALSE
  /\ step' = IF tries = Tries THEN 0 ELSE step
  /\ tries' = IF tries = Tries THEN 0 ELSE tries
  /\ UNCHANGED <<deviceVars, rx, tx, target, client, before, faults>>

Again ==
  /\ Failed /\ step' = 1 /\ client' = link
  /\ UNCHANGED <<deviceVars, rx, tx, target, waiting, tries, before, faults>>
-------------------------------------------------------------------------------
Fault(kind) ==
  /\ kind \in Faults
  /\ faults["request"] + faults["answer"] + faults["power"] + faults["flash"] < MaxFaults
  /\ faults' = [faults EXCEPT ![kind] = @ + 1]
  /\ UNCHANGED <<toolVars, before>>

LoseRequest == Fault("request") /\ rx # Quiet /\ rx' = Quiet /\ UNCHANGED <<deviceVars, tx>>

(* A damaged answer counts as none, or ends the tool as an exception does.    *)
LoseAnswer  == Fault("answer") /\ tx # Quiet /\ tx' \in {Quiet, Exception} /\ UNCHANGED <<deviceVars, rx>>

LosePower   == Fault("power") /\ Reset
LoseSave    == Fault("flash") /\ SaveFails

Device == (Handle \/ Save) /\ UNCHANGED <<toolVars, before, faults>>
Tool == Send \/ Answer \/ Refused \/ NoAnswer \/ Again
Idle == Done /\ UNCHANGED vars

Next == Device \/ Tool \/ LoseRequest \/ LoseAnswer \/ LosePower \/ LoseSave \/ Idle

Spec == Init /\ [][Next]_vars

(* The application's loop goes on: a request does not stay unread nor a save  *)
(* postponed.  The client's timeouts run out and the operator tries again.    *)
(* Nothing is asked of the line or of the power.                              *)
FairSpec ==
  /\ Spec
  /\ WF_rx(rx # Quiet /\ rx' = Quiet)
  /\ WF_command(command /\ command' = FALSE)
  /\ WF_vars(Tool)
-------------------------------------------------------------------------------
(* What the words of the file mean, and what of a configuration has effect:   *)
(* link, globals, profiles and the bindings in force.                         *)
Meant(t) ==
  [cfg |-> [area \in DOMAIN t.cfg |-> [i \in DOMAIN t.cfg[area] |->
              [f \in DOMAIN t.cfg[area][i] |-> Kept(f, t.cfg[area][i][f])]]],
   link |-> t.link]

(* Every word reads back as it was written. *)
ReadsBack(t) ==
  \A area \in DOMAIN t.cfg : \A i \in DOMAIN t.cfg[area] : \A f \in DOMAIN t.cfg[area][i] :
    Shown(f, Kept(f, t.cfg[area][i][f])) = t.cfg[area][i][f]

InForce(c) == {c.binding[i] : i \in ActiveSlots(c)}

Effect(x) == <<x.link, Globals(x.cfg), x.cfg.profile, InForce(x.cfg)>>

(* "verification ok" (modbus_configure.py:294) means that the file is both in *)
(* force and what the next start loads, wherever requests, answers and power  *)
(* were lost and however many attempts had failed: unless the save failed     *)
(* unseen, as main.c:72 drops its result.                                     *)
VerifiedMeansInstalled ==
  Done /\ faults["flash"] = 0 =>
    /\ Effect([cfg |-> cfg, link |-> link]) = Effect(Meant(target))
    /\ Effect(Loaded(saved)) = Effect(Meant(target))

(* While the bindings are rewritten one word at a time, the buttons obey the  *)
(* old ones, none or the new ones, never a mixture (modbus_configure.py:220): *)
(* unless a reset has brought the old ones back among requests for the new.   *)
BindingsAreWhole ==
  faults["power"] = 0 =>
    InForce(cfg) \in {InForce(Loaded(before).cfg), {}, InForce(Meant(target).cfg)}

(* A refused word, a lost request or a lost answer, wherever it stops the     *)
(* tool, leaves the old configuration saved: a half-written one is not kept.  *)
SavedIsWhole ==
  faults["power"] = 0 => Effect(Loaded(saved)) \in {Effect(Loaded(before)), Effect(Meant(target))}

(* Every word is checked against the others as they are then, and write_device *)
(* writes a minimum before its maximum and the press times in rising order.   *)
InOrder(old, new) ==
  /\ \A i \in Channel : new.profile[i].min_level <= old.profile[i].max_level
  /\ Globals(new).short_min <= Globals(old).short_max
  /\ Globals(new).short_max <= Globals(old).long

Acceptable(t) == ddm_config_validate(Meant(t).cfg) /\ ReadsBack(t)

(* A valid file whose intervals do not lie above the old ones is installed in *)
(* the end, whatever was lost on the way and wherever the attempts stopped.   *)
InOrderIsWritten ==
  Acceptable(target) /\ InOrder(Loaded(before).cfg, target.cfg) => <>Done

(* A valid file is installed in the end (README.md:278-282).  The code needs  *)
(* more than that: of an interval that lies above the old one the new minimum *)
(* is refused, for ever.                                                      *)
ValidIsWritten == Acceptable(target) => <>Done

(* The next two hold only under the conditions VerifiedMeansInstalled and      *)
(* SavedIsWhole carry: a save that fails goes unnoticed; and after a reset in *)
(* the middle the tool writes the rest over the old words, and saves that.    *)
SaveIsChecked == Done => Effect(Loaded(saved)) = Effect(Meant(target))

OldOrNewSaved == Effect(Loaded(saved)) \in {Effect(Loaded(before)), Effect(Meant(target))}

(* Without a fault the first attempt succeeds.  It does not if the file sets  *)
(* another port: the answer to that write is cut off and the tool gives up    *)
(* before it saves.                                                           *)
FirstTime == (\A kind \in FaultKind : faults[kind] = 0) => ~Failed
===============================================================================
