---------------------------- MODULE ConfigRegisters ----------------------------
(* The application as its configuration registers show it: one request at a   *)
(* time is read or written, a save is postponed until its answer is out, and  *)
(* a reset brings back what was saved.  What is saved is one cell, replaced   *)
(* as a whole or not at all: ConfigStore implements that.                     *)
EXTENDS Config

CONSTANT NoSaved \* no configuration has ever been saved

VARIABLES
  cfg,     \* g_reg_config: the configuration in force
  status,  \* g_status
  link,    \* struct app_registers: address and port in force
  saved,   \* what the next start loads
  command, \* a save waits for the transmitter
  rx, tx   \* the request and the answer on the line

deviceVars == <<cfg, status, link, saved, command>>

Quiet == [kind |-> "none"]
Answered(values) == [kind |-> "ok", values |-> values]
Exception == [kind |-> "exception"]

Link == [address : 1 .. 247, port : {v \in Word : ddm_modbus_port_cfg_valid(v)}]
ValidSettings(s) == ValidConfig(s.cfg) /\ s.link \in Link

ASSUME SavedAssumption == NoSaved \notin [cfg : Config, link : Link]

DeviceTypeOK ==
  /\ ValidConfig(cfg)
  /\ status \in {StatusOK, StatusInvalid, StatusReserved}
  /\ link \in Link
  /\ command \in BOOLEAN
  /\ saved = NoSaved \/ ValidSettings(saved)

DefaultLink == [address |-> 34, port |-> 67]
Loaded(s) == IF s = NoSaved THEN [cfg |-> ddm_config_set_defaults, link |-> DefaultLink] ELSE s

DeviceInit ==
  /\ cfg = Loaded(saved).cfg /\ link = Loaded(saved).link
  /\ status = StatusOK /\ command = FALSE /\ rx = Quiet /\ tx = Quiet
-------------------------------------------------------------------------------
(* A frame is not looked at while a save waits: the transmitter is busy.      *)
Receives(kind) == rx.kind = kind /\ ~command /\ rx' = Quiet

WriteWords ==
  /\ Receives("words")
  /\ LET w == write_multiple(cfg, status, rx.words) IN
       /\ cfg' = w.cfg /\ status' = w.status
       /\ tx' = IF w.ok THEN Answered(<<>>) ELSE Exception
  /\ UNCHANGED <<link, saved, command>>

(* The answer still carries the address the request came to. *)
WriteAddress ==
  /\ Receives("address")
  /\ IF ValidAddress(rx.value)
     THEN link' = [link EXCEPT !.address = rx.value % 256] /\ tx' = Answered(<<>>)
     ELSE tx' = Exception /\ UNCHANGED link
  /\ UNCHANGED <<cfg, status, saved, command>>

(* A new port is applied at the next poll, which cuts the answer off; at the  *)
(* highest speed it may just have been sent.                                  *)
WritePort ==
  /\ Receives("port")
  /\ IF ddm_modbus_port_cfg_valid(rx.value)
     THEN /\ link' = [link EXCEPT !.port = rx.value]
          /\ tx' \in {Answered(<<>>)} \cup IF rx.value # link.port THEN {Quiet} ELSE {}
     ELSE tx' = Exception /\ UNCHANGED link
  /\ UNCHANGED <<cfg, status, saved, command>>

WriteCommand ==
  /\ Receives("save")
  /\ command' = TRUE /\ status' = StatusOK /\ tx' = Answered(<<>>)
  /\ UNCHANGED <<cfg, link, saved>>

ReadLink ==
  /\ Receives("read_link")
  /\ tx' = Answered(<<link.address, link.port>>)
  /\ UNCHANGED deviceVars

ReadWords ==
  /\ Receives("read")
  /\ tx' = Answered([i \in DOMAIN rx.regs |-> config_registers_hr_read(cfg, rx.regs[i])])
  /\ UNCHANGED deviceVars

Handle == WriteWords \/ WriteAddress \/ WritePort \/ WriteCommand \/ ReadLink \/ ReadWords

(* main runs the save; its result is thrown away. *)
Save ==
  /\ command /\ command' = FALSE
  /\ saved' = [cfg |-> cfg, link |-> link]
  /\ UNCHANGED <<cfg, status, link, rx, tx>>

SaveFails ==
  /\ command /\ command' = FALSE
  /\ UNCHANGED <<cfg, status, link, saved, rx, tx>>

Reset ==
  /\ cfg' = Loaded(saved).cfg /\ link' = Loaded(saved).link
  /\ status' = StatusOK /\ command' = FALSE /\ rx' = Quiet /\ tx' = Quiet
  /\ UNCHANGED saved
===============================================================================
