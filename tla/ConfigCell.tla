------------------------------ MODULE ConfigCell ------------------------------
(* What the configuration store promises to the rest of the firmware: a       *)
(* working configuration in RAM and one durable configuration that is         *)
(* replaced as a whole or not at all, whatever moment the power goes away.    *)
EXTENDS Naturals

CONSTANTS Config,      \* the configurations ddm_config_validate accepts
          FactorySet,  \* what a device without a saved configuration starts with
          None,        \* no configuration has ever been saved
          Off          \* the contents of RAM while the device is in reset

VARIABLES working, durable

cellVars == <<working, durable>>

CellInit == working = Off /\ durable = None

(* The application starts: it runs what was saved last, or factory settings. *)
Start ==
  /\ working = Off
  /\ working' \in IF durable = None THEN FactorySet ELSE {durable}
  /\ UNCHANGED durable

(* Registers are written, reloaded or set back; nothing durable changes. *)
Edit ==
  /\ working # Off
  /\ working' \in Config
  /\ UNCHANGED durable

(* A save takes effect in one step and stores exactly what is in RAM. *)
Commit ==
  /\ working # Off
  /\ durable' = working
  /\ UNCHANGED working

(* Power loss, watchdog or a jump to the bootloader. *)
Stop ==
  /\ working # Off
  /\ working' = Off
  /\ UNCHANGED durable

CellNext == Start \/ Edit \/ Commit \/ Stop

CellSpec == CellInit /\ [][CellNext]_cellVars
===============================================================================
