-------------------------------- MODULE Master --------------------------------
(* A device on a line with any master at all: one that sends the requests of  *)
(* the bootloader in any order, with any numbers and data, and is gone for    *)
(* any time; requests and answers are lost and the power fails at will.       *)
EXTENDS Bootloader

CONSTANTS
  Number, \* bound: the numbers that are written
  Data    \* bound: the chunks that are sent

ASSUME MasterAssumption == Number \subseteq Nat /\ Data \subseteq Content

masterVars == <<deviceVars, lineVars>>

MasterInit == DeviceInit

SendAny ==
  /\ rx = Quiet
  /\ rx' \in Requests(Number, Data)
  /\ tx' = Silence
  /\ UNCHANGED deviceVars

RequestLost == job = 0 /\ rx' = Quiet /\ UNCHANGED <<deviceVars, tx>>

AnswerLost == tx' = Silence /\ UNCHANGED <<deviceVars, rx>>

MasterNext == DeviceWorks \/ (\E forced \in BOOLEAN : Boot(forced)) \/ PowerLoss
              \/ SendAny \/ RequestLost \/ AnswerLost

MasterSpec == MasterInit /\ [][MasterNext]_masterVars

-------------------------------------------------------------------------------
(* Status VALID is never stale: from the moment a master can read it until    *)
(* the next command, flash holds a whole image, whatever is written to the    *)
(* other registers meanwhile (boot_update.c).                                 *)
ValidIsWhole == update.status = "valid" => app_image_valid
===============================================================================
