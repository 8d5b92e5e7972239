--------------------------- MODULE UpdateToolProofs ---------------------------
(* The bootloader under an arbitrary master, and under the update tool, which *)
(* is one of them: for every set of images, every size of the application     *)
(* region, every number of attempts and of faults.                            *)
EXTENDS UpdateTool, TLAPS


(* Everything that is written to flash by the bootloader is a content. *)
LEMMA Contents ==
  /\ Erased \in Content /\ Torn \in Content /\ Erased # Torn
  /\ 1 \in Block /\ Blocks \in Block
BY BootloaderAssumption DEF Erased, Torn, Content, Part, NoImage, Block

(* A request carries a number and a content. *)
LEMMA RequestParts ==
  ASSUME NEW r \in Request
  PROVE  r.n \in Nat /\ r.part \in Content
BY Contents DEF Request, Requests, Quiet

(* What a master sends is a request. *)
LEMMA SentIsRequest == Requests(Number, Data) \subseteq Request
BY MasterAssumption DEF Requests, Request

(* The answers are answers. *)
LEMMA QuietLine == Quiet \in Request /\ Silence \in Answer
BY DEF Request, Requests, Quiet, Silence, Answer

(* A normal answer is a well-formed frame. *)
LEMMA ReplyTypes ==
  ASSUME NEW value \in {"none", "boot", "app"} \cup Status, Reply(value)
  PROVE  rx' \in Request /\ tx' \in Answer
BY QuietLine DEF Reply, Answer

(* An exception is a well-formed frame. *)
LEMMA ExceptionTypes ==
  ASSUME Exception
  PROVE  rx' \in Request /\ tx' \in Answer
BY QuietLine DEF Exception, Answer

(* A command that only sets the status keeps the types. *)
LEMMA FinishTypes ==
  ASSUME DeviceTypeOK, NEW status \in Status, Finish(status)
  PROVE  DeviceTypeOK'
<1>1. rx' \in Request /\ tx' \in Answer
  BY ReplyTypes DEF Finish
<1>2. update' \in UpdateState
  BY DEF DeviceTypeOK, UpdateState, Finish
<1> QED
  BY <1>1, <1>2 DEF DeviceTypeOK, Finish

(* Every step of the device keeps the types. *)
LEMMA DeviceTypes ==
  ASSUME DeviceTypeOK, DeviceWorks
  PROVE  DeviceTypeOK'
<1> USE DEF DeviceTypeOK
<1>a. /\ "none" \in {"none", "boot", "app"} \cup Status
      /\ "boot" \in {"none", "boot", "app"} \cup Status
      /\ "app" \in {"none", "boot", "app"} \cup Status
  OBVIOUS
<1>b. update.status \in Status
  BY DEF UpdateState
<1>c. rx.n \in Nat /\ rx.part \in Content
  BY RequestParts
<1>1. CASE ReadMode
  BY <1>1, <1>a, ReplyTypes DEF ReadMode, deviceVars
<1>2. CASE ReadStatus
  BY <1>2, <1>b, ReplyTypes DEF ReadStatus, deviceVars
<1>3. ASSUME NEW reg \in {"size", "crc", "offset"}, WriteNumber(reg)
      PROVE  DeviceTypeOK'
  <2>1. update' \in UpdateState
    BY <1>3, <1>c DEF WriteNumber, UpdateState
  <2> QED
    BY <2>1, <1>3, <1>a, ReplyTypes DEF WriteNumber
<1>4. CASE WriteWords
  <2>1. update' \in UpdateState
    <3>1. CASE rx.n <= 1 /\ update' = [update EXCEPT !.words = rx.n]
      <4>1. rx.n \in 0 .. 1
        BY <3>1, <1>c
      <4> QED BY <3>1, <4>1 DEF UpdateState
    <3>2. CASE update' = [update EXCEPT !.status = "bounds_error"]
      BY <3>2 DEF UpdateState, Status
    <3> QED BY <1>4, <3>1, <3>2 DEF WriteWords
  <2> QED
    BY <2>1, <1>4, <1>a, ReplyTypes, ExceptionTypes DEF WriteWords
<1>5. CASE WriteData
  <2>1. update' \in UpdateState
    BY <1>5, <1>c DEF WriteData, UpdateState
  <2> QED
    BY <2>1, <1>5, <1>a, ReplyTypes DEF WriteData
<1>6. CASE Begin
  <2>1. CASE Finish("size_error")
    BY <2>1, FinishTypes DEF Status
  <2>2. CASE ~Finish("size_error")
    <3>1. update' \in UpdateState
      BY <1>6, <2>2 DEF Begin, UpdateState, Status
    <3> QED
      BY <3>1, <1>6, <2>2, <1>a, ReplyTypes DEF Begin
  <2> QED BY <2>1, <2>2
<1>7. CASE Abort
  <2>1. update' \in UpdateState
    BY <1>7, Contents DEF Abort, UpdateState, update_reset, Status
  <2> QED
    BY <2>1, <1>7, <1>a, ReplyTypes DEF Abort
<1>8. CASE UnknownCommand \/ EraseRefused \/ WriteRefused \/ Verify \/ RunIdle
  <2>1. PICK status \in Status : Finish(status)
    BY <1>8 DEF UnknownCommand, EraseRefused, WriteRefused, Verify, RunIdle, update_verify, Status
  <2> QED BY <2>1, FinishTypes
<1>9. CASE EraseStart
  <2>1. update' \in UpdateState
    BY <1>9 DEF EraseStart, UpdateState, Status
  <2>2. flash' \in [Block -> Content] /\ job' \in 0 .. Blocks
    BY <1>9, Contents DEF EraseStart, Block
  <2> QED BY <2>1, <2>2, <1>9 DEF EraseStart
<1>10. CASE EraseBlock
  <2> DEFINE clean == [flash EXCEPT ![job] = Erased]
  <2>1. clean \in [Block -> Content]
    BY Contents
  <2>2. update' \in UpdateState
    BY <1>10 DEF EraseBlock, UpdateState, Status
  <2>3. flash' \in [Block -> Content] /\ job' \in 0 .. Blocks
    <3>1. CASE job < LastBlock /\ job' = job + 1 /\ flash' = [clean EXCEPT ![job + 1] = Torn]
      BY <3>1, <2>1, Contents, BootloaderAssumption DEF LastBlock, Block
    <3>2. CASE job' = 0 /\ flash' = clean
      BY <3>2, <2>1, BootloaderAssumption
    <3> QED BY <1>10, <3>1, <3>2 DEF EraseBlock
  <2>4. rx' \in Request /\ tx' \in Answer
    BY <1>10, <1>a, ReplyTypes DEF EraseBlock
  <2> QED BY <2>2, <2>3, <2>4, <1>10 DEF EraseBlock
<1>11. CASE WriteOccupied
  <2>1. update' \in UpdateState
    BY <1>11 DEF WriteOccupied, UpdateState, Status
  <2> QED BY <2>1, <1>11, <1>a, ReplyTypes DEF WriteOccupied
<1>12. CASE WriteStart
  <2>1. update' \in UpdateState
    BY <1>12 DEF WriteStart, UpdateState, Status
  <2>2. update.offset \in Block
    BY <1>12, BootloaderAssumption DEF WriteStart, InRange, SizeFits, Block, UpdateState
  <2>3. flash' \in [Block -> Content] /\ job' \in 0 .. Blocks
    BY <1>12, <2>2, Contents, BootloaderAssumption DEF WriteStart, Block
  <2> QED BY <2>1, <2>3, <1>12 DEF WriteStart
<1>13. CASE WriteEnd
  <2>1. update' \in UpdateState
    BY <1>13 DEF WriteEnd, UpdateState, Status
  <2>2. flash' \in [Block -> Content] /\ job' \in 0 .. Blocks
    BY <1>13, BootloaderAssumption DEF WriteEnd, UpdateState
  <2> QED BY <2>1, <2>2, <1>13, <1>a, ReplyTypes DEF WriteEnd
<1>14. CASE RunApp
  <2>1. CASE Finish("image_error")
    BY <2>1, FinishTypes DEF Status
  <2>2. CASE ~Finish("image_error")
    BY <2>2, <1>14, <1>a, ReplyTypes DEF RunApp
  <2> QED BY <2>1, <2>2
<1>15. CASE AppReadMode \/ AppRefuses \/ AppEnters \/ Unheard
  BY <1>15, <1>a, ReplyTypes, ExceptionTypes, QuietLine
     DEF AppReadMode, AppRefuses, AppEnters, Unheard, deviceVars
<1> QED
  BY <1>1, <1>2, <1>3, <1>4, <1>5, <1>6, <1>7, <1>8, <1>9, <1>10, <1>11, <1>12, <1>13, <1>14, <1>15
     DEF DeviceWorks

(* A delivered device is well formed. *)
LEMMA MasterInitTypes ==
  ASSUME MasterInit
  PROVE  DeviceTypeOK
<1>1. flash \in [Block -> Content]
  BY Contents, BootloaderAssumption DEF MasterInit, DeviceInit, Content, Part, Block
<1>2. update_reset \in UpdateState
  BY Contents DEF update_reset, UpdateState, Status
<1>3. job \in 0 .. Blocks
  BY BootloaderAssumption DEF MasterInit, DeviceInit
<1> QED BY <1>1, <1>2, <1>3, QuietLine DEF MasterInit, DeviceInit, DeviceTypeOK

(* Nor does a reset disturb the types, *)
LEMMA BootTypes ==
  ASSUME DeviceTypeOK, NEW forced \in BOOLEAN, Boot(forced)
  PROVE  DeviceTypeOK'
<1>1. update' \in UpdateState
  BY Contents DEF Boot, UpdateState, update_reset, Status
<1> QED BY <1>1 DEF Boot, DeviceTypeOK

(* nor the loss of power. *)
LEMMA PowerLossTypes ==
  ASSUME DeviceTypeOK, PowerLoss
  PROVE  DeviceTypeOK'
<1>1. job' \in 0 .. Blocks
  BY BootloaderAssumption DEF PowerLoss
<1>2. request' \in BOOLEAN
  BY DEF PowerLoss, DeviceTypeOK
<1> QED BY <1>1, <1>2, QuietLine DEF PowerLoss, DeviceTypeOK

(* Flash, registers, line and state of the bootloader stay well formed. *)
THEOREM MasterTypes == MasterSpec => []DeviceTypeOK
<1>1. MasterInit => DeviceTypeOK
  BY MasterInitTypes
<1>2. DeviceTypeOK /\ [MasterNext]_masterVars => DeviceTypeOK'
  <2> SUFFICES ASSUME DeviceTypeOK, [MasterNext]_masterVars PROVE DeviceTypeOK'
    OBVIOUS
  <2>1. CASE DeviceWorks
    BY <2>1, DeviceTypes
  <2>2. ASSUME NEW forced \in BOOLEAN, Boot(forced) PROVE DeviceTypeOK'
    BY <2>2, BootTypes
  <2>3. CASE PowerLoss
    BY <2>3, PowerLossTypes
  <2>4. CASE SendAny
    BY <2>4, SentIsRequest, QuietLine DEF SendAny, DeviceTypeOK, deviceVars
  <2>5. CASE RequestLost \/ AnswerLost
    BY <2>5, QuietLine DEF RequestLost, AnswerLost, DeviceTypeOK, deviceVars
  <2>6. CASE UNCHANGED masterVars
    BY <2>6 DEF masterVars, deviceVars, lineVars, DeviceTypeOK
  <2> QED BY <2>1, <2>2, <2>3, <2>4, <2>5, <2>6 DEF MasterNext
<1> QED BY <1>1, <1>2, PTL DEF MasterSpec

-------------------------------------------------------------------------------
(* What flash holds is a matter of flash alone. *)
LEMMA SameFlash ==
  ASSUME flash' = flash
  PROVE  app_image_valid' = app_image_valid
BY DEF app_image_valid, Holds

(* A step of the bootloader that touches flash is one it makes while it       *)
(* executes itself, and leaves a status other than VALID.                     *)
LEMMA FlashSteps ==
  ASSUME DeviceTypeOK, [MasterNext]_masterVars
  PROVE  flash' = flash \/ (mode = "boot" /\ mode' = "boot" /\ update'.status # "valid")
<1> USE DEF DeviceTypeOK
<1>1. CASE EraseStart
  BY <1>1 DEF EraseStart, Handles, UpdateState
<1>2. CASE EraseBlock
  BY <1>2 DEF EraseBlock, UpdateState
<1>3. CASE WriteStart
  BY <1>3 DEF WriteStart, Handles, UpdateState
<1>4. CASE WriteEnd
  BY <1>4 DEF WriteEnd, UpdateState
<1>5. CASE ~(EraseStart \/ EraseBlock \/ WriteStart \/ WriteEnd)
  BY <1>5 DEF MasterNext, DeviceWorks, ReadMode, ReadStatus, WriteNumber, WriteWords, WriteData, Begin,
     Finish, Abort, UnknownCommand, EraseRefused, WriteRefused, WriteOccupied, Verify, RunApp,
     RunIdle, AppReadMode, AppRefuses, AppEnters, Unheard, Boot, PowerLoss, SendAny, RequestLost,
     AnswerLost, masterVars, deviceVars
<1> QED BY <1>1, <1>2, <1>3, <1>4, <1>5

(* The application starts in two places and both look at the image. *)
LEMMA AppStarts ==
  ASSUME [MasterNext]_masterVars, mode' = "app", mode # "app"
  PROVE  app_image_valid
BY DEF MasterNext, DeviceWorks, ReadMode, ReadStatus, WriteNumber, WriteWords, WriteData, Begin,
   Finish, Abort, UnknownCommand, EraseRefused, EraseStart, EraseBlock, WriteRefused, WriteOccupied,
   WriteStart, WriteEnd, Verify, RunApp, RunIdle, AppReadMode, AppRefuses, AppEnters, Unheard,
   Boot, StartsApp, PowerLoss, SendAny, RequestLost, AnswerLost, masterVars, deviceVars

(* The status becomes VALID only when the image has been looked at. *)
LEMMA ValidAppears ==
  ASSUME DeviceTypeOK, [MasterNext]_masterVars, update'.status = "valid", update.status # "valid"
  PROVE  Verify \/ RunIdle
<1> USE DEF DeviceTypeOK, UpdateState
<1>1. CASE Verify
  BY <1>1
<1>2. CASE RunIdle
  BY <1>2
<1>3. ASSUME NEW reg \in {"size", "crc", "offset"}, WriteNumber(reg)
      PROVE  FALSE
  BY <1>3 DEF WriteNumber
<1>4. CASE WriteWords \/ WriteData \/ Begin \/ Abort \/ UnknownCommand
  <2>1. CASE WriteWords
    BY <2>1 DEF WriteWords
  <2>2. CASE WriteData
    BY <2>2 DEF WriteData
  <2>3. CASE Begin
    BY <2>3 DEF Begin, Finish
  <2>4. CASE Abort
    BY <2>4 DEF Abort, update_reset
  <2>5. CASE UnknownCommand
    BY <2>5 DEF UnknownCommand, Finish
  <2> QED BY <1>4, <2>1, <2>2, <2>3, <2>4, <2>5
<1>5. CASE EraseRefused \/ EraseStart \/ EraseBlock
  BY <1>5 DEF EraseRefused, Finish, EraseStart, EraseBlock
<1>6. CASE WriteRefused \/ WriteOccupied \/ WriteStart \/ WriteEnd
  BY <1>6 DEF WriteRefused, Finish, WriteOccupied, WriteStart, WriteEnd
<1>7. CASE RunApp
  BY <1>7 DEF RunApp, Finish
<1>8. CASE ReadMode \/ ReadStatus \/ AppReadMode \/ AppRefuses \/ AppEnters \/ Unheard
  BY <1>8 DEF ReadMode, ReadStatus, AppReadMode, AppRefuses, AppEnters, Unheard, deviceVars
<1>9. CASE (\E forced \in BOOLEAN : Boot(forced)) \/ PowerLoss
  <2>1. ASSUME NEW forced \in BOOLEAN, Boot(forced) PROVE FALSE
    BY <2>1 DEF Boot, update_reset
  <2>2. CASE PowerLoss
    BY <2>2 DEF PowerLoss
  <2> QED BY <1>9, <2>1, <2>2
<1>10. CASE SendAny \/ RequestLost \/ AnswerLost \/ UNCHANGED masterVars
  BY <1>10 DEF SendAny, RequestLost, AnswerLost, masterVars, deviceVars
<1> QED
  BY <1>1, <1>2, <1>3, <1>4, <1>5, <1>6, <1>7, <1>8, <1>9, <1>10 DEF MasterNext, DeviceWorks

(* Whatever a master sends and whenever the power fails, only a whole image   *)
(* executes.                                                                  *)
THEOREM OnlyWholeImagesRun == MasterSpec => []AppIsWhole
<1>1. MasterInit => AppIsWhole
  <2> SUFFICES ASSUME MasterInit PROVE app_image_valid
    BY DEF AppIsWhole
  <2>1. Holds(Factory)
    BY BootloaderAssumption DEF MasterInit, DeviceInit, Holds, Block
  <2> QED BY <2>1, BootloaderAssumption DEF app_image_valid
<1>2. DeviceTypeOK /\ AppIsWhole /\ [MasterNext]_masterVars => AppIsWhole'
  <2> SUFFICES ASSUME DeviceTypeOK, AppIsWhole, [MasterNext]_masterVars, mode' = "app"
               PROVE  app_image_valid'
    BY DEF AppIsWhole
  <2>1. flash' = flash
    BY FlashSteps
  <2>2. app_image_valid
    BY AppStarts DEF AppIsWhole
  <2> QED BY <2>1, <2>2, SameFlash
<1> QED BY <1>1, <1>2, MasterTypes, PTL DEF MasterSpec

(* A master that reads VALID can rely on it until it sends the next command.  *)
THEOREM ValidStaysTrue == MasterSpec => []ValidIsWhole
<1>1. MasterInit => ValidIsWhole
  BY DEF MasterInit, DeviceInit, update_reset, ValidIsWhole
<1>2. DeviceTypeOK /\ ValidIsWhole /\ [MasterNext]_masterVars => ValidIsWhole'
  <2> SUFFICES ASSUME DeviceTypeOK, ValidIsWhole, [MasterNext]_masterVars, update'.status = "valid"
               PROVE  app_image_valid'
    BY DEF ValidIsWhole
  <2>1. flash' = flash
    BY FlashSteps
  <2>2. CASE update.status = "valid"
    BY <2>1, <2>2, SameFlash DEF ValidIsWhole
  <2>3. CASE update.status # "valid"
    <3>1. update \in UpdateState
      BY DEF DeviceTypeOK
    <3>2. CASE Verify
      BY <2>1, <3>1, <3>2, SameFlash DEF Verify, Finish, update_verify, UpdateState
    <3>3. CASE RunIdle
      BY <2>1, <3>1, <3>3, SameFlash DEF RunIdle, Finish, UpdateState
    <3> QED BY <2>3, <3>2, <3>3, ValidAppears
  <2> QED BY <2>2, <2>3
<1> QED BY <1>1, <1>2, MasterTypes, PTL DEF MasterSpec

-------------------------------------------------------------------------------
(* The update tool: when it is done the image is installed. *)
Installed == Holds(target) /\ target.ours

(* Until it is answered or lost, the request on the line is the one the tool  *)
(* is at, and no answer is on its way.                                        *)
OneRequest ==
  /\ waiting => step \in Steps
  /\ rx # Quiet => waiting /\ rx = Ask /\ tx = Silence

(* Flash is erased and programmed only at the tool's request. *)
WorksForTool ==
  job # 0 => /\ mode = "boot" /\ rx # Quiet
             /\ step = IF update.status = "erasing" THEN "erase" ELSE "write"

(* The device knows the CRC of the target or none, from whichever attempt; so *)
(* VALID, in the register or on its way to the tool, speaks of the target.    *)
CrcIsTarget    == update.crc \in {0, target.id}
ValidIsTarget  == update.status = "valid" => Installed
AnswerIsTarget == tx.value = "valid" => Installed

(* From the verification on nothing is written any more. *)
VerifiedStays == step \in {"run", "await_app", "done"} => Installed

InTarget == target \in Wanted /\ block <= target.size

IInv == /\ TypeOK /\ OneRequest /\ WorksForTool
        /\ CrcIsTarget /\ ValidIsTarget /\ AnswerIsTarget /\ VerifiedStays /\ InTarget

-------------------------------------------------------------------------------
(* What the tool asks for at each step. *)
LEMMA AskSays ==
  ASSUME step \in Steps
  PROVE  /\ Ask.op # "none" /\ Ask.op # "multiple"
         /\ Ask.op = "command" => Ask.reg = step
         /\ Ask.op = "write" /\ Ask.reg = "crc" => Ask.n = target.id
BY DEF Ask, Steps, Quiet, Command

(* A master may ask for that. *)
LEMMA AskIsRequest ==
  ASSUME step \in Steps, target \in Wanted, block \in 1 .. target.size
  PROVE  Ask \in Requests(Number, Data)
<1>1. target.size \in Number /\ target.id \in Number /\ block \in Number /\ 1 \in Number
  <2>1. target.size \in Nat \ {0}
    BY ToolAssumption, BootloaderAssumption DEF ToolAssumption, BootloaderAssumption, Block
  <2> QED BY <2>1, SaysAssumption DEF SaysAssumption
<1>2. Part(target, block) \in Data
  BY SaysAssumption DEF SaysAssumption
<1>3. CASE step \in {"mode", "await_boot", "await_app", "begin?", "erase?", "write?", "verify?"}
  BY <1>3 DEF Ask, Quiet, Requests, Command
<1>4. CASE step \in Command
  BY <1>4 DEF Ask, Quiet, Requests, Command
<1>5. CASE step \in {"size", "crc", "offset", "words"}
  BY <1>1, <1>5 DEF Ask, Quiet, Requests, Command
<1>6. CASE step = "chunk"
  BY <1>2, <1>6 DEF Ask, Quiet, Requests, Command
<1> QED BY <1>3, <1>4, <1>5, <1>6 DEF Steps, Command

LEMMA QuietHasNoOp == \A r \in Request : r.op = "none" <=> r = Quiet
BY DEF Request, Requests, Quiet

-------------------------------------------------------------------------------
(* What a step of the device does to the line, to flash and to the status.    *)

(* A frame stays as it is, with the answer, or it is taken off the line. *)
LEMMA DeviceOnLine ==
  ASSUME DeviceWorks
  PROVE  rx' = Quiet \/ (rx' = rx /\ tx' = tx)
BY DEF DeviceWorks, ReadMode, ReadStatus, WriteNumber, WriteWords, WriteData, Begin, Finish, Abort,
   UnknownCommand, EraseRefused, EraseStart, EraseBlock, WriteRefused, WriteOccupied, WriteStart,
   WriteEnd, Verify, RunApp, RunIdle, AppReadMode, AppRefuses, AppEnters, Unheard, Reply, Exception

(* Flash is worked on only at the steps that ask for it, and no answer that   *)
(* says VALID is given meanwhile.                                             *)
LEMMA DeviceOnFlash ==
  ASSUME IInv, DeviceWorks
  PROVE  flash' = flash \/ /\ step \in {"erase", "write"}
                           /\ update'.status # "valid" /\ tx'.value # "valid"
<1> USE DEF IInv, TypeOK, DeviceTypeOK
<1>1. CASE EraseStart \/ WriteStart
  <2>1. rx.op = "command" /\ rx # Quiet
    BY <1>1 DEF EraseStart, WriteStart, Handles, Quiet
  <2>2. rx.reg = step /\ tx = Silence
    BY <2>1, AskSays DEF OneRequest
  <2>3. step \in {"erase", "write"}
    BY <1>1, <2>2 DEF EraseStart, WriteStart, Handles
  <2>4. update'.status # "valid" /\ tx' = tx
    BY <1>1 DEF EraseStart, WriteStart, UpdateState
  <2> QED BY <2>2, <2>3, <2>4 DEF Silence
<1>2. CASE EraseBlock \/ WriteEnd
  <2>1. rx # Quiet /\ step \in {"erase", "write"} /\ tx = Silence
    BY <1>2 DEF EraseBlock, WriteEnd, WorksForTool, OneRequest
  <2>2. update'.status # "valid"
    BY <1>2 DEF EraseBlock, WriteEnd, UpdateState
  <2>3. tx' = tx \/ Reply("none")
    BY <1>2 DEF EraseBlock, WriteEnd
  <2> QED BY <2>1, <2>2, <2>3 DEF Silence, Reply
<1>3. CASE ~(EraseStart \/ WriteStart \/ EraseBlock \/ WriteEnd)
  BY <1>3 DEF DeviceWorks, ReadMode, ReadStatus, WriteNumber, WriteWords, WriteData, Begin,
     Finish, Abort, UnknownCommand, EraseRefused, WriteRefused, WriteOccupied, Verify, RunApp,
     RunIdle, AppReadMode, AppRefuses, AppEnters, Unheard, deviceVars
<1> QED BY <1>1, <1>2, <1>3

(* The erase or the write that has begun is the one the tool waits for. *)
LEMMA DeviceKeepsWorking ==
  ASSUME IInv, DeviceWorks, UNCHANGED <<toolVars, faults>>
  PROVE  WorksForTool'
<1> USE DEF IInv, TypeOK, DeviceTypeOK, toolVars
<1>1. CASE EraseStart \/ WriteStart
  <2>1. rx.op = "command" /\ rx # Quiet
    BY <1>1 DEF EraseStart, WriteStart, Handles, Quiet
  <2>2. rx.reg = step
    BY <2>1, AskSays DEF OneRequest
  <2> QED BY <1>1, <2>1, <2>2 DEF EraseStart, WriteStart, Handles, WorksForTool, UpdateState
<1>2. CASE EraseBlock
  BY <1>2 DEF EraseBlock, WorksForTool
<1>3. CASE WriteEnd
  BY <1>3 DEF WriteEnd, WorksForTool
<1>4. CASE ~(EraseStart \/ WriteStart \/ EraseBlock \/ WriteEnd)
  <2>1. job' = job /\ (job = 0 \/ mode # "boot")
    BY <1>4 DEF DeviceWorks, ReadMode, ReadStatus, WriteNumber, WriteWords, WriteData, Begin,
       Finish, Abort, UnknownCommand, EraseRefused, WriteRefused, WriteOccupied, Verify, RunApp,
       RunIdle, AppReadMode, AppRefuses, AppEnters, Unheard, deviceVars, Handles
  <2> QED BY <2>1 DEF WorksForTool
<1> QED BY <1>1, <1>2, <1>3, <1>4

(* The CRC register changes when it is written, which only the tool's request *)
(* does, and when the state is reset.                                         *)
LEMMA DeviceKeepsCrc ==
  ASSUME IInv, DeviceWorks
  PROVE  update'.crc \in {0, target.id}
<1> USE DEF IInv, TypeOK, DeviceTypeOK
<1>0. update \in UpdateState /\ update.crc \in {0, target.id}
  BY DEF CrcIsTarget
<1>1. CASE WriteNumber("crc")
  <2>1. rx.op = "write" /\ rx.reg = "crc" /\ rx # Quiet
    BY <1>1 DEF WriteNumber, Handles, Quiet
  <2>2. rx.n = target.id
    BY <2>1, AskSays DEF OneRequest
  <2> QED BY <1>0, <1>1, <2>2 DEF WriteNumber, UpdateState
<1>2. CASE Abort
  BY <1>2 DEF Abort, update_reset
<1>3. ASSUME NEW reg \in {"size", "offset"}, WriteNumber(reg) PROVE update'.crc = update.crc
  BY <1>0, <1>3 DEF WriteNumber, UpdateState
<1>4. CASE WriteWords \/ WriteData
  BY <1>0, <1>4 DEF WriteWords, WriteData, UpdateState
<1>5. CASE Begin \/ UnknownCommand \/ EraseRefused
  BY <1>0, <1>5 DEF Begin, UnknownCommand, EraseRefused, Finish, UpdateState
<1>6. CASE EraseStart \/ EraseBlock \/ WriteRefused \/ WriteOccupied
  BY <1>0, <1>6 DEF EraseStart, EraseBlock, WriteRefused, WriteOccupied, Finish, UpdateState
<1>7. CASE WriteStart \/ WriteEnd \/ Verify \/ RunIdle
  BY <1>0, <1>7 DEF WriteStart, WriteEnd, Verify, RunIdle, Finish, UpdateState
<1>8. CASE RunApp
  BY <1>0, <1>8 DEF RunApp, Finish, UpdateState
<1>9. CASE ReadMode \/ ReadStatus \/ AppReadMode \/ AppRefuses \/ AppEnters \/ Unheard
  BY <1>0, <1>9 DEF ReadMode, ReadStatus, AppReadMode, AppRefuses, AppEnters, Unheard, deviceVars
<1> QED
  BY <1>0, <1>1, <1>2, <1>3, <1>4, <1>5, <1>6, <1>7, <1>8, <1>9 DEF DeviceWorks

(* VERIFY says VALID of the target alone: no other image has its CRC. *)
LEMMA ValidComesFromTarget ==
  ASSUME IInv, DeviceWorks, update'.status = "valid", update.status # "valid"
  PROVE  Installed
<1> USE DEF IInv, TypeOK, DeviceTypeOK
<1>1. Verify \/ RunIdle
  BY ValidAppears DEF MasterNext
<1>2. ~RunIdle
  <2> SUFFICES ASSUME RunIdle PROVE FALSE
    OBVIOUS
  <2>1. rx.op = "multiple" /\ rx # Quiet
    BY DEF RunIdle, Handles, Quiet
  <2> QED BY <2>1, AskSays DEF OneRequest
<1>3. update_verify = "valid"
  BY <1>1, <1>2 DEF Verify, Finish, UpdateState
<1>4. app_image_valid /\ Resident.ours /\ Resident.id = update.crc
  BY <1>3 DEF update_verify
<1>5. Resident \in Image /\ Holds(Resident)
  BY <1>4 DEF app_image_valid, Resident
<1>6. Resident.id # 0
  BY <1>5, BootloaderAssumption DEF BootloaderAssumption
<1>7. Resident = target
  BY <1>4, <1>5, <1>6, BootloaderAssumption DEF BootloaderAssumption, CrcIsTarget
<1> QED BY <1>4, <1>5, <1>7 DEF Installed

(* The answer VALID repeats the register. *)
LEMMA AnswerSaysStatus ==
  ASSUME DeviceWorks, tx'.value = "valid"
  PROVE  tx' = tx \/ (update' = update /\ update.status = "valid" /\ flash' = flash)
<1>1. CASE ReadStatus
  BY <1>1 DEF ReadStatus, Reply, deviceVars
<1>2. CASE ~ReadStatus
  BY <1>2 DEF DeviceWorks, ReadMode, WriteNumber, WriteWords, WriteData, Begin, Finish, Abort,
     UnknownCommand, EraseRefused, EraseStart, EraseBlock, WriteRefused, WriteOccupied, WriteStart,
     WriteEnd, Verify, RunApp, RunIdle, AppReadMode, AppRefuses, AppEnters, Unheard, Reply, Exception
<1> QED BY <1>1, <1>2

(* As long as flash is left alone, what is installed stays so. *)
LEMMA InstalledStays ==
  ASSUME flash' = flash, target' = target
  PROVE  Installed' = Installed
BY DEF Installed, Holds

-------------------------------------------------------------------------------
(* The invariant is inductive, one lemma for each of those who take steps.    *)
LEMMA InitIInv == Init => IInv
<1> SUFFICES ASSUME Init PROVE IInv
  OBVIOUS
<1>1. DeviceTypeOK
  BY MasterInitTypes DEF MasterInit, Init
<1>2. TypeOK
  <2>1. target \in Image /\ tries \in 0 .. Tries /\ block \in Block
    BY Contents, ToolAssumption DEF ToolAssumption, Init
  <2>2. faults \in [FaultKind -> 0 .. MaxFaults]
    BY ToolAssumption DEF ToolAssumption, Init
  <2> QED BY <1>1, <2>1, <2>2 DEF TypeOK, Init, Steps
<1>3. target \in Wanted /\ target.size \in Block
  BY <1>2, BootloaderAssumption DEF Init, TypeOK, BootloaderAssumption
<1>4. InTarget
  BY <1>3 DEF InTarget, Init, Block
<1>5. OneRequest /\ WorksForTool /\ VerifiedStays
  BY DEF OneRequest, WorksForTool, VerifiedStays, Init, DeviceInit
<1>6. CrcIsTarget /\ ValidIsTarget /\ AnswerIsTarget
  BY DEF CrcIsTarget, ValidIsTarget, AnswerIsTarget, Init, DeviceInit, update_reset, Silence
<1> QED BY <1>2, <1>4, <1>5, <1>6 DEF IInv

LEMMA DeviceKeepsIInv ==
  ASSUME IInv, Device
  PROVE  IInv'
<1>0. DeviceWorks /\ UNCHANGED <<target, step, block, waiting, tries, faults>>
  BY DEF Device, toolVars
<1>1. TypeOK'
  BY <1>0, DeviceTypes DEF IInv, TypeOK
<1>2. OneRequest'
  <2>1. Ask' = Ask
    BY <1>0 DEF Ask
  <2> QED BY <1>0, <2>1, DeviceOnLine DEF IInv, OneRequest
<1>3. WorksForTool'
  BY DeviceKeepsWorking DEF Device
<1>4. CrcIsTarget'
  BY <1>0, DeviceKeepsCrc DEF CrcIsTarget
<1>5. ValidIsTarget'
  <2> SUFFICES ASSUME update'.status = "valid" PROVE Installed'
    BY DEF ValidIsTarget
  <2>1. flash' = flash
    BY <1>0, DeviceOnFlash
  <2>2. Installed
    BY <1>0, ValidComesFromTarget DEF IInv, ValidIsTarget
  <2> QED BY <1>0, <2>1, <2>2, InstalledStays
<1>6. AnswerIsTarget'
  <2> SUFFICES ASSUME tx'.value = "valid" PROVE Installed'
    BY DEF AnswerIsTarget
  <2>1. flash' = flash
    BY <1>0, DeviceOnFlash
  <2>2. Installed
    BY <1>0, AnswerSaysStatus DEF IInv, ValidIsTarget, AnswerIsTarget
  <2> QED BY <1>0, <2>1, <2>2, InstalledStays
<1>7. VerifiedStays'
  <2> SUFFICES ASSUME step' \in {"run", "await_app", "done"} PROVE Installed'
    BY DEF VerifiedStays
  <2>1. flash' = flash
    BY <1>0, DeviceOnFlash
  <2> QED BY <1>0, <2>1, InstalledStays DEF IInv, VerifiedStays
<1>8. InTarget'
  BY <1>0 DEF IInv, InTarget
<1> QED BY <1>1, <1>2, <1>3, <1>4, <1>5, <1>6, <1>7, <1>8 DEF IInv

(* A reset forgets the update. *)
LEMMA RestartKeepsIInv ==
  ASSUME IInv, Restart
  PROVE  IInv'
<1>0. PICK forced \in BOOLEAN : Boot(forced)
  BY DEF Restart
<1>a. UNCHANGED <<flash, job, rx, tx, target, step, block, waiting, tries, faults>>
  BY <1>0 DEF Boot, Restart, toolVars
<1>b. job = 0
  BY <1>0 DEF Boot, IInv, WorksForTool
<1>c. update' = update_reset
  BY <1>0 DEF Boot
<1>1. TypeOK'
  BY <1>0, <1>a, BootTypes DEF IInv, TypeOK
<1>2. OneRequest' /\ InTarget'
  <2>1. Ask' = Ask
    BY <1>a DEF Ask
  <2> QED BY <1>a, <2>1 DEF IInv, OneRequest, InTarget
<1>3. WorksForTool'
  BY <1>a, <1>b DEF WorksForTool
<1>4. CrcIsTarget' /\ ValidIsTarget'
  BY <1>c DEF update_reset, CrcIsTarget, ValidIsTarget
<1>5. AnswerIsTarget' /\ VerifiedStays'
  BY <1>a, InstalledStays DEF IInv, AnswerIsTarget, VerifiedStays
<1> QED BY <1>1, <1>2, <1>3, <1>4, <1>5 DEF IInv

(* What a step that leaves the device alone cannot disturb. *)
LEMMA DeviceAlone ==
  ASSUME IInv, UNCHANGED deviceVars, target' = target
  PROVE  /\ Installed' = Installed
         /\ CrcIsTarget' /\ ValidIsTarget'
         /\ (tx' = tx \/ tx' = Silence) => AnswerIsTarget'
<1>1. Installed' = Installed
  BY InstalledStays DEF deviceVars
<1>2. update' = update
  BY DEF deviceVars
<1> QED BY <1>1, <1>2 DEF IInv, CrcIsTarget, ValidIsTarget, AnswerIsTarget, Silence

(* With nothing to be answered the line is quiet and flash at rest. *)
LEMMA NothingAsked ==
  ASSUME IInv, ~waiting \/ tx.kind # "none" \/ rx = Quiet \/ step \notin Steps
  PROVE  rx = Quiet /\ job = 0
BY DEF IInv, OneRequest, WorksForTool, Silence

LEMMA SendKeepsIInv ==
  ASSUME IInv, Send
  PROVE  IInv'
<1>0. rx = Quiet /\ job = 0
  BY NothingAsked DEF Send
<1>1. Ask \in Request
  <2>1. block \in 1 .. target.size
    BY DEF IInv, TypeOK, InTarget, Block
  <2>2. Ask \in Requests(Number, Data)
    BY <2>1, AskIsRequest DEF IInv, InTarget, Send
  <2> QED BY <2>2, SentIsRequest
<1>2. TypeOK'
  <2>1. DeviceTypeOK'
    BY <1>1, QuietLine DEF Send, IInv, TypeOK, DeviceTypeOK, deviceVars
  <2>2. tries' \in 0 .. Tries /\ waiting' \in BOOLEAN
    BY ToolAssumption DEF ToolAssumption, Send, IInv, TypeOK
  <2> QED BY <2>1, <2>2 DEF Send, IInv, TypeOK
<1>3. OneRequest' /\ InTarget'
  <2>1. Ask' = Ask
    BY DEF Ask, Send
  <2> QED BY <2>1 DEF Send, IInv, OneRequest, InTarget
<1>4. WorksForTool' /\ VerifiedStays'
  BY <1>0, DeviceAlone DEF Send, WorksForTool, IInv, VerifiedStays, deviceVars
<1> QED BY <1>2, <1>3, <1>4, DeviceAlone DEF IInv, Send

(* The tool goes on to an installed image only by the answer VALID. *)
LEMMA AnsweredKeepsIInv ==
  ASSUME IInv, Answered
  PROVE  IInv'
<1>0. rx = Quiet /\ job = 0
  BY NothingAsked DEF Answered
<1>1. step \in Steps \cup {"done", "failed"} /\ block \in Block /\ target \in Image
  BY DEF IInv, TypeOK
<1>2. target.size \in Block
  BY <1>1, BootloaderAssumption DEF BootloaderAssumption
<1>3. step' \in Steps \cup {"done", "failed"}
  <2>1. CASE step \in {"mode", "enter", "await_boot", "size", "crc", "begin", "begin?"}
    BY <2>1 DEF Answered, NextStep, Steps
  <2>2. CASE step \in {"erase", "erase?", "offset", "words", "chunk", "write", "write?"}
    BY <2>2 DEF Answered, NextStep, Steps
  <2>3. CASE step \in {"verify", "verify?", "run", "await_app"}
    BY <2>3 DEF Answered, NextStep, Steps
  <2>4. step \in Steps
    BY DEF Answered, IInv, OneRequest
  <2> QED BY <2>1, <2>2, <2>3, <2>4 DEF Steps
<1>4. InTarget' /\ block' \in Block
  <2>1. step = "write?" /\ step' = "offset" => block < target.size
    BY DEF Answered, NextStep
  <2>2. Blocks \in Nat /\ block \in 1 .. Blocks /\ target.size \in 1 .. Blocks /\ block <= target.size
    BY <1>1, <1>2, BootloaderAssumption DEF Block, IInv, InTarget, BootloaderAssumption
  <2>3. block' \in 1 .. Blocks /\ block' <= target.size
    BY <2>1, <2>2 DEF Answered
  <2> QED BY <2>3 DEF Answered, IInv, InTarget, Block
<1>5. TypeOK'
  <2>1. DeviceTypeOK'
    BY QuietLine DEF Answered, IInv, TypeOK, DeviceTypeOK, deviceVars
  <2>2. tries' \in 0 .. Tries
    BY ToolAssumption DEF ToolAssumption, Answered
  <2>3. waiting' \in BOOLEAN
    BY DEF Answered
  <2> QED BY <1>3, <1>4, <2>1, <2>2, <2>3 DEF Answered, IInv, TypeOK
<1>6. OneRequest' /\ WorksForTool'
  BY <1>0 DEF Answered, OneRequest, WorksForTool, deviceVars
<1>7. VerifiedStays'
  <2> SUFFICES ASSUME step' \in {"run", "await_app", "done"} PROVE Installed
    BY DeviceAlone DEF VerifiedStays, Answered
  <2>1. (step = "verify?" /\ tx.value = "valid") \/ step \in {"run", "await_app"}
    <3>1. step \in Steps
      BY DEF Answered, IInv, OneRequest
    <3> QED BY <3>1 DEF Answered, NextStep, Steps
  <2> QED BY <2>1 DEF IInv, AnswerIsTarget, VerifiedStays
<1> QED BY <1>4, <1>5, <1>6, <1>7, DeviceAlone DEF IInv, Answered

(* The tool gives up, waits on, asks again or is started again: nothing that  *)
(* it does then takes it to a later step.                                     *)
LEMMA OtherToolKeepsIInv ==
  ASSUME IInv, Excepted \/ NoAnswer \/ Impatient \/ Again
  PROVE  IInv'
<1>0. /\ UNCHANGED deviceVars /\ rx' = rx /\ (tx' = tx \/ tx' = Silence)
      /\ target' = target /\ block' = block /\ faults' = faults
  BY DEF Excepted, NoAnswer, Impatient, Again, lineVars
<1>1. step' = step \/ step' \in {"failed", "mode"}
  BY DEF Excepted, NoAnswer, Impatient, Again
<1>2. TypeOK'
  <2>1. waiting' \in BOOLEAN
    BY DEF Excepted, NoAnswer, Impatient, Again, IInv, TypeOK
  <2>2. tries' \in 0 .. Tries
    <3>1. tries \in 0 .. Tries /\ Tries \in Nat
      BY ToolAssumption DEF IInv, TypeOK, ToolAssumption
    <3> QED BY <3>1 DEF Excepted, NoAnswer, Impatient, Again
  <2>3. step' \in Steps \cup {"done", "failed"}
    BY <1>1 DEF IInv, TypeOK, Steps
  <2> QED BY <1>0, <2>1, <2>2, <2>3, QuietLine DEF IInv, TypeOK, DeviceTypeOK, deviceVars
<1>3. OneRequest' /\ WorksForTool'
  <2>1. CASE Impatient
    <3>1. Ask' = Ask
      BY <2>1 DEF Ask, Impatient
    <3> QED BY <2>1, <3>1 DEF Impatient, IInv, OneRequest, WorksForTool, deviceVars, lineVars
  <2>2. CASE Excepted \/ NoAnswer \/ Again
    <3>1. rx = Quiet /\ job = 0
      <4>1. CASE Excepted
        BY <4>1, NothingAsked DEF Excepted
      <4>2. CASE NoAnswer
        BY <4>2, NothingAsked, QuietHasNoOp DEF NoAnswer, IInv, TypeOK, DeviceTypeOK
      <4>3. CASE Again
        BY <4>3, NothingAsked DEF Again, Steps
      <4> QED BY <2>2, <4>1, <4>2, <4>3
    <3>2. waiting' => step' \in Steps
      BY <2>2 DEF Excepted, NoAnswer, Again, Steps
    <3> QED BY <1>0, <3>1, <3>2 DEF OneRequest, WorksForTool, deviceVars
  <2> QED BY <2>1, <2>2
<1>4. VerifiedStays' /\ InTarget'
  BY <1>0, <1>1, DeviceAlone DEF IInv, VerifiedStays, InTarget
<1> QED BY <1>0, <1>2, <1>3, <1>4, DeviceAlone DEF IInv

(* Whatever is lost. *)
LEMMA FaultsKeepIInv ==
  ASSUME IInv, LoseRequest \/ LoseAnswer \/ LosePower
  PROVE  IInv'
<1>0. UNCHANGED <<target, step, block, waiting, tries>>
  BY DEF LoseRequest, LoseAnswer, LosePower, toolVars
<1>a. UNCHANGED <<flash, update>> /\ (tx' = tx \/ tx' = Silence)
  BY DEF LoseRequest, LoseAnswer, LosePower, PowerLoss, deviceVars
<1>1. faults' \in [FaultKind -> 0 .. MaxFaults]
  <2>1. PICK kind \in Faults : Fault(kind)
    BY DEF LoseRequest, LoseAnswer, LosePower, Fault
  <2>2. /\ faults["request"] \in Nat /\ faults["answer"] \in Nat /\ faults["power"] \in Nat
        /\ kind \in FaultKind /\ MaxFaults \in Nat
    BY ToolAssumption DEF ToolAssumption, FaultKind, IInv, TypeOK
  <2>3. faults[kind] + 1 \in 0 .. MaxFaults
    BY <2>1, <2>2 DEF Fault, FaultKind
  <2> QED BY <2>1, <2>3 DEF Fault, IInv, TypeOK
<1>2. DeviceTypeOK'
  <2>1. CASE LosePower
    BY <2>1, PowerLossTypes DEF LosePower, IInv, TypeOK
  <2>2. CASE LoseRequest \/ LoseAnswer
    BY <2>2, QuietLine DEF LoseRequest, LoseAnswer, IInv, TypeOK, DeviceTypeOK, deviceVars
  <2> QED BY <2>1, <2>2
<1>3. TypeOK'
  BY <1>0, <1>1, <1>2 DEF IInv, TypeOK
<1>4. rx' = Quiet \/ (rx' = rx /\ tx' = tx) \/ (rx' = rx /\ rx = Quiet)
  BY NothingAsked DEF LoseRequest, LoseAnswer, LosePower, PowerLoss
<1>5. OneRequest'
  <2>1. Ask' = Ask
    BY <1>0 DEF Ask
  <2> QED BY <1>0, <1>4, <2>1 DEF IInv, OneRequest
<1>6. WorksForTool'
  <2>1. job' = 0 \/ (job' = job /\ rx' = rx /\ mode' = mode)
    BY DEF LoseRequest, LoseAnswer, LosePower, PowerLoss, deviceVars
  <2> QED BY <1>0, <1>a, <2>1 DEF IInv, WorksForTool
<1>7. CrcIsTarget' /\ ValidIsTarget' /\ AnswerIsTarget' /\ VerifiedStays' /\ InTarget'
  BY <1>0, <1>a, InstalledStays
     DEF IInv, CrcIsTarget, ValidIsTarget, AnswerIsTarget, VerifiedStays, InTarget, Silence
<1> QED BY <1>3, <1>5, <1>6, <1>7 DEF IInv

LEMMA StepKeepsIInv ==
  ASSUME IInv, [Next]_vars
  PROVE  IInv'
<1>1. CASE UNCHANGED vars
  <2>1. UNCHANGED <<mode, flash, pgerr, request, update, job, rx, tx>>
    BY <1>1 DEF vars, deviceVars, lineVars
  <2>2. UNCHANGED <<target, step, block, waiting, tries, faults>>
    BY <1>1 DEF vars, toolVars
  <2>3. Ask' = Ask /\ Installed' = Installed
    BY <2>1, <2>2, InstalledStays DEF Ask
  <2> QED BY <2>1, <2>2, <2>3 DEF IInv, TypeOK, DeviceTypeOK, OneRequest, WorksForTool, CrcIsTarget,
        ValidIsTarget, AnswerIsTarget, VerifiedStays, InTarget
<1> QED
  BY <1>1, DeviceKeepsIInv, RestartKeepsIInv, SendKeepsIInv, AnsweredKeepsIInv, OtherToolKeepsIInv,
     FaultsKeepIInv DEF Next, Tool, Idle

THEOREM UpdateInvariant == Spec => []IInv
BY InitIInv, StepKeepsIInv, PTL DEF Spec

(* The bootloader, the line and the tool stay well formed, and so does the    *)
(* count of what was lost.                                                    *)
THEOREM UpdateTypes == Spec => []TypeOK
<1>1. IInv => TypeOK
  BY DEF IInv
<1> QED BY <1>1, UpdateInvariant, PTL

(* When the tool says done, the image it was given is in flash and is one for *)
(* this device (modbus_update.py, update): for every set of images, whatever  *)
(* was lost, however often the power failed and the tool was started again.   *)
THEOREM UpdateEndsInstalled == Spec => []DoneMeansInstalled
<1>1. IInv => DoneMeansInstalled
  BY DEF IInv, VerifiedStays, DoneMeansInstalled, Installed
<1> QED BY <1>1, UpdateInvariant, PTL

-------------------------------------------------------------------------------
(* The tool is one of the masters of Master: the line sees a request when it  *)
(* is quiet, losses, and nothing else.                                        *)
THEOREM ToolIsAMaster == Spec => MasterSpec
<1>1. Init => MasterInit
  BY DEF Init, MasterInit
<1>2. IInv /\ [Next]_vars => [MasterNext]_masterVars
  <2> SUFFICES ASSUME IInv, [Next]_vars PROVE [MasterNext]_masterVars
    OBVIOUS
  <2>1. CASE Device
    BY <2>1 DEF Device, MasterNext
  <2>2. CASE Restart
    BY <2>2 DEF Restart, MasterNext
  <2>3. CASE Send
    <3>1. block \in 1 .. target.size
      BY DEF IInv, TypeOK, InTarget, Block
    <3>2. Ask \in Requests(Number, Data)
      BY <2>3, <3>1, AskIsRequest DEF IInv, InTarget, Send
    <3>3. rx = Quiet
      BY <2>3, NothingAsked DEF Send
    <3> QED BY <2>3, <3>2, <3>3 DEF Send, SendAny, MasterNext
  <2>4. CASE Answered \/ Excepted
    BY <2>4 DEF Answered, Excepted, AnswerLost, MasterNext
  <2>5. CASE NoAnswer \/ Impatient \/ Again \/ Idle
    BY <2>5 DEF NoAnswer, Impatient, Again, Idle, vars, masterVars
  <2>6. CASE LoseRequest \/ LoseAnswer
    BY <2>6 DEF LoseRequest, LoseAnswer, RequestLost, AnswerLost, MasterNext
  <2>7. CASE LosePower
    BY <2>7 DEF LosePower, MasterNext
  <2>8. CASE UNCHANGED vars
    BY <2>8 DEF vars, masterVars
  <2> QED BY <2>1, <2>2, <2>3, <2>4, <2>5, <2>6, <2>7, <2>8 DEF Next, Tool
<1> QED BY <1>1, <1>2, UpdateInvariant, PTL DEF Spec, MasterSpec

(* So what holds of the device under any master holds during an update: the   *)
(* application runs whole images only.                                        *)
THEOREM UpdateRunsWholeImages == Spec => []AppIsWhole
BY ToolIsAMaster, OnlyWholeImagesRun, PTL
===============================================================================
