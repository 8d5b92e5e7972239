------------------------------ MODULE Bootloader ------------------------------
(* The bootloader: which program a reset starts (bootloader main.c, image.c,  *)
(* boot_request.c), the update registers and commands (boot_update.c) and the *)
(* flash of the application region (flash_writer.c), with power losses in the *)
(* middle of erasing and programming.  The region is counted in blocks, one   *)
(* WRITE_CHUNK programming one block.  A CRC matches the image it was         *)
(* computed of and no other contents, and stands for the build version too.   *)
EXTENDS Naturals

CONSTANTS
  Blocks, \* size of the application region, APP_SIZE_BYTES
  Image,  \* firmware images: [id, size, ours]; ours: device_id is BOARD_DEVICE_ID
  Factory \* the image the device was delivered with

NoImage == [id |-> 0, size |-> 0, ours |-> FALSE]
Block   == 1 .. Blocks

ASSUME BootloaderAssumption ==
  /\ Blocks \in Nat \ {0}
  /\ Image \subseteq [id : Nat \ {0}, size : Block, ours : BOOLEAN]
  /\ \A i, j \in Image : i.id = j.id => i = j
  /\ Factory \in Image

(* What a block holds: a part of an image, nothing, or an interrupted write.  *)
Content    == [image : Image \cup {NoImage}, at : 0 .. Blocks]
Part(i, b) == [image |-> i, at |-> b]
Erased     == Part(NoImage, 0)
Torn       == Part(NoImage, 1)

Status == {"idle", "ready", "erasing", "writing", "valid", "size_error", "bounds_error",
           "flash_error", "crc_error", "image_error", "sequence_error", "command_error"}
Command == {"begin", "erase", "write", "verify", "run", "abort", "enter"}

(* A request names a register (or the value written to HR 60000) and carries  *)
(* a number or the data of a chunk.  Function 6 or 16 makes no difference but *)
(* for the command "run": "multiple" is that one written with function 16.    *)
Quiet   == [op |-> "none", reg |-> "none", n |-> 0, part |-> Erased]
Requests(numbers, data) ==
  {Quiet} \cup [op : {"read"}, reg : {"mode", "status"}, n : {0}, part : {Erased}]
          \cup [op : {"command"}, reg : Command, n : {0}, part : {Erased}]
          \cup [op : {"multiple"}, reg : {"run"}, n : {0}, part : {Erased}]
          \cup [op : {"write"}, reg : {"size", "crc", "offset", "words"}, n : numbers, part : {Erased}]
          \cup [op : {"write"}, reg : {"chunk"}, n : {0}, part : data]
Request == Requests(Nat, Content)
Silence == [kind |-> "none", value |-> "none"]
Answer  == [kind : {"none", "ok", "exception"}, value : {"none", "boot", "app"} \cup Status]

VARIABLES
  mode,    \* what executes: "off" (in reset), "boot" or "app"
  flash,   \* the blocks of the application region
  pgerr,   \* PGERR of FLASH_SR: set by hardware, cleared only by a reset
  request, \* the backup registers hold a boot request
  update,  \* struct update_state
  job,     \* the block being erased or programmed; 0: none
  rx, tx   \* the frame the device has to handle, the answer on the line

deviceVars == <<mode, flash, pgerr, request, update, job>>
lineVars   == <<rx, tx>>

UpdateState ==
  [size : Nat, crc : Nat, offset : Nat, words : 0 .. 1, chunk : Content,
   status : Status, valid : BOOLEAN, erased : BOOLEAN]

DeviceTypeOK ==
  /\ mode \in {"off", "boot", "app"} /\ flash \in [Block -> Content]
  /\ pgerr \in BOOLEAN /\ request \in BOOLEAN
  /\ update \in UpdateState /\ job \in 0 .. Blocks
  /\ rx \in Request /\ tx \in Answer

update_reset == [size |-> 0, crc |-> 0, offset |-> 0, words |-> 0, chunk |-> Erased,
                 status |-> "idle", valid |-> FALSE, erased |-> FALSE]

DeviceInit ==
  /\ mode = "app" /\ request = FALSE
  /\ flash = [b \in Block |-> IF b <= Factory.size THEN Part(Factory, b) ELSE Erased]
  /\ pgerr = FALSE /\ update = update_reset /\ job = 0
  /\ rx = Quiet /\ tx = Silence

-------------------------------------------------------------------------------
Holds(i) == \A b \in 1 .. i.size : flash[b] = Part(i, b)

(* app_image_valid does not look at device_id. *)
app_image_valid == \E i \in Image : Holds(i)

(* The image in flash, when there is one. *)
Resident == CHOOSE i \in Image : Holds(i)

Reply(value) == rx' = Quiet /\ tx' = [kind |-> "ok", value |-> value]
Exception    == rx' = Quiet /\ tx' = [kind |-> "exception", value |-> "none"]

(* The bootloader handles one frame at a time and waits for the flash. *)
Handles(op, reg) == mode = "boot" /\ job = 0 /\ rx.op = op /\ rx.reg = reg

ReadMode == Handles("read", "mode") /\ Reply("boot") /\ UNCHANGED deviceVars

ReadStatus == Handles("read", "status") /\ Reply(update.status) /\ UNCHANGED deviceVars

WriteNumber(reg) ==
  /\ Handles("write", reg) /\ Reply("none")
  /\ update' = [update EXCEPT ![reg] = rx.n]
  /\ UNCHANGED <<mode, flash, pgerr, request, job>>

(* HR 60012: more words than a chunk holds are refused. *)
WriteWords ==
  /\ Handles("write", "words")
  /\ \/ rx.n <= 1 /\ Reply("none") /\ update' = [update EXCEPT !.words = rx.n]
     \/ rx.n > 1 /\ Exception /\ update' = [update EXCEPT !.status = "bounds_error"]
  /\ UNCHANGED <<mode, flash, pgerr, request, job>>

WriteData ==
  /\ Handles("write", "chunk") /\ Reply("none")
  /\ update' = [update EXCEPT !.chunk = rx.part]
  /\ UNCHANGED <<mode, flash, pgerr, request, job>>

SizeFits == update.size \in 1 .. Blocks

(* A command that ends at once with a status. *)
Finish(status) ==
  /\ update' = [update EXCEPT !.status = status]
  /\ Reply("none")
  /\ UNCHANGED <<mode, flash, pgerr, request, job>>

Begin ==
  /\ Handles("command", "begin")
  /\ \/ ~SizeFits /\ Finish("size_error")
     \/ /\ SizeFits /\ Reply("none")
        /\ update' = [update EXCEPT !.valid = TRUE, !.erased = FALSE, !.status = "ready"]
        /\ UNCHANGED <<mode, flash, pgerr, request, job>>

Abort ==
  /\ Handles("command", "abort") /\ Reply("none")
  /\ update' = update_reset
  /\ UNCHANGED <<mode, flash, pgerr, request, job>>

UnknownCommand == Handles("command", "enter") /\ Finish("command_error")

EraseRefused ==
  /\ Handles("command", "erase")
  /\ \/ ~update.valid /\ Finish("sequence_error")
     \/ update.valid /\ ~SizeFits /\ Finish("size_error")

EraseStart ==
  /\ Handles("command", "erase") /\ update.valid /\ SizeFits
  /\ update' = [update EXCEPT !.status = "erasing"]
  /\ job' = 1 /\ flash' = [flash EXCEPT ![1] = Torn]
  /\ UNCHANGED <<mode, pgerr, request, rx, tx>>

(* Mutant: the loop stops one page before APP_END_ADDR. *)
LastBlockMissed == Blocks - 1

(* Mutant: the loop includes APP_END_ADDR. *)
LastBlockBeyond == Blocks + 1

(* The end of the loop over the application region. *)
LastBlock == Blocks

(* A page is erased; the error flags are read after every page. *)
EraseBlock ==
  LET clean == [flash EXCEPT ![job] = Erased]
  IN  /\ mode = "boot" /\ job # 0 /\ update.status = "erasing"
      /\ \/ /\ ~pgerr /\ job < LastBlock
            /\ job' = job + 1 /\ flash' = [clean EXCEPT ![job + 1] = Torn]
            /\ UNCHANGED <<update, rx, tx>>
         \/ /\ ~pgerr /\ job = LastBlock
            /\ job' = 0 /\ flash' = clean /\ Reply("none")
            /\ update' = [update EXCEPT !.status = "ready", !.erased = TRUE]
         \/ /\ pgerr
            /\ job' = 0 /\ flash' = clean /\ Reply("none")
            /\ update' = [update EXCEPT !.status = "flash_error"]
      /\ UNCHANGED <<mode, pgerr, request>>

MayWrite == update.valid /\ update.erased

InRange == update.words # 0 /\ SizeFits /\ update.offset \in 1 .. update.size

WriteRefused ==
  /\ Handles("command", "write")
  /\ \/ ~MayWrite /\ Finish("sequence_error")
     \/ MayWrite /\ ~InRange /\ Finish("bounds_error")

(* A half-word that is not erased is not programmed and sets PGERR. *)
WriteOccupied ==
  /\ Handles("command", "write") /\ MayWrite /\ InRange /\ flash[update.offset] # Erased
  /\ pgerr' = TRUE
  /\ update' = [update EXCEPT !.status = "flash_error"] /\ Reply("none")
  /\ UNCHANGED <<mode, flash, request, job>>

(* The first half-word is programmed before the error flags are read. *)
WriteStart ==
  /\ Handles("command", "write") /\ MayWrite /\ InRange /\ flash[update.offset] = Erased
  /\ update' = [update EXCEPT !.status = "writing"]
  /\ job' = update.offset /\ flash' = [flash EXCEPT ![update.offset] = Torn]
  /\ UNCHANGED <<mode, pgerr, request, rx, tx>>

WriteEnd ==
  /\ mode = "boot" /\ job # 0 /\ update.status = "writing"
  /\ job' = 0 /\ Reply("none")
  /\ \/ /\ ~pgerr /\ flash' = [flash EXCEPT ![job] = update.chunk]
        /\ update' = [update EXCEPT !.status = "ready"]
     \/ pgerr /\ flash' = flash /\ update' = [update EXCEPT !.status = "flash_error"]
  /\ UNCHANGED <<mode, pgerr, request>>

(* Mutant: the metadata are compared, the image is not. *)
verify_metadata == IF update.valid THEN "valid" ELSE "sequence_error"

(* Mutant: any whole image passes. *)
verify_any_image ==
  CASE ~update.valid -> "sequence_error"
    [] update.valid /\ ~app_image_valid -> "image_error"
    [] OTHER -> "valid"

update_verify ==
  CASE ~update.valid -> "sequence_error"
    [] update.valid /\ ~app_image_valid -> "image_error"
    [] update.valid /\ app_image_valid ->
         IF ~Resident.ours \/ Resident.size # update.size THEN "image_error"
         ELSE IF Resident.id # update.crc THEN "crc_error" ELSE "valid"

Verify == Handles("command", "verify") /\ Finish(update_verify)

(* The application clears the boot request when it starts (app_config.c). *)
RunApp ==
  /\ Handles("command", "run")
  /\ \/ ~app_image_valid /\ Finish("image_error")
     \/ /\ app_image_valid /\ Reply("none")
        /\ mode' = "app" /\ request' = FALSE
        /\ UNCHANGED <<flash, pgerr, update, job>>

(* With function 16 the same command checks the image and starts nothing. *)
RunIdle == Handles("multiple", "run") /\ Finish(IF app_image_valid THEN "valid" ELSE "image_error")

-------------------------------------------------------------------------------
(* The application knows HR 9002 and, of the update registers, HR 60000 with  *)
(* the one value that leaves a boot request and resets.                       *)
AppReadMode == mode = "app" /\ rx.op = "read" /\ rx.reg = "mode" /\ Reply("app") /\ UNCHANGED deviceVars

AppRefuses ==
  /\ mode = "app" /\ rx.op # "none" /\ rx.reg \notin {"mode", "enter"}
  /\ Exception /\ UNCHANGED deviceVars

AppEnters ==
  /\ mode = "app" /\ rx.op = "command" /\ rx.reg = "enter" /\ Reply("none")
  /\ mode' = "off" /\ request' = TRUE
  /\ UNCHANGED <<flash, pgerr, update, job>>

(* Mutant: the boot decision does not look at the image. *)
StartsAppUnchecked(forced) == ~forced /\ ~request

StartsApp(forced) == ~forced /\ ~request /\ app_image_valid

(* After a reset; forced: DI0 is held. *)
Boot(forced) ==
  /\ mode = "off"
  /\ mode' = IF StartsApp(forced) THEN "app" ELSE "boot"
  /\ request' = IF StartsApp(forced) THEN FALSE ELSE request
  /\ pgerr' = FALSE /\ update' = update_reset
  /\ UNCHANGED <<flash, job, rx, tx>>

(* Nobody listens while the device is in reset. *)
Unheard == mode = "off" /\ rx.op # "none" /\ rx' = Quiet /\ UNCHANGED <<deviceVars, tx>>

(* The backup registers survive a power loss only with a battery. *)
PowerLoss ==
  /\ mode # "off" /\ mode' = "off"
  /\ request' \in {request, FALSE}
  /\ job' = 0 /\ rx' = Quiet /\ tx' = Silence
  /\ UNCHANGED <<flash, pgerr, update>>

DeviceWorks ==
  \/ ReadMode \/ ReadStatus \/ WriteNumber("size") \/ WriteNumber("crc") \/ WriteNumber("offset")
  \/ WriteWords \/ WriteData \/ Begin \/ Abort \/ UnknownCommand
  \/ EraseRefused \/ EraseStart \/ EraseBlock
  \/ WriteRefused \/ WriteOccupied \/ WriteStart \/ WriteEnd
  \/ Verify \/ RunApp \/ RunIdle \/ AppReadMode \/ AppRefuses \/ AppEnters \/ Unheard

-------------------------------------------------------------------------------
(* A running application is whole: no interrupted erase or write, no command  *)
(* out of order and no mixture of two images ever gets to execute.            *)
AppIsWhole == mode = "app" => app_image_valid
===============================================================================
