----------------------------- MODULE ConfigStore -----------------------------
(* The two-page configuration store of app_config.c with the commands of      *)
(* HR 5000 (config_registers.c), the command slot of main.c and the boot      *)
(* request of the backup registers.  Saving is split at the points where the  *)
(* power may go: before and after the page erase and before the blob is       *)
(* complete.  A page whose blob does not pass magic, length, CRC and          *)
(* ddm_config_validate is NoBlob: erased, torn and foreign contents are the   *)
(* same to blob_read_config.                                                  *)
EXTENDS Naturals

CONSTANTS Link,         \* slave address and port settings (HR 0, HR 1)
          Body,         \* the rest of a configuration that passes validation
          DefaultLink, DefaultBody,
          NoBlob, NoLink,
          MaxSeq        \* bound on saves: the 32-bit counter never wraps

ASSUME StoreAssumption ==
  /\ DefaultLink \in Link
  /\ DefaultBody \in Body
  /\ MaxSeq \in Nat \ {0}

Config == [link : Link, body : Body]
Blob   == [seq : 1 .. MaxSeq, cfg : Config]
Page   == {0, 1}

(* The two markers are no values of the code. *)
ASSUME MarkerAssumption == NoBlob \notin Blob \cup Config /\ NoLink \notin Link \cup Config

Command == {"none", "save", "reload", "defaults"}

VARIABLES
  pages,    \* CONFIG_PAGE0 and CONFIG_PAGE1
  link,     \* regs.slave_address and regs.hr1_port_config
  body,     \* g_reg_config
  seq,      \* g_sequence
  command,  \* g_command and main's pending_command
  stage,    \* where the program is: "reset", "loop", "erase" or "program"
  blob,     \* the blob flash_write_config is writing
  pgerr,    \* PGERR or WRPRTERR of FLASH_SR, which nothing clears before a reset
  bkp       \* the boot request in the backup registers

vars == <<pages, link, body, seq, command, stage, blob, pgerr, bkp>>

TypeOK ==
  /\ pages \in [Page -> Blob \cup {NoBlob}]
  /\ link \in Link
  /\ body \in Body
  /\ seq \in 0 .. MaxSeq
  /\ command \in Command
  /\ stage \in {"reset", "loop", "erase", "program"}
  /\ blob \in Blob \cup {NoBlob}
  /\ pgerr \in BOOLEAN
  /\ bkp \in Link \cup {NoLink}

-------------------------------------------------------------------------------
(* Mutant: select_best_blob compares the sequence numbers the wrong way. *)
BestIsOldest(p) ==
  IF p[0] # NoBlob /\ p[1] # NoBlob
  THEN IF p[1].seq < p[0].seq THEN p[1] ELSE p[0]
  ELSE IF p[0] # NoBlob THEN p[0] ELSE p[1]

(* select_best_blob over the two pages. *)
Best(p) ==
  IF p[0] # NoBlob /\ p[1] # NoBlob
  THEN IF p[1].seq > p[0].seq THEN p[1] ELSE p[0]
  ELSE IF p[0] # NoBlob THEN p[0] ELSE p[1]

(* flash_load_config leaves this in g_sequence. *)
LoadedSeq(p) == IF Best(p) = NoBlob THEN 0 ELSE Best(p).seq

(* config_from_runtime: the settings of the registers win over g_reg_config. *)
Runtime == [link |-> link, body |-> body]

(* Mutant: every save goes to page 0. *)
TargetAlwaysPage0(b) == 0

(* flash_write_config writes odd sequence numbers to page 1. *)
TargetPage(b) == b.seq % 2

-------------------------------------------------------------------------------
Init ==
  /\ pages = [p \in Page |-> NoBlob]
  /\ link = DefaultLink /\ body = DefaultBody
  /\ seq = 0 /\ command = "none" /\ stage = "reset"
  /\ blob = NoBlob /\ pgerr = FALSE /\ bkp = NoLink

(* Mutant: the boot request overrides a saved configuration. *)
BootRequestWins ==
  /\ stage = "reset" /\ stage' = "loop"
  /\ seq' = LoadedSeq(pages)
  /\ link' = IF bkp # NoLink THEN bkp
             ELSE IF Best(pages) # NoBlob THEN Best(pages).cfg.link ELSE DefaultLink
  /\ body' = IF Best(pages) # NoBlob THEN Best(pages).cfg.body ELSE DefaultBody
  /\ bkp' = NoLink
  /\ UNCHANGED <<pages, command, blob, pgerr>>

(* main up to the loop: app_config_load_or_defaults.  Only a device without a *)
(* saved configuration keeps the address it was asked to use in the           *)
(* bootloader; the request is cleared in any case.                            *)
Boot ==
  /\ stage = "reset" /\ stage' = "loop"
  /\ seq' = LoadedSeq(pages)
  /\ IF Best(pages) # NoBlob
     THEN link' = Best(pages).cfg.link /\ body' = Best(pages).cfg.body
     ELSE link' = (IF bkp = NoLink THEN DefaultLink ELSE bkp) /\ body' = DefaultBody
  /\ bkp' = NoLink
  /\ UNCHANGED <<pages, command, blob, pgerr>>

(* A register write is processed only when no command waits: the response to  *)
(* the command has to leave first and then the command runs (main.c:63-85).   *)
Idle == stage = "loop" /\ command = "none"

WriteLink(l) ==
  /\ Idle
  /\ link' = l
  /\ UNCHANGED <<pages, body, seq, command, stage, blob, pgerr, bkp>>

WriteBody(b) ==
  /\ Idle
  /\ body' = b
  /\ UNCHANGED <<pages, link, seq, command, stage, blob, pgerr, bkp>>

(* HR 5000: 1 and 2 are only recorded, 3 also applies the defaults at once. *)
WriteCommand(c) ==
  /\ Idle
  /\ c # "none" /\ command' = c
  /\ body' = IF c = "defaults" THEN DefaultBody ELSE body
  /\ UNCHANGED <<pages, link, seq, stage, blob, pgerr, bkp>>

Reload ==
  /\ stage = "loop" /\ command = "reload" /\ command' = "none"
  /\ seq' = LoadedSeq(pages)
  /\ IF Best(pages) # NoBlob
     THEN link' = Best(pages).cfg.link /\ body' = Best(pages).cfg.body
     ELSE UNCHANGED <<link, body>>
  /\ UNCHANGED <<pages, stage, blob, pgerr, bkp>>

FactoryDefaults ==
  /\ stage = "loop" /\ command = "defaults" /\ command' = "none"
  /\ link' = DefaultLink /\ body' = DefaultBody
  /\ UNCHANGED <<pages, seq, stage, blob, pgerr, bkp>>

(* flash_write_config up to the page erase. *)
AlreadySaved == Best(pages) # NoBlob /\ Best(pages).cfg = Runtime

SaveUnchanged ==
  /\ stage = "loop" /\ command = "save" /\ command' = "none"
  /\ AlreadySaved
  /\ seq' = LoadedSeq(pages)
  /\ UNCHANGED <<pages, link, body, stage, blob, pgerr, bkp>>

SaveStart ==
  /\ stage = "loop" /\ command = "save"
  /\ ~AlreadySaved
  /\ seq' = LoadedSeq(pages)
  /\ seq' < MaxSeq
  /\ blob' = [seq |-> seq' + 1, cfg |-> Runtime]
  /\ stage' = "erase"
  /\ UNCHANGED <<pages, link, body, command, pgerr, bkp>>

(* flash_erase_page; the page may be left as it was when the erase fails.     *)
(* The flags are sticky, so once one is set every later save ends here.       *)
SaveErase ==
  /\ stage = "erase"
  /\ \E failed \in BOOLEAN, left \in {NoBlob, pages[TargetPage(blob)]} :
       /\ left # NoBlob => failed
       /\ pages' = [pages EXCEPT ![TargetPage(blob)] = left]
       /\ pgerr' = (pgerr \/ failed)
  /\ stage' = IF pgerr' THEN "loop" ELSE "program"
  /\ command' = IF pgerr' THEN "none" ELSE command
  /\ UNCHANGED <<link, body, seq, blob, bkp>>

(* All half words are programmed: the page becomes a valid blob. *)
SaveProgram ==
  /\ stage = "program" /\ stage' = "loop" /\ command' = "none"
  /\ pages' = [pages EXCEPT ![TargetPage(blob)] = blob]
  /\ seq' = blob.seq
  /\ UNCHANGED <<link, body, blob, pgerr, bkp>>

(* A half word fails: the page stays incomplete, g_sequence is not advanced. *)
SaveProgramFails ==
  /\ stage = "program" /\ stage' = "loop" /\ command' = "none"
  /\ pgerr' = TRUE
  /\ UNCHANGED <<pages, link, body, seq, blob, bkp>>

(* 0xB007: boot_request_write and scb_reset_system at the end of the loop. *)
EnterBootloader ==
  /\ Idle /\ stage' = "reset"
  /\ bkp' = link
  /\ pgerr' = FALSE
  /\ UNCHANGED <<pages, link, body, seq, command, blob>>

(* Power loss or watchdog at any moment.  An interrupted erase leaves the old *)
(* blob or none; the backup registers survive only if they stay powered.      *)
PowerLoss ==
  /\ stage # "reset" /\ stage' = "reset"
  /\ \/ UNCHANGED pages
     \/ stage = "erase" /\ pages' = [pages EXCEPT ![TargetPage(blob)] = NoBlob]
  /\ bkp' \in {bkp, NoLink}
  /\ pgerr' = FALSE /\ command' = "none"
  /\ UNCHANGED <<link, body, seq, blob>>

Next ==
  \/ Boot
  \/ \E l \in Link : WriteLink(l)
  \/ \E b \in Body : WriteBody(b)
  \/ \E c \in Command : WriteCommand(c)
  \/ Reload
  \/ FactoryDefaults
  \/ SaveUnchanged
  \/ SaveStart
  \/ SaveErase
  \/ SaveProgram
  \/ SaveProgramFails
  \/ EnterBootloader
  \/ PowerLoss

Spec == Init /\ [][Next]_vars

-------------------------------------------------------------------------------
(* A save never touches the page whose blob would be loaded now: until the    *)
(* new blob is complete a power loss must find the old one.                   *)
SaveSparesBest ==
  stage \in {"erase", "program"} =>
     Best([pages EXCEPT ![TargetPage(blob)] = NoBlob]) = Best(pages)

(* The page a blob lies in is the parity of its sequence number; with it the  *)
(* two numbers never tie and the alternation never skips.                     *)
PageParity == \A p \in Page : pages[p] # NoBlob => pages[p].seq % 2 = p

(* A blob being written is one newer than the blob that would be loaded and   *)
(* holds the registers' values, which nothing changes during the write.       *)
WritingNext ==
  stage \in {"erase", "program"} =>
     /\ blob # NoBlob
     /\ blob = [seq |-> LoadedSeq(pages) + 1, cfg |-> Runtime]
     /\ command = "save"

(* When flash_write_config reports success the configuration that the next    *)
(* boot selects is the one that was asked to be saved.                        *)
CompletedSaveIsBest ==
  [][stage = "program" /\ stage' = "loop" /\ ~pgerr' => Best(pages').cfg = Runtime]_vars

(* The store implements the durable cell.  The durable configuration is what  *)
(* select_best_blob would choose at this moment.                              *)
Cell == INSTANCE ConfigCell WITH
  None       <- NoBlob,
  Off        <- NoLink,
  FactorySet <- [link : Link, body : {DefaultBody}],
  working    <- IF stage = "reset" THEN NoLink ELSE Runtime,
  durable    <- IF Best(pages) = NoBlob THEN NoBlob ELSE Best(pages).cfg

ImplementsCell == Cell!CellSpec
===============================================================================
