# Verification of the razumdom alternative firmware

TLA+ models, TLC runs and TLAPS proofs for the firmware of the DDM845R (TRIAC)
and DDL84R (PWM) four-channel dimmers and for the host tools that update and
configure it.
Paths such as `app/channels.c` are relative to `src/src/`; `README.md:nnn` is
the firmware's own `src/README.md`.

## 1. The system

A device holds two programs. The **bootloader** decides at reset whether the
application is started and otherwise serves a Modbus update protocol. The
**application** is one endless loop (`app/src/main.c:59-108`) with three
interrupts beside it: SysTick counts milliseconds, USART1 collects received
bytes, and on the DDM845R EXTI0 fires at every zero crossing of the mains. Host
tools talk to either program over RS-485.

| Component | Source | State it keeps | Operations | What makes it correct |
|---|---|---|---|---|
| Configuration store | `app/app_config.c` | two flash pages, the sequence number, a postponed command | load, save, reload, factory defaults, boot request | a power loss at any point leaves the old or the new configuration, never neither |
| Channels | `app/channels.c`, channel registers of `app/src/registers.c` | level, percent, remembered level, auto-light mode and its suppression instant | ordinary and auto writes by level, percent or coil-like register, configuration change | ordinary commands win over auto-light; the views of a level agree; auto-light stays off for its quiet time and is never remembered |
| Inputs | `app/inputs.c` | debouncing per input, a ring for 15 events | scan, pop, change of thresholds | no press or release is overwritten while debouncing is on; presses and releases alternate; a lost event is forgotten with the next one |
| Buttons | `app/buttons.c` | per binding and side: pressed, long, since when; ramp direction and due time per channel | press, release, tick, configuration change | a ramp needs a held button, is paced, and does not double as a toggle |
| Fades | `boards/*/dimming.c` | target, applied level, start, duration per channel | set level, advance, poll | a fade stays between its ends, takes its time and ends at the reported level |
| Output | `boards/*/dimming.c` | range and curve, compare register | set profile, apply level, zero-cross interrupt | monotone, inside the range that is read, same duty of both pulse shapes |
| Configuration registers | `app/config_registers.c`, `common/ddm_config.c` | configuration in force, status, command | register reads and writes with validation | only valid configurations come into force, whatever words are written in whatever order |
| Modbus transport | `app/app_modbus.c`, `common/modbus_rtu.c` | receive buffer and time of its last byte, transmitter state, port in use | ISR, poll, DMA, port change | every request no fault hit is answered whole; the line is driven only in its turn and always released; commands come before further requests |
| Bootloader | `bootloader/src/*.c`, `common/src/image.c`, `common/src/boot_request.c` | flash of the application, `struct update_state`, error flag, backup registers | update registers and commands, decision at reset | only a whole image runs |
| Update tool | `tools/modbus_update.py`, `tools/modbus_client.py` | the step it is at, attempts | the update sequence with retries | "done" means installed |
| Configuration tool | `tools/modbus_configure.py`, `tools/apply_config.sh` | the request it is at, address and port it uses | write, verify, read | "verification ok" means in force and saved; nothing half-written is saved or obeyed; a valid file is installed in the end |
| Boards, build, data | `boards/*/board.c`, `Makefile`, `linker/`, `wb-templates/`, `docs/`, `origfw/` | – | – | – |

The parts interact through direct calls in the loop (poll Modbus, run a
postponed configuration command, scan inputs, handle events, tick the buttons,
poll the fades), through the shared channel state that Modbus, buttons and
auto-light all write, through flash (store and bootloader), and through the
backup registers that carry the boot request over a reset.

What is hard here: the wrapping 32-bit clock; several writers of one channel
between whose steps time passes; a loop that reads the clock once but lets others
read it later; an interrupt that reads a profile being stored; power loss during
flash operations; a line that loses frames under a client that repeats them; and
long sequences of legal register writes. `PROJECT.json` lists the hazards line by line.

## 2. Modules

| Module | Extends / instances | Models |
|---|---|---|
| `ConfigCell` | – | abstract: one durable cell, saved atomically or not at all |
| `ConfigStore` | instances `ConfigCell` | the two pages, saves split where power may go, flash errors, commands, boot request |
| `Channels` | – | percent/level conversions, channel runtime and its registers, clock, configuration |
| `Buttons` | `Channels` | buttons acting on the channels in the loop, beside a Modbus master |
| `Inputs` | – | scanner, ring, and the view of the inputs the events give |
| `Dimming` | – | fades under the loop, start-up order |
| `Output` | – | curve, range and compare value; interrupt against stores |
| `Bootloader` | – | update protocol, flash, decision at reset |
| `Master` | `Bootloader` | the bootloader under any master whatever |
| `UpdateTool` | `Master` | the bootloader under `modbus_update.py` on a faulty line: one of the masters of `Master` |
| `Config` | – | what a configuration is, its validation, and its registers word by word |
| `ConfigRegisters` | `Config` | the application as its configuration registers show it |
| `ConfigTool` | `ConfigRegisters` | that application under `modbus_configure.py`, on a faulty line, with power losses and failing saves |
| `Transport` | – | receive interrupt, poll, transmission, postponed commands, port changes and reset, under a master on a shared line |
| `MC*` | the module of the name | values for TLC (`ConfigStore` and `Inputs` need only their `.cfg`) |
| `ConfigStoreProofs`, `InputsProofs`, `DimmingProofs`, `OutputProofs`, `ConfigToolProofs`, `TransportProofs` | the module of the name, `TLAPS` | theorems |
| `ChannelsProofs` | `Buttons`, `TLAPS` | theorems about `Channels` and about `Buttons` |
| `UpdateToolProofs` | `UpdateTool`, `TLAPS` | theorems about `Master` and about `UpdateTool` |

### How state and actions correspond to the code

**ConfigStore.** `pages` is what `blob_read_config` makes of each page, so an
erased, torn or foreign page is `NoBlob`; `Best` is `select_best_blob`. One save
is `SaveStart` (comparison with the stored blob, validation, choice of the page by
the parity of the sequence), `SaveErase`, `SaveProgram`, with `SaveProgramFails`
and `PowerLoss` in between. `command` is both `g_command` and main's
`pending_command`: no frame is handled between the two. `Cell` is the refinement:
`working` are the registers' values and `durable` what the next boot would select.

**Channels.** `ch` is `g_channels`; a handler is a function from channel state to
channel state (`apply_level`, `apply_auto_level`, ...) so that `Buttons` can use
it for several channels in one step. `now` is true time and the program sees
`now % Wrap`. `manual` and `quiet` are histories used by properties only.

**Buttons.** `stage` walks through one round of the loop: at most one frame, then
input events in scan order, then `buttons_tick`. Handlers work on a record of what
they may change, which `Commit` makes the next state. `PollConfig` is
`buttons_set_config`: it takes the whole of another configuration, its bindings and
press limits as well as what `channels.c` uses of it, and clears the runtime, while
the inputs stay held.

**Inputs.** `inputs_scan` is one action per input, because each may push events;
`Pop` is one turn of main's drain loop. `push_event` is a function on the ring, so
that a scan can push twice; a full ring loses its oldest entry. `held` and
`heldSince` are what the events say, which is what `buttons.c` knows; `lost` is the
set of inputs of which a press or release was overwritten and none popped since.

**Dimming.** `clock` and `loopNow` are the two times the code uses. `SetLevel`
includes the advance of all fades that precedes every new level. `Load` and
`Setup` are the two calls of `main` in their order. Within a round the clock runs at
most `Drift` ahead of `loopNow`, and a round takes at most `Watchdog`, or the
watchdog resets the device (533 ms, `app/src/main.c:48-57`): the unsigned
differences of the fades are right only because that is far less than half a turn
of the clock.

**Output.** A new profile is stored as three stores in any order (the variables are
not volatile), between any two of which the interrupt may come and find fields of
two profiles: the new minimum and the old maximum make a third range. `Driven` counts
how long the output is active, which lets leading, trailing and TRIAC outputs be
compared.

**Bootloader.** One frame is one action, except erase and write, which proceed
block by block so that power may fail inside; meanwhile the device is deaf. A
block holds a part of an image, nothing, or a torn write. A CRC is taken to match
only the image it was computed of.

**UpdateTool.** `step` is the request the sequence is at; the client repeats up
to three times, and an operator starts a failed update again. While the
bootloader erases, repeated requests are lost and the late answer is taken for
the answer to the last of them, as in the code. The module extends `Master`, whose
specification it implements with its own variables for the line, so that what holds
under every master holds under the tool.

**Config, ConfigRegisters.** A register is an area, a place in it and a field; a
configuration is a function of registers, so that one definition serves writing,
reading and the tool. `Kept` and `Shown` are the conversions of a word
(`(uint8_t)`, `0xFFFF` for "no second input", any non-zero "enabled").
`config_registers_hr_write` builds the candidate, validates all of it and takes
or refuses it; `write_multiple` keeps the words before a refused one. A save is
postponed (`command`) and no request is handled meanwhile: `Transport` shows that
as `CommandGoesFirst`. `saved` is one cell, which `ConfigStore` implements.

**ConfigTool.** `Script` is the sequence of requests of `write_device` and
`read_device`, `step` the place in it. The client repeats a request up to three
times, an exception or a differing word ends the attempt, and an operator starts
again at the address and port where the device then answers. Requests that carry
only reserved registers are left out of the script.

**Transport.** Times are relative and count down or up to where they stop to
matter: the age of the last byte up to the frame gap, what an answer still takes,
what a save still takes, the silence of the line. The loop walks through `stage`;
`app_modbus_poll` is cut between reading the clock and comparing it with the time
of the last byte, where the interrupt may come. C does not say which of the two
is read first; `seen` takes the order that lets the difference wrap. A request is
the sequence of its bytes; bytes for others, or at another speed, are noise.

## 3. Runs

Passing runs:

| Run | Question | Bounds and why they suffice |
|---|---|---|
| `config_store` | Does any sequence of saves, errors and power losses lose the configuration? Does the store implement the cell? | two links, two bodies, five saves: every page is overwritten at least twice |
| `config_tool` | Does the configuration tool do what it reports, whatever is lost and wherever it stops, and does it come to an end? | three channels and binding slots; factory settings or another configuration to begin with; a file that swaps inputs between slots, raises intervals and moves address and port, one whose intervals lie above the old ones, an invalid one; three faults of any kind |
| `transport` | Is every request answered, whole and in turn, between saves, port changes, other devices' traffic and lost bytes? | three bytes a request, a buffer of four, traffic of up to six bytes, two speeds, all kinds of request, two faults. The times keep the order they have in the device: gap (4 ms) < save (55 ms) < pause of the client (70 ms) < its timeout (1 s); the wait before the reset (10 ms) is longer than the gap and the shortest answer and shorter than the longest |
| `channels` | Do ordinary writes, auto-light and configuration writes keep the channel state consistent, across a clock wrap? | two channels, four levels, three percents, a 16-tick clock from 13 to 17 |
| `buttons` | Do presses of any length, interrupted by writes, ramp and toggle as they should? | a group rocker, a momentary button with a latching switch sharing a channel, or no binding; long press at three or five ticks, short up to two or four; eight ticks; one write, of a channel register or of a configuration that replaces bindings and limits by any others |
| `inputs` | When can an event get lost, and do scanner and buttons then come to agree again? | three inputs and five slots, four of them usable: as in the device (9 inputs, 15 usable slots) enough for one event of each input, not for two; a full scan without debouncing overwrites press events. Debounce 0, 1 or 2 ticks, changing, four ticks |
| `dimming` | Do fades stay on their way and end in time? | two channels, three levels, fades of 0, 2 and 3 ticks, a 16-tick clock from 13 to 17, at most 7 ticks a round |
| `output` | Are curves, ranges and pulses right, and is the interrupt harmless? | the full scale of 1024 levels, seven curves, two ranges, all three outputs; profiles are written, and levels changed, at levels 0, 500 and 1023 |
| `master` | Can any sequence of requests make a torn image run, or `VALID` stale? | one block, images for this and the other board, any register values from a small set, every request at any time |
| `update` | Does the tool's "done" mean installed, and does it come? | two blocks, three faults of any kind anywhere |

Runs that end in a counterexample, each a disagreement with what the documentation says (see `findings`):

| Run | What happens |
|---|---|
| `dimming_boot` | `dimming_setup` runs after the configuration was loaded, and sets range and curve back to 0..1023 and linear until a configuration register is written |
| `dimming_stale` | a level set one millisecond after the loop read its clock starts a fade in that loop's future; the unsigned difference makes it end at once |

More configurations lie beside the runs. Each ends in a counterexample to the
property it names, which documents a smaller or rarer deviation:

| Configuration (module) | Property | What happens |
|---|---|---|
| `MCChannelsLong.cfg` (`MCChannels`) | `QuietEnds` | half a turn of the clock (24.8 days) after a quiet time, auto-light is refused again for as long |
| `MCButtonsDirection.cfg` (`MCButtons`) | `RockerDirection` | a rocker held DOWN lights a channel that a master switched off during the ramp |
| `MCButtonsRaise.cfg` (`MCButtons`) | `DimmedNeverToggles` | the press limits are raised while a button dims: its release counts as a short press and toggles the light |
| `MCButtonsWrap.cfg` (`MCButtons`) | `RampIsPaced` | when the due time of a step has wrapped and the clock has not, the ramp steps in every loop |
| `MCButtonsRemember.cfg` (`MCButtons`) | `RememberedIsManual` | the release after a ramp remembers a level that auto-light set meanwhile |
| `MCButtonsNight.cfg` (`MCButtons`) | `OffRemembers` | a channel lit at night level and then set to another one does not remember that |
| `MCInputsFull.cfg` (`Inputs`) | `NeverDisagree` | with debouncing off, 9 inputs change between two scans: 18 events for 15 slots, the first press is overwritten and `buttons.c` does not know of it |
| `MCDimmingRepeat.cfg` (`MCDimming`) | `FadeTakesItsTime` | writing again the level a channel is fading to ends the fade at once |
| `MCUpdateAnswer.cfg` (`MCUpdate`) | `EventuallyDone` | the answer to a chunk is lost, the repeated chunk sets PGERR, and no later attempt succeeds without a reset |
| `MCUpdateAlien.cfg` (`MCUpdate`) | `AppIsOurs` | an image of the other board, refused by `VERIFY`, starts at the next power-on |
| `MCConfigToolOrder.cfg` (`MCConfigTool`) | `ValidIsWritten` | of a channel's interval that lies above the old one the new minimum is refused, because the old maximum is still there, at every attempt; the same for press times |
| `MCConfigToolPort.cfg` (`MCConfigTool`) | `FirstTime` | the answer to a new port is cut off, the tool gives up before it saves and has to be started again at the new port |
| `MCConfigToolFaults.cfg` (`MCConfigTool`) | `SaveIsChecked` | a save that fails is reported nowhere; verification reads the registers and succeeds |
| the same | `OldOrNewSaved` | the device restarts during a session, the tool goes on over the old values and saves the mixture; its verification then fails |
| `MCTransportReset.cfg` (`MCTransport`) | `BootIsAnswered` | at a slow port the reset into the bootloader cuts off the answer to the request for it |
| the same | `NeverCollides` | the loop does not poll in the wait before the reset: the driver stays on after the answer, while other devices are asked |
| `MCOutputMixed.cfg` (`MCOutput`) | `InOldOrNewRange` | 900..1000 is replaced by 0..359; an interrupt between the stores of minimum and maximum reads 0..1000 and drives 594, outside both |
| `MCOutputStale.cfg` (`MCOutput`) | `ProfileIsShown` | on the DDL84R a profile written while a channel is lit is not applied to it until its level changes |

TLC stops at the first of two properties of a configuration; with `-continue` it
goes on to the other.

Every property of a passing run has a mutant of the model (an operator marked
"Mutant" in the modules) that makes the run fail.

**Deadlock.** It is checked wherever the model has no time horizon
(`config_store`, `config_tool`, `transport`, `master`, `update`): device and bootloader never stop. The
other runs end at their horizon, or have outputs without anything left to do.

**Type invariants** of `Buttons`, `Dimming`, `Output` and `UpdateTool` are stated
beside the properties and hold in their runs when added to the configurations.

**Fairness** is assumed in four places. `UpdateTool!FairSpec`: the bootloader's loop
and the reset proceed (`bootloader/src/main.c:55-62` has no wait), timeouts of the
client run out, and an operator starts a failed update again; nothing is assumed of
the line or of the power, whose faults are merely finite in number.
`ConfigTool!FairSpec`: the application's loop handles a request and runs a postponed
save (`app/src/main.c:59-108` waits for nothing), timeouts run out, and an operator
starts a failed tool again; nothing of the line, the power or the flash.
`Transport!FairSpec`: the loop, the clock, a frame once begun and the timers of the
master go on; nobody has to ask anything.
`Output!FairSpec`: the stores of a profile are finished, since only interrupts come
between them, and the mains keeps crossing zero.

## 4. Proofs

| Theorem | Says |
|---|---|
| `ConfigStoreProofs!TypeCorrect`, `ParityHolds`, `BestIsSpared`, `CompletedSave` | types; a blob's page is the parity of its number; a save never touches the page that would be loaded; a successful save is what the next boot selects |
| `ConfigStoreProofs!StoreImplementsCell` | `ConfigStore` implements `ConfigCell`: two pages, torn writes, errors and resets behave as an atomic durable cell |
| `ChannelsProofs!ChannelsTypes`, `ViewsAgree`, `ManualAlwaysWins` | types; level, percent and output agree; an ordinary command is never overridden by auto-light |
| `ChannelsProofs!QuietTimeIsKept` | the wrapping signed comparison keeps auto-light off for the whole quiet time, for every clock width and every time below half of it |
| `ChannelsProofs!AutoNeverRemembered`, `PercentRoundTrip` | auto-light never reaches the remembered level; a percent survives the way to a level and back |
| `ChannelsProofs!QuietTimeEnds` | once the quiet time is over auto-light works again, in every run shorter than half a turn of the clock (beyond that it is false, see `MCChannelsLong.cfg`) |
| `ChannelsProofs!ButtonsKeepChannels`, `ButtonsKeepQuiet`, `ButtonsEndQuiet` | all this also holds with presses, ramps and configuration writes in the loop, for every list of bindings |
| `ChannelsProofs!RampsNeedPresses`, `RampsAfterLong`, `RampsKeepLight` | a ramp belongs to a press that lasts and is long enough, whatever list of bindings and whatever writes, across wraps of the clock; it never switches a lit channel off |
| `ChannelsProofs!RampedNeverToggles` | the release of a press that has dimmed moves no channel, whatever configurations are written meanwhile, unless at the release `short_press_max_ms` reaches the time after which the ramp began or a binding of the input is a latching switch |
| `InputsProofs!InputsTypes`, `ButtonsAgree`, `EventsAlternate` | types; buttons and scanner agree after every loop, and presses and releases alternate with true durations, but from an overwritten event of an input to its next one; for every ring and every debounce time, 0 included |
| `InputsProofs!NoEventIsLost` | with debouncing on no press or release is overwritten, if the ring has more slots than there are inputs |
| `UpdateToolProofs!MasterTypes`, `OnlyWholeImagesRun`, `ValidStaysTrue` | types; under any master, losses and power failures only a whole image executes; `VALID` implies a whole image |
| `UpdateToolProofs!UpdateTypes`, `UpdateEndsInstalled` | types; when the tool reports success the device holds and has verified, or runs, the image it was given, whatever was lost or late and whenever the power failed |
| `UpdateToolProofs!ToolIsAMaster`, `UpdateRunsWholeImages` | `UpdateTool` implements `Master`; hence only whole images run under it |
| `DimmingProofs!DimmingTypes`, `NeverOvershoots`, `FadesEnd` | types; a fade stays between its ends; it is over at the first poll after its time, for every scale, clock width and fade time |
| `OutputProofs!RootIsFound` | the binary search of the curves ends and finds the root exactly, on every scale |
| `OutputProofs!NeverTurnsBack`, `SameDuty` | every curve in every range is monotone, rounding included; the three kinds of output conduct equally long |
| `OutputProofs!OutputTypes`, `RangeIsKept` | types; what is driven anew lies in the range of the last profile, or, between its stores, in the range of the minimum and the maximum the interrupt finds, which may mix two profiles (`MCOutputMixed.cfg`) |
| `ConfigToolProofs!ToolTypes` | types, among them that only valid configurations come into force or are saved |
| `ConfigToolProofs!Verification` | when the tool reports success and no save has failed, what it was given is in force and saved, for any files and any faults of the line and the power |
| `ConfigToolProofs!BindingsWhole`, `SavedWhole` | while no power is lost, the buttons obey no half-written binding and no half-written configuration is saved |
| `TransportProofs!TransportTypes`, `CommandsGoFirst` | types, among them that the receive buffer never overflows and the driver is on while an answer is; no request is looked at while a command waits |
| `TransportProofs!LineIsShared` | the driver of the line is off again before anyone may send, but for the wait before the reset |
| `TransportProofs!AnswersAreWhole` | an answer is cut off only by the port it changes or by the reset it acknowledges |
| `TransportProofs!SilenceHasACause` | of reads, saves and reloads, the master gives up only those whose bytes a fault has hit |

Assumptions are the named `ASSUME`s of the modules, which the runs evaluate, and
the conditions stated in theorems: more slots than inputs for `NoEventIsLost`, and a
run of less than half a turn of the clock for the end of the quiet time. The
exceptions inside properties are the code's: `RampedPressNeverToggles` compares the
limit at the release with the one the ramp began by, since `buttons.c` judges a
forgotten press by the limits it then has (`MCButtonsRaise.cfg` raises them; with
`short_press_max_ms` equal to `long_press_ms`, which validation allows, any
configuration write between a ramp and a release in its first millisecond does).

**Why the invariants are what they are.** *Store:* sparing the best page does not
follow from types; it needs that a blob's page is the parity of its number
(`PageParity`) and that the blob being written is the successor of the best one
(`WritingNext`). Both are in the inductive invariant. *Channels:* the invariant is
the conjunction of the state properties; that a dark channel carries no mode
(`DarkIsPlain`) is what `ManualWins` needs when a channel is lit next. The quiet
time needs `QuietStored`: the stored instant is the true one modulo `Wrap`, at most
half a turn away for as long as it lies ahead; its end needs `Early`, that no quiet
time ended half a turn ago. *Buttons:* handlers are functions on a record of what
they change, so there is one lemma per handler about that record (`Sound`: each
channel is well formed, and either where it was before the step or where it was last
asked to go), and `CommitKeeps` turns it into the channel invariant of the next
state. `buttons_tick` goes over any number of bindings with overlapping targets; the
record stays sound by induction over them (`BindingByBinding`, `AllTicked`). That a
ramp needs its press is not inductive: it needs that a press which a binding follows
is the present press of its input and began when that one did, and that this binding
is the one that will get its release (`PressOf`); with that a flag `long` also means
that the time is over in true time (`Presses`), of which the program sees a difference
modulo `Wrap`. That a hold which has dimmed toggles nothing when it ends needs the
limit its ramp began by, and that it has lasted as long in true time, whatever limits
a configuration write has brought since. *Inputs:* the invariant keeps accounts of the ring (`Accounts`): a press or release
that waits is news of its input, at most one of each and none of an input not yet
scanned; where scanner and buttons differ, the news waits or has been overwritten;
and what waits is dated by the present press. One lemma each says that a raw change
and a turn keep the accounts of any ring, full ones included, so a scan that pushes
both needs no case of its own. That nothing is overwritten needs `HasRoom` beside it:
with debouncing on, no more events wait than inputs have been scanned.
*Master:* `AppIsWhole` needs that
flash changes only while the bootloader runs, and `ValidIsWhole` that every change
of flash or command leaves the status valid only if `VERIFY` has just seen the
image; the lemma on flash steps says so for every request. *Update tool:* that
"done" means installed has to hold before the tool knows it. Whatever the
attempt, the device knows the CRC of the target or none (`CrcIsTarget`), so a status
`VALID`, in the register or on its way, speaks of the target (`ValidIsTarget`,
`AnswerIsTarget`); what waits on the line belongs to the one request the tool is
waiting for (`OneRequest`), and flash is erased and programmed only at that request
(`WorksForTool`): this is where a late answer to an earlier attempt could do harm.
From the verification on nothing is written any more (`VerifiedStays`). Every step of
the tool is a step of `Master` or leaves the device and the line alone, which is
all the refinement needs. *Dimming:* that fades end is a statement about instants
modulo `Wrap`: the invariant says of every channel that the level is between its ends
(`OnTheWay`), that its plan is the one last asked for, with the instant of that
request modulo `Wrap` (`Planned`), and that a fade still active was not over when the
last round ended (`InTime`), so that its end is never a turn of the clock ago. That
needs rounds that do not last for ever: the clock is ahead of the loop by at most
the watchdog's time (`Clocks`). The division of the fade is
one lemma (`Share`): a share of a distance does not exceed the distance.
*Output:* the profile in memory
may be a mixture of two (`Mixed`: every field not yet stored is the old one, so that
without stores under way it is the last one written), and monotone curves and the
range have to hold for every mixture; every product
is shown to fit a machine word first (`ScaledInRange`). The binary search is an
induction on the length of its interval: the root is never outside it, and its upper
end, an unsigned number, is never decreased at 0 because 0 is always small enough.
*Configuration tool:* that a verification means something for the future needs
`Checked`: after the save the next start loads what is in force (`Synced`), so that a
reset changes nothing; an answer on the line still tells the truth
(`AnswerIsTrue`); and every answer compared so far still holds (`Verified`). That
nothing half-written is obeyed or saved needs `Whole`: of every register, whether the
request that writes it last has been obeyed or not (`Written`), and that the count of
bindings is 0 from the first request to the globals, which come after all bindings
(`CountStays`); a save waits only when all is written (`SavesMeant`). That a request
of several words keeps a configuration valid is an induction over its words
(`WordByWord`), by the least place at which it would fail. *Transport:* that a
waiting command goes first needs that its own answer is on the line, or the loop is
about to take the command up, and that no change of port is due, which would end the
answer and let the loop look at a frame first (`AnswerGoesOut`); and that a frame is
looked at only with the port settled and the transmitter idle (`PortIsSettled`). For
the types, a frame being sent is not over and an attempt is repeated only while some
are left. The line is shared (`Timed`) because the master waits while an answer is
going out (`Answering`) and the driver is off within two rounds after it
(`Draining`). The first needs an answer to begin in time: a buffer that is not empty
is taken up within `Latest` milliseconds of the last byte, a save included
(`Prompt`), since a save begins only in the round that found the buffer empty; and
what is in the buffer belongs to the request under way (`Frames`). That silence has
a cause (`Served`) needs that the device has done with one request before the master
asks the next: reload, save, change of port and reset each lie in a window after the
answer (`Windows`), shorter than the pause of the client; then the bytes of an unhurt
request find an idle transmitter, an empty buffer and their port (`Intact`,
`OwnPort`). The times enter by `TimesAssumption`, an order the device and the client
of the repository keep; a client that pauses for less than a save takes, or waits for
less than an answer takes, gets neither theorem.

**Only model-checked:** `RampIsPaced` of `Buttons`, which is false when the due time
wraps (`MCButtonsWrap.cfg`) and, with overlapping targets, when two ramps share a
channel; and the liveness properties `EndsUnlessAnswerLost`, `InOrderIsWritten`,
`LineIsReleased` and `CrossShowsProfile`, which are out of the prover's reach.

## 5. Abstractions

- For `Channels`, `Buttons` and `Dimming` a configuration write is one valid
  configuration replacing another; that no other comes into
  force is the type invariant of `ConfigRegisters`, proved by `ToolTypes`.
- Outside `Transport` a request is one step, and its answer is on the line at once;
  in `ConfigRegisters` the answer to a changed port may be missing, as `Transport`
  explains. A CRC is taken to detect every damaged or joined frame.
- In `Transport` the loop comes round at least once in a millisecond unless it
  saves (a round takes some 100 us), and the bytes of a frame follow each other
  within a millisecond. Time is not lost while flash is written; a clock that
  stands still then only makes a frame older later. A fault is a lost byte or a
  comparison of times the interrupt has upset.
- The client's late answers are modelled in `UpdateTool`, where the erase outlasts
  its timeout; the application answers within it.
- Images are identified by their CRC; header fields that only repeat it (version)
  are left out. Odd offsets and partial chunks are left out: the tool sends whole ones.
- Function 16 differs from function 6 only for RUN. Address and port the bootloader
  falls back to are not modelled.
- `wait_mode` polls without its deadline, which an operator's new start covers. An
  erase is taken to end within the client's three attempts (54 pages of 20 to 40 ms).
- libopencm3 is a submodule without contents here. From how its flash functions are
  used it is taken that they never clear PGERR or WRPRTERR; only `update_answer` and
  the error paths of the store rest on that.
- Hold, debounce and fade times are a few ticks, long enough that one press can be
  short, too long and long, and that fades can be turned round in the middle.
- Counters that would go on for ever are bounded: `MaxSeq` (saves), `Horizon`
  (time), `MaxWrites` (register writes), `MaxFaults` (faults), `Moving` (levels at
  which something happens in `output`), `Drift` (how far the clock runs in a loop).

## 6. Not modelled

Of the configuration tool: the translation of YAML, represented by its results,
and the commands that only read. Of frames: lengths, capacities, broadcasts, which
the application throws away. Of the registers: version and build numbers, and the
configuration commands that only set the status.

Planned, see below: the measurement of the mains period and the timing of the
bootloader's watchdog (54 pages against the 22 its comment at
`bootloader/src/main.c:48` counts). Set-up of clocks, pins and ADC, build files, linker scripts, image patching, templates and
documents keep no state that changes while the device runs.

## 7. Plan

1. `ZeroCross`: noise window, averaging and retuning of the prescaler.
2. `DeviceLifecycle`: application, bootloader and store over resets, as the
   abstract specification that `UpdateTool`, `ConfigTool` and `ConfigStore` implement.
3. `Watchdog`: the erase of the bootloader against its watchdog, in milliseconds.
4. Proofs: `RampIsPaced`, for bindings without a common channel and due times that
   have not wrapped.
