-------------------------------- MODULE Config --------------------------------
(* What a configuration is, which ones ddm_config_validate accepts, and how    *)
(* the holding registers from HR5002 on read and write it one 16-bit word at a *)
(* time.                                                                      *)
EXTENDS Naturals, Sequences

CONSTANTS
  Channels, \* DDM_CHANNEL_COUNT, 4 in the firmware
  Slots     \* DDM_MAX_BUTTON_BINDINGS, 8

(* The factory settings use three of each. *)
ASSUME ConfigAssumption == {Channels, Slots} \subseteq Nat /\ Channels >= 3 /\ Slots >= 3

Channel == 1 .. Channels
Slot == 1 .. Slots
WordTop == 65535
Word == 0 .. WordTop
LevelTop == 1023
Inputs == 9        \* DDM_DI_COUNT
NoInput == 255     \* DDM_DI_NONE

(* The fields in the order of their registers.  "reserved" stands for all the *)
(* reserved registers at the end of a profile or a binding.                   *)
GlobalFields == <<"count", "threshold", "debounce", "short_min", "short_max", "long", "suppress">>
ProfileFields == <<"min_level", "max_level", "default_level", "night_level",
                   "fade_on", "fade_off", "output_curve", "reserved">>
BindingFields == <<"enabled", "type", "target_type", "target_id", "di_primary", "di_secondary",
                   "hold_step", "hold_period", "flags", "reserved">>

In(fields) == {fields[i] : i \in DOMAIN fields}

(* A register by area, place in it (1 for the globals) and field. *)
Global(f)     == <<"global", 1, f>>
Profile(i, f) == <<"profile", i, f>>
Binding(i, f) == <<"binding", i, f>>

Register ==
  {Global(f) : f \in In(GlobalFields)}
    \cup {Profile(i, f) : i \in Channel, f \in In(ProfileFields)}
    \cup {Binding(i, f) : i \in Slot, f \in In(BindingFields)}

Config ==
  [global  : [1 .. 1  -> [In(GlobalFields)  -> Word]],
   profile : [Channel -> [In(ProfileFields) -> Word]],
   binding : [Slot    -> [In(BindingFields) -> Word]]]

At(c, r) == c[r[1]][r[2]][r[3]]
Globals(c) == c.global[1]

Rocker == 1
Latching == 2
Momentary == 3
ToChannel == 1
ToGroup == 2

(* HR0 and HR1.  The port word packs baud code, parity and stop bits.         *)
ValidAddress(v) == v \in 1 .. 247
ddm_modbus_port_cfg_valid(v) ==
  v < 256 /\ v % 16 <= 4 /\ (v \div 16) % 4 <= 2 /\ (v \div 64) % 4 <= 1
-------------------------------------------------------------------------------
ValidProfile(p) ==
  /\ p.min_level <= p.max_level /\ p.max_level <= LevelTop
  /\ p.default_level <= LevelTop /\ p.night_level <= LevelTop
  /\ p.fade_on <= 5000 /\ p.fade_off <= 5000 /\ p.output_curve <= 6

ValidBinding(b) ==
  \/ b.enabled = 0
  \/ /\ b.type \in {Rocker, Latching, Momentary}
     /\ \/ b.target_type = ToChannel /\ b.target_id \in Channel
        \/ b.target_type = ToGroup /\ b.target_id = 1 /\ b.type # Latching
     /\ b.di_primary < Inputs
     /\ IF b.type = Rocker
        THEN b.di_secondary < Inputs /\ b.di_secondary # b.di_primary
        ELSE b.di_secondary = NoInput
     /\ b.hold_step \in 1 .. LevelTop
     /\ b.hold_period \in 10 .. 1000

UsedInputs(b) == {b.di_primary} \cup IF b.type = Rocker THEN {b.di_secondary} ELSE {}

(* The bindings the buttons obey. *)
ActiveSlots(c) == {i \in Slot : i <= Globals(c).count /\ c.binding[i].enabled # 0}

ValidGlobals(g) ==
  /\ g.count <= Slots
  /\ g.threshold <= 4095 /\ g.debounce <= 1000
  /\ g.short_min <= g.short_max /\ g.short_max <= g.long /\ g.long <= 10000
  /\ g.suppress <= 3600

(* Address and port are checked by registers of their own, see ValidAddress.  *)
ddm_config_validate(c) ==
  /\ ValidGlobals(Globals(c))
  /\ \A i \in Channel : ValidProfile(c.profile[i])
  /\ \A i \in ActiveSlots(c) : ValidBinding(c.binding[i])
  /\ \A i, j \in ActiveSlots(c) :
       i # j => UsedInputs(c.binding[i]) \cap UsedInputs(c.binding[j]) = {}

-------------------------------------------------------------------------------
(* What a register keeps of a word written to it, and shows of what it keeps. *)
ByteFields == {"type", "target_type", "target_id", "di_primary"}

Kept(f, v) ==
  CASE f = "enabled" -> IF v = 0 THEN 0 ELSE 1
    [] f = "di_secondary" -> IF v = 65535 THEN NoInput ELSE v % 256
    [] f = "count" \/ f \in ByteFields -> v % 256
    [] OTHER -> v

Shown(f, v) == IF f = "di_secondary" /\ v = NoInput THEN 65535 ELSE v

(* A configuration the device may hold: of every register what it keeps, of   *)
(* the reserved ones nothing.                                                 *)
Holds(f, v) == v = IF f = "reserved" THEN 0 ELSE Kept(f, v)
ValidConfig(c) ==
  c \in Config /\ ddm_config_validate(c) /\ \A r \in Register : Holds(r[3], At(c, r))

StatusOK == 0
StatusInvalid == 1
StatusReserved == 6

(* Mutant: the new word is checked alone, before the others come with it.     *)
hr_write_unchecked(c, status, r, v) ==
  IF r[3] = "reserved"
  THEN [ok |-> v = 0, cfg |-> c, status |-> IF v = 0 THEN status ELSE StatusReserved]
  ELSE [ok |-> TRUE, cfg |-> [c EXCEPT ![r[1]][r[2]][r[3]] = Kept(r[3], v)], status |-> StatusOK]

(* One word.  It is accepted if the whole configuration it makes is valid;    *)
(* a reserved register takes only 0, and keeps the status if it is given 0.   *)
config_registers_hr_write(c, status, r, v) ==
  LET candidate == [c EXCEPT ![r[1]][r[2]][r[3]] = Kept(r[3], v)] IN
  IF r[3] = "reserved"
  THEN [ok |-> v = 0, cfg |-> c, status |-> IF v = 0 THEN status ELSE StatusReserved]
  ELSE IF ddm_config_validate(candidate)
  THEN [ok |-> TRUE, cfg |-> candidate, status |-> StatusOK]
  ELSE [ok |-> FALSE, cfg |-> c, status |-> StatusInvalid]

(* Function 16: the words are written in order up to the first that is        *)
(* refused; those before it stay written.                                     *)
write_multiple(c, status, words) ==
  LET after[n \in 0 .. Len(words)] ==
        IF n = 0 THEN [ok |-> TRUE, cfg |-> c, status |-> status]
        ELSE LET p == after[n - 1] IN
             IF p.ok THEN config_registers_hr_write(p.cfg, p.status, words[n][1], words[n][2])
             ELSE p
  IN after[Len(words)]

config_registers_hr_read(c, r) == Shown(r[3], At(c, r))
-------------------------------------------------------------------------------
(* Factory settings: three bindings on DI1 to DI4, profiles for the channels. *)
FactoryGlobals ==
  [count |-> 3, threshold |-> 1000, debounce |-> 30,
   short_min |-> 50, short_max |-> 700, long |-> 800, suppress |-> 15]

Plain == [min_level |-> 0, max_level |-> LevelTop, default_level |-> LevelTop, night_level |-> 0,
          fade_on |-> 0, fade_off |-> 0, output_curve |-> 0, reserved |-> 0]

FactoryProfile(i) ==
  CASE i = 1 -> [Plain EXCEPT !.min_level = 80, !.max_level = 900, !.default_level = 700,
                              !.night_level = 80, !.fade_on = 500, !.fade_off = 500]
    [] i = 2 -> [Plain EXCEPT !.min_level = 60, !.max_level = 850, !.default_level = 700,
                              !.night_level = 60, !.fade_on = 300, !.fade_off = 300]
    [] i = 3 -> [Plain EXCEPT !.min_level = 100, !.night_level = 100]
    [] OTHER -> Plain

Unused == [f \in In(BindingFields) |-> 0]

Button(type, target_type, id, primary, secondary) ==
  [enabled |-> 1, type |-> type, target_type |-> target_type, target_id |-> id,
   di_primary |-> primary, di_secondary |-> secondary, hold_step |-> 8, hold_period |-> 20,
   flags |-> 0, reserved |-> 0]

FactoryBinding(i) ==
  CASE i = 1 -> Button(Rocker, ToChannel, 1, 1, 2)
    [] i = 2 -> Button(Momentary, ToChannel, 2, 3, NoInput)
    [] i = 3 -> Button(Latching, ToChannel, 3, 4, NoInput)
    [] OTHER -> Unused

(* A configuration from its parts. *)
Compose(g, p(_), b(_)) ==
  [global |-> <<g>>, profile |-> [i \in Channel |-> p(i)], binding |-> [i \in Slot |-> b(i)]]

ddm_config_set_defaults == Compose(FactoryGlobals, FactoryProfile, FactoryBinding)
===============================================================================
