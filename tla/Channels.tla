------------------------------- MODULE Channels -------------------------------
(* The runtime of the dimmer channels (channels.c) driven by the holding      *)
(* registers HR 40..55 and the auto-light registers HR 60..67 (registers.c),  *)
(* with the configuration that governs it and the wrapping millisecond clock. *)
(* Fades belong to the output layer: output is the level it was last told to  *)
(* reach.                                                                     *)
EXTENDS Naturals

CONSTANTS
  LevelMax,   \* DDM_LEVEL_MAX: 1023; smaller scales keep the same formulas
  PercentMax, \* 100, the scale on the bus
  Channel,    \* the outputs, 1 .. DDM_CHANNEL_COUNT in the code
  Settings,   \* configurations: [suppress, default, night], times in clock ticks
  Wrap,       \* width of the clock: 2^32 in the code
  StartTime,  \* instants the model may start at, the channels being untouched
  Horizon     \* bound: last instant of the model

ASSUME ScaleAssumption ==
  /\ LevelMax \in Nat \ {0} /\ PercentMax \in Nat \ {0}
  /\ PercentMax <= LevelMax

Level   == 0 .. LevelMax
Percent == 0 .. PercentMax
Time    == Nat
Never   == 0

ASSUME ChannelsAssumption ==
  /\ Wrap \in Nat \ {0} /\ Wrap % 2 = 0
  /\ Settings \subseteq [suppress : 0 .. Wrap \div 2 - 1,
                         default : [Channel -> Level], night : [Channel -> Level]]
  /\ StartTime \subseteq Time
  /\ Horizon \in Time

(* percent is percent_setpoint, last is last_nonzero_level (0: has_last_nonzero *)
(* is false), auto is auto_active, night is on_from_rocker_down_min and until   *)
(* is auto_suppressed_until_ms.  The two ramp fields are in module Buttons.     *)
ChannelState ==
  [level : Level, percent : Percent, last : Level,
   auto : BOOLEAN, night : BOOLEAN, until : 0 .. Wrap - 1]

VARIABLES
  ch,      \* g_channels
  cfg,     \* g_profiles and g_auto_light_suppress_ms
  output,  \* the level each channel of the output layer was last sent to
  now,     \* milliseconds since power-on; the program sees them modulo Wrap
  manual,  \* history: the level last asked for by anything but auto-light
  quiet    \* history: the instant until which auto-light must stay off

chVars == <<ch, cfg, output, now, manual, quiet>>

ChannelsTypeOK ==
  /\ ch \in [Channel -> ChannelState]
  /\ cfg \in Settings
  /\ output \in [Channel -> Level]
  /\ now \in Time
  /\ manual \in [Channel -> Level]
  /\ quiet \in [Channel -> Time]

-------------------------------------------------------------------------------
(* Mutant: the scale is taken to have LevelMax + 1 for its top. *)
ScaledByCount(p) == (p * (LevelMax + 1) + PercentMax \div 2) \div PercentMax

(* channels_percent_to_level; a non-zero percent never becomes level 0. *)
PercentToLevel(p) ==
  LET level == (p * LevelMax + PercentMax \div 2) \div PercentMax
  IN  IF p # 0 /\ level = 0 THEN 1 ELSE IF p = 0 THEN 0 ELSE level

(* channels_level_to_percent; a lit channel never reads as 0 percent. *)
LevelToPercent(l) ==
  LET percent == (l * PercentMax + LevelMax \div 2) \div LevelMax
  IN  IF l = 0 THEN 0
      ELSE IF percent = 0 THEN 1
      ELSE IF percent > PercentMax THEN PercentMax ELSE percent

timebase == now % Wrap

(* A signed 32-bit difference greater than zero. *)
Ahead(a, b) == (a + Wrap - b) % Wrap \in 1 .. Wrap \div 2 - 1

(* Mutant: the quiet time is compared as an unsigned number. *)
suppressed_unsigned(s) == s.until # 0 /\ s.until > timebase

(* Mutant: the quiet time lasts one tick too long. *)
suppressed_at_end(s) == s.until # 0 /\ (Ahead(s.until, timebase) \/ s.until = timebase)

auto_suppressed(s) == s.until # 0 /\ Ahead(s.until, timebase)

(* channels_startup_level, used by the buttons. *)
startup_level(c, s) ==
  IF s.last # 0 THEN s.last ELSE IF cfg.default[c] # 0 THEN cfg.default[c] ELSE LevelMax

remember_nonzero(s) ==
  IF s.level # 0 /\ ~s.night THEN [s EXCEPT !.last = s.level] ELSE s

(* Mutant: switching off remembers the level auto-light had chosen. *)
apply_remembers_auto(s, l) ==
  IF l = 0
  THEN [remember_nonzero(s) EXCEPT
          !.level = 0, !.percent = 0, !.auto = FALSE, !.night = FALSE,
          !.until = IF s.level # 0 /\ cfg.suppress # 0 THEN (timebase + cfg.suppress) % Wrap ELSE @]
  ELSE [s EXCEPT !.level = l, !.percent = LevelToPercent(l), !.auto = FALSE]

(* channels_apply_level: what every button and every ordinary register does. *)
apply_level(s, l) ==
  IF l = 0
  THEN [(IF s.auto THEN s ELSE remember_nonzero(s)) EXCEPT
          !.level = 0, !.percent = 0, !.auto = FALSE, !.night = FALSE,
          !.until = IF s.level # 0 /\ cfg.suppress # 0 THEN (timebase + cfg.suppress) % Wrap ELSE @]
  ELSE [s EXCEPT !.level = l, !.percent = LevelToPercent(l), !.auto = FALSE]

(* Mutant: auto-light may also dim a lit channel that the user controls. *)
AutoIgnoredOnlyWhenQuiet(s, l) == IF l = 0 THEN ~s.auto ELSE ~s.auto /\ auto_suppressed(s)

(* The early returns of channels_apply_auto_level_with_profile_fade. *)
AutoIgnored(s, l) ==
  IF l = 0 THEN ~s.auto ELSE ~s.auto /\ (s.level # 0 \/ auto_suppressed(s))

(* Mutant: auto-light does not refresh percent_setpoint. *)
apply_auto_keeps_percent(s, l) ==
  LET asked == IF l = 0 THEN [s EXCEPT !.until = 0] ELSE s
  IN  IF AutoIgnored(s, l) THEN asked
      ELSE [asked EXCEPT !.level = l, !.auto = l # 0, !.night = FALSE]

(* channels_apply_auto_level_with_profile_fade: auto 0 always ends the quiet  *)
(* time, even when there is no auto-light to switch off.                      *)
apply_auto_level(s, l) ==
  LET asked == IF l = 0 THEN [s EXCEPT !.until = 0] ELSE s
  IN  IF AutoIgnored(s, l) THEN asked
      ELSE [asked EXCEPT !.level = l, !.percent = LevelToPercent(l), !.auto = l # 0, !.night = FALSE]

-------------------------------------------------------------------------------
ChannelsInit ==
  /\ ch = [c \in Channel |-> [level |-> 0, percent |-> PercentMax, last |-> 0,
                              auto |-> FALSE, night |-> FALSE, until |-> 0]]
  /\ cfg \in Settings
  /\ output = [c \in Channel |-> 0]
  /\ now \in StartTime
  /\ manual = [c \in Channel |-> 0]
  /\ quiet = [c \in Channel |-> Never]

(* The channels in DOMAIN new get their new state and the output layer is     *)
(* told the level; asked is the level the command names.                      *)
Manual(new, asked) ==
  LET C == DOMAIN new
  IN  /\ ch' = [c \in Channel |-> IF c \in C THEN new[c] ELSE ch[c]]
      /\ output' = [c \in Channel |-> IF c \in C THEN new[c].level ELSE output[c]]
      /\ manual' = [c \in Channel |-> IF c \in C THEN asked[c] ELSE manual[c]]
      /\ quiet' = [c \in Channel |->
           IF c \in C /\ ch[c].level # 0 /\ asked[c] = 0 /\ cfg.suppress # 0
           THEN now + cfg.suppress ELSE quiet[c]]
      /\ UNCHANGED <<cfg, now>>

(* HR 40..43 on one channel, HR 53 on all of them. *)
SetLevel(C, l) == Manual([c \in C |-> apply_level(ch[c], l)], [c \in C |-> l])

(* HR 45..48, HR 54: the percent written is the percent read back. *)
SetPercent(C, p) ==
  LET l == PercentToLevel(p)
  IN  Manual([c \in C |-> [apply_level(ch[c], l) EXCEPT !.percent = p]], [c \in C |-> l])

(* HR 49..52, HR 55: off, or on at full level unless the channel is on. *)
SwitchOff(C) == SetLevel(C, 0)

SwitchOn(C) ==
  LET l == [c \in C |-> IF ch[c].level = 0 THEN LevelMax ELSE ch[c].level]
  IN  Manual([c \in C |-> [apply_level(ch[c], l[c]) EXCEPT
                             !.percent = IF ch[c].level = 0 THEN PercentMax ELSE @]], l)

(* HR 60..63; HR 64..67 are the same after percent_to_level. *)
SetAutoLevel(c, l) ==
  /\ ch' = [ch EXCEPT ![c] = apply_auto_level(ch[c], l)]
  /\ output' = IF AutoIgnored(ch[c], l) THEN output ELSE [output EXCEPT ![c] = l]
  /\ quiet' = IF l = 0 THEN [quiet EXCEPT ![c] = Never] ELSE quiet
  /\ UNCHANGED <<cfg, now, manual>>

SetAutoPercent(c, p) == SetAutoLevel(c, PercentToLevel(p))

(* channels_set_config after a configuration register was accepted. *)
SetConfig(k) ==
  /\ cfg' = k
  /\ ch' = [c \in Channel |-> IF ch[c].level = 0 THEN ch[c]
                              ELSE [ch[c] EXCEPT !.percent = LevelToPercent(ch[c].level)]]
  /\ UNCHANGED <<output, now, manual, quiet>>

Target == {{c} : c \in Channel} \cup {Channel}

ModbusWrite ==
  \/ \E C \in Target, l \in Level : SetLevel(C, l)
  \/ \E C \in Target, p \in Percent : SetPercent(C, p)
  \/ \E C \in Target : SwitchOff(C) \/ SwitchOn(C)
  \/ \E c \in Channel, l \in Level : SetAutoLevel(c, l)
  \/ \E c \in Channel, p \in Percent : SetAutoPercent(c, p)

Elapse ==
  /\ now < Horizon /\ now' = now + 1
  /\ UNCHANGED <<ch, cfg, output, manual, quiet>>

ChannelsNext == ModbusWrite \/ (\E k \in Settings : SetConfig(k)) \/ Elapse

ChannelsSpec == ChannelsInit /\ [][ChannelsNext]_chVars

-------------------------------------------------------------------------------
(* A dark channel carries no mode over to its next life: it is not under      *)
(* auto-light and not in night mode, whoever switched it off.                 *)
DarkIsPlain == \A c \in Channel : ch[c].level = 0 => ~ch[c].auto /\ ~ch[c].night

(* The percent a master reads of a lit channel is the rounded level, whatever *)
(* mix of level, percent, on/off, auto and configuration writes led there.    *)
PercentMatchesLevel ==
  \A c \in Channel : ch[c].level # 0 => ch[c].percent = LevelToPercent(ch[c].level)

(* The output layer is heading for the level the registers report. *)
OutputFollowsLevel == \A c \in Channel : output[c] = ch[c].level

(* A channel that the last ordinary command lit is exactly where that command *)
(* put it and not under auto-light, and one that it switched off is lit only  *)
(* by auto-light: auto writes never move or take over a channel that button   *)
(* or HR 40..55 lit (README:190-193).                                         *)
ManualWins ==
  \A c \in Channel :
     /\ manual[c] # 0 => ch[c].level = manual[c] /\ ~ch[c].auto
     /\ manual[c] = 0 => (ch[c].level # 0 <=> ch[c].auto)

(* While the quiet time after an ordinary switch-off runs, an auto write      *)
(* leaves the channel dark (README:195-198).  An interval that ends on a      *)
(* multiple of the clock width is stored as 0 by channels.c:211 and lost.     *)
QuietIsKept ==
  \A c \in Channel, l \in Level :
     ch[c].level = 0 /\ now < quiet[c] /\ quiet[c] % Wrap # 0
       => apply_auto_level(ch[c], l).level = 0

(* Once the quiet time is over an auto write lights a dark channel.           *)
QuietEnds ==
  \A c \in Channel, l \in Level :
     ch[c].level = 0 /\ quiet[c] <= now => apply_auto_level(ch[c], l).level = l

(* What a switch-on restores was a level an ordinary command had asked for:   *)
(* auto-light never reaches last_nonzero_level (README:193-195).              *)
LastIsManual ==
  [][\A c \in Channel : ch'[c].last # ch[c].last => ch'[c].last = manual[c]]_chVars
===============================================================================
