-------------------------------- MODULE Dimming --------------------------------
(* The fades of the output layer, which both boards have (boards/*/dimming.c), *)
(* under the loop of main.c: the loop reads the clock once, Modbus and buttons *)
(* set levels by the clock of their own moment, and dimming_poll advances the  *)
(* fades by the instant the loop began with.  Starting up is the order of      *)
(* main.c before the loop.                                                     *)
EXTENDS Integers

CONSTANTS
  Channel, LevelMax,
  Settings,   \* configurations: [zone, on, off], the range of the output and the fades
  FullZone,   \* the range dimming_setup assumes
  Repeats,    \* a master may write a level again that a channel has already
  Drift,      \* how far the clock may run during one round of the loop
  Watchdog,   \* how long a round can take before the watchdog resets: 533 ms at most
  Wrap,       \* width of the clock: 2^32 in the code
  StartTime, Horizon \* bound: the instants of the model

Level == 0 .. LevelMax

ASSUME DimmingAssumption ==
  /\ LevelMax \in Nat \ {0} /\ Wrap \in Nat \ {0}
  /\ Drift \in Nat /\ Watchdog \in Nat /\ Drift <= Watchdog /\ Watchdog < Wrap - Wrap \div 2
  /\ \A k \in Settings : k.on \in 0 .. Wrap \div 2 /\ k.off \in 0 .. Wrap \div 2
  /\ Repeats \in BOOLEAN /\ StartTime \in Nat /\ Horizon \in Nat

VARIABLES
  clock,   \* milliseconds since power-on; the program sees them modulo Wrap
  loopNow, \* main's now
  stage,   \* where the program is
  cfg,     \* g_profiles
  level,   \* g_channels: level
  zone,    \* g_zone_min, g_zone_max and g_output_curve
  out,     \* the fade of each channel
  asked    \* history: when a level was last given to a channel and its fade time

vars == <<clock, loopNow, stage, cfg, level, zone, out, asked>>

Fade == [target : Level, applied : Level, from : Level,
         started : 0 .. Wrap - 1, duration : 0 .. Wrap \div 2, active : BOOLEAN]

TypeOK ==
  /\ clock \in Nat /\ loopNow \in Nat
  /\ stage \in {"load", "setup", "top", "poll", "inputs", "output"}
  /\ cfg \in Settings /\ zone \in {k.zone : k \in Settings} \cup {FullZone}
  /\ level \in [Channel -> Level] /\ out \in [Channel -> Fade]
  /\ asked \in [Channel -> [at : Nat, fade : 0 .. Wrap \div 2]]

-------------------------------------------------------------------------------
(* Division in C rounds towards zero. *)
Quotient(a, b) == IF a >= 0 THEN a \div b ELSE -((-a) \div b)

(* Mutant: instants are compared as if the clock never wrapped. *)
ElapsedUnwrapped(f, t) == IF t >= f.started THEN t - f.started ELSE 0

Elapsed(f, t) == (t + Wrap - f.started) % Wrap

(* advance_fades for one channel. *)
Advance(f, t) ==
  CASE ~f.active -> f
    [] f.active /\ Elapsed(f, t) >= f.duration -> [f EXCEPT !.active = FALSE, !.applied = f.target]
    [] OTHER -> [f EXCEPT !.applied = f.from + Quotient((f.target - f.from) * Elapsed(f, t), f.duration)]

(* Mutant: a new fade begins where the last one began. *)
RetargetFromOld(f, l, fade) ==
  IF fade = 0 \/ f.applied = l
  THEN [f EXCEPT !.target = l, !.applied = l, !.from = l, !.duration = 0, !.active = FALSE]
  ELSE [f EXCEPT !.target = l, !.started = clock % Wrap, !.duration = fade, !.active = TRUE]

(* The rest of dimming_set_channel_level, the fades being advanced.           *)
Retarget(f, l, fade) ==
  IF fade = 0 \/ f.applied = l
  THEN [f EXCEPT !.target = l, !.applied = l, !.from = l, !.duration = 0, !.active = FALSE]
  ELSE [f EXCEPT !.target = l, !.from = f.applied, !.started = clock % Wrap,
                 !.duration = fade, !.active = TRUE]

(* channels_transition_fade_ms *)
TransitionFade(c, l) == IF l = level[c] THEN 0 ELSE IF l > level[c] THEN cfg.on ELSE cfg.off

(* channels_apply_level down to the output layer. *)
SetLevel(c, l, fade) ==
  LET advanced == [d \in Channel |-> Advance(out[d], clock % Wrap)]
  IN  /\ level' = [level EXCEPT ![c] = l]
      /\ out' = [advanced EXCEPT ![c] = Retarget(@, l, fade)]
      /\ asked' = IF l = level[c] THEN asked
                  ELSE [asked EXCEPT ![c] = [at |-> clock, fade |-> IF advanced[c].applied = l THEN 0 ELSE fade]]
      /\ UNCHANGED <<clock, loopNow, cfg, zone>>

-------------------------------------------------------------------------------
Dark == [target |-> 0, applied |-> 0, from |-> 0, started |-> 0, duration |-> 0, active |-> FALSE]

Init ==
  /\ clock = StartTime /\ loopNow = StartTime /\ stage = "load"
  /\ cfg \in Settings
  /\ level = [c \in Channel |-> 0] /\ zone = FullZone /\ out = [c \in Channel |-> Dark]
  /\ asked = [c \in Channel |-> [at |-> 0, fade |-> 0]]

(* app_config_load_or_defaults hands the saved profiles to the output layer. *)
Load ==
  /\ stage = "load" /\ stage' = "setup"
  /\ zone' = cfg.zone
  /\ UNCHANGED <<clock, loopNow, cfg, level, out, asked>>

(* dimming_setup clears all that the output layer keeps. *)
Setup ==
  /\ stage = "setup" /\ stage' = "top"
  /\ zone' = FullZone /\ out' = [c \in Channel |-> Dark]
  /\ UNCHANGED <<clock, loopNow, cfg, level, asked>>

LoopBegins ==
  /\ stage = "top" /\ stage' = "poll" /\ loopNow' = clock
  /\ UNCHANGED <<clock, cfg, level, zone, out, asked>>

(* One Modbus frame at most is handled. *)
PollWrite(c, l) ==
  /\ stage = "poll" /\ stage' = "inputs"
  /\ Repeats \/ l # level[c]
  /\ SetLevel(c, l, TransitionFade(c, l))

PollConfig(k) ==
  /\ stage = "poll" /\ stage' = "inputs"
  /\ cfg' = k /\ zone' = k.zone
  /\ UNCHANGED <<clock, loopNow, level, out, asked>>

PollNothing == stage = "poll" /\ stage' = "inputs" /\ UNCHANGED <<clock, loopNow, cfg, level, zone, out, asked>>

(* A short press takes the fade of the profile, a ramp step takes none. *)
Button(c, l) ==
  /\ stage = "inputs" /\ stage' = "output"
  /\ l # level[c]
  /\ SetLevel(c, l, TransitionFade(c, l)) \/ SetLevel(c, l, 0)

NoButton == stage = "inputs" /\ stage' = "output" /\ UNCHANGED <<clock, loopNow, cfg, level, zone, out, asked>>

(* dimming_poll: the fades go on, then anything that is still off its target  *)
(* is put there.                                                              *)
dimming_poll ==
  LET advanced == [c \in Channel |-> Advance(out[c], loopNow % Wrap)]
  IN  /\ stage = "output" /\ stage' = "top"
      /\ out' = [c \in Channel |-> IF advanced[c].active THEN advanced[c]
                                   ELSE [advanced[c] EXCEPT !.applied = advanced[c].target]]
      /\ UNCHANGED <<clock, loopNow, cfg, level, zone, asked>>

(* The SysTick interrupt comes between any two steps of the loop. *)
SysTick ==
  /\ stage \notin {"load", "setup"} /\ clock < Horizon
  /\ clock < loopNow + IF stage = "top" THEN Watchdog ELSE Drift
  /\ clock' = clock + 1
  /\ UNCHANGED <<loopNow, stage, cfg, level, zone, out, asked>>

Next ==
  \/ Load \/ Setup \/ LoopBegins
  \/ \E c \in Channel, l \in Level : PollWrite(c, l) \/ Button(c, l)
  \/ (\E k \in Settings : PollConfig(k)) \/ PollNothing \/ NoButton
  \/ dimming_poll \/ SysTick

Spec == Init /\ [][Next]_vars

-------------------------------------------------------------------------------
(* However often a fade is turned round, the light never leaves the interval  *)
(* between where the fade began and where it goes.                            *)
Between ==
  \A c \in Channel :
     \/ out[c].from <= out[c].applied /\ out[c].applied <= out[c].target
     \/ out[c].target <= out[c].applied /\ out[c].applied <= out[c].from

(* A fade is over when its time is: after the round of the loop that sees the *)
(* end, the light is at the level the registers report.                       *)
FadeIsDone ==
  stage = "top" => \A c \in Channel :
     loopNow >= asked[c].at + asked[c].fade => out[c].applied = level[c]

(* A fade takes the time the profile gives it, for buttons and for Modbus     *)
(* (README.md:32-34): until then the light is on its way.                     *)
FadeTakesItsTime ==
  \A c \in Channel : clock < asked[c].at + asked[c].fade => out[c].applied # level[c]

(* The output range and curve in use are those of the configuration that HR   *)
(* 5010 ff. report (README.md:22-24).                                         *)
ProfileInForce == stage \notin {"load", "setup"} => zone = cfg.zone
===============================================================================
