------------------------------- MODULE Buttons -------------------------------
(* Wall buttons (buttons.c) acting on the channels, in the loop of main.c: at *)
(* most one Modbus frame, then the debounced input events, then buttons_tick, *)
(* then time passes.  A binding's primary input is called up and its          *)
(* secondary one down; a momentary or latching binding has no down input.     *)
EXTENDS Channels, Integers, Sequences

CONSTANTS
  BindingLists, \* each <<[type, up, down, target, step, period], ...>>, all enabled
  PressLimits,  \* short_press_min_ms, short_press_max_ms and long_press_ms
  LoopTime,     \* how long one round of main's loop may take
  MaxWrites     \* bound: register writes a master makes

NoInput == 0
InputsOf(list) ==
  ({list[i].up : i \in DOMAIN list} \cup {list[i].down : i \in DOMAIN list}) \ {NoInput}

ButtonBinding == [type : {"rocker", "latching", "momentary"}, up : Nat \ {NoInput}, down : Nat,
                  target : Target, step : 1 .. LevelMax, period : Nat \ {0}]

(* What ddm_config_validate asks of the press limits. *)
Valid(limits) == limits.min <= limits.max /\ limits.max <= limits.long /\ limits.long < Wrap \div 2

ASSUME ButtonsAssumption ==
  /\ BindingLists \subseteq Seq(ButtonBinding)
  /\ PressLimits \subseteq [min : Nat, max : Nat, long : Nat]
  /\ \A limits \in PressLimits : Valid(limits)
  /\ LoopTime \subseteq Nat /\ MaxWrites \in Nat

(* Every input that some list uses. *)
Input == UNION {InputsOf(list) : list \in BindingLists}
Side == {"up", "down"}
NoAsk == LevelMax + 1

VARIABLES
  bindings, \* g_config.bindings
  press,   \* g_config: the press limits
  stage,   \* where the loop is: "poll", "inputs" or "tick"
  scanned, \* the inputs up to this one have had their event in this loop
  pressed, \* inputs.c: debounced_pressed
  since,   \* inputs.c: press_started_ms as true time; 0 when not pressed
  run,     \* g_runtime: per binding and side pressed, long_started and pressed_ms,
           \* the last 0 when not pressed
  ramp,    \* momentary_ramp_dir and ramp_due_ms of each channel
  writes,  \* register writes so far
  ramped,  \* history: the long_press_ms after which the present press of an input has
           \* started a ramp; 0 if it has not
  stepped  \* history: when the present ramp of a channel last moved, as true time

buttonVars == <<pressed, since, run, ramp>>
configVars == <<bindings, press>>
vars == <<chVars, configVars, stage, scanned, buttonVars, writes, ramped, stepped>>

Released == [pressed |-> FALSE, long |-> FALSE, at |-> 0]
NoPress(list) == [i \in DOMAIN list |-> [s \in Side |-> Released]]

TypeOK ==
  /\ ChannelsTypeOK /\ bindings \in BindingLists /\ press \in PressLimits
  /\ stage \in {"poll", "inputs", "tick"} /\ scanned \in Nat
  /\ pressed \in [Input -> BOOLEAN] /\ since \in [Input -> Time]
  /\ run \in [DOMAIN bindings -> [Side -> [pressed : BOOLEAN, long : BOOLEAN, at : 0 .. Wrap - 1]]]
  /\ ramp \in [Channel -> [dir : {1, -1}, due : 0 .. Wrap - 1]]
  /\ writes \in 0 .. MaxWrites
  /\ ramped \in [Input -> Nat]
  /\ stepped \in [Channel -> Time \cup {-1}]

-------------------------------------------------------------------------------
(* The handlers work on a record of what they may change: w.ch and w.ramp,    *)
(* w.run for the long flags, and w.asked, the levels asked for in this step.  *)
World == [ch |-> ch, ramp |-> ramp, run |-> run, asked |-> [c \in Channel |-> NoAsk]]

(* The channel whose ramp fields a binding uses: channel 1 for the group. *)
Owner(b) == CHOOSE c \in b.target : \A d \in b.target : c <= d

(* binding_level: the brightest channel of the target. *)
binding_level(w, b) ==
  LET levels == {w.ch[c].level : c \in b.target}
  IN  CHOOSE l \in levels : \A m \in levels : m <= l

(* channels_apply_level on every channel of DOMAIN level. *)
start_level(w, level) ==
  [w EXCEPT !.ch = [c \in Channel |-> IF c \in DOMAIN level THEN apply_level(w.ch[c], level[c])
                                      ELSE w.ch[c]],
            !.asked = [c \in Channel |-> IF c \in DOMAIN level THEN level[c] ELSE w.asked[c]]]

set_night(w, C, value) ==
  [w EXCEPT !.ch = [c \in Channel |-> IF c \in C THEN [w.ch[c] EXCEPT !.night = value] ELSE w.ch[c]]]

start_startup(w, C) == start_level(w, [c \in C |-> startup_level(c, w.ch[c])])

(* rocker DOWN on a dark target: only channels with a night level are lit. *)
start_night(w, C) ==
  LET lit == {c \in C : cfg.night[c] # 0}
  IN  start_level(set_night(w, lit, TRUE), [c \in lit |-> cfg.night[c]])

end_ramp(w, b) ==
  [w EXCEPT !.ramp[Owner(b)].due = 0,
            !.ch = [c \in Channel |-> IF c \in b.target THEN remember_nonzero(w.ch[c]) ELSE w.ch[c]]]

(* Mutant: short_press_max_ms is not looked at. *)
ShortOrLonger(duration) == press.min <= duration

Short(duration) == press.min <= duration /\ duration <= press.max

rocker_release(w, b, side, long, duration) ==
  CASE long -> end_ramp(w, b)
    [] ~long /\ ~Short(duration) -> w
    [] OTHER ->
         IF side = "up"
         THEN IF binding_level(w, b) = 0
              THEN start_startup(set_night(w, b.target, FALSE), b.target)
              ELSE start_level(set_night(w, b.target, FALSE), [c \in b.target |-> LevelMax])
         ELSE IF binding_level(w, b) = 0
              THEN start_night(w, b.target)
              ELSE start_level(w, [c \in b.target |-> 0])

momentary_release(w, b, long, duration) ==
  CASE long -> end_ramp(w, b)
    [] ~long /\ ~Short(duration) -> w
    [] OTHER -> IF binding_level(w, b) = 0
                THEN start_startup(set_night(w, b.target, FALSE), b.target)
                ELSE start_level(w, [c \in b.target |-> 0])

on_press(w, i, side) ==
  LET b == bindings[i]
      v == [w EXCEPT !.run[i][side] = [@ EXCEPT !.pressed = TRUE, !.at = timebase]]
  IN  IF b.type = "latching" THEN start_startup(v, b.target) ELSE v

on_release(w, i, side, duration) ==
  LET b    == bindings[i]
      long == w.run[i][side].long
      v    == [w EXCEPT !.run[i][side] = Released]
  IN  CASE b.type = "rocker"    -> rocker_release(v, b, side, long, duration)
        [] b.type = "momentary" -> momentary_release(v, b, long, duration)
        [] b.type = "latching"  -> start_level(v, [c \in b.target |-> 0])

-------------------------------------------------------------------------------
(* Mutant: the wrong threshold. *)
HeldBeyondShort(p) == p.pressed /\ (timebase + Wrap - p.at) % Wrap >= press.max

HeldLong(p) == p.pressed /\ (timebase + Wrap - p.at) % Wrap >= press.long

(* The part of buttons_tick that starts a ramp. *)
start_ramp(w, i) ==
  LET b == bindings[i]
      starts(s) == /\ HeldLong(w.run[i][s]) /\ ~w.run[i][s].long
                   /\ s = "down" => binding_level(w, b) # 0
  IN  [w EXCEPT !.run[i] = [s \in Side |-> [w.run[i][s] EXCEPT !.long = @ \/ starts(s)]],
                !.ramp[Owner(b)].due = IF \E s \in Side : starts(s) THEN timebase ELSE @]

(* Mutant: a ramp goes down to 0. *)
ramp_to_dark(w, b, dir) ==
  LET level == binding_level(w, b)
      next  == IF dir = 1
               THEN IF level + b.step >= LevelMax THEN LevelMax ELSE level + b.step
               ELSE IF level > b.step THEN level - b.step ELSE 0
      turn  == b.type = "momentary" /\ next \in {0, LevelMax}
      v     == start_level(w, [c \in b.target |-> next])
  IN  [v EXCEPT !.ramp[Owner(b)].due = (timebase + b.period) % Wrap,
                !.ramp[Owner(b)].dir = IF turn THEN -dir ELSE @]

(* The step of a ramp that is due. *)
ramp_step(w, b, dir) ==
  LET level == binding_level(w, b)
      next  == IF dir = 1
               THEN IF level + b.step >= LevelMax THEN LevelMax ELSE level + b.step
               ELSE IF level > b.step + 1 THEN level - b.step ELSE 1
      turn  == b.type = "momentary" /\ next = (IF dir = 1 THEN LevelMax ELSE 1)
      v     == start_level(w, [c \in b.target |-> next])
  IN  [v EXCEPT !.ramp[Owner(b)].due = (timebase + b.period) % Wrap,
                !.ramp[Owner(b)].dir = IF turn THEN -dir ELSE @]

(* Mutant: a ramp moves on every loop, whatever hold_period_ms says. *)
tick_at_once(w, i) ==
  LET b    == bindings[i]
      v    == start_ramp(w, i)
      dir  == IF v.run[i]["up"].long THEN IF b.type = "momentary" THEN v.ramp[Owner(b)].dir ELSE 1
              ELSE IF v.run[i]["down"].long THEN -1 ELSE 0
  IN  IF \/ b.type = "latching"
         \/ b.type = "rocker" /\ w.run[i]["up"].pressed /\ w.run[i]["down"].pressed
      THEN w
      ELSE IF dir = 0 THEN v ELSE ramp_step(v, b, dir)

(* One round of the loop in buttons_tick.  A rocker held on both sides rests; *)
(* the due time is compared as an unsigned number.                            *)
tick(w, i) ==
  LET b    == bindings[i]
      v    == start_ramp(w, i)
      dir  == IF v.run[i]["up"].long THEN IF b.type = "momentary" THEN v.ramp[Owner(b)].dir ELSE 1
              ELSE IF v.run[i]["down"].long THEN -1 ELSE 0
  IN  IF \/ b.type = "latching"
         \/ b.type = "rocker" /\ w.run[i]["up"].pressed /\ w.run[i]["down"].pressed
      THEN w
      ELSE IF dir = 0 \/ timebase < v.ramp[Owner(b)].due THEN v ELSE ramp_step(v, b, dir)

(* buttons_tick: the bindings in their order. *)
Ticked ==
  LET after[i \in 0 .. Len(bindings)] == IF i = 0 THEN World ELSE tick(after[i - 1], i)
  IN  after[Len(bindings)]

-------------------------------------------------------------------------------
Init ==
  /\ ChannelsInit /\ bindings \in BindingLists /\ press \in PressLimits
  /\ stage = "poll" /\ scanned = 0
  /\ pressed = [d \in Input |-> FALSE] /\ since = [d \in Input |-> 0]
  /\ run = NoPress(bindings)
  /\ ramp = [c \in Channel |-> [dir |-> 1, due |-> 0]]
  /\ writes = 0
  /\ ramped = [d \in Input |-> 0]
  /\ stepped = [c \in Channel |-> -1]

(* What a handler has done becomes the new state. *)
Commit(w) ==
  /\ ch' = w.ch /\ ramp' = w.ramp /\ run' = w.run
  /\ output' = [c \in Channel |-> IF w.asked[c] = NoAsk THEN output[c] ELSE w.ch[c].level]
  /\ manual' = [c \in Channel |-> IF w.asked[c] = NoAsk THEN manual[c] ELSE w.asked[c]]
  /\ quiet' = [c \in Channel |->
       IF w.asked[c] = 0 /\ ch[c].level # 0 /\ cfg.suppress # 0
       THEN now + cfg.suppress ELSE quiet[c]]
  /\ UNCHANGED <<cfg, configVars>>

Poll ==
  /\ stage = "poll" /\ stage' = "inputs" /\ scanned' = 0
  /\ UNCHANGED <<chVars, configVars, buttonVars, writes, ramped, stepped>>

(* A frame that writes a channel register. *)
PollWrite ==
  /\ stage = "poll" /\ stage' = "inputs" /\ scanned' = 0
  /\ writes < MaxWrites /\ writes' = writes + 1
  /\ ModbusWrite
  /\ UNCHANGED <<configVars, buttonVars, ramped, stepped>>

(* Mutant: buttons_set_config keeps the long-press flags. *)
PollConfigKeepsLong(k, list, limits) ==
  /\ stage = "poll" /\ stage' = "inputs" /\ scanned' = 0
  /\ writes < MaxWrites /\ writes' = writes + 1
  /\ SetConfig(k) /\ bindings' = list /\ press' = limits
  /\ run' = [i \in DOMAIN list |-> [s \in Side |->
       [Released EXCEPT !.long = i \in DOMAIN bindings /\ run[i][s].long]]]
  /\ stepped' = [c \in Channel |-> -1]
  /\ UNCHANGED <<pressed, since, ramp, ramped>>

(* A frame that writes a configuration register: buttons_set_config takes the *)
(* whole of the new configuration and forgets every press that is under way,  *)
(* though the inputs stay held and their releases will come.                  *)
PollConfig(k, list, limits) ==
  /\ stage = "poll" /\ stage' = "inputs" /\ scanned' = 0
  /\ writes < MaxWrites /\ writes' = writes + 1
  /\ SetConfig(k) /\ bindings' = list /\ press' = limits
  /\ run' = NoPress(list)
  /\ stepped' = [c \in Channel |-> -1]
  /\ UNCHANGED <<pressed, since, ramp, ramped>>

Uses(i, d) == d \in {bindings[i].up, bindings[i].down}

(* The first binding that uses the input handles its event. *)
Handler(d) == CHOOSE i \in DOMAIN bindings : Uses(i, d) /\ \A j \in 1 .. i - 1 : ~Uses(j, d)

(* The side of that binding the input works. *)
SideOf(d) == IF bindings[Handler(d)].up = d THEN "up" ELSE "down"

(* buttons_on_input_event; an input no binding uses does nothing. *)
on_input_event(w, d) ==
  IF d \notin InputsOf(bindings) THEN w
  ELSE IF pressed[d] THEN on_release(w, Handler(d), SideOf(d), now - since[d])
  ELSE on_press(w, Handler(d), SideOf(d))

InputEvent(d) ==
  /\ stage = "inputs" /\ d > scanned /\ scanned' = d
  /\ pressed' = [pressed EXCEPT ![d] = ~@]
  /\ since' = [since EXCEPT ![d] = IF pressed[d] THEN 0 ELSE now]
  /\ Commit(on_input_event(World, d))
  /\ ramped' = [ramped EXCEPT ![d] = 0]
  /\ stepped' = [c \in Channel |->
       IF \E i \in DOMAIN bindings : Uses(i, d) /\ c \in bindings[i].target THEN -1 ELSE stepped[c]]
  /\ UNCHANGED <<now, stage, writes>>

Scanned ==
  /\ stage = "inputs" /\ stage' = "tick" /\ scanned' = 0
  /\ UNCHANGED <<chVars, configVars, buttonVars, writes, ramped, stepped>>

(* buttons_tick, and the next loop starts some time later. *)
Tick ==
  /\ stage = "tick" /\ stage' = "poll"
  /\ Commit(Ticked)
  /\ \E t \in LoopTime : now + t <= Horizon /\ now' = now + t
  /\ ramped' = [d \in Input |->
       IF \E i \in DOMAIN bindings, s \in Side : bindings[i][s] = d /\ Ticked.run[i][s].long
       THEN press.long ELSE ramped[d]]
  /\ stepped' = [c \in Channel |-> IF Ticked.asked[c] = NoAsk THEN stepped[c] ELSE now]
  /\ UNCHANGED <<scanned, pressed, since, writes>>

Next ==
  \/ Poll \/ PollWrite
  \/ \E k \in Settings, list \in BindingLists, limits \in PressLimits : PollConfig(k, list, limits)
  \/ \E d \in Input : InputEvent(d)
  \/ Scanned \/ Tick

Spec == Init /\ [][Next]_vars

-------------------------------------------------------------------------------
(* A ramp belongs to an input that is held at this moment: whatever was       *)
(* configured or written meanwhile, no ramp outlives the press it came from.  *)
RampNeedsPress ==
  \A i \in DOMAIN bindings, s \in Side :
     run[i][s].long => run[i][s].pressed /\ pressed[bindings[i][s]]

(* Dimming starts long_press_ms after inputs.c saw the press, not earlier,    *)
(* whatever an earlier press of the same input left behind and whatever limit *)
(* a configuration write has brought in the middle of the press.              *)
RampAfterLong ==
  [][Tick => \A i \in DOMAIN bindings, s \in Side :
       run'[i][s].long => now - since[bindings[i][s]] >= press.long]_vars

(* A press that has dimmed does not also toggle the light when it ends,       *)
(* though a configuration write in between makes buttons.c forget the press   *)
(* and judge its end by the length alone.  Such a write could raise           *)
(* short_press_max_ms up to the time after which the ramp began, or turn the  *)
(* binding into a latching switch, whose contact opens: no other can do harm. *)
RampedPressNeverToggles ==
  [][\A d \in Input :
       /\ InputEvent(d) /\ pressed[d] /\ press.max < ramped[d]
       /\ \A i \in DOMAIN bindings : Uses(i, d) => bindings[i].type # "latching"
       => \A c \in Channel : ch'[c].level = ch[c].level]_vars

(* Without these conditions it is false: a hold that has dimmed toggles the   *)
(* light after all when the press limits are raised before it ends.           *)
DimmedNeverToggles ==
  [][\A d \in Input :
       InputEvent(d) /\ pressed[d] /\ ramped[d] # 0 =>
          \A c \in Channel : ch'[c].level = ch[c].level]_vars

(* The levels a button sets are levels of the channel: a ramp ends at 1, not  *)
(* at 0, so that holding a button never switches a light off.                 *)
RampKeepsLight ==
  [][Tick => \A c \in Channel : ch[c].level # 0 => ch'[c].level # 0]_vars

(* Between two steps of one ramp hold_period_ms of its binding pass. *)
RampIsPaced ==
  [][Tick => \A c \in Channel :
       Ticked.asked[c] # NoAsk /\ stepped[c] # -1 =>
          \E i \in DOMAIN bindings : /\ c \in bindings[i].target
                                     /\ now - stepped[c] >= bindings[i].period]_vars

(* A rocker that is held never moves the light against its direction. *)
RockerDirection ==
  [][Tick => \A i \in DOMAIN bindings, c \in Channel :
       bindings[i].type = "rocker" /\ bindings[i].target = {c} =>
         /\ Ticked.run[i]["up"].long => ch'[c].level >= ch[c].level
         /\ Ticked.run[i]["down"].long /\ ~Ticked.run[i]["up"].long
               => ch'[c].level <= ch[c].level]_vars

(* What a later switch-on restores is a level that a button or an ordinary    *)
(* register had asked for, never one that auto-light had chosen.              *)
RememberedIsManual ==
  [][\A c \in Channel : ch'[c].last # ch[c].last => ch'[c].last = manual[c]]_vars

(* Switching a channel off remembers the brightness it had, so that the next  *)
(* switch-on restores it; only the night level itself is not remembered       *)
(* (README:277).  The code also forgets any brightness the channel was given  *)
(* after it had been lit at the night level.                                  *)
OffRemembers ==
  [][\A c \in Channel :
       ch[c].level # 0 /\ ~ch[c].auto /\ ch'[c].level = 0 /\ ch[c].level # cfg.night[c]
         => ch'[c].last = ch[c].level]_vars
===============================================================================
