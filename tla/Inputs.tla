-------------------------------- MODULE Inputs --------------------------------
(* The digital inputs (inputs.c) and the loop of main.c around them: one scan *)
(* debounces every input in turn and pushes events into a ring that           *)
(* overwrites its oldest entry when full; then main pops until it is empty.   *)
(* Raw-change events take a place in the ring and are ignored by buttons.c.   *)
(* The device has 9 inputs and a ring for 15 events, where a scan without     *)
(* debouncing can push 18.                                                    *)
EXTENDS Naturals

CONSTANTS
  DI,        \* number of inputs, DDM_DI_COUNT
  QLen,      \* INPUT_EVENT_QUEUE_LEN; one slot is never used
  Debounces, \* values of debounce_ms the configuration takes
  Horizon    \* bound: last instant of the model

ASSUME InputsAssumption ==
  /\ DI \in Nat \ {0}
  /\ QLen \in Nat \ {0, 1}
  /\ Debounces \subseteq Nat
  /\ Horizon \in Nat

Input == 0 .. DI - 1
Slot  == 0 .. QLen - 1
Event == [type : {"raw", "press", "release"}, di : Input, duration : Nat]
Empty == [type |-> "raw", di |-> 0, duration |-> 0]

VARIABLES
  raw, changed,        \* raw_active and last_change_ms
  pressed, since,      \* debounced_pressed and press_started_ms
  events, head, tail,  \* g_events, g_event_head, g_event_tail
  debounce,            \* g_debounce_ms
  next,                \* the input inputs_scan looks at next; DI: main pops
  now,                 \* the loop's now
  held, heldSince,     \* what the popped events say: inputs held, and since when
  lost                 \* history: inputs of which a press or release has been
                       \* overwritten, and none has been popped since

Ring == [events |-> events, head |-> head, tail |-> tail, lost |-> lost]
ringVars == <<events, head, tail, lost>>
inputVars == <<raw, changed, pressed, since>>
vars == <<inputVars, ringVars, debounce, next, now, held, heldSince>>

TypeOK ==
  /\ raw \in [Input -> BOOLEAN] /\ pressed \in [Input -> BOOLEAN] /\ held \in [Input -> BOOLEAN]
  /\ changed \in [Input -> Nat] /\ since \in [Input -> Nat] /\ heldSince \in [Input -> Nat]
  /\ events \in [Slot -> Event] /\ head \in Slot /\ tail \in Slot
  /\ debounce \in Debounces /\ next \in 0 .. DI /\ now \in Nat
  /\ lost \in SUBSET Input

Init ==
  /\ raw = [d \in Input |-> FALSE] /\ pressed = raw /\ held = raw
  /\ changed = [d \in Input |-> 0] /\ since = changed /\ heldSince = changed
  /\ events = [s \in Slot |-> Empty] /\ head = 0 /\ tail = 0 /\ lost = {}
  /\ debounce \in Debounces /\ next = 0 /\ now = 0

-------------------------------------------------------------------------------
After(s) == (s + 1) % QLen

(* Inputs of which entry e tells the buttons something. *)
Tells(e) == IF e.type = "raw" THEN {} ELSE {e.di}

(* Mutant: a full ring keeps its tail, and looks empty. *)
push_unchecked(r, e) ==
  [r EXCEPT !.events[r.head] = e, !.head = After(r.head)]

push_event(r, e) ==
  LET full == After(r.head) = r.tail
  IN  [events |-> [r.events EXCEPT ![r.head] = e],
       head |-> After(r.head),
       tail |-> IF full THEN After(r.tail) ELSE r.tail,
       lost |-> IF full THEN r.lost \cup Tells(r.events[r.tail]) ELSE r.lost]

(* Mutant: the time for which the input has been stable is not looked at. *)
SettledAtOnce(d, active, at) == pressed[d] # active

(* The raw value has been the same for debounce_ms and is not yet reported. *)
Settled(d, active, at) == now - at >= debounce /\ pressed[d] # active

(* One round of the loop in inputs_scan, the pin being read as active. *)
ScanInput(active) ==
  LET d     == next
      flips == raw[d] # active
      at    == IF flips THEN now ELSE changed[d]
      turns == Settled(d, active, at)
      change == [type |-> "raw", di |-> d, duration |-> 0]
      turn  == [type |-> IF active THEN "press" ELSE "release", di |-> d,
                duration |-> IF active THEN 0 ELSE now - since[d]]
      told  == IF flips THEN push_event(Ring, change) ELSE Ring
      ring  == IF turns THEN push_event(told, turn) ELSE told
  IN  /\ next < DI /\ next' = next + 1
      /\ raw' = [raw EXCEPT ![d] = active]
      /\ changed' = [changed EXCEPT ![d] = at]
      /\ pressed' = IF turns THEN [pressed EXCEPT ![d] = active] ELSE pressed
      /\ since' = IF turns /\ active THEN [since EXCEPT ![d] = now] ELSE since
      /\ events' = ring.events /\ head' = ring.head /\ tail' = ring.tail /\ lost' = ring.lost
      /\ UNCHANGED <<debounce, now, held, heldSince>>

(* inputs_pop_event and what buttons_on_input_event records of the event. *)
Pop ==
  LET e == events[tail]
  IN  /\ next = DI /\ tail # head
      /\ tail' = After(tail) /\ lost' = lost \ Tells(e)
      /\ held' = CASE e.type = "press" -> [held EXCEPT ![e.di] = TRUE]
                   [] e.type = "release" -> [held EXCEPT ![e.di] = FALSE]
                   [] OTHER -> held
      /\ heldSince' = IF e.type = "press" THEN [heldSince EXCEPT ![e.di] = now] ELSE heldSince
      /\ UNCHANGED <<inputVars, events, head, debounce, next, now>>

(* Mutant: main pops one event per loop. *)
NextLoopPopsOne ==
  /\ next = DI /\ now < Horizon
  /\ next' = 0 /\ now' = now + 1
  /\ debounce' \in Debounces
  /\ UNCHANGED <<inputVars, ringVars, held, heldSince>>

(* The next loop: time has passed and inputs_set_thresholds may bring a new   *)
(* debounce time from the configuration.                                      *)
NextLoop ==
  /\ next = DI /\ tail = head /\ now < Horizon
  /\ next' = 0 /\ now' = now + 1
  /\ debounce' \in Debounces
  /\ UNCHANGED <<inputVars, ringVars, held, heldSince>>

Next == (\E active \in BOOLEAN : ScanInput(active)) \/ Pop \/ NextLoop

Spec == Init /\ [][Next]_vars

-------------------------------------------------------------------------------
(* A press or release is overwritten only with debouncing switched off        *)
(* (debounce_ms = 0 passes ddm_config_validate): else an input pushes at most *)
(* one event in a scan, and the loop empties the ring between two scans.      *)
NothingLost == [][debounce # 0 => lost' \subseteq lost]_vars

(* After every loop the buttons believe an input held exactly when inputs.c   *)
(* does, but for inputs of which an event has been overwritten, and for those *)
(* only until their next press or release: a release that never came would    *)
(* leave a dimming ramp running for ever.                                     *)
HeldAgrees ==
  next = DI /\ tail = head => \A d \in Input \ lost : held[d] = pressed[d]

(* For every input presses and releases reach the buttons in turn, and the    *)
(* duration a release carries (used by the short-press limits) is the time    *)
(* since the press event, from which buttons_tick measures a long press; but  *)
(* for the first event after an overwritten one.                              *)
PressesAlternate ==
  [][Pop => LET e == events[tail]
            IN  /\ e.type = "press" => e.di \in lost \/ ~held[e.di]
                /\ e.type = "release" =>
                     e.di \in lost \/ (held[e.di] /\ e.duration = now - heldSince[e.di])]_vars

(* After every loop the buttons believe an input held exactly when inputs.c   *)
(* does. False without debouncing: a full scan overwrites its first events.   *)
NeverDisagree == next = DI /\ tail = head => held = pressed
===============================================================================
