----------------------------- MODULE MCConfigTool -----------------------------
(* Three channels and three binding slots.  Factory settings, or a saved      *)
(* configuration with other inputs and intervals, to be replaced by one that  *)
(* swaps inputs between slots and moves the device to another address and     *)
(* port, by one whose intervals lie above the old ones, or by an invalid one. *)
EXTENDS ConfigTool

Slow == 64 \* 9600 8N2
Fast == 67 \* 57600 8N2

Level(min, max) == [Plain EXCEPT !.min_level = min, !.max_level = max]
Times(n, min, max, long) ==
  [FactoryGlobals EXCEPT !.count = n, !.short_min = min, !.short_max = max, !.long = long]

OldProfile(i) == IF i = 1 THEN Level(100, 300) ELSE Plain
OldBinding(i) ==
  CASE i = 1 -> Button(Momentary, ToChannel, 1, 2, NoInput)
    [] i = 2 -> Button(Rocker, ToGroup, 1, 3, 1)
    [] OTHER -> Unused
Old == [cfg |-> Compose(Times(2, 50, 400, 500), OldProfile, OldBinding),
        link |-> [address |-> 101, port |-> Fast]]

(* A file's registers: 0xFFFF where there is no second input. *)
NewProfile(i) == IF i = 1 THEN Level(250, 900) ELSE Plain
NewBinding(i) ==
  CASE i = 1 -> Button(Momentary, ToChannel, 2, 3, 65535)
    [] i = 2 -> Button(Rocker, ToGroup, 1, 1, 2)
    [] OTHER -> Unused
New == [cfg |-> Compose(Times(2, 300, 450, 800), NewProfile, NewBinding),
        link |-> [address |-> 102, port |-> Slow]]

HighProfile(i) == IF i = 1 THEN Level(500, 900) ELSE Plain
High == [cfg |-> Compose(Times(2, 300, 450, 800), HighProfile, NewBinding),
         link |-> [address |-> 101, port |-> Fast]]

BadBinding(i) == IF i = 3 THEN [Button(Latching, ToChannel, 2, 4, 65535) EXCEPT !.hold_step = 0] ELSE NewBinding(i)
Bad == [cfg |-> Compose(Times(3, 50, 400, 500), NewProfile, BadBinding),
        link |-> [address |-> 102, port |-> Fast]]

MCStarts  == {NoSaved, Old}
MCTargets == {New, High, Bad}
OnlyOld   == {Old}
OnlyNew   == {New}
OnlyHigh  == {High}
===============================================================================
