------------------------------ MODULE MCButtons ------------------------------
(* Bindings and settings of the button runs: times are in ticks of about the  *)
(* debounce time.                                                             *)
EXTENDS Buttons

Rocker(T, period) ==
  <<[type |-> "rocker", up |-> 1, down |-> 2, target |-> T, step |-> 1, period |-> period]>>
Others ==
  <<[type |-> "momentary", up |-> 1, down |-> 0, target |-> {1, 2}, step |-> 1, period |-> 2],
    [type |-> "latching", up |-> 2, down |-> 0, target |-> {2}, step |-> 1, period |-> 1]>>
MCLists == {Rocker({1, 2}, 2), Others, <<>>}
RockerAlone == {Rocker({1}, 2)}
RockerSlow  == {Rocker({1}, 3)}

Limits(min, max, long) == [min |-> min, max |-> max, long |-> long]
Usual  == {Limits(1, 2, 3)}
Raised == {Limits(1, 2, 3), Limits(1, 4, 5)}

Plain(suppress, night) ==
  [suppress |-> suppress, default |-> [c \in Channel |-> 0], night |-> [c \in Channel |-> night]]
NoNight == {Plain(0, 0)}
OnlyNight == {Plain(0, 2)}
WithNight == {Plain(0, 2), Plain(0, 0)}
NightOnOne == {[Plain(2, 0) EXCEPT !.night[1] = 2]}
===============================================================================
