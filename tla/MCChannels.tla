------------------------------ MODULE MCChannels ------------------------------
(* Two channels, a scale of five levels and three percents; the clock is 16   *)
(* ticks wide and starts three ticks before it wraps.                         *)
EXTENDS Channels

MCSettings == {[suppress |-> s, default |-> [c \in Channel |-> 0], night |-> [c \in Channel |-> 1]] : s \in {0, 3}}
===============================================================================
