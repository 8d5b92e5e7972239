------------------------------- MODULE MCDimming -------------------------------
(* A clock of 16 ticks that wraps during the run; fades of three ticks up and *)
(* two down, or none.                                                         *)
EXTENDS Dimming

MCSettings == {[zone |-> "narrow", on |-> 3, off |-> 2], [zone |-> "full", on |-> 0, off |-> 3]}
===============================================================================
