------------------------------- MODULE MCUpdate -------------------------------
(* A region of two blocks, a factory image that fills it, a new image for     *)
(* this device and one for the other board.                                   *)
EXTENDS UpdateTool

Old   == [id |-> 1, size |-> 2, ours |-> TRUE]
New   == [id |-> 2, size |-> 2, ours |-> TRUE]
Alien == [id |-> 3, size |-> 1, ours |-> FALSE]

MCImage  == {Old, New, Alien}
Any      == {New, Alien}
OnlyNew  == {New}
OnlyAlien == {Alien}

MCNumber == 0 .. 3
MCData   == {Part(New, 1), Part(New, 2), Part(Alien, 1)}
===============================================================================
