------------------------------- MODULE MCMaster -------------------------------
(* A region of one block, the factory image and one for the other board.      *)
EXTENDS Master

Old   == [id |-> 1, size |-> 1, ours |-> TRUE]
Alien == [id |-> 2, size |-> 1, ours |-> FALSE]

MCImage == {Old, Alien}
MCData  == {Part(Old, 1), Part(Alien, 1)}
===============================================================================
