------------------------------ MODULE MCTransport ------------------------------
EXTENDS Transport

(* Two speeds; at the slow one an answer may just outlast the wait before the *)
(* reset into the bootloader.                                                 *)
Times == [p \in Port |-> IF p = "fast" THEN {1, 2} ELSE {2, 5}]
===============================================================================
