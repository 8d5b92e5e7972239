-------------------------------- MODULE MCOutput -------------------------------
(* Every level of the full scale through every curve, in the full range and   *)
(* in a narrow one; profiles whose ranges overlap, touch and lie apart are    *)
(* written while the channel is dark, dimmed and full on.                     *)
EXTENDS Output

MCProfiles == {[min |-> r[1], max |-> r[2], curve |-> k] : r \in {<<0, 1023>>, <<360, 900>>}, k \in Curve}
MCWrites ==
  {[min |-> 900, max |-> 1000, curve |-> "gamma 0.7"], [min |-> 0, max |-> 359, curve |-> "gamma 2.5"]}
===============================================================================
