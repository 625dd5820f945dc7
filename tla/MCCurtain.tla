------------------------------ MODULE MCCurtain ------------------------------
(* One button for each direction. *)
EXTENDS Curtain
MCButtons == {"b1", "b2"}
MCSide == [b \in MCButtons |-> IF b = "b1" THEN "UP" ELSE "DOWN"]
=============================================================================
