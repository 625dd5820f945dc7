----------------------------- MODULE MCSecurity -----------------------------
(* One door, one smoke detector, and the siren between them in the list. *)
EXTENDS Security, TLC
CONSTANTS door, smoke, s1
CONSTANTS c1, c2
PortList == <<door, s1, smoke>>
OneHand  == c1 :> {"closed", "process", "opened", "stop"}
TwoHands == (c1 :> {"closed", "process"}) @@ (c2 :> {"opened", "stop"})
=============================================================================
