---------------------------- MODULE OrderedLink ----------------------------
(***************************************************************************)
(* What the serial links of the board promise to the code above them,      *)
(* whatever is lost or late: messages are numbered in the order they were  *)
(* accepted for sending, the peer's callback is only ever run for an       *)
(* accepted message, and never for one older than the last it was run for. *)
(* A message may be skipped (abandoned) and the same one may be handed     *)
(* over again.                                                             *)
(***************************************************************************)
EXTENDS Naturals

VARIABLES accepted,    \* how many messages were accepted for sending
          delivered    \* the messages the peer's callback was run for

vars == <<accepted, delivered>>

Init == accepted = 0 /\ delivered = {}

Accept == accepted' = accepted + 1 /\ UNCHANGED delivered

Deliver(m) ==
    /\ m \in 1..accepted
    /\ \A d \in delivered : d <= m
    /\ delivered' = delivered \union {m}
    /\ UNCHANGED accepted

Next == Accept \/ \E m \in 1..accepted : Deliver(m)

Spec == Init /\ [][Next]_vars
=============================================================================
