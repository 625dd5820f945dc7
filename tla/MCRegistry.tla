----------------------------- MODULE MCRegistry -----------------------------
(* Two boards with three functions, one local function, and a file whose *)
(* last usable record is the third: the fourth number is beyond it.      *)
EXTENDS Registry, TLC
CONSTANTS a1, a2, b1, a, b, tcp, rs485, t1
Owner == [k \in Keys |-> IF k = b1 THEN b ELSE a]
LineSymmetry == Permutations(Lines)

\* The restarts that lose registrations are explored with one transport only.
MCInit == Init /\ (Serial \/ calm)
MCSpec == MCInit /\ [][Next]_vars
=============================================================================
