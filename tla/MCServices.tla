----------------------------- MODULE MCServices -----------------------------
(* Two boards on the bus and in the list, two callers on each, three       *)
(* messages and two sockets; a counter that wraps at ten, pages of two     *)
(* functions, log files of two lines: see ServicesSafety.cfg.              *)
EXTENDS Services, TLC
BoardSymmetry == Permutations(Nodes)
=============================================================================
