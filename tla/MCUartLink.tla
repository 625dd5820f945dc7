----------------------------- MODULE MCUartLink -----------------------------
(* Instances of UartLink for TLC: the .cfg files choose the callers, the   *)
(* number and length of the messages and the timing assumptions.           *)
EXTENDS UartLink, TLC

CallerSymmetry == Permutations(Callers)
=============================================================================
