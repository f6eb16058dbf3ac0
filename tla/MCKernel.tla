------------------------------ MODULE MCKernel ------------------------------
(* Two groups of priorities; tasks have the most urgent ones, the idle     *)
(* task has the last.  The clock wraps after eight milliseconds, and the   *)
(* interrupt period of three does not divide eight.                        *)
EXTENDS Kernel, TLC

MCTcb == 0 .. OS_MAX_TASKS - 1
OneDevice == 0 :> 6
TwoDevices == 0 :> 3 @@ 1 :> 6
=============================================================================
