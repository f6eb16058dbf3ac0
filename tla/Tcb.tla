-------------------------------- MODULE Tcb --------------------------------
(***************************************************************************)
(* The task control blocks of kernel/include/task.h, which the run queue   *)
(* and the lists of sleepers point to.                                     *)
(***************************************************************************)
CONSTANTS TCB,            \* the task control blocks
          NULL            \* the null pointer

ASSUME NullAssumption == NULL \notin TCB
=============================================================================
