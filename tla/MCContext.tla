------------------------------ MODULE MCContext ------------------------------
(* Two tasks, as like as two programs can be; one stub that converts       *)
(* errors and one that does not; two errors that a caller can tell apart,  *)
(* a success, and a time that would pass for an error.                     *)
EXTENDS Context

MCCalls == {read, time}
MCResults == {-14, -9, 0}            \* -EFAULT, -EBADF and a success
MCValues == {-9}
MCSymmetry == Permutations(Task)
=============================================================================
