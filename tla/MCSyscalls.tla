----------------------------- MODULE MCSyscalls -----------------------------
(***************************************************************************)
(* The system calls read, write and sleep, in one model.  The first two    *)
(* have nothing in common with the third, so a behaviour exercises one     *)
(* side while the other stands in an initial state.                        *)
(*                                                                         *)
(* A small memory: ROM at 0..1, RAM at 6..15, of which a task may read     *)
(* into 6..8 (below the stack of the kernel) and 11..12.  The buffers lie  *)
(* inside their region, astride or next to each of its ends, or end past   *)
(* the highest address.                                                    *)
(***************************************************************************)
EXTENDS Io, Time, TLC

MCBuffers == {<<6, 2>>, <<7, 0>>, <<11, 1>>, <<23, 2>>,
              <<6, 3>>, <<5, 2>>, <<8, 2>>, <<12, 1>>, <<10, 2>>, <<6, 7>>,
              <<0, 1>>, <<1, 1>>, <<15, 1>>, <<12, 12>>}
MCSymmetry == Permutations(Visible)

SyscallsInit == Init /\ TimeInit

TerminalNext == TimeInit /\ phase = 0 /\ Next /\ UNCHANGED timeVars
ClockNext    == Init /\ TimeNext /\ UNCHANGED vars
SyscallsNext == TerminalNext \/ ClockNext

SyscallsSpec == SyscallsInit /\ [][SyscallsNext]_<<vars, timeVars>>
=============================================================================
