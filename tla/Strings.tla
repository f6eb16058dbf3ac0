------------------------------- MODULE Strings -------------------------------
(***************************************************************************)
(* The string and memory functions together: a program calls one at a      *)
(* time, and each meets the memory that the others left.                   *)
(***************************************************************************)
EXTENDS Copies, Searches

stringVars == <<mem, copyVars, searchVars>>

StringsInit == CopyInit /\ SearchInit

StringsNext ==
    \/ scan = "none" /\ CopyNext /\ UNCHANGED searchVars
    \/ at = "none" /\ SearchNext /\ UNCHANGED copyVars

StringsSpec == StringsInit /\ [][StringsNext]_stringVars
=============================================================================
