---------------------------- MODULE MCSyscallEntry ----------------------------
(* Small instances of SyscallEntry for TLC.                                  *)
EXTENDS SyscallEntry, TLC

ProcSymmetry == Permutations(Procs)
==============================================================================
