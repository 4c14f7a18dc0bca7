--------------------------- MODULE MCMasterScheduler ---------------------------
(* MasterScheduler for TLC: task 1 has two little tasks, a whole one and    *)
(* one that is shorter; task 2 has none, as when GetFileLength fails.      *)
EXTENDS BigFile

MCFragments == <<2, 0>>
MCLength == <<5, -1>>
===============================================================================
