----------------------------- MODULE IpcReplMC -----------------------------
(* IpcRepl for TLC: the requests are model values and interchangeable.     *)
EXTENDS IpcRepl, TLC

RequestSymmetry == Permutations(Requests)
=============================================================================
