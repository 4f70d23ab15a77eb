---------------------------- MODULE IpcSessionsMC ----------------------------
(* Instances of IpcSessions for TLC: an interactive session and a headless  *)
(* one that ask for the same socket path and the same PID file, and another *)
(* headless one, which gets the PID of the first.                           *)
EXTENDS IpcSessions, TLC

CONSTANTS p1, p2, p3

ThreeProcesses == {p1, p2, p3}
ThePids  == p1 :> 1 @@ p2 :> 2 @@ p3 :> 1
TheModes == p1 :> "with_ipc" @@ p2 :> "headless" @@ p3 :> "headless"
=============================================================================
