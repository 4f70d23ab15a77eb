--------------------------- MODULE IpcHeadlessMC ---------------------------
(* IpcHeadless for TLC; liveness is checked, so the requests keep their     *)
(* identity.                                                               *)
EXTENDS IpcHeadless
=============================================================================
