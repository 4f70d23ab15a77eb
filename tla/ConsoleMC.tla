------------------------------ MODULE ConsoleMC ------------------------------
(* Console for TLC: rows, lines, and the instances of its parts.           *)
EXTENDS Console, StartUpMC, CommandLifecycleMC, CompleterMC, ReplLoopMC, PagesMC

\* A meta command in the history
TheLines == {<<":", "a">>}
=============================================================================
