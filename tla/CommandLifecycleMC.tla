------------------------- MODULE CommandLifecycleMC -------------------------
(* CommandLifecycle for TLC: how history_forget is configured.             *)
EXTENDS CommandLifecycle

Forget(enabled, onExit, n) == [enabled |-> enabled, on_exit_only |-> onExit, delay |-> n]

OnExit    == Forget(TRUE, TRUE, 1)
Delayed   == Forget(TRUE, FALSE, 1)

AllConfigs     == {OnExit, Delayed}
DelayedOnly    == {Delayed}
OnExitOnly     == {OnExit}
=============================================================================
