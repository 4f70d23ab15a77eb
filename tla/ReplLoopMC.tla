------------------------------ MODULE ReplLoopMC ------------------------------
(* ReplLoop for TLC: three starts, and the lines nobody is offered.          *)
EXTENDS ReplLoop

MCStarts ==
  {[r |-> TRUE, rig |-> TRUE, formatter |-> TRUE, mode |-> "format"],
   [r |-> TRUE, rig |-> FALSE, formatter |-> FALSE, mode |-> "format"],
   [r |-> FALSE, rig |-> FALSE, formatter |-> TRUE, mode |-> "off"]}
MCOtherLines ==
  {<<>>, <<"R">>, <<"nonsense">>, <<"reprex">>, <<"reprex", "format">>, <<"reprex", "off">>,
   <<"shell">>, <<"switch">>, <<"pushd", "directory">>, <<"popd">>, <<"quit">>, <<"cd">>}
=============================================================================
