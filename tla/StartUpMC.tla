------------------------------ MODULE StartUpMC ------------------------------
(* StartUp for TLC: what is installed and configured, how arf is started.   *)
EXTENDS StartUp

Want(kind, of) == [kind |-> kind, of |-> of]
From(kind, home) == [kind |-> kind, home |-> home]
World(rig, default, source, overrides) ==
  [rig |-> rig, installed |-> {1, 2}, default |-> default, broken |-> {}, lib |-> {0, 1, 2},
   source |-> source, overrides |-> overrides, onPath |-> 0, standard |-> NoR]
Launch(m, home, version, overrides, rHome, rvar, carrier) ==
  [mode |-> m, cli |-> [home |-> home, version |-> version, overrides |-> overrides],
   rHome |-> rHome, rvar |-> rvar, carrier |-> carrier]

Auto == From("auto", NoR)
TheSwitches == {Default, Want("spec", {2}), Want("spec", {1, 2})}

\* Every kind of override, every state of rig and every source; then an R that cannot
\* tell its R_HOME, one without a library, no R at all, one at a default path, and a
\* configured path that does not exist.
TheWorlds ==
  {World("ok", d, Auto, o) :
     d \in {1, NoR},
     o \in {<<>>, <<Want("absent", {})>>, <<Want("spec", {2})>>,
            <<Want("spec", {3}), Want("spec", {1, 2})>>, <<Want("named", {}), Want("spec", {1})>>}}
  \cup {World(r, 1, s, <<Want("invalid", {}), Want("spec", {2})>>) :
          r \in {"ok", "missing", "failing", "unlisted"},
          s \in {Auto, From("rig", NoR), From("path", 0)}}
  \cup {[World("ok", 1, Auto, <<Want("spec", {1, 2})>>) EXCEPT !.broken = {2}],
        [World("ok", 2, Auto, <<>>) EXCEPT !.lib = {0, 1}],
        [World("missing", NoR, Auto, <<>>) EXCEPT !.lib = {}, !.onPath = NoR],
        [World("missing", NoR, Auto, <<>>) EXCEPT !.lib = {1}, !.standard = 1],
        World("ok", 1, From("path", NoR), <<Want("absent", {})>>)}

TheLaunches ==
  {Launch("console", NotGiven, NotGiven, TRUE, h, v, NoCarrier) :
     h \in {NoR, 1}, v \in {Unset, User}}
  \cup {Launch("console", NotGiven, Want("spec", {1, 2}), TRUE, NoR, Unset, NoCarrier),
        Launch("console", NotGiven, NotGiven, FALSE, NoR, User, BadCarrier),
        Launch("console", 0, NotGiven, TRUE, NoR, Unset, NoCarrier),
        Launch("console", 0, Default, TRUE, NoR, Unset, NoCarrier),
        Launch("headless", NotGiven, Default, TRUE, NoR, Unset, NoCarrier),
        Launch("script", NotGiven, NotGiven, TRUE, 2, Unset, NoCarrier)}
=============================================================================
