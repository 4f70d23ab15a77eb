------------------------------- MODULE RSource -------------------------------
(***************************************************************************)
(* Which R arf selects: the command line, the overrides of the directory,  *)
(* the configuration, and the search that is left when none of them names  *)
(* an R (app/setup, external/rig.rs, arf-libr/src/sys/discovery.rs).       *)
(* Everything these functions look at outside the process is one record,   *)
(* the world; see WorldType.                                               *)
(***************************************************************************)
EXTENDS Naturals, FiniteSetsExt, SequencesExt

CONSTANTS
  Versions, \* of R that rig may have installed; a version stands for its R_HOME, too
  NoR,      \* no R_HOME: not found, not set, or a path that does not exist
  NotGiven  \* no such option

\* An R that rig does not know has an R_HOME as well.
Homes == Versions \cup {0}

ASSUME SourceAssumption == Versions \subseteq Nat \ {0} /\ NoR \notin Homes

\* A version request, by what it matches; rig's names and aliases match one version each.
Request == [kind : {"default", "spec"}, of : SUBSET Versions]
Default == [kind |-> "default", of |-> {}]

\* What an override provider finds in the directory: pixi and file names with a path are
\* not supported, and a value is a name (devel, release) or a specification, if it is any.
Provider ==
  [kind : {"unsupported", "absent", "unreadable", "invalid", "named", "spec"},
   of : SUBSET Versions]

WorldType ==
  [rig : {"ok", "missing", "failing", "unlisted"}, \* unlisted: rig list fails
   installed : SUBSET Versions,
   default   : Versions \cup {NoR},
   broken    : SUBSET Homes,         \* their bin/R cannot tell its R_HOME
   lib       : SUBSET Homes,         \* have the shared library
   source    : [kind : {"auto", "rig", "path"}, home : Homes \cup {NoR}],
   overrides : Seq(Provider),
   onPath    : Homes \cup {NoR},     \* what R RHOME prints
   standard  : Homes \cup {NoR}]     \* the first default path with a library

------------------------------------------------------------------------------
(* rig *)

rig_available(w) == w.rig \in {"ok", "unlisted"}
list_versions(w) == IF w.rig = "ok" THEN w.installed ELSE {}

select_version(w, request) ==
  list_versions(w) \cap (IF request.kind = "default" THEN {w.default} ELSE request.of)

resolve_selected(w, v) == IF v \in w.broken THEN NoR ELSE v

\* The newest version that matches, if its binary tells its R_HOME.
resolve_version(w, request) ==
  LET found == select_version(w, request)
  IN IF found = {} THEN NoR ELSE resolve_selected(w, Max(found))

------------------------------------------------------------------------------
(* Selection *)

Resolution(status, home, state) == [status |-> status, home |-> home, state |-> state]
Refused == Resolution("error", NoR, "failed")

FromRig(w, request, state) ==
  LET home == resolve_version(w, request)
  IN IF rig_available(w) /\ home # NoR THEN Resolution("rig", home, state) ELSE Refused

\* A mutant: no matching version ends the loop, too.
TryProvider_GivesUp(w, acc, p) ==
  IF ~acc.ended /\ p.kind = "spec" /\ w.rig = "ok"
  THEN [home |-> resolve_version(w, p), evaluated |-> TRUE, ended |-> TRUE]
  ELSE IF acc.ended \/ p.kind = "absent" THEN acc ELSE [acc EXCEPT !.evaluated = TRUE]

\* One turn of the loop over the providers: most failures go on to the next one, a rig
\* that cannot be asked ends the loop.
TryProvider(w, acc, p) ==
  IF acc.ended \/ p.kind = "absent" THEN acc
  ELSE IF p.kind \in {"unsupported", "unreadable", "invalid", "named"}
       THEN [acc EXCEPT !.evaluated = TRUE]
  ELSE IF p.kind = "spec" /\ w.rig # "ok"
       THEN [acc EXCEPT !.evaluated = TRUE, !.ended = TRUE]
  ELSE LET home == resolve_version(w, p)
       IN [acc EXCEPT !.evaluated = TRUE, !.ended = home # NoR, !.home = home]

setup_r_via_overrides(w) ==
  FoldLeft(LAMBDA acc, p : TryProvider(w, acc, p),
           [home |-> NoR, evaluated |-> FALSE, ended |-> FALSE], w.overrides)

setup_r_fallback(w, state) ==
  CASE w.source.kind = "path" ->
         IF w.source.home = NoR THEN Refused ELSE Resolution("explicit", w.source.home, state)
    [] w.source.kind = "rig" -> FromRig(w, Default, state)
    [] OTHER -> IF FromRig(w, Default, state) = Refused
                THEN Resolution("path", NoR, state) ELSE FromRig(w, Default, state)

resolve_r_source(w, cli) ==
  LET shadowed == IF cli.overrides THEN "shadowed_by_cli" ELSE "disabled"
      tried == setup_r_via_overrides(w)
  IN CASE cli.home # NotGiven ->
            IF cli.home \in {NoR} \cup w.broken THEN Refused
            ELSE Resolution("explicit", cli.home, shadowed)
       [] cli.home = NotGiven /\ cli.version # NotGiven -> FromRig(w, cli.version, shadowed)
       [] OTHER ->
            IF ~cli.overrides THEN setup_r_fallback(w, "disabled")
            ELSE IF tried.home # NoR THEN Resolution("rig", tried.home, "applied")
            ELSE setup_r_fallback(w, CASE tried.evaluated -> "failed"
                                       [] w.overrides = <<>> -> "not_configured"
                                       [] OTHER -> "no_match")

------------------------------------------------------------------------------
(* The search for the shared library; rHome is the value of R_HOME. *)

find_r_library(w, rHome) ==
  IF rHome \in w.lib THEN rHome
  ELSE IF w.onPath \in w.lib THEN w.onPath
  ELSE w.standard

(* arf r resolve *)

\* The selection, and the search where it selects none.
resolve_path_r_home_for_report(w, resolution, rHome) ==
  IF resolution.status = "path" THEN find_r_library(w, rHome) ELSE resolution.home

\* Why this R: an option (or its environment variable), the directory's files, or else
\* the configuration and its defaults.
selected_by(cli, resolution) ==
  CASE cli.home # NotGiven -> "r_home"
    [] cli.home = NotGiven /\ cli.version # NotGiven -> "version_request"
    [] OTHER -> IF resolution.state = "applied" THEN "project_file" ELSE "default"

provider(status) == IF status = "explicit" THEN "explicit_path" ELSE status

\* No R at all is an answer, too.
descriptor(w, cli, resolution, rHome) ==
  LET r == resolve_path_r_home_for_report(w, resolution, rHome)
  IN [target |-> r, resolved |-> r # NoR, selected_by |-> selected_by(cli, resolution),
      provider |-> IF r = NoR THEN "none" ELSE provider(resolution.status)]

NoDescriptor ==
  [target |-> NoR, resolved |-> FALSE, selected_by |-> "none", provider |-> "none"]

\* A selection that fails is an error and no descriptor.
run_resolve(w, cli, rHome) ==
  LET resolution == resolve_r_source(w, cli)
  IN IF resolution = Refused THEN NoDescriptor ELSE descriptor(w, cli, resolution, rHome)
==============================================================================
