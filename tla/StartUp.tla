------------------------------- MODULE StartUp -------------------------------
(***************************************************************************)
(* From main to the running R, and from there to the next image: arf sets  *)
(* its environment, replaces itself once to have the R library on          *)
(* LD_LIBRARY_PATH, and :restart and :switch replace it again, each time   *)
(* with the environment and the terminal as the image before left them     *)
(* (main.rs, console_mode.rs, repl/shell.rs, arf-libr).                    *)
(* rvar stands for the seven variables that belong to one version of R     *)
(* (R_LIBS_USER, R_DOC_DIR, ...), which are all treated alike.             *)
(***************************************************************************)
EXTENDS RSource

CONSTANTS
  Worlds,           \* what is installed and configured
  Launches,         \* how arf may be started, see LaunchType
  SwitchRequests,         \* what :switch may be given
  Unset, User, Session, \* rvar: not set; set before arf was started; by the session
  NoCarrier, BadCarrier, \* no startup carrier in the environment; one that cannot be read
  NoMode,           \* the terminal mode has not been saved
  MaxChanges        \* bound: changes to the world while R runs

Values == {Unset, User, Session} \cup Homes
Cli == [home : Homes \cup {NoR, NotGiven}, version : SwitchRequests \cup {NotGiven},
        overrides : BOOLEAN]
LaunchType ==
  [mode : {"console", "headless", "script"}, cli : Cli,
   rHome : Homes \cup {NoR}, rvar : {Unset, User}, carrier : {NoCarrier, BadCarrier}]

ASSUME StartUpAssumption ==
  /\ \A w \in Worlds : w \in WorldType
  /\ Launches \subseteq LaunchType /\ SwitchRequests \subseteq Request
  /\ {NoCarrier, BadCarrier} \cap Values = {}
  /\ MaxChanges \in Nat

VARIABLES
  world, changes,
  mode, cli,  \* the command line, and ARF_R_HOME, ARF_R_VERSION, which count as options
  env,        \* R_HOME, LD_LIBRARY_PATH, the version's variables, the carrier
  snapshot,   \* STARTUP_ENV
  echoes,       \* the terminal echoes its input
  savedEcho,  \* ORIGINAL_TERMIOS
  image,      \* where the current image is
  rSource,    \* status of the selection; the R that runs, if one does
  \* History variables.
  original,   \* rvar as the user set it
  inherited,  \* R_HOME when this image began
  switched,   \* the request of the :switch that started this image, if one did
  reexecs     \* how often the image has replaced itself since it was started

startVars == <<world, changes, mode, cli, env, snapshot, echoes, savedEcho, image, rSource,
               original, inherited, switched, reexecs>>
terminal == <<echoes, savedEcho>>

NoSource == [status |-> "none", r |-> NoR]

StartInit ==
  /\ world \in Worlds /\ changes = 0
  /\ \E l \in Launches :
       /\ mode = l.mode /\ cli = l.cli /\ original = l.rvar /\ inherited = l.rHome
       /\ env = [rHome |-> l.rHome, ld |-> <<>>, rvar |-> l.rvar, carrier |-> l.carrier]
  /\ snapshot = Unset /\ echoes = TRUE /\ savedEcho = NoMode
  /\ image = "start" /\ rSource = NoSource /\ switched = NotGiven /\ reexecs = 0

------------------------------------------------------------------------------
(* The terminal (console_mode.rs) *)

\* ConsoleModeGuard::install: a mode that is saved already is not saved again.
InstallGuard ==
  IF savedEcho = NoMode THEN savedEcho' = echoes /\ echoes' = FALSE ELSE UNCHANGED terminal

restore_original_input_mode ==
  /\ echoes' = IF savedEcho = NoMode THEN echoes ELSE savedEcho
  /\ savedEcho' = NoMode

------------------------------------------------------------------------------
(* Start-up *)

capture_startup_env == IF env.carrier \in Values THEN env.carrier ELSE env.rvar

Conflict == cli.home # NotGiven /\ cli.version # NotGiven

Begin ==
  /\ image = "start"
  /\ snapshot' = capture_startup_env
  /\ env' = [env EXCEPT !.carrier = NoCarrier]
  /\ inherited' = env.rHome
  /\ image' = IF Conflict THEN "ended" ELSE "options"
  /\ IF mode = "console" /\ ~Conflict THEN InstallGuard ELSE UNCHANGED terminal
  /\ UNCHANGED <<world, changes, mode, cli, rSource, original, switched, reexecs>>

\* setup_r; an error leaves run(), whose guard restores the terminal.
SetUpR ==
  /\ image = "options"
  /\ LET r == resolve_r_source(world, cli)
     IN IF r.status = "error"
        THEN /\ image' = "ended" /\ restore_original_input_mode
             /\ UNCHANGED <<env, rSource>>
        ELSE /\ image' = "library" /\ rSource' = [NoSource EXCEPT !.status = r.status]
             /\ env' = IF r.status = "path" THEN env ELSE [env EXCEPT !.rHome = r.home]
             /\ UNCHANGED terminal
  /\ UNCHANGED <<world, changes, mode, cli, snapshot, original, inherited, switched, reexecs>>

\* ensure_ld_library_path finds no library, or finds its directory on the path.
Library == find_r_library(world, env.rHome)
OnLibraryPath(home) == home \in ToSet(env.ld)

LibraryPathReady ==
  /\ image = "library"
  /\ Library = NoR \/ OnLibraryPath(Library)
  /\ image' = "init"
  /\ UNCHANGED <<world, changes, mode, cli, env, snapshot, terminal, rSource, original,
                 inherited, switched, reexecs>>

RestoredForExec ==
  IF mode = "console" THEN restore_original_input_mode
  ELSE UNCHANGED echoes /\ savedEcho' = NoMode

WithLibraryPath == [env EXCEPT !.ld = <<Library>> \o @]
WithCarrier(e) == [e EXCEPT !.carrier = snapshot]

\* A new image of the program has the environment and nothing else.
NewImage == image' = "start" /\ rSource' = NoSource

ReExec ==
  /\ image = "library" /\ Library # NoR /\ ~OnLibraryPath(Library)
  /\ env' = IF mode = "console" THEN WithCarrier(WithLibraryPath) ELSE WithLibraryPath
  /\ NewImage /\ RestoredForExec
  /\ reexecs' = reexecs + 1
  /\ UNCHANGED <<world, changes, mode, cli, snapshot, original, inherited, switched>>

\* exec fails: the path stays set, the carrier goes, and a new guard is installed after
\* the old one, so that the terminal is as before.
ReExecFails ==
  /\ image = "library" /\ Library # NoR /\ ~OnLibraryPath(Library)
  /\ env' = WithLibraryPath
  /\ image' = "init"
  /\ UNCHANGED <<world, changes, mode, cli, snapshot, terminal, rSource, original,
                 inherited, switched, reexecs>>

\* R_HOME follows the library that was found, unless there is one in it.
HomeFollows(e) == [e EXCEPT !.rHome = IF @ \in world.lib THEN @ ELSE Library]

\* R's wrapper script, which is not run, is read for the variables that are not set yet.
set_r_path_vars_from_wrapper(e) == [e EXCEPT !.rvar = IF @ = Unset THEN e.rHome ELSE @]

\* The library that is loaded runs, with arf's callbacks and without its signal handlers.
initialize_r_unix == rSource' = [rSource EXCEPT !.r = Library] /\ image' = "running"

\* initialize_r_with_args.  Only the console goes on without R.
InitializeR ==
  /\ image = "init"
  /\ IF Library = NoR
     THEN /\ image' = IF mode = "console" THEN "running" ELSE "ended"
          /\ UNCHANGED <<env, rSource>>
     ELSE /\ initialize_r_unix
          /\ env' = set_r_path_vars_from_wrapper(HomeFollows(env))
  /\ UNCHANGED <<world, changes, mode, cli, snapshot, terminal, original, inherited,
                 switched, reexecs>>

------------------------------------------------------------------------------
(* The session *)

\* Sys.setenv()
SetVariable ==
  /\ image = "running" /\ rSource.r # NoR
  /\ env' = [env EXCEPT !.rvar = Session]
  /\ UNCHANGED <<world, changes, mode, cli, snapshot, terminal, image, rSource, original,
                 inherited, switched, reexecs>>

\* Versions come and go, files are edited, the session changes its directory.
WorldChanges ==
  /\ image = "running" /\ mode = "console" /\ changes < MaxChanges
  /\ world' \in Worlds \ {world} /\ changes' = changes + 1
  /\ UNCHANGED <<mode, cli, env, snapshot, terminal, image, rSource, original, inherited,
                 switched, reexecs>>

\* restart_process(None): the environment is left alone.  When exec fails, nothing has
\* changed.  The terminal is as the guard has made it.
Restart ==
  /\ image = "running" /\ mode = "console"
  /\ env' = WithCarrier(env)
  /\ NewImage /\ savedEcho' = NoMode
  /\ switched' = NotGiven /\ reexecs' = 0
  /\ UNCHANGED <<world, changes, mode, cli, snapshot, echoes, original, inherited>>

env_changes_for_switch == [rHome |-> NoR, ld |-> <<>>, rvar |-> snapshot, carrier |-> NoCarrier]

\* Mutant: with any R, as long as there is rig.
rig_enabled_Anyhow == rSource.status # "none"

rig_enabled == rSource.status = "rig"

\* restart_process(Some(version)): the option replaces those before it.
Switch(request) ==
  /\ image = "running" /\ mode = "console"
  /\ rig_enabled /\ rig_available(world) /\ resolve_version(world, request) # NoR
  /\ env' = WithCarrier(env_changes_for_switch)
  /\ cli' = [cli EXCEPT !.version = request]
  /\ NewImage /\ savedEcho' = NoMode
  /\ switched' = request /\ reexecs' = 0
  /\ UNCHANGED <<world, changes, mode, snapshot, echoes, original, inherited>>

\* The main loop ends, or R calls exit(): the guard or its atexit handler.
EndSession ==
  /\ image = "running"
  /\ image' = "ended" /\ restore_original_input_mode
  /\ UNCHANGED <<world, changes, mode, cli, env, snapshot, rSource, original, inherited,
                 switched, reexecs>>

StartNext ==
  \/ Begin \/ SetUpR \/ LibraryPathReady \/ ReExec \/ ReExecFails \/ InitializeR
  \/ SetVariable \/ WorldChanges \/ Restart \/ EndSession
  \/ \E request \in SwitchRequests : Switch(request)

StartSpec == StartInit /\ [][StartNext]_startVars

------------------------------------------------------------------------------
(* docs/configuration.md, "R Source Precedence": the R that each tier names, from the
   first to the last. *)
NewestOf(S) == IF S = {} THEN NoR ELSE Max(S)
UsableProviders ==
  LET p == world.overrides
      Asks(k) == p[k].kind = "spec"
      Found(k) == resolve_version(world, p[k]) # NoR
  IN {k \in DOMAIN p : Asks(k) /\ Found(k) /\ world.rig = "ok"}

TierR ==
  CASE cli.home # NotGiven -> cli.home
    [] cli.home = NotGiven /\ cli.version # NotGiven -> resolve_version(world, cli.version)
    [] cli.home = NotGiven /\ cli.version = NotGiven
       /\ cli.overrides /\ UsableProviders # {} ->
         NewestOf(world.overrides[Min(UsableProviders)].of \cap world.installed)
    [] OTHER ->
         IF world.source.kind = "path" THEN world.source.home
         ELSE IF world.rig = "ok" /\ world.default \in world.installed \ world.broken
              THEN world.default
         ELSE find_r_library(world, inherited)

\* The name of the tier that names it.
TierName ==
  CASE cli.home # NotGiven -> "r_home"
    [] cli.home = NotGiven /\ cli.version # NotGiven -> "version_request"
    [] OTHER -> IF cli.overrides /\ UsableProviders # {} THEN "project_file" ELSE "default"

Starting == image = "init" /\ image' = "running"

\* An image replaces itself at most once before R starts: the second finds the same
\* library as the first, and its directory on the path.
ReexecOnce == reexecs <= 1

\* Through both images of a start (and no third), with all that earlier ones left in the
\* environment, the R that runs is the one the documented precedence names, and the one
\* that arf r resolve names there, with the reason.  (If the R so named has no shared
\* library the search goes on and another R runs; resolve does not tell.)
RightR ==
  [][/\ ReexecOnce
     /\ Starting /\ TierR \in world.lib \cup {NoR} =>
          LET told == run_resolve(world, cli, inherited)
          IN /\ rSource'.r = TierR /\ told.target = TierR
             /\ told.selected_by = TierName
             /\ told.resolved <=> rSource'.r # NoR]_startVars

\* After :switch the new R starts as if it had been the first: its own library alone on
\* the path, and the version's variables as they were before the first image, whatever
\* R, the session and any restarts between have set; and it does start.
SwitchStartsClean ==
  [][switched # NotGiven =>
       /\ Starting /\ resolve_version(world, switched) \in world.lib =>
            /\ rSource'.r = resolve_version(world, switched)
            /\ env.rvar = original /\ env.ld = <<rSource'.r>>
       /\ image = "start" => image' # "ended"]_startVars

\* main.rs: the guard is there to "restore the original mode on exit".
EchoRestored == image = "ended" => echoes
==============================================================================
