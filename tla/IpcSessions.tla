----------------------------- MODULE IpcSessions -----------------------------
(***************************************************************************)
(* Several arf processes that share a sessions directory, socket paths and *)
(* a PID file: how a server is started and stopped (ipc/server.rs), how it *)
(* is announced to clients (ipc/session.rs), how a process ends, restarts  *)
(* itself in place or is killed, and what a client finds (ipc/client.rs).  *)
(***************************************************************************)
EXTENDS Naturals

CONSTANTS
  Processes,    \* the processes of a behaviour; each runs once
  PidOf,        \* the PID of each; two processes may have one after the other
  Mode,         \* how each was called: "headless", "with_ipc" or "plain"
  BindsCustom,  \* the processes called with --ipc-bind, all with the same path
  WantsPidFile, \* the processes called with --ipc-pid-file, all with the same path
  Clients,      \* `arf ipc` processes
  Custom,       \* the path given to --ipc-bind
  Nobody,
  MaxImages     \* bound: process images a process has, one more for each :restart

Pids == {PidOf[p] : p \in Processes}

ASSUME SessionsAssumption ==
  /\ Mode \in [Processes -> {"headless", "with_ipc", "plain"}]
  /\ BindsCustom \subseteq Processes /\ WantsPidFile \subseteq Processes
  /\ \A p \in BindsCustom \cup WantsPidFile : Mode[p] # "plain"  \* main refuses such a call
  /\ Custom \notin Pids
  /\ MaxImages \in Nat \ {0}
  /\ Nobody \notin Processes \X (1..MaxImages)

\* The default path is <dir>/<pid>.sock: a path is the custom one or a PID.
Paths == Pids \cup {Custom}

\* What a file says of its writer: the process and which image of it.
Instances == Processes \X (1..MaxImages)

VARIABLES
  proc,      \* where the main thread of each process is
  image,     \* which image the process runs
  launching, \* the processes whose server is started by the call, not by :ipc start
  path,      \* the socket path of the server each process starts or runs
  madeDir,   \* the processes that created the directory of their socket
  goal,      \* what follows stop_server
  handle,    \* the processes whose SERVER_HANDLE is set
  listening, \* the processes whose listener is open
  atexit,    \* the processes that remove the PID file when they exit
  stale,     \* who was not serving the custom path when the process probed it
  sock,      \* the socket files: who bound each
  dir,       \* the directory of the default paths exists
  file,      \* the session files, by the PID in their names
  pidFile,   \* the PID file: who created it
  halfWritten, \* the PID file is there, but the PID could not be written to it
  client,    \* what each client is doing
  unlisted,  \* history: servers whose session file could not be written
  robbed     \* history: servers whose socket file another process took in a race

procVars  == <<proc, image, launching, path, madeDir, goal>>
serveVars == <<handle, listening, atexit, stale>>
pidVars   == <<pidFile, halfWritten>>
diskVars  == <<sock, dir, file, pidVars>>
histVars  == <<unlisted, robbed>>
vars      == <<procVars, serveVars, diskVars, client, histVars>>

Locations ==
  {"off", "placing", "probing", "removing", "binding", "storing", "writing", "pidfile",
   "ready", "unlinking", "rmdir", "joining", "cleaning", "leaving", "quitting", "left", "gone"}

NoFile == [state |-> "absent"]
TornBy(i) == [state |-> "torn", by |-> i]
Listing(i, s) == [state |-> "listed", by |-> i, path |-> s]
Files ==
  {NoFile} \cup {TornBy(i) : i \in Instances} \cup {Listing(i, s) : i \in Instances, s \in Paths}

Idle == [at |-> "idle", entry |-> NoFile]

TypeOK ==
  /\ proc \in [Processes -> Locations]
  /\ image \in [Processes -> 1..MaxImages]
  /\ path \in [Processes -> Paths]
  /\ goal \in [Processes -> {"ready", "cleaning", "leaving"}]
  /\ launching \in SUBSET Processes /\ madeDir \in SUBSET Processes
  /\ handle \in SUBSET Processes /\ listening \in SUBSET Processes
  /\ atexit \in SUBSET Processes
  /\ stale \in [Processes -> SUBSET Processes]
  /\ sock \in [Paths -> Instances \cup {Nobody}]
  /\ dir \in BOOLEAN
  /\ file \in [Pids -> Files]
  /\ pidFile \in Instances \cup {Nobody} /\ halfWritten \in BOOLEAN
  /\ client \in [Clients -> [at : {"idle", "read", "removing", "resolved"}, entry : Files]]
  /\ unlisted \in SUBSET Processes /\ robbed \in SUBSET Processes

Self(p) == <<p, image[p]>>

Running(p) == proc[p] \notin {"off", "left", "gone"}

\* kill(pid, 0): any process with that PID will do.
Alive(k) == \E p \in Processes : PidOf[p] = k /\ Running(p)

\* A connect to path s succeeds: the socket there is that of an open listener.
Serves(p, s) == p \in listening /\ path[p] = s /\ sock[s] = Self(p)

\* The PID in the name of the file a client holds, and in the file.
EntryPid(c) == PidOf[client[c].entry.by[1]]

Init ==
  /\ proc = [p \in Processes |-> "off"]
  /\ image = [p \in Processes |-> 1]
  /\ path = [p \in Processes |-> PidOf[p]]
  /\ goal = [p \in Processes |-> "ready"]
  /\ launching = {} /\ madeDir = {}
  /\ handle = {} /\ listening = {} /\ atexit = {}
  /\ stale = [p \in Processes |-> {}]
  /\ sock = [s \in Paths |-> Nobody]
  /\ dir = FALSE
  /\ file = [k \in Pids |-> NoFile]
  /\ pidFile = Nobody /\ halfWritten = FALSE
  /\ client = [c \in Clients |-> Idle]
  /\ unlisted = {} /\ robbed = {}

At(p, l) == proc[p] = l

\* Every action of a process moves its main thread.
GoTo(p, l) == proc' = [proc EXCEPT ![p] = l]

-----------------------------------------------------------------------------
(* Starting a server: server::start_server and its callers.                *)

\* A new image starts: the server first when the arguments ask for one.
StartImage(p) ==
  /\ GoTo(p, IF Mode[p] = "plain" THEN "ready" ELSE "placing")
  /\ launching' = IF Mode[p] = "plain" THEN launching ELSE launching \cup {p}
  /\ path' = [path EXCEPT ![p] = IF p \in BindsCustom THEN Custom ELSE PidOf[p]]

\* The system gives a PID to one process at a time, and not within the two calls
\* of a client that has just found it free.
Launch(p) ==
  /\ At(p, "off") /\ ~Alive(PidOf[p])
  /\ \A c \in Clients : client[c].at = "removing" => EntryPid(c) # PidOf[p]
  /\ StartImage(p)
  /\ UNCHANGED <<image, madeDir, goal, serveVars, diskVars, client, histVars>>

\* :ipc start, on the default path.  With the handle set it is refused.
IpcStart(p) ==
  /\ At(p, "ready") /\ Mode[p] # "headless" /\ p \notin handle
  /\ GoTo(p, "placing")
  /\ path' = [path EXCEPT ![p] = PidOf[p]]
  /\ UNCHANGED <<image, launching, madeDir, goal, serveVars, diskVars, client, histVars>>

\* get_socket_path: the directory is made unless it is there.
PlaceSocket(p) ==
  /\ At(p, "placing")
  /\ GoTo(p, "probing")
  /\ IF path[p] = Custom
     THEN madeDir' = madeDir \ {p} /\ UNCHANGED dir
     ELSE /\ madeDir' = IF dir THEN madeDir \ {p} ELSE madeDir \cup {p}
          /\ dir' = TRUE
  /\ UNCHANGED <<image, launching, path, goal, serveVars, sock, file, pidVars, client, histVars>>

\* An error out of start_server: the call ends arf, :ipc start only reports it.
StartFails(p) ==
  /\ GoTo(p, IF p \in launching THEN "left" ELSE "ready")
  /\ launching' = launching \ {p}
  /\ stale' = [stale EXCEPT ![p] = {}]
  /\ UNCHANGED <<image, path, madeDir, goal, handle, listening, atexit, diskVars, client,
                 histVars>>

\* Whatever is at the default path was left by an earlier process of this PID.
ClearDefaultPath(p) ==
  /\ At(p, "probing") /\ path[p] # Custom
  /\ GoTo(p, "binding")
  /\ sock' = [sock EXCEPT ![path[p]] = Nobody]
  /\ UNCHANGED <<image, launching, path, madeDir, goal, serveVars, dir, file, pidVars, client,
                 histVars>>

\* Mutant: a socket file is taken for stale without a connect.
ProbeWithoutConnect(p) ==
  /\ At(p, "probing") /\ path[p] = Custom
  /\ GoTo(p, IF sock[Custom] = Nobody THEN "binding" ELSE "removing")
  /\ stale' = [stale EXCEPT ![p] = {q \in Processes : ~Serves(q, Custom)}]
  /\ UNCHANGED <<image, launching, path, madeDir, goal, handle, listening, atexit, diskVars,
                 client, histVars>>

\* symlink_metadata, then a connect that is refused.
ProbeFindsFree(p) ==
  /\ At(p, "probing") /\ path[p] = Custom
  /\ \A q \in Processes : ~Serves(q, Custom)
  /\ GoTo(p, IF sock[Custom] = Nobody THEN "binding" ELSE "removing")
  /\ stale' = [stale EXCEPT ![p] = {q \in Processes : ~Serves(q, Custom)}]
  /\ UNCHANGED <<image, launching, path, madeDir, goal, handle, listening, atexit, diskVars,
                 client, histVars>>

ProbeFindsServer(p) ==
  /\ At(p, "probing") /\ path[p] = Custom
  /\ \E q \in Processes : Serves(q, Custom)
  /\ StartFails(p)

\* remove_file after the probe takes whatever socket is there by now.
RemoveStaleSocket(p) ==
  /\ At(p, "removing")
  /\ GoTo(p, "binding")
  /\ sock' = [sock EXCEPT ![Custom] = Nobody]
  /\ robbed' = robbed \cup {q \in stale[p] : Serves(q, Custom)}
  /\ stale' = [stale EXCEPT ![p] = {}]
  /\ UNCHANGED <<image, launching, path, madeDir, goal, handle, listening, atexit, dir, file,
                 pidVars, client, unlisted>>

CanBind(p) == sock[path[p]] = Nobody /\ (path[p] # Custom => dir)

\* The server thread binds; start_server waits for its word and keeps the handle.
Bind(p) ==
  /\ At(p, "binding") /\ CanBind(p)
  /\ GoTo(p, "storing")
  /\ sock' = [sock EXCEPT ![path[p]] = Self(p)]
  /\ listening' = listening \cup {p}
  /\ handle' = handle \cup {p}
  /\ stale' = [stale EXCEPT ![p] = {}]
  /\ UNCHANGED <<image, launching, path, madeDir, goal, atexit, dir, file, pidVars, client,
                 histVars>>

BindFails(p) ==
  /\ At(p, "binding") /\ ~CanBind(p)
  /\ StartFails(p)

\* What the caller of start_server does next.
Started(p) ==
  /\ GoTo(p, IF p \in launching \cap WantsPidFile THEN "pidfile" ELSE "ready")
  /\ launching' = IF p \in WantsPidFile THEN launching ELSE launching \ {p}

\* write_session opens the file and truncates it...
TruncateSessionFile(p) ==
  /\ At(p, "storing")
  /\ GoTo(p, "writing")
  /\ file' = [file EXCEPT ![PidOf[p]] = TornBy(Self(p))]
  /\ UNCHANGED <<image, launching, path, madeDir, goal, serveVars, sock, dir, pidVars, client,
                 histVars>>

\* ...and writes it.  A file removed in between is written to no name.
WriteSessionFile(p) ==
  /\ At(p, "writing")
  /\ Started(p)
  /\ file' = IF file[PidOf[p]] = TornBy(Self(p))
             THEN [file EXCEPT ![PidOf[p]] = Listing(Self(p), path[p])]
             ELSE file
  /\ unlisted' = unlisted \ {p}
  /\ UNCHANGED <<image, path, madeDir, goal, serveVars, sock, dir, pidVars, client, robbed>>

\* Either call fails: only a warning, the server goes on.
SessionFileFails(p) ==
  /\ proc[p] \in {"storing", "writing"}
  /\ Started(p)
  /\ unlisted' = unlisted \cup {p}
  /\ UNCHANGED <<image, path, madeDir, goal, serveVars, diskVars, client, robbed>>

\* write_pid_file creates the file, never overwrites one, and writes the PID.
WritePidFile(p) ==
  /\ At(p, "pidfile") /\ pidFile = Nobody
  /\ GoTo(p, "ready")
  /\ launching' = launching \ {p}
  /\ pidFile' = Self(p) /\ halfWritten' = FALSE
  /\ atexit' = atexit \cup {p}
  /\ UNCHANGED <<image, path, madeDir, goal, handle, listening, stale, sock, dir, file, client,
                 histVars>>

-----------------------------------------------------------------------------
(* Stopping a server: server::stop_server.                                 *)

\* The handle is taken and the server thread told to end; without one there is
\* nothing to do.  What comes after is the caller's.
StopServer(p, next) ==
  /\ IF p \in handle
     THEN /\ GoTo(p, "unlinking")
          /\ goal' = [goal EXCEPT ![p] = next]
     ELSE GoTo(p, next) /\ UNCHANGED goal
  /\ handle' = handle \ {p}
  /\ UNCHANGED <<image, path, madeDir, listening, stale, atexit, sock, dir, file, client,
                 histVars>>

\* :ipc stop.
IpcStop(p) ==
  /\ At(p, "ready") /\ Mode[p] # "headless" /\ p \in handle
  /\ StopServer(p, "ready")
  /\ UNCHANGED <<launching, pidVars>>

\* The main loop returned: headless after a signal or a shutdown request, the
\* others when R could not be initialized.
LoopReturns(p) ==
  /\ At(p, "ready")
  /\ StopServer(p, "cleaning")
  /\ UNCHANGED <<launching, pidVars>>

\* Mutant: a call that fails at its PID file leaves its server as it is.
PidFileExistsNoStop(p) ==
  /\ At(p, "pidfile") /\ pidFile # Nobody
  /\ GoTo(p, "leaving")
  /\ launching' = launching \ {p}
  /\ UNCHANGED <<image, path, madeDir, goal, serveVars, diskVars, client, histVars>>

\* The PID file exists: the server is stopped and the call fails.
PidFileExists(p) ==
  /\ At(p, "pidfile") /\ pidFile # Nobody
  /\ StopServer(p, "leaving")
  /\ launching' = launching \ {p}
  /\ UNCHANGED pidVars

\* Its create fails, or its write_all after the create: the server is stopped and the
\* call fails.  Nothing removes the file by then, the handler not being registered yet.
PidFileFails(p) ==
  /\ At(p, "pidfile") /\ pidFile = Nobody
  /\ StopServer(p, "leaving")
  /\ launching' = launching \ {p}
  /\ \/ UNCHANGED pidVars
     \/ pidFile' = Self(p) /\ halfWritten' = TRUE

\* The server thread sees the cancelled token and drops its listener.
ListenerCloses(p) ==
  /\ proc[p] \in {"unlinking", "rmdir", "joining"} /\ p \in listening
  /\ listening' = listening \ {p}
  /\ robbed' = robbed \ {p}
  /\ UNCHANGED <<procVars, handle, atexit, stale, diskVars, client, unlisted>>

\* The socket file goes, whosever it is by now.
UnlinkSocket(p) ==
  /\ At(p, "unlinking")
  /\ GoTo(p, IF p \in madeDir THEN "rmdir" ELSE "joining")
  /\ sock' = [sock EXCEPT ![path[p]] = Nobody]
  /\ robbed' = robbed \cup {q \in Processes \ {p} : Serves(q, path[p])}
  /\ UNCHANGED <<image, launching, path, madeDir, goal, serveVars, dir, file, pidVars, client,
                 unlisted>>

\* The directory this process made goes if no other socket is in it.
RemoveDirectory(p) ==
  /\ At(p, "rmdir")
  /\ GoTo(p, "joining")
  /\ dir' = (dir /\ \E k \in Pids : sock[k] # Nobody)
  /\ madeDir' = madeDir \ {p}
  /\ UNCHANGED <<image, launching, path, goal, serveVars, sock, file, pidVars, client,
                 histVars>>

\* The server thread has ended; remove_session.
JoinServer(p) ==
  /\ At(p, "joining") /\ p \notin listening
  /\ GoTo(p, goal[p])
  /\ path' = [path EXCEPT ![p] = PidOf[p]]
  /\ goal' = [goal EXCEPT ![p] = "ready"]
  /\ file' = [file EXCEPT ![PidOf[p]] = NoFile]
  /\ UNCHANGED <<image, launching, madeDir, serveVars, sock, dir, pidVars, client,
                 histVars>>

-----------------------------------------------------------------------------
(* The end of a process.                                                   *)

\* remove_file takes whatever is at the path of the PID file by now.
PidFileRemoved(b) ==
  /\ pidFile' = IF b THEN Nobody ELSE pidFile
  /\ halfWritten' = (halfWritten /\ ~b)

\* Mutant: cleanup_ipc_pid_file removes the file and leaves the handler armed.
CleanPidFileKeepsHandler(p) ==
  /\ At(p, "cleaning")
  /\ GoTo(p, "leaving")
  /\ PidFileRemoved(p \in WantsPidFile)
  /\ UNCHANGED <<image, launching, path, madeDir, goal, serveVars, sock, dir, file, client,
                 histVars>>

\* cleanup_ipc_pid_file, which disarms the atexit handler afterwards.
CleanPidFile(p) ==
  /\ At(p, "cleaning")
  /\ GoTo(p, "leaving")
  /\ PidFileRemoved(p \in WantsPidFile)
  /\ atexit' = atexit \ {p}
  /\ UNCHANGED <<image, launching, path, madeDir, goal, handle, listening, stale, sock, dir,
                 file, client, histVars>>

\* q(), or the end of input at R's prompt: R calls exit(), nothing of Rust's runs.
Quit(p) ==
  /\ At(p, "ready")
  /\ GoTo(p, "quitting")
  /\ UNCHANGED <<image, launching, path, madeDir, goal, serveVars, diskVars, client, histVars>>

\* The process is gone with its threads, descriptors and handlers.
Ends(p, l) ==
  /\ GoTo(p, l)
  /\ handle' = handle \ {p} /\ listening' = listening \ {p} /\ atexit' = atexit \ {p}
  /\ stale' = [stale EXCEPT ![p] = {}]
  /\ launching' = launching \ {p}
  /\ path' = [path EXCEPT ![p] = PidOf[p]]
  /\ madeDir' = madeDir \ {p}
  /\ goal' = [goal EXCEPT ![p] = "ready"]
  /\ unlisted' = unlisted \ {p} /\ robbed' = robbed \ {p}

\* exit() runs the atexit handler.
Exit(p) ==
  /\ proc[p] \in {"leaving", "quitting"}
  /\ Ends(p, IF At(p, "leaving") THEN "left" ELSE "gone")
  /\ PidFileRemoved(p \in atexit)
  /\ UNCHANGED <<image, sock, dir, file, client>>

\* Killed: not even the handler runs.
Crash(p) ==
  /\ Running(p)
  /\ Ends(p, "gone")
  /\ UNCHANGED <<image, diskVars, client>>

\* :restart or :switch: exec with the same arguments and the same PID.
Restart(p) ==
  /\ At(p, "ready") /\ Mode[p] # "headless" /\ image[p] < MaxImages
  /\ image' = [image EXCEPT ![p] = @ + 1]
  /\ StartImage(p)
  /\ madeDir' = madeDir \ {p}
  /\ handle' = handle \ {p} /\ listening' = listening \ {p} /\ atexit' = atexit \ {p}
  /\ unlisted' = unlisted \ {p} /\ robbed' = robbed \ {p}
  /\ UNCHANGED <<goal, stale, diskVars, client>>

-----------------------------------------------------------------------------
(* Clients: session::list_sessions, one file at a time, and what the       *)
(* client does with the session it picked.                                 *)

\* read_to_string: what is judged, and acted on, is this copy.
ReadEntry(c) ==
  /\ client[c].at = "idle"
  /\ \E k \in Pids :
       /\ file[k] # NoFile
       /\ client' = [client EXCEPT ![c] = [at |-> "read", entry |-> file[k]]]
  /\ UNCHANGED <<procVars, serveVars, diskVars, histVars>>

JudgeTo(c, l) ==
  /\ client' = [client EXCEPT ![c] = IF l = "idle" THEN Idle ELSE [@ EXCEPT !.at = l]]
  /\ UNCHANGED <<procVars, serveVars, diskVars, histVars>>

\* Mutant: every file that cannot be parsed is cleaned up.
TornEntryRemoved(c) ==
  /\ client[c].at = "read" /\ client[c].entry.state = "torn"
  /\ JudgeTo(c, "removing")

\* cleanup_invalid_session_file: a file half written is no JSON and is left alone.
TornEntry(c) ==
  /\ client[c].at = "read" /\ client[c].entry.state = "torn"
  /\ JudgeTo(c, "idle")

LiveEntry(c) ==
  /\ client[c].at = "read" /\ client[c].entry.state = "listed" /\ Alive(EntryPid(c))
  /\ JudgeTo(c, "resolved")

DeadEntry(c) ==
  /\ client[c].at = "read" /\ client[c].entry.state = "listed" /\ ~Alive(EntryPid(c))
  /\ JudgeTo(c, "removing")

RemoveEntry(c) ==
  /\ client[c].at = "removing"
  /\ file' = [file EXCEPT ![EntryPid(c)] = NoFile]
  /\ client' = [client EXCEPT ![c] = Idle]
  /\ UNCHANGED <<procVars, serveVars, sock, dir, pidVars, histVars>>

\* send_request to the socket path of the entry: refused, or answered by who serves it.
Connect(c) ==
  /\ client[c].at = "resolved"
  /\ client' = [client EXCEPT ![c] = Idle]
  /\ UNCHANGED <<procVars, serveVars, diskVars, histVars>>

-----------------------------------------------------------------------------
ProcessNext ==
  \E p \in Processes :
    \/ Launch(p) \/ IpcStart(p) \/ PlaceSocket(p)
    \/ ClearDefaultPath(p) \/ ProbeFindsFree(p) \/ ProbeFindsServer(p)
    \/ RemoveStaleSocket(p) \/ Bind(p) \/ BindFails(p)
    \/ TruncateSessionFile(p) \/ WriteSessionFile(p) \/ SessionFileFails(p)
    \/ WritePidFile(p) \/ PidFileExists(p) \/ PidFileFails(p)
    \/ IpcStop(p) \/ LoopReturns(p) \/ ListenerCloses(p)
    \/ UnlinkSocket(p) \/ RemoveDirectory(p) \/ JoinServer(p)
    \/ CleanPidFile(p) \/ Quit(p) \/ Exit(p) \/ Crash(p) \/ Restart(p)

ClientNext ==
  \E c \in Clients :
    \/ ReadEntry(c) \/ TornEntry(c) \/ LiveEntry(c) \/ DeadEntry(c)
    \/ RemoveEntry(c) \/ Connect(c)

Next == ProcessNext \/ ClientNext

Spec == Init /\ [][Next]_vars

-----------------------------------------------------------------------------
(* Properties.                                                             *)

\* A server that is up is found: the session file under its PID is whole and names
\* its socket, whatever clients clean up and whoever had the PID before, unless the
\* file could not be written (list_sessions and write_session in ipc/session.rs).  And
\* what is listed is served: a whole session file of the image a live process runs
\* means that its server is up or is being stopped.
ServingIsListed ==
  \A p \in handle \ unlisted :
    proc[p] \in {"pidfile", "ready"} => file[PidOf[p]] = Listing(Self(p), path[p])
ListedIsServing ==
  \A p \in Processes :
    /\ proc[p] \in {"ready", "cleaning", "leaving"}
    /\ file[PidOf[p]].state = "listed" /\ file[PidOf[p]].by = Self(p)
    => p \in handle
ListingTellsTruth == ServingIsListed /\ ListedIsServing

\* A client reaches the session it picked, or none: another process answers only
\* when the picked one has stopped serving that path, or lost it in one of the two
\* races (a probe or a stop that began before it was serving).
RightSession ==
  [][\A c \in Clients, q \in Processes :
       LET p == client[c].entry.by[1]
           s == client[c].entry.path
       IN client[c].at = "resolved" /\ client'[c] = Idle /\ Serves(q, s) =>
            q = p \/ p \notin handle \/ path[p] # s \/ p \in robbed]_vars

\* docs/ipc.md: a session that shuts down removes its socket, its PID file and its
\* session file.  So does a start that fails half way, with one exception: a PID file
\* that the process created and then could not write stays, without its PID.
NothingLeftBehind ==
  \A p \in Processes :
    proc[p] = "left" =>
      /\ \A s \in Paths : sock[s] # Self(p)
      /\ pidFile = Self(p) => halfWritten
      /\ file[PidOf[p]].state # "absent" => file[PidOf[p]].by # Self(p)

\* The PID file is removed only by the process that wrote it, although the cleanup
\* and the atexit handler both remove it by its path.
PidFileRemovedByItsWriter ==
  [][pidFile # Nobody /\ pidFile' # pidFile =>
       LET p == pidFile[1] IN /\ proc[p] \in {"cleaning", "leaving", "quitting"}
                              /\ proc'[p] # proc[p]]_vars

\* docs/configuration.md: ":restart" restarts arf.  A session restarted in place is
\* not ended by the PID file that its own earlier image wrote.
RestartComesBack ==
  [][\A p \in Processes : At(p, "pidfile") /\ proc'[p] = "unlinking" =>
                          pidFile = Nobody \/ pidFile[1] # p]_vars
=============================================================================
