-------------------------- MODULE IpcSessionsProofs --------------------------
(***************************************************************************)
(* Proofs about IpcSessions, for any number of processes and clients, any  *)
(* reuse of PIDs and any sharing of paths: what the sessions directory     *)
(* lists is true, a process that ends in order leaves nothing behind, a    *)
(* client gets the session it picked, and the PID file goes with the       *)
(* process that wrote it.                                                  *)
(***************************************************************************)
EXTENDS IpcSessions, TLAPS

USE SessionsAssumption

-----------------------------------------------------------------------------
(* The inductive invariant.                                                *)

\* The system gives a PID to one process at a time.
OneOfEachPid ==
  \A p, q \in Processes : Running(p) /\ Running(q) /\ PidOf[p] = PidOf[q] => p = q

\* Only a custom path is probed, and whoever was not serving it then was noted.
PathInv ==
  \A p \in Processes :
    /\ path[p] \in {Custom, PidOf[p]}
    /\ At(p, "removing") => path[p] = Custom /\ stale[p] = Processes

\* What is on the disk was written by an image that has been started, files under their
\* writer's PID.
Past(i) == proc[i[1]] # "off" /\ i[2] <= image[i[1]]
PastInv ==
  /\ \A s \in Paths : sock[s] # Nobody => Past(sock[s])
  /\ pidFile # Nobody => Past(pidFile)
  /\ \A k \in Pids : file[k] # NoFile => Past(file[k].by) /\ PidOf[file[k].by[1]] = k

\* A process with a handle listens, and its socket file is its own unless it was robbed
\* of it. A socket file is its binder's up to the stop.
Serving == {"storing", "writing", "pidfile", "ready", "quitting"}
SocketInv ==
  /\ \A p \in handle : /\ proc[p] \in Serving /\ p \in listening
                       /\ p \in robbed \/ sock[path[p]] = Self(p)
  /\ \A p \in Processes : proc[p] \in {"storing", "writing", "pidfile"} => p \in handle
  /\ \A s \in Paths, p \in Processes :
       sock[s] = Self(p) => \/ s = path[p] /\ (p \in handle \/ At(p, "unlinking"))
                            \/ At(p, "gone")

\* The session file of the image that runs is there from the start of its server to the
\* end of the stop, and nobody else touches it meanwhile.
FileOf(p) ==
  LET f == file[PidOf[p]]
  IN /\ f # NoFile /\ f.by = Self(p) =>
          p \in handle \/ proc[p] \in {"unlinking", "rmdir", "joining", "gone"}
     /\ At(p, "writing") => f = TornBy(Self(p))
     /\ p \in handle \ unlisted /\ proc[p] \in {"pidfile", "ready", "quitting"} =>
          f = Listing(Self(p), path[p])
FileInv == \A p \in Processes : FileOf(p)

\* A call that wants the PID file has written it when it is past its start, unless it is
\* on its way out for want of it; and what it has written is there until it removes it.
\* Only a file that it could not write stays behind when it ends.
Starting == {"placing", "probing", "removing", "binding", "storing", "writing", "pidfile"}
Stopping == {"unlinking", "rmdir", "joining"}
PidFileOf(p) ==
  /\ p \in launching => proc[p] \in Starting /\ p \notin atexit
  /\ At(p, "pidfile") => p \in launching /\ p \in WantsPidFile
  /\ p \in atexit => p \in WantsPidFile /\ Running(p) /\ pidFile = Self(p)
  /\ pidFile = Self(p) => p \in atexit \/ At(p, "gone") \/ halfWritten
  /\ p \in WantsPidFile \ launching =>
       \/ p \in atexit \/ proc[p] \in {"off", "leaving", "left", "gone"}
       \/ proc[p] \in Stopping /\ goal[p] = "leaving"
PidFileInv == \A p \in Processes : PidFileOf(p)

\* A client cleans up after the dead only.
ClientInv ==
  \A c \in Clients :
    /\ client[c].at = "read" => client[c].entry # NoFile
    /\ client[c].at \in {"removing", "resolved"} => client[c].entry.state = "listed"
    /\ client[c].at = "removing" => ~Alive(EntryPid(c))

SessionsInv ==
  /\ TypeOK /\ OneOfEachPid /\ PathInv /\ PastInv /\ SocketInv /\ FileInv /\ PidFileInv
  /\ ClientInv

-----------------------------------------------------------------------------
(* Types.                                                                  *)

LEMMA Selves ==
  ASSUME TypeOK, NEW p \in Processes
  PROVE  /\ Self(p) \in Instances /\ Self(p) # Nobody
         /\ Self(p)[1] = p /\ Self(p)[2] = image[p]
         /\ \A q \in Processes : Self(q) = Self(p) => q = p
BY DEF TypeOK, Self, Instances

LEMMA FileFacts ==
  /\ NoFile \in Files
  /\ \A i \in Instances : /\ TornBy(i) \in Files /\ TornBy(i) # NoFile
                          /\ TornBy(i).by = i /\ TornBy(i).state = "torn"
  /\ \A i \in Instances, s \in Paths :
       /\ Listing(i, s) \in Files /\ Listing(i, s) # NoFile
       /\ Listing(i, s).by = i /\ Listing(i, s).state = "listed" /\ Listing(i, s).path = s
  /\ \A f \in Files : /\ f # NoFile => f.by \in Instances
                      /\ f.state = "listed" => f # NoFile /\ f.path \in Paths
                      /\ f.state # "absent" <=> f # NoFile
<1>1. NoFile \in Files BY DEF Files
<1>2. ASSUME NEW i \in Instances
      PROVE  /\ TornBy(i) \in Files /\ TornBy(i) # NoFile
             /\ TornBy(i).by = i /\ TornBy(i).state = "torn"
  <2>1. TornBy(i).state = "torn" /\ NoFile.state = "absent" BY DEF TornBy, NoFile
  <2> QED BY <2>1 DEF Files, TornBy
<1>3. ASSUME NEW i \in Instances, NEW s \in Paths
      PROVE  /\ Listing(i, s) \in Files /\ Listing(i, s) # NoFile
             /\ Listing(i, s).by = i /\ Listing(i, s).state = "listed" /\ Listing(i, s).path = s
  <2>1. Listing(i, s).state = "listed" /\ NoFile.state = "absent" BY DEF Listing, NoFile
  <2> QED BY <2>1 DEF Files, Listing
<1>4. ASSUME NEW f \in Files
      PROVE  /\ f # NoFile => f.by \in Instances
             /\ f.state = "listed" => f # NoFile /\ f.path \in Paths
             /\ f.state # "absent" <=> f # NoFile
  <2>1. CASE f = NoFile BY <2>1 DEF NoFile
  <2>2. CASE \E i \in Instances : f = TornBy(i) BY <1>2, <2>2
  <2>3. CASE \E i \in Instances, s \in Paths : f = Listing(i, s) BY <1>3, <2>3
  <2> QED BY <2>1, <2>2, <2>3 DEF Files
<1> QED BY <1>1, <1>2, <1>3, <1>4

LEMMA PathFacts ==
  /\ \A p \in Processes : PidOf[p] \in Pids /\ PidOf[p] \in Paths /\ PidOf[p] # Custom
  /\ Custom \in Paths
BY DEF Pids, Paths

LEMMA TypeInit == Init => TypeOK
<1> SUFFICES ASSUME Init PROVE TypeOK OBVIOUS
<1>1. proc \in [Processes -> Locations] /\ image \in [Processes -> 1..MaxImages]
  BY DEF Init, Locations
<1>2. path \in [Processes -> Paths] BY PathFacts DEF Init
<1>3. file \in [Pids -> Files] BY FileFacts DEF Init
<1>4. client \in [Clients -> [at : {"idle", "read", "removing", "resolved"}, entry : Files]]
  BY FileFacts DEF Init, Idle
<1> QED BY <1>1, <1>2, <1>3, <1>4 DEF Init, TypeOK

LEMMA TypeStep ==
  ASSUME TypeOK, ClientInv, Next
  PROVE  TypeOK'
<1> USE DEF TypeOK
<1>1. ASSUME NEW p \in Processes, Launch(p) \/ Restart(p) PROVE TypeOK'
  <2>1. proc' \in [Processes -> Locations]
    BY <1>1 DEF Launch, Restart, StartImage, GoTo, Locations
  <2>2. path' \in [Processes -> Paths] /\ launching' \in SUBSET Processes
    BY <1>1, PathFacts DEF Launch, Restart, StartImage
  <2>3. image' \in [Processes -> 1..MaxImages]
    BY <1>1 DEF Launch, Restart
  <2> QED BY <1>1, <2>1, <2>2, <2>3 DEF Launch, Restart, serveVars, diskVars, pidVars, histVars
<1>2. ASSUME NEW p \in Processes, IpcStart(p) \/ PlaceSocket(p) PROVE TypeOK'
  <2>1. CASE IpcStart(p)
    BY <2>1, PathFacts DEF IpcStart, GoTo, Locations, serveVars, diskVars, pidVars, histVars
  <2>2. CASE PlaceSocket(p)
    <3>1. dir' \in BOOLEAN /\ madeDir' \in SUBSET Processes BY <2>2 DEF PlaceSocket
    <3> QED BY <2>2, <3>1 DEF pidVars, PlaceSocket, GoTo, Locations, serveVars, histVars
  <2> QED BY <1>2, <2>1, <2>2
<1>3. ASSUME NEW p \in Processes, ClearDefaultPath(p) \/ ProbeFindsFree(p) \/ RemoveStaleSocket(p)
      PROVE  TypeOK'
  BY <1>3, PathFacts DEF ClearDefaultPath, ProbeFindsFree, RemoveStaleSocket, GoTo, Locations,
                         serveVars, diskVars, pidVars, histVars
<1>4. ASSUME NEW p \in Processes, ProbeFindsServer(p) \/ BindFails(p) PROVE TypeOK'
  BY <1>4 DEF ProbeFindsServer, BindFails, StartFails, GoTo, Locations, diskVars, pidVars, histVars
<1>5. ASSUME NEW p \in Processes, Bind(p) PROVE TypeOK'
  BY <1>5, Selves DEF pidVars, Bind, GoTo, Locations, histVars
<1>6. ASSUME NEW p \in Processes, TruncateSessionFile(p) PROVE TypeOK'
  <2>1. file' \in [Pids -> Files] BY <1>6, Selves, FileFacts, PathFacts DEF TruncateSessionFile
  <2> QED BY <1>6, <2>1 DEF pidVars, TruncateSessionFile, GoTo, Locations, serveVars, histVars
<1>7. ASSUME NEW p \in Processes, WriteSessionFile(p) PROVE TypeOK'
  <2>1. Listing(Self(p), path[p]) \in Files BY Selves, FileFacts
  <2>2. file' \in [Pids -> Files] BY <1>7, <2>1, PathFacts DEF WriteSessionFile
  <2> QED BY <1>7, <2>2 DEF pidVars, WriteSessionFile, Started, GoTo, Locations, serveVars
<1>8. ASSUME NEW p \in Processes, SessionFileFails(p) PROVE TypeOK'
  BY <1>8 DEF SessionFileFails, Started, GoTo, Locations, serveVars, diskVars, pidVars
<1>9. ASSUME NEW p \in Processes, WritePidFile(p) PROVE TypeOK'
  BY <1>9, Selves DEF WritePidFile, GoTo, Locations, histVars
<1>10. ASSUME NEW p \in Processes, NEW next \in {"ready", "cleaning", "leaving"},
              StopServer(p, next), launching' \in SUBSET Processes,
              pidFile' \in Instances \cup {Nobody}, halfWritten' \in BOOLEAN
       PROVE  TypeOK'
  <2>1. proc' \in [Processes -> Locations]
    <3>1. next \in Locations /\ "unlinking" \in Locations BY DEF Locations
    <3>2. \E l \in Locations : GoTo(p, l) BY <1>10, <3>1 DEF StopServer
    <3> QED BY <3>2 DEF GoTo
  <2>4. handle' \in SUBSET Processes /\ goal' \in [Processes -> {"ready", "cleaning", "leaving"}]
    BY <1>10 DEF StopServer
  <2>2. /\ UNCHANGED <<image, path, madeDir, listening, stale, atexit, sock, file, client, unlisted,
                       robbed>>
        /\ dir' = dir
    BY <1>10 DEF StopServer, histVars
  <2>3. dir' \in BOOLEAN BY <2>2
  <2> QED BY <1>10, <2>1, <2>2, <2>3, <2>4
<1>11. ASSUME NEW p \in Processes,
              IpcStop(p) \/ LoopReturns(p) \/ PidFileExists(p) \/ PidFileFails(p)
       PROVE  TypeOK'
  <2>1. launching' \in SUBSET Processes
    BY <1>11 DEF IpcStop, LoopReturns, PidFileExists, PidFileFails
  <2>2. pidFile' \in Instances \cup {Nobody}
    BY <1>11, Selves DEF IpcStop, LoopReturns, PidFileExists, PidFileFails, pidVars
  <2>3. halfWritten' \in BOOLEAN
    BY <1>11 DEF IpcStop, LoopReturns, PidFileExists, PidFileFails, pidVars
  <2>4. \E next \in {"ready", "cleaning", "leaving"} : StopServer(p, next)
    BY <1>11 DEF IpcStop, LoopReturns, PidFileExists, PidFileFails
  <2> HIDE DEF TypeOK
  <2> QED BY <1>10, <2>1, <2>2, <2>3, <2>4
<1>12. ASSUME NEW p \in Processes, ListenerCloses(p) \/ UnlinkSocket(p) \/ RemoveDirectory(p)
       PROVE  TypeOK'
  <2>1. CASE ListenerCloses(p)
    BY <2>1 DEF ListenerCloses, procVars, diskVars, pidVars
  <2>2. CASE UnlinkSocket(p)
    BY <2>2 DEF pidVars, UnlinkSocket, GoTo, Locations, serveVars
  <2>3. CASE RemoveDirectory(p)
    <3>1. dir' \in BOOLEAN BY <2>3 DEF RemoveDirectory
    <3> QED BY <2>3, <3>1 DEF pidVars, RemoveDirectory, GoTo, Locations, serveVars, histVars
  <2> QED BY <1>12, <2>1, <2>2, <2>3
<1>13. ASSUME NEW p \in Processes, JoinServer(p) PROVE TypeOK'
  BY <1>13, PathFacts, FileFacts DEF pidVars, JoinServer, GoTo, Locations, serveVars, histVars
<1>14. ASSUME NEW p \in Processes, CleanPidFile(p) \/ Quit(p) PROVE TypeOK'
  <2>1. halfWritten' \in BOOLEAN
    BY <1>14 DEF CleanPidFile, PidFileRemoved, Quit, diskVars, pidVars
  <2>2. pidFile' \in Instances \cup {Nobody}
    BY <1>14 DEF CleanPidFile, PidFileRemoved, Quit, diskVars, pidVars
  <2>3. dir' \in BOOLEAN BY <1>14 DEF CleanPidFile, Quit, diskVars
  <2> QED
    BY <1>14, <2>1, <2>2, <2>3 DEF CleanPidFile, Quit, GoTo, Locations, serveVars, diskVars,
                                   histVars
<1>15. ASSUME NEW p \in Processes, Exit(p) \/ Crash(p) PROVE TypeOK'
  <2>1. PICK l \in {"left", "gone"} : Ends(p, l) BY <1>15 DEF Exit, Crash
  <2>2. /\ proc' \in [Processes -> Locations]
        /\ path' \in [Processes -> Paths]
        /\ goal' \in [Processes -> {"ready", "cleaning", "leaving"}]
        /\ stale' \in [Processes -> SUBSET Processes]
    BY <2>1, PathFacts DEF Ends, GoTo, Locations
  <2>3. /\ handle' \in SUBSET Processes /\ listening' \in SUBSET Processes
        /\ atexit' \in SUBSET Processes /\ launching' \in SUBSET Processes
        /\ madeDir' \in SUBSET Processes /\ unlisted' \in SUBSET Processes
        /\ robbed' \in SUBSET Processes
    BY <2>1 DEF Ends
  <2>4. /\ UNCHANGED <<image, sock, dir, file, client>>
        /\ pidFile' \in {pidFile, Nobody} /\ halfWritten' \in BOOLEAN
    BY <1>15 DEF Exit, Crash, PidFileRemoved, diskVars, pidVars
  <2> QED BY <2>2, <2>3, <2>4
<1>16. ASSUME NEW c \in Clients,
              \/ ReadEntry(c) \/ TornEntry(c) \/ LiveEntry(c) \/ DeadEntry(c) \/ Connect(c)
       PROVE  TypeOK'
  <2>1. client' \in [Clients -> [at : {"idle", "read", "removing", "resolved"}, entry : Files]]
    <3>1. Idle \in [at : {"idle", "read", "removing", "resolved"}, entry : Files]
      BY FileFacts DEF Idle
    <3>2. CASE ReadEntry(c) BY <3>2 DEF ReadEntry
    <3>3. CASE TornEntry(c) \/ Connect(c) BY <3>1, <3>3 DEF TornEntry, Connect, JudgeTo
    <3>4. ASSUME NEW l \in {"resolved", "removing"}, JudgeTo(c, l)
          PROVE  client' \in [Clients -> [at : {"idle", "read", "removing", "resolved"},
                                          entry : Files]]
      <4>1. client' = [client EXCEPT ![c] = [@ EXCEPT !.at = l]] BY <3>4 DEF JudgeTo
      <4>2. [client[c] EXCEPT !.at = l]
              \in [at : {"idle", "read", "removing", "resolved"}, entry : Files]
        OBVIOUS
      <4> QED BY <4>1, <4>2
    <3>5. CASE LiveEntry(c) \/ DeadEntry(c) BY <3>4, <3>5 DEF LiveEntry, DeadEntry
    <3> QED BY <1>16, <3>2, <3>3, <3>5
  <2> QED BY <1>16, <2>1 DEF ReadEntry, TornEntry, LiveEntry, DeadEntry, JudgeTo, Connect,
                             procVars, serveVars, diskVars, pidVars, histVars
<1>17. ASSUME NEW c \in Clients, RemoveEntry(c) PROVE TypeOK'
  <2>1. file' \in [Pids -> Files] BY <1>17, FileFacts DEF RemoveEntry
  <2>2. client' \in [Clients -> [at : {"idle", "read", "removing", "resolved"}, entry : Files]]
    BY <1>17, FileFacts DEF RemoveEntry, Idle
  <2> QED BY <1>17, <2>1, <2>2 DEF pidVars, RemoveEntry, procVars, serveVars, histVars
<1> QED
  BY <1>1, <1>2, <1>3, <1>4, <1>5, <1>6, <1>7, <1>8, <1>9, <1>11, <1>12, <1>13, <1>14, <1>15,
     <1>16, <1>17 DEF Next, ProcessNext, ClientNext

-----------------------------------------------------------------------------
(* A process moves alone.                                                  *)

StepOf(p) ==
  \/ Launch(p) \/ IpcStart(p) \/ PlaceSocket(p)
  \/ ClearDefaultPath(p) \/ ProbeFindsFree(p) \/ ProbeFindsServer(p)
  \/ RemoveStaleSocket(p) \/ Bind(p) \/ BindFails(p)
  \/ TruncateSessionFile(p) \/ WriteSessionFile(p) \/ SessionFileFails(p)
  \/ WritePidFile(p) \/ PidFileExists(p) \/ PidFileFails(p)
  \/ IpcStop(p) \/ LoopReturns(p) \/ ListenerCloses(p)
  \/ UnlinkSocket(p) \/ RemoveDirectory(p) \/ JoinServer(p)
  \/ CleanPidFile(p) \/ Quit(p) \/ Exit(p) \/ Crash(p) \/ Restart(p)

\* What belongs to the other processes stays; they share the disk, and may be robbed.
Alone(p) ==
  \A q \in Processes \ {p} :
    /\ proc'[q] = proc[q] /\ image'[q] = image[q] /\ path'[q] = path[q] /\ goal'[q] = goal[q]
    /\ stale'[q] = stale[q]
    /\ q \in launching' <=> q \in launching
    /\ q \in handle' <=> q \in handle
    /\ q \in listening' <=> q \in listening
    /\ q \in atexit' <=> q \in atexit
    /\ q \in unlisted' <=> q \in unlisted

LEMMA MovesAlone ==
  ASSUME TypeOK, NEW p \in Processes, StepOf(p)
  PROVE  Alone(p)
<1> USE DEF TypeOK, Alone
<1>1. CASE Launch(p) \/ Restart(p)
  BY <1>1 DEF Launch, Restart, StartImage, GoTo, serveVars, histVars
<1>2. CASE IpcStart(p) \/ PlaceSocket(p)
  BY <1>2 DEF IpcStart, PlaceSocket, GoTo, serveVars, histVars
<1>3. CASE ClearDefaultPath(p) \/ ProbeFindsFree(p) \/ RemoveStaleSocket(p)
  BY <1>3 DEF ClearDefaultPath, ProbeFindsFree, RemoveStaleSocket, GoTo, serveVars, histVars
<1>4. CASE ProbeFindsServer(p) \/ BindFails(p)
  BY <1>4 DEF ProbeFindsServer, BindFails, StartFails, GoTo, histVars
<1>5. CASE Bind(p) \/ TruncateSessionFile(p)
  BY <1>5 DEF Bind, TruncateSessionFile, GoTo, serveVars, histVars
<1>6. CASE WriteSessionFile(p) \/ SessionFileFails(p)
  BY <1>6 DEF WriteSessionFile, SessionFileFails, Started, GoTo, serveVars
<1>7. CASE WritePidFile(p)
  BY <1>7 DEF WritePidFile, GoTo, histVars
<1>8. CASE IpcStop(p) \/ LoopReturns(p) \/ PidFileExists(p) \/ PidFileFails(p)
  <2>1. \E next \in {"ready", "cleaning", "leaving"} : StopServer(p, next)
    BY <1>8 DEF IpcStop, LoopReturns, PidFileExists, PidFileFails
  <2>2. launching' \in {launching, launching \ {p}}
    BY <1>8 DEF IpcStop, LoopReturns, PidFileExists, PidFileFails
  <2> QED BY <2>1, <2>2 DEF StopServer, GoTo, histVars
<1>9. CASE ListenerCloses(p) \/ UnlinkSocket(p) \/ RemoveDirectory(p) \/ JoinServer(p)
  BY <1>9 DEF ListenerCloses, UnlinkSocket, RemoveDirectory, JoinServer, GoTo, procVars, serveVars,
              histVars
<1>10. CASE CleanPidFile(p) \/ Quit(p)
  BY <1>10 DEF CleanPidFile, Quit, GoTo, serveVars, histVars
<1>11. CASE Exit(p) \/ Crash(p)
  <2>1. \E l \in {"left", "gone"} : Ends(p, l) BY <1>11 DEF Exit, Crash
  <2>2. image' = image BY <1>11 DEF Exit, Crash
  <2> QED BY <2>1, <2>2 DEF Ends, GoTo
<1> QED BY <1>1, <1>2, <1>3, <1>4, <1>5, <1>6, <1>7, <1>8, <1>9, <1>10, <1>11 DEF StepOf

LEMMA ClientMoves ==
  ASSUME TypeOK, ClientNext
  PROVE  /\ UNCHANGED <<procVars, serveVars, histVars, sock, dir, pidVars>>
         /\ \/ UNCHANGED file
            \/ \E c \in Clients : /\ client[c].at = "removing"
                                  /\ file' = [file EXCEPT ![EntryPid(c)] = NoFile]
BY DEF ClientNext, ReadEntry, TornEntry, LiveEntry, DeadEntry, JudgeTo, Connect, RemoveEntry,
       procVars, serveVars, histVars, diskVars, pidVars

LEMMA NextSteps == Next <=> ClientNext \/ \E p \in Processes : StepOf(p)
BY DEF Next, ProcessNext, StepOf

\* Where a step starts and where it leads to.
LEMMA Goes ==
  ASSUME TypeOK, NEW p \in Processes
  PROVE  /\ Launch(p) => At(p, "off") /\ proc'[p] \in {"ready", "placing"}
         /\ Restart(p) => At(p, "ready") /\ proc'[p] \in {"ready", "placing"}
         /\ IpcStart(p) => At(p, "ready") /\ proc'[p] = "placing"
         /\ PlaceSocket(p) => At(p, "placing") /\ proc'[p] = "probing"
         /\ ClearDefaultPath(p) => At(p, "probing") /\ proc'[p] = "binding"
         /\ ProbeFindsFree(p) => At(p, "probing") /\ proc'[p] \in {"binding", "removing"}
         /\ RemoveStaleSocket(p) => At(p, "removing") /\ proc'[p] = "binding"
         /\ Bind(p) => At(p, "binding") /\ proc'[p] = "storing"
         /\ ProbeFindsServer(p) => At(p, "probing") /\ proc'[p] \in {"left", "ready"}
         /\ BindFails(p) => At(p, "binding") /\ proc'[p] \in {"left", "ready"}
         /\ TruncateSessionFile(p) => At(p, "storing") /\ proc'[p] = "writing"
         /\ WriteSessionFile(p) => At(p, "writing") /\ proc'[p] \in {"pidfile", "ready"}
         /\ SessionFileFails(p) =>
              proc[p] \in {"storing", "writing"} /\ proc'[p] \in {"pidfile", "ready"}
         /\ WritePidFile(p) => At(p, "pidfile") /\ proc'[p] = "ready"
         /\ PidFileExists(p) \/ PidFileFails(p) =>
              At(p, "pidfile") /\ proc'[p] \in {"unlinking", "leaving"}
         /\ IpcStop(p) => At(p, "ready") /\ proc'[p] = "unlinking"
         /\ LoopReturns(p) => At(p, "ready") /\ proc'[p] \in {"unlinking", "cleaning"}
         /\ ListenerCloses(p) => proc[p] \in Stopping /\ proc' = proc
         /\ UnlinkSocket(p) => At(p, "unlinking") /\ proc'[p] \in {"rmdir", "joining"}
         /\ RemoveDirectory(p) => At(p, "rmdir") /\ proc'[p] = "joining"
         /\ JoinServer(p) => At(p, "joining") /\ proc'[p] = goal[p]
         /\ CleanPidFile(p) => At(p, "cleaning") /\ proc'[p] = "leaving"
         /\ Quit(p) => At(p, "ready") /\ proc'[p] = "quitting"
         /\ Exit(p) => \/ At(p, "leaving") /\ proc'[p] = "left"
                       \/ At(p, "quitting") /\ proc'[p] = "gone"
         /\ Crash(p) => Running(p) /\ proc'[p] = "gone"
<1> USE DEF TypeOK, At, GoTo
<1>1. /\ Launch(p) => At(p, "off") /\ proc'[p] \in {"ready", "placing"}
      /\ Restart(p) => At(p, "ready") /\ proc'[p] \in {"ready", "placing"}
      /\ IpcStart(p) => At(p, "ready") /\ proc'[p] = "placing"
      /\ PlaceSocket(p) => At(p, "placing") /\ proc'[p] = "probing"
  BY DEF Launch, Restart, StartImage, IpcStart, PlaceSocket
<1>2. /\ ClearDefaultPath(p) => At(p, "probing") /\ proc'[p] = "binding"
      /\ ProbeFindsFree(p) => At(p, "probing") /\ proc'[p] \in {"binding", "removing"}
      /\ RemoveStaleSocket(p) => At(p, "removing") /\ proc'[p] = "binding"
      /\ Bind(p) => At(p, "binding") /\ proc'[p] = "storing"
      /\ ProbeFindsServer(p) => At(p, "probing") /\ proc'[p] \in {"left", "ready"}
      /\ BindFails(p) => At(p, "binding") /\ proc'[p] \in {"left", "ready"}
  BY DEF ClearDefaultPath, ProbeFindsFree, RemoveStaleSocket, Bind, ProbeFindsServer, BindFails,
         StartFails
<1>3. /\ TruncateSessionFile(p) => At(p, "storing") /\ proc'[p] = "writing"
      /\ WriteSessionFile(p) => At(p, "writing") /\ proc'[p] \in {"pidfile", "ready"}
      /\ SessionFileFails(p) =>
           proc[p] \in {"storing", "writing"} /\ proc'[p] \in {"pidfile", "ready"}
      /\ WritePidFile(p) => At(p, "pidfile") /\ proc'[p] = "ready"
  BY DEF TruncateSessionFile, WriteSessionFile, SessionFileFails, Started, WritePidFile
<1>4. /\ PidFileExists(p) \/ PidFileFails(p) =>
           At(p, "pidfile") /\ proc'[p] \in {"unlinking", "leaving"}
      /\ IpcStop(p) => At(p, "ready") /\ proc'[p] = "unlinking"
      /\ LoopReturns(p) => At(p, "ready") /\ proc'[p] \in {"unlinking", "cleaning"}
  BY DEF PidFileExists, PidFileFails, IpcStop, LoopReturns, StopServer
<1>5. /\ ListenerCloses(p) => proc[p] \in Stopping /\ proc' = proc
      /\ UnlinkSocket(p) => At(p, "unlinking") /\ proc'[p] \in {"rmdir", "joining"}
      /\ RemoveDirectory(p) => At(p, "rmdir") /\ proc'[p] = "joining"
      /\ JoinServer(p) => At(p, "joining") /\ proc'[p] = goal[p]
  BY DEF ListenerCloses, Stopping, procVars, UnlinkSocket, RemoveDirectory, JoinServer
<1>6. /\ CleanPidFile(p) => At(p, "cleaning") /\ proc'[p] = "leaving"
      /\ Quit(p) => At(p, "ready") /\ proc'[p] = "quitting"
      /\ Exit(p) => \/ At(p, "leaving") /\ proc'[p] = "left"
                    \/ At(p, "quitting") /\ proc'[p] = "gone"
      /\ Crash(p) => Running(p) /\ proc'[p] = "gone"
  BY DEF CleanPidFile, Quit, Exit, Crash, Ends
<1> QED BY <1>1, <1>2, <1>3, <1>4, <1>5, <1>6

-----------------------------------------------------------------------------
(* One process of each PID runs, and what is on the disk is of the past.   *)

LEMMA RunsOn ==
  ASSUME TypeOK, NEW p \in Processes, StepOf(p)
  PROVE  /\ \A q \in Processes \ {p} : Running(q)' <=> Running(q)
         /\ Running(p)' => Running(p) \/ Launch(p)
         /\ proc'[p] # "off" /\ image'[p] >= image[p]
         /\ image'[p] # image[p] => Restart(p)
<1>1. \A q \in Processes \ {p} : Running(q)' <=> Running(q)
  BY MovesAlone DEF Alone, Running
<1>2. Launch(p) \/ Running(p)
  BY Goes DEF StepOf, At, Running, Stopping
<1>3. proc'[p] # "off"
  <2>1. proc'[p] \in Locations \ {"off"} \/ proc'[p] = proc[p] \/ proc'[p] = goal[p]
    BY Goes DEF StepOf, Stopping, Locations
  <2>2. proc'[p] = proc[p] => ListenerCloses(p) \/ proc'[p] # "off"
    BY Goes DEF StepOf, At, Running, Stopping
  <2>3. ListenerCloses(p) => proc'[p] # "off" BY Goes DEF Stopping
  <2> QED BY <2>1, <2>2, <2>3 DEF TypeOK
<1>4. image'[p] >= image[p] /\ (image'[p] # image[p] => Restart(p))
  <2>1. CASE Restart(p) BY <2>1 DEF Restart, TypeOK
  <2>2. CASE ~Restart(p)
    <3>1. image' = image
      BY <2>2 DEF StepOf, Launch, IpcStart, PlaceSocket, ClearDefaultPath, ProbeFindsFree,
         ProbeFindsServer, RemoveStaleSocket, Bind, BindFails, StartFails, TruncateSessionFile,
         WriteSessionFile, SessionFileFails, WritePidFile, PidFileExists, PidFileFails, IpcStop, LoopReturns,
         StopServer, ListenerCloses, UnlinkSocket, RemoveDirectory, JoinServer, CleanPidFile, Quit,
         Exit, Crash, procVars
    <3> QED BY <3>1 DEF TypeOK
  <2> QED BY <2>1, <2>2
<1> QED BY <1>1, <1>2, <1>3, <1>4

LEMMA OneOfEachPidStep ==
  ASSUME TypeOK, OneOfEachPid, Next
  PROVE  OneOfEachPid'
<1>1. CASE ClientNext
  BY <1>1, ClientMoves DEF OneOfEachPid, Running, procVars
<1>2. ASSUME NEW p \in Processes, StepOf(p) PROVE OneOfEachPid'
  <2> SUFFICES ASSUME NEW q \in Processes, NEW r \in Processes, Running(q)', Running(r)',
                      PidOf[q] = PidOf[r]
               PROVE  q = r
    BY DEF OneOfEachPid
  <2>1. CASE Launch(p)
    <3>1. ~Alive(PidOf[p]) BY <2>1 DEF Launch
    <3> QED BY <1>2, <2>1, <3>1, RunsOn DEF OneOfEachPid, Alive
  <2>2. CASE ~Launch(p)
    BY <1>2, <2>2, RunsOn DEF OneOfEachPid
  <2> QED BY <2>1, <2>2
<1> QED BY <1>1, <1>2, NextSteps

\* Only what a process writes of itself is new on the disk.
DiskBy(p) ==
  /\ \A s \in Paths : sock'[s] \in {sock[s], Nobody, Self(p)}
  /\ pidFile' \in {pidFile, Nobody, Self(p)}
  /\ \A k \in Pids : \/ file'[k] = file[k] \/ file'[k] = NoFile
                     \/ k = PidOf[p] /\ file'[k] \in {TornBy(Self(p)), Listing(Self(p), path[p])}

LEMMA DiskStep ==
  ASSUME TypeOK, NEW p \in Processes, StepOf(p)
  PROVE  DiskBy(p)
<1> USE PathFacts DEF TypeOK, DiskBy
<1>1. CASE UNCHANGED diskVars BY <1>1 DEF diskVars, pidVars
<1>2. CASE PlaceSocket(p) \/ RemoveDirectory(p)
  BY <1>2 DEF pidVars, PlaceSocket, RemoveDirectory
<1>3. CASE ClearDefaultPath(p) \/ RemoveStaleSocket(p) \/ Bind(p) \/ UnlinkSocket(p)
  BY <1>3 DEF pidVars, ClearDefaultPath, RemoveStaleSocket, Bind, UnlinkSocket
<1>4. CASE TruncateSessionFile(p) \/ WriteSessionFile(p) \/ JoinServer(p)
  BY <1>4 DEF pidVars, TruncateSessionFile, WriteSessionFile, JoinServer
<1>5. CASE WritePidFile(p) \/ PidFileFails(p) \/ CleanPidFile(p) \/ Exit(p)
  BY <1>5 DEF WritePidFile, PidFileFails, StopServer, CleanPidFile, Exit, PidFileRemoved, pidVars
<1>6. PidFileExists(p) \/ IpcStop(p) \/ LoopReturns(p) => UNCHANGED diskVars
  BY DEF PidFileExists, IpcStop, LoopReturns, StopServer, diskVars
<1> QED
  BY <1>1, <1>2, <1>3, <1>4, <1>5, <1>6 DEF StepOf, Launch, IpcStart, ProbeFindsFree,
     ProbeFindsServer, BindFails, StartFails, SessionFileFails, ListenerCloses, Quit, Crash, Restart

LEMMA PastStep ==
  ASSUME TypeOK, PastInv, Next
  PROVE  PastInv'
<1>1. CASE ClientNext
  <2>1. UNCHANGED <<proc, image, sock, pidFile>> BY <1>1, ClientMoves DEF procVars, pidVars
  <2>2. \A k \in Pids : file'[k] = file[k] \/ file'[k] = NoFile
    BY <1>1, ClientMoves DEF TypeOK
  <2>3. \A i : Past(i)' <=> Past(i) BY <2>1 DEF Past
  <2> QED BY <2>1, <2>2, <2>3 DEF PastInv
<1>2. ASSUME NEW p \in Processes, StepOf(p) PROVE PastInv'
  <2>1. DiskBy(p) BY <1>2, DiskStep
  <2> DEFINE Written(i) == proc'[i[1]] # "off" /\ i[2] <= image'[i[1]]
  <2>2. \A i \in Instances : Past(i) => Written(i)
    <3>1. \A q \in Processes \ {p} : proc'[q] = proc[q] /\ image'[q] = image[q]
      BY <1>2, MovesAlone DEF Alone
    <3>2. proc'[p] # "off" /\ image'[p] >= image[p] BY <1>2, RunsOn
    <3>3. \A q \in Processes : image[q] \in Nat /\ image'[q] \in Nat
      BY <3>1, <1>2, RunsOn DEF TypeOK, Restart
    <3> QED BY <3>1, <3>2, <3>3 DEF Past, Instances
  <2>3. Self(p) \in Instances /\ Written(Self(p))
    <3>1. proc'[p] # "off" /\ image'[p] >= image[p] BY <1>2, RunsOn
    <3>2. image[p] \in Nat /\ image'[p] \in Nat BY <1>2, RunsOn DEF TypeOK, Restart
    <3> QED BY <3>1, <3>2, Selves
  <2> HIDE DEF Written
  <2>4. \A s \in Paths : sock'[s] # Nobody => Written(sock'[s])
    BY <2>1, <2>2, <2>3 DEF DiskBy, PastInv, TypeOK
  <2>5. pidFile' # Nobody => Written(pidFile')
    BY <2>1, <2>2, <2>3 DEF DiskBy, PastInv, TypeOK
  <2>6. ASSUME NEW k \in Pids, file'[k] # NoFile
        PROVE  Written(file'[k].by) /\ PidOf[file'[k].by[1]] = k
    <3>1. CASE file'[k] = file[k]
      <4>1. file[k] \in Files BY DEF TypeOK
      <4> QED BY <2>2, <2>6, <3>1, <4>1, FileFacts DEF PastInv
    <3>2. CASE k = PidOf[p] /\ file'[k] \in {TornBy(Self(p)), Listing(Self(p), path[p])}
      <4>1. file'[k].by = Self(p) BY <3>2, Selves, FileFacts DEF TypeOK
      <4> QED BY <2>3, <3>2, <4>1, Selves
    <3> QED BY <2>1, <2>6, <3>1, <3>2 DEF DiskBy
  <2>7. /\ \A s \in Paths : sock'[s] # Nobody => Past(sock[s])'
        /\ pidFile' # Nobody => Past(pidFile)'
        /\ \A k \in Pids : file'[k] # NoFile => Past(file[k].by)' /\ PidOf[file'[k].by[1]] = k
    BY <2>4, <2>5, <2>6 DEF Past, Written
  <2> QED BY <2>7 DEF PastInv
<1> QED BY <1>1, <1>2, NextSteps

-----------------------------------------------------------------------------
(* Sockets.                                                                *)

LEMMA PathStep ==
  ASSUME TypeOK, PathInv, Next
  PROVE  PathInv'
<1>1. CASE ClientNext
  BY <1>1, ClientMoves DEF PathInv, At, procVars, serveVars
<1>2. ASSUME NEW p \in Processes, StepOf(p) PROVE PathInv'
  <2>1. ASSUME NEW q \in Processes \ {p}
        PROVE  /\ path'[q] \in {Custom, PidOf[q]}
               /\ proc'[q] = "removing" => path'[q] = Custom /\ stale'[q] = Processes
    BY <1>2, <2>1, MovesAlone DEF Alone, PathInv, At
  <2>2. path'[p] \in {Custom, PidOf[p]}
    <3>1. path' = path \/ path'[p] \in {Custom, PidOf[p]}
      BY <1>2 DEF TypeOK, StepOf, Launch, IpcStart, PlaceSocket, ClearDefaultPath, ProbeFindsFree,
         ProbeFindsServer, RemoveStaleSocket, Bind, BindFails, StartFails, TruncateSessionFile,
         WriteSessionFile, SessionFileFails, WritePidFile, PidFileExists, PidFileFails, IpcStop, LoopReturns,
         StopServer, ListenerCloses, UnlinkSocket, RemoveDirectory, JoinServer, CleanPidFile, Quit,
         Exit, Crash, Restart, StartImage, Ends, procVars
    <3> QED BY <3>1 DEF PathInv
  <2>3. ASSUME proc'[p] = "removing" PROVE path'[p] = Custom /\ stale'[p] = Processes
    <3>1. ProbeFindsFree(p)
      BY <1>2, <2>3, Goes DEF StepOf, Stopping, TypeOK, At
    <3> QED BY <3>1 DEF ProbeFindsFree, TypeOK
  <2> QED BY <2>1, <2>2, <2>3 DEF PathInv, At
<1> QED BY <1>1, <1>2, NextSteps

\* What SocketInv says of one process
SocketOf(p) ==
  /\ p \in handle => /\ proc[p] \in Serving /\ p \in listening
                     /\ p \in robbed \/ sock[path[p]] = Self(p)
  /\ proc[p] \in {"storing", "writing", "pidfile"} => p \in handle
  /\ \A s \in Paths : sock[s] = Self(p) => \/ s = path[p] /\ (p \in handle \/ At(p, "unlinking"))
                                           \/ At(p, "gone")

LEMMA SocketParts == TypeOK => (SocketInv <=> \A p \in Processes : SocketOf(p))
BY DEF SocketInv, SocketOf, TypeOK

\* The others keep their sockets, or have been robbed.
LEMMA OthersSockets ==
  ASSUME TypeOK, OneOfEachPid, PathInv, SocketInv, NEW p \in Processes, StepOf(p),
         NEW q \in Processes \ {p}
  PROVE  SocketOf(q)'
<1>1. /\ proc'[q] = proc[q] /\ image'[q] = image[q] /\ path'[q] = path[q]
      /\ q \in handle' <=> q \in handle
      /\ q \in listening' <=> q \in listening
  BY MovesAlone DEF Alone
<1>2. Self(q)' = Self(q) /\ Self(q) # Self(p) /\ Self(q) # Nobody
  BY <1>1, Selves DEF Self
<1>3. SocketOf(q) BY SocketParts
<1>4. \A s \in Paths : sock'[s] = Self(q) => sock[s] = Self(q)
  BY <1>2, DiskStep DEF DiskBy
<1>5. ASSUME q \in handle PROVE q \in robbed' \/ sock'[path[q]] = Self(q)
  <2>1. path[q] \in Paths /\ path[p] \in Paths BY DEF TypeOK
  <2>2. q \in robbed \/ sock[path[q]] = Self(q) BY <1>3, <1>5 DEF SocketOf
  <2>3. q \in listening /\ Running(q) BY <1>3, <1>5 DEF SocketOf, Serving, Running
  <2>4. CASE ClearDefaultPath(p)
    <3>1. path[p] = PidOf[p] /\ Running(p) /\ robbed' = robbed
          /\ sock' = [sock EXCEPT ![path[p]] = Nobody]
      BY <2>4 DEF ClearDefaultPath, PathInv, At, Running, histVars
    <3>2. path[q] # path[p]
      BY <2>3, <3>1, PathFacts DEF PathInv, OneOfEachPid
    <3> QED BY <2>1, <2>2, <3>1, <3>2 DEF TypeOK
  <2>5. CASE RemoveStaleSocket(p)
    <3>1. stale[p] = Processes BY <2>5 DEF RemoveStaleSocket, PathInv
    <3>2. Serves(q, Custom) => q \in robbed' BY <2>5, <3>1 DEF RemoveStaleSocket
    <3>3. robbed \subseteq robbed' /\ \A s \in Paths : s # Custom => sock'[s] = sock[s]
      BY <2>5 DEF RemoveStaleSocket, TypeOK
    <3> QED BY <2>1, <2>2, <2>3, <3>2, <3>3 DEF Serves
  <2>6. CASE Bind(p)
    <3>1. /\ robbed' = robbed /\ sock[path[p]] = Nobody
          /\ \A s \in Paths : s # path[p] => sock'[s] = sock[s]
      BY <2>6 DEF Bind, CanBind, histVars, TypeOK
    <3> QED BY <1>2, <2>1, <2>2, <3>1
  <2>7. CASE UnlinkSocket(p)
    <3>1. /\ robbed \subseteq robbed'
          /\ Serves(q, path[p]) => q \in robbed'
          /\ \A s \in Paths : s # path[p] => sock'[s] = sock[s]
      BY <2>7 DEF UnlinkSocket, TypeOK
    <3> QED BY <2>1, <2>2, <2>3, <3>1 DEF Serves
  <2>8. CASE UNCHANGED sock /\ robbed \ {p} \subseteq robbed'
    BY <2>2, <2>8
  <2> QED
    BY <2>4, <2>5, <2>6, <2>7, <2>8 DEF StepOf, Launch, IpcStart, PlaceSocket, ProbeFindsFree,
       ProbeFindsServer, BindFails, StartFails, TruncateSessionFile, WriteSessionFile,
       SessionFileFails, WritePidFile, PidFileExists, PidFileFails, IpcStop, LoopReturns, StopServer,
       ListenerCloses, RemoveDirectory, JoinServer, CleanPidFile, Quit, Exit, Crash, Restart, Ends,
       diskVars, pidVars, histVars
<1> QED BY <1>1, <1>2, <1>3, <1>4, <1>5 DEF SocketOf, At

LEMMA OwnSocket ==
  ASSUME TypeOK, PathInv, PastInv, SocketInv, NEW p \in Processes, StepOf(p)
  PROVE  SocketOf(p)'
<1> USE DEF TypeOK, At
<1>1. SocketOf(p) BY SocketParts
<1>2. Self(p) \in Instances /\ Self(p) # Nobody BY Selves
<1>3. CASE Launch(p)
  <2>1. p \notin handle BY <1>1, <1>3 DEF SocketOf, Launch, Serving
  <2>2. \A s \in Paths : sock[s] # Self(p)
    <3>1. \A s \in Paths : sock[s] = Self(p) => Past(Self(p)) BY <1>2 DEF PastInv
    <3> QED BY <1>3, <3>1, Selves DEF Past, Launch
  <2>3. UNCHANGED <<handle, sock, image>> BY <1>3 DEF Launch, serveVars, diskVars, pidVars
  <2>4. proc'[p] \in {"ready", "placing"} BY <1>3, Goes
  <2> QED BY <2>1, <2>2, <2>3, <2>4 DEF SocketOf, Self
<1>4. CASE Restart(p)
  <2>1. p \notin handle' /\ sock' = sock /\ image'[p] = image[p] + 1
    BY <1>4 DEF Restart, diskVars, pidVars
  <2>2. \A s \in Paths : sock[s] # <<p, image[p] + 1>>
    <3>1. \A s \in Paths : sock[s] = <<p, image[p] + 1>> => Past(<<p, image[p] + 1>>)
      <4>1. <<p, image[p] + 1>> \in Instances BY <1>4 DEF Restart, Instances
      <4>2. <<p, image[p] + 1>> # Nobody BY <4>1 DEF Instances
      <4> QED BY <4>2 DEF PastInv
    <3>2. ~Past(<<p, image[p] + 1>>) BY DEF Past
    <3> QED BY <3>1, <3>2
  <2>3. proc'[p] \in {"ready", "placing"} BY <1>4, Goes
  <2> QED BY <2>1, <2>2, <2>3 DEF SocketOf, Self
<1>5. CASE IpcStart(p)
  <2>1. /\ p \notin handle /\ proc[p] = "ready" /\ proc'[p] = "placing"
        /\ UNCHANGED <<handle, sock, image>>
    BY <1>5, Goes DEF IpcStart, serveVars, diskVars, pidVars
  <2> QED BY <1>1, <2>1 DEF SocketOf, Self
<1>6. CASE PlaceSocket(p) \/ ProbeFindsFree(p) \/ ProbeFindsServer(p) \/ BindFails(p)
  <2>1. proc[p] \in {"placing", "probing", "binding"} BY <1>6, Goes
  <2>2. p \notin handle /\ \A s \in Paths : sock[s] # Self(p) BY <1>1, <2>1 DEF SocketOf, Serving
  <2>3. UNCHANGED <<handle, sock, image>>
    BY <1>6 DEF PlaceSocket, ProbeFindsFree, ProbeFindsServer, BindFails, StartFails, serveVars,
                diskVars, pidVars
  <2>4. proc'[p] \in {"probing", "binding", "removing", "left", "ready"} BY <1>6, Goes
  <2> QED BY <2>2, <2>3, <2>4 DEF SocketOf, Self
<1>7. CASE ClearDefaultPath(p) \/ RemoveStaleSocket(p)
  <2>1. proc[p] \in {"probing", "removing"} BY <1>7, Goes
  <2>2. p \notin handle /\ \A s \in Paths : sock[s] # Self(p) BY <1>1, <2>1 DEF SocketOf, Serving
  <2>3. UNCHANGED <<handle, image>> /\ \A s \in Paths : sock'[s] \in {sock[s], Nobody}
    BY <1>7 DEF ClearDefaultPath, RemoveStaleSocket, serveVars
  <2>4. proc'[p] = "binding" BY <1>7, Goes
  <2> QED BY <1>2, <2>2, <2>3, <2>4 DEF SocketOf, Self
<1>8. CASE Bind(p)
  <2>1. proc[p] = "binding" /\ proc'[p] = "storing" BY <1>8, Goes
  <2>2. \A s \in Paths : sock[s] # Self(p) BY <1>1, <2>1 DEF SocketOf, Serving
  <2>3. /\ p \in handle' /\ p \in listening' /\ UNCHANGED <<image, path>>
        /\ sock'[path[p]] = Self(p) /\ \A s \in Paths : s # path[p] => sock'[s] = sock[s]
    BY <1>8 DEF Bind
  <2> QED BY <2>1, <2>2, <2>3 DEF SocketOf, Self, Serving
<1>9. CASE TruncateSessionFile(p) \/ WriteSessionFile(p) \/ SessionFileFails(p) \/ WritePidFile(p)
           \/ Quit(p)
  <2>1. proc[p] \in {"storing", "writing", "pidfile", "ready"}
        /\ proc'[p] \in {"writing", "pidfile", "ready", "quitting"}
        /\ (proc[p] = "ready" => proc'[p] = "quitting")
    BY <1>9, Goes
  <2>2. UNCHANGED <<handle, sock, image, path, listening>> /\ robbed' = robbed
    BY <1>9 DEF TruncateSessionFile, WriteSessionFile, SessionFileFails, WritePidFile, Quit,
                serveVars, diskVars, pidVars, histVars
  <2> QED BY <1>1, <2>1, <2>2 DEF SocketOf, Self, Serving
<1>10. CASE IpcStop(p) \/ LoopReturns(p) \/ PidFileExists(p) \/ PidFileFails(p)
  <2>1. /\ p \notin handle' /\ UNCHANGED <<sock, image, path>>
        /\ p \in handle => proc'[p] = "unlinking"
        /\ proc'[p] \in {"unlinking", "cleaning", "leaving", "ready"}
    BY <1>10 DEF IpcStop, LoopReturns, PidFileExists, PidFileFails, StopServer, GoTo
  <2>2. proc[p] \in {"ready", "pidfile"} BY <1>10, Goes
  <2> QED BY <1>1, <2>1, <2>2 DEF SocketOf, Self
<1>11. CASE ListenerCloses(p)
  <2>1. proc[p] \in Stopping /\ UNCHANGED <<proc, path, image, handle, sock>>
    BY <1>11 DEF ListenerCloses, Stopping, procVars, diskVars, pidVars
  <2>2. p \notin handle BY <1>1, <2>1 DEF SocketOf, Serving, Stopping
  <2> QED BY <1>1, <2>1, <2>2 DEF SocketOf, Self
<1>12. CASE UnlinkSocket(p)
  <2>1. proc[p] = "unlinking" /\ proc'[p] \in {"rmdir", "joining"} BY <1>12, Goes
  <2>2. p \notin handle BY <1>1, <2>1 DEF SocketOf, Serving
  <2>3. UNCHANGED <<image, handle, path>> /\ sock'[path[p]] = Nobody
        /\ \A s \in Paths : s # path[p] => sock'[s] = sock[s]
    BY <1>12 DEF UnlinkSocket, serveVars
  <2>4. \A s \in Paths : sock'[s] # Self(p) BY <1>1, <1>2, <2>1, <2>3 DEF SocketOf
  <2> QED BY <2>1, <2>2, <2>3, <2>4 DEF SocketOf, Self
<1>13. CASE RemoveDirectory(p) \/ JoinServer(p) \/ CleanPidFile(p)
  <2>1. proc[p] \in {"rmdir", "joining", "cleaning"}
        /\ proc'[p] \in {"joining", "ready", "cleaning", "leaving"}
    BY <1>13, Goes
  <2>2. p \notin handle /\ \A s \in Paths : sock[s] # Self(p) BY <1>1, <2>1 DEF SocketOf, Serving
  <2>3. UNCHANGED <<image, handle, sock>>
    BY <1>13 DEF RemoveDirectory, JoinServer, CleanPidFile, serveVars
  <2> QED BY <2>1, <2>2, <2>3 DEF SocketOf, Self
<1>14. CASE Exit(p) \/ Crash(p)
  <2>1. p \notin handle' /\ UNCHANGED <<image, sock>> BY <1>14 DEF Exit, Crash, Ends, diskVars, pidVars
  <2>2. \/ proc'[p] = "gone"
        \/ proc[p] = "leaving" /\ proc'[p] = "left"
    BY <1>14, Goes
  <2>3. proc[p] = "leaving" => \A s \in Paths : sock[s] # Self(p) BY <1>1 DEF SocketOf, Serving
  <2> QED BY <2>1, <2>2, <2>3 DEF SocketOf, Self
<1> QED
  BY <1>3, <1>4, <1>5, <1>6, <1>7, <1>8, <1>9, <1>10, <1>11, <1>12, <1>13, <1>14 DEF StepOf

LEMMA SocketStep ==
  ASSUME TypeOK, ClientInv, OneOfEachPid, PathInv, PastInv, SocketInv, Next
  PROVE  SocketInv'
<1>1. CASE ClientNext
  BY <1>1, ClientMoves DEF SocketInv, At, Self, procVars, serveVars, histVars
<1>2. ASSUME NEW p \in Processes, StepOf(p) PROVE SocketInv'
  <2>1. \A q \in Processes : SocketOf(q)' BY <1>2, OthersSockets, OwnSocket
  <2> QED BY <2>1, TypeStep DEF SocketInv, SocketOf, TypeOK
<1> QED BY <1>1, <1>2, NextSteps

-----------------------------------------------------------------------------
(* Session files.                                                          *)

\* A client removes the files of the dead only.
LEMMA ClientsSpareTheLiving ==
  ASSUME TypeOK, ClientInv, FileInv, SocketInv, ClientNext
  PROVE  FileInv'
<1> SUFFICES ASSUME NEW p \in Processes PROVE FileOf(p)'
  BY DEF FileInv
<1>1. UNCHANGED <<proc, image, path, handle, unlisted>> /\ Self(p)' = Self(p)
  BY ClientMoves DEF procVars, serveVars, histVars, Self
<1>2. FileOf(p) BY DEF FileInv
<1>3. CASE file'[PidOf[p]] = file[PidOf[p]]
  BY <1>1, <1>2, <1>3 DEF FileOf, At
<1>4. CASE file'[PidOf[p]] # file[PidOf[p]]
  <2>1. PICK c \in Clients : /\ client[c].at = "removing"
                             /\ file' = [file EXCEPT ![EntryPid(c)] = NoFile]
    BY <1>4, ClientMoves
  <2>2. EntryPid(c) = PidOf[p] /\ file'[PidOf[p]] = NoFile
    BY <1>4, <2>1, PathFacts DEF TypeOK
  <2>3. ~Running(p) BY <2>1, <2>2 DEF ClientInv, Alive
  <2> QED BY <1>1, <2>2, <2>3 DEF FileOf, Running, At
<1> QED BY <1>3, <1>4

\* Of two processes with the same PID one is not running.
LEMMA OthersFiles ==
  ASSUME TypeOK, OneOfEachPid, SocketInv, FileInv, NEW p \in Processes, StepOf(p),
         NEW q \in Processes \ {p}
  PROVE  FileOf(q)'
<1>1. /\ proc'[q] = proc[q] /\ image'[q] = image[q] /\ path'[q] = path[q]
      /\ q \in handle' <=> q \in handle
      /\ q \in unlisted' <=> q \in unlisted
  BY MovesAlone DEF Alone
<1>2. Self(q)' = Self(q) /\ Self(q) # Self(p) /\ Self(p) \in Instances
  BY <1>1, Selves DEF Self
<1>3. FileOf(q) BY DEF FileInv
<1>4. CASE file'[PidOf[q]] = file[PidOf[q]]
  BY <1>1, <1>2, <1>3, <1>4 DEF FileOf, At
<1>5. CASE file'[PidOf[q]] # file[PidOf[q]]
  <2>1. /\ TruncateSessionFile(p) \/ WriteSessionFile(p) \/ JoinServer(p)
        /\ PidOf[q] = PidOf[p]
    <3>1. TruncateSessionFile(p) \/ WriteSessionFile(p) \/ JoinServer(p)
      BY <1>5 DEF StepOf, Launch, IpcStart, PlaceSocket, ClearDefaultPath, ProbeFindsFree,
         ProbeFindsServer, RemoveStaleSocket, Bind, BindFails, StartFails, SessionFileFails,
         WritePidFile, PidFileExists, PidFileFails, IpcStop, LoopReturns, StopServer, ListenerCloses,
         UnlinkSocket, RemoveDirectory, CleanPidFile, Quit, Exit, Crash, Restart, diskVars, pidVars
    <3> QED BY <1>5, <3>1, PathFacts DEF TruncateSessionFile, WriteSessionFile, JoinServer, TypeOK
  <2>2. proc[p] \in {"storing", "writing", "joining"} BY <2>1, Goes DEF At
  <2>3. ~Running(q) BY <2>1, <2>2 DEF OneOfEachPid, Running
  <2>4. q \notin handle BY <2>3 DEF SocketInv, Serving, Running
  <2>5. file'[PidOf[q]] # NoFile => file'[PidOf[q]].by = Self(p)
    <3>1. path[p] \in Paths BY DEF TypeOK
    <3>2. \/ file'[PidOf[q]] = NoFile
          \/ file'[PidOf[q]] \in {TornBy(Self(p)), Listing(Self(p), path[p])}
      BY <1>5, DiskStep, PathFacts DEF DiskBy
    <3> QED BY <1>2, <3>1, <3>2, FileFacts
  <2>6. proc[q] \notin {"writing", "pidfile", "ready", "quitting"} BY <2>3 DEF Running
  <2> QED BY <1>1, <1>2, <2>4, <2>5, <2>6 DEF FileOf, At
<1> QED BY <1>4, <1>5

LEMMA OwnFile ==
  ASSUME TypeOK, PastInv, SocketInv, FileInv, NEW p \in Processes, StepOf(p)
  PROVE  FileOf(p)'
<1> DEFINE f == file[PidOf[p]]
<1> USE DEF At
<1>1. SocketOf(p) BY SocketParts
<1>2. FileOf(p) BY DEF FileInv
<1>3. Self(p) \in Instances /\ path[p] \in Paths /\ PidOf[p] \in Pids
  BY Selves, PathFacts DEF TypeOK
<1>4. f \in Files BY <1>3 DEF TypeOK
<1>5. CASE Launch(p)
  <2>1. p \notin handle BY <1>1, <1>5 DEF SocketOf, Launch, Serving
  <2>2. f # NoFile => f.by # Self(p)
    <3>1. f # NoFile => Past(f.by) BY <1>3 DEF PastInv
    <3> QED BY <1>5, <3>1, Selves DEF Past, Launch
  <2>3. UNCHANGED <<handle, file, image>> BY <1>5 DEF Launch, serveVars, diskVars, pidVars
  <2>4. proc'[p] \in {"ready", "placing"} BY <1>5, Goes
  <2> QED BY <2>1, <2>2, <2>3, <2>4 DEF FileOf, Self
<1>6. CASE Restart(p)
  <2>1. p \notin handle' /\ file' = file /\ image'[p] = image[p] + 1
    BY <1>6 DEF Restart, diskVars, pidVars, TypeOK
  <2>2. f # NoFile => f.by # <<p, image[p] + 1>>
    <3>1. f # NoFile => Past(f.by) BY <1>3 DEF PastInv
    <3>2. ~Past(<<p, image[p] + 1>>) BY DEF Past, TypeOK
    <3> QED BY <3>1, <3>2
  <2>3. proc'[p] \in {"ready", "placing"} BY <1>6, Goes
  <2> QED BY <2>1, <2>2, <2>3 DEF FileOf, Self
<1>7. CASE IpcStart(p) \/ PlaceSocket(p) \/ ClearDefaultPath(p) \/ ProbeFindsFree(p)
           \/ ProbeFindsServer(p) \/ RemoveStaleSocket(p) \/ BindFails(p) \/ CleanPidFile(p)
  <2>1. /\ proc[p] \in {"ready", "placing", "probing", "removing", "binding", "cleaning"}
        /\ proc'[p] \in {"placing", "probing", "removing", "binding", "left", "ready", "leaving"}
    BY <1>7, Goes
  <2>2. p \notin handle
    BY <1>1, <1>7, <2>1, Goes DEF SocketOf, Serving, IpcStart
  <2>3. UNCHANGED <<handle, file, image>>
    BY <1>7 DEF IpcStart, PlaceSocket, ClearDefaultPath, ProbeFindsFree, ProbeFindsServer,
                RemoveStaleSocket, BindFails, StartFails, CleanPidFile, serveVars, diskVars, pidVars
  <2>4. f # NoFile => f.by # Self(p) BY <1>2, <2>1, <2>2 DEF FileOf
  <2> QED BY <2>1, <2>2, <2>3, <2>4 DEF FileOf, Self
<1>8. CASE Bind(p)
  <2>1. proc'[p] = "storing" /\ p \in handle' BY <1>8, Goes DEF Bind
  <2> QED BY <2>1 DEF FileOf
<1>9. CASE TruncateSessionFile(p)
  <2>1. /\ proc[p] = "storing" /\ proc'[p] = "writing" /\ UNCHANGED <<handle, image>>
        /\ file'[PidOf[p]] = TornBy(Self(p))
    BY <1>3, <1>9, Goes DEF TruncateSessionFile, TypeOK, serveVars
  <2>2. p \in handle BY <1>1, <2>1 DEF SocketOf
  <2> QED BY <2>1, <2>2 DEF FileOf, Self
<1>10. CASE WriteSessionFile(p)
  <2>1. /\ proc[p] = "writing" /\ proc'[p] \in {"pidfile", "ready"}
        /\ UNCHANGED <<handle, image, path>>
    BY <1>10, Goes DEF WriteSessionFile, serveVars
  <2>2. p \in handle /\ f = TornBy(Self(p)) BY <1>1, <1>2, <2>1 DEF SocketOf, FileOf
  <2>3. file'[PidOf[p]] = Listing(Self(p), path[p])
    BY <1>3, <1>10, <2>2 DEF WriteSessionFile, TypeOK
  <2> QED BY <2>1, <2>2, <2>3 DEF FileOf, Self
<1>11. CASE SessionFileFails(p)
  <2>1. /\ proc[p] \in {"storing", "writing"} /\ proc'[p] \in {"pidfile", "ready"}
        /\ UNCHANGED <<handle, file>> /\ p \in unlisted'
    BY <1>11, Goes DEF SessionFileFails, serveVars, diskVars, pidVars
  <2>2. p \in handle BY <1>1, <2>1 DEF SocketOf
  <2> QED BY <2>1, <2>2 DEF FileOf
<1>12. CASE WritePidFile(p) \/ Quit(p)
  <2>1. /\ proc[p] \in {"pidfile", "ready"} /\ proc'[p] \in {"ready", "quitting"}
        /\ UNCHANGED <<handle, file, image, path, unlisted>>
    BY <1>12, Goes DEF WritePidFile, Quit, serveVars, diskVars, pidVars, histVars
  <2> QED BY <1>2, <2>1 DEF FileOf, Self
<1>13. CASE IpcStop(p) \/ LoopReturns(p) \/ PidFileExists(p) \/ PidFileFails(p)
  <2>1. /\ p \notin handle' /\ UNCHANGED <<file, image>>
        /\ p \in handle => proc'[p] = "unlinking"
        /\ proc'[p] \in {"unlinking", "cleaning", "leaving", "ready"}
    BY <1>13 DEF IpcStop, LoopReturns, PidFileExists, PidFileFails, StopServer, GoTo, TypeOK
  <2>2. proc[p] \in {"ready", "pidfile"} BY <1>13, Goes
  <2> QED BY <1>2, <2>1, <2>2 DEF FileOf, Self
<1>14. CASE ListenerCloses(p)
  <2>1. UNCHANGED <<proc, path, image, handle, file, unlisted>>
    BY <1>14 DEF ListenerCloses, procVars, diskVars, pidVars
  <2> QED BY <1>2, <2>1 DEF FileOf, Self
<1>15. CASE UnlinkSocket(p) \/ RemoveDirectory(p)
  <2>1. proc[p] \in {"unlinking", "rmdir"} /\ proc'[p] \in {"rmdir", "joining"}
    BY <1>15, Goes
  <2> QED BY <2>1 DEF FileOf
<1>16. CASE JoinServer(p)
  <2>1. proc[p] = "joining" /\ proc'[p] # "writing" BY <1>16, Goes DEF TypeOK
  <2>2. p \notin handle /\ handle' = handle /\ file'[PidOf[p]] = NoFile
    BY <1>1, <1>3, <1>16, <2>1 DEF SocketOf, Serving, JoinServer, serveVars, TypeOK
  <2> QED BY <2>1, <2>2 DEF FileOf
<1>17. CASE Exit(p) \/ Crash(p)
  <2>1. p \notin handle' /\ UNCHANGED <<image, file>> BY <1>17 DEF Exit, Crash, Ends, diskVars, pidVars
  <2>2. \/ proc'[p] = "gone"
        \/ proc[p] = "leaving" /\ proc'[p] = "left"
    BY <1>17, Goes
  <2>3. proc[p] = "leaving" => f = NoFile \/ f.by # Self(p)
    BY <1>1, <1>2 DEF SocketOf, Serving, FileOf
  <2> QED BY <2>1, <2>2, <2>3 DEF FileOf, Self
<1> QED
  BY <1>5, <1>6, <1>7, <1>8, <1>9, <1>10, <1>11, <1>12, <1>13, <1>14, <1>15, <1>16, <1>17
  DEF StepOf

LEMMA FileStep ==
  ASSUME TypeOK, ClientInv, OneOfEachPid, PastInv, SocketInv, FileInv, Next
  PROVE  FileInv'
<1>1. CASE ClientNext BY <1>1, ClientsSpareTheLiving
<1>2. ASSUME NEW p \in Processes, StepOf(p) PROVE FileInv'
  BY <1>2, OthersFiles, OwnFile DEF FileInv
<1> QED BY <1>1, <1>2, NextSteps

-----------------------------------------------------------------------------
(* The PID file.                                                           *)

\* Who removes the PID file has written it.
LEMMA RemovesItsOwn ==
  ASSUME TypeOK, PidFileInv, NEW p \in Processes, StepOf(p), pidFile' # pidFile
  PROVE  \/ /\ WritePidFile(p) \/ PidFileFails(p)
            /\ pidFile = Nobody /\ pidFile' = Self(p)
         \/ /\ CleanPidFile(p) \/ Exit(p)
            /\ pidFile = Self(p) /\ p \in atexit /\ pidFile' = Nobody
<1>1. PidFileOf(p) BY DEF PidFileInv
<1>2. WritePidFile(p) \/ PidFileFails(p) \/ CleanPidFile(p) \/ Exit(p)
  BY DEF StepOf, Launch, IpcStart, PlaceSocket, ClearDefaultPath, ProbeFindsFree,
     ProbeFindsServer, RemoveStaleSocket, Bind, BindFails, StartFails, TruncateSessionFile,
     WriteSessionFile, SessionFileFails, PidFileExists, IpcStop, LoopReturns, StopServer,
     ListenerCloses, UnlinkSocket, RemoveDirectory, JoinServer, Quit, Crash, Restart, diskVars, pidVars
<1>3. CASE WritePidFile(p) \/ PidFileFails(p)
  BY <1>3 DEF WritePidFile, PidFileFails, pidVars
<1>4. CASE CleanPidFile(p)
  <2>1. proc[p] = "cleaning" /\ p \in WantsPidFile /\ pidFile' = Nobody
    BY <1>4 DEF CleanPidFile, PidFileRemoved, At
  <2>2. p \in atexit /\ pidFile = Self(p)
    BY <1>1, <2>1 DEF PidFileOf, Starting, Stopping
  <2> QED BY <1>4, <2>1, <2>2
<1>5. CASE Exit(p) BY <1>1, <1>5 DEF Exit, PidFileRemoved, PidFileOf
<1> QED BY <1>2, <1>3, <1>4, <1>5

\* A PID file is not written to twice.
LEMMA HalfWrittenStays ==
  ASSUME TypeOK, PidFileInv, NEW p \in Processes, StepOf(p), pidFile' = pidFile
  PROVE  halfWritten' = halfWritten
<1>1. PidFileOf(p) /\ Self(p) # Nobody BY Selves DEF PidFileInv
<1>2. CASE WritePidFile(p) \/ PidFileFails(p)
  BY <1>1, <1>2 DEF WritePidFile, PidFileFails, pidVars
<1>3. CASE CleanPidFile(p)
  <2>1. p \in WantsPidFile => pidFile = Self(p)
    BY <1>1, <1>3 DEF CleanPidFile, At, PidFileOf, Starting, Stopping
  <2> QED BY <1>1, <1>3, <2>1 DEF CleanPidFile, PidFileRemoved, TypeOK
<1>4. CASE Exit(p) BY <1>1, <1>4 DEF Exit, PidFileRemoved, PidFileOf, TypeOK
<1> QED
  BY <1>2, <1>3, <1>4 DEF StepOf, Launch, IpcStart, PlaceSocket, ClearDefaultPath, ProbeFindsFree,
     ProbeFindsServer, RemoveStaleSocket, Bind, BindFails, StartFails, TruncateSessionFile,
     WriteSessionFile, SessionFileFails, PidFileExists, IpcStop, LoopReturns, StopServer,
     ListenerCloses, UnlinkSocket, RemoveDirectory, JoinServer, Quit, Crash, Restart, diskVars,
     pidVars

LEMMA OthersPidFile ==
  ASSUME TypeOK, PidFileInv, NEW p \in Processes, StepOf(p), NEW q \in Processes \ {p}
  PROVE  PidFileOf(q)'
<1>1. /\ proc'[q] = proc[q] /\ image'[q] = image[q] /\ goal'[q] = goal[q]
      /\ q \in launching' <=> q \in launching
      /\ q \in atexit' <=> q \in atexit
  BY MovesAlone DEF Alone
<1>2. Self(q)' = Self(q) /\ Self(q) # Self(p) /\ Self(q) # Nobody
  BY <1>1, Selves DEF Self
<1>3. PidFileOf(q) BY DEF PidFileInv
<1>4. pidFile = Self(q) <=> pidFile' = Self(q) BY <1>2, RemovesItsOwn
<1>5. pidFile = Self(q) => halfWritten' = halfWritten BY <1>2, <1>4, HalfWrittenStays
<1> QED BY <1>1, <1>2, <1>3, <1>4, <1>5 DEF PidFileOf, At, Running

LEMMA OwnPidFile ==
  ASSUME TypeOK, PastInv, PidFileInv, NEW p \in Processes, StepOf(p)
  PROVE  PidFileOf(p)'
<1> USE DEF At
<1>1. PidFileOf(p) BY DEF PidFileInv
<1>2. Self(p) \in Instances /\ Self(p) # Nobody BY Selves
<1>3. CASE Launch(p)
  <2>1. p \notin launching /\ p \notin atexit
    BY <1>1, <1>3 DEF PidFileOf, Launch, Starting, Running
  <2>2. pidFile # Self(p)
    <3>1. pidFile = Self(p) => Past(Self(p)) BY <1>2 DEF PastInv
    <3> QED BY <1>3, <3>1, Selves DEF Past, Launch
  <2>3. UNCHANGED <<atexit, pidFile, halfWritten, image>> BY <1>3 DEF Launch, serveVars, diskVars, pidVars
  <2>4. \/ proc'[p] = "ready" /\ launching' = launching /\ p \notin WantsPidFile
        \/ proc'[p] = "placing" /\ p \in launching'
    BY <1>3 DEF Launch, StartImage, GoTo, TypeOK
  <2> QED BY <2>1, <2>2, <2>3, <2>4 DEF PidFileOf, Self, Starting
<1>4. CASE Restart(p)
  <2>1. p \notin launching BY <1>1, <1>4 DEF PidFileOf, Restart, Starting
  <2>2. p \notin atexit' /\ pidFile' = pidFile /\ image'[p] = image[p] + 1
    BY <1>4 DEF Restart, diskVars, pidVars, TypeOK
  <2>3. pidFile # <<p, image[p] + 1>>
    <3>1. <<p, image[p] + 1>> # Nobody BY <1>4 DEF Restart, TypeOK
    <3>2. pidFile = <<p, image[p] + 1>> => Past(<<p, image[p] + 1>>) BY <3>1 DEF PastInv
    <3>3. ~Past(<<p, image[p] + 1>>) BY DEF Past, TypeOK
    <3> QED BY <3>2, <3>3
  <2>4. \/ proc'[p] = "ready" /\ launching' = launching /\ p \notin WantsPidFile
        \/ proc'[p] = "placing" /\ p \in launching'
    BY <1>4 DEF Restart, StartImage, GoTo, TypeOK
  <2> QED BY <2>1, <2>2, <2>3, <2>4 DEF PidFileOf, Self, Starting
<1>5. CASE IpcStart(p) \/ Quit(p)
  <2>1. /\ proc[p] = "ready" /\ proc'[p] \in {"placing", "quitting"}
        /\ UNCHANGED <<launching, atexit, pidFile, halfWritten, image>>
    BY <1>5, Goes DEF IpcStart, Quit, serveVars, diskVars, pidVars
  <2> QED BY <1>1, <2>1 DEF PidFileOf, Self, Starting, Stopping, Running
<1>6. CASE PlaceSocket(p) \/ ClearDefaultPath(p) \/ ProbeFindsFree(p) \/ RemoveStaleSocket(p)
           \/ Bind(p) \/ TruncateSessionFile(p)
  <2>1. /\ proc[p] \in Starting /\ proc'[p] \in Starting \ {"pidfile"}
        /\ UNCHANGED <<launching, atexit, pidFile, halfWritten, image>>
    BY <1>6, Goes DEF PlaceSocket, ClearDefaultPath, ProbeFindsFree, RemoveStaleSocket, Bind,
       TruncateSessionFile, serveVars, diskVars, pidVars, Starting
  <2> QED BY <1>1, <2>1 DEF PidFileOf, Self, Starting, Stopping, Running
<1>7. CASE ProbeFindsServer(p) \/ BindFails(p)
  <2>1. /\ proc[p] \in Starting /\ StartFails(p)
        /\ proc'[p] = IF p \in launching THEN "left" ELSE "ready"
    BY <1>7, Goes DEF ProbeFindsServer, BindFails, StartFails, GoTo, Starting, TypeOK
  <2>2. p \notin launching' /\ UNCHANGED <<atexit, pidFile, halfWritten, image>>
    BY <2>1 DEF StartFails, diskVars, pidVars
  <2> QED BY <1>1, <2>1, <2>2 DEF PidFileOf, Self, Starting, Stopping, Running
<1>8. CASE WriteSessionFile(p) \/ SessionFileFails(p)
  <2>1. proc[p] \in {"storing", "writing"} /\ Started(p) /\ UNCHANGED <<atexit, pidFile, halfWritten, image>>
    BY <1>8, Goes DEF WriteSessionFile, SessionFileFails, serveVars, diskVars, pidVars
  <2>2. \/ proc'[p] = "pidfile" /\ p \in launching \cap WantsPidFile /\ p \in launching'
        \/ proc'[p] = "ready" /\ p \notin launching'
    BY <2>1 DEF Started, GoTo, TypeOK
  <2>3. p \in WantsPidFile \ launching => p \in atexit
    BY <1>1, <2>1 DEF PidFileOf, Stopping
  <2>4. p \in WantsPidFile /\ p \notin launching' => p \notin launching
    BY <2>1 DEF Started
  <2> QED BY <1>1, <2>1, <2>2, <2>3, <2>4 DEF PidFileOf, Self, Starting, Running
<1>9. CASE WritePidFile(p)
  <2>1. /\ proc[p] = "pidfile" /\ proc'[p] = "ready" /\ p \notin launching' /\ p \in atexit'
        /\ pidFile' = Self(p) /\ image' = image
    BY <1>9, Goes DEF WritePidFile
  <2> QED BY <1>1, <2>1 DEF PidFileOf, Self, Running
<1>16. CASE PidFileFails(p)
  <2>1. /\ proc[p] = "pidfile" /\ UNCHANGED <<atexit, image>> /\ p \notin launching'
        /\ \/ proc'[p] = "unlinking" /\ goal'[p] = "leaving"
           \/ proc'[p] = "leaving"
    BY <1>16 DEF PidFileFails, StopServer, GoTo, TypeOK
  <2>2. pidFile' = Self(p) => halfWritten' BY <1>2, <1>16 DEF PidFileFails, pidVars
  <2>3. p \notin atexit BY <1>1, <2>1 DEF PidFileOf
  <2> QED BY <1>1, <2>1, <2>2, <2>3 DEF PidFileOf, Self, Stopping, Running
<1>10. CASE PidFileExists(p)
  <2>1. /\ proc[p] = "pidfile" /\ UNCHANGED <<atexit, pidFile, halfWritten, image>>
        /\ p \notin launching'
        /\ \/ proc'[p] = "unlinking" /\ goal'[p] = "leaving"
           \/ proc'[p] = "leaving"
    BY <1>10 DEF PidFileExists, StopServer, GoTo, diskVars, pidVars, TypeOK
  <2> QED BY <1>1, <2>1 DEF PidFileOf, Self, Stopping, Running
<1>11. CASE IpcStop(p) \/ LoopReturns(p)
  <2>1. /\ proc[p] = "ready" /\ proc'[p] \in {"unlinking", "cleaning"}
        /\ UNCHANGED <<launching, atexit, pidFile, halfWritten, image>>
    BY <1>11, Goes DEF IpcStop, LoopReturns, StopServer, diskVars, pidVars
  <2> QED BY <1>1, <2>1 DEF PidFileOf, Self, Starting, Stopping, Running
<1>12. CASE ListenerCloses(p) \/ UnlinkSocket(p) \/ RemoveDirectory(p)
  <2>1. /\ proc[p] \in Stopping /\ proc'[p] \in Stopping
        /\ UNCHANGED <<launching, atexit, pidFile, halfWritten, image, goal>>
    BY <1>12, Goes DEF ListenerCloses, UnlinkSocket, RemoveDirectory, procVars, serveVars,
                       diskVars, pidVars, Stopping
  <2> QED BY <1>1, <2>1 DEF PidFileOf, Self, Starting, Stopping, Running
<1>13. CASE JoinServer(p)
  <2>1. /\ proc[p] = "joining" /\ proc'[p] = goal[p]
        /\ UNCHANGED <<launching, atexit, pidFile, halfWritten, image>>
    BY <1>13, Goes DEF pidVars, JoinServer, serveVars
  <2>2. goal[p] \in {"ready", "cleaning", "leaving"} BY DEF TypeOK
  <2> QED BY <1>1, <2>1, <2>2 DEF PidFileOf, Self, Starting, Stopping, Running
<1>14. CASE CleanPidFile(p)
  <2>1. /\ proc[p] = "cleaning" /\ proc'[p] = "leaving" /\ UNCHANGED <<launching, image>>
        /\ p \notin atexit' /\ pidFile' = IF p \in WantsPidFile THEN Nobody ELSE pidFile
    BY <1>14, Goes DEF CleanPidFile, PidFileRemoved
  <2>2. pidFile' # Self(p) \/ halfWritten'
    BY <1>1, <1>2, <1>14, <2>1 DEF PidFileOf, CleanPidFile, PidFileRemoved
  <2> QED BY <1>1, <2>1, <2>2 DEF PidFileOf, Self, Starting
<1>15. CASE Exit(p) \/ Crash(p)
  <2>1. p \notin launching' /\ p \notin atexit' /\ image' = image
    BY <1>15 DEF Exit, Crash, Ends
  <2>2. \/ proc'[p] = "gone"
        \/ Exit(p) /\ proc[p] = "leaving" /\ proc'[p] = "left"
    BY <1>15, Goes
  <2>3. Exit(p) /\ proc[p] = "leaving" => pidFile' # Self(p) \/ halfWritten'
    BY <1>1, <1>2 DEF PidFileOf, Exit, PidFileRemoved
  <2> QED BY <2>1, <2>2, <2>3 DEF PidFileOf, Self
<1> QED
  BY <1>3, <1>4, <1>5, <1>6, <1>7, <1>8, <1>9, <1>10, <1>11, <1>12, <1>13, <1>14, <1>15, <1>16
  DEF StepOf

LEMMA PidFileStep ==
  ASSUME TypeOK, PastInv, PidFileInv, Next
  PROVE  PidFileInv'
<1>1. CASE ClientNext
  BY <1>1, ClientMoves DEF pidVars, PidFileInv, PidFileOf, At, Running, Self, procVars, serveVars
<1>2. ASSUME NEW p \in Processes, StepOf(p) PROVE PidFileInv'
  BY <1>2, OthersPidFile, OwnPidFile DEF PidFileInv
<1> QED BY <1>1, <1>2, NextSteps

-----------------------------------------------------------------------------
(* Clients.                                                                *)

\* A process is not given the PID whose file a client is about to remove.
LEMMA ClientStep ==
  ASSUME TypeOK, ClientInv, Next
  PROVE  ClientInv'
<1>1. ASSUME NEW p \in Processes, StepOf(p) PROVE ClientInv'
  <2>1. client' = client
    BY <1>1 DEF StepOf, Launch, IpcStart, PlaceSocket, ClearDefaultPath, ProbeFindsFree,
       ProbeFindsServer, RemoveStaleSocket, Bind, BindFails, StartFails, TruncateSessionFile,
       WriteSessionFile, SessionFileFails, WritePidFile, PidFileExists, PidFileFails, IpcStop, LoopReturns,
       StopServer, ListenerCloses, UnlinkSocket, RemoveDirectory, JoinServer, CleanPidFile, Quit,
       Exit, Crash, Restart
  <2>2. ASSUME NEW c \in Clients, client[c].at = "removing", NEW q \in Processes,
               PidOf[q] = EntryPid(c)
        PROVE  ~Running(q)'
    <3>1. ~Running(q) BY <2>2 DEF ClientInv, Alive
    <3>2. q = p => ~Launch(p) BY <2>2 DEF Launch
    <3> QED BY <1>1, <3>1, <3>2, RunsOn
  <2>3. \A c \in Clients : EntryPid(c)' = EntryPid(c) BY <2>1 DEF EntryPid
  <2> QED BY <2>1, <2>2, <2>3 DEF ClientInv, Alive
<1>2. ASSUME NEW c \in Clients,
             \/ ReadEntry(c) \/ TornEntry(c) \/ LiveEntry(c) \/ DeadEntry(c) \/ RemoveEntry(c)
             \/ Connect(c)
      PROVE  ClientInv'
  <2>1. proc' = proc
    BY <1>2 DEF ReadEntry, TornEntry, LiveEntry, DeadEntry, JudgeTo, RemoveEntry, Connect, procVars
  <2>2. \A k : Alive(k)' <=> Alive(k) BY <2>1 DEF Alive, Running
  <2>3. \A d \in Clients \ {c} : client'[d] = client[d]
    BY <1>2 DEF ReadEntry, TornEntry, LiveEntry, DeadEntry, JudgeTo, RemoveEntry, Connect, TypeOK
  <2>4. /\ client'[c].at = "read" => client'[c].entry # NoFile
        /\ client'[c].at \in {"removing", "resolved"} => client'[c].entry.state = "listed"
        /\ client'[c].at = "removing" =>
             client'[c].entry = client[c].entry /\ ~Alive(EntryPid(c))
    <3>1. CASE ReadEntry(c) BY <3>1 DEF ReadEntry, TypeOK
    <3>2. CASE TornEntry(c) \/ RemoveEntry(c) \/ Connect(c)
      BY <3>2 DEF TornEntry, RemoveEntry, Connect, JudgeTo, Idle, TypeOK
    <3>3. CASE LiveEntry(c) \/ DeadEntry(c)
      BY <3>3 DEF LiveEntry, DeadEntry, JudgeTo, TypeOK
    <3> QED BY <1>2, <3>1, <3>2, <3>3
  <2> QED BY <2>2, <2>3, <2>4 DEF ClientInv, EntryPid
<1> QED BY <1>1, <1>2, NextSteps DEF ClientNext

-----------------------------------------------------------------------------
(* The invariant and what follows from it.                                 *)

LEMMA SessionsInit == Init => SessionsInv
<1> SUFFICES ASSUME Init PROVE SessionsInv OBVIOUS
<1>1. TypeOK BY TypeInit
<1>2. \A p \in Processes : proc[p] = "off" /\ path[p] = PidOf[p] BY DEF Init
<1>3. OneOfEachPid /\ PathInv BY <1>2 DEF OneOfEachPid, PathInv, Running, At
<1>4. /\ \A s \in Paths : sock[s] = Nobody
      /\ \A k \in Pids : file[k] = NoFile
      /\ pidFile = Nobody /\ handle = {} /\ atexit = {} /\ launching = {}
      /\ \A c \in Clients : client[c] = Idle
  BY DEF Init
<1>5. PastInv BY <1>4 DEF PastInv
<1>6. SocketInv BY <1>1, <1>2, <1>4, Selves DEF SocketInv, At
<1>7. FileInv BY <1>2, <1>4, PathFacts DEF FileInv, FileOf, At
<1>8. PidFileInv BY <1>1, <1>2, <1>4, Selves DEF PidFileInv, PidFileOf, At
<1>9. ClientInv BY <1>4 DEF ClientInv, Idle
<1> QED BY <1>1, <1>3, <1>5, <1>6, <1>7, <1>8, <1>9 DEF SessionsInv

LEMMA SessionsStep == SessionsInv /\ [Next]_vars => SessionsInv'
<1> SUFFICES ASSUME SessionsInv, [Next]_vars PROVE SessionsInv' OBVIOUS
<1>1. CASE Next
  <2>1. /\ TypeOK /\ OneOfEachPid /\ PathInv /\ PastInv /\ SocketInv /\ FileInv /\ PidFileInv
        /\ ClientInv
    BY DEF SessionsInv
  <2>2. TypeOK' /\ OneOfEachPid' /\ PathInv' /\ PastInv'
    BY <1>1, <2>1, TypeStep, OneOfEachPidStep, PathStep, PastStep
  <2>3. SocketInv' /\ FileInv' BY <1>1, <2>1, SocketStep, FileStep
  <2>4. PidFileInv' /\ ClientInv' BY <1>1, <2>1, PidFileStep, ClientStep
  <2> QED BY <2>2, <2>3, <2>4 DEF SessionsInv
<1>2. CASE UNCHANGED vars
  <2>1. TypeOK' BY <1>2 DEF SessionsInv, TypeOK, vars, procVars, serveVars, diskVars, pidVars, histVars
  <2>2. OneOfEachPid' /\ PathInv'
    BY <1>2 DEF SessionsInv, OneOfEachPid, PathInv, At, Running, vars, procVars, serveVars
  <2>3. PastInv' BY <1>2 DEF SessionsInv, PastInv, Past, vars, procVars, diskVars, pidVars
  <2>4. SocketInv'
    BY <1>2 DEF SessionsInv, SocketInv, At, Self, vars, procVars, serveVars, diskVars, pidVars, histVars
  <2>5. FileInv'
    BY <1>2 DEF SessionsInv, FileInv, FileOf, At, Self, vars, procVars, serveVars, diskVars, pidVars, histVars
  <2>6. PidFileInv'
    BY <1>2 DEF SessionsInv, PidFileInv, PidFileOf, At, Self, Running, vars, procVars, serveVars,
                diskVars, pidVars
  <2>7. ClientInv'
    BY <1>2 DEF SessionsInv, ClientInv, EntryPid, Alive, Running, vars, procVars
  <2> QED BY <2>1, <2>2, <2>3, <2>4, <2>5, <2>6, <2>7 DEF SessionsInv
<1> QED BY <1>1, <1>2

\* The inductive invariant holds of every behaviour.
THEOREM SessionsInvariant == Spec => []SessionsInv
BY SessionsInit, SessionsStep, PTL DEF Spec

\* Every variable keeps to its type, whatever processes share a PID, a path or the
\* PID file.
THEOREM SessionsTypeCorrect == Spec => []TypeOK
<1>1. SessionsInv => TypeOK BY DEF SessionsInv
<1> QED BY <1>1, SessionsInvariant, PTL

\* The sessions directory tells the truth: a server that is up is listed with its path,
\* and what is listed of a live image is served (write_session and remove_session in
\* ipc/session.rs, against clients that clean up and PIDs used again).
THEOREM TheListIsTrue == Spec => []ListingTellsTruth
<1>1. SessionsInv => ListingTellsTruth
  <2> SUFFICES ASSUME SessionsInv PROVE ListingTellsTruth OBVIOUS
  <2> USE DEF SessionsInv
  <2>1. ServingIsListed BY DEF ServingIsListed, FileInv, FileOf, TypeOK
  <2>2. ListedIsServing
    <3> SUFFICES ASSUME NEW p \in Processes, proc[p] \in {"ready", "cleaning", "leaving"},
                        file[PidOf[p]].state = "listed", file[PidOf[p]].by = Self(p)
                 PROVE  p \in handle
      BY DEF ListedIsServing
    <3>1. file[PidOf[p]] \in Files BY PathFacts DEF TypeOK
    <3>2. file[PidOf[p]] # NoFile BY <3>1, FileFacts
    <3> QED BY <3>2 DEF FileInv, FileOf
  <2> QED BY <2>1, <2>2 DEF ListingTellsTruth
<1> QED BY <1>1, SessionsInvariant, PTL

\* A process that ends in order has removed its socket, its PID file and its session
\* file, also when its start failed half way; only a PID file whose create succeeded and
\* whose write failed is left, without its PID (stop_server, the atexit handler, and the
\* callers of write_pid_file).
THEOREM LeavesNothing == Spec => []NothingLeftBehind
<1>1. SessionsInv => NothingLeftBehind
  <2> SUFFICES ASSUME SessionsInv, NEW p \in Processes, proc[p] = "left"
               PROVE  /\ \A s \in Paths : sock[s] # Self(p)
                      /\ pidFile = Self(p) => halfWritten
                      /\ file[PidOf[p]].state # "absent" => file[PidOf[p]].by # Self(p)
    BY DEF NothingLeftBehind
  <2> USE DEF SessionsInv
  <2>1. p \notin handle BY DEF SocketInv, Serving
  <2>2. \A s \in Paths : sock[s] # Self(p) BY <2>1 DEF SocketInv, At
  <2>3. pidFile = Self(p) => halfWritten BY DEF PidFileInv, PidFileOf, Running, At
  <2>4. file[PidOf[p]].state # "absent" => file[PidOf[p]].by # Self(p)
    <3>1. file[PidOf[p]] \in Files BY PathFacts DEF TypeOK
    <3> QED BY <2>1, <3>1, FileFacts DEF FileInv, FileOf
  <2> QED BY <2>2, <2>3, <2>4
<1> QED BY <1>1, SessionsInvariant, PTL

\* A client is answered by the session it picked unless that one has stopped serving the
\* path or was robbed of it (find_session in ipc/session.rs, send_request in ipc/client.rs).
THEOREM ReachesItsSession == Spec => RightSession
<1> DEFINE Right == \A c \in Clients, q \in Processes :
                      LET p == client[c].entry.by[1]
                          s == client[c].entry.path
                      IN client[c].at = "resolved" /\ client'[c] = Idle /\ Serves(q, s) =>
                           q = p \/ p \notin handle \/ path[p] # s \/ p \in robbed
<1>1. SessionsInv => Right
  <2> SUFFICES ASSUME SessionsInv, NEW c \in Clients, NEW q \in Processes,
                      client[c].at = "resolved", Serves(q, client[c].entry.path),
                      client[c].entry.by[1] \in handle \ robbed,
                      path[client[c].entry.by[1]] = client[c].entry.path
               PROVE  q = client[c].entry.by[1]
    BY DEF SessionsInv, TypeOK
  <2> DEFINE p == client[c].entry.by[1]
  <2>1. p \in Processes BY DEF SessionsInv, TypeOK
  <2>2. sock[path[p]] = Self(p) BY DEF SessionsInv, SocketInv
  <2>3. Self(q) = Self(p) BY <2>2 DEF Serves
  <2> QED BY <2>1, <2>3, Selves DEF SessionsInv
<1> HIDE DEF Right
<1>2. SessionsInv /\ [Next]_vars => [Right]_vars BY <1>1
<1>3. RightSession <=> [][Right]_vars BY DEF RightSession, Right
<1> QED BY <1>2, <1>3, SessionsInvariant, PTL DEF Spec

\* The PID file is removed only by the process that wrote it, on its way out
\* (cleanup_ipc_pid_file and its atexit handler, which remove it by its path).
THEOREM PidFileIsItsWriters == Spec => PidFileRemovedByItsWriter
<1> DEFINE ByWriter == pidFile # Nobody /\ pidFile' # pidFile =>
                         LET p == pidFile[1]
                         IN /\ proc[p] \in {"cleaning", "leaving", "quitting"}
                            /\ proc'[p] # proc[p]
<1>1. SessionsInv /\ Next => ByWriter
  <2> SUFFICES ASSUME SessionsInv, Next, pidFile # Nobody, pidFile' # pidFile
               PROVE  /\ proc[pidFile[1]] \in {"cleaning", "leaving", "quitting"}
                      /\ proc'[pidFile[1]] # proc[pidFile[1]]
    OBVIOUS
  <2>1. TypeOK /\ PidFileInv BY DEF SessionsInv
  <2>2. PICK p \in Processes : StepOf(p) BY <2>1, NextSteps, ClientMoves DEF pidVars
  <2>3. (CleanPidFile(p) \/ Exit(p)) /\ pidFile = Self(p) BY <2>1, <2>2, RemovesItsOwn
  <2>4. pidFile[1] = p BY <2>1, <2>3, Selves
  <2> QED BY <2>1, <2>3, <2>4, Goes DEF At
<1> HIDE DEF ByWriter
<1>2. SessionsInv /\ [Next]_vars => [ByWriter]_vars BY <1>1
<1>3. PidFileRemovedByItsWriter <=> [][ByWriter]_vars BY DEF PidFileRemovedByItsWriter, ByWriter
<1> QED BY <1>2, <1>3, SessionsInvariant, PTL DEF Spec
=============================================================================
