---------------------------- MODULE ConnectProofs ----------------------------
(***************************************************************************)
(* Theorems about Connect, for any command lines, versions, ports and displays *)
(* and any number of failures, kills and changes by others.                *)
(***************************************************************************)
EXTENDS Connect, TLAPS

\* Where the steps of a command are: before the upload, from the shim to the check of
\* the binary, the part for Codex, and uninstall.
Untouched == {"inspect", "read", "adopt", "probe", "look", "stop"}
Uploading == {"probe", "look", "stop", "copy"}
Installing == {"shim", "install", "uninstall", "again", "record", "verify"}
Readying == {"preflight", "clear1", "clear2", "serve", "retire", "spawn", "bridge",
             "bstop", "bstart", "display", "final"}
Removing == {"ucheck", "ustop", "uretire", "uclear", "uwrite"}
Running == Untouched \cup Uploading \cup {"resume", "admit"} \cup Installing
               \cup {"amend"} \cup Readying \cup Removing

\* The display and the port that the bridge of the host serves.
Serving == {Serves(b) : b \in bridge}

\* What no failure, kill or change by others spoils: bridge.pid names one bridge, a client
\* of a live server; xvfb.pid one process, which is one exactly if its display has one.
HostInv ==
    /\ \A a, b \in bridge : a = b
    /\ \A b \in bridge : b.display \in servers
    /\ \A x, y \in xfile : x = y
    /\ \A x \in xfile : x.pid \in {"live", "old"} <=> x.display \in servers

\* What a command knows at each step, whatever goes wrong.
CommandInv ==
    /\ pc # "idle" => run \in Commands
    /\ pc = "idle" => found = {} /\ resume = {}
    /\ pc \in Removing => run.op = "uninstall"
    /\ pc \in Running \ Removing => run.op = "connect"
    /\ pc \in Readying => run.codex
    /\ pc \in Readying \cup {"verify", "amend"} =>
          /\ new \in Records
          /\ run.codex /\ pc # "final" => new.codex # "on"
    /\ pc = "inspect" => run.mode = "remote"
    /\ pc = "read" => (run.mode = "remote" <=> found # {})
    /\ pc \in Uploading => found = {} /\ run.mode # "remote"
    /\ pc = "resume" => found = {}
    /\ pc \in {"bridge", "bstop", "bstart", "display"} => display \in Displays
    /\ \A x \in resume : ~run.codex

\* Which binary the run uses, and what is in its place, unless something went wrong.
BinaryInv ==
    /\ pc = "adopt" => HasRecord /\ Adopts(rec)
    /\ pc \in Uploading => (HasRecord => ~Adopts(rec))
    /\ \A f \in found : Works(f.path)
    /\ pc \in Installing =>
          Works(Used) \/ (found = {} /\ ~run.force /\ file["own"] = Broken)
    /\ pc \in Readying \cup {"amend"} => Works(Used)
    /\ pc # "admit"
    /\ pc = "resume" => file["own"] = run.version
    /\ pc \in Installing \cup Readying \cup {"amend", "done"} =>
          (run.op = "connect" /\ run.force /\ found = {} => file["own"] = run.version)
    /\ pc \in Readying \cup {"record", "verify", "amend", "done"} =>
          (run.op = "connect" /\ run.force /\ run.shims
              => shim = {[template |-> file[Used], port |-> run.port]})

\* What becomes of the bridge that was there when the command began.
KeptInv ==
    /\ pc \in {"copy", "resume", "bstart", "uretire", "uclear"} => bridge = {}
    /\ pc \in {"stop", "copy", "resume"} =>
          /\ \A x, y \in resume : x = y
          /\ \A x \in resume : x.display \in servers
    /\ pc \in Untouched \cup Installing \cup {"amend", "done"} =>
          (run.op = "connect" /\ ~run.codex => Serving = was)
    /\ pc \in {"stop", "copy", "resume"} => (~run.codex => resume = was)
    /\ pc = "resume" => resume # {}

\* A bridge serves the daemon's port on a live display that later runs can find.
Ready ==
    \E x \in xfile :
        /\ x.pid = "live" /\ x.display \in servers
        /\ Serving = {[display |-> x.display, port |-> run.port]}

\* The X server and the bridge for Codex.
ServerInv ==
    /\ pc = "spawn" => xfile = {}
    /\ pc = "uclear" => \A x \in xfile : x.pid \notin {"live", "old"}
    /\ pc \in {"bridge", "bstop", "bstart", "display"} =>
          \E x \in xfile : x.display = display /\ x.pid \in {"live", "reused"}
    /\ pc = "display" => Serving = {[display |-> display, port |-> run.port]}
    /\ pc = "final" =>
          IF new.codex = "on" THEN Ready ELSE \E x \in xfile : x.pid = "reused"
    /\ pc = "done" /\ run.op = "connect" /\ run.codex => Ready

\* What holds of a command to which nothing went wrong.
SoundInv ==
    /\ BinaryInv /\ KeptInv /\ ServerInv
    /\ pc = "failed" /\ run.op = "connect" => Obstacle

Inv ==
    /\ TypeOK
    /\ HostInv /\ CommandInv
    /\ ~hurt => SoundInv

-----------------------------------------------------------------------------
(* Types.                                                                  *)

\* TypeOK in three parts: the host, the command and the ghosts.
HostOK ==
    /\ file \in [Paths -> Versions \cup {None, Broken}]
    /\ shim \subseteq Shims
    /\ bridge \subseteq Bridges /\ strays \subseteq Bridges
    /\ servers \subseteq Displays
    /\ xfile \subseteq [display : Displays, pid : {"live", "old", "dead", "reused"}]
    /\ rec \in Records \cup {None, Broken}

LocalsOK ==
    /\ pc \in {"idle", "done", "failed"} \cup Running
    /\ run \in Commands \cup {None}
    /\ {state, prior, new} \subseteq Records \cup {None}
    /\ found \subseteq [path : Paths, version : Versions]
    /\ changed \in BOOLEAN
    /\ resume \subseteq [display : Displays, port : Ports]
    /\ display \in Displays \cup {None}

GhostsOK ==
    /\ was \subseteq [display : Displays, port : Ports]
    /\ hurt \in BOOLEAN /\ settled \in BOOLEAN
    /\ troubles \in 0 .. MaxTroubles

LEMMA TypeParts == TypeOK <=> HostOK /\ LocalsOK /\ GhostsOK
  BY DEF TypeOK, HostOK, LocalsOK, GhostsOK, Running, Untouched, Uploading, Installing,
     Readying, Removing

\* The fields of a command line.
LEMMA CommandFacts ==
  ASSUME NEW c \in Commands
  PROVE  /\ c.op \in {"connect", "uninstall"} /\ c.mode \in {"plain", "remote", "local"}
         /\ c.force \in BOOLEAN /\ c.shims \in BOOLEAN /\ c.codex \in BOOLEAN
         /\ c.version \in Versions /\ c.port \in Ports
         /\ Schema[c.version] \in Nat
  BY ConnectAssumption DEF Command

\* The binary a run uses is at a path, and is the one it found if it found one.
LEMMA UsedFacts ==
  ASSUME found \subseteq [path : Paths, version : Versions]
  PROVE  /\ Used \in Paths
         /\ found # {} => TheFound \in found /\ TheFound.version \in Versions
                            /\ Used = TheFound.path
<1>1. found # {} => TheFound \in found
  BY DEF TheFound
<1>. QED  BY <1>1 DEF Used, Paths

\* A record is one, with the fields of one.
LEMMA RecordFacts ==
  ASSUME NEW s \in Records
  PROVE  /\ s.schema \in Nat /\ s.hash \in Versions /\ s.remote \in BOOLEAN
         /\ s.codex \in {"none", "on", "off"}
         /\ s.shim \subseteq [template : Versions \cup {None}, port : Ports]
         /\ \A c \in {"none", "on", "off"} : [s EXCEPT !.codex = c] \in Records
         /\ \A n \in Nat : [s EXCEPT !.schema = n] \in Records
  BY DEF Records

LEMMA StampedType ==
  ASSUME NEW s \in Records, run \in Commands PROVE Stamped(s) \in Records
<1>. DEFINE n == IF s.schema < Schema[run.version] THEN Schema[run.version] ELSE s.schema
<1>1. n \in Nat
  BY CommandFacts DEF Records
<1>. HIDE DEF n
<1>2. Stamped(s) = [s EXCEPT !.schema = n]
  BY DEF Stamped, n, Records
<1>. QED  BY <1>1, <1>2, RecordFacts

LEMMA NewStateType ==
  ASSUME run \in Commands, state \in Records \cup {None},
         found \subseteq [path : Paths, version : Versions]
  PROVE  NewState \in Records
<1>1. (IF found = {} THEN run.version ELSE TheFound.version) \in Versions
  BY UsedFacts, CommandFacts
<1>2. ASSUME NEW h \in Versions PROVE NewStateOf(h) \in Records
  <2>. DEFINE sh == CASE run.shims -> {[template |-> run.version, port |-> run.port]}
                      [] ~run.shims /\ state # None -> state.shim
                      [] OTHER -> {}
              cx == IF state = None \/ run.codex THEN "none" ELSE state.codex
  <2>1. sh \subseteq [template : Versions \cup {None}, port : Ports]
    <3>1. run.shims \in BOOLEAN /\ run.version \in Versions /\ run.port \in Ports
      BY CommandFacts
    <3>2. state # None => state.shim \subseteq [template : Versions \cup {None}, port : Ports]
      BY RecordFacts
    <3>3. CASE run.shims
      BY <3>1, <3>3
    <3>4. CASE ~run.shims /\ state # None
      BY <3>2, <3>4
    <3>5. CASE ~run.shims /\ state = None
      BY <3>5
    <3>. QED  BY <3>1, <3>3, <3>4, <3>5
  <2>2. cx \in {"none", "on", "off"}
    <3>1. CASE state = None
      BY <3>1
    <3>2. CASE state \in Records
      <4>1. state.codex \in {"none", "on", "off"}
        BY <3>2, RecordFacts
      <4>. QED  BY <4>1
    <3>. QED  BY <3>1, <3>2
  <2>3. Schema[run.version] \in Nat
    BY CommandFacts
  <2>. HIDE DEF sh, cx
  <2>4. NewStateOf(h) = [schema |-> Schema[run.version], hash |-> h, shim |-> sh,
                         codex |-> cx, remote |-> found # {}]
    BY DEF NewStateOf, sh, cx
  <2>. QED  BY <2>1, <2>2, <2>3, <2>4 DEF Records
<1>. QED  BY <1>1, <1>2 DEF NewState

LEMMA WriteType ==
  ASSUME NEW s \in Records, rec \in Records \cup {None, Broken}, Write(s)
  PROVE  rec' \in Records \cup {None, Broken}
  BY DEF Write

\* The four variables of what runs on the host.
RuntimeOK ==
    /\ bridge \subseteq Bridges /\ strays \subseteq Bridges
    /\ servers \subseteq Displays
    /\ xfile \subseteq [display : Displays, pid : {"live", "old", "dead", "reused"}]

LEMMA StopServerType ==
  ASSUME RuntimeOK, NEW ok, NEW refused, StopServer(ok, refused)
  PROVE  RuntimeOK'
<1>1. \A x \in xfile :
          [x EXCEPT !.pid = "dead"]
              \in [display : Displays, pid : {"live", "old", "dead", "reused"}]
  BY DEF RuntimeOK
<1>2. {[x EXCEPT !.pid = "dead"] : x \in xfile}
          \subseteq [display : Displays, pid : {"live", "old", "dead", "reused"}]
  BY <1>1
<1>. QED  BY <1>2 DEF RuntimeOK, StopServer, ServersEnd, runtime

LEMMA StartBridgeType ==
  ASSUME HostOK, found \subseteq [path : Paths, version : Versions],
         NEW d, NEW p \in Ports, NEW ok, NEW failed, StartBridge(d, p, ok, failed),
         UNCHANGED <<servers, xfile>>
  PROVE  RuntimeOK'
<1>1. Used \in Paths
  BY UsedFacts
<1>2. d \in servers /\ Works(Used) =>
          [display |-> d, port |-> p, path |-> Used, version |-> file[Used]] \in Bridges
  BY <1>1 DEF HostOK, Works, Bridges
<1>. QED  BY <1>2 DEF StartBridge, HostOK, RuntimeOK

\* No step leaves something on the host that is not of its type.
LEMMA HostTypeStep ==
  ASSUME HostOK, LocalsOK, CommandInv, [Next]_vars PROVE HostOK'
<1>. USE DEF HostOK
<1>1. CASE UNCHANGED host
  BY <1>1 DEF host, runtime
<1>2. RuntimeOK /\ found \subseteq [path : Paths, version : Versions]
  BY DEF RuntimeOK, LocalsOK
<1>3. pc # "idle" => run \in Commands /\ run.version \in Versions /\ run.port \in Ports
  BY CommandFacts DEF CommandInv
<1>4. ASSUME RuntimeOK', UNCHANGED <<file, shim, rec>> PROVE HostOK'
  BY <1>4 DEF RuntimeOK
<1>5. ASSUME UNCHANGED <<file, shim, runtime>>, rec' \in Records \cup {None, Broken}
      PROVE  HostOK'
  BY <1>5 DEF runtime
<1>10. CASE Stop \/ ClearBridge \/ StopOldBridge \/ UninstallBridge
  BY <1>10 DEF Stop, ClearBridge, StopOldBridge, UninstallBridge, StopBridge
<1>11. CASE Copy
  BY <1>11, <1>3 DEF Copy, runtime, Paths
<1>12. CASE Resume
  <2>1. PICK b \in resume : StartBridge(b.display, b.port, "shim", "admit")
    BY <1>12 DEF Resume
  <2>2. b.port \in Ports
    BY DEF LocalsOK
  <2>3. RuntimeOK'
    BY <1>2, <1>12, <2>1, <2>2, StartBridgeType DEF Resume
  <2>. QED  BY <1>4, <1>12, <2>3 DEF Resume
<1>13. CASE Admit
  <2>1. state # None => Stamped([state EXCEPT !.codex = "off"]) \in Records
    BY <1>3, <1>13, RecordFacts, StampedType DEF Admit, LocalsOK
  <2>. QED  BY <1>5, <1>13, <2>1, WriteType DEF Admit
<1>14. CASE Install
  <2>1. Works(Used) => [template |-> file[Used], port |-> run.port] \in Shims
    BY <1>3, <1>14 DEF Works, Shims, Install
  <2>. QED  BY <1>14, <2>1 DEF Install, runtime
<1>15. CASE Uninstall
  BY <1>15 DEF Uninstall, runtime
<1>16. CASE Record
  BY <1>2, <1>3, <1>5, <1>16, NewStateType, WriteType DEF Record, LocalsOK
<1>17. CASE Amend
  BY <1>5, <1>17, WriteType DEF Amend, CommandInv
<1>18. CASE ClearServer
  BY <1>2, <1>4, <1>18, StopServerType DEF ClearServer
<1>19. CASE Retire
  BY <1>2, <1>4, <1>19, StopServerType DEF Retire
<1>20. CASE UninstallServer
  BY <1>2, <1>4, <1>20, StopServerType DEF UninstallServer
<1>21. CASE Spawn
  BY <1>21 DEF Spawn
<1>22. CASE StartNewBridge
  BY <1>2, <1>3, <1>4, <1>22, StartBridgeType DEF StartNewBridge
<1>23. CASE Final
  BY <1>5, <1>23, WriteType DEF Final, CommandInv, Readying
<1>24. CASE UninstallFiles
  BY <1>24 DEF UninstallFiles, runtime
<1>25. CASE UninstallRecord
  <2>1. HasRecord => Stamped([rec EXCEPT !.codex = "none"]) \in Records
    BY <1>3, <1>25, RecordFacts, StampedType DEF UninstallRecord, HasRecord
  <2>. QED  BY <1>5, <1>25, <2>1, WriteType DEF UninstallRecord
<1>26. CASE BridgeDies
  BY <1>26 DEF BridgeDies
<1>27. CASE ServerDies
  <2>1. PICK d \in servers, pid \in {"dead", "reused"} :
            /\ ServersEnd({d})
            /\ xfile' = {[x EXCEPT !.pid = IF x.display = d THEN pid ELSE @] : x \in xfile}
    BY <1>27 DEF ServerDies
  <2>2. xfile' \subseteq [display : Displays, pid : {"live", "old", "dead", "reused"}]
    BY <2>1
  <2>. QED  BY <1>27, <2>1, <2>2 DEF ServerDies, ServersEnd
<1>28. CASE PackageChanges
  BY <1>28 DEF PackageChanges, runtime, Paths
<1>29. CASE FilesRemoved
  BY <1>29 DEF FilesRemoved, runtime, Paths
<1>30. CASE (\E c \in Commands : Start(c)) \/ End \/ Kill
  BY <1>1, <1>30 DEF Start, End, Kill
<1>31. CASE Connect
  BY <1>1, <1>10, <1>11, <1>12, <1>13, <1>14, <1>15, <1>16, <1>17, <1>31
     DEF Connect, Inspect, Read, Probe, Look, CheckShim, Verify
<1>32. CASE Codex
  BY <1>1, <1>10, <1>18, <1>19, <1>21, <1>22, <1>23, <1>32
     DEF Codex, Preflight, Serve, CheckBridge, FixDisplay
<1>33. CASE UninstallCodex
  BY <1>1, <1>10, <1>20, <1>24, <1>25, <1>33 DEF UninstallCodex, CheckUninstall
<1>. QED  BY <1>1, <1>26, <1>27, <1>28, <1>29, <1>30, <1>31, <1>32, <1>33
          DEF Next, Others, vars

\* No step leaves a variable of the command that is not of its type.
LEMMA LocalsTypeStep ==
  ASSUME HostOK, LocalsOK, CommandInv, [Next]_vars PROVE LocalsOK'
<1>. USE DEF LocalsOK
<1>. DEFINE Pcs == {"idle", "done", "failed"} \cup Running
<1>1. ASSUME UNCHANGED locals, pc' \in Pcs PROVE LocalsOK'
  BY <1>1 DEF locals
<1>2. CASE UNCHANGED <<pc, locals>>
  BY <1>2 DEF locals
<1>3. \A s \in {"idle", "done", "failed", "inspect", "read", "adopt", "probe", "look",
               "stop", "copy", "resume", "admit", "shim", "install", "uninstall",
               "again", "record", "verify", "amend", "preflight", "clear1", "clear2",
               "serve", "retire", "spawn", "bridge", "bstop", "bstart", "display",
               "final", "ucheck", "ustop", "uretire", "uclear", "uwrite"} : s \in Pcs
  BY DEF Running, Untouched, Uploading, Installing, Readying, Removing
<1>4. pc # "idle" => run \in Commands /\ run.version \in Versions /\ run.port \in Ports
                        /\ run.codex \in BOOLEAN
  BY CommandFacts DEF CommandInv
<1>5. {Serves(b) : b \in bridge} \subseteq [display : Displays, port : Ports]
  BY DEF HostOK, Bridges, Serves
<1>6. ASSUME NEW s \in Records \cup {None}, Decide(s),
             UNCHANGED <<run, found, resume, display, new>>
      PROVE  LocalsOK'
  <2>1. state' \in Records \cup {None} /\ prior' \in Records \cup {None}
    BY <1>6 DEF Decide
  <2>2. changed' \in BOOLEAN /\ pc' \in Pcs
    BY <1>3, <1>6 DEF Decide
  <2>. QED  BY <1>6, <2>1, <2>2
<1>. HIDE DEF Pcs
<1>10. ASSUME NEW c \in Commands, Start(c) PROVE LocalsOK'
  BY <1>3, <1>10 DEF Start, Pcs
<1>11. CASE Inspect
  <2>1. found' \subseteq [path : Paths, version : Versions]
    BY <1>11 DEF Inspect, Works
  <2>2. changed' \in BOOLEAN /\ pc' \in Pcs
    BY <1>3, <1>11 DEF Inspect
  <2>. QED  BY <1>11, <2>1, <2>2 DEF Inspect, Pcs
<1>12. CASE Read
  <2>1. CASE pc' = "failed" /\ UNCHANGED <<state, prior, changed>>
    BY <1>3, <1>12, <2>1 DEF Read, Pcs
  <2>2. ASSUME NEW s \in {rec, None}, s # Broken \/ s = None, Decide(s) PROVE LocalsOK'
    BY <1>6, <1>12, <2>2 DEF Read, HostOK
  <2>. QED  BY <1>12, <2>1, <2>2 DEF Read
<1>13. CASE Probe
  BY <1>3, <1>13 DEF Probe, Pcs
<1>14. CASE Look
  BY <1>3, <1>5, <1>14 DEF Look, Pcs
<1>15. CASE Record
  BY <1>3, <1>4, <1>15, NewStateType DEF Record, Pcs
<1>16. CASE Serve
  <2>1. \A x \in xfile : x.display \in Displays
    BY DEF HostOK
  <2>. QED  BY <1>3, <1>16, <2>1 DEF Serve, Pcs
<1>17. CASE Spawn
  BY <1>3, <1>17 DEF Spawn, Pcs
<1>18. CASE FixDisplay
  <2>1. [new EXCEPT !.codex = "on"] \in Records
    BY <1>18, RecordFacts DEF FixDisplay, CommandInv, Readying
  <2>. QED  BY <1>3, <1>18, <2>1 DEF FixDisplay, Pcs
<1>19. CASE End
  BY <1>3, <1>19 DEF End, Pcs
<1>20. CASE Kill
  BY <1>1, <1>3, <1>20 DEF Kill
<1>21. CASE Stop \/ ClearBridge \/ StopOldBridge \/ UninstallBridge
  BY <1>1, <1>3, <1>21 DEF Stop, ClearBridge, StopOldBridge, UninstallBridge
<1>22. CASE Copy \/ Resume \/ Admit
  BY <1>1, <1>3, <1>22 DEF Copy, Resume, Admit, StartBridge
<1>23. CASE CheckShim \/ Install \/ Uninstall \/ Verify \/ Amend
  BY <1>1, <1>3, <1>23 DEF CheckShim, Install, Uninstall, Verify, Amend
<1>24. CASE Preflight \/ ClearServer \/ Retire \/ CheckBridge \/ StartNewBridge \/ Final
  BY <1>1, <1>3, <1>24 DEF Preflight, ClearServer, Retire, StopServer, CheckBridge,
     StartNewBridge, StartBridge, Final
<1>25. CASE CheckUninstall \/ UninstallServer \/ UninstallFiles \/ UninstallRecord
  BY <1>1, <1>3, <1>25 DEF CheckUninstall, UninstallServer, StopServer, UninstallFiles,
     UninstallRecord
<1>26. CASE Others
  BY <1>2, <1>26 DEF Others, BridgeDies, ServerDies, PackageChanges, FilesRemoved, Disturbs
<1>. QED  BY <1>2, <1>10, <1>11, <1>12, <1>13, <1>14, <1>15, <1>16, <1>17, <1>18, <1>19,
             <1>20, <1>21, <1>22, <1>23, <1>24, <1>25, <1>26
          DEF Next, Connect, Codex, UninstallCodex, vars

\* A step that is neither the first nor the last of a command keeps what it knew of the
\* bridge, and if something goes wrong in it, that counts.
LEMMA GhostSteps ==
  ASSUME Connect \/ Codex \/ UninstallCodex \/ Kill \/ Others \/ UNCHANGED vars
  PROVE  UNCHANGED was /\ settled' \in {settled, FALSE} /\ (Fine \/ Trouble)
<1>1. CASE UNCHANGED vars
  BY <1>1 DEF vars, ghosts, Fine
<1>2. CASE Kill \/ Others
  BY <1>2 DEF Kill, Others, BridgeDies, ServerDies, PackageChanges, FilesRemoved, Disturbs
<1>3. CASE Inspect \/ Read \/ Probe \/ Look \/ CheckShim \/ Install \/ Uninstall \/ Verify
  BY <1>3 DEF Inspect, Read, Probe, Look, CheckShim, Install, Uninstall, Verify
<1>4. CASE Stop \/ ClearBridge \/ StopOldBridge \/ UninstallBridge
  BY <1>4 DEF Stop, ClearBridge, StopOldBridge, UninstallBridge, StopBridge
<1>5. CASE Copy \/ Resume \/ StartNewBridge
  BY <1>5 DEF Copy, Resume, StartNewBridge, StartBridge
<1>6. CASE Admit \/ Record \/ Amend \/ Final \/ UninstallRecord
  BY <1>6 DEF Admit, Record, Amend, Final, UninstallRecord, Write
<1>7. CASE ClearServer \/ Retire \/ UninstallServer
  BY <1>7 DEF ClearServer, Retire, UninstallServer, StopServer
<1>8. CASE Preflight \/ Serve \/ Spawn \/ CheckBridge \/ FixDisplay
  BY <1>8 DEF Preflight, Serve, Spawn, CheckBridge, FixDisplay
<1>9. CASE CheckUninstall \/ UninstallFiles
  BY <1>9 DEF CheckUninstall, UninstallFiles
<1>. QED  BY <1>1, <1>2, <1>3, <1>4, <1>5, <1>6, <1>7, <1>8, <1>9
          DEF Connect, Codex, UninstallCodex

LEMMA GhostsTypeStep ==
  ASSUME HostOK, GhostsOK, [Next]_vars PROVE GhostsOK'
<1>. USE DEF GhostsOK
<1>1. {Serves(b) : b \in bridge} \subseteq [display : Displays, port : Ports]
  BY DEF HostOK, Bridges, Serves
<1>2. ASSUME NEW c \in Commands, Start(c) PROVE GhostsOK'
  BY <1>1, <1>2 DEF Start
<1>3. CASE End
  <2>1. settled' \in BOOLEAN
    BY <1>3, Zenon DEF End
  <2>. QED  BY <1>3, <2>1 DEF End
<1>4. CASE UNCHANGED was /\ settled' \in {settled, FALSE} /\ (Fine \/ Trouble)
  <2>1. hurt' \in BOOLEAN /\ settled' \in BOOLEAN
    BY <1>4, Zenon DEF Fine, Trouble
  <2>2. troubles' \in 0 .. MaxTroubles
    BY <1>4, ConnectAssumption DEF Fine, Trouble
  <2>. QED  BY <1>4, <2>1, <2>2, Zenon
<1>. QED  BY <1>2, <1>3, <1>4, GhostSteps DEF Next

LEMMA TypeStep == ASSUME TypeOK, CommandInv, [Next]_vars PROVE TypeOK'
<1>1. HostOK' /\ LocalsOK' /\ GhostsOK'
  BY TypeParts, HostTypeStep, LocalsTypeStep, GhostsTypeStep
<1>2. TypeOK' <=> HostOK' /\ LocalsOK' /\ GhostsOK'
  BY TypeParts, PTL
<1>. QED  BY <1>1, <1>2

-----------------------------------------------------------------------------
(* The host.                                                               *)

LEMMA StopServerHost ==
  ASSUME HostInv, HostOK, NEW ok, NEW refused, StopServer(ok, refused)
  PROVE  HostInv'
<1>. USE DEF HostInv
<1>1. CASE UNCHANGED runtime
  BY <1>1 DEF runtime
<1>2. CASE xfile' = {} /\ UNCHANGED <<bridge, strays, servers>>
  BY <1>2
<1>3. ASSUME {x \in xfile : x.pid = "reused"} = {},
             ServersEnd({x.display : x \in {x \in xfile : x.pid \in {"live", "old"}}})
      PROVE  /\ \A a, b \in bridge' : a = b
             /\ \A b \in bridge' : b.display \in servers'
  BY <1>3 DEF ServersEnd
<1>4. ASSUME {x \in xfile : x.pid = "reused"} = {},
             ServersEnd({x.display : x \in {x \in xfile : x.pid \in {"live", "old"}}}),
             xfile' = {[x EXCEPT !.pid = "dead"] : x \in xfile}
      PROVE  HostInv'
  <2>1. \A x \in xfile : [x EXCEPT !.pid = "dead"].pid = "dead"
                         /\ [x EXCEPT !.pid = "dead"].display = x.display
    BY DEF HostOK
  <2>2. \A x \in xfile : x.display \notin servers'
    BY <1>4 DEF ServersEnd
  <2>3. \A y \in xfile' : y.pid = "dead" /\ y.display \notin servers'
    BY <1>4, <2>1, <2>2
  <2>4. \A x, y \in xfile' : x = y
    BY <1>4
  <2>. QED  BY <1>3, <1>4, <2>3, <2>4
<1>. QED  BY <1>1, <1>2, <1>3, <1>4 DEF StopServer

LEMMA StartBridgeHost ==
  ASSUME HostInv, NEW d, NEW p, NEW ok, NEW failed, StartBridge(d, p, ok, failed),
         UNCHANGED <<servers, xfile>>
  PROVE  HostInv'
  BY DEF HostInv, StartBridge

LEMMA ServerDiesHost == ASSUME HostInv, HostOK, ServerDies PROVE HostInv'
<1>1. PICK d \in servers, pid \in {"dead", "reused"} :
          /\ ServersEnd({d})
          /\ xfile' = {[x EXCEPT !.pid = IF x.display = d THEN pid ELSE @] : x \in xfile}
  BY DEF ServerDies
<1>. DEFINE After(x) == [x EXCEPT !.pid = IF x.display = d THEN pid ELSE @]
<1>2. \A x \in xfile : /\ After(x).display = x.display
                      /\ After(x).pid = IF x.display = d THEN pid ELSE x.pid
  BY DEF HostOK
<1>3. \A y \in xfile' : \E x \in xfile : y = After(x)
  BY <1>1
<1>. HIDE DEF After
<1>4. \A x, y \in xfile' : x = y
  BY <1>3 DEF HostInv
<1>5. \A x \in xfile' : x.pid \in {"live", "old"} <=> x.display \in servers'
  BY <1>1, <1>2, <1>3 DEF HostInv, ServersEnd
<1>6. (\A a, b \in bridge' : a = b) /\ \A b \in bridge' : b.display \in servers'
  BY <1>1 DEF HostInv, ServersEnd
<1>. QED  BY <1>4, <1>5, <1>6 DEF HostInv

LEMMA HostStep == ASSUME HostInv, HostOK, [Next]_vars PROVE HostInv'
<1>. USE DEF HostInv
<1>1. CASE UNCHANGED runtime
  BY <1>1 DEF runtime
<1>2. CASE bridge' = {} /\ UNCHANGED <<servers, xfile>>
  BY <1>2
<1>3. CASE Stop \/ ClearBridge \/ StopOldBridge \/ UninstallBridge
  BY <1>3 DEF Stop, ClearBridge, StopOldBridge, UninstallBridge, StopBridge
<1>4. CASE Resume \/ StartNewBridge
  BY <1>4, StartBridgeHost DEF Resume, StartNewBridge
<1>5. CASE ClearServer \/ Retire \/ UninstallServer
  BY <1>5, StopServerHost DEF ClearServer, Retire, UninstallServer
<1>6. CASE Spawn
  BY <1>6 DEF Spawn
<1>7. CASE UninstallFiles
  BY <1>1, <1>7 DEF UninstallFiles
<1>8. CASE BridgeDies
  BY <1>8 DEF BridgeDies
<1>9. CASE Connect
  BY <1>1, <1>3, <1>4, <1>9 DEF Connect, Inspect, Read, Probe, Look, Copy, Admit, CheckShim,
     Install, Uninstall, Record, Verify, Amend, host
<1>10. CASE Codex
  BY <1>1, <1>3, <1>4, <1>5, <1>6, <1>10 DEF Codex, Preflight, Serve, CheckBridge,
     FixDisplay, Final, host
<1>11. CASE UninstallCodex
  BY <1>1, <1>3, <1>5, <1>7, <1>11 DEF UninstallCodex, CheckUninstall, UninstallRecord, host
<1>. QED  BY <1>1, <1>8, <1>9, <1>10, <1>11, ServerDiesHost
          DEF Next, Others, PackageChanges, FilesRemoved, Start, End, Kill, host, vars

-----------------------------------------------------------------------------
(* What a command knows.                                                   *)

LEMMA CommandStep ==
  ASSUME CommandInv, HostOK, LocalsOK, [Next]_vars PROVE CommandInv'
<1>. USE DEF CommandInv, Running, Untouched, Uploading, Installing, Readying, Removing
<1>1. ASSUME NEW c \in Commands, Start(c) PROVE CommandInv'
  <2>1. pc' \in {"ucheck", "inspect", "read"}
    BY <1>1 DEF Start
  <2>2. /\ pc' = "ucheck" <=> c.op = "uninstall"
        /\ pc' = "inspect" => c.mode = "remote"
        /\ pc' = "read" => c.mode # "remote"
    BY <1>1, CommandFacts DEF Start
  <2>. QED  BY <1>1, <2>1, <2>2, CommandFacts DEF Start
<1>2. CASE End
  BY <1>2 DEF End
<1>3. CASE Kill
  BY <1>3 DEF Kill, locals
<1>4. CASE Others
  BY <1>4 DEF Others, BridgeDies, ServerDies, PackageChanges, FilesRemoved, Disturbs, Trouble,
     locals
<1>5. CASE Inspect
  BY <1>5 DEF Inspect, Fine
<1>6. CASE Read
  BY <1>6 DEF Read, Fine, Trouble, Decide, Adopts
<1>7. CASE Probe
  BY <1>7 DEF Probe, Fine, Trouble
<1>8. CASE Look
  BY <1>8 DEF Look, Fine, Trouble
<1>9. CASE Stop
  BY <1>9 DEF Stop, StopBridge, Fine, Trouble, locals
<1>10. CASE Copy
  BY <1>10 DEF Copy, Fine, Trouble, locals
<1>11. CASE Resume
  BY <1>11 DEF Resume, StartBridge, Fine, Trouble, locals
<1>12. CASE Admit
  BY <1>12 DEF Admit, locals
<1>13. CASE CheckShim \/ Install \/ Uninstall
  BY <1>13 DEF CheckShim, Install, Uninstall, Fine, Trouble, locals
<1>14. CASE Record
  BY <1>14, NewStateType DEF Record, LocalsOK, Write, Fine, Trouble, NewState, NewStateOf
<1>15. CASE Verify \/ Amend
  BY <1>15 DEF Verify, Amend, locals
<1>16. CASE Preflight \/ ClearBridge \/ Serve \/ CheckBridge \/ StopOldBridge
  <2>1. \A x \in xfile : x.display \in Displays
    BY DEF HostOK
  <2>. QED  BY <1>16, <2>1 DEF Preflight, ClearBridge, Serve, CheckBridge, StopOldBridge, locals
<1>17. CASE ClearServer \/ Retire
  BY <1>17 DEF ClearServer, Retire, StopServer, locals
<1>18. CASE Spawn
  BY <1>18 DEF Spawn
<1>19. CASE StartNewBridge
  BY <1>19 DEF StartNewBridge, StartBridge, locals
<1>20. CASE FixDisplay
  BY <1>20, RecordFacts DEF FixDisplay
<1>21. CASE Final
  BY <1>21 DEF Final, locals
<1>22. CASE UninstallCodex
  BY <1>22 DEF UninstallCodex, CheckUninstall, UninstallBridge, UninstallServer, StopServer,
     UninstallFiles, UninstallRecord, locals
<1>23. CASE UNCHANGED vars
  BY <1>23 DEF vars, locals, ghosts
<1>. QED  BY <1>1, <1>2, <1>3, <1>4, <1>5, <1>6, <1>7, <1>8, <1>9, <1>10, <1>11, <1>12,
             <1>13, <1>14, <1>15, <1>16, <1>17, <1>18, <1>19, <1>20, <1>21, <1>22, <1>23
          DEF Next, Connect, Codex

-----------------------------------------------------------------------------
(* A command to which nothing goes wrong.                                  *)

\* Used, and whether it works, depend on nothing but the binaries and what was found.
LEMMA UsedSame ==
  ASSUME UNCHANGED <<file, found>> PROVE Used' = Used /\ (Works(Used)' <=> Works(Used))
  BY DEF Used, TheFound, Works

LEMMA BinaryStart == ASSUME NEW c \in Commands, Start(c), CommandInv PROVE BinaryInv'
<1>1. pc' \in {"ucheck", "inspect", "read"} /\ found' = {}
  BY DEF Start, CommandInv
<1>. QED  BY <1>1 DEF BinaryInv, Uploading, Installing, Readying

\* The choice of the binary, and the upload.
LEMMA BinaryUpload ==
  ASSUME TypeOK, CommandInv, BinaryInv, KeptInv, ~hurt',
         Inspect \/ Read \/ Probe \/ Look \/ Stop \/ Copy \/ Resume \/ Admit
  PROVE  BinaryInv'
<1>. USE DEF BinaryInv, Uploading, Installing, Readying, Trouble
<1>1. CASE Inspect
  <2>1. CASE pc' = "failed" /\ UNCHANGED <<found, file>>
    BY <2>1 DEF Works
  <2>2. ASSUME NEW p \in Paths, Works(p), found' = {[path |-> p, version |-> file[p]]},
               pc' \in {"shim", "read"}, UNCHANGED <<file, run>>
        PROVE  BinaryInv'
    <3>1. TheFound' \in found'
      BY <2>2 DEF TheFound
    <3>2. Used' = p
      BY <2>2, <3>1 DEF Used
    <3>3. Works(p)' /\ \A f \in found' : f.path = p
      BY <2>2 DEF Works
    <3>. QED  BY <2>2, <3>2, <3>3 DEF Works
  <2>. QED  BY <1>1, <2>1, <2>2 DEF Inspect, host
<1>2. CASE Read
  <2>1. Used' = Used /\ (Works(Used)' <=> Works(Used))
    BY <1>2, UsedSame DEF Read, host
  <2>2. found # {} => Works(Used)
    BY UsedFacts DEF TypeOK
  <2>3. pc' \in {"adopt", "shim", "probe", "failed"} /\ UNCHANGED <<rec, run, file, found>>
    BY <1>2 DEF Read, Decide, host
  <2>4. pc' # "failed" => \E s \in {rec, None} :
            /\ IF rec = Broken THEN s = None ELSE s = rec
            /\ Decide(s)
    BY <1>2 DEF Read
  <2>5. ASSUME NEW s \in {rec, None}, IF rec = Broken THEN s = None ELSE s = rec, Decide(s)
        PROVE  /\ pc' = "adopt" => HasRecord /\ Adopts(rec)
               /\ pc' = "probe" => found = {} /\ (HasRecord => ~Adopts(rec))
               /\ pc' = "shim" => found # {}
    <3>1. CASE Adopts(s)
      <4>1. s # None /\ found = {}
        BY <1>2, <3>1 DEF Adopts, CommandInv, Read
      <4>2. pc' = "adopt"
        BY <2>5, <3>1, <4>1 DEF Decide
      <4>. QED  BY <2>5, <3>1, <4>1, <4>2 DEF HasRecord
    <3>2. CASE ~Adopts(s) /\ found # {}
      BY <2>5, <3>2 DEF Decide
    <3>3. CASE ~Adopts(s) /\ found = {}
      BY <2>5, <3>3 DEF Decide, HasRecord
    <3>. QED  BY <3>1, <3>2, <3>3
  <2>6. /\ pc' = "adopt" => HasRecord /\ Adopts(rec)
        /\ pc' = "probe" => found = {} /\ (HasRecord => ~Adopts(rec))
        /\ pc' = "shim" => found # {}
    BY <2>4, <2>5
  <2>. QED  BY <2>1, <2>2, <2>3, <2>6 DEF HasRecord, Adopts, Works
<1>3. CASE Probe
  BY <1>3, UsedSame DEF Probe, host, HasRecord, Adopts, Works, CommandInv, Used, TypeOK, Paths
<1>4. CASE Look
  BY <1>4 DEF Look, host, HasRecord, Adopts, Works
<1>5. CASE Stop
  BY <1>5 DEF Stop, locals, HasRecord, Adopts, Works
<1>6. CASE Copy
  <2>1. pc' \in {"shim", "resume", "failed"} /\ UNCHANGED <<run, found, rec>>
    BY <1>6 DEF Copy, locals
  <2>2. found = {} /\ found' = {} /\ Used' = "own" /\ run.version \in Versions
    BY <1>6, <2>1, CommandFacts DEF Copy, CommandInv, Used
  <2>3. pc' # "failed" => file'["own"] = run.version
    BY <1>6 DEF Copy, TypeOK, Paths
  <2>. QED  BY <2>1, <2>2, <2>3 DEF Works
<1>7. CASE Resume
  <2>1. pc' \in {"shim", "admit"} /\ UNCHANGED <<run, found, rec, file>>
    BY <1>7 DEF Resume, locals, StartBridge
  <2>2. found = {} /\ Used = "own" /\ file["own"] = run.version /\ run.version \in Versions
    BY <1>7, CommandFacts DEF Resume, CommandInv, Used
  <2>3. pc' = "shim"
    <3>1. PICK b \in resume : StartBridge(b.display, b.port, "shim", "admit")
      BY <1>7 DEF Resume
    <3>2. b.display \in servers /\ Works(Used)
      BY <1>7, <2>2 DEF Resume, KeptInv, Works
    <3>. QED  BY <3>1, <3>2 DEF StartBridge
  <2>. QED  BY <2>1, <2>2, <2>3, UsedSame DEF Works
<1>8. CASE Admit
  BY <1>8 DEF Admit
<1>. QED  BY <1>1, <1>2, <1>3, <1>4, <1>5, <1>6, <1>7, <1>8

\* The shim, and what runs with the binary that was chosen.
LEMMA BinaryInstall ==
  ASSUME TypeOK, CommandInv, BinaryInv, ~hurt',
         CheckShim \/ Install \/ Uninstall \/ Record \/ Verify \/ Amend
  PROVE  BinaryInv'
<1>. USE DEF BinaryInv, Uploading, Installing, Readying, Trouble
<1>1. UNCHANGED <<file, run, found>>
  BY DEF CheckShim, Install, Uninstall, Record, Verify, Amend, host, locals
<1>2. Used' = Used /\ (Works(Used)' <=> Works(Used)) /\ \A f \in found : Works(f.path)'
  BY <1>1, UsedSame DEF Works
<1>3. CASE CheckShim
  <2>1. /\ pc = "shim" /\ pc' \in {"install", "record"}
        /\ pc' = "record" => ~(run.force /\ run.shims)
    BY <1>3 DEF CheckShim, NeedsShimInstall
  <2>. QED  BY <1>1, <1>2, <2>1
<1>4. CASE Install
  <2>1. /\ pc' \in {"record", "uninstall", "failed"}
        /\ pc' = "record" => shim' = {[template |-> file[Used], port |-> run.port]}
    BY <1>4 DEF Install
  <2>. QED  BY <1>1, <1>2, <1>4, <2>1 DEF Install
<1>5. CASE Uninstall
  BY <1>1, <1>2, <1>5 DEF Uninstall
<1>6. CASE Record \/ Verify \/ Amend
  <2>1. UNCHANGED shim /\ pc \in {"record", "verify", "amend"}
           /\ pc' \in {"verify", "amend", "failed", "preflight", "done"}
           /\ (pc = "verify" => pc' = "failed" \/ (pc' = "amend" /\ Works(Used)))
           /\ (pc = "record" => pc' = "verify") /\ (pc = "amend" => pc' # "verify")
    BY <1>6 DEF Record, Verify, Amend, host
  <2>. QED  BY <1>1, <1>2, <2>1
<1>. QED  BY <1>3, <1>4, <1>5, <1>6

\* Neither Codex nor uninstall changes a binary or a shim.
LEMMA BinaryRest ==
  ASSUME BinaryInv, CommandInv, Codex \/ UninstallCodex \/ UNCHANGED vars
  PROVE  BinaryInv'
<1>. USE DEF BinaryInv, CommandInv, Uploading, Installing, Readying, Removing
<1>1. CASE UNCHANGED vars
  <2>1. UNCHANGED <<file, shim, rec, pc, run, found>>
    BY <1>1 DEF vars, host, locals
  <2>. QED  BY <2>1, UsedSame DEF Works, HasRecord, Adopts
<1>2. CASE Codex
  <2>1. UNCHANGED <<file, shim, run, found>> /\ pc \in Readying
           /\ pc' \in Readying \cup {"done", "failed"}
    BY <1>2 DEF Codex, Preflight, ClearBridge, ClearServer, StopServer, Serve, Retire, Spawn,
       CheckBridge, StopOldBridge, StartNewBridge, StartBridge, FixDisplay, Final, host, locals
  <2>. QED  BY <2>1, UsedSame DEF Works
<1>3. CASE UninstallCodex
  <2>1. UNCHANGED <<file, shim, run, found>> /\ pc \in Removing
           /\ pc' \in Removing \cup {"done", "failed"}
    BY <1>3 DEF UninstallCodex, CheckUninstall, UninstallBridge, UninstallServer, StopServer,
       UninstallFiles, UninstallRecord, host, locals
  <2>. QED  BY <2>1, UsedSame DEF Works
<1>. QED  BY <1>1, <1>2, <1>3

\* What is served depends on the bridge alone.
LEMMA ServingFacts ==
  /\ bridge = {} => Serving = {}
  /\ bridge' = {} => Serving' = {}
  /\ UNCHANGED bridge => Serving' = Serving
  /\ \A b : bridge' = {b} => Serving' = {Serves(b)}
  BY DEF Serving, Serves

LEMMA KeptStart == ASSUME NEW c \in Commands, Start(c), CommandInv PROVE KeptInv'
<1>1. pc' \in {"ucheck", "inspect", "read"} /\ was' = Serving /\ UNCHANGED bridge
  BY DEF Start, Serving, host, runtime
<1>. QED  BY <1>1, ServingFacts DEF KeptInv, Untouched, Installing

\* The bridge is stopped for the upload, and started again.
LEMMA KeptUpload ==
  ASSUME TypeOK, HostInv, CommandInv, BinaryInv, KeptInv, ~hurt', UNCHANGED was, Connect
  PROVE  KeptInv'
<1>. USE DEF KeptInv, Untouched, Uploading, Installing, Trouble
<1>1. ASSUME UNCHANGED <<bridge, run>>, pc \in Untouched \cup Installing \cup {"amend"},
             pc' \in (Untouched \ {"stop"}) \cup Installing
                        \cup {"amend", "done", "preflight", "failed"}
      PROVE  KeptInv'
  BY <1>1, ServingFacts
<1>2. CASE Inspect \/ Read \/ Probe \/ CheckShim \/ Install \/ Uninstall \/ Record \/ Verify
           \/ Amend
  <2>1. UNCHANGED <<bridge, run>>
    BY <1>2 DEF Inspect, Read, Probe, CheckShim, Install, Uninstall, Record, Verify, Amend,
       host, runtime, locals
  <2>2. pc \in Untouched \cup Installing \cup {"amend"}
    BY <1>2 DEF Inspect, Read, Probe, CheckShim, Install, Uninstall, Record, Verify, Amend
  <2>3. pc' \in (Untouched \ {"stop"}) \cup Installing
                   \cup {"amend", "done", "preflight", "failed"}
    BY <1>2 DEF Inspect, Read, Decide, Probe, CheckShim, Install, Uninstall, Record, Verify,
       Amend
  <2>. QED  BY <1>1, <2>1, <2>2, <2>3
<1>3. CASE Look
  <2>1. pc = "look" /\ pc' = "stop" /\ UNCHANGED <<bridge, servers, run>>
           /\ resume' = IF run.codex THEN {} ELSE Serving
    BY <1>3 DEF Look, host, runtime, Serving
  <2>2. \A x, y \in Serving : x = y /\ x.display \in servers
    BY DEF HostInv, Serving, Serves
  <2>3. run.op = "connect"
    BY <2>1 DEF CommandInv, Running, Removing
  <2>. QED  BY <2>1, <2>2, <2>3, ServingFacts
<1>4. CASE Stop
  BY <1>4 DEF Stop, StopBridge, locals
<1>5. CASE Copy
  <2>1. pc = "copy" /\ bridge = {} /\ UNCHANGED <<bridge, servers, run, resume>>
           /\ pc' \in {"shim", "resume", "failed"}
           /\ (pc' = "shim" => resume = {}) /\ (pc' = "resume" => resume # {})
    BY <1>5 DEF Copy, runtime, locals
  <2>. QED  BY <2>1, ServingFacts
<1>6. CASE Resume
  <2>1. PICK b \in resume : StartBridge(b.display, b.port, "shim", "admit")
    BY <1>6 DEF Resume
  <2>2. /\ pc = "resume" /\ bridge = {} /\ ~run.codex /\ resume = {b} /\ was = {b}
        /\ b.display \in servers
        /\ UNCHANGED run
    BY <1>6, <2>1 DEF Resume, CommandInv, locals
  <2>3. Works(Used)
    <3>1. run.version \in Versions /\ Used = "own" /\ file["own"] = run.version
      BY <1>6, CommandFacts DEF Resume, CommandInv, BinaryInv, Used
    <3>. QED  BY <3>1 DEF Works
  <2>4. pc' = "shim"
    BY <2>1, <2>2, <2>3 DEF StartBridge
  <2>5. bridge' = {[display |-> b.display, port |-> b.port, path |-> Used,
                    version |-> file[Used]]}
    BY <2>1, <2>2, <2>3 DEF StartBridge
  <2>6. Serving' = {[display |-> b.display, port |-> b.port]}
    BY <2>5, ServingFacts DEF Serves
  <2>7. b = [display |-> b.display, port |-> b.port]
    BY DEF TypeOK
  <2>. QED  BY <2>2, <2>4, <2>6, <2>7
<1>7. CASE Admit
  BY <1>7 DEF Admit
<1>. QED  BY <1>2, <1>3, <1>4, <1>5, <1>6, <1>7 DEF Connect

\* Codex and uninstall start from no bridge where they would lose one.
LEMMA KeptRest ==
  ASSUME CommandInv, KeptInv, ~hurt', UNCHANGED was, Codex \/ UninstallCodex \/ UNCHANGED vars
  PROVE  KeptInv'
<1>. USE DEF KeptInv, CommandInv, Untouched, Installing, Readying, Removing, Trouble
<1>1. CASE UNCHANGED vars
  <2>1. UNCHANGED <<bridge, servers, pc, run, resume>>
    BY <1>1 DEF vars, host, runtime, locals
  <2>. QED  BY <2>1, ServingFacts
<1>2. CASE StopOldBridge \/ UninstallBridge
  BY <1>2 DEF StopOldBridge, UninstallBridge, StopBridge, locals
<1>3. CASE UninstallServer
  BY <1>3 DEF UninstallServer, StopServer, ServersEnd, runtime, locals
<1>4. CASE Codex /\ ~StopOldBridge
  <2>1. UNCHANGED run /\ pc \in Readying /\ pc' \in (Readying \ {"bstart"}) \cup {"done", "failed"}
    BY <1>4 DEF Codex, Preflight, ClearBridge, ClearServer, StopServer, Serve, Retire, Spawn,
       CheckBridge, StartNewBridge, StartBridge, FixDisplay, Final, locals
  <2>. QED  BY <2>1
<1>5. CASE CheckUninstall \/ UninstallFiles \/ UninstallRecord
  BY <1>5 DEF CheckUninstall, UninstallFiles, UninstallRecord, locals
<1>. QED  BY <1>1, <1>2, <1>3, <1>4, <1>5 DEF UninstallCodex

\* Before the steps for Codex the invariant says nothing of the X server.
LEMMA ServerElse ==
  ASSUME CommandInv, ServerInv,
         (\E c \in Commands : Start(c)) \/ Connect \/ UNCHANGED vars
  PROVE  ServerInv'
<1>. USE DEF ServerInv, CommandInv, Untouched, Uploading, Installing, Readying, Removing
<1>1. CASE UNCHANGED vars
  <2>1. UNCHANGED <<bridge, servers, xfile, pc, run, display, new>>
    BY <1>1 DEF vars, host, runtime, locals
  <2>2. Serving' = Serving /\ Ready' = Ready
    BY <2>1, ServingFacts DEF Ready
  <2>. QED  BY <2>1, <2>2
<1>2. CASE \E c \in Commands : Start(c)
  BY <1>2 DEF Start
<1>3. CASE Connect /\ ~Amend
  <2>1. pc' \in Untouched \cup Installing \cup {"copy", "resume", "admit", "amend", "failed"}
    BY <1>3 DEF Connect, Inspect, Read, Decide, Probe, Look, Stop, Copy, Resume, StartBridge,
       Admit, CheckShim, Install, Uninstall, Record, Verify
  <2>. QED  BY <2>1
<1>4. CASE Amend
  <2>1. UNCHANGED run /\ pc' = IF run.codex THEN "preflight" ELSE "done"
    BY <1>4 DEF Amend, locals
  <2>. QED  BY <2>1
<1>. QED  BY <1>1, <1>2, <1>3, <1>4

LEMMA ReadyFacts ==
  ASSUME HostInv, NEW x \in xfile, x.display = display, x.pid \in {"live", "reused"},
         Serving = {[display |-> display, port |-> run.port]}
  PROVE  Ready
<1>1. PICK b \in bridge : Serves(b) = [display |-> display, port |-> run.port]
  BY DEF Serving
<1>2. display \in servers
  BY <1>1 DEF HostInv, Serves
<1>. QED  BY <1>2 DEF HostInv, Ready

\* The server that is chosen is live, or xvfb.pid names another's process.
LEMMA ServerCodex ==
  ASSUME TypeOK, HostInv, CommandInv, BinaryInv, ServerInv, ~hurt', Codex
  PROVE  ServerInv'
<1>. USE DEF ServerInv, Readying, Trouble
<1>1. CASE Preflight \/ ClearBridge \/ ClearServer
  BY <1>1 DEF Preflight, ClearBridge, ClearServer, StopServer
<1>2. CASE Serve
  BY <1>2 DEF Serve, host, runtime
<1>3. CASE Retire
  <2>1. pc' = "spawn" => xfile' = {}
    BY <1>3 DEF Retire, StopServer
  <2>2. pc' = "final" => new.codex # "on" /\ UNCHANGED <<xfile, new>>
                          /\ \E x \in xfile : x.pid = "reused"
    BY <1>3 DEF Retire, StopServer, CommandInv, runtime, locals
  <2>3. pc' \in {"spawn", "final"}
    BY <1>3 DEF Retire, StopServer
  <2>. QED  BY <2>1, <2>2, <2>3
<1>4. CASE Spawn
  <2>1. pc' = "bridge" /\ \E d \in Displays : xfile' = {[display |-> d, pid |-> "live"]}
                                             /\ display' = d
    BY <1>4 DEF Spawn
  <2>2. \E x \in xfile' : x.display = display' /\ x.pid = "live"
    BY <2>1
  <2>. QED  BY <2>1, <2>2
<1>5. CASE CheckBridge
  <2>1. pc = "bridge" /\ pc' \in {"display", "bstop"} /\ UNCHANGED <<xfile, bridge, display, run>>
    BY <1>5 DEF CheckBridge, host, runtime, locals
  <2>2. pc' = "display" => \E b \in bridge : b.display = display /\ b.port = run.port
    BY <1>5 DEF CheckBridge
  <2>3. pc' = "display" => Serving = {[display |-> display, port |-> run.port]}
    BY <2>2 DEF HostInv, Serving, Serves
  <2>. QED  BY <2>1, <2>3, ServingFacts
<1>6. CASE StopOldBridge
  BY <1>6 DEF StopOldBridge, locals
<1>7. CASE StartNewBridge
  <2>1. pc = "bstart" /\ UNCHANGED <<xfile, servers, display, run, new>> /\ new.codex # "on"
    BY <1>7 DEF StartNewBridge, CommandInv, locals
  <2>2. Works(Used)
    BY <2>1 DEF BinaryInv
  <2>3. CASE display \in servers
    <3>1. pc' = "display"
             /\ bridge' = {[display |-> display, port |-> run.port, path |-> Used,
                            version |-> file[Used]]}
      BY <1>7, <2>2, <2>3 DEF StartNewBridge, StartBridge
    <3>2. Serving' = {[display |-> display, port |-> run.port]}
      BY <3>1, ServingFacts DEF Serves
    <3>. QED  BY <2>1, <3>1, <3>2
  <2>4. CASE display \notin servers
    <3>1. pc' = "final"
      BY <1>7, <2>4 DEF StartNewBridge, StartBridge
    <3>2. \E x \in xfile : x.pid = "reused"
      BY <2>1, <2>4 DEF HostInv
    <3>. QED  BY <2>1, <3>1, <3>2
  <2>. QED  BY <2>3, <2>4
<1>8. CASE FixDisplay
  <2>1. pc = "display" /\ pc' = "final" /\ UNCHANGED <<bridge, servers, xfile, run>>
           /\ new' = [new EXCEPT !.codex = "on"]
    BY <1>8 DEF FixDisplay, host, runtime
  <2>2. Ready
    BY <2>1, ReadyFacts
  <2>3. Ready'
    BY <2>1, <2>2, ServingFacts DEF Ready
  <2>. QED  BY <2>1, <2>3
<1>9. CASE Final
  <2>1. pc = "final" /\ UNCHANGED <<bridge, servers, xfile, run>>
           /\ pc' = IF new.codex = "on" THEN "done" ELSE "failed"
    BY <1>9 DEF Final, runtime, locals
  <2>2. Ready => Ready'
    BY <2>1, ServingFacts DEF Ready
  <2>. QED  BY <2>1, <2>2
<1>. QED  BY <1>1, <1>2, <1>3, <1>4, <1>5, <1>6, <1>7, <1>8, <1>9 DEF Codex

\* Uninstalling leaves no process that xvfb.pid names.
LEMMA ServerRemove ==
  ASSUME HostInv, CommandInv, ~hurt', UninstallCodex PROVE ServerInv'
<1>. USE DEF ServerInv, CommandInv, Removing, Trouble
<1>1. CASE UninstallServer
  <2>1. pc' = "uclear"
    BY <1>1 DEF UninstallServer, StopServer
  <2>2. \A x \in xfile' : x.pid \notin {"live", "old"}
    BY <1>1 DEF UninstallServer, StopServer, HostInv, runtime
  <2>. QED  BY <2>1, <2>2
<1>2. CASE CheckUninstall \/ UninstallBridge \/ UninstallFiles \/ UninstallRecord
  BY <1>2 DEF CheckUninstall, UninstallBridge, UninstallFiles, UninstallRecord, locals
<1>. QED  BY <1>1, <1>2 DEF UninstallCodex

\* Every way to fail without one is an obstacle.
LEMMA FailedStep ==
  ASSUME TypeOK, HostInv, CommandInv, BinaryInv, KeptInv, ServerInv,
         ~hurt', pc # "failed", pc' = "failed", Connect \/ Codex \/ UninstallCodex,
         run'.op = "connect"
  PROVE  Obstacle'
<1>. USE DEF Trouble, Obstacle
<1>1. CASE Inspect
  <2>1. MayNotResolve /\ UNCHANGED <<file, rec, run>>
    BY <1>1 DEF Inspect, host
  <2>2. run.mode = "remote" \/ (HasRecord /\ Adopts(rec))
    BY <1>1 DEF Inspect, CommandInv, BinaryInv
  <2>. QED  BY <2>1, <2>2 DEF MayNotResolve, HasRecord, Adopts
<1>2. CASE Read
  <2>1. ~run.force /\ (rec = Broken \/ Newer) /\ UNCHANGED <<rec, run>>
    BY <1>2 DEF Read, Decide, host
  <2>. QED  BY <2>1 DEF Newer, HasRecord
<1>3. CASE Copy
  <2>1. bridge = {} /\ Busy /\ UNCHANGED strays
    BY <1>3 DEF Copy, KeptInv, runtime
  <2>. QED  BY <2>1 DEF Busy
<1>4. CASE Admit
  BY <1>4 DEF Admit, BinaryInv
<1>5. CASE Install \/ Verify
  <2>1. ~Works(Used) /\ UNCHANGED <<file, run>> /\ pc \in Installing
    BY <1>5 DEF Install, Verify, Installing, host, locals
  <2>2. ~run.force /\ file["own"] = Broken
    BY <2>1 DEF BinaryInv
  <2>. QED  BY <2>1, <2>2
<1>6. CASE Final
  <2>1. UNCHANGED <<xfile, run>> /\ new.codex # "on" /\ pc = "final"
    BY <1>6 DEF Final, runtime, locals
  <2>2. run.codex /\ \E x \in xfile : x.pid = "reused"
    BY <2>1 DEF ServerInv, CommandInv, Readying
  <2>. QED  BY <2>1, <2>2
<1>7. CASE UninstallCodex
  BY <1>7 DEF UninstallCodex, CheckUninstall, UninstallBridge, UninstallServer, UninstallFiles,
     UninstallRecord, locals, CommandInv, Removing
<1>8. CASE Probe \/ Look \/ Stop \/ Resume \/ CheckShim \/ Uninstall \/ Record \/ Amend
  BY <1>8 DEF Probe, Look, Stop, Resume, StartBridge, CheckShim, Uninstall, Record, Amend
<1>9. CASE Codex /\ ~Final
  BY <1>9 DEF Codex, Preflight, ClearBridge, ClearServer, StopServer, Serve, Retire, Spawn,
     CheckBridge, StopOldBridge, StartNewBridge, StartBridge, FixDisplay
<1>. QED  BY <1>1, <1>2, <1>3, <1>4, <1>5, <1>6, <1>7, <1>8, <1>9 DEF Connect

\* Once a command has failed, nothing is done but by others.
LEMMA FailedStays ==
  ASSUME SoundInv, pc = "failed", Connect \/ Codex \/ UninstallCodex \/ UNCHANGED vars,
         run'.op = "connect"
  PROVE  Obstacle'
<1>1. UNCHANGED vars
  BY DEF Connect, Inspect, Read, Probe, Look, Stop, Copy, Resume, Admit, CheckShim, Install,
     Uninstall, Record, Verify, Amend, Codex, Preflight, ClearBridge, ClearServer, Serve, Retire,
     Spawn, CheckBridge, StopOldBridge, StartNewBridge, FixDisplay, Final, UninstallCodex,
     CheckUninstall, UninstallBridge, UninstallServer, UninstallFiles, UninstallRecord
<1>2. UNCHANGED <<file, rec, run, strays, xfile>>
  BY <1>1 DEF vars, host, runtime, locals
<1>. QED  BY <1>2 DEF SoundInv, Obstacle, Newer, HasRecord, Adopts, MayNotResolve

LEMMA SoundStep ==
  ASSUME Inv, [Next]_vars, ~hurt' PROVE SoundInv'
<1>. USE DEF Inv
<1>1. ASSUME NEW c \in Commands, Start(c) PROVE SoundInv'
  <2>1. pc' # "failed"
    BY <1>1 DEF Start
  <2>2. ServerInv
    BY <1>1 DEF Start, ServerInv
  <2>. QED  BY <1>1, <2>1, <2>2, BinaryStart, KeptStart, ServerElse DEF SoundInv
<1>2. CASE End
  BY <1>2 DEF End, SoundInv, BinaryInv, KeptInv, ServerInv, Untouched, Uploading, Installing,
     Readying
<1>3. CASE Kill \/ Others
  BY <1>3 DEF Kill, Others, BridgeDies, ServerDies, PackageChanges, FilesRemoved, Disturbs,
     Trouble
<1>4. CASE Connect \/ Codex \/ UninstallCodex \/ UNCHANGED vars
  <2>1. ~hurt /\ UNCHANGED was
    <3>1. UNCHANGED was /\ (hurt' = hurt \/ hurt' = TRUE)
      BY <1>4, GhostSteps DEF Fine, Trouble
    <3>2. hurt \in BOOLEAN
      BY DEF TypeOK
    <3>3. ~hurt
      BY <3>1, <3>2, Zenon
    <3>. QED  BY <3>1, <3>3, Zenon
  <2>2. BinaryInv /\ KeptInv /\ ServerInv
    BY <2>1 DEF SoundInv
  <2>3. BinaryInv'
    BY <1>4, <2>2, BinaryUpload, BinaryInstall, BinaryRest DEF Connect
  <2>4. KeptInv'
    BY <1>4, <2>1, <2>2, KeptUpload, KeptRest
  <2>5. ServerInv'
    BY <1>4, <2>2, ServerElse, ServerCodex, ServerRemove
  <2>6. pc' = "failed" /\ run'.op = "connect" => Obstacle'
    <3>1. CASE pc = "failed"
      BY <1>4, <2>1, <3>1, FailedStays
    <3>2. CASE pc # "failed"
      <4>1. UNCHANGED vars => pc' # "failed"
        BY <3>2 DEF vars
      <4>. QED  BY <1>4, <2>2, <3>2, <4>1, FailedStep
    <3>. QED  BY <3>1, <3>2
  <2>. QED  BY <2>3, <2>4, <2>5, <2>6 DEF SoundInv
<1>. QED  BY <1>1, <1>2, <1>3, <1>4 DEF Next

LEMMA InitInv == Init => Inv
<1>. SUFFICES ASSUME Init PROVE Inv
  OBVIOUS
<1>1. TypeOK
  <2>1. GhostsOK
    <3>1. hurt \in BOOLEAN /\ settled \in BOOLEAN
      BY Zenon DEF Init
    <3>2. was = {} /\ troubles \in 0 .. MaxTroubles
      BY ConnectAssumption DEF Init
    <3>. QED  BY <3>1, <3>2 DEF GhostsOK
  <2>2. LocalsOK
    BY DEF Init, LocalsOK
  <2>3. ASSUME NewHost PROVE HostOK
    <3>1. file \in [Paths -> Versions \cup {None, Broken}]
      BY <2>3 DEF NewHost
    <3>. QED  BY <2>3, <3>1 DEF Init, NewHost, HostOK
  <2>4. ASSUME OldHost PROVE HostOK
    <3>1. PICK v \in Versions, d \in Displays, p \in Ports :
              /\ file = [own |-> v, pkg |-> None]
              /\ shim = {[template |-> v, port |-> p]}
              /\ bridge = {[display |-> d, port |-> p, path |-> "own", version |-> v]}
              /\ servers = {d} /\ xfile = {[display |-> d, pid |-> "old"]}
              /\ rec = [schema |-> 0, hash |-> v, shim |-> {[template |-> None, port |-> p]},
                        codex |-> "on", remote |-> FALSE]
      BY <2>4 DEF OldHost
    <3>2. rec \in Records
      BY <3>1 DEF Records
    <3>3. file \in [Paths -> Versions \cup {None, Broken}]
      BY <3>1 DEF Paths
    <3>4. shim \subseteq Shims /\ bridge \subseteq Bridges
      BY <3>1 DEF Shims, Bridges, Paths
    <3>. QED  BY <3>1, <3>2, <3>3, <3>4 DEF Init, HostOK
  <2>5. HostOK
    BY <2>3, <2>4 DEF Init
  <2>. QED  BY <2>1, <2>2, <2>5, TypeParts
<1>2. HostInv
  BY DEF Init, NewHost, OldHost, HostInv
<1>3. CommandInv
  BY DEF Init, CommandInv, Running, Untouched, Uploading, Installing, Readying, Removing
<1>4. SoundInv
  BY DEF Init, SoundInv, BinaryInv, KeptInv, ServerInv, Untouched, Uploading, Installing,
     Readying
<1>. QED  BY <1>1, <1>2, <1>3, <1>4 DEF Inv

LEMMA NextInv == Inv /\ [Next]_vars => Inv'
<1>. SUFFICES ASSUME Inv, [Next]_vars PROVE Inv'
  OBVIOUS
<1>1. HostOK /\ LocalsOK /\ GhostsOK
  BY TypeParts DEF Inv
<1>2. TypeOK' /\ HostInv' /\ CommandInv'
  BY <1>1, TypeStep, HostStep, CommandStep DEF Inv
<1>3. ~hurt' => SoundInv'
  BY SoundStep
<1>. QED  BY <1>2, <1>3 DEF Inv

\* The inductive invariant: what holds of the host and of the command whatever goes wrong,
\* and what holds of a command to which nothing does.
THEOREM Invariance == Spec => []Inv
  BY InitInv, NextInv, PTL DEF Spec

\* The host, the command and its record keep their types.
THEOREM TypeCorrect == Spec => []TypeOK
<1>1. Inv => TypeOK
  BY DEF Inv
<1>. QED  BY <1>1, Invariance, PTL

\* A run for other targets that succeeds leaves the bridge serving the display and the port
\* it served before, though it was stopped for the upload (connect.go:446).
THEOREM KeepsBridge == Spec => []BridgeKept
<1>1. Inv => BridgeKept
  BY DEF Inv, SoundInv, KeptInv, BridgeKept, Serving
<1>. QED  BY <1>1, Invariance, PTL

\* A run that says that Codex is ready has one bridge that serves the daemon's port on a live
\* display that later runs can find, and one with --force has its binary and a shim of it
\* in place, whatever earlier runs left half done (connect.go:1245, 1273).
THEOREM ReadyWhenDone == Spec => []SuccessServes
<1>1. Inv => SuccessServes
  BY DEF Inv, SoundInv, BinaryInv, ServerInv, Ready, SuccessServes, Serving
<1>. QED  BY <1>1, Invariance, PTL

\* A run in which nothing goes wrong succeeds, unless it meets one of the obstacles that the
\* code does not get past by itself (connect.go:443, 497, 1245; xvfb.go:214).
THEOREM FailsForCause == Spec => []OnlyKnownObstacles
<1>1. Inv => OnlyKnownObstacles
  BY DEF Inv, SoundInv, OnlyKnownObstacles
<1>. QED  BY <1>1, Invariance, PTL

\* A host recorded as a package manager's gets a binary uploaded only when --local-bin asks
\* for it, --force or not (connect.go:398, remote_bin_mode.go:8).
THEOREM KeepsPackageBinary == Spec => PackageBinaryKept
<1>1. Inv /\ [Next]_vars =>
        [pc = "copy" /\ file' # file /\ ~hurt /\ HasRecord /\ rec.remote
             => run.mode = "local"]_vars
  <2>1. Inv /\ pc = "copy" /\ ~hurt /\ HasRecord /\ rec.remote => run.mode = "local"
    BY CommandFacts DEF Inv, SoundInv, BinaryInv, CommandInv, Uploading, HasRecord, Adopts
  <2>. QED  BY <2>1
<1>. QED  BY <1>1, Invariance, PTL DEF Spec, PackageBinaryKept

\* StopRemote ends exactly what xvfb.pid names, or leaves everything.
LEMMA StopServerLoses ==
  ASSUME NEW ok, NEW refused, StopServer(ok, refused), ~hurt'
  PROVE  strays' \subseteq strays /\ servers' \ Recorded' \subseteq servers \ Recorded
<1>1. CASE UNCHANGED runtime
  BY <1>1 DEF runtime, Recorded
<1>2. CASE /\ ServersEnd({x.display : x \in {x \in xfile : x.pid \in {"live", "old"}}})
           /\ xfile' = {}
  BY <1>2 DEF ServersEnd, Recorded
<1>. QED  BY <1>1, <1>2 DEF StopServer, Trouble

\* What a step of a command to which nothing goes wrong leaves running can be found.
LEMMA LosesStep ==
  ASSUME Inv, [Next]_vars, ~hurt'
  PROVE  strays' \subseteq strays /\ servers' \ Recorded' \subseteq servers \ Recorded
<1>1. CASE UNCHANGED <<strays, servers, xfile>>
  BY <1>1 DEF Recorded
<1>2. CASE Kill \/ Others
  BY <1>2 DEF Kill, Others, BridgeDies, ServerDies, PackageChanges, FilesRemoved, Disturbs,
     Trouble
<1>3. CASE (\E c \in Commands : Start(c)) \/ End \/ UNCHANGED vars
  BY <1>1, <1>3 DEF Start, End, vars, host, runtime
<1>4. CASE Connect \/ Codex \/ UninstallCodex
  <2>1. SoundInv
    <3>1. hurt' = hurt \/ hurt' = TRUE
      BY <1>4, GhostSteps DEF Fine, Trouble
    <3>2. hurt \in BOOLEAN
      BY DEF Inv, TypeOK
    <3>3. ~hurt
      BY <3>1, <3>2, Zenon
    <3>. QED  BY <3>3 DEF Inv
  <2>2. CASE Resume \/ StartNewBridge
    <3>1. bridge = {} /\ UNCHANGED <<servers, xfile>>
      BY <2>1, <2>2 DEF Resume, StartNewBridge, SoundInv, KeptInv
    <3>2. strays' \subseteq strays
      BY <2>2, <3>1 DEF Resume, StartNewBridge, StartBridge
    <3>. QED  BY <3>1, <3>2 DEF Recorded
  <2>3. CASE ClearServer \/ Retire \/ UninstallServer
    BY <2>3, StopServerLoses DEF ClearServer, Retire, UninstallServer
  <2>4. CASE Spawn
    <3>1. xfile = {} /\ UNCHANGED strays
      BY <2>1, <2>4 DEF Spawn, SoundInv, ServerInv
    <3>2. PICK d \in Displays : servers' = servers \cup {d}
                                 /\ xfile' = {[display |-> d, pid |-> "live"]}
      BY <2>4 DEF Spawn, Trouble
    <3>3. Recorded = {}
      BY <3>1 DEF Recorded
    <3>4. \E y \in xfile' : y.display = d /\ y.pid \in {"live", "old"}
      BY <3>2
    <3>5. d \in Recorded'
      BY <3>4 DEF Recorded
    <3>. QED  BY <3>1, <3>2, <3>3, <3>5
  <2>5. CASE UninstallFiles
    <3>1. bridge = {} /\ Recorded = {}
      BY <2>1, <2>5 DEF UninstallFiles, SoundInv, KeptInv, ServerInv, Recorded
    <3>2. strays' \subseteq strays /\ UNCHANGED servers
      BY <2>5, <3>1 DEF UninstallFiles, Trouble
    <3>. QED  BY <3>1, <3>2
  <2>6. CASE Connect /\ ~Resume
    BY <1>1, <2>6 DEF Connect, Inspect, Read, Probe, Look, Stop, Copy, Admit, CheckShim, Install,
       Uninstall, Record, Verify, Amend, host, runtime
  <2>7. CASE \/ Preflight \/ ClearBridge \/ Serve \/ CheckBridge \/ StopOldBridge \/ FixDisplay
             \/ Final \/ CheckUninstall \/ UninstallBridge \/ UninstallRecord
    BY <1>1, <2>7 DEF Preflight, ClearBridge, Serve, CheckBridge, StopOldBridge, FixDisplay,
       Final, CheckUninstall, UninstallBridge, UninstallRecord, host, runtime
  <2>. QED  BY <1>4, <2>2, <2>3, <2>4, <2>5, <2>6, <2>7 DEF Codex, UninstallCodex
<1>. QED  BY <1>2, <1>3, <1>4 DEF Next

\* No command in which nothing goes wrong leaves a bridge or an X server running that no file
\* names, which --force and uninstall could not stop (xvfb.go:216).
THEOREM LosesNothing == Spec => NothingLost
<1>1. Inv /\ [Next]_vars =>
        [strays' \ strays # {} \/ (servers' \ Recorded') \ (servers \ Recorded) # {}
             => hurt']_vars
  BY LosesStep
<1>. QED  BY <1>1, Invariance, PTL DEF Spec, NothingLost
=============================================================================
