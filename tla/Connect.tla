------------------------------- MODULE Connect -------------------------------
(***************************************************************************)
(* Deploying to a remote host (cmd/cc-clip/connect.go, internal/shim/deploy.go, *)
(* internal/xvfb): `connect` uploads the binary, or uses one that a package  *)
(* manager owns, installs the shim, starts the X server and the clipboard    *)
(* bridge for Codex, and records in deploy.json what it did, which the next   *)
(* run relies on.  `uninstall --codex` takes the Codex part away.            *)
(*                                                                         *)
(* One command runs at a time.  An action is one remote command, or a script *)
(* that runs as one, with the decision that follows it.  It may succeed, fail *)
(* before it has an effect, or have its effect and be reported as failed; the *)
(* command may be killed between any two; processes and files of the host    *)
(* come and go.  What a run does to notifications and rc files is left out.   *)
(***************************************************************************)
EXTENDS Integers

CONSTANTS
    Versions,   \* contents of the binary; each comes with its own shim template
    Schema,     \* the version of deploy.json that each of them writes
    Ports, Displays,
    Commands,   \* the command lines that are given
    MaxTroubles, \* bound on failures, kills and changes by others
    None, Broken

Command ==
    [op : {"connect", "uninstall"}, force : BOOLEAN, mode : {"plain", "remote", "local"},
     shims : BOOLEAN, codex : BOOLEAN, version : Versions, port : Ports]

ASSUME ConnectAssumption ==
    /\ Schema \in [Versions -> Nat]
    /\ Commands \subseteq Command
    /\ MaxTroubles \in Nat
    /\ None \notin Versions /\ Broken \notin Versions /\ None # Broken

\* Where a binary can be: ~/.local/bin/cc-clip, or where a package puts it.
Paths == {"own", "pkg"}
Shims == [template : Versions, port : Ports]
Bridges == [display : Displays, port : Ports, path : Paths, version : Versions]

\* DeployState, as far as something depends on it.  A shim recorded by an old
\* release has no template.
Records ==
    [schema : Nat, hash : Versions,
     shim : SUBSET [template : Versions \cup {None}, port : Ports],
     codex : {"none", "on", "off"}, remote : BOOLEAN]

VARIABLES
    \* The host:
    file,    \* the binary at each path
    shim,    \* the shim, if there is one
    bridge,  \* the live bridge that bridge.pid names, if there is one
    strays,  \* live bridges that no file names
    servers, \* displays of the live X servers
    xfile,   \* what xvfb.pid and display name, if they are there
    rec,     \* deploy.json
    \* The command:
    pc, run,
    state,   \* remoteState; None under --force
    prior,   \* priorState
    found,   \* existingRemoteBin, if there is one
    changed, \* the binary was uploaded, or the one of the package is another
    resume,  \* the bridge to be restarted after the upload
    display, \* of the X server that this run uses
    new,     \* newState
    \* Ghosts, of no effect on the rest:
    was,     \* display and port of the bridge when the command began
    hurt,    \* something went wrong since then
    settled, \* the last upload was recorded, and nothing went wrong since
    troubles \* failures, kills and changes by others so far

runtime == <<bridge, strays, servers, xfile>>
host == <<file, shim, runtime, rec>>
locals == <<run, state, prior, found, changed, resume, display, new>>
ghosts == <<was, hurt, settled, troubles>>
vars == <<host, pc, locals, ghosts>>

TypeOK ==
    /\ file \in [Paths -> Versions \cup {None, Broken}]
    /\ shim \subseteq Shims
    /\ bridge \subseteq Bridges /\ strays \subseteq Bridges
    /\ servers \subseteq Displays
    /\ xfile \subseteq [display : Displays, pid : {"live", "old", "dead", "reused"}]
    /\ rec \in Records \cup {None, Broken}
    /\ pc \in {"idle", "done", "failed", "inspect", "read", "adopt", "probe", "look",
               "stop", "copy", "resume", "admit", "shim", "install", "uninstall",
               "again", "record", "verify", "amend", "preflight", "clear1", "clear2",
               "serve", "retire", "spawn", "bridge", "bstop", "bstart", "display",
               "final", "ucheck", "ustop", "uretire", "uclear", "uwrite"}
    /\ run \in Commands \cup {None}
    /\ {state, prior, new} \subseteq Records \cup {None}
    /\ found \subseteq [path : Paths, version : Versions]
    /\ changed \in BOOLEAN
    /\ resume \subseteq [display : Displays, port : Ports]
    /\ display \in Displays \cup {None}
    /\ was \subseteq [display : Displays, port : Ports]
    /\ hurt \in BOOLEAN /\ settled \in BOOLEAN
    /\ troubles \in 0 .. MaxTroubles

Fine == UNCHANGED <<hurt, troubles>>

Trouble ==
    /\ troubles < MaxTroubles
    /\ troubles' = troubles + 1
    /\ hurt' = TRUE

Works(p) == file[p] \in Versions

TheFound == CHOOSE f \in found : TRUE

\* remoteBin: where the binary is that this run installs and starts things with.
Used == IF found = {} THEN "own" ELSE TheFound.path

Serves(b) == [display |-> b.display, port |-> b.port]

\* WriteRemoteState: the file is overwritten in place, and a failure is a warning.
Write(s) ==
    \/ rec' = s /\ Fine
    \/ rec' \in {rec, Broken} /\ Trouble

HasRecord == rec \notin {None, Broken}

\* IsNewerSchema
Newer == HasRecord /\ rec.schema > Schema[run.version]

\* stampSchemaVersion
Stamped(s) ==
    [s EXCEPT !.schema = IF @ < Schema[run.version] THEN Schema[run.version] ELSE @]

-----------------------------------------------------------------------------
(* Pieces that connect and uninstall share.                                *)

\* stopBridgeRemote.  When ssh fails the bridge stays, and that is a warning.
StopBridge ==
    \/ bridge' = {} /\ Fine
    \/ UNCHANGED bridge /\ Trouble

\* startBridgeRemote writes bridge.pid, and sees a bridge that dies at once, as
\* one does that finds no X server.
StartBridge(d, p, ok, failed) ==
    LET up == d \in servers /\ Works(Used)
        b == [display |-> d, port |-> p, path |-> Used, version |-> file[Used]]
    IN \/ /\ bridge' = IF up THEN {b} ELSE {}
          /\ strays' = strays \cup bridge
          /\ \/ pc' = (IF up THEN ok ELSE failed) /\ Fine
             \/ pc' = failed /\ Trouble
       \/ pc' = failed /\ Trouble /\ UNCHANGED <<bridge, strays>>

\* An X server ends, and with it the bridges that are its clients.
ServersEnd(ds) ==
    /\ servers' = servers \ ds
    /\ bridge' = {b \in bridge : b.display \notin ds}
    /\ strays' = {b \in strays : b.display \notin ds}

\* StopRemote: only a process that is an X server is killed.  When ssh fails, the
\* process is taken for absent, or the files are left.
StopServer(ok, refused) ==
    LET alive == {x \in xfile : x.pid \in {"live", "old"}}
        reused == {x \in xfile : x.pid = "reused"}
    IN \/ /\ reused = {}
          /\ ServersEnd({x.display : x \in alive})
          /\ \/ xfile' = {} /\ pc' = ok /\ Fine
             \/ /\ xfile' = {[x EXCEPT !.pid = "dead"] : x \in xfile}
                /\ pc' = refused /\ Trouble
       \/ reused # {} /\ pc' = refused /\ Fine /\ UNCHANGED runtime
       \/ xfile' = {} /\ pc' = ok /\ Trouble /\ UNCHANGED <<bridge, strays, servers>>
       \/ pc' = refused /\ Trouble /\ UNCHANGED runtime

-----------------------------------------------------------------------------
(* connect: the record, and which binary to use.                           *)

Start(c) ==
    /\ pc = "idle"
    /\ pc' = CASE c.op = "uninstall" -> "ucheck"
               [] c.op = "connect" /\ c.mode = "remote" -> "inspect"
               [] OTHER -> "read"
    /\ run' = c
    /\ was' = {Serves(b) : b \in bridge}
    /\ hurt' = FALSE
    /\ UNCHANGED <<host, state, prior, found, changed, resume, display, new, settled,
                   troubles>>

\* remoteBinChanged
RemoteChanged(v, s) == s = None \/ s.hash # v

MayNotResolve == Broken \in {file[p] : p \in Paths} \/ \A p \in Paths : file[p] = None

\* InspectRemoteBinary: the first cc-clip of the user's PATH, whatever its order
\* is, which must run.
Inspect ==
    /\ pc \in {"inspect", "adopt"}
    /\ \/ \E p \in Paths :
            /\ Works(p)
            /\ found' = {[path |-> p, version |-> file[p]]}
            /\ changed' = (pc = "adopt" /\ RemoteChanged(file[p], prior))
            /\ pc' = IF pc = "adopt" THEN "shim" ELSE "read"
       \/ /\ MayNotResolve
          /\ pc' = "failed"
          /\ UNCHANGED <<found, changed>>
    /\ Fine
    /\ UNCHANGED <<host, run, state, prior, resume, display, new, was, settled>>

\* shouldAdoptRemoteBinMode
Adopts(s) == run.mode = "plain" /\ s # None /\ s.remote

\* Mutant: the mode is looked up in what --force has already forgotten.
DecideAfterForce(s) ==
    /\ state' = IF run.force THEN None ELSE s
    /\ prior' = s
    /\ changed' = \E f \in found : RemoteChanged(f.version, s)
    /\ pc' = CASE Adopts(state') -> "adopt"
               [] found # {} -> "shim"
               [] OTHER -> "probe"

\* What ReadRemoteState gives is both remoteState and priorState, and --force
\* forgets the first.
Decide(s) ==
    /\ state' = IF run.force THEN None ELSE s
    /\ prior' = s
    /\ changed' = \E f \in found : RemoteChanged(f.version, s)
    /\ pc' = CASE Adopts(s) -> "adopt"
               [] found # {} -> "shim"
               [] OTHER -> "probe"

Read ==
    /\ pc = "read"
    /\ \/ rec # Broken /\ (Newer => run.force) /\ Decide(rec) /\ Fine
       \/ rec = Broken /\ run.force /\ Decide(None) /\ Fine
       \/ run.force /\ Decide(None) /\ Trouble
       \/ /\ ~run.force /\ (rec = Broken \/ Newer)
          /\ pc' = "failed" /\ Fine
          /\ UNCHANGED <<state, prior, changed>>
    /\ UNCHANGED <<host, run, found, resume, display, new, was, settled>>

-----------------------------------------------------------------------------
(* connect: the upload.                                                    *)

\* NeedsUpload, or a binary that is gone although the record has it.
Probe ==
    /\ pc = "probe"
    /\ \/ /\ changed' = (run.force \/ state = None \/ state.hash # run.version
                            \/ file["own"] = None)
          /\ Fine
       \/ changed' = TRUE /\ Trouble
    /\ pc' = IF changed' THEN "look" ELSE "shim"
    /\ UNCHANGED <<host, run, state, prior, found, resume, display, new, was, settled>>

\* runningBridgeArgs: a bridge that this run would not start again by itself.
Look ==
    /\ pc = "look"
    /\ pc' = "stop"
    /\ \/ resume' = (IF run.codex THEN {} ELSE {Serves(b) : b \in bridge}) /\ Fine
       \/ resume' = {} /\ Trouble
    /\ UNCHANGED <<host, run, state, prior, found, changed, display, new, was, settled>>

\* Mutant: a run that starts the bridge anew does not stop it for the upload.
StopUnlessCodex ==
    /\ pc = "stop"
    /\ IF run.codex THEN UNCHANGED bridge /\ Fine ELSE StopBridge
    /\ pc' = "copy"
    /\ UNCHANGED <<file, shim, strays, servers, xfile, rec, locals, was, settled>>

\* The bridge holds the file that is to be overwritten.
Stop ==
    /\ pc = "stop"
    /\ StopBridge
    /\ pc' = "copy"
    /\ UNCHANGED <<file, shim, strays, servers, xfile, rec, locals, was, settled>>

Busy == \E b \in bridge \cup strays : b.path = "own"

\* UploadBinaryViaSession overwrites the file in place.
Copy ==
    /\ pc = "copy"
    /\ \/ /\ ~Busy
          /\ \/ /\ file' = [file EXCEPT !["own"] = run.version]
                /\ pc' = (IF resume = {} THEN "shim" ELSE "resume") /\ Fine
             \/ /\ \E content \in {run.version, Broken} :
                      file' = [file EXCEPT !["own"] = content]
                /\ pc' = "failed" /\ Trouble
       \/ Busy /\ pc' = "failed" /\ Fine /\ UNCHANGED file
    /\ UNCHANGED <<shim, runtime, rec, locals, was, settled>>

\* Mutant: on the port of this run.
ResumeOnNewPort ==
    /\ pc = "resume"
    /\ \E b \in resume : StartBridge(b.display, run.port, "shim", "admit")
    /\ UNCHANGED <<file, shim, servers, xfile, rec, locals, was, settled>>

\* The bridge that was stopped is started again, on its own display and port.
Resume ==
    /\ pc = "resume"
    /\ \E b \in resume : StartBridge(b.display, b.port, "shim", "admit")
    /\ UNCHANGED <<file, shim, servers, xfile, rec, locals, was, settled>>

\* failBridgeRestore writes what was read before the upload, without Codex.
Admit ==
    /\ pc = "admit"
    /\ IF state # None /\ state.codex = "on"
       THEN Write(Stamped([state EXCEPT !.codex = "off"]))
       ELSE UNCHANGED rec /\ Fine
    /\ pc' = "failed"
    /\ UNCHANGED <<file, shim, runtime, locals, was, settled>>

-----------------------------------------------------------------------------
(* connect: the shim.                                                      *)

\* The template that is compared is the one of the local binary.
NeedsShimInstall ==
    \/ run.force \/ state = None
    \/ state.shim # {[template |-> run.version, port |-> run.port]}

CheckShim ==
    /\ pc = "shim"
    /\ \/ /\ pc' = IF run.shims /\ (NeedsShimInstall \/ shim = {})
                  THEN "install" ELSE "record"
          /\ Fine
       \/ run.shims /\ pc' = "install" /\ Trouble
    /\ UNCHANGED <<host, locals, was, settled>>

\* The remote binary writes the shim, with its own template.  When that fails
\* the shim is removed, in any case, and the install is tried once more.
Install ==
    /\ pc \in {"install", "again"}
    /\ LET failed == IF pc = "install" THEN "uninstall" ELSE "failed"
           written == {[template |-> file[Used], port |-> run.port]}
       IN IF Works(Used)
          THEN \/ shim' = written /\ pc' = "record" /\ Fine
               \/ shim' \in {shim, written} /\ pc' = failed /\ Trouble
          ELSE UNCHANGED shim /\ pc' = failed /\ Fine
    /\ UNCHANGED <<file, runtime, rec, locals, was, settled>>

Uninstall ==
    /\ pc = "uninstall"
    /\ pc' = "again"
    /\ \/ shim' = (IF Works(Used) THEN {} ELSE shim) /\ Fine
       \/ UNCHANGED shim /\ Trouble
    /\ UNCHANGED <<file, runtime, rec, locals, was, settled>>

-----------------------------------------------------------------------------
(* connect: the record, and the check of the binary.                       *)

\* newDeployStateFromBinary; what this run did not target is kept from remoteState.
NewStateOf(hash) ==
    [schema |-> Schema[run.version], hash |-> hash,
     shim |-> CASE run.shims -> {[template |-> run.version, port |-> run.port]}
                [] ~run.shims /\ state # None -> state.shim
                [] OTHER -> {},
     codex |-> IF state = None \/ run.codex THEN "none" ELSE state.codex,
     remote |-> found # {}]

NewState == NewStateOf(IF found = {} THEN run.version ELSE TheFound.version)

Record ==
    /\ pc = "record"
    /\ new' = NewState
    /\ Write(NewState)
    /\ state' = None /\ prior' = None /\ resume' = {}
    /\ pc' = "verify"
    /\ UNCHANGED <<file, shim, runtime, run, found, changed, display, was, settled>>

\* connectVerifyTunnel runs the remote binary.
Verify ==
    /\ pc = "verify"
    /\ pc' = IF Works(Used) THEN "amend" ELSE "failed"
    /\ Fine
    /\ UNCHANGED <<host, locals, was, settled>>

\* The record is written again once notifications are set up, if they are.
Amend ==
    /\ pc = "amend"
    /\ Write(new) \/ (UNCHANGED rec /\ Fine)
    /\ pc' = IF run.codex THEN "preflight" ELSE "done"
    /\ UNCHANGED <<file, shim, runtime, locals, was, settled>>

-----------------------------------------------------------------------------
(* connect: the X server and the bridge.                                   *)

\* Xvfb is there, or is installed.
Preflight ==
    /\ pc = "preflight"
    /\ \/ pc' = (IF run.force THEN "clear1" ELSE "serve") /\ Fine
       \/ pc' = "final" /\ Trouble
    /\ UNCHANGED <<host, locals, was, settled>>

\* --force starts both anew.
ClearBridge ==
    /\ pc = "clear1"
    /\ StopBridge
    /\ pc' = "clear2"
    /\ UNCHANGED <<file, shim, strays, servers, xfile, rec, locals, was, settled>>

ClearServer ==
    /\ pc = "clear2"
    /\ StopServer("serve", "serve")
    /\ UNCHANGED <<file, shim, rec, locals, was, settled>>

\* StartRemote and IsHealthy: a server that is alive and has the marker of its
\* authorization is reused.  One whose process number now is another's looks the
\* same when it has left its socket behind.
Serve ==
    /\ pc = "serve"
    /\ \/ \E x \in xfile :
            /\ x.pid \in {"live", "reused"}
            /\ display' = x.display /\ pc' = "bridge" /\ Fine
       \/ /\ \A x \in xfile : x.pid # "live"
          /\ pc' = "retire" /\ Fine /\ UNCHANGED display
       \/ pc' = "retire" /\ Trouble /\ UNCHANGED display
    /\ UNCHANGED <<host, run, state, prior, found, changed, resume, new, was, settled>>

\* Mutant: CleanStale in place of StopRemote.
RetireFilesOnly ==
    /\ pc = "retire"
    /\ xfile' = {} /\ pc' = "spawn" /\ Fine
    /\ UNCHANGED <<file, shim, bridge, strays, servers, rec, locals, was, settled>>

Retire ==
    /\ pc = "retire"
    /\ StopServer("spawn", "final")
    /\ UNCHANGED <<file, shim, rec, locals, was, settled>>

\* The X server chooses a display that is free.
Spawn ==
    /\ pc = "spawn"
    /\ \/ \E d \in Displays \ servers :
            /\ servers' = servers \cup {d}
            /\ xfile' = {[display |-> d, pid |-> "live"]}
            /\ \/ display' = d /\ pc' = "bridge" /\ Fine
               \/ UNCHANGED display /\ pc' = "final" /\ Trouble
       \/ UNCHANGED <<servers, xfile, display>> /\ pc' = "final" /\ Trouble
    /\ UNCHANGED <<file, shim, bridge, strays, rec, run, state, prior, found, changed,
                   resume, new, was, settled>>

\* Mutant: any live bridge is healthy.
CheckBridgeAlive ==
    /\ pc = "bridge"
    /\ \/ pc' = (IF bridge # {} /\ ~changed /\ ~run.force THEN "display" ELSE "bstop") /\ Fine
       \/ pc' = "bstop" /\ Trouble
    /\ UNCHANGED <<host, locals, was, settled>>

\* isBridgeHealthy, unless the binary changed.
CheckBridge ==
    /\ pc = "bridge"
    /\ LET healthy == \E b \in bridge : b.display = display /\ b.port = run.port
       IN \/ pc' = (IF healthy /\ ~changed /\ ~run.force THEN "display" ELSE "bstop") /\ Fine
          \/ pc' = "bstop" /\ Trouble
    /\ UNCHANGED <<host, locals, was, settled>>

StopOldBridge ==
    /\ pc = "bstop"
    /\ StopBridge
    /\ pc' = "bstart"
    /\ UNCHANGED <<file, shim, strays, servers, xfile, rec, locals, was, settled>>

StartNewBridge ==
    /\ pc = "bstart"
    /\ StartBridge(display, run.port, "display", "final")
    /\ UNCHANGED <<file, shim, servers, xfile, rec, locals, was, settled>>

\* The rc files point to the display; only now is Codex in the new state.
FixDisplay ==
    /\ pc = "display"
    /\ pc' = "final"
    /\ \/ new' = [new EXCEPT !.codex = "on"] /\ Fine
       \/ UNCHANGED new /\ Trouble
    /\ UNCHANGED <<host, run, state, prior, found, changed, resume, display, was, settled>>

\* The record is written whether the steps for Codex succeeded or not.
Final ==
    /\ pc = "final"
    /\ Write(new)
    /\ pc' = IF new.codex = "on" THEN "done" ELSE "failed"
    /\ UNCHANGED <<file, shim, runtime, locals, was, settled>>

-----------------------------------------------------------------------------
(* uninstall --codex, and the end of a command.                            *)

\* A record of a newer release is refused; one that cannot be read is not.
CheckUninstall ==
    /\ pc = "ucheck"
    /\ \/ pc' = (IF Newer THEN "failed" ELSE "ustop") /\ Fine
       \/ pc' = "ustop" /\ Trouble
    /\ UNCHANGED <<host, locals, was, settled>>

UninstallBridge ==
    /\ pc = "ustop"
    /\ StopBridge
    /\ pc' = "uretire"
    /\ UNCHANGED <<file, shim, strays, servers, xfile, rec, locals, was, settled>>

UninstallServer ==
    /\ pc = "uretire"
    /\ StopServer("uclear", "uclear")
    /\ UNCHANGED <<file, shim, rec, locals, was, settled>>

\* The files go with their directory, whether the processes have gone or not.
UninstallFiles ==
    /\ pc = "uclear"
    /\ pc' = "uwrite"
    /\ \/ /\ xfile' = {} /\ bridge' = {} /\ strays' = strays \cup bridge
          /\ Fine
       \/ UNCHANGED runtime /\ Trouble
    /\ UNCHANGED <<file, shim, servers, rec, locals, was, settled>>

\* Warnings only change the exit status.
UninstallRecord ==
    /\ pc = "uwrite"
    /\ IF HasRecord THEN Write(Stamped([rec EXCEPT !.codex = "none"]))
       ELSE UNCHANGED rec /\ Fine
    /\ pc' = "done"
    /\ UNCHANGED <<file, shim, runtime, locals, was, settled>>

Finished == pc \in {"done", "failed"}

End ==
    /\ Finished
    /\ pc' = "idle"
    /\ settled' = /\ pc = "done" /\ ~hurt
                  /\ CASE run.op = "uninstall" -> settled
                       [] found # {} -> FALSE
                       [] OTHER -> changed \/ settled
    /\ run' = None /\ state' = None /\ prior' = None /\ found' = {} /\ changed' = FALSE
    /\ resume' = {} /\ display' = None /\ new' = None /\ was' = {} /\ hurt' = FALSE
    /\ UNCHANGED <<host, troubles>>

\* The command is killed, or a step that changes nothing fails, which ends it.
Kill ==
    /\ pc # "idle" /\ ~Finished
    /\ pc' = "failed"
    /\ Trouble
    /\ UNCHANGED <<host, locals, was, settled>>

-----------------------------------------------------------------------------
(* The host, and who else works on it.                                     *)

Disturbs == Trouble /\ ~Finished /\ UNCHANGED <<pc, locals, was>>

BridgeDies ==
    /\ Disturbs
    /\ bridge # {} /\ bridge' = {}
    /\ UNCHANGED <<file, shim, strays, servers, xfile, rec, settled>>

ServerDies ==
    /\ Disturbs
    /\ \E d \in servers :
            /\ ServersEnd({d})
            /\ \E pid \in {"dead", "reused"} :
                    xfile' = {[x EXCEPT !.pid = IF x.display = d THEN pid ELSE @]
                                : x \in xfile}
    /\ UNCHANGED <<file, shim, rec, settled>>

PackageChanges ==
    /\ Disturbs
    /\ \E v \in (Versions \cup {None}) \ {file["pkg"]} : file' = [file EXCEPT !["pkg"] = v]
    /\ UNCHANGED <<shim, runtime, rec, settled>>

FilesRemoved ==
    /\ Disturbs
    /\ \/ shim' = {} /\ shim # {} /\ UNCHANGED <<file, settled>>
       \/ /\ file["own"] # None /\ file' = [file EXCEPT !["own"] = None]
          /\ settled' = FALSE /\ UNCHANGED shim
    /\ UNCHANGED <<runtime, rec>>

-----------------------------------------------------------------------------

\* A host that is new, or one that a release before the authorization of X servers
\* has left behind, with all that it could do.
NewHost ==
    /\ file \in [Paths -> Versions \cup {None}] /\ file["own"] = None
    /\ shim = {} /\ bridge = {} /\ servers = {} /\ xfile = {}
    /\ rec = None

OldHost ==
    \E v \in Versions, d \in Displays, p \in Ports :
        /\ file = [own |-> v, pkg |-> None]
        /\ shim = {[template |-> v, port |-> p]}
        /\ bridge = {[display |-> d, port |-> p, path |-> "own", version |-> v]}
        /\ servers = {d} /\ xfile = {[display |-> d, pid |-> "old"]}
        /\ rec = [schema |-> 0, hash |-> v, shim |-> {[template |-> None, port |-> p]},
                  codex |-> "on", remote |-> FALSE]

Init ==
    /\ NewHost \/ OldHost
    /\ strays = {}
    /\ pc = "idle" /\ run = None /\ state = None /\ prior = None /\ found = {}
    /\ changed = FALSE /\ resume = {} /\ display = None /\ new = None
    /\ was = {} /\ hurt = FALSE /\ settled = FALSE /\ troubles = 0

Connect ==
    \/ Inspect \/ Read \/ Probe \/ Look \/ Stop \/ Copy \/ Resume \/ Admit
    \/ CheckShim \/ Install \/ Uninstall \/ Record \/ Verify \/ Amend

Codex ==
    \/ Preflight \/ ClearBridge \/ ClearServer \/ Serve \/ Retire \/ Spawn
    \/ CheckBridge \/ StopOldBridge \/ StartNewBridge \/ FixDisplay \/ Final

UninstallCodex ==
    \/ CheckUninstall \/ UninstallBridge \/ UninstallServer \/ UninstallFiles
    \/ UninstallRecord

Others == BridgeDies \/ ServerDies \/ PackageChanges \/ FilesRemoved

Next ==
    \/ \E c \in Commands : Start(c)
    \/ Connect \/ Codex \/ UninstallCodex \/ End \/ Kill \/ Others

Spec == Init /\ [][Next]_vars

-----------------------------------------------------------------------------
(* Properties.                                                             *)

\* A run for other targets that succeeds leaves the bridge serving the display and
\* the port it served before, though it was stopped for the upload (connect.go:446).
BridgeKept ==
    pc = "done" /\ run.op = "connect" /\ ~run.codex /\ ~hurt =>
        {Serves(b) : b \in bridge} = was

\* Whatever the host was like, a run that says that Codex is ready has one bridge
\* that serves the daemon's port on a live display that later runs can find, and one
\* with --force has put its binary and a shim of it in place (connect.go:1245, 1273).
SuccessServes ==
    pc = "done" /\ run.op = "connect" /\ ~hurt =>
        /\ run.codex =>
            \E x \in xfile :
                /\ x.pid = "live" /\ x.display \in servers
                /\ {Serves(b) : b \in bridge} = {[display |-> x.display, port |-> run.port]}
        /\ run.force =>
            /\ run.shims => shim = {[template |-> file[Used], port |-> run.port]}
            /\ found = {} => file["own"] = run.version

\* What a run cannot get past by itself: without --force, a record it cannot read, one of
\* a newer release, or a damaged binary that the record vouches for; a package's binary that
\* is gone; a bridge nobody knows of that keeps the binary busy; and a process number
\* in xvfb.pid that is another process's now, which StopRemote refuses to kill.
Obstacle ==
    \/ ~run.force /\ (rec = Broken \/ Newer \/ file["own"] = Broken)
    \/ (run.mode = "remote" \/ (HasRecord /\ Adopts(rec))) /\ MayNotResolve
    \/ \E b \in strays : b.path = "own"
    \/ run.codex /\ \E x \in xfile : x.pid = "reused"

\* A run in which nothing goes wrong succeeds, whatever earlier runs left half done,
\* unless it meets one of these obstacles (connect.go:443, 497, 1245; xvfb.go:214).  A file
\* of somebody else's in the shim's place and v0.7.0's damage are obstacles of other modules.
OnlyKnownObstacles ==
    pc = "failed" /\ run.op = "connect" /\ ~hurt => Obstacle

\* A host that is recorded as a package manager's gets a binary uploaded only when
\* --local-bin asks for it, --force or not (connect.go:398, remote_bin_mode.go:8).
PackageBinaryKept ==
    [][pc = "copy" /\ file' # file /\ ~hurt /\ HasRecord /\ rec.remote
            => run.mode = "local"]_vars

\* Displays whose server a later run can find and stop.
Recorded == {x.display : x \in {y \in xfile : y.pid \in {"live", "old"}}}

\* No command in which nothing goes wrong leaves a bridge or an X server running that
\* no file names, which --force and uninstall could not stop (xvfb.go:216).
NothingLost ==
    [][strays' \ strays # {} \/ (servers' \ Recorded') \ (servers \ Recorded) # {}
            => hurt']_vars
=============================================================================
