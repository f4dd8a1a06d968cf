-------------------------------- MODULE Update --------------------------------
(***************************************************************************)
(* Self-update on macOS (cmd/cc-clip/update.go) with the launchd service it *)
(* restarts (internal/service/launchd.go): the new binary is downloaded and  *)
(* run once, the installed one becomes a backup, the new one takes its place, *)
(* the service is registered again and has to answer, or all is rolled back. *)
(* `service install` and `service uninstall` use the same files.  On Linux   *)
(* an update is one that finds no service.                                   *)
(*                                                                         *)
(* One command runs at a time.  An action is one change of a file or one      *)
(* external command, with the decision that follows.  Each can fail, the      *)
(* command can be killed between any two, and launchd, daemons started by    *)
(* hand and other programs go on meanwhile.                                  *)
(***************************************************************************)
EXTENDS Naturals

CONSTANTS
    Versions,    \* contents of the binary; its --version works
    Sound,       \* those whose daemon comes up
    Releases,    \* those that are a release; the rest calls itself dev
    Ports, DefaultPort,
    MaxCommands, \* bound on commands
    MaxTroubles, \* bound on failures, kills and what others do
    None

ASSUME UpdateAssumption ==
    /\ Sound \subseteq Versions /\ Releases \subseteq Versions
    /\ DefaultPort \in Ports
    /\ MaxCommands \in Nat /\ MaxTroubles \in Nat
    /\ None \notin Versions /\ None \notin Ports

\* A daemon: where its file now is, who started it, and whether it has been told to end.
Daemons ==
    [place : {"self", "bak", "gone", "other"}, image : Versions \cup {None},
     by : {"job", "user"}, ending : BOOLEAN]

VARIABLES
    self, bak,  \* the installed binary and its backup
    plist, job, \* port in the file, and of the job that launchd has loaded
    holder,     \* the daemon that listens on each port
    \* The command:
    pc,
    phase,      \* what the service is being registered, or removed, for
    target, force,
    port,       \* servicePort
    running,    \* serviceWasRunning
    \* Ghosts, of no effect on the rest:
    began,      \* what the command found
    hurt,       \* troubles since it began
    astray,     \* there was trouble during the rollback
    killed, commands, troubles

files == <<self, bak>>
service == <<plist, job>>
options == <<target, force>>
ghosts == <<began, killed, commands>>
vars == <<files, service, holder, pc, phase, options, port, running, ghosts, hurt, astray,
          troubles>>

TypeOK ==
    /\ self \in Versions \cup {None} /\ bak \in Versions \cup {None}
    /\ plist \in Ports \cup {None} /\ job \in Ports \cup {None}
    /\ holder \in [Ports -> Daemons \cup {None}]
    /\ pc \in {"idle", "done", "failed", "conflict", "snapshot", "stage", "backup",
               "install", "unload", "unlist", "write", "load", "version", "health",
               "owner", "finish", "remove", "restore"}
    /\ phase \in {"none", "swap", "reinstall", "rollback", "install", "uninstall"}
    /\ target \in Versions \cup {None} /\ force \in BOOLEAN
    /\ port \in Ports /\ running \in BOOLEAN
    /\ began.self \in Versions \cup {None} /\ began.bak \in Versions \cup {None}
    /\ began.plist \in Ports \cup {None} /\ began.job \in Ports \cup {None}
    /\ began.served \in BOOLEAN
    /\ hurt \in 0 .. troubles /\ killed \in BOOLEAN /\ astray \in BOOLEAN
    /\ commands \in 0 .. MaxCommands /\ troubles \in 0 .. MaxTroubles

Fine == UNCHANGED <<hurt, astray, troubles>>

Trouble ==
    /\ troubles < MaxTroubles
    /\ troubles' = troubles + 1
    /\ hurt' = hurt + 1
    /\ astray' = (astray \/ phase = "rollback" \/ pc \in {"remove", "restore"})

-----------------------------------------------------------------------------
(* Files, and the daemons that run from them: a running program follows its  *)
(* file through renames.                                                     *)

Moved(to) ==
    holder' = [p \in Ports |->
        IF holder[p] = None THEN None
        ELSE [holder[p] EXCEPT !.place = IF @ \in DOMAIN to THEN to[@] ELSE @]]

\* os.Rename(selfPath, backup)
BackUp ==
    /\ self' = None /\ bak' = self
    /\ Moved([place \in {"self", "bak"} |-> IF place = "self" THEN "bak" ELSE "gone"])

\* Mutant: the new binary takes the place of the backup too.
PutNewForGood ==
    /\ self' = target /\ bak' = None
    /\ Moved([place \in {"self", "bak"} |-> "gone"])

\* renameAtomic(stagedBinary, selfPath), by way of selfPath.new on another device: a
\* failure leaves selfPath as it was.
PutNew ==
    /\ self' = target /\ UNCHANGED bak
    /\ Moved([place \in {"self"} |-> "gone"])

\* os.Remove(selfPath), whose error is ignored.
RemoveSelf ==
    \/ /\ self' = None /\ UNCHANGED bak
       /\ Moved([place \in {"self"} |-> "gone"])
       /\ Fine
    \/ self # None /\ Trouble /\ UNCHANGED <<files, holder>>

\* os.Rename(backup, selfPath), whose error is ignored.
PutBack ==
    \/ /\ bak # None /\ self' = bak /\ bak' = None
       /\ Moved([place \in {"self", "bak"} |-> IF place = "bak" THEN "self" ELSE "gone"])
       /\ Fine
    \/ bak = None /\ Fine /\ UNCHANGED <<files, holder>>
    \/ bak # None /\ Trouble /\ UNCHANGED <<files, holder>>

-----------------------------------------------------------------------------
(* What the command asks.                                                   *)

\* detectDaemonConflict: the path of the listener is compared with selfPath.  lsof may
\* fail, or not know the path of a removed file, which both callers take for no conflict.
Conflict(p) == holder[p] # None /\ holder[p].place # "self"
NoConflict(p) ==
    \/ ~Conflict(p) /\ Fine
    \/ Trouble

\* installedServicePort
InstalledPort == IF plist = None THEN DefaultPort ELSE plist

\* normalizeVersion makes "" of what is not a release, which is never the same.
SameVersion(v, t) == v \in Releases /\ v = t

\* fetchLatestReleaseTag: the API, or else the redirect of the page.
Latest(api, page) == IF api # None THEN api ELSE page

-----------------------------------------------------------------------------
(* Update, up to the first change on disk.                                  *)

Begin ==
    /\ pc \in {"idle", "done", "failed"}
    /\ self # None
    /\ commands < MaxCommands
    /\ commands' = commands + 1
    /\ began' = [self |-> self, bak |-> bak, plist |-> plist, job |-> job,
                 served |-> /\ job # None /\ job = plist
                            /\ holder[job] # None
                            /\ holder[job].by = "job" /\ holder[job].place = "self"
                            /\ ~holder[job].ending]
    /\ hurt' = 0 /\ astray' = FALSE /\ killed' = FALSE
    /\ UNCHANGED <<files, service, holder, troubles>>

\* The target is named by --to, or looked up; --check, the same version and a lookup
\* that fails end the command at once.
StartUpdate ==
    /\ Begin
    /\ \E to, api, page \in Releases \cup {None}, f, check \in BOOLEAN :
        LET t == IF to # None THEN to ELSE Latest(api, page)
        IN /\ target' = t /\ force' = f
           /\ pc' = IF t = None THEN "failed"
                    ELSE IF check \/ (SameVersion(self, t) /\ ~f) THEN "done"
                    ELSE "conflict"
    /\ phase' = "none"
    /\ UNCHANGED <<port, running>>

CheckConflict ==
    /\ pc = "conflict"
    /\ port' = InstalledPort
    /\ \/ Conflict(port') /\ Fine /\ pc' = IF force THEN "snapshot" ELSE "failed"
       \/ NoConflict(port') /\ pc' = "snapshot"
    /\ UNCHANGED <<files, service, holder, phase, options, running, ghosts>>

\* detectServiceRunning, before any mutation.
Snapshot ==
    /\ pc = "snapshot"
    /\ running' = (job # None)
    /\ pc' = "stage"
    /\ Fine /\ UNCHANGED <<files, service, holder, phase, options, port, ghosts>>

\* Download, checksum, extraction, signature and a run of the staged binary.
Stage ==
    /\ pc = "stage"
    /\ \/ pc' = "backup" /\ Fine
       \/ pc' = "failed" /\ Trouble
    /\ UNCHANGED <<files, service, holder, phase, options, port, running, ghosts>>

-----------------------------------------------------------------------------
(* The swap.                                                                *)

MakeBackup ==
    /\ pc = "backup"
    /\ \/ BackUp /\ pc' = "install" /\ Fine
       \/ pc' = "failed" /\ Trouble /\ UNCHANGED <<files, holder>>
    /\ phase' = "swap"
    /\ UNCHANGED <<service, options, port, running, ghosts>>

\* A rename or a chmod that fails is undone by restoreBinary.
InstallNew ==
    /\ pc = "install"
    /\ \/ /\ PutNew /\ Fine
          /\ pc' = IF running THEN "unload" ELSE "version"
          /\ phase' = IF running THEN "reinstall" ELSE "swap"
       \/ Trouble /\ pc' = "remove" /\ UNCHANGED <<files, holder, phase>>
       \/ Trouble /\ pc' = "remove" /\ PutNew /\ UNCHANGED phase
    /\ UNCHANGED <<service, options, port, running, ghosts>>

\* restoreBinary, and the first half of rollbackAfterInstall.
Remove ==
    /\ pc = "remove" /\ RemoveSelf
    /\ pc' = "restore"
    /\ UNCHANGED <<service, phase, options, port, running, ghosts>>

\* Mutant: the rollback forgets the service.
RestoreBinaryOnly ==
    /\ pc = "restore" /\ PutBack
    /\ pc' = "failed"
    /\ UNCHANGED <<service, phase, options, port, running, ghosts>>

\* The service is registered again only after a step that follows the installation.
Restore ==
    /\ pc = "restore" /\ PutBack
    /\ pc' = IF phase = "rollback" /\ running THEN "unload" ELSE "failed"
    /\ UNCHANGED <<service, phase, options, port, running, ghosts>>

\* What rollbackAfterInstall is called from.
RollBack == pc' = "remove" /\ phase' = "rollback"

-----------------------------------------------------------------------------
(* The service: Uninstall and Install of internal/service.                   *)

\* launchctl unload, or remove by label where that fails; their errors go no further.
\* The daemon of the job is told to end, and may take its time.
Unload ==
    /\ pc = "unload"
    /\ \/ /\ job' = None
          /\ \/ Fine /\ holder' = [p \in Ports |->
                    IF holder[p] # None /\ holder[p].by = "job" THEN None ELSE holder[p]]
             \/ Trouble /\ holder' = [p \in Ports |->
                    IF holder[p] # None /\ holder[p].by = "job"
                    THEN [holder[p] EXCEPT !.ending = TRUE] ELSE holder[p]]
       \/ Trouble /\ UNCHANGED <<job, holder>>
    /\ pc' = "unlist"
    /\ UNCHANGED <<files, plist, phase, options, port, running, ghosts>>

\* os.Remove(plist), the one error that Uninstall returns.  The rollback goes on.
Unlist ==
    /\ pc = "unlist"
    /\ \/ /\ plist' = None /\ Fine
          /\ pc' = (IF phase = "uninstall" THEN "done" ELSE "write")
          /\ UNCHANGED phase
       \/ /\ plist # None /\ Trouble /\ UNCHANGED plist
          /\ CASE phase = "reinstall" -> RollBack
               [] phase = "rollback" -> pc' = "write" /\ UNCHANGED phase
               [] OTHER -> pc' = "failed" /\ UNCHANGED phase
    /\ UNCHANGED <<files, job, holder, options, port, running, ghosts>>

\* Mutant: a service that cannot be registered is reported and left so.
InstallIsReported == pc' = "failed" /\ UNCHANGED phase

InstallFails ==
    IF phase = "reinstall" THEN RollBack ELSE pc' = "failed" /\ UNCHANGED phase

WritePlist ==
    /\ pc = "write"
    /\ \/ plist' = port /\ pc' = "load" /\ Fine /\ UNCHANGED phase
       \/ UNCHANGED plist /\ Trouble /\ InstallFails
    /\ UNCHANGED <<files, job, holder, options, port, running, ghosts>>

\* launchctl load.  A job that is loaded stays as it is, whatever load says of it; a
\* load that fails takes the file away.
Load ==
    /\ pc = "load"
    /\ \/ /\ job' = IF job = None THEN port ELSE job
          /\ pc' = CASE phase = "reinstall" -> "version"
                     [] phase = "rollback" -> "failed"
                     [] OTHER -> "done"
          /\ Fine /\ UNCHANGED <<plist, phase>>
       \/ /\ plist' = None /\ InstallFails
          /\ IF job # None THEN Fine ELSE Trouble
          /\ UNCHANGED job
    /\ UNCHANGED <<files, holder, options, port, running, ghosts>>

-----------------------------------------------------------------------------
(* The checks after the installation.                                       *)

\* runVersionCommand(selfPath), bounded by a timeout.
CheckVersion ==
    /\ pc = "version"
    /\ \/ /\ self = target
          /\ pc' = IF running THEN "health" ELSE "finish"
          /\ Fine /\ UNCHANGED phase
       \/ self # target /\ RollBack /\ Fine
       \/ RollBack /\ Trouble
    /\ UNCHANGED <<files, service, holder, options, port, running, ghosts>>

\* The first half of verifyRunningDaemon: something answers within ten seconds, which
\* are enough for a daemon that comes up.
CheckHealth ==
    /\ pc = "health"
    /\ \/ holder[port] # None /\ pc' = "owner" /\ Fine /\ UNCHANGED phase
       \/ RollBack /\ (IF self \notin Sound \/ job # port THEN Fine ELSE Trouble)
       \/ /\ holder[port] # None /\ holder[port].image = None \* no daemon of this program
          /\ RollBack /\ Fine
    /\ UNCHANGED <<files, service, holder, options, port, running, ghosts>>

\* The second half: the listener is the new binary, or cannot be told.
CheckOwner ==
    /\ pc = "owner"
    /\ \/ Conflict(port) /\ RollBack /\ Fine
       \/ NoConflict(port) /\ pc' = "finish" /\ UNCHANGED phase
    /\ UNCHANGED <<files, service, holder, options, port, running, ghosts>>

Finish ==
    /\ pc = "finish"
    /\ \/ bak' = None /\ Moved([place \in {"bak"} |-> "gone"]) /\ Fine
       \/ Trouble /\ UNCHANGED <<bak, holder>>
    /\ pc' = "done"
    /\ UNCHANGED <<self, service, phase, options, port, running, ghosts>>

-----------------------------------------------------------------------------
(* The other commands, and the world.                                       *)

ServiceInstall ==
    /\ Begin
    /\ port' \in Ports
    /\ pc' = "write" /\ phase' = "install"
    /\ UNCHANGED <<options, running>>

ServiceUninstall ==
    /\ Begin
    /\ pc' = "unload" /\ phase' = "uninstall"
    /\ UNCHANGED <<options, port, running>>

Kill ==
    /\ pc \notin {"idle", "done", "failed"}
    /\ Trouble
    /\ pc' = "idle" /\ killed' = TRUE
    /\ UNCHANGED <<files, service, holder, phase, options, port, running, began, commands>>

\* scripts/install.sh, where the binary is gone.
Reinstall ==
    /\ pc = "idle" /\ self = None
    /\ self' \in Releases
    /\ UNCHANGED <<bak, service, holder, pc, phase, options, port, running, ghosts>> /\ Fine

\* launchd keeps the job's daemon alive, from the file as it is now.
DaemonStarts ==
    /\ job # None /\ holder[job] = None
    /\ self \in Sound
    /\ holder' = [holder EXCEPT ![job] =
         [place |-> "self", image |-> self, by |-> "job", ending |-> FALSE]]
    /\ UNCHANGED <<files, service, pc, phase, options, port, running, ghosts>> /\ Fine

DaemonEnds ==
    /\ \E p \in Ports :
        /\ holder[p] # None /\ holder[p].ending
        /\ holder' = [holder EXCEPT ![p] = None]
    /\ UNCHANGED <<files, service, pc, phase, options, port, running, ghosts>> /\ Fine

\* Daemons started by hand and other programs come and go, and the job's daemon dies.
OthersAct ==
    /\ Trouble
    /\ \E p \in Ports :
        \/ /\ holder[p] = None /\ self \in Sound
           /\ holder' = [holder EXCEPT ![p] =
                [place |-> "self", image |-> self, by |-> "user", ending |-> FALSE]]
        \/ /\ holder[p] = None
           /\ holder' = [holder EXCEPT ![p] =
                [place |-> "other", image |-> None, by |-> "user", ending |-> FALSE]]
        \/ holder[p] # None /\ holder' = [holder EXCEPT ![p] = None]
    /\ UNCHANGED <<files, service, pc, phase, options, port, running, ghosts>>

UpdateStep ==
    \/ CheckConflict \/ Snapshot \/ Stage \/ MakeBackup \/ InstallNew \/ Remove \/ Restore
    \/ Unload \/ Unlist \/ WritePlist \/ Load
    \/ CheckVersion \/ CheckHealth \/ CheckOwner \/ Finish

Next ==
    \/ StartUpdate \/ UpdateStep
    \/ ServiceInstall \/ ServiceUninstall
    \/ Kill \/ Reinstall \/ DaemonStarts \/ DaemonEnds \/ OthersAct

Init ==
    /\ self \in Versions /\ bak = None
    /\ plist \in {None, DefaultPort} /\ job = plist
    /\ holder = [p \in Ports |-> None]
    /\ pc = "idle" /\ phase = "none"
    /\ target = None /\ force = FALSE
    /\ port = DefaultPort /\ running = FALSE
    /\ began = [self |-> self, bak |-> bak, plist |-> plist, job |-> job, served |-> FALSE]
    /\ hurt = 0 /\ astray = FALSE /\ killed = FALSE /\ commands = 0 /\ troubles = 0

\* Commands have timeouts or are run to their end; launchd restarts what ends.
Fairness == WF_vars(UpdateStep) /\ WF_vars(DaemonStarts) /\ WF_vars(DaemonEnds)

Spec == Init /\ [][Next]_vars /\ Fairness

-----------------------------------------------------------------------------
(* Properties.                                                              *)

\* Whatever fails and wherever a command is killed, the binary or its backup is there:
\* no order of backup, installation, rollback and removal of the backup gives both away.
SomeCopy == self # None \/ bak # None

\* The service was registered the way its file says, or not at all.
Regular == began.job = None \/ began.plist = began.job

Updating == {"none", "swap", "reinstall", "rollback"}

\* An update that ends in failure, whatever it failed of, leaves the binary, the file of
\* the service and the job as it found them, on the same port, unless the rollback itself
\* met with trouble.
FailedUpdateUndone ==
    pc = "failed" /\ phase \in Updating /\ ~astray =>
        /\ self = began.self
        /\ Regular => plist = began.plist /\ job = began.job

\* A service that an update has taken down serves again on the port it had, with the new
\* binary or the old one, unless the rollback met with trouble or the update was killed.
\* A program of somebody else's that took the port meanwhile counts: launchd waits for it.
ServesAgain ==
    phase = "reinstall" /\ job = None /\ began.served ~>
        \/ astray \/ killed \/ phase \in {"install", "uninstall"}
        \/ job # None /\ job = began.plist /\ holder[job] # None
===============================================================================
