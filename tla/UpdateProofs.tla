------------------------------ MODULE UpdateProofs ------------------------------
(***************************************************************************)
(* Proofs about Update: types, that a copy of the binary survives, and that   *)
(* an update that fails is undone.                                          *)
(***************************************************************************)
EXTENDS Update, TLAPS

-----------------------------------------------------------------------------
(* Types.                                                                   *)

Places == {"self", "bak", "gone", "other"}

\* Following renames keeps a table of daemons.
LEMMA MovedType ==
    ASSUME NEW to, holder \in [Ports -> Daemons \cup {None}],
           \A place \in DOMAIN to : to[place] \in Places,
           Moved(to)
    PROVE  holder' \in [Ports -> Daemons \cup {None}]
  <1> SUFFICES ASSUME NEW p \in Ports, holder[p] # None
               PROVE  [holder[p] EXCEPT !.place =
                          IF @ \in DOMAIN to THEN to[@] ELSE @] \in Daemons
    BY DEF Moved
  <1>1. holder[p] \in Daemons
    OBVIOUS
  <1> QED
    BY <1>1 DEF Daemons, Places

\* Counting trouble keeps the counters in their bounds.
LEMMA TroubleType ==
    ASSUME TypeOK, Trouble \/ Fine
    PROVE  /\ hurt' \in 0 .. troubles' /\ troubles' \in 0 .. MaxTroubles
           /\ astray' \in BOOLEAN
  <1>1. CASE Fine
    BY <1>1 DEF TypeOK, Fine
  <1>2. CASE Trouble
    <2>1. hurt' \in 0 .. troubles' /\ troubles' \in 0 .. MaxTroubles
      BY <1>2, UpdateAssumption DEF TypeOK, Trouble
    <2>2. astray' \in BOOLEAN
      BY <1>2, Zenon DEF TypeOK, Trouble
    <2> QED
      BY <2>1, <2>2
  <1> QED
    BY <1>1, <1>2

\* What renames do to the two names and to the daemons that run from them.
FilesType ==
    /\ self' \in Versions \cup {None} /\ bak' \in Versions \cup {None}
    /\ holder' \in [Ports -> Daemons \cup {None}]

LEMMA BackUpType ==
    ASSUME TypeOK, BackUp
    PROVE  FilesType
  <1> DEFINE to == [place \in {"self", "bak"} |-> IF place = "self" THEN "bak" ELSE "gone"]
  <1>1. Moved(to) /\ \A place \in DOMAIN to : to[place] \in Places
    BY DEF BackUp, Places
  <1> HIDE DEF to
  <1>2. holder' \in [Ports -> Daemons \cup {None}]
    BY <1>1, MovedType DEF TypeOK
  <1> QED
    BY <1>2 DEF TypeOK, BackUp, FilesType

LEMMA PutNewType ==
    ASSUME TypeOK, PutNew
    PROVE  FilesType
  <1> DEFINE to == [place \in {"self"} |-> "gone"]
  <1>1. Moved(to) /\ \A place \in DOMAIN to : to[place] \in Places
    BY DEF PutNew, Places
  <1> HIDE DEF to
  <1>2. holder' \in [Ports -> Daemons \cup {None}]
    BY <1>1, MovedType DEF TypeOK
  <1> QED
    BY <1>2 DEF TypeOK, PutNew, FilesType

LEMMA RemoveSelfType ==
    ASSUME TypeOK, RemoveSelf
    PROVE  FilesType /\ (Fine \/ Trouble)
  <1> DEFINE to == [place \in {"self"} |-> "gone"]
  <1>1. CASE self' = None /\ UNCHANGED bak /\ Moved(to) /\ Fine
    <2>1. \A place \in DOMAIN to : to[place] \in Places
      BY DEF Places
    <2> HIDE DEF to
    <2>2. holder' \in [Ports -> Daemons \cup {None}]
      BY <1>1, <2>1, MovedType DEF TypeOK
    <2> QED
      BY <1>1, <2>2 DEF TypeOK, FilesType
  <1>2. CASE Trouble /\ UNCHANGED <<files, holder>>
    BY <1>2 DEF TypeOK, FilesType, files
  <1> QED
    BY <1>1, <1>2 DEF RemoveSelf

LEMMA PutBackType ==
    ASSUME TypeOK, PutBack
    PROVE  FilesType /\ (Fine \/ Trouble)
  <1> DEFINE to == [place \in {"self", "bak"} |-> IF place = "bak" THEN "self" ELSE "gone"]
  <1>1. CASE self' = bak /\ bak' = None /\ Moved(to) /\ Fine
    <2>1. \A place \in DOMAIN to : to[place] \in Places
      BY DEF Places
    <2> HIDE DEF to
    <2>2. holder' \in [Ports -> Daemons \cup {None}]
      BY <1>1, <2>1, MovedType DEF TypeOK
    <2> QED
      BY <1>1, <2>2 DEF TypeOK, FilesType
  <1>2. CASE (Fine \/ Trouble) /\ UNCHANGED <<files, holder>>
    BY <1>2 DEF TypeOK, FilesType, files
  <1> QED
    BY <1>1, <1>2 DEF PutBack

-----------------------------------------------------------------------------
(* Each action keeps the types.                                             *)

LEMMA BeginType ==
    ASSUME TypeOK, Begin
    PROVE  /\ commands' \in 0 .. MaxCommands
           /\ began'.self \in Versions \cup {None} /\ began'.bak \in Versions \cup {None}
           /\ began'.plist \in Ports \cup {None} /\ began'.job \in Ports \cup {None}
           /\ began'.served \in BOOLEAN
           /\ hurt' \in 0 .. troubles' /\ astray' \in BOOLEAN /\ killed' \in BOOLEAN
           /\ UNCHANGED <<files, service, holder, troubles>>
  <1>1. commands' \in 0 .. MaxCommands
    BY UpdateAssumption DEF TypeOK, Begin
  <1>2. /\ began'.self = self /\ began'.bak = bak /\ began'.plist = plist /\ began'.job = job
    BY DEF Begin
  <1>3. began'.served \in BOOLEAN
    BY DEF Begin
  <1>4. /\ hurt' = 0 /\ astray' = FALSE /\ killed' = FALSE
        /\ UNCHANGED <<files, service, holder, troubles>>
    BY DEF Begin
  <1>5. 0 \in 0 .. troubles
    BY UpdateAssumption DEF TypeOK
  <1> QED
    BY <1>1, <1>2, <1>3, <1>4, <1>5 DEF TypeOK

LEMMA StartType ==
    ASSUME TypeOK, StartUpdate \/ ServiceInstall \/ ServiceUninstall
    PROVE  TypeOK'
  <1>1. CASE StartUpdate
    <2>1. target' \in Versions \cup {None} /\ force' \in BOOLEAN
          /\ pc' \in {"failed", "done", "conflict"} /\ phase' = "none"
          /\ UNCHANGED <<port, running>> /\ Begin
      BY <1>1, UpdateAssumption DEF StartUpdate, Latest
    <2> QED
      BY <2>1, BeginType DEF TypeOK, files, service
  <1>2. CASE ServiceInstall
    BY <1>2, BeginType DEF TypeOK, ServiceInstall, options, files, service
  <1>3. CASE ServiceUninstall
    BY <1>3, BeginType DEF TypeOK, ServiceUninstall, options, files, service
  <1> QED
    BY <1>1, <1>2, <1>3

\* Steps up to the swap, and the swap.
LEMMA SwapType ==
    ASSUME TypeOK,
           \/ CheckConflict \/ Snapshot \/ Stage \/ MakeBackup \/ InstallNew
           \/ Remove \/ Restore \/ Finish
    PROVE  TypeOK'
  <1> USE DEF files, service, options, ghosts
  <1>1. CASE CheckConflict
    <2>1. (Trouble \/ Fine) /\ port' \in Ports
      BY <1>1, UpdateAssumption DEF CheckConflict, NoConflict, InstalledPort, TypeOK
    <2> QED
      BY <1>1, <2>1, TroubleType DEF CheckConflict, NoConflict, TypeOK
  <1>2. CASE Snapshot
    BY <1>2 DEF Snapshot, TypeOK, Fine
  <1>3. CASE Stage
    BY <1>3, TroubleType DEF Stage, TypeOK
  <1>4. CASE MakeBackup
    <2>1. FilesType /\ (Trouble \/ Fine)
      BY <1>4, BackUpType DEF MakeBackup, TypeOK, FilesType
    <2> QED
      BY <1>4, <2>1, TroubleType DEF MakeBackup, TypeOK, FilesType
  <1>5. CASE InstallNew
    <2>1. FilesType /\ (Trouble \/ Fine)
      BY <1>5, PutNewType DEF InstallNew, TypeOK, FilesType
    <2> QED
      BY <1>5, <2>1, TroubleType DEF InstallNew, TypeOK, FilesType
  <1>6. CASE Remove
    BY <1>6, RemoveSelfType, TroubleType DEF Remove, TypeOK, FilesType
  <1>7. CASE Restore
    BY <1>7, PutBackType, TroubleType DEF Restore, TypeOK, FilesType
  <1>8. CASE Finish
    <2> DEFINE to == [place \in {"bak"} |-> "gone"]
    <2>1. \A place \in DOMAIN to : to[place] \in Places
      BY DEF Places
    <2>2. Moved(to) \/ UNCHANGED holder
      BY <1>8 DEF Finish
    <2> HIDE DEF to
    <2>3. holder' \in [Ports -> Daemons \cup {None}]
      BY <2>1, <2>2, MovedType DEF TypeOK
    <2> QED
      BY <1>8, <2>3, TroubleType DEF Finish, TypeOK
  <1> QED
    BY <1>1, <1>2, <1>3, <1>4, <1>5, <1>6, <1>7, <1>8

\* The service and the checks.
LEMMA ServiceType ==
    ASSUME TypeOK,
           \/ Unload \/ Unlist \/ WritePlist \/ Load
           \/ CheckVersion \/ CheckHealth \/ CheckOwner
    PROVE  TypeOK'
  <1> USE DEF files, service, options, ghosts
  <1>1. CASE Unload
    <2>1. Trouble \/ Fine
      BY <1>1 DEF Unload
    <2>2. holder' \in [Ports -> Daemons \cup {None}] /\ job' \in Ports \cup {None}
      BY <1>1, ZenonT(60) DEF Unload, TypeOK, Daemons
    <2> QED
      BY <1>1, <2>1, <2>2, TroubleType DEF Unload, TypeOK
  <1>2. CASE Unlist
    BY <1>2, TroubleType DEF Unlist, RollBack, TypeOK
  <1>3. CASE WritePlist
    BY <1>3, TroubleType DEF WritePlist, InstallFails, RollBack, TypeOK
  <1>4. CASE Load
    <2>1. Trouble \/ Fine
      BY <1>4 DEF Load
    <2> QED
      BY <1>4, <2>1, TroubleType DEF Load, InstallFails, RollBack, TypeOK
  <1>5. CASE CheckVersion
    BY <1>5, TroubleType DEF CheckVersion, RollBack, TypeOK
  <1>6. CASE CheckHealth
    <2>1. Trouble \/ Fine
      BY <1>6 DEF CheckHealth
    <2> QED
      BY <1>6, <2>1, TroubleType DEF CheckHealth, RollBack, TypeOK
  <1>7. CASE CheckOwner
    <2>1. Trouble \/ Fine
      BY <1>7 DEF CheckOwner, NoConflict
    <2> QED
      BY <1>7, <2>1, TroubleType DEF CheckOwner, RollBack, TypeOK
  <1> QED
    BY <1>1, <1>2, <1>3, <1>4, <1>5, <1>6, <1>7

\* Kills, launchd and the others.
LEMMA WorldType ==
    ASSUME TypeOK,
           Kill \/ Reinstall \/ DaemonStarts \/ DaemonEnds \/ OthersAct
    PROVE  TypeOK'
  <1> USE DEF files, service, options, ghosts
  <1>1. CASE Kill
    BY <1>1, TroubleType DEF Kill, TypeOK
  <1>2. CASE Reinstall
    BY <1>2, UpdateAssumption DEF Reinstall, TypeOK, Fine
  <1>3. CASE DaemonStarts
    <2>1. holder' \in [Ports -> Daemons \cup {None}]
      BY <1>3 DEF DaemonStarts, TypeOK, Daemons
    <2> QED
      BY <1>3, <2>1 DEF DaemonStarts, TypeOK, Fine
  <1>4. CASE DaemonEnds
    <2>1. holder' \in [Ports -> Daemons \cup {None}]
      BY <1>4 DEF DaemonEnds, TypeOK
    <2> QED
      BY <1>4, <2>1 DEF DaemonEnds, TypeOK, Fine
  <1>5. CASE OthersAct
    <2>1. PICK p \in Ports, d \in Daemons \cup {None} : holder' = [holder EXCEPT ![p] = d]
      <3>1. \A by \in {"job", "user"} :
              /\ [place |-> "other", image |-> None, by |-> by, ending |-> FALSE] \in Daemons
              /\ self \in Sound =>
                   [place |-> "self", image |-> self, by |-> by, ending |-> FALSE] \in Daemons
        BY DEF Daemons, TypeOK
      <3> QED
        BY <1>5, <3>1 DEF OthersAct
    <2>2. holder' \in [Ports -> Daemons \cup {None}]
      BY <2>1 DEF TypeOK
    <2> QED
      BY <1>5, <2>2, TroubleType DEF OthersAct, TypeOK
  <1> QED
    BY <1>1, <1>2, <1>3, <1>4, <1>5

\* The command keeps its types, for any versions, ports and bounds.
THEOREM TypeCorrect == Spec => []TypeOK
  <1>1. Init => TypeOK
    <2> SUFFICES ASSUME Init PROVE TypeOK
      OBVIOUS
    <2>1. /\ began.self = self /\ began.bak = bak /\ began.plist = plist /\ began.job = job
          /\ began.served = FALSE
      BY DEF Init
    <2>2. holder \in [Ports -> Daemons \cup {None}]
      BY DEF Init
    <2>3. /\ hurt \in 0 .. troubles /\ commands \in 0 .. MaxCommands
          /\ troubles \in 0 .. MaxTroubles
      BY UpdateAssumption DEF Init
    <2>4. /\ self \in Versions /\ bak = None /\ plist \in Ports \cup {None} /\ job = plist
          /\ target = None /\ port \in Ports
      BY UpdateAssumption DEF Init
    <2>5. /\ pc = "idle" /\ phase = "none" /\ force = FALSE /\ running = FALSE
          /\ killed = FALSE /\ astray = FALSE
      BY DEF Init
    <2> QED
      BY <2>1, <2>2, <2>3, <2>4, <2>5 DEF TypeOK
  <1>2. TypeOK /\ [Next]_vars => TypeOK'
    <2> SUFFICES ASSUME TypeOK, [Next]_vars PROVE TypeOK'
      OBVIOUS
    <2>1. CASE UNCHANGED vars
      BY <2>1 DEF TypeOK, vars, files, service, options, ghosts
    <2>2. CASE Next
      BY <2>2, StartType, SwapType, ServiceType, WorldType DEF Next, UpdateStep
    <2> QED
      BY <2>1, <2>2
  <1> QED
    BY <1>1, <1>2, PTL DEF Spec

-----------------------------------------------------------------------------
(* A copy survives, and what fails is undone.  Where a command is decides      *)
(* which of the two names holds the binary it found, and whether the service   *)
(* is still as it found it.                                                  *)

BeforeSwap == {"conflict", "snapshot", "stage", "backup"}
Checks == {"version", "health", "owner"}
Undoing == {"remove", "restore"}
ServiceSteps == {"unload", "unlist", "write", "load"}

ServiceKept == plist = began.plist /\ job = began.job

\* An update that has asked whether the service runs, and where.
Asked ==
    \/ pc \in {"stage", "backup", "install"} \cup Checks \cup Undoing
    \/ pc \in ServiceSteps /\ phase \in {"reinstall", "rollback"}

CopyInv ==
    /\ SomeCopy
    /\ began.self # None
    /\ pc \in BeforeSwap =>
         self = began.self /\ ServiceKept /\ target # None /\ phase = "none"
    /\ pc = "snapshot" => port = InstalledPort
    /\ pc = "install" =>
         bak = began.self /\ ServiceKept /\ target # None /\ phase = "swap"
    /\ pc \in Checks =>
         /\ bak = began.self /\ self # None /\ phase \in {"swap", "reinstall"}
         /\ running \/ ServiceKept
    /\ pc = "finish" => self # None
    /\ pc \in Undoing =>
         /\ bak = began.self /\ phase \in {"swap", "rollback"}
         /\ phase = "swap" \/ ~running => ServiceKept
    /\ pc \in ServiceSteps =>
         /\ phase \in {"reinstall", "rollback", "install", "uninstall"}
         /\ phase = "reinstall" => bak = began.self /\ self # None /\ running
         /\ phase = "rollback" => running
         /\ phase = "rollback" /\ ~astray =>
              /\ self = began.self
              /\ pc # "unload" => job = None
              /\ pc = "load" => plist = port
    /\ Asked =>
         /\ port = IF began.plist = None THEN DefaultPort ELSE began.plist
         /\ running => began.job # None
         /\ began.job # None => running
    /\ FailedUpdateUndone

UpdateInv == TypeOK /\ CopyInv

\* A command begins with a binary, and has not changed anything.
LEMMA StartCopy ==
    ASSUME UpdateInv, StartUpdate \/ ServiceInstall \/ ServiceUninstall
    PROVE  CopyInv'
  <1> USE DEF UpdateInv, CopyInv, SomeCopy, FailedUpdateUndone, Regular, Updating,
              BeforeSwap, Checks, Undoing, ServiceSteps, ServiceKept, Asked
  <1>1. /\ began'.self = self' /\ began'.plist = plist' /\ began'.job = job'
        /\ self' = self /\ bak' = bak /\ self # None
    BY DEF StartUpdate, ServiceInstall, ServiceUninstall, Begin, files, service
  <1>2. CASE StartUpdate
    BY <1>1, <1>2 DEF StartUpdate
  <1>3. CASE ServiceInstall \/ ServiceUninstall
    BY <1>1, <1>3 DEF ServiceInstall, ServiceUninstall
  <1> QED
    BY <1>2, <1>3

\* The swap and its undoing.
LEMMA SwapCopy ==
    ASSUME UpdateInv,
           \/ CheckConflict \/ Snapshot \/ Stage \/ MakeBackup \/ InstallNew
           \/ Remove \/ Restore \/ Finish
    PROVE  CopyInv'
  <1> USE DEF UpdateInv, CopyInv, SomeCopy, FailedUpdateUndone, Regular, Updating,
              BeforeSwap, Checks, Undoing, ServiceSteps, ServiceKept, Asked,
              files, service, options, ghosts, Trouble, Fine
  <1>1. CASE CheckConflict
    BY <1>1 DEF CheckConflict, InstalledPort, NoConflict
  <1>2. CASE Snapshot
    BY <1>2 DEF Snapshot, InstalledPort
  <1>3. CASE Stage
    BY <1>3 DEF Stage
  <1>4. CASE MakeBackup
    BY <1>4 DEF MakeBackup, BackUp
  <1>5. CASE InstallNew
    BY <1>5 DEF InstallNew, PutNew
  <1>6. CASE Remove
    BY <1>6 DEF Remove, RemoveSelf
  <1>7. CASE Restore
    BY <1>7 DEF Restore, PutBack
  <1>8. CASE Finish
    BY <1>8 DEF Finish
  <1> QED
    BY <1>1, <1>2, <1>3, <1>4, <1>5, <1>6, <1>7, <1>8

\* The service, registered again by an update or its rollback, and the checks.
LEMMA ServiceCopy ==
    ASSUME UpdateInv,
           \/ Unload \/ Unlist \/ WritePlist \/ Load
           \/ CheckVersion \/ CheckHealth \/ CheckOwner
    PROVE  CopyInv'
  <1> USE DEF UpdateInv, CopyInv, SomeCopy, FailedUpdateUndone, Regular, Updating,
              BeforeSwap, Checks, Undoing, ServiceSteps, ServiceKept, Asked,
              files, service, options, ghosts, Trouble, Fine, RollBack, InstallFails
  <1>1. CASE Unload
    BY <1>1 DEF Unload
  <1>2. CASE Unlist
    BY <1>2 DEF Unlist
  <1>3. CASE WritePlist
    BY <1>3 DEF WritePlist
  <1>4. CASE Load
    BY <1>4 DEF Load
  <1>5. CASE CheckVersion
    BY <1>5 DEF CheckVersion
  <1>6. CASE CheckHealth
    BY <1>6 DEF CheckHealth
  <1>7. CASE CheckOwner
    BY <1>7 DEF CheckOwner, NoConflict
  <1> QED
    BY <1>1, <1>2, <1>3, <1>4, <1>5, <1>6, <1>7

\* Nobody else touches the two names while a command runs.
LEMMA WorldCopy ==
    ASSUME UpdateInv,
           Kill \/ Reinstall \/ DaemonStarts \/ DaemonEnds \/ OthersAct
    PROVE  CopyInv'
  <1> USE DEF UpdateInv, CopyInv, SomeCopy, FailedUpdateUndone, Regular, Updating,
              BeforeSwap, Checks, Undoing, ServiceSteps, ServiceKept, Asked,
              files, service, options, ghosts, Trouble, Fine, InstalledPort
  <1>1. CASE Kill
    BY <1>1 DEF Kill
  <1>2. CASE Reinstall
    BY <1>2, UpdateAssumption DEF Reinstall
  <1>3. CASE DaemonStarts \/ DaemonEnds
    BY <1>3 DEF DaemonStarts, DaemonEnds
  <1>4. CASE OthersAct
    BY <1>4 DEF OthersAct
  <1> QED
    BY <1>1, <1>2, <1>3, <1>4

\* The invariant, for any versions, ports and bounds.
THEOREM UpdateInvHolds == Spec => []UpdateInv
  <1>1. Init => CopyInv
    BY UpdateAssumption
    DEF Init, CopyInv, SomeCopy, FailedUpdateUndone, BeforeSwap, Checks, Undoing,
        ServiceSteps, Asked
  <1>2. UpdateInv /\ [Next]_vars => CopyInv'
    <2> SUFFICES ASSUME UpdateInv, [Next]_vars PROVE CopyInv'
      OBVIOUS
    <2>1. CASE UNCHANGED vars
      BY <2>1
      DEF UpdateInv, CopyInv, SomeCopy, FailedUpdateUndone, Regular, Updating, BeforeSwap,
          Checks, Undoing, ServiceSteps, ServiceKept, Asked, InstalledPort, vars, files,
          service, options, ghosts
    <2>2. CASE Next
      BY <2>2, StartCopy, SwapCopy, ServiceCopy, WorldCopy DEF Next, UpdateStep
    <2> QED
      BY <2>1, <2>2
  <1> QED
    BY <1>1, <1>2, TypeCorrect, PTL DEF Spec, UpdateInv

\* Whatever fails and wherever a command is killed, the binary or its backup is there.
THEOREM SomeCopyHolds == Spec => []SomeCopy
  <1>1. UpdateInv => SomeCopy
    BY DEF UpdateInv, CopyInv
  <1> QED
    BY <1>1, UpdateInvHolds, PTL

\* A failed update leaves binary, file and job as it found them, unless its rollback met
\* with trouble: for any number of failures, and whatever others do in between.
THEOREM FailedUpdateUndoneHolds == Spec => []FailedUpdateUndone
  <1>1. UpdateInv => FailedUpdateUndone
    BY DEF UpdateInv, CopyInv
  <1> QED
    BY <1>1, UpdateInvHolds, PTL
===============================================================================
