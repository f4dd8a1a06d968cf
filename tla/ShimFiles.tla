------------------------------ MODULE ShimFiles ------------------------------
(***************************************************************************)
(* Installing and removing shims (internal/shim/install.go): a shim takes the *)
(* place of a program in a directory that belongs to the user, and programs   *)
(* that are in the way are moved aside, to a sidecar, and put back.          *)
(*                                                                         *)
(* A target is one name (xclip) or two (wl-paste with its companion wl-copy). *)
(* One command runs at a time; an action is one change of a shared name, with  *)
(* what was looked at just before it when nothing hangs on the difference.    *)
(* Others put programs and links at the same names, or remove them, at any    *)
(* moment.                                                                 *)
(***************************************************************************)
EXTENDS Integers, FiniteSets

CONSTANTS
    N,          \* names of the target: 1 is the shim, 2 its companion
    Programs,   \* regular files that cc-clip did not write
    MaxTroubles \* bound on failures, kills and changes by others

ASSUME ShimAssumption == N \in {1, 2} /\ MaxTroubles \in Nat

VARIABLES
    at,       \* what is at each name
    side,     \* what is at its sidecar, <name>.cc-clip-real
    quar,     \* what is at the private name of the uninstall in progress
    kept,     \* programs left at private names of uninstalls before
    pc, cur,  \* where the command is, and at which name
    adopt,    \* InstallOptions.AdoptForeign
    plan,     \* what prepareShimPath decided for each name
    moved,    \* rollback: names whose program was moved aside
    wrote,    \* rollback: the main shim was written
    pending,  \* Uninstall: names still to be processed
    restore,  \* uninstallShim: there is a program to put back
    troubles, \* failures, kills and changes by others so far
    \* Ghosts, of no effect on the rest:
    before,   \* at and side when the install began
    exposed,  \* others changed something while the install ran
    undoFailed, \* a step of the rollback failed
    touched   \* names at which others changed something, ever

files == <<at, side, quar, kept>>
install == <<adopt, plan, moved, wrote, before, exposed, undoFailed>>
removal == <<pending, restore>>
vars == <<files, install, removal, pc, cur, troubles, touched>>

Names == 1 .. N

\* What a name can hold.  A shim calls, for what it does not serve itself, the
\* program in its sidecar, the target of the link it replaced, or what a search
\* of PATH found.  A directory stands for whatever is no regular file and no link.
Entry ==
    [kind : {"absent", "dir"}, id : {"-"}]
        \cup [kind : {"shim"}, id : {"adopted", "target", "system"}]
        \cup [kind : {"link"}, id : {"live", "dangling"}]
        \cup [kind : {"program"}, id : Programs]

Absent == [kind |-> "absent", id |-> "-"]
Shim(to) == [kind |-> "shim", id |-> to]
Program(p) == [kind |-> "program", id |-> p]

IsOurShim(e) == e.kind = "shim"
IsRegular(e) == e.kind \in {"shim", "program"}

ProgramsIn(entries) == {p \in Programs : Program(p) \in entries}

\* The programs that are still somewhere.
Held ==
    kept \cup ProgramsIn({quar} \cup {at[i] : i \in Names} \cup {side[i] : i \in Names})

Plan == [adopt : BOOLEAN, to : {"adopted", "target", "system"}]
NoPlan == [adopt |-> FALSE, to |-> "system"]

Installing == {"prepare", "apply", "write", "rollback"}
Removing == {"inspect", "probe", "take", "check", "exchange", "move", "settle"}

TypeOK ==
    /\ at \in [Names -> Entry] /\ side \in [Names -> Entry] /\ quar \in Entry
    /\ kept \subseteq Programs
    /\ pc \in {"idle"} \cup Installing \cup Removing
    /\ cur \in Names
    /\ adopt \in BOOLEAN /\ plan \in [Names -> Plan]
    /\ moved \subseteq Names /\ wrote \in BOOLEAN
    /\ pending \subseteq Names /\ restore \in BOOLEAN
    /\ troubles \in 0 .. MaxTroubles
    /\ before \in [at : [Names -> Entry], side : [Names -> Entry]]
    /\ exposed \in BOOLEAN /\ undoFailed \in BOOLEAN
    /\ touched \subseteq Names

Trouble == troubles < MaxTroubles /\ troubles' = troubles + 1

\* The command ends; its local state is of no further use.
Ends ==
    /\ pc' = "idle" /\ cur' = 1
    /\ adopt' = FALSE /\ plan' = [i \in Names |-> NoPlan]
    /\ moved' = {} /\ wrote' = FALSE /\ pending' = {} /\ restore' = FALSE
    /\ before' = [at |-> [i \in Names |-> Absent], side |-> [i \in Names |-> Absent]]
    /\ exposed' = FALSE /\ undoFailed' = FALSE

Goto(label, i) == pc' = label /\ cur' = i

-----------------------------------------------------------------------------
(* Install.                                                                *)

BeginInstall(consent) ==
    /\ pc = "idle" /\ ~IsOurShim(at[1])
    /\ Goto("prepare", 1)
    /\ adopt' = consent
    /\ before' = [at |-> at, side |-> side]
    /\ UNCHANGED <<files, plan, moved, wrote, exposed, undoFailed, removal, troubles>>

\* Mutant: a program that was moved aside earlier is forgotten.
DelegateForgotten(i) == "system"

\* adoptedDelegate: a program moved aside earlier, or else a search of PATH.
Delegate(i) == IF IsRegular(side[i]) THEN "adopted" ELSE "system"

\* prepareShimPath refuses what it would destroy.
Refuses(i) ==
    \/ at[i].kind = "dir"
    \/ at[i].kind = "program" /\ (~adopt \/ side[i] # Absent)

Decision(i) ==
    [adopt |-> at[i].kind = "program",
     to |-> CASE at[i].kind = "program" -> "adopted"
              [] at[i].kind = "link"    -> IF at[i].id = "live" THEN "target" ELSE "system"
              [] OTHER                  -> Delegate(i)]

\* Every name is decided about before any is touched.
Prepare ==
    /\ pc = "prepare"
    /\ IF Refuses(cur)
       THEN Ends
       ELSE /\ plan' = [plan EXCEPT ![cur] = Decision(cur)]
            /\ IF cur < N THEN Goto("prepare", cur + 1) ELSE Goto("apply", 1)
            /\ UNCHANGED <<adopt, moved, wrote, before, exposed, undoFailed, removal>>
    /\ UNCHANGED <<files, troubles>>

AfterApply == IF cur < N THEN Goto("apply", cur + 1) ELSE Goto("write", 1)

ApplySkips ==
    /\ pc = "apply" /\ ~plan[cur].adopt
    /\ AfterApply
    /\ UNCHANGED <<files, install, removal, troubles>>

\* The program is renamed to its sidecar.
Apply ==
    /\ pc = "apply" /\ plan[cur].adopt /\ at[cur] # Absent
    /\ side' = [side EXCEPT ![cur] = at[cur]]
    /\ at' = [at EXCEPT ![cur] = Absent]
    /\ moved' = moved \cup {cur}
    /\ AfterApply
    /\ UNCHANGED <<quar, kept, adopt, plan, wrote, before, exposed, undoFailed, removal, troubles>>

\* The rename fails, by itself or because the program has gone.
ApplyFails ==
    /\ pc = "apply" /\ plan[cur].adopt
    /\ IF at[cur] = Absent THEN UNCHANGED troubles ELSE Trouble
    /\ Goto("rollback", cur)
    /\ UNCHANGED <<files, install, removal>>

\* writeShimFile renames a new file over the name.
Write ==
    /\ pc = "write"
    /\ at' = [at EXCEPT ![cur] = Shim(plan[cur].to)]
    /\ IF cur < N
       THEN /\ Goto("write", cur + 1)
            /\ wrote' = TRUE
            /\ UNCHANGED <<adopt, plan, moved, before, exposed, undoFailed, removal>>
       ELSE Ends
    /\ UNCHANGED <<side, quar, kept, troubles>>

WriteFails ==
    /\ pc = "write" /\ Trouble
    /\ Goto("rollback", cur)
    /\ UNCHANGED <<files, install, removal>>

\* The rollback replays the changes newest first: the shim was written last.
UndoesRemove == wrote

\* Mutant: what was moved aside stays there.
UndoesRestoreNever(i) == FALSE

UndoesRestore(i) == ~UndoesRemove /\ i \in moved /\ \A j \in moved : j <= i

\* The main shim is removed.
Remove ==
    /\ pc = "rollback" /\ UndoesRemove
    /\ wrote' = FALSE
    /\ \/ /\ at' = [at EXCEPT ![1] = Absent]
          /\ UNCHANGED <<undoFailed, troubles>>
       \/ /\ Trouble /\ undoFailed' = TRUE
          /\ UNCHANGED at
    /\ UNCHANGED <<side, quar, kept, adopt, plan, moved, before, exposed, removal, pc, cur>>

\* A program is renamed back to its name.
Restore(i) ==
    /\ pc = "rollback" /\ UndoesRestore(i)
    /\ moved' = moved \ {i}
    /\ \/ /\ side[i] # Absent
          /\ at' = [at EXCEPT ![i] = side[i]]
          /\ side' = [side EXCEPT ![i] = Absent]
          /\ UNCHANGED <<undoFailed, troubles>>
       \/ /\ IF side[i] = Absent THEN UNCHANGED troubles ELSE Trouble
          /\ undoFailed' = TRUE
          /\ UNCHANGED <<at, side>>
    /\ UNCHANGED <<quar, kept, adopt, plan, wrote, before, exposed, removal, pc, cur>>

RollbackEnds ==
    /\ pc = "rollback" /\ ~UndoesRemove /\ ~\E i \in Names : UndoesRestore(i)
    /\ Ends
    /\ UNCHANGED <<files, troubles>>

-----------------------------------------------------------------------------
(* Uninstall.                                                              *)

BeginUninstall ==
    /\ pc = "idle"
    /\ Goto("inspect", 1)
    /\ UNCHANGED <<files, install, removal, troubles>>

\* Mutant: a main shim that is gone is an error.
AlreadyDoneNever(i) == FALSE

\* uninstallAlreadyDone: an uninstall before this one removed the main shim.
AlreadyDone(i) == i = 1 /\ at[i] = Absent /\ side[i] = Absent

\* preflightUninstallShim: a sidecar needs a shim that it can replace, and only
\* the companion may be missing.
Conflict(i, optional) ==
    \/ side[i] # Absent /\ ~(IsRegular(side[i]) /\ IsOurShim(at[i]))
    \/ ~IsOurShim(at[i]) /\ ~optional

Inspect ==
    /\ pc = "inspect"
    /\ IF ~AlreadyDone(cur) /\ Conflict(cur, cur # 1)
       THEN Ends
       ELSE LET todo == IF IsOurShim(at[cur]) THEN pending \cup {cur} ELSE pending
            IN  IF cur = N /\ todo = {}
                THEN Ends
                ELSE /\ pending' = todo
                     /\ IF cur < N THEN Goto("inspect", cur + 1) ELSE Goto("probe", 1)
                     /\ UNCHANGED <<install, restore>>
    /\ UNCHANGED <<files, troubles>>

NextPending(todo) ==
    /\ todo # {}
    /\ \E i \in todo : (\A j \in todo : i <= j) /\ Goto("take", i)

\* probeUninstallCapabilities, on private files only.
Probe ==
    /\ pc = "probe"
    /\ NextPending(pending)
    /\ UNCHANGED <<files, install, removal, troubles>>

\* uninstallShim looks again and tries the private name it will move things to.
Take ==
    /\ pc = "take"
    /\ IF Conflict(cur, FALSE)
       THEN Ends
       ELSE /\ restore' = (side[cur] # Absent)
            /\ pc' = IF side[cur] # Absent THEN "check" ELSE "move"
            /\ UNCHANGED <<cur, install, pending>>
    /\ UNCHANGED <<files, troubles>>

\* A file system operation on the way is refused, and the uninstall with it.
RemovalFails ==
    /\ pc \in {"probe", "take", "exchange", "move"} /\ Trouble
    /\ Ends
    /\ UNCHANGED files

Check ==
    /\ pc = "check"
    /\ IF IsOurShim(at[cur])
       THEN pc' = "exchange" /\ UNCHANGED <<cur, install, removal>>
       ELSE Ends
    /\ UNCHANGED <<files, troubles>>

\* Mutant: the sidecar is renamed over the shim, whatever is there by now.
ExchangeByRename ==
    /\ pc = "exchange"
    /\ IF side[cur] # Absent
       THEN /\ at' = [at EXCEPT ![cur] = side[cur]]
            /\ side' = [side EXCEPT ![cur] = Absent]
            /\ pc' = "move" /\ UNCHANGED <<cur, install, removal>>
       ELSE Ends /\ UNCHANGED <<at, side>>
    /\ UNCHANGED <<quar, kept, troubles>>

\* exchangePrograms: the two entries change places in one step.
Exchange ==
    /\ pc = "exchange"
    /\ IF side[cur] # Absent /\ at[cur] # Absent
       THEN /\ at' = [at EXCEPT ![cur] = side[cur]]
            /\ side' = [side EXCEPT ![cur] = at[cur]]
            /\ pc' = "move" /\ UNCHANGED <<cur, install, removal>>
       ELSE Ends /\ UNCHANGED <<at, side>>
    /\ UNCHANGED <<quar, kept, troubles>>

\* Where the shim should be by now.
Displaced == IF restore THEN side[cur] ELSE at[cur]

Displace(e) ==
    IF restore
    THEN side' = [side EXCEPT ![cur] = e] /\ UNCHANGED at
    ELSE at' = [at EXCEPT ![cur] = e] /\ UNCHANGED side

\* What is there is moved to the private name, and looked at only then.
Move ==
    /\ pc = "move"
    /\ IF Displaced = Absent
       THEN Ends /\ UNCHANGED <<at, side, quar>>
       ELSE /\ quar' = Displaced
            /\ Displace(Absent)
            /\ pc' = "settle" /\ UNCHANGED <<cur, install, removal>>
    /\ UNCHANGED <<kept, troubles>>

\* A shim is deleted.  When that fails it stays at its private name.
Unlink ==
    /\ pc = "settle" /\ IsOurShim(quar)
    /\ quar' = Absent
    /\ \/ /\ UNCHANGED troubles
          /\ pending' = pending \ {cur}
          /\ NextPending(pending \ {cur}) /\ restore' = FALSE /\ UNCHANGED install
       \/ /\ UNCHANGED troubles
          /\ pending = {cur} /\ Ends
       \/ Trouble /\ Ends
    /\ UNCHANGED <<at, side, kept>>

\* Anything else goes back, if the name is still free.
GiveBack ==
    /\ pc = "settle" /\ ~IsOurShim(quar)
    /\ \/ /\ Displaced = Absent
          /\ Displace(quar) /\ UNCHANGED <<kept, troubles>>
       \/ /\ IF Displaced = Absent THEN Trouble ELSE UNCHANGED troubles
          /\ kept' = kept \cup ProgramsIn({quar}) /\ UNCHANGED <<at, side>>
    /\ quar' = Absent
    /\ Ends

-----------------------------------------------------------------------------
(* The world.                                                              *)

Kill ==
    /\ pc # "idle" /\ Trouble
    /\ kept' = kept \cup ProgramsIn({quar}) /\ quar' = Absent
    /\ Ends
    /\ UNCHANGED <<at, side>>

\* Others put something at a name or its sidecar, or remove what is there.
OthersWrite ==
    /\ Trouble
    /\ \E i \in Names, e \in
          {Absent} \cup {[kind |-> "link", id |-> t] : t \in {"live", "dangling"}}
              \cup {Program(p) : p \in Programs \ Held} :
          /\ \/ at' = [at EXCEPT ![i] = e] /\ UNCHANGED side
             \/ side' = [side EXCEPT ![i] = e] /\ UNCHANGED at
          /\ touched' = touched \cup {i}
    /\ exposed' = (exposed \/ pc \in Installing)
    /\ UNCHANGED <<quar, kept, adopt, plan, moved, wrote, before, undoFailed,
                   removal, pc, cur>>

InstallStep ==
    \/ \E consent \in BOOLEAN : BeginInstall(consent)
    \/ Prepare \/ ApplySkips \/ Apply \/ ApplyFails \/ Write \/ WriteFails
    \/ Remove \/ (\E i \in Names : Restore(i)) \/ RollbackEnds

UninstallStep ==
    \/ BeginUninstall \/ Inspect \/ Probe \/ Take \/ Check \/ Exchange \/ Move
    \/ Unlink \/ GiveBack \/ RemovalFails

CommandStep == (InstallStep \/ UninstallStep \/ Kill) /\ UNCHANGED touched

Init ==
    /\ at \in [Names -> Entry] /\ side \in [Names -> Entry]
    /\ \A i \in Names :
          /\ side[i].kind \in {"absent", "dir", "program"}
          /\ IsOurShim(at[i]) => (at[i].id = "adopted" <=> side[i].kind = "program")
          /\ \A j \in Names : at[i] = side[j] => at[i].kind # "program"
          /\ \A j \in Names \ {i} :
                /\ at[i] = at[j] => at[i].kind # "program"
                /\ side[i] = side[j] => side[i].kind # "program"
    /\ quar = Absent /\ kept = {}
    /\ pc = "idle" /\ cur = 1
    /\ adopt = FALSE /\ plan = [i \in Names |-> NoPlan]
    /\ moved = {} /\ wrote = FALSE /\ pending = {} /\ restore = FALSE
    /\ troubles = 0
    /\ before = [at |-> [i \in Names |-> Absent], side |-> [i \in Names |-> Absent]]
    /\ exposed = FALSE /\ undoFailed = FALSE
    /\ touched = {i \in Names : side[i] # Absent /\ at[i] # Absent /\ ~IsOurShim(at[i])}

Next == CommandStep \/ OthersWrite

Spec == Init /\ [][Next]_vars

\* A command goes on until it ends, and the user asks again for an uninstall
\* whatever becomes of it.  Failures, kills and others come to an end
\* (MaxTroubles).
FairSpec ==
    Spec /\ WF_vars(pc # "idle" /\ CommandStep) /\ SF_vars(BeginUninstall /\ UNCHANGED touched)

-----------------------------------------------------------------------------
(* Properties.                                                             *)

\* No command destroys a program it did not write: an uninstall never does,
\* whatever others do meanwhile and wherever it fails or is killed, and an install
\* does not unless others change the directory while it runs.
LosesNothing ==
    [][UninstallStep \/ (CommandStep /\ ~exposed) => Held \subseteq Held']_vars

\* A failed install whose rollback succeeds leaves every name and sidecar as they
\* were, links apart.
FailedInstallUndone ==
    [][RollbackEnds /\ ~exposed /\ ~undoFailed =>
          \A i \in Names : before.at[i].kind # "link" =>
             at[i] = before.at[i] /\ side[i] = before.side[i]]_vars

\* While others leave a name alone, a program that was moved aside is the one its
\* shim calls, over any sequence of installs, uninstalls, failures and kills.
AsideIsServed ==
    \A i \in Names \ touched :
        IsOurShim(at[i]) /\ side[i].kind = "program" /\ pc = "idle" => at[i].id = "adopted"

\* What the user has to sort out: a sidecar without a shim to replace, or something
\* else in the place of the main shim.
NeedsHelp ==
    \/ \E i \in Names : side[i] # Absent /\ ~(IsRegular(side[i]) /\ IsOurShim(at[i]))
    \/ ~IsOurShim(at[1]) /\ at[1] # Absent

\* An uninstall that is asked for again and again removes every shim, however far
\* those before it came.
UninstallCompletes == []<>(NeedsHelp \/ \A i \in Names : ~IsOurShim(at[i]))
=============================================================================
