--------------------------- MODULE ShimFilesProofs ---------------------------
(***************************************************************************)
(* Theorems about ShimFiles, for one name or two, any programs and any number *)
(* of failures, kills and changes by others.                               *)
(***************************************************************************)
EXTENDS ShimFiles, TLAPS

\* The part of TypeOK that is about shared and private names.
FilesOK ==
    /\ at \in [Names -> Entry] /\ side \in [Names -> Entry] /\ quar \in Entry
    /\ kept \subseteq Programs

\* The part that is local to the command, its booleans apart.
LocalOK ==
    /\ pc \in {"idle"} \cup Installing \cup Removing
    /\ cur \in Names
    /\ plan \in [Names -> Plan]
    /\ moved \subseteq Names
    /\ pending \subseteq Names
    /\ before \in [at : [Names -> Entry], side : [Names -> Entry]]

FlagsOK ==
    /\ adopt \in BOOLEAN /\ wrote \in BOOLEAN /\ restore \in BOOLEAN
    /\ exposed \in BOOLEAN /\ undoFailed \in BOOLEAN

CountsOK == troubles \in 0 .. MaxTroubles /\ touched \subseteq Names

\* TypeOK in four parts.
LEMMA TypeParts == TypeOK <=> FilesOK /\ LocalOK /\ FlagsOK /\ CountsOK
  BY Zenon DEF TypeOK, FilesOK, LocalOK, FlagsOK, CountsOK

\* What can be written to a name is an entry.
LEMMA EntryFacts ==
    /\ Absent \in Entry /\ NoPlan \in Plan
    /\ \A to \in {"adopted", "target", "system"} : Shim(to) \in Entry
    /\ \A p \in Programs : Program(p) \in Entry
    /\ \A t \in {"live", "dangling"} : [kind |-> "link", id |-> t] \in Entry
    /\ 1 \in Names
  BY ShimAssumption DEF Absent, NoPlan, Plan, Shim, Program, Entry, Names

\* A command that ends leaves its local state as it was before it began.
LEMMA EndsType == ASSUME Ends PROVE LocalOK' /\ FlagsOK'
<1>1. FlagsOK'
  BY Zenon DEF Ends, FlagsOK
<1>2. LocalOK'
  BY EntryFacts DEF Ends, LocalOK
<1>. QED  BY <1>1, <1>2

\* No step takes a variable out of its type.
LEMMA TypeStep == ASSUME TypeOK, [Next]_vars PROVE TypeOK'
<1>1. FilesOK /\ LocalOK /\ FlagsOK /\ CountsOK
  BY TypeParts
<1>2. FilesOK'
  <2>. USE <1>1, EntryFacts DEF FilesOK, files
  <2>1. CASE UNCHANGED files
    BY <2>1
  <2>2. CASE Apply
    BY <2>2 DEF Apply, LocalOK
  <2>3. CASE Write
    <3>1. plan[cur].to \in {"adopted", "target", "system"} /\ cur \in Names
      BY DEF LocalOK, Plan
    <3>. QED  BY <2>3, <3>1 DEF Write
  <2>4. CASE Remove
    BY <2>4 DEF Remove
  <2>5. ASSUME NEW i \in Names, Restore(i) PROVE FilesOK'
    BY <2>5 DEF Restore
  <2>6. CASE Exchange
    BY <2>6 DEF Exchange, LocalOK
  <2>7. CASE Move
    BY <2>7 DEF Move, Displace, Displaced, LocalOK
  <2>8. CASE Unlink
    BY <2>8 DEF Unlink
  <2>9. CASE GiveBack
    BY <2>9 DEF GiveBack, Displace, Displaced, LocalOK, ProgramsIn
  <2>10. CASE Kill
    BY <2>10 DEF Kill, ProgramsIn
  <2>11. CASE OthersWrite
    BY <2>11 DEF OthersWrite
  <2>12. CASE UNCHANGED vars
    BY <2>1, <2>12 DEF vars
  <2>13. CASE InstallStep
    BY <2>13, <2>1, <2>2, <2>3, <2>4, <2>5 DEF InstallStep, BeginInstall, Prepare,
       ApplySkips, ApplyFails, WriteFails, RollbackEnds
  <2>14. CASE UninstallStep
    BY <2>14, <2>1, <2>6, <2>7, <2>8, <2>9 DEF UninstallStep, BeginUninstall, Inspect,
       Probe, Take, Check, RemovalFails
  <2>. QED  BY <2>10, <2>11, <2>12, <2>13, <2>14 DEF Next, CommandStep
<1>3. FlagsOK'
  <2>. USE <1>1 DEF FlagsOK
  <2>1. CASE Ends
    BY <2>1, EndsType
  <2>2. CASE UNCHANGED <<install, removal>>
    BY <2>2 DEF install, removal
  <2>3. CASE InstallStep
    <3>1. ASSUME NEW consent \in BOOLEAN, BeginInstall(consent) PROVE FlagsOK'
      BY <3>1, Zenon DEF BeginInstall, removal
    <3>2. CASE Prepare
      BY <3>2, <2>1, Zenon DEF Prepare, removal
    <3>3. CASE Apply
      BY <3>3, Zenon DEF Apply, removal
    <3>4. CASE Write
      BY <3>4, <2>1, Zenon DEF Write, removal
    <3>5. CASE Remove
      BY <3>5, Zenon DEF Remove, removal
    <3>6. ASSUME NEW i \in Names, Restore(i) PROVE FlagsOK'
      BY <3>6, Zenon DEF Restore, removal
    <3>. QED  BY <2>3, <2>1, <2>2, <3>1, <3>2, <3>3, <3>4, <3>5, <3>6, Zenon
              DEF InstallStep, ApplySkips, ApplyFails, WriteFails, RollbackEnds
  <2>4. CASE UninstallStep
    <3>1. CASE Inspect
      BY <3>1, <2>1, Zenon DEF Inspect, install
    <3>2. CASE Take
      <4>1. CASE Conflict(cur, FALSE)
        BY <4>1, <3>2, <2>1, Zenon DEF Take
      <4>2. CASE ~Conflict(cur, FALSE)
        <5>1. restore' = (side[cur] # Absent) /\ UNCHANGED install
          BY <4>2, <3>2, Zenon DEF Take
        <5>2. restore' \in BOOLEAN
          BY <5>1, Zenon
        <5>. QED  BY <5>1, <5>2, Zenon DEF install
      <4>. QED  BY <4>1, <4>2
    <3>3. CASE Unlink
      <4>1. CASE Ends
        BY <4>1, <2>1
      <4>2. CASE restore' = FALSE /\ UNCHANGED install
        BY <4>2, Zenon DEF install
      <4>. QED  BY <3>3, <4>1, <4>2, Zenon DEF Unlink
    <3>. QED  BY <2>4, <2>1, <2>2, <3>1, <3>2, <3>3, Zenon
              DEF UninstallStep, BeginUninstall, Probe, Check, Exchange, Move, GiveBack,
                  RemovalFails
  <2>5. CASE Kill
    BY <2>5, <2>1 DEF Kill
  <2>6. CASE OthersWrite
    <3>1. exposed' = (exposed \/ pc \in Installing)
      BY <2>6, Zenon DEF OthersWrite
    <3>2. exposed' \in BOOLEAN
      BY <3>1, Zenon
    <3>. QED  BY <2>6, <3>2, Zenon DEF OthersWrite, removal
  <2>7. CASE UNCHANGED vars
    BY <2>2, <2>7 DEF vars
  <2>. QED  BY <2>3, <2>4, <2>5, <2>6, <2>7, Zenon DEF Next, CommandStep
<1>4. LocalOK'
  <2>. USE <1>1 DEF LocalOK, Installing, Removing
  <2>1. CASE Ends
    BY <2>1, EndsType
  <2>2. \A i \in Names : i < N => i + 1 \in Names
    BY ShimAssumption DEF Names
  <2>3. 1 \in Names
    BY EntryFacts
  <2>4. ASSUME NEW todo \in SUBSET Names, NextPending(todo)
        PROVE  pc' = "take" /\ cur' \in Names
    BY <2>4 DEF NextPending, Goto
  <2>5. CASE UNCHANGED <<install, removal, pc, cur>>
    BY <2>5 DEF install, removal
  <2>6. CASE InstallStep
    <3>1. ASSUME NEW consent \in BOOLEAN, BeginInstall(consent) PROVE LocalOK'
      BY <3>1, <2>3 DEF BeginInstall, removal, Goto, FilesOK
    <3>2. CASE Prepare
      <4>1. Decision(cur) \in Plan
        <5>1. Delegate(cur) \in {"adopted", "system"}
          BY DEF Delegate
        <5>2. (at[cur].kind = "program") \in BOOLEAN
          OBVIOUS
        <5>3. (CASE at[cur].kind = "program" -> "adopted"
                 [] at[cur].kind = "link" ->
                      IF at[cur].id = "live" THEN "target" ELSE "system"
                 [] OTHER -> Delegate(cur)) \in {"adopted", "target", "system"}
          BY <5>1
        <5>. QED  BY <5>2, <5>3 DEF Decision, Plan
      <4>. QED  BY <3>2, <4>1, <2>1, <2>2, <2>3 DEF Prepare, removal, Goto
    <3>3. CASE ApplySkips
      BY <3>3, <2>2, <2>3 DEF ApplySkips, AfterApply, Goto, install, removal
    <3>4. CASE Apply
      BY <3>4, <2>2, <2>3 DEF Apply, AfterApply, Goto, removal
    <3>5. CASE ApplyFails \/ WriteFails
      BY <3>5 DEF ApplyFails, WriteFails, Goto, install, removal
    <3>6. CASE Write
      BY <3>6, <2>1, <2>2 DEF Write, Goto, removal
    <3>7. CASE Remove
      BY <3>7 DEF Remove, removal
    <3>8. ASSUME NEW i \in Names, Restore(i) PROVE LocalOK'
      BY <3>8 DEF Restore, removal
    <3>. QED  BY <2>6, <2>1, <3>1, <3>2, <3>3, <3>4, <3>5, <3>6, <3>7, <3>8
              DEF InstallStep, RollbackEnds
  <2>7. CASE UninstallStep
    <3>1. CASE BeginUninstall
      BY <3>1, <2>3 DEF BeginUninstall, Goto, install, removal
    <3>2. CASE Inspect
      BY <3>2, <2>1, <2>2, <2>3 DEF Inspect, Goto, install
    <3>3. CASE Probe
      BY <3>3, <2>4 DEF Probe, install, removal
    <3>4. CASE Take
      BY <3>4, <2>1 DEF Take, install
    <3>5. CASE Check
      BY <3>5, <2>1 DEF Check, install, removal
    <3>6. CASE Exchange
      BY <3>6, <2>1 DEF Exchange, install, removal
    <3>7. CASE Move
      BY <3>7, <2>1 DEF Move, install, removal
    <3>8. CASE Unlink
      <4>1. pending \ {cur} \in SUBSET Names
        OBVIOUS
      <4>2. CASE NextPending(pending \ {cur}) /\ UNCHANGED install
                 /\ pending' = pending \ {cur}
        BY <4>1, <4>2, <2>4 DEF install
      <4>. QED  BY <3>8, <2>1, <4>2 DEF Unlink
    <3>9. CASE GiveBack \/ RemovalFails
      BY <3>9, <2>1 DEF GiveBack, RemovalFails
    <3>. QED  BY <2>7, <3>1, <3>2, <3>3, <3>4, <3>5, <3>6, <3>7, <3>8, <3>9
              DEF UninstallStep
  <2>8. CASE Kill
    BY <2>8, <2>1 DEF Kill
  <2>9. CASE OthersWrite
    BY <2>9 DEF OthersWrite, removal
  <2>10. CASE UNCHANGED vars
    BY <2>5, <2>10 DEF vars
  <2>. QED  BY <2>6, <2>7, <2>8, <2>9, <2>10 DEF Next, CommandStep
<1>5. CountsOK'
  <2>. USE <1>1 DEF CountsOK
  <2>1. ASSUME Trouble PROVE troubles' \in 0 .. MaxTroubles
    BY <2>1, ShimAssumption DEF Trouble
  <2>2. CASE CommandStep
    <3>1. troubles' \in 0 .. MaxTroubles
      <4>1. CASE InstallStep
        BY <4>1, <2>1 DEF InstallStep, BeginInstall, Prepare, ApplySkips, Apply, ApplyFails,
           Write, WriteFails, Remove, Restore, RollbackEnds
      <4>2. CASE UninstallStep
        BY <4>2, <2>1 DEF UninstallStep, BeginUninstall, Inspect, Probe, Take, Check,
           Exchange, Move, Unlink, GiveBack, RemovalFails
      <4>. QED  BY <2>2, <2>1, <4>1, <4>2 DEF CommandStep, Kill
    <3>. QED  BY <2>2, <3>1 DEF CommandStep
  <2>3. CASE OthersWrite
    BY <2>3, <2>1 DEF OthersWrite
  <2>4. CASE UNCHANGED vars
    BY <2>4 DEF vars
  <2>. QED  BY <2>2, <2>3, <2>4 DEF Next
<1>6. (TypeOK <=> FilesOK /\ LocalOK /\ FlagsOK /\ CountsOK)'
  BY Zenon DEF TypeOK, FilesOK, LocalOK, FlagsOK, CountsOK
<1>. QED  BY <1>2, <1>3, <1>4, <1>5, <1>6

\* The names hold what was found there, and no command runs.
LEMMA TypeInit == ASSUME Init PROVE TypeOK
<1>1. FlagsOK
  BY Zenon DEF Init, FlagsOK
<1>2. FilesOK /\ LocalOK /\ CountsOK
  BY EntryFacts, ShimAssumption DEF Init, FilesOK, LocalOK, CountsOK
<1>. QED  BY <1>1, <1>2, TypeParts

\* Every name holds an entry, and the command's own state keeps its type.
THEOREM TypeCorrect == Spec => []TypeOK
<1>. QED  BY TypeInit, TypeStep, PTL DEF Spec

-----------------------------------------------------------------------------
(* No command destroys a program.                                          *)

\* What a name holds may be replaced or removed.
Free(i) == at[i].kind # "program"

\* The decision about a name still fits what is there.
Fits(i) == IF plan[i].adopt THEN side[i] = Absent ELSE Free(i)

\* How far an install that nobody disturbed has come: what it has yet to rename has
\* nothing in the way, and where it has written or moved there is no program.
Undisturbed ==
    /\ pc = "prepare" => \A i \in Names : i < cur => Fits(i)
    /\ pc = "apply" => \A i \in Names : IF i < cur THEN Free(i) ELSE Fits(i)
    /\ pc = "write" => \A i \in Names : Free(i)
    /\ pc = "rollback" => (wrote => Free(1)) /\ \A i \in moved : Free(i)

\* The rollback's record, and the private name outside an uninstall's last steps.
Records ==
    /\ pc \notin {"write", "rollback"} => ~wrote
    /\ pc = "apply" => \A i \in moved : i < cur
    /\ pc \notin {"apply", "write", "rollback"} => moved = {}
    /\ pc # "settle" => quar = Absent

Inv == TypeOK /\ Records /\ (exposed \/ Undisturbed)

\* A command that ends leaves nothing for the invariant to say.
LEMMA EndsInv == ASSUME Ends PROVE (Undisturbed /\ (quar = Absent => Records))'
  BY DEF Ends, Undisturbed, Records

\* Programs, shims and nothing are told apart.
LEMMA Kinds ==
    /\ Absent.kind = "absent"
    /\ \A to : Shim(to).kind = "shim"
    /\ \A p : Program(p).kind = "program"
    /\ \A e \in Entry : e.kind = "absent" => e = Absent
  BY DEF Absent, Shim, Program, Entry

\* Nothing has been changed yet.
LEMMA InitInv == ASSUME Init PROVE Inv
  BY TypeInit DEF Init, Inv, Records, Undisturbed

\* An install keeps the invariant.
LEMMA InstallInv == ASSUME Inv, InstallStep, TypeOK' PROVE Inv'
<1>. USE DEF Inv, Records, Undisturbed, Fits, Free
<1>1. TypeOK /\ TypeOK'
  OBVIOUS
<1>2. /\ at \in [Names -> Entry] /\ side \in [Names -> Entry] /\ cur \in Names
      /\ plan \in [Names -> Plan] /\ moved \subseteq Names
  BY DEF TypeOK
<1>3. /\ Names = 1 .. N /\ N \in {1, 2} /\ 1 \in Names
      /\ \A i \in Names : i \in Int
  BY ShimAssumption DEF Names
<1>4. CASE Ends /\ UNCHANGED files /\ quar = Absent
  BY <1>1, <1>4, EndsInv DEF files
<1>5. ASSUME NEW consent \in BOOLEAN, BeginInstall(consent) PROVE Inv'
  BY <1>1, <1>3, <1>5 DEF BeginInstall, Goto, files
<1>6. CASE Prepare
  <2>1. CASE Refuses(cur)
    BY <1>4, <1>6, <2>1 DEF Prepare
  <2>2. CASE ~Refuses(cur)
    <3>1. /\ plan' = [plan EXCEPT ![cur] = Decision(cur)]
          /\ UNCHANGED <<at, side, quar, moved, wrote, exposed>>
          /\ IF cur < N THEN Goto("prepare", cur + 1) ELSE Goto("apply", 1)
      BY <1>6, <2>2 DEF Prepare, files
    <3>2. IF at[cur].kind = "program" THEN side[cur] = Absent ELSE TRUE
      BY <2>2 DEF Refuses
    <3>3. plan'[cur].adopt = (at[cur].kind = "program")
      BY <3>1, <1>2 DEF Decision
    <3>4. \A i \in Names : i = cur => Fits(i)'
      BY <3>1, <3>2, <3>3
    <3>5. ASSUME ~exposed PROVE \A i \in Names : i < cur => Fits(i)'
      BY <1>2, <1>3, <1>6, <3>1, <3>5 DEF Prepare
    <3>6. ASSUME ~exposed PROVE Undisturbed'
      <4>1. \A i \in Names : i <= cur => Fits(i)'
        BY <1>2, <1>3, <3>4, <3>5, <3>6
      <4>2. CASE cur < N
        BY <1>2, <1>3, <3>1, <4>1, <4>2 DEF Goto
      <4>3. CASE ~(cur < N)
        BY <1>2, <1>3, <3>1, <4>1, <4>3 DEF Goto
      <4>. QED  BY <4>2, <4>3
    <3>7. Records'
      BY <1>2, <1>3, <1>6, <3>1 DEF Goto, Prepare
    <3>. QED  BY <1>1, <3>1, <3>6, <3>7
  <2>. QED  BY <2>1, <2>2
<1>7. CASE ApplySkips
  BY <1>1, <1>2, <1>3, <1>7 DEF ApplySkips, AfterApply, Goto, files, install
<1>8. CASE Apply
  <2>1. /\ pc = "apply" /\ AfterApply /\ moved' = moved \cup {cur}
        /\ at' = [at EXCEPT ![cur] = Absent] /\ side' = [side EXCEPT ![cur] = at[cur]]
        /\ UNCHANGED <<quar, plan, wrote, exposed>>
    BY <1>8 DEF Apply
  <2>2. \A i \in Names : i = cur => Free(i)'
    BY <1>2, <2>1, Kinds
  <2>3. \A i \in Names : i # cur => (Free(i)' <=> Free(i)) /\ (Fits(i)' <=> Fits(i))
    BY <1>2, <2>1
  <2>4. ASSUME ~exposed PROVE Undisturbed'
    <3>1. \A i \in Names : IF i < cur THEN Free(i) ELSE Fits(i)
      BY <2>1, <2>4
    <3>2. \A i \in Names : IF i <= cur THEN Free(i)' ELSE Fits(i)'
      BY <1>2, <1>3, <2>2, <2>3, <3>1
    <3>3. CASE cur < N
      BY <1>2, <1>3, <2>1, <3>2, <3>3 DEF AfterApply, Goto
    <3>4. CASE ~(cur < N)
      BY <1>2, <1>3, <2>1, <3>2, <3>4 DEF AfterApply, Goto
    <3>. QED  BY <3>3, <3>4
  <2>5. Records'
    BY <1>2, <1>3, <2>1 DEF AfterApply, Goto
  <2>. QED  BY <1>1, <2>1, <2>4, <2>5
<1>9. CASE ApplyFails
  BY <1>1, <1>2, <1>3, <1>9 DEF ApplyFails, Goto, files, install
<1>10. CASE Write
  <2>1. /\ pc = "write" /\ at' = [at EXCEPT ![cur] = Shim(plan[cur].to)]
        /\ UNCHANGED <<side, quar>> /\ quar = Absent
    BY <1>10 DEF Write
  <2>2. CASE cur = N
    BY <1>1, <1>3, <1>10, <2>1, <2>2, EndsInv DEF Write
  <2>3. CASE cur # N
    BY <1>1, <1>2, <1>3, <1>10, <2>1, <2>3, Kinds DEF Write, Goto
  <2>. QED  BY <2>2, <2>3
<1>11. CASE WriteFails
  BY <1>1, <1>2, <1>3, <1>11 DEF WriteFails, Goto, files, install
<1>12. CASE Remove
  BY <1>1, <1>2, <1>3, <1>12, Kinds DEF Remove, UndoesRemove
<1>13. ASSUME NEW i \in Names, Restore(i) PROVE Inv'
  <2>1. /\ pc = "rollback" /\ ~wrote /\ i \in moved /\ moved' = moved \ {i}
        /\ UNCHANGED <<pc, quar, wrote, exposed>>
        /\ \A j \in Names : j # i => at'[j] = at[j]
    BY <1>2, <1>13 DEF Restore, UndoesRestore, UndoesRemove
  <2>. QED  BY <1>1, <1>2, <2>1
<1>14. CASE RollbackEnds
  BY <1>4, <1>14 DEF RollbackEnds
<1>. QED  BY <1>5, <1>6, <1>7, <1>8, <1>9, <1>10, <1>11, <1>12, <1>13, <1>14 DEF InstallStep

\* So does an uninstall, which the invariant asks little of.
LEMMA UninstallInv == ASSUME Inv, UninstallStep, TypeOK' PROVE Inv'
<1>. USE DEF Inv, Records, Undisturbed
<1>1. TypeOK /\ TypeOK'
  OBVIOUS
<1>2. CASE Ends /\ quar' = Absent
  BY <1>1, <1>2, EndsInv
<1>3. CASE /\ pc' \in Removing \ {"settle"} /\ quar' = Absent /\ wrote' = FALSE /\ moved' = {}
  BY <1>1, <1>3 DEF Removing
<1>4. CASE pc' = "settle" /\ wrote' = FALSE /\ moved' = {}
  BY <1>1, <1>4
<1>5. CASE BeginUninstall
  BY <1>3, <1>5 DEF BeginUninstall, Goto, files, install, Removing, TypeOK
<1>6. CASE Inspect
  BY <1>2, <1>3, <1>6 DEF Inspect, Goto, files, install, Removing, TypeOK
<1>7. CASE Probe
  BY <1>3, <1>7 DEF Probe, NextPending, Goto, files, install, Removing, TypeOK
<1>8. CASE Take
  BY <1>2, <1>3, <1>8 DEF Take, files, install, Removing, TypeOK
<1>9. CASE Check
  BY <1>2, <1>3, <1>9 DEF Check, files, install, Removing, TypeOK
<1>10. CASE Exchange
  BY <1>2, <1>3, <1>10 DEF Exchange, install, Removing, TypeOK
<1>11. CASE Move
  BY <1>2, <1>4, <1>11 DEF Move, install, TypeOK
<1>12. CASE Unlink
  BY <1>2, <1>3, <1>12 DEF Unlink, NextPending, Goto, install, Removing, TypeOK
<1>13. CASE GiveBack
  BY <1>2, <1>13 DEF GiveBack
<1>14. CASE RemovalFails
  BY <1>2, <1>14 DEF RemovalFails, files
<1>. QED  BY <1>5, <1>6, <1>7, <1>8, <1>9, <1>10, <1>11, <1>12, <1>13, <1>14 DEF UninstallStep

\* Every step keeps the invariant.
LEMMA NextInv == ASSUME Inv, [Next]_vars PROVE Inv'
<1>1. TypeOK'
  BY TypeStep DEF Inv
<1>2. CASE InstallStep
  BY <1>1, <1>2, InstallInv
<1>3. CASE UninstallStep
  BY <1>1, <1>3, UninstallInv
<1>4. CASE Kill
  BY <1>1, <1>4, EndsInv DEF Kill, Inv
<1>5. CASE OthersWrite
  <2>1. UNCHANGED <<pc, cur, wrote, moved, quar>> /\ exposed' = (exposed \/ pc \in Installing)
    BY <1>5 DEF OthersWrite, removal
  <2>2. Records'
    BY <2>1 DEF Inv, Records
  <2>3. exposed' \/ Undisturbed'
    BY <2>1 DEF Inv, Undisturbed, Installing
  <2>. QED  BY <1>1, <2>2, <2>3 DEF Inv
<1>6. CASE UNCHANGED vars
  BY <1>1, <1>6 DEF vars, files, install, Inv, Records, Undisturbed, Fits, Free
<1>. QED  BY <1>2, <1>3, <1>4, <1>5, <1>6 DEF Next, CommandStep

\* Where a program is.
Somewhere(p) ==
    \/ p \in kept
    \/ quar = Program(p)
    \/ \E i \in Names : at[i] = Program(p) \/ side[i] = Program(p)

\* Held, program by program.
LEMMA HeldIsSomewhere ==
    ASSUME TypeOK PROVE Held = {p \in Programs : Somewhere(p)}
  BY DEF TypeOK, Held, ProgramsIn, Somewhere

\* An uninstall moves programs only to free names, and deletes what it has found to
\* be a shim.
LEMMA UninstallKeeps ==
    ASSUME TypeOK, Records, UninstallStep, NEW p \in Programs, Somewhere(p)
    PROVE  Somewhere(p)'
<1>. USE DEF Somewhere
<1>1. /\ at \in [Names -> Entry] /\ side \in [Names -> Entry] /\ cur \in Names
      /\ quar \in Entry
  BY DEF TypeOK
<1>2. CASE UNCHANGED files
  BY <1>2 DEF files
<1>3. CASE Exchange
  BY <1>1, <1>3 DEF Exchange
<1>4. CASE Move
  <2>1. pc = "move" /\ UNCHANGED kept
    BY <1>4 DEF Move
  <2>2. quar # Program(p)
    BY <2>1, Kinds DEF Records
  <2>3. CASE Displaced = Absent
    BY <1>4, <2>1, <2>3 DEF Move
  <2>4. CASE Displaced # Absent
    BY <1>1, <1>4, <2>1, <2>2, <2>4 DEF Move, Displace, Displaced
  <2>. QED  BY <2>3, <2>4
<1>5. CASE Unlink
  BY <1>5, Kinds DEF Unlink, IsOurShim
<1>6. CASE GiveBack
  <2>1. CASE Displaced = Absent /\ Displace(quar) /\ UNCHANGED kept
    BY <1>1, <2>1, Kinds DEF Displace, Displaced
  <2>2. CASE kept' = kept \cup ProgramsIn({quar}) /\ UNCHANGED <<at, side>>
    BY <2>2 DEF ProgramsIn
  <2>. QED  BY <1>6, <2>1, <2>2 DEF GiveBack
<1>. QED  BY <1>2, <1>3, <1>4, <1>5, <1>6 DEF UninstallStep, BeginUninstall, Inspect, Probe,
          Take, Check, RemovalFails, files

\* An install that nobody disturbs renames and writes only where no program is.
LEMMA InstallKeeps ==
    ASSUME Inv, ~exposed, InstallStep, NEW p \in Programs, Somewhere(p)
    PROVE  Somewhere(p)'
<1>. USE DEF Somewhere
<1>1. /\ at \in [Names -> Entry] /\ side \in [Names -> Entry] /\ cur \in Names
      /\ moved \subseteq Names /\ 1 \in Names /\ ~(cur < cur)
  BY ShimAssumption DEF Inv, TypeOK, Names
<1>2. Undisturbed
  BY DEF Inv
<1>3. CASE UNCHANGED files
  BY <1>3 DEF files
<1>4. CASE Apply
  <2>1. side[cur] = Absent
    BY <1>1, <1>2, <1>4 DEF Apply, Undisturbed, Fits
  <2>. QED  BY <1>1, <1>4, <2>1, Kinds DEF Apply
<1>5. CASE Write
  <2>1. at[cur] # Program(p)
    BY <1>1, <1>2, <1>5, Kinds DEF Write, Undisturbed, Free
  <2>. QED  BY <1>1, <1>5, <2>1 DEF Write
<1>6. CASE Remove
  <2>1. at[1] # Program(p)
    BY <1>2, <1>6, Kinds DEF Remove, UndoesRemove, Undisturbed, Free
  <2>. QED  BY <1>1, <1>6, <2>1 DEF Remove
<1>7. ASSUME NEW i \in Names, Restore(i) PROVE Somewhere(p)'
  <2>1. at[i] # Program(p)
    BY <1>2, <1>7, Kinds DEF Restore, UndoesRestore, Undisturbed, Free
  <2>. QED  BY <1>1, <1>7, <2>1 DEF Restore
<1>. QED  BY <1>3, <1>4, <1>5, <1>6, <1>7 DEF InstallStep, BeginInstall, Prepare, ApplySkips,
          ApplyFails, WriteFails, RollbackEnds, files

\* No uninstall destroys a program, whatever others do meanwhile; no install does
\* unless others change the directory while it runs.
THEOREM LosesNothingHolds == Spec => LosesNothing
<1>1. ASSUME Inv, [Next]_vars
      PROVE  [UninstallStep \/ (CommandStep /\ ~exposed) => Held \subseteq Held']_vars
  <2>1. SUFFICES ASSUME UninstallStep \/ (CommandStep /\ ~exposed)
                 PROVE  Held \subseteq Held'
    OBVIOUS
  <2>2. /\ Held = {p \in Programs : Somewhere(p)}
        /\ Held' = {p \in Programs : Somewhere(p)'}
    <3>1. TypeOK /\ TypeOK'
      BY <1>1, TypeStep DEF Inv
    <3>2. (TypeOK => Held = {p \in Programs : Somewhere(p)})'
      BY DEF TypeOK, Held, ProgramsIn, Somewhere
    <3>. QED  BY <3>1, <3>2, HeldIsSomewhere
  <2>3. ASSUME NEW p \in Programs, Somewhere(p) PROVE Somewhere(p)'
    <3>1. CASE UninstallStep
      BY <1>1, <2>3, <3>1, UninstallKeeps DEF Inv
    <3>2. CASE InstallStep /\ ~exposed
      BY <1>1, <2>3, <3>2, InstallKeeps
    <3>3. CASE Kill
      BY <2>3, <3>3 DEF Kill, Somewhere, ProgramsIn
    <3>. QED  BY <2>1, <3>1, <3>2, <3>3 DEF CommandStep
  <2>. QED  BY <2>2, <2>3
<1>. QED  BY <1>1, InitInv, NextInv, PTL DEF Spec, LosesNothing

-----------------------------------------------------------------------------
(* A program that was moved aside is the one its shim calls.                *)

\* A program in the sidecar has its shim, or nothing, at the name.
Served(i) ==
    side[i].kind = "program" =>
        at[i].kind = "absent" \/ (IsOurShim(at[i]) /\ at[i].id = "adopted")

\* What will be written to the name calls the program that is aside by then.
PlanServes(i) ==
    plan[i].adopt \/ side[i].kind = "program" => plan[i].to = "adopted"

Planned(i) == pc \in {"apply", "write"} \/ (pc = "prepare" /\ i < cur)

\* An uninstall works on the shim it has found as long as others leave it alone.
OnShim ==
    /\ pc \in {"check", "exchange"} => restore
    /\ cur \notin touched =>
          /\ pc = "exchange" => IsOurShim(at[cur])
          /\ pc = "move" => IsOurShim(Displaced)
          /\ pc = "settle" => IsOurShim(quar)

AsideInv ==
    /\ TypeOK
    /\ \A i \in Names \ touched : Served(i) /\ (Planned(i) => PlanServes(i))
    /\ OnShim

\* At first a program is aside only where its shim calls it, or where others have
\* been.
LEMMA AsideInit == ASSUME Init PROVE AsideInv
<1>1. TypeOK
  BY TypeInit
<1>2. pc = "idle"
  BY DEF Init
<1>3. ASSUME NEW i \in Names \ touched PROVE Served(i)
  BY <1>1, <1>3, Kinds DEF Init, Served, IsOurShim, TypeOK
<1>. QED  BY <1>1, <1>2, <1>3 DEF AsideInv, Planned, OnShim

\* A step of an install keeps it.
LEMMA AsideInstall == ASSUME AsideInv, InstallStep, UNCHANGED touched, TypeOK' PROVE AsideInv'
<1>. USE DEF AsideInv, Served, PlanServes, Planned, IsOurShim
<1>1. /\ at \in [Names -> Entry] /\ side \in [Names -> Entry] /\ cur \in Names
      /\ plan \in [Names -> Plan] /\ TypeOK'
  BY DEF TypeOK
<1>2. /\ Names = 1 .. N /\ N \in {1, 2}
      /\ \A i \in Names : i \in Int
  BY ShimAssumption DEF Names
<1>3. pc' \in {"idle"} \cup Installing => OnShim'
  BY DEF OnShim, Installing
<1>4. CASE Ends /\ UNCHANGED files
  BY <1>1, <1>3, <1>4 DEF Ends, files
<1>5. ASSUME NEW consent \in BOOLEAN, BeginInstall(consent) PROVE AsideInv'
  BY <1>1, <1>2, <1>3, <1>5 DEF BeginInstall, Goto, files, Installing
<1>6. CASE Prepare
  <2>1. CASE Refuses(cur)
    BY <1>4, <1>6, <2>1 DEF Prepare
  <2>2. CASE ~Refuses(cur)
    <3>1. /\ plan' = [plan EXCEPT ![cur] = Decision(cur)] /\ pc = "prepare"
          /\ UNCHANGED <<at, side>>
          /\ IF cur < N THEN Goto("prepare", cur + 1) ELSE Goto("apply", 1)
      BY <1>6, <2>2 DEF Prepare, files
    <3>2. ASSUME cur \notin touched
          PROVE  plan'[cur].adopt \/ side[cur].kind = "program" => plan'[cur].to = "adopted"
      <4>1. plan'[cur] = Decision(cur)
        BY <1>1, <3>1
      <4>2. CASE at[cur].kind = "program"
        <5>1. Decision(cur).to = "adopted"
          BY <4>2 DEF Decision
        <5>. QED  BY <4>1, <5>1
      <4>3. CASE at[cur].kind # "program" /\ side[cur].kind = "program"
        <5>1. at[cur].kind # "link"
          BY <1>1, <3>2, <4>3
        <5>2. Decision(cur).to = Delegate(cur)
          BY <4>3, <5>1 DEF Decision
        <5>3. Delegate(cur) = "adopted"
          BY <4>3 DEF Delegate, IsRegular
        <5>. QED  BY <4>1, <5>2, <5>3
      <4>4. CASE at[cur].kind # "program" /\ side[cur].kind # "program"
        <5>1. Decision(cur).adopt = FALSE
          BY <4>4 DEF Decision
        <5>. QED  BY <4>1, <4>4, <5>1
      <4>. QED  BY <4>2, <4>3, <4>4
    <3>3. ASSUME NEW i \in Names \ touched, i <= cur PROVE PlanServes(i)'
      <4>1. CASE i = cur
        BY <3>1, <3>2, <3>3, <4>1
      <4>2. CASE i # cur
        BY <1>1, <1>2, <3>1, <3>3, <4>2
      <4>. QED  BY <4>1, <4>2
    <3>4. ASSUME NEW i \in Names \ touched, Planned(i)' PROVE i <= cur
      BY <1>1, <1>2, <3>1, <3>4 DEF Goto
    <3>5. pc' \in Installing
      BY <3>1 DEF Goto, Installing
    <3>. QED  BY <1>1, <1>3, <3>1, <3>3, <3>4, <3>5
  <2>. QED  BY <2>1, <2>2
<1>7. CASE ApplySkips
  BY <1>1, <1>2, <1>3, <1>7 DEF ApplySkips, AfterApply, Goto, files, install, Installing
<1>8. CASE Apply
  <2>1. /\ pc = "apply" /\ plan[cur].adopt
        /\ at' = [at EXCEPT ![cur] = Absent] /\ side' = [side EXCEPT ![cur] = at[cur]]
        /\ UNCHANGED plan
        /\ pc' \in {"apply", "write"}
    BY <1>8 DEF Apply, AfterApply, Goto
  <2>2. ASSUME NEW i \in Names \ touched PROVE Served(i)' /\ PlanServes(i)'
    BY <1>1, <2>1, <2>2, Kinds
  <2>. QED  BY <1>1, <1>3, <2>1, <2>2 DEF Installing
<1>9. CASE ApplyFails \/ WriteFails
  BY <1>1, <1>3, <1>9 DEF ApplyFails, WriteFails, Goto, files, install, Installing
<1>10. CASE Write
  <2>1. pc = "write" /\ at' = [at EXCEPT ![cur] = Shim(plan[cur].to)] /\ UNCHANGED side
    BY <1>10 DEF Write
  <2>2. ASSUME NEW i \in Names \ touched PROVE Served(i)'
    BY <1>1, <2>1, <2>2 DEF Shim
  <2>3. pc' = "idle" \/ (pc' = "write" /\ UNCHANGED plan)
    BY <1>10 DEF Write, Goto, Ends
  <2>. QED  BY <1>1, <1>3, <2>1, <2>2, <2>3 DEF Installing
<1>11. CASE Remove
  BY <1>1, <1>3, <1>11, Kinds DEF Remove, Installing
<1>12. ASSUME NEW i \in Names, Restore(i) PROVE AsideInv'
  BY <1>1, <1>3, <1>12, Kinds DEF Restore, Installing
<1>13. CASE RollbackEnds
  BY <1>4, <1>13 DEF RollbackEnds
<1>. QED  BY <1>5, <1>6, <1>7, <1>8, <1>9, <1>10, <1>11, <1>12, <1>13 DEF InstallStep

\* A step of an uninstall keeps it.
LEMMA AsideUninstall ==
    ASSUME AsideInv, UninstallStep, UNCHANGED touched, TypeOK' PROVE AsideInv'
<1>. USE DEF AsideInv, Served, Planned, OnShim, IsOurShim
<1>1. /\ at \in [Names -> Entry] /\ side \in [Names -> Entry] /\ cur \in Names
      /\ quar \in Entry /\ TypeOK'
  BY DEF TypeOK
<1>2. CASE Ends /\ UNCHANGED <<at, side>>
  BY <1>1, <1>2 DEF Ends
<1>3. CASE UNCHANGED <<at, side>> /\ pc' \in {"inspect", "probe", "take"}
  BY <1>1, <1>3
<1>4. CASE BeginUninstall \/ Probe
  BY <1>3, <1>4 DEF BeginUninstall, Probe, NextPending, Goto, files
<1>5. CASE Inspect
  BY <1>2, <1>3, <1>5 DEF Inspect, Goto, files
<1>6. CASE Take
  BY <1>1, <1>2, <1>6 DEF Take, files, Conflict, Displaced
<1>7. CASE Check
  BY <1>1, <1>2, <1>7 DEF Check, files, removal
<1>8. CASE Exchange
  <2>1. CASE Ends /\ UNCHANGED <<at, side>>
    BY <1>2, <2>1
  <2>2. CASE /\ at' = [at EXCEPT ![cur] = side[cur]]
             /\ side' = [side EXCEPT ![cur] = at[cur]]
             /\ pc' = "move" /\ UNCHANGED <<cur, install, removal>>
    BY <1>1, <1>8, <2>2 DEF Exchange, removal, Displaced
  <2>. QED  BY <1>8, <2>1, <2>2 DEF Exchange
<1>9. CASE Move
  <2>1. CASE Displaced = Absent
    BY <1>2, <1>9, <2>1 DEF Move
  <2>2. CASE Displaced # Absent
    BY <1>1, <1>9, <2>2, Kinds DEF Move, Displace, Displaced, removal
  <2>. QED  BY <2>1, <2>2
<1>10. CASE Unlink
  BY <1>2, <1>3, <1>10 DEF Unlink, NextPending, Goto
<1>11. CASE GiveBack
  <2>1. cur \in touched
    BY <1>11 DEF GiveBack
  <2>2. \A i \in Names \ touched : at'[i] = at[i] /\ side'[i] = side[i]
    BY <1>1, <1>11, <2>1 DEF GiveBack, Displace
  <2>. QED  BY <1>1, <1>11, <2>2 DEF GiveBack, Ends
<1>12. CASE RemovalFails
  BY <1>2, <1>12 DEF RemovalFails, files
<1>. QED  BY <1>4, <1>5, <1>6, <1>7, <1>8, <1>9, <1>10, <1>11, <1>12 DEF UninstallStep

\* While others leave a name alone, its shim calls the program that is aside.
THEOREM AsideIsServedHolds == Spec => []AsideIsServed
<1>1. ASSUME AsideInv, [Next]_vars PROVE AsideInv'
  <2>1. TypeOK'
    BY <1>1, TypeStep DEF AsideInv
  <2>2. CASE InstallStep /\ UNCHANGED touched
    BY <1>1, <2>1, <2>2, AsideInstall
  <2>3. CASE UninstallStep /\ UNCHANGED touched
    BY <1>1, <2>1, <2>3, AsideUninstall
  <2>4. CASE Kill /\ UNCHANGED touched
    BY <1>1, <2>1, <2>4 DEF Kill, Ends, AsideInv, Served, Planned, OnShim
  <2>5. CASE OthersWrite
    <3>1. /\ touched \subseteq touched' /\ UNCHANGED <<pc, cur, plan, restore, quar>>
          /\ \A i \in Names \ touched' : at'[i] = at[i] /\ side'[i] = side[i]
      BY <1>1, <2>5 DEF OthersWrite, removal, AsideInv, TypeOK
    <3>2. cur \in Names
      BY <1>1 DEF AsideInv, TypeOK
    <3>3. ASSUME NEW i \in Names \ touched'
          PROVE  Served(i)' /\ (Planned(i)' => PlanServes(i)')
      BY <1>1, <3>1, <3>3 DEF AsideInv, Served, Planned, PlanServes
    <3>4. OnShim'
      BY <1>1, <3>1, <3>2 DEF AsideInv, OnShim, Displaced
    <3>. QED  BY <2>1, <3>3, <3>4 DEF AsideInv
  <2>6. CASE UNCHANGED vars
    BY <1>1, <2>1, <2>6 DEF vars, files, install, removal, AsideInv, Served, Planned,
       PlanServes, OnShim, Displaced
  <2>. QED  BY <1>1, <2>2, <2>3, <2>4, <2>5, <2>6 DEF Next, CommandStep
<1>2. AsideInv => AsideIsServed
  BY DEF AsideInv, Served, AsideIsServed, IsOurShim
<1>. QED  BY <1>1, <1>2, AsideInit, PTL DEF Spec

-----------------------------------------------------------------------------
(* A failed install is undone.                                             *)

\* What a name and its sidecar hold, by what the rollback's record says of them.
Tracked(i) ==
    IF i \in moved
    THEN side[i] = before.at[i] /\ before.side[i] = Absent
    ELSE /\ side[i] = before.side[i]
         /\ IF i = 1 /\ wrote
            THEN before.at[i].kind \in {"absent", "link"}
            ELSE at[i] = before.at[i] \/ (pc = "rollback" /\ before.at[i].kind = "link")

\* What is written over or moved aside is what prepareShimPath allowed.
Cleared ==
    /\ before.at[1].kind # "shim"
    /\ pc \in {"apply", "write"} \/ (pc = "prepare" /\ cur > 1) => before.at[1].kind # "dir"
    /\ \A i \in Names : Planned(i) /\ plan[i].adopt => before.at[i].kind = "program"

Calm == ~exposed /\ ~undoFailed

UndoInv ==
    /\ Inv
    /\ Calm /\ pc \in Installing => Cleared /\ \A i \in Names : Tracked(i)

\* No install has begun.
LEMMA UndoInit == ASSUME Init PROVE UndoInv
  BY InitInv DEF Init, UndoInv, Installing

\* An install keeps account of what it has changed.
LEMMA UndoInstall == ASSUME UndoInv, InstallStep, Inv' PROVE UndoInv'
<1>. USE DEF UndoInv, Calm, Tracked, Cleared, Planned
<1>1. /\ at \in [Names -> Entry] /\ side \in [Names -> Entry] /\ cur \in Names
      /\ plan \in [Names -> Plan] /\ moved \subseteq Names /\ Inv' /\ 1 \in Names
      /\ before.at \in [Names -> Entry] /\ before.side \in [Names -> Entry]
  BY EntryFacts DEF Inv, TypeOK
<1>2. /\ Names = 1 .. N /\ N \in {1, 2}
      /\ \A i \in Names : i \in Int
  BY ShimAssumption DEF Names
<1>3. CASE Ends
  BY <1>1, <1>3 DEF Ends, Installing
<1>4. CASE exposed \/ undoFailed
  <2>1. pc \in Installing => UndoInv'
    BY <1>1, <1>3, <1>4 DEF InstallStep, BeginInstall, Prepare, ApplySkips, Apply, ApplyFails,
       Write, WriteFails, Remove, Restore, RollbackEnds, install, Installing
  <2>2. CASE pc \notin Installing
    BY <1>1, <1>4, <2>2 DEF InstallStep, BeginInstall, Prepare, ApplySkips, Apply, ApplyFails,
       Write, WriteFails, Remove, Restore, RollbackEnds, install, Installing
  <2>. QED  BY <2>1, <2>2
<1>5. ASSUME Calm, NEW consent \in BOOLEAN, BeginInstall(consent) PROVE UndoInv'
  <2>1. moved = {} /\ ~wrote
    BY <1>5 DEF BeginInstall, Inv, Records
  <2>2. /\ pc' = "prepare" /\ cur' = 1 /\ before' = [at |-> at, side |-> side]
        /\ UNCHANGED <<at, side, moved, wrote>> /\ at[1].kind # "shim"
    BY <1>5 DEF BeginInstall, Goto, files, IsOurShim
  <2>. QED  BY <1>1, <1>2, <2>1, <2>2
<1>6. ASSUME Calm, pc \in Installing
      PROVE  Cleared /\ (\A i \in Names : Tracked(i)) /\ Undisturbed /\ Records
  BY <1>6 DEF Inv
<1>7. CASE Calm /\ Prepare
  <2>1. CASE Refuses(cur)
    BY <1>3, <1>7, <2>1 DEF Prepare
  <2>2. CASE ~Refuses(cur)
    <3>1. /\ plan' = [plan EXCEPT ![cur] = Decision(cur)] /\ pc = "prepare"
          /\ UNCHANGED <<at, side, moved, wrote, before, exposed, undoFailed>>
          /\ IF cur < N THEN Goto("prepare", cur + 1) ELSE Goto("apply", 1)
      BY <1>7, <2>2 DEF Prepare, files
    <3>2. Cleared /\ (\A i \in Names : Tracked(i)) /\ moved = {} /\ ~wrote
      BY <1>6, <1>7, <3>1 DEF Installing, Records
    <3>3. plan'[cur].adopt = (at[cur].kind = "program") /\ at[cur].kind # "dir"
      BY <1>1, <2>2, <3>1 DEF Decision, Refuses
    <3>4. at[cur] = before.at[cur] /\ at[1] = before.at[1]
      BY <1>1, <3>1, <3>2
    <3>5. before.at[1].kind # "dir"
      BY <1>1, <1>2, <3>1, <3>2, <3>3, <3>4
    <3>6. pc' \in {"prepare", "apply"} /\ cur' \in {1, cur + 1}
      BY <3>1 DEF Goto
    <3>7. ASSUME NEW i \in Names PROVE Tracked(i)'
      BY <3>1, <3>2, <3>6
    <3>8. ASSUME NEW i \in Names, Planned(i)', plan'[i].adopt
          PROVE  before.at[i].kind = "program"
      <4>1. i < cur \/ i = cur
        BY <1>1, <1>2, <3>1, <3>8 DEF Goto
      <4>2. CASE i = cur
        BY <1>1, <3>3, <3>4, <3>8, <4>2
      <4>3. CASE i < cur
        <5>1. i # cur
          BY <1>2, <4>3
        <5>2. plan'[i] = plan[i]
          BY <1>1, <3>1, <5>1
        <5>. QED  BY <3>1, <3>2, <3>8, <4>3, <5>2
      <4>. QED  BY <4>1, <4>2, <4>3
    <3>9. Cleared'
      BY <3>1, <3>2, <3>5, <3>8
    <3>. QED  BY <1>1, <3>7, <3>9
  <2>. QED  BY <2>1, <2>2
<1>8. CASE Calm /\ ApplySkips
  BY <1>1, <1>2, <1>6, <1>8 DEF ApplySkips, AfterApply, Goto, files, install, Installing
<1>9. CASE Calm /\ Apply
  <2>1. /\ pc = "apply" /\ plan[cur].adopt /\ pc' \in {"apply", "write"}
        /\ at' = [at EXCEPT ![cur] = Absent] /\ side' = [side EXCEPT ![cur] = at[cur]]
        /\ moved' = moved \cup {cur}
        /\ UNCHANGED <<plan, wrote, before, exposed, undoFailed>>
    BY <1>9 DEF Apply, AfterApply, Goto
  <2>2. Cleared /\ (\A i \in Names : Tracked(i)) /\ Undisturbed /\ Records
    BY <1>6, <1>9, <2>1 DEF Installing
  <2>3. side[cur] = Absent /\ cur \notin moved /\ ~wrote
    BY <1>1, <1>2, <2>1, <2>2 DEF Undisturbed, Fits, Records
  <2>4. side[cur] = before.side[cur] /\ at[cur] = before.at[cur]
    BY <1>1, <2>1, <2>2, <2>3
  <2>5. ASSUME NEW i \in Names PROVE Tracked(i)'
    <3>1. CASE i = cur
      BY <1>1, <2>1, <2>3, <2>4, <3>1
    <3>2. CASE i # cur
      BY <1>1, <2>1, <2>2, <2>3, <3>2
    <3>. QED  BY <3>1, <3>2
  <2>. QED  BY <1>1, <2>1, <2>2, <2>5
<1>10. CASE Calm /\ (ApplyFails \/ WriteFails)
  BY <1>1, <1>6, <1>10 DEF ApplyFails, WriteFails, Goto, files, install, Installing
<1>11. CASE Calm /\ Write
  <2>1. CASE cur < N
    <3>1. /\ pc = "write" /\ pc' = "write" /\ cur = 1 /\ wrote' = TRUE
          /\ at' = [at EXCEPT ![1] = Shim(plan[1].to)]
          /\ UNCHANGED <<side, plan, moved, before, exposed, undoFailed>>
      <4>1. cur = 1
        BY <1>1, <1>2, <2>1
      <4>. QED  BY <1>11, <2>1, <4>1 DEF Write, Goto
    <3>2. Cleared /\ (\A i \in Names : Tracked(i)) /\ Undisturbed
      BY <1>6, <1>11, <3>1 DEF Installing
    <3>3. 1 \notin moved => before.at[1].kind \in {"absent", "link"}
      <4>1. CASE 1 \notin moved /\ ~wrote
        <5>1. at[1] = before.at[1] /\ at[1].kind \notin {"program", "dir", "shim"}
          BY <1>1, <3>1, <3>2, <4>1 DEF Undisturbed, Free
        <5>. QED  BY <1>1, <5>1 DEF Entry
      <4>2. CASE 1 \notin moved /\ wrote
        BY <1>1, <3>2, <4>2
      <4>. QED  BY <4>1, <4>2
    <3>4. ASSUME NEW i \in Names PROVE Tracked(i)'
      BY <1>1, <3>1, <3>2, <3>3, <3>4
    <3>. QED  BY <1>1, <3>1, <3>2, <3>4
  <2>. QED  BY <1>3, <1>11, <2>1 DEF Write
<1>12. CASE Calm /\ Remove
  <2>1. CASE undoFailed'
    BY <1>1, <2>1
  <2>2. CASE ~undoFailed'
    <3>1. /\ pc = "rollback" /\ wrote /\ wrote' = FALSE /\ at' = [at EXCEPT ![1] = Absent]
          /\ UNCHANGED <<side, plan, moved, before, exposed, pc, cur>>
      BY <1>12, <2>2 DEF Remove, UndoesRemove
    <3>2. Cleared /\ (\A i \in Names : Tracked(i))
      BY <1>6, <1>12, <3>1 DEF Installing
    <3>3. ASSUME NEW i \in Names PROVE Tracked(i)'
      BY <1>1, <3>1, <3>2, <3>3, Kinds
    <3>. QED  BY <1>1, <1>12, <3>1, <3>2, <3>3
  <2>. QED  BY <2>1, <2>2
<1>13. ASSUME Calm, NEW i \in Names, Restore(i) PROVE UndoInv'
  <2>1. CASE undoFailed'
    BY <1>1, <2>1
  <2>2. CASE ~undoFailed'
    <3>1. /\ pc = "rollback" /\ ~wrote /\ i \in moved /\ moved' = moved \ {i}
          /\ at' = [at EXCEPT ![i] = side[i]] /\ side' = [side EXCEPT ![i] = Absent]
          /\ UNCHANGED <<plan, wrote, before, exposed, pc, cur>>
      BY <1>13, <2>2 DEF Restore, UndoesRestore, UndoesRemove
    <3>2. Cleared /\ (\A j \in Names : Tracked(j))
      BY <1>6, <1>13, <3>1 DEF Installing
    <3>3. ASSUME NEW j \in Names PROVE Tracked(j)'
      BY <1>1, <3>1, <3>2, <3>3
    <3>. QED  BY <1>1, <1>13, <3>1, <3>2, <3>3
  <2>. QED  BY <2>1, <2>2
<1>14. CASE RollbackEnds
  BY <1>3, <1>14 DEF RollbackEnds
<1>. QED  BY <1>4, <1>5, <1>7, <1>8, <1>9, <1>10, <1>11, <1>12, <1>13, <1>14 DEF InstallStep

\* A failed install that nobody disturbs, and whose rollback succeeds, leaves every
\* name and sidecar as they were, links apart.
THEOREM FailedInstallUndoneHolds == Spec => FailedInstallUndone
<1>1. ASSUME UndoInv, [Next]_vars PROVE UndoInv'
  <2>1. Inv'
    BY <1>1, NextInv DEF UndoInv
  <2>2. CASE InstallStep
    BY <1>1, <2>1, <2>2, UndoInstall
  <2>3. CASE UninstallStep \/ Kill
    <3>1. pc' \notin Installing
      BY <2>3 DEF UninstallStep, BeginUninstall, Inspect, Probe, Take, Check, Exchange, Move,
         Unlink, GiveBack, RemovalFails, Kill, Ends, Goto, NextPending, Installing
    <3>. QED  BY <2>1, <3>1 DEF UndoInv
  <2>4. CASE OthersWrite
    <3>1. pc' = pc /\ exposed' = (exposed \/ pc \in Installing)
      BY <2>4 DEF OthersWrite
    <3>. QED  BY <2>1, <3>1 DEF UndoInv, Calm
  <2>5. CASE UNCHANGED vars
    BY <1>1, <2>1, <2>5 DEF vars, files, install, UndoInv, Calm, Cleared, Tracked, Planned
  <2>. QED  BY <1>1, <2>2, <2>3, <2>4, <2>5 DEF Next, CommandStep
<1>2. ASSUME UndoInv
      PROVE  RollbackEnds /\ ~exposed /\ ~undoFailed =>
                \A i \in Names : before.at[i].kind # "link" =>
                   at[i] = before.at[i] /\ side[i] = before.side[i]
  <2>1. SUFFICES ASSUME RollbackEnds, ~exposed, ~undoFailed,
                        NEW i \in Names, before.at[i].kind # "link"
                 PROVE  at[i] = before.at[i] /\ side[i] = before.side[i]
    OBVIOUS
  <2>2. pc = "rollback" /\ ~wrote /\ \A j \in Names : ~UndoesRestore(j)
    BY <2>1 DEF RollbackEnds, UndoesRemove
  <2>3. moved = {}
    <3>1. moved \subseteq 1 .. N /\ N \in {1, 2}
      BY <1>2, ShimAssumption DEF UndoInv, Inv, TypeOK, Names
    <3>2. 2 \notin moved
      BY <2>2, <3>1 DEF UndoesRestore, UndoesRemove, Names
    <3>3. 1 \notin moved
      BY <2>2, <3>1, <3>2 DEF UndoesRestore, UndoesRemove, Names
    <3>. QED  BY <3>1, <3>2, <3>3
  <2>4. Tracked(i)
    BY <1>2, <2>1, <2>2 DEF UndoInv, Calm, Installing
  <2>. QED  BY <2>1, <2>2, <2>3, <2>4 DEF Tracked
<1>. QED  BY <1>1, <1>2, UndoInit, PTL DEF Spec, FailedInstallUndone
=============================================================================
