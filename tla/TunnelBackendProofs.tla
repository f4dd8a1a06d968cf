------------------------- MODULE TunnelBackendProofs -------------------------
(***************************************************************************)
(* TunnelBackend implements OwnedChild, however many children are started.  *)
(* The inductive invariant says whose fields the fields are: the owned      *)
(* child is always the last one started, a Stop under way works on it, and  *)
(* the listener and the files go with it.                                  *)
(***************************************************************************)
EXTENDS TunnelBackend, TLAPS

\* Stop's target is still owned, and not reaped without its exit recorded.
StopInv ==
    /\ pc \in Stopping => target = cmd
    /\ pc \in Stopping \ {"end"} =>
          target # 0 /\ (Lives(target) \/ exit = target)

\* The forwarded flag and the remote listener of the owned child.
BoundInv ==
    running /\ life[cmd] = "alive" =>
        /\ forwarded /\ pc # "unflag" => cmd \in listeners
        /\ pc = "forwarded" => cmd \in listeners
        /\ pc = "unflag" => cmd \notin listeners

FilesInv ==
    \A c \in files : (c = cmd /\ life[c] # "done") \/ life[c] = "recorded"

IInv ==
    TypeOK /\ RunningIsNewest /\ ExitIsNewest /\ StopInv /\ BoundInv /\ FilesInv

-----------------------------------------------------------------------------
(* The invariant holds at first and every step keeps it.                   *)

\* Before the first child there is nothing to be wrong about.
LEMMA InitIInv == Init => IInv
  <1> SUFFICES ASSUME Init PROVE IInv
    OBVIOUS
  <1>1. running \in BOOLEAN /\ forwarded \in BOOLEAN
    BY Zenon DEF Init
  <1>2. TypeOK
    BY <1>1, BackendAssumption DEF Init, TypeOK, Child, Life
  <1>3. RunningIsNewest /\ ExitIsNewest /\ StopInv /\ BoundInv /\ FilesInv
    BY DEF Init, RunningIsNewest, ExitIsNewest, StopInv, BoundInv, FilesInv,
         Stopping
  <1>4. QED
    BY <1>2, <1>3 DEF IInv

\* A call of the owner keeps the invariant.
LEMMA CallKeepsIInv == ASSUME IInv, Call PROVE IInv'
  <1> USE BackendAssumption DEF IInv, TypeOK, RunningIsNewest, ExitIsNewest,
       StopInv, BoundInv, FilesInv, Lives, Stopping, Child, Life
  <1>1. ASSUME Start
        PROVE  IInv'
    <2>1. running' \in BOOLEAN /\ forwarded' \in BOOLEAN
      BY <1>1, Zenon DEF Start, caller
    <2>2. TypeOK'
      BY <1>1, <2>1 DEF Start, caller
    <2>3. (RunningIsNewest /\ ExitIsNewest)'
      BY <1>1, <2>1 DEF Start, caller
    <2>4. StopInv'
      BY <1>1, <2>1 DEF Start, caller
    <2>5. BoundInv'
      BY <1>1, <2>1 DEF Start, caller
    <2>6. FilesInv'
      BY <1>1, <2>1 DEF Start, caller
    <2>7. QED
      BY <2>2, <2>3, <2>4, <2>5, <2>6
  <1>2. ASSUME ConsumeLastExit
        PROVE  IInv'
    <2>1. running' \in BOOLEAN /\ forwarded' \in BOOLEAN
      BY <1>2, Zenon DEF ConsumeLastExit, caller, world
    <2>2. TypeOK'
      BY <1>2, <2>1 DEF ConsumeLastExit, caller, world
    <2>3. (RunningIsNewest /\ ExitIsNewest)'
      BY <1>2, <2>1 DEF ConsumeLastExit, caller, world
    <2>4. StopInv'
      BY <1>2, <2>1 DEF ConsumeLastExit, caller, world
    <2>5. BoundInv'
      BY <1>2, <2>1 DEF ConsumeLastExit, caller, world
    <2>6. FilesInv'
      BY <1>2, <2>1 DEF ConsumeLastExit, caller, world
    <2>7. QED
      BY <2>2, <2>3, <2>4, <2>5, <2>6
  <1>3. ASSUME NEW answered \in BOOLEAN, ForwardBinds(answered)
        PROVE  IInv'
    <2>1. running' \in BOOLEAN /\ forwarded' \in BOOLEAN
      BY <1>3, Zenon DEF ForwardBinds, fields, Answers
    <2>2. TypeOK'
      BY <1>3, <2>1 DEF ForwardBinds, fields, Answers
    <2>3. (RunningIsNewest /\ ExitIsNewest)'
      BY <1>3, <2>1 DEF ForwardBinds, fields, Answers
    <2>4. StopInv'
      BY <1>3, <2>1 DEF ForwardBinds, fields, Answers
    <2>5. BoundInv'
      BY <1>3, <2>1 DEF ForwardBinds, fields, Answers
    <2>6. FilesInv'
      BY <1>3, <2>1 DEF ForwardBinds, fields, Answers
    <2>7. QED
      BY <2>2, <2>3, <2>4, <2>5, <2>6
  <1>4. ASSUME ForwardNoted
        PROVE  IInv'
    <2>1. running' \in BOOLEAN /\ forwarded' \in BOOLEAN
      BY <1>4, Zenon DEF ForwardNoted, world
    <2>2. TypeOK'
      BY <1>4, <2>1 DEF ForwardNoted, world
    <2>3. (RunningIsNewest /\ ExitIsNewest)'
      BY <1>4, <2>1 DEF ForwardNoted, world
    <2>4. StopInv'
      BY <1>4, <2>1 DEF ForwardNoted, world
    <2>5. BoundInv'
      BY <1>4, <2>1 DEF ForwardNoted, world
    <2>6. FilesInv'
      BY <1>4, <2>1 DEF ForwardNoted, world
    <2>7. QED
      BY <2>2, <2>3, <2>4, <2>5, <2>6
  <1>5. ASSUME StopBegins
        PROVE  IInv'
    <2>1. running' \in BOOLEAN /\ forwarded' \in BOOLEAN
      BY <1>5, Zenon DEF StopBegins, fields, world
    <2>2. TypeOK'
      BY <1>5, <2>1 DEF StopBegins, fields, world
    <2>3. (RunningIsNewest /\ ExitIsNewest)'
      BY <1>5, <2>1 DEF StopBegins, fields, world
    <2>4. StopInv'
      BY <1>5, <2>1 DEF StopBegins, fields, world
    <2>5. BoundInv'
      BY <1>5, <2>1 DEF StopBegins, fields, world
    <2>6. FilesInv'
      BY <1>5, <2>1 DEF StopBegins, fields, world
    <2>7. QED
      BY <2>2, <2>3, <2>4, <2>5, <2>6
  <1>6. ASSUME StopCancels
        PROVE  IInv'
    <2>1. running' \in BOOLEAN /\ forwarded' \in BOOLEAN
      BY <1>6, Zenon DEF StopCancels, fields, Answers, Forwarded
    <2>2. TypeOK'
      BY <1>6, <2>1 DEF StopCancels, fields, Answers, Forwarded
    <2>3. (RunningIsNewest /\ ExitIsNewest)'
      BY <1>6, <2>1 DEF StopCancels, fields, Answers, Forwarded
    <2>4. StopInv'
      BY <1>6, <2>1 DEF StopCancels, fields, Answers, Forwarded
    <2>5. BoundInv'
      BY <1>6, <2>1 DEF StopCancels, fields, Answers, Forwarded
    <2>6. FilesInv'
      BY <1>6, <2>1 DEF StopCancels, fields, Answers, Forwarded
    <2>7. QED
      BY <2>2, <2>3, <2>4, <2>5, <2>6
  <1>7. ASSUME StopUnflags
        PROVE  IInv'
    <2>1. running' \in BOOLEAN /\ forwarded' \in BOOLEAN
      BY <1>7, Zenon DEF StopUnflags, world
    <2>2. TypeOK'
      BY <1>7, <2>1 DEF StopUnflags, world
    <2>3. (RunningIsNewest /\ ExitIsNewest)'
      BY <1>7, <2>1 DEF StopUnflags, world
    <2>4. StopInv'
      BY <1>7, <2>1 DEF StopUnflags, world
    <2>5. BoundInv'
      BY <1>7, <2>1 DEF StopUnflags, world
    <2>6. FilesInv'
      BY <1>7, <2>1 DEF StopUnflags, world
    <2>7. QED
      BY <2>2, <2>3, <2>4, <2>5, <2>6
  <1>8. ASSUME StopAsksExit
        PROVE  IInv'
    <2>1. running' \in BOOLEAN /\ forwarded' \in BOOLEAN
      BY <1>8, Zenon DEF StopAsksExit, fields, world, Answers
    <2>2. TypeOK'
      BY <1>8, <2>1 DEF StopAsksExit, fields, world, Answers
    <2>3. (RunningIsNewest /\ ExitIsNewest)'
      BY <1>8, <2>1 DEF StopAsksExit, fields, world, Answers
    <2>4. StopInv'
      BY <1>8, <2>1 DEF StopAsksExit, fields, world, Answers
    <2>5. BoundInv'
      BY <1>8, <2>1 DEF StopAsksExit, fields, world, Answers
    <2>6. FilesInv'
      BY <1>8, <2>1 DEF StopAsksExit, fields, world, Answers
    <2>7. QED
      BY <2>2, <2>3, <2>4, <2>5, <2>6
  <1>9. ASSUME StopWaits
        PROVE  IInv'
    <2>1. running' \in BOOLEAN /\ forwarded' \in BOOLEAN
      BY <1>9, Zenon DEF StopWaits, fields, world, AfterTimer, TargetDone
    <2>2. TypeOK'
      BY <1>9, <2>1 DEF StopWaits, fields, world, AfterTimer, TargetDone
    <2>3. (RunningIsNewest /\ ExitIsNewest)'
      BY <1>9, <2>1 DEF StopWaits, fields, world, AfterTimer, TargetDone
    <2>4. StopInv'
      BY <1>9, <2>1 DEF StopWaits, fields, world, AfterTimer, TargetDone
    <2>5. BoundInv'
      BY <1>9, <2>1 DEF StopWaits, fields, world, AfterTimer, TargetDone
    <2>6. FilesInv'
      BY <1>9, <2>1 DEF StopWaits, fields, world, AfterTimer, TargetDone
    <2>7. QED
      BY <2>2, <2>3, <2>4, <2>5, <2>6
  <1>10. ASSUME StopTerminates
        PROVE  IInv'
    <2>1. running' \in BOOLEAN /\ forwarded' \in BOOLEAN
      BY <1>10, Zenon DEF StopTerminates, fields, world
    <2>2. TypeOK'
      BY <1>10, <2>1 DEF StopTerminates, fields, world
    <2>3. (RunningIsNewest /\ ExitIsNewest)'
      BY <1>10, <2>1 DEF StopTerminates, fields, world
    <2>4. StopInv'
      BY <1>10, <2>1 DEF StopTerminates, fields, world
    <2>5. BoundInv'
      BY <1>10, <2>1 DEF StopTerminates, fields, world
    <2>6. FilesInv'
      BY <1>10, <2>1 DEF StopTerminates, fields, world
    <2>7. QED
      BY <2>2, <2>3, <2>4, <2>5, <2>6
  <1>11. ASSUME StopEnds
        PROVE  IInv'
    <2>1. running' \in BOOLEAN /\ forwarded' \in BOOLEAN
      BY <1>11, Zenon DEF StopEnds
    <2>2. TypeOK'
      BY <1>11, <2>1 DEF StopEnds
    <2>3. (RunningIsNewest /\ ExitIsNewest)'
      BY <1>11, <2>1 DEF StopEnds
    <2>4. StopInv'
      BY <1>11, <2>1 DEF StopEnds
    <2>5. BoundInv'
      BY <1>11, <2>1 DEF StopEnds
    <2>6. FilesInv'
      BY <1>11, <2>1 DEF StopEnds
    <2>7. QED
      BY <2>2, <2>3, <2>4, <2>5, <2>6
  <1>12. QED
    BY <1>1, <1>2, <1>3, <1>4, <1>5, <1>6, <1>7, <1>8, <1>9, <1>10, <1>11 DEF
         Call, StopStep

\* A child that dies, and its reaper, keep the invariant.
LEMMA ChildKeepsIInv == ASSUME IInv, \E c \in Child : ChildStep(c) PROVE IInv'
  <1> USE BackendAssumption DEF IInv, TypeOK, RunningIsNewest, ExitIsNewest,
       StopInv, BoundInv, FilesInv, Lives, Stopping, Child, Life
  <1>1. ASSUME NEW c \in Child, ChildDies(c)
        PROVE  IInv'
    <2>1. running' \in BOOLEAN /\ forwarded' \in BOOLEAN
      BY <1>1, Zenon DEF ChildDies, caller, fields
    <2>2. TypeOK'
      BY <1>1, <2>1 DEF ChildDies, caller, fields
    <2>3. (RunningIsNewest /\ ExitIsNewest)'
      BY <1>1, <2>1 DEF ChildDies, caller, fields
    <2>4. StopInv'
      BY <1>1, <2>1 DEF ChildDies, caller, fields
    <2>5. BoundInv'
      BY <1>1, <2>1 DEF ChildDies, caller, fields
    <2>6. FilesInv'
      BY <1>1, <2>1 DEF ChildDies, caller, fields
    <2>7. QED
      BY <2>2, <2>3, <2>4, <2>5, <2>6
  <1>2. ASSUME NEW c \in Child, WaitReturns(c)
        PROVE  IInv'
    <2>1. running' \in BOOLEAN /\ forwarded' \in BOOLEAN
      BY <1>2, Zenon DEF WaitReturns, caller, fields
    <2>2. TypeOK'
      BY <1>2, <2>1 DEF WaitReturns, caller, fields
    <2>3. (RunningIsNewest /\ ExitIsNewest)'
      BY <1>2, <2>1 DEF WaitReturns, caller, fields
    <2>4. StopInv'
      BY <1>2, <2>1 DEF WaitReturns, caller, fields
    <2>5. BoundInv'
      BY <1>2, <2>1 DEF WaitReturns, caller, fields
    <2>6. FilesInv'
      BY <1>2, <2>1 DEF WaitReturns, caller, fields
    <2>7. QED
      BY <2>2, <2>3, <2>4, <2>5, <2>6
  <1>3. ASSUME NEW c \in Child, ReapRecords(c)
        PROVE  IInv'
    <2>1. running' \in BOOLEAN /\ forwarded' \in BOOLEAN
      BY <1>3, Zenon DEF ReapRecords, caller
    <2>2. TypeOK'
      BY <1>3, <2>1 DEF ReapRecords, caller
    <2>3. (RunningIsNewest /\ ExitIsNewest)'
      <3>1. life'[c] = "recorded" /\ \A d \in Child \ {c} : life'[d] = life[d]
        BY <1>3 DEF ReapRecords
      <3>2. CASE cmd = c
        <4>1. ~running' /\ exit' = c /\ cmd' = c /\ started' = started
          BY <1>3, <3>2 DEF ReapRecords
        <4>2. c # 0 /\ cmd \in {0, started}
          OBVIOUS
        <4>3. QED
          BY <3>1, <3>2, <4>1, <4>2
      <3>3. CASE cmd # c
        <4>1. /\ running' = running /\ exit' = exit /\ cmd' = cmd
              /\ started' = started
          BY <1>3, <3>3 DEF ReapRecords
        <4>2. cmd # 0 => life'[cmd] = life[cmd]
          BY <3>1, <3>3
        <4>3. RunningIsNewest'
          BY <4>1, <4>2, Zenon
        <4>4. QED
          BY <4>1, <4>3
      <3>4. QED
        BY <3>2, <3>3
    <2>4. StopInv'
      BY <1>3, <2>1 DEF ReapRecords, caller
    <2>5. BoundInv'
      <3>1. CASE cmd = c
        BY <1>3, <3>1 DEF ReapRecords
      <3>2. CASE cmd # c
        <4>1. /\ running' = running /\ cmd' = cmd /\ forwarded' = forwarded
              /\ pc' = pc /\ listeners' = listeners
          BY <1>3, <3>2 DEF ReapRecords, caller
        <4>2. running => life'[cmd] = life[cmd]
          BY <1>3, <3>2 DEF ReapRecords
        <4>3. QED
          BY <4>1, <4>2, Zenon
      <3>3. QED
        BY <3>1, <3>2
    <2>6. FilesInv'
      BY <1>3, <2>1 DEF ReapRecords, caller
    <2>7. QED
      BY <2>2, <2>3, <2>4, <2>5, <2>6
  <1>4. ASSUME NEW c \in Child, ReapCleans(c)
        PROVE  IInv'
    <2>1. running' \in BOOLEAN /\ forwarded' \in BOOLEAN
      BY <1>4, Zenon DEF ReapCleans, caller, fields
    <2>2. TypeOK'
      BY <1>4, <2>1 DEF ReapCleans, caller, fields
    <2>3. (RunningIsNewest /\ ExitIsNewest)'
      BY <1>4, <2>1 DEF ReapCleans, caller, fields
    <2>4. StopInv'
      BY <1>4, <2>1 DEF ReapCleans, caller, fields
    <2>5. BoundInv'
      BY <1>4, <2>1 DEF ReapCleans, caller, fields
    <2>6. FilesInv'
      BY <1>4, <2>1 DEF ReapCleans, caller, fields
    <2>7. QED
      BY <2>2, <2>3, <2>4, <2>5, <2>6
  <1>5. QED
    BY <1>1, <1>2, <1>3, <1>4 DEF ChildStep

\* Calls and children are all there is.
LEMMA NextIInv == IInv /\ [Next]_vars => IInv'
  <1> SUFFICES ASSUME IInv, [Next]_vars PROVE IInv'
    OBVIOUS
  <1>1. CASE UNCHANGED vars
    BY <1>1 DEF vars, caller, fields, world, IInv, TypeOK, RunningIsNewest,
         ExitIsNewest, StopInv, BoundInv, FilesInv, Lives
  <1>2. CASE Call
    BY <1>2, CallKeepsIInv
  <1>3. CASE \E c \in Child : ChildStep(c)
    BY <1>3, ChildKeepsIInv
  <1>4. QED
    BY <1>1, <1>2, <1>3 DEF Next

-----------------------------------------------------------------------------
(* The theorems.                                                           *)

\* The strengthened invariant holds in every reachable state.
THEOREM Invariance == Spec => []IInv
  BY InitIInv, NextIInv, PTL DEF Spec

\* Every variable keeps its type, and only live children hold the listener.
THEOREM TypeCorrect == Spec => []TypeOK
  <1>1. IInv => TypeOK
    BY DEF IInv
  <1>2. QED
    BY <1>1, Invariance, PTL

\* The fields say running exactly while the last child started is owned and
\* not reaped.
THEOREM RunningIsNewestHolds == Spec => []RunningIsNewest
  <1>1. IInv => RunningIsNewest
    BY DEF IInv
  <1>2. QED
    BY <1>1, Invariance, PTL

\* No child is charged for the end of the one before, abandoned ones included.
THEOREM ExitIsNewestHolds == Spec => []ExitIsNewest
  <1>1. IInv => ExitIsNewest
    BY DEF IInv
  <1>2. QED
    BY <1>1, Invariance, PTL

\* A forwarded flag between calls is that of a child with the listener.
THEOREM ForwardedIsBoundHolds == Spec => []ForwardedIsBound
  <1>1. IInv => ForwardedIsBound
    BY DEF IInv, BoundInv, ForwardedIsBound, Forwarded
  <1>2. QED
    BY <1>1, Invariance, PTL

\* The done channel closes after the exit is there to be read.
THEOREM DoneAfterRecordHolds == Spec => []DoneAfterRecord
  <1>1. IInv => DoneAfterRecord
    BY DEF IInv, RunningIsNewest, StopInv, DoneAfterRecord, TargetDone, Lives
  <1>2. QED
    BY <1>1, Invariance, PTL

\* Control files never outlive their child and its reaper.
THEOREM NoStrayFilesHolds == Spec => []NoStrayFiles
  <1>1. IInv => NoStrayFiles
    BY DEF IInv, FilesInv, NoStrayFiles
  <1>2. QED
    BY <1>1, Invariance, PTL

-----------------------------------------------------------------------------
(* Refinement.                                                             *)

\* Every call of the owner is a step of OwnedChild or none.
LEMMA CallRefines == ASSUME IInv, Call PROVE [Abs!ChildNext]_Abs!childVars
  <1> USE BackendAssumption DEF IInv, TypeOK, RunningIsNewest, ExitIsNewest,
       StopInv, BoundInv, FilesInv, Lives, Stopping, Child, Life, absProc,
       Abs!childVars
  <1>1. ASSUME Start
        PROVE  [Abs!ChildNext]_Abs!childVars
    <2>1. Abs!Starts
      BY <1>1 DEF Start, caller, Abs!Starts
    <2>2. QED
      BY <2>1 DEF Abs!ChildNext
  <1>2. ASSUME ConsumeLastExit
        PROVE  [Abs!ChildNext]_Abs!childVars
    <2>1. Abs!IsTaken
      BY <1>2 DEF ConsumeLastExit, caller, world, Abs!IsTaken
    <2>2. QED
      BY <2>1 DEF Abs!ChildNext
  <1>3. ASSUME NEW answered \in BOOLEAN, ForwardBinds(answered)
        PROVE  [Abs!ChildNext]_Abs!childVars
    <2>1. Abs!Binds \/ UNCHANGED Abs!childVars
      BY <1>3 DEF ForwardBinds, fields, Answers, Abs!Binds
    <2>2. QED
      BY <2>1 DEF Abs!ChildNext
  <1>4. ASSUME ForwardNoted
        PROVE  [Abs!ChildNext]_Abs!childVars
    <2>1. Abs!Noted
      BY <1>4 DEF ForwardNoted, world, Abs!Noted
    <2>2. QED
      BY <2>1 DEF Abs!ChildNext
  <1>5. ASSUME StopBegins
        PROVE  [Abs!ChildNext]_Abs!childVars
    BY <1>5 DEF StopBegins, fields, world
  <1>6. ASSUME StopCancels
        PROVE  [Abs!ChildNext]_Abs!childVars
    <2>1. Abs!Unbinds \/ UNCHANGED Abs!childVars
      BY <1>6 DEF StopCancels, fields, Answers, Forwarded, Abs!Unbinds
    <2>2. QED
      BY <2>1 DEF Abs!ChildNext
  <1>7. ASSUME StopUnflags
        PROVE  [Abs!ChildNext]_Abs!childVars
    <2>1. Abs!Unnoted
      BY <1>7 DEF StopUnflags, world, Abs!Unnoted
    <2>2. QED
      BY <2>1 DEF Abs!ChildNext
  <1>8. ASSUME StopAsksExit
        PROVE  [Abs!ChildNext]_Abs!childVars
    BY <1>8 DEF StopAsksExit, fields, world, Answers
  <1>9. ASSUME StopWaits
        PROVE  [Abs!ChildNext]_Abs!childVars
    BY <1>9 DEF StopWaits, fields, world, AfterTimer, TargetDone
  <1>10. ASSUME StopTerminates
        PROVE  [Abs!ChildNext]_Abs!childVars
    BY <1>10 DEF StopTerminates, fields, world
  <1>11. ASSUME StopEnds
        PROVE  [Abs!ChildNext]_Abs!childVars
    <2>1. Abs!GivenUp
      BY <1>11 DEF StopEnds, Abs!GivenUp
    <2>2. QED
      BY <2>1 DEF Abs!ChildNext
  <1>12. QED
    BY <1>1, <1>2, <1>3, <1>4, <1>5, <1>6, <1>7, <1>8, <1>9, <1>10, <1>11 DEF
         Call, StopStep

\* So is every step of a child and its reaper; those of abandoned children are
\* none.
LEMMA ChildRefines ==
    ASSUME IInv, \E c \in Child : ChildStep(c)
    PROVE  [Abs!ChildNext]_Abs!childVars
  <1> USE BackendAssumption DEF IInv, TypeOK, RunningIsNewest, ExitIsNewest,
       StopInv, BoundInv, FilesInv, Lives, Stopping, Child, Life, absProc,
       Abs!childVars
  <1>1. ASSUME NEW c \in Child, ChildDies(c)
        PROVE  [Abs!ChildNext]_Abs!childVars
    <2>1. Abs!Exits \/ UNCHANGED Abs!childVars
      BY <1>1 DEF ChildDies, caller, fields, Abs!Exits
    <2>2. QED
      BY <2>1 DEF Abs!ChildNext
  <1>2. ASSUME NEW c \in Child, WaitReturns(c)
        PROVE  [Abs!ChildNext]_Abs!childVars
    BY <1>2 DEF WaitReturns, caller, fields
  <1>3. ASSUME NEW c \in Child, ReapRecords(c)
        PROVE  [Abs!ChildNext]_Abs!childVars
    <2>1. Abs!IsReaped \/ UNCHANGED Abs!childVars
      BY <1>3 DEF ReapRecords, caller, Abs!IsReaped
    <2>2. QED
      BY <2>1 DEF Abs!ChildNext
  <1>4. ASSUME NEW c \in Child, ReapCleans(c)
        PROVE  [Abs!ChildNext]_Abs!childVars
    BY <1>4 DEF ReapCleans, caller, fields
  <1>5. QED
    BY <1>1, <1>2, <1>3, <1>4 DEF ChildStep

\* The backend implements OwnedChild: what the supervisor sees as one child is
\* all of b.cmd, the reapers and the steps of Stop.
THEOREM BackendImplementsOwnedChild == Spec => ImplementsOwnedChild
  <1>1. Init => Abs!ChildInit
    BY DEF Init, Abs!ChildInit, absProc
  <1>2. IInv /\ [Next]_vars => [Abs!ChildNext]_Abs!childVars
    <2> SUFFICES ASSUME IInv, [Next]_vars PROVE [Abs!ChildNext]_Abs!childVars
      OBVIOUS
    <2>1. CASE UNCHANGED vars
      BY <2>1 DEF vars, caller, fields, world, Abs!childVars, absProc
    <2>2. CASE Call
      BY <2>2, CallRefines
    <2>3. CASE \E c \in Child : ChildStep(c)
      BY <2>3, ChildRefines
    <2>4. QED
      BY <2>1, <2>2, <2>3 DEF Next
  <1>3. QED
    BY <1>1, <1>2, Invariance, PTL DEF Spec, ImplementsOwnedChild, Abs!ChildSpec
=============================================================================
