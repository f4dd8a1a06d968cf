----------------------- MODULE TunnelSupervisorProofs -----------------------
(***************************************************************************)
(* Safety of TunnelSupervisor for every threshold, every bound and every    *)
(* choice of diagnoses.  The inductive invariant has three parts: the types, *)
(* how the child, the file and the program counter go together, and what    *)
(* the failure counter on disk has to say about the children that died.     *)
(***************************************************************************)
EXTENDS TunnelSupervisor, TLAPS

Resting == Calls \cup {"stopOk"}

\* The child's fields, and what each call may rely on when it is made.
ChildInv ==
    /\ proc = "none" => ~aged
    /\ bound => proc = "alive"
    /\ Running => exit = NoExit
    /\ proc = "alive" /\ forwarded => bound
    /\ pc \in {"off", "backoff", "local1", "start"} => proc = "none" /\ exit = NoExit
    /\ pc = "bootstrap" /\ proc = "none" => exit # NoExit
    /\ pc \in {"forwarded", "local2", "probe", "identity"} /\ proc = "alive" => bound

\* The file against the memory of the run that writes it.
DiskInv ==
    /\ pc # "off" => lastKey = <<disk.state, disk.failures>>
    /\ pc \in Resting => disk = [state |-> state, failures |-> failures]
    /\ pc = "start" => state = "starting"
    /\ pc # "off" /\ proc = "alive" /\ ~bound =>
          state # "healthy" /\ disk.state # "healthy"

Pending == IF Uncounted THEN 1 ELSE 0

\* What the counter on disk says about the children that died in a row.
CountInv ==
    /\ pc \in Resting => failures < CrashLoopThreshold
    /\ \/ disk.failures < CrashLoopThreshold
       \/ /\ disk.failures = CrashLoopThreshold
          /\ disk.state = "crash-loop"
    /\ disk.state = "crash-loop" =>
          pc \in {"stopErr", "off"} /\ proc = "none" /\ exit = NoExit
    /\ exit.aged => quick = 0
    /\ quick <= disk.failures + lost + Pending

IInv == TypeOK /\ ChildInv /\ DiskInv /\ CountInv

-----------------------------------------------------------------------------
(* Facts about the operators.                                              *)

\* NoExit is not the exit of a child.
LEMMA ExitFacts ==
    /\ NoExit.aged = FALSE /\ NoExit.cause = "none"
    /\ \A e \in Exit : e.aged \in BOOLEAN /\ e.cause \in ExitCause /\ e # NoExit
  <1>1. NoExit.aged = FALSE /\ NoExit.cause = "none"
    BY DEF NoExit
  <1>2. ASSUME NEW e \in Exit
        PROVE  e.aged \in BOOLEAN /\ e.cause \in ExitCause /\ e # NoExit
    <2>1. e.aged \in BOOLEAN /\ e.cause \in ExitCause
      BY DEF Exit
    <2>2. e.cause # "none"
      BY <2>1 DEF ExitCause, Attention
    <2>3. QED
      BY <1>1, <2>1, <2>2
  <1>3. QED
    BY <1>1, <1>2

\* The exit reap records says how old the child was and why it ended.
LEMMA ExitOfFacts ==
    ASSUME aged \in BOOLEAN, NEW c \in ExitCause
    PROVE  /\ ExitOf(c) \in Exit
           /\ ExitOf(c).aged = aged /\ ExitOf(c).cause = c
  BY DEF ExitOf, Exit

-----------------------------------------------------------------------------
(* The invariant holds at first and every step keeps it.                   *)

\* Before the first run nothing is running and nothing is counted.
LEMMA InitIInv == Init => IInv
  <1> SUFFICES ASSUME Init PROVE IInv
    OBVIOUS
  <1>1. cancelled \in BOOLEAN /\ aged \in BOOLEAN /\ bound \in BOOLEAN
          /\ forwarded \in BOOLEAN
    BY Zenon DEF Init
  <1>2. disk \in File /\ lastKey = NoKey /\ exit = NoExit
    BY DEF Init, File
  <1>3. TypeOK
    <2>1. /\ pc \in Calls \cup Ending \cup {"off"} /\ state \in State
          /\ proc \in {"none", "alive", "dead"}
          /\ healthySince \in {"zero", "recent", "stable"}
      BY DEF Init, State
    <2>2. /\ failures \in 0 .. CrashLoopThreshold /\ retryFailures \in 0 .. MaxRetry
          /\ quick \in Nat /\ lost \in Nat
      BY SupervisorAssumption DEF Init
    <2>3. QED
      BY <1>1, <1>2, <2>1, <2>2, Zenon DEF TypeOK
  <1>4. ChildInv
    BY DEF Init, ChildInv, Running
  <1>5. DiskInv
    BY DEF Init, DiskInv, Resting, Calls
  <1>6. CountInv
    BY SupervisorAssumption, ExitFacts
    DEF Init, CountInv, Resting, Calls, Pending, Uncounted
  <1>7. QED
    BY <1>3, <1>4, <1>5, <1>6 DEF IInv

QuietStep ==
    \/ LoopEnds
    \/ LoopKeepsChild
    \/ LoopWithoutExit
    \/ SleepEnds
    \/ LocalReadyToProbe
    \/ BootstrapReady
    \/ BootstrapCancelled
    \/ AlreadyForwarded
    \/ ForwardBinds
    \/ ForwardNoted
    \/ CallCancelled
    \/ ProbeHealthy

TransitionStep ==
    \/ \E s \in LocalTrouble, saved \in BOOLEAN : LocalNotReady(s, saved)
    \/ \E s \in LocalFatal, saved \in BOOLEAN : LocalFails(s, saved)
    \/ \E saved \in BOOLEAN : LocalReadyToStart(saved)
    \/ \E saved \in BOOLEAN : ForwardConflicts(saved)
    \/ \E s \in RemoteTrouble \cup {"remote-unknown"}, saved \in BOOLEAN :
          ProbeFinds(s, saved)
    \/ \E s \in IdentityTrouble \cup {"remote-unknown"}, saved \in BOOLEAN :
          IdentityFinds(s, saved)
    \/ \E saved \in BOOLEAN : IdentityDiffers(saved)
    \/ \E saved \in BOOLEAN : ObserveHealthy(saved)

FailureStep ==
    \/ \E saved \in BOOLEAN : LoopTakesExit(saved)
    \/ \E saved \in BOOLEAN : StartFails(saved)
    \/ \E r \in BOOLEAN, c \in ExitCause, saved \in BOOLEAN : BootstrapFails(r, c, saved)
    \/ \E saved \in BOOLEAN : ForwardFails(saved)
    \/ \E r \in BOOLEAN, c \in ExitCause : CheckFails(r, c)

LifeStep ==
    \/ StartChild
    \/ ShutdownOnError
    \/ \E saved \in BOOLEAN : ShutdownClean(saved)
    \/ \E reset \in BOOLEAN, saved \in BOOLEAN : Launch(reset, saved)
    \/ Crash

WorldStep ==
    \/ \E c \in ExitCause : Reap(c)
    \/ ChildExits
    \/ ChildAges
    \/ SpellAges
    \/ Cancel

\* A step of the goroutine that moves on without writing anything.
LEMMA QuietStepKeepsIInv == ASSUME IInv, QuietStep PROVE IInv'
  <1> USE SupervisorAssumption DEF State, Calls, Ending, Key, NoKey, File,
       TypeOK, Running, Uncounted, Resting, ChildInv, DiskInv, Pending,
       CountInv, IInv
  <1>1. ASSUME LoopEnds
        PROVE  IInv'
    BY <1>1 DEF mem, stored, child, ghosts, LoopGoesOn, LoopEnds
  <1>2. ASSUME LoopKeepsChild
        PROVE  IInv'
    <2>1. /\ aged' \in BOOLEAN /\ bound' \in BOOLEAN
          /\ forwarded' \in BOOLEAN /\ cancelled' \in BOOLEAN
      BY <1>2, Zenon DEF child, LoopKeepsChild
    <2>2. TypeOK'
      BY <1>2, <2>1, ExitFacts DEF mem, stored, child, ghosts, LoopGoesOn,
           LoopKeepsChild
    <2>3. ChildInv'
      BY <1>2, <2>1, ExitFacts DEF mem, stored, child, ghosts, LoopGoesOn,
           LoopKeepsChild
    <2>4. DiskInv'
      BY <1>2, <2>1, ExitFacts DEF mem, stored, child, ghosts, LoopGoesOn,
           LoopKeepsChild
    <2>5. CountInv'
      BY <1>2, <2>1, ExitFacts DEF mem, stored, child, ghosts, LoopGoesOn,
           LoopKeepsChild
    <2>6. QED
      BY <2>2, <2>3, <2>4, <2>5
  <1>3. ASSUME LoopWithoutExit
        PROVE  IInv'
    BY <1>3 DEF mem, stored, child, ghosts, LoopGoesOn, LoopWithoutExit
  <1>4. ASSUME SleepEnds
        PROVE  IInv'
    BY <1>4 DEF mem, stored, child, ghosts, SleepEnds
  <1>5. ASSUME LocalReadyToProbe
        PROVE  IInv'
    BY <1>5 DEF mem, stored, child, ghosts, LocalReadyToProbe
  <1>6. ASSUME BootstrapReady
        PROVE  IInv'
    BY <1>6 DEF mem, stored, child, ghosts, BootstrapReady
  <1>7. ASSUME BootstrapCancelled
        PROVE  IInv'
    BY <1>7 DEF mem, stored, child, ghosts, BootstrapCancelled
  <1>8. ASSUME AlreadyForwarded
        PROVE  IInv'
    BY <1>8 DEF mem, stored, child, ghosts, Forwarded, AlreadyForwarded
  <1>9. ASSUME ForwardBinds
        PROVE  IInv'
    BY <1>9 DEF mem, stored, ghosts, Forwarded, ForwardBinds
  <1>10. ASSUME ForwardNoted
        PROVE  IInv'
    BY <1>10 DEF mem, stored, ghosts, ForwardNoted
  <1>11. ASSUME CallCancelled
        PROVE  IInv'
    BY <1>11 DEF mem, stored, child, ghosts, Forwarded, CallCancelled
  <1>12. ASSUME ProbeHealthy
        PROVE  IInv'
    BY <1>12 DEF mem, stored, child, ghosts, ProbeHealthy
  <1>13. QED
    BY <1>1, <1>2, <1>3, <1>4, <1>5, <1>6, <1>7, <1>8, <1>9, <1>10, <1>11,
         <1>12 DEF QuietStep

\* A step that records a diagnosis.
LEMMA TransitionStepKeepsIInv == ASSUME IInv, TransitionStep PROVE IInv'
  <1> USE SupervisorAssumption DEF State, Calls, Ending, Key, NoKey, File,
       TypeOK, Running, Uncounted, Resting, ChildInv, DiskInv, Pending,
       CountInv, IInv
  <1>1. ASSUME NEW s \in LocalTrouble, NEW saved \in BOOLEAN,
              LocalNotReady(s, saved)
        PROVE  IInv'
    BY <1>1 DEF stored, child, Mishap, PersistKey, Persist, Transition,
         LocalNotReady
  <1>2. ASSUME NEW s \in LocalFatal, NEW saved \in BOOLEAN,
              LocalFails(s, saved)
        PROVE  IInv'
    BY <1>2 DEF stored, child, LocalFatal, Mishap, PersistKey, Persist,
         Transition, LocalFails
  <1>3. ASSUME NEW saved \in BOOLEAN, LocalReadyToStart(saved)
        PROVE  IInv'
    BY <1>3 DEF stored, child, Mishap, PersistKey, Persist, Transition,
         LocalReadyToStart
  <1>4. ASSUME NEW saved \in BOOLEAN, ForwardConflicts(saved)
        PROVE  IInv'
    BY <1>4 DEF stored, child, Forwarded, Mishap, PersistKey, Persist,
         Transition, ForwardConflicts
  <1>5. ASSUME NEW s \in RemoteTrouble \cup {"remote-unknown"},
              NEW saved \in BOOLEAN, ProbeFinds(s, saved)
        PROVE  IInv'
    BY <1>5 DEF stored, child, Mishap, PersistKey, Persist, Transition,
         ProbeFinds
  <1>6. ASSUME NEW s \in IdentityTrouble \cup {"remote-unknown"},
              NEW saved \in BOOLEAN, IdentityFinds(s, saved)
        PROVE  IInv'
    BY <1>6 DEF stored, child, Mishap, PersistKey, Persist, Transition,
         IdentityFinds
  <1>7. ASSUME NEW saved \in BOOLEAN, IdentityDiffers(saved)
        PROVE  IInv'
    BY <1>7 DEF stored, child, Mishap, PersistKey, Persist, Transition,
         IdentityDiffers
  <1>8. ASSUME NEW saved \in BOOLEAN, ObserveHealthy(saved)
        PROVE  IInv'
    BY <1>8 DEF stored, child, Mishap, PersistKey, Persist, ObserveHealthy
  <1>9. QED
    BY <1>1, <1>2, <1>3, <1>4, <1>5, <1>6, <1>7, <1>8 DEF TransitionStep

\* A step that counts a failed start, or leaves an exit to be counted.
LEMMA FailureStepKeepsIInv == ASSUME IInv, FailureStep PROVE IInv'
  <1> USE SupervisorAssumption DEF State, Calls, Ending, Key, NoKey, File,
       TypeOK, Running, Uncounted, Resting, ChildInv, DiskInv, Pending,
       CountInv, IInv
  <1>1. ASSUME NEW saved \in BOOLEAN, LoopTakesExit(saved)
        PROVE  IInv'
    <2>1. /\ aged' \in BOOLEAN /\ bound' \in BOOLEAN
          /\ forwarded' \in BOOLEAN /\ cancelled' \in BOOLEAN
      BY <1>1, Zenon DEF child, LoopTakesExit
    <2>2. TypeOK'
      BY <1>1, <2>1, ExitFacts DEF mem, stored, child, ghosts, Attention,
           ExitCause, Fresh, Forwarded, Mishap, PersistKey, Persist,
           Transition, FailuresAfter, RetryAfter, StateAfter,
           RecordStartFailure, NoChild, QuickAfter, LoopGoesOn, LoopTakesExit
    <2>3. ChildInv'
      BY <1>1, <2>1, ExitFacts DEF stored, Attention, Mishap, PersistKey,
           Persist, FailuresAfter, RetryAfter, StateAfter, RecordStartFailure,
           LoopGoesOn, LoopTakesExit
    <2>4. DiskInv'
      BY <1>1, <2>1, ExitFacts DEF stored, Attention, Mishap, PersistKey,
           Persist, FailuresAfter, RetryAfter, StateAfter, RecordStartFailure,
           LoopGoesOn, LoopTakesExit
    <2>5. CountInv'
      BY <1>1, <2>1, ExitFacts DEF stored, Attention, Mishap, PersistKey,
           Persist, FailuresAfter, RetryAfter, StateAfter, RecordStartFailure,
           LoopGoesOn, LoopTakesExit
    <2>6. QED
      BY <2>2, <2>3, <2>4, <2>5
  <1>2. ASSUME NEW saved \in BOOLEAN, StartFails(saved)
        PROVE  IInv'
    <2>1. /\ aged' \in BOOLEAN /\ bound' \in BOOLEAN
          /\ forwarded' \in BOOLEAN /\ cancelled' \in BOOLEAN
      BY <1>2, Zenon DEF child, StartFails
    <2>2. TypeOK'
      BY <1>2, <2>1, ExitFacts DEF stored, child, Attention, Mishap,
           PersistKey, Persist, FailuresAfter, RetryAfter, StateAfter,
           RecordStartFailure, StartFails
    <2>3. ChildInv'
      BY <1>2, <2>1, ExitFacts DEF stored, child, Attention, Mishap,
           PersistKey, Persist, FailuresAfter, RetryAfter, StateAfter,
           RecordStartFailure, StartFails
    <2>4. DiskInv'
      BY <1>2, <2>1, ExitFacts DEF stored, child, Attention, Mishap,
           PersistKey, Persist, FailuresAfter, RetryAfter, StateAfter,
           RecordStartFailure, StartFails
    <2>5. CountInv'
      BY <1>2, <2>1, ExitFacts DEF stored, child, Attention, Mishap,
           PersistKey, Persist, FailuresAfter, RetryAfter, StateAfter,
           RecordStartFailure, StartFails
    <2>6. QED
      BY <2>2, <2>3, <2>4, <2>5
  <1>3. ASSUME NEW r \in BOOLEAN, NEW c \in ExitCause, NEW saved \in BOOLEAN,
              BootstrapFails(r, c, saved)
        PROVE  IInv'
    <2>1. /\ aged' \in BOOLEAN /\ bound' \in BOOLEAN
          /\ forwarded' \in BOOLEAN /\ cancelled' \in BOOLEAN
      BY <1>3, Zenon DEF child, NoChild, BootstrapFails
    <2>2. TypeOK'
      BY <1>3, <2>1, ExitFacts, ExitOfFacts DEF mem, stored, child, ghosts,
           Attention, ExitCause, Fresh, Forwarded, Mishap, PersistKey,
           Persist, Transition, FailuresAfter, RetryAfter, StateAfter,
           RecordStartFailure, NoChild, QuickAfter, LoopGoesOn, BootstrapFails
    <2>3. ChildInv'
      BY <1>3, <2>1, ExitFacts, ExitOfFacts DEF stored, Attention, Mishap,
           PersistKey, Persist, FailuresAfter, RetryAfter, StateAfter,
           RecordStartFailure, NoChild, QuickAfter, BootstrapFails
    <2>4. DiskInv'
      BY <1>3, <2>1, ExitFacts, ExitOfFacts DEF stored, Attention, Mishap,
           PersistKey, Persist, FailuresAfter, RetryAfter, StateAfter,
           RecordStartFailure, NoChild, QuickAfter, BootstrapFails
    <2>5. CountInv'
      BY <1>3, <2>1, ExitFacts, ExitOfFacts DEF stored, Attention, Mishap,
           PersistKey, Persist, FailuresAfter, RetryAfter, StateAfter,
           RecordStartFailure, NoChild, QuickAfter, BootstrapFails
    <2>6. QED
      BY <2>2, <2>3, <2>4, <2>5
  <1>4. ASSUME NEW saved \in BOOLEAN, ForwardFails(saved)
        PROVE  IInv'
    <2>1. /\ aged' \in BOOLEAN /\ bound' \in BOOLEAN
          /\ forwarded' \in BOOLEAN /\ cancelled' \in BOOLEAN
      BY <1>4, Zenon DEF child, NoChild, ForwardFails
    <2>2. TypeOK'
      BY <1>4, <2>1, ExitFacts DEF stored, Attention, Forwarded, Mishap,
           PersistKey, Persist, FailuresAfter, RetryAfter, StateAfter,
           RecordStartFailure, NoChild, QuickAfter, ForwardFails
    <2>3. ChildInv'
      BY <1>4, <2>1, ExitFacts DEF stored, Attention, Forwarded, Mishap,
           PersistKey, Persist, FailuresAfter, RetryAfter, StateAfter,
           RecordStartFailure, NoChild, QuickAfter, ForwardFails
    <2>4. DiskInv'
      BY <1>4, <2>1, ExitFacts DEF stored, Attention, Forwarded, Mishap,
           PersistKey, Persist, FailuresAfter, RetryAfter, StateAfter,
           RecordStartFailure, NoChild, QuickAfter, ForwardFails
    <2>5. CountInv'
      BY <1>4, <2>1, ExitFacts DEF stored, Attention, Forwarded, Mishap,
           PersistKey, Persist, FailuresAfter, RetryAfter, StateAfter,
           RecordStartFailure, NoChild, QuickAfter, ForwardFails
    <2>6. QED
      BY <2>2, <2>3, <2>4, <2>5
  <1>5. ASSUME NEW r \in BOOLEAN, NEW c \in ExitCause, CheckFails(r, c)
        PROVE  IInv'
    <2>1. /\ aged' \in BOOLEAN /\ bound' \in BOOLEAN
          /\ forwarded' \in BOOLEAN /\ cancelled' \in BOOLEAN
      BY <1>5, Zenon DEF child, NoChild, CheckFails
    <2>2. TypeOK'
      BY <1>5, <2>1, ExitFacts, ExitOfFacts DEF mem, stored, Attention,
           Mishap, NoChild, QuickAfter, CheckFails
    <2>3. ChildInv'
      BY <1>5, <2>1, ExitFacts, ExitOfFacts DEF mem, stored, Attention,
           Mishap, NoChild, QuickAfter, CheckFails
    <2>4. DiskInv'
      BY <1>5, <2>1, ExitFacts, ExitOfFacts DEF mem, stored, Attention,
           Mishap, NoChild, QuickAfter, CheckFails
    <2>5. CountInv'
      BY <1>5, <2>1, ExitFacts, ExitOfFacts DEF mem, stored, child, ghosts,
           Attention, ExitCause, Fresh, Forwarded, Mishap, PersistKey,
           Persist, Transition, FailuresAfter, RetryAfter, StateAfter,
           RecordStartFailure, NoChild, QuickAfter, LoopGoesOn, CheckFails
    <2>6. QED
      BY <2>2, <2>3, <2>4, <2>5
  <1>6. QED
    BY <1>1, <1>2, <1>3, <1>4, <1>5 DEF FailureStep

\* A step that begins or ends a child or a run.
LEMMA LifeStepKeepsIInv == ASSUME IInv, LifeStep PROVE IInv'
  <1> USE SupervisorAssumption DEF State, Calls, Ending, Key, NoKey, File,
       TypeOK, Running, Uncounted, Resting, ChildInv, DiskInv, Pending,
       CountInv, IInv
  <1>1. ASSUME StartChild
        PROVE  IInv'
    <2>1. /\ aged' \in BOOLEAN /\ bound' \in BOOLEAN
          /\ forwarded' \in BOOLEAN /\ cancelled' \in BOOLEAN
      BY <1>1, Zenon DEF child, StartChild
    <2>2. TypeOK'
      BY <1>1, <2>1, ExitFacts DEF mem, stored, ghosts, StartChild
    <2>3. ChildInv'
      BY <1>1, <2>1, ExitFacts DEF mem, stored, ghosts, StartChild
    <2>4. DiskInv'
      BY <1>1, <2>1, ExitFacts DEF mem, stored, ghosts, StartChild
    <2>5. CountInv'
      BY <1>1, <2>1, ExitFacts DEF mem, stored, ghosts, StartChild
    <2>6. QED
      BY <2>2, <2>3, <2>4, <2>5
  <1>2. ASSUME ShutdownOnError
        PROVE  IInv'
    <2>1. /\ aged' \in BOOLEAN /\ bound' \in BOOLEAN
          /\ forwarded' \in BOOLEAN /\ cancelled' \in BOOLEAN
      BY <1>2, Zenon DEF child, NoChild, ShutdownOnError
    <2>2. TypeOK'
      BY <1>2, <2>1, ExitFacts DEF mem, stored, NoChild, ShutdownOnError
    <2>3. ChildInv'
      BY <1>2, <2>1, ExitFacts DEF mem, stored, NoChild, ShutdownOnError
    <2>4. DiskInv'
      BY <1>2, <2>1, ExitFacts DEF mem, stored, NoChild, ShutdownOnError
    <2>5. CountInv'
      BY <1>2, <2>1, ExitFacts DEF mem, stored, NoChild, ShutdownOnError
    <2>6. QED
      BY <2>2, <2>3, <2>4, <2>5
  <1>3. ASSUME NEW saved \in BOOLEAN, ShutdownClean(saved)
        PROVE  IInv'
    <2>1. /\ aged' \in BOOLEAN /\ bound' \in BOOLEAN
          /\ forwarded' \in BOOLEAN /\ cancelled' \in BOOLEAN
      BY <1>3, Zenon DEF child, NoChild, ShutdownClean
    <2>2. TypeOK'
      BY <1>3, <2>1, ExitFacts DEF stored, PersistKey, NoChild, ShutdownClean
    <2>3. ChildInv'
      BY <1>3, <2>1, ExitFacts DEF stored, PersistKey, NoChild, ShutdownClean
    <2>4. DiskInv'
      BY <1>3, <2>1, ExitFacts DEF stored, PersistKey, NoChild, ShutdownClean
    <2>5. CountInv'
      BY <1>3, <2>1, ExitFacts DEF stored, PersistKey, NoChild, ShutdownClean
    <2>6. QED
      BY <2>2, <2>3, <2>4, <2>5
  <1>4. ASSUME NEW reset \in BOOLEAN, NEW saved \in BOOLEAN,
              Launch(reset, saved)
        PROVE  IInv'
    <2>1. /\ aged' \in BOOLEAN /\ bound' \in BOOLEAN
          /\ forwarded' \in BOOLEAN /\ cancelled' \in BOOLEAN
      BY <1>4, Zenon DEF child, NoChild, Launch
    <2>2. TypeOK'
      BY <1>4, <2>1, ExitFacts DEF ghosts, Fresh, PersistKey, NoChild, Usable,
           BootRecord, BootFailures, Forgiven, Launch
    <2>3. ChildInv'
      BY <1>4, <2>1, ExitFacts DEF ghosts, Fresh, PersistKey, NoChild, Usable,
           BootRecord, BootFailures, Forgiven, Launch
    <2>4. DiskInv'
      BY <1>4, <2>1, ExitFacts DEF ghosts, Fresh, PersistKey, NoChild, Usable,
           BootRecord, BootFailures, Forgiven, Launch
    <2>5. CountInv'
      BY <1>4, <2>1, ExitFacts DEF ghosts, Fresh, PersistKey, NoChild, Usable,
           BootRecord, BootFailures, Forgiven, Launch
    <2>6. QED
      BY <2>2, <2>3, <2>4, <2>5
  <1>5. ASSUME Crash
        PROVE  IInv'
    <2>1. /\ aged' \in BOOLEAN /\ bound' \in BOOLEAN
          /\ forwarded' \in BOOLEAN /\ cancelled' \in BOOLEAN
      BY <1>5, Zenon DEF child, NoChild, Crash
    <2>2. TypeOK'
      BY <1>5, <2>1, ExitFacts DEF mem, stored, Mishap, NoChild, Crash
    <2>3. ChildInv'
      BY <1>5, <2>1, ExitFacts DEF mem, stored, Mishap, NoChild, Crash
    <2>4. DiskInv'
      BY <1>5, <2>1, ExitFacts DEF mem, stored, Mishap, NoChild, Crash
    <2>5. CountInv'
      BY <1>5, <2>1, ExitFacts DEF mem, stored, Mishap, NoChild, Crash
    <2>6. QED
      BY <2>2, <2>3, <2>4, <2>5
  <1>6. QED
    BY <1>1, <1>2, <1>3, <1>4, <1>5 DEF LifeStep

\* A step of the child, its reaper, the clock or the user.
LEMMA WorldStepKeepsIInv == ASSUME IInv, WorldStep PROVE IInv'
  <1> USE SupervisorAssumption DEF State, Calls, Ending, Key, NoKey, File,
       TypeOK, Running, Uncounted, Resting, ChildInv, DiskInv, Pending,
       CountInv, IInv
  <1>1. ASSUME NEW c \in ExitCause, Reap(c)
        PROVE  IInv'
    <2>1. /\ aged' \in BOOLEAN /\ bound' \in BOOLEAN
          /\ forwarded' \in BOOLEAN /\ cancelled' \in BOOLEAN
      BY <1>1, Zenon DEF child, NoChild, Reap
    <2>2. TypeOK'
      BY <1>1, <2>1, ExitFacts, ExitOfFacts DEF mem, stored, Attention,
           NoChild, QuickAfter, Reap
    <2>3. ChildInv'
      BY <1>1, <2>1, ExitFacts, ExitOfFacts DEF mem, stored, Attention,
           NoChild, QuickAfter, Reap
    <2>4. DiskInv'
      BY <1>1, <2>1, ExitFacts, ExitOfFacts DEF mem, stored, Attention,
           NoChild, QuickAfter, Reap
    <2>5. CountInv'
      BY <1>1, <2>1, ExitFacts, ExitOfFacts DEF mem, stored, child, ghosts,
           Attention, ExitCause, Fresh, Forwarded, Mishap, PersistKey,
           Persist, Transition, FailuresAfter, RetryAfter, StateAfter,
           RecordStartFailure, NoChild, QuickAfter, LoopGoesOn, Reap
    <2>6. QED
      BY <2>2, <2>3, <2>4, <2>5
  <1>2. ASSUME ChildExits
        PROVE  IInv'
    <2>1. /\ aged' \in BOOLEAN /\ bound' \in BOOLEAN
          /\ forwarded' \in BOOLEAN /\ cancelled' \in BOOLEAN
      BY <1>2, Zenon DEF child, ChildExits
    <2>2. TypeOK'
      BY <1>2, <2>1, ExitFacts DEF mem, stored, ghosts, ChildExits
    <2>3. ChildInv'
      BY <1>2, <2>1, ExitFacts DEF mem, stored, ghosts, ChildExits
    <2>4. DiskInv'
      BY <1>2, <2>1, ExitFacts DEF mem, stored, ghosts, ChildExits
    <2>5. CountInv'
      BY <1>2, <2>1, ExitFacts DEF mem, stored, ghosts, ChildExits
    <2>6. QED
      BY <2>2, <2>3, <2>4, <2>5
  <1>3. ASSUME ChildAges
        PROVE  IInv'
    BY <1>3 DEF mem, stored, ghosts, ChildAges
  <1>4. ASSUME SpellAges
        PROVE  IInv'
    BY <1>4 DEF stored, child, ghosts, SpellAges
  <1>5. ASSUME Cancel
        PROVE  IInv'
    BY <1>5 DEF mem, stored, child, ghosts, Cancel
  <1>6. QED
    BY <1>1, <1>2, <1>3, <1>4, <1>5 DEF WorldStep

\* The five kinds of steps are all there are.
LEMMA NextIInv == IInv /\ [Next]_vars => IInv'
  <1> SUFFICES ASSUME IInv, [Next]_vars PROVE IInv'
    OBVIOUS
  <1>1. CASE UNCHANGED vars
    BY <1>1 DEF vars, mem, stored, child, ghosts, IInv, TypeOK, ChildInv, DiskInv,
         CountInv, Resting, Running, Pending, Uncounted
  <1>2. CASE SupervisorStep
    <2>1. QuietStep \/ TransitionStep \/ FailureStep \/ LifeStep
      BY <1>2 DEF SupervisorStep, QuietStep, TransitionStep, FailureStep, LifeStep
    <2>2. QED
      BY <2>1, QuietStepKeepsIInv, TransitionStepKeepsIInv, FailureStepKeepsIInv,
         LifeStepKeepsIInv
  <1>3. CASE \E cause \in ExitCause : Reap(cause)
    BY <1>3, WorldStepKeepsIInv DEF WorldStep
  <1>4. CASE Environment
    <2>1. WorldStep \/ LifeStep
      BY <1>4 DEF Environment, WorldStep, LifeStep
    <2>2. QED
      BY <2>1, WorldStepKeepsIInv, LifeStepKeepsIInv
  <1>5. QED
    BY <1>1, <1>2, <1>3, <1>4 DEF Next

-----------------------------------------------------------------------------
(* The theorems.                                                           *)

\* The strengthened invariant holds in every reachable state.
THEOREM Invariance == Spec => []IInv
  BY InitIInv, NextIInv, PTL DEF Spec

\* Every variable keeps its type; the failure counter never passes the
\* threshold.
THEOREM TypeCorrect == Spec => []TypeOK
  <1>1. IInv => TypeOK
    BY DEF IInv
  <1>2. QED
    BY <1>1, Invariance, PTL

\* A running supervisor calls no tunnel healthy whose child never bound the
\* remote port, in memory or on disk.
THEOREM HealthyHasForwardHolds == Spec => []HealthyHasForward
  <1>1. IInv => HealthyHasForward
    BY DEF IInv, TypeOK, DiskInv, HealthyHasForward
  <1>2. QED
    BY <1>1, Invariance, PTL

\* No way out of Run leaves a child behind.
THEOREM IdleOwnsNothingHolds == Spec => []IdleOwnsNothing
  <1>1. IInv => IdleOwnsNothing
    BY DEF IInv, ChildInv, IdleOwnsNothing
  <1>2. QED
    BY <1>1, Invariance, PTL

\* The file never lags behind a run that goes on.
THEOREM DiskTracksMemoryHolds == Spec => []DiskTracksMemory
  <1>1. IInv => DiskTracksMemory
    BY DEF IInv, TypeOK, DiskInv, DiskTracksMemory, Resting, Ending
  <1>2. QED
    BY <1>1, Invariance, PTL

\* However runs and crashes follow one another, quick failures in a row are
\* bounded by the threshold and the mishaps.
THEOREM BreakerBoundHolds == Spec => []BreakerBound
  <1>1. ASSUME IInv PROVE BreakerBound
    <2>1. Pending = 0 \/ disk.failures < CrashLoopThreshold
      BY <1>1, ExitFacts DEF IInv, CountInv, Pending, Uncounted
    <2>2. disk.failures \in Nat /\ quick \in Nat /\ lost \in Nat
      BY <1>1 DEF IInv, TypeOK, File
    <2>3. quick <= disk.failures + lost + Pending
      BY <1>1 DEF IInv, CountInv
    <2>4. disk.failures <= CrashLoopThreshold
      BY <1>1, <2>2, SupervisorAssumption DEF IInv, CountInv
    <2>5. QED
      BY <2>1, <2>2, <2>3, <2>4, SupervisorAssumption DEF BreakerBound, Pending
  <1>2. QED
    BY <1>1, Invariance, PTL

\* An open breaker is closed by a reset and nothing else.
THEOREM BreakerStaysOpenHolds == Spec => BreakerStaysOpen
  <1> DEFINE Closed ==
        disk.state = "crash-loop" =>
          \/ disk' = disk /\ (proc' = "alive" => proc = "alive")
          \/ disk' \in {Fresh, [Fresh EXCEPT !.state = "starting"]}
  <1>1. ASSUME IInv, [Next]_vars PROVE Closed
    <2> SUFFICES ASSUME disk.state = "crash-loop" PROVE Closed
      OBVIOUS
    <2>1. pc \in {"stopErr", "off"} /\ proc = "none"
      BY <1>1 DEF IInv, CountInv
    <2>2. CASE UNCHANGED vars
      BY <2>2 DEF vars, stored, child
    <2>3. CASE pc = "stopErr" /\ Next
      <3>1. proc' = "none" /\ disk' = disk
        BY <2>1, <2>3 DEF mem, stored, child, ghosts, ExitCause, NoKey,
             Running, Forwarded, Mishap, PersistKey, Persist, Transition,
             FailuresAfter, RetryAfter, StateAfter, RecordStartFailure,
             NoChild, QuickAfter, Uncounted, Launch, LoopGoesOn, LoopEnds,
             LoopKeepsChild, LoopTakesExit, LoopWithoutExit, SleepEnds,
             LocalNotReady, LocalFails, LocalReadyToStart, LocalReadyToProbe,
             StartChild, StartFails, BootstrapReady, BootstrapCancelled,
             BootstrapFails, AlreadyForwarded, ForwardBinds, ForwardNoted,
             ForwardConflicts, ForwardFails, CallCancelled, CheckFails,
             ProbeFinds, ProbeHealthy, IdentityFinds, IdentityDiffers,
             ObserveHealthy, ShutdownOnError, ShutdownClean, SupervisorStep,
             ChildExits, Reap, ChildAges, SpellAges, Cancel, Crash,
             Environment, Next
      <3>2. QED
        BY <3>1
    <2>4. CASE pc = "off" /\ Next
      <3>1. PICK reset \in BOOLEAN, saved \in BOOLEAN : Launch(reset, saved)
        BY <2>1, <2>4 DEF mem, stored, child, ghosts, ExitCause, NoKey,
             Running, Mishap, NoChild, Uncounted, LoopGoesOn, LoopEnds,
             LoopKeepsChild, LoopTakesExit, LoopWithoutExit, SleepEnds,
             LocalNotReady, LocalFails, LocalReadyToStart, LocalReadyToProbe,
             StartChild, StartFails, BootstrapReady, BootstrapCancelled,
             BootstrapFails, AlreadyForwarded, ForwardBinds, ForwardNoted,
             ForwardConflicts, ForwardFails, CallCancelled, CheckFails,
             ProbeFinds, ProbeHealthy, IdentityFinds, IdentityDiffers,
             ObserveHealthy, ShutdownOnError, ShutdownClean, SupervisorStep,
             ChildExits, Reap, ChildAges, SpellAges, Cancel, Crash,
             Environment, Next
      <3>2. reset = TRUE
        BY <3>1 DEF Launch, Usable, BootRecord
      <3>3. disk' \in {Fresh, [Fresh EXCEPT !.state = "starting"]}
        BY <3>1, <3>2 DEF Launch, BootRecord, BootFailures, Fresh
      <3>4. QED
        BY <3>3
    <2>5. QED
      BY <1>1, <2>1, <2>2, <2>3, <2>4
  <1>2. QED
    BY <1>1, Invariance, PTL DEF Spec, BreakerStaysOpen

-----------------------------------------------------------------------------
(* The supervisor stays within OwnedChild.                                 *)

\* The steps that leave the child, its flag and its exit alone.
ChildUntouched ==
    \/ LoopEnds
    \/ LoopKeepsChild
    \/ LoopWithoutExit
    \/ SleepEnds
    \/ LocalReadyToProbe
    \/ BootstrapReady
    \/ BootstrapCancelled
    \/ AlreadyForwarded
    \/ CallCancelled
    \/ ProbeHealthy
    \/ \E s \in LocalTrouble, saved \in BOOLEAN : LocalNotReady(s, saved)
    \/ \E s \in LocalFatal, saved \in BOOLEAN : LocalFails(s, saved)
    \/ \E saved \in BOOLEAN : LocalReadyToStart(saved)
    \/ \E saved \in BOOLEAN : ForwardConflicts(saved)
    \/ \E s \in RemoteTrouble \cup {"remote-unknown"}, saved \in BOOLEAN :
          ProbeFinds(s, saved)
    \/ \E s \in IdentityTrouble \cup {"remote-unknown"}, saved \in BOOLEAN :
          IdentityFinds(s, saved)
    \/ \E saved \in BOOLEAN : IdentityDiffers(saved)
    \/ \E saved \in BOOLEAN : ObserveHealthy(saved)
    \/ \E saved \in BOOLEAN : StartFails(saved)
    \/ ChildAges
    \/ SpellAges
    \/ Cancel

\* Steps that move the child or its flag are steps of OwnedChild, all others
\* leave its variables alone.
LEMMA NextStaysWithin ==
    ASSUME IInv, [Next]_vars
    PROVE  [Owned!ChildNext]_Owned!childVars
  <1> USE DEF Owned!childVars, child
  <1>1. CASE UNCHANGED vars
    BY <1>1 DEF vars
  <1>2. ASSUME ForwardBinds
        PROVE  Owned!Binds
    BY <1>2 DEF ForwardBinds, Forwarded, IInv, TypeOK, ChildInv, Running,
         Owned!Binds
  <1>3. ASSUME ForwardNoted
        PROVE  Owned!Noted
    BY <1>3 DEF ForwardNoted, IInv, TypeOK, ChildInv, Running, Owned!Noted
  <1>4. ASSUME NEW saved \in BOOLEAN, LoopTakesExit(saved)
        PROVE  Owned!IsTaken
    BY <1>4 DEF LoopTakesExit, Running, LoopGoesOn, IInv, TypeOK, ChildInv,
         Owned!IsTaken
  <1>5. ASSUME NEW r \in BOOLEAN, NEW c \in ExitCause, NEW saved \in BOOLEAN,
              BootstrapFails(r, c, saved)
        PROVE  Owned!GivenUp
    BY <1>5 DEF BootstrapFails, NoChild, ExitOf, Running, IInv, TypeOK,
         ChildInv, Owned!GivenUp
  <1>6. ASSUME NEW saved \in BOOLEAN, ForwardFails(saved)
        PROVE  Owned!GivenUp
    BY <1>6 DEF ForwardFails, NoChild, Forwarded, Owned!GivenUp
  <1>7. ASSUME NEW r \in BOOLEAN, NEW c \in ExitCause, CheckFails(r, c)
        PROVE  Owned!GivenUp
    BY <1>7, ExitOfFacts, ExitFacts DEF CheckFails, Mishap, NoChild, ExitOf,
         Running, IInv, TypeOK, ChildInv, Owned!GivenUp
  <1>8. ASSUME StartChild
        PROVE  Owned!Starts
    BY <1>8 DEF StartChild, IInv, TypeOK, ChildInv, Running, Owned!Starts
  <1>9. ASSUME ShutdownOnError
        PROVE  Owned!GivenUp
    BY <1>9 DEF ShutdownOnError, NoChild, Owned!GivenUp
  <1>10. ASSUME NEW saved \in BOOLEAN, ShutdownClean(saved)
        PROVE  Owned!GivenUp
    BY <1>10 DEF ShutdownClean, NoChild, Owned!GivenUp
  <1>11. ASSUME NEW reset \in BOOLEAN, NEW saved \in BOOLEAN,
              Launch(reset, saved)
        PROVE  Owned!GivenUp
    BY <1>11 DEF Launch, NoChild, Owned!GivenUp
  <1>12. ASSUME Crash
        PROVE  Owned!GivenUp
    BY <1>12 DEF Crash, Mishap, NoChild, Owned!GivenUp
  <1>13. ASSUME NEW c \in ExitCause, Reap(c)
        PROVE  Owned!IsReaped
    BY <1>13, ExitOfFacts, ExitFacts DEF Reap, NoChild, ExitOf, IInv, TypeOK,
         ChildInv, Running, Owned!IsReaped
  <1>14. ASSUME ChildExits
        PROVE  Owned!Exits
    BY <1>14 DEF ChildExits, IInv, TypeOK, ChildInv, Running, Owned!Exits
  <1>15. ASSUME ChildUntouched
        PROVE  UNCHANGED Owned!childVars
    BY <1>15 DEF ChildUntouched, LoopEnds, LoopKeepsChild, LoopWithoutExit, SleepEnds,
         LocalReadyToProbe, BootstrapReady, BootstrapCancelled,
         AlreadyForwarded, CallCancelled, ProbeHealthy, LocalNotReady,
         LocalFails, LocalReadyToStart, ForwardConflicts, ProbeFinds,
         IdentityFinds, IdentityDiffers, ObserveHealthy, StartFails,
         ChildAges, SpellAges, Cancel
  <1>16. QED
    <2>1. QuietStep \/ TransitionStep \/ FailureStep \/ LifeStep \/ WorldStep
            \/ UNCHANGED vars
      BY DEF Next, SupervisorStep, Environment, QuietStep, TransitionStep,
           FailureStep, LifeStep, WorldStep
    <2>2. CASE QuietStep
      <3>1. ForwardBinds \/ ForwardNoted \/ ChildUntouched
        BY <2>2 DEF QuietStep, ChildUntouched
      <3>2. QED
        BY <3>1, <1>2, <1>3, <1>15 DEF Owned!ChildNext
    <2>3. CASE TransitionStep
      BY <2>3, <1>15 DEF TransitionStep, ChildUntouched
    <2>4. CASE FailureStep
      BY <2>4, <1>4, <1>5, <1>6, <1>7, <1>15
      DEF FailureStep, ChildUntouched, Owned!ChildNext
    <2>5. CASE LifeStep
      BY <2>5, <1>8, <1>9, <1>10, <1>11, <1>12 DEF LifeStep, Owned!ChildNext
    <2>6. CASE WorldStep
      BY <2>6, <1>13, <1>14, <1>15 DEF WorldStep, ChildUntouched, Owned!ChildNext
    <2>7. QED
      BY <1>1, <2>1, <2>2, <2>3, <2>4, <2>5, <2>6

\* The supervisor only does to its child what OwnedChild allows, so that the
\* one step it takes for a call of the backend can be the many the call makes.
THEOREM StaysWithinOwnedChildHolds == Spec => StaysWithinOwnedChild
  <1>1. Init => Owned!ChildInit
    BY DEF Init, Owned!ChildInit
  <1>2. IInv /\ [Next]_vars => [Owned!ChildNext]_Owned!childVars
    BY NextStaysWithin
  <1>3. QED
    BY <1>1, <1>2, Invariance, PTL
    DEF Spec, StaysWithinOwnedChild, Owned!ChildSpec
=============================================================================
