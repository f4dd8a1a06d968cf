--------------------------- MODULE TunnelSupervisor ---------------------------
(***************************************************************************)
(* The managed-tunnel supervisor (internal/tunnelmgr/supervisor.go): one    *)
(* goroutine that keeps an ssh master alive, adds the reverse forward,      *)
(* probes both ends and records what it can prove in a file that outlives   *)
(* the process.                                                            *)
(*                                                                         *)
(* One action is one blocking call of Supervisor.Run together with the     *)
(* bookkeeping that follows it up to the next blocking call; `pc' names    *)
(* the call the goroutine is about to make.  Between two such steps the ssh *)
(* child may exit, its reaper may run, the context may be cancelled and the *)
(* process may be killed.                                                  *)
(*                                                                         *)
(* Durations become flags: a child is `aged' once it has lived for the      *)
(* StartingGate, a healthy spell is "stable" once it has lasted for the     *)
(* StableWindow.  The remote probe result and the error text that are saved *)
(* next to the state are left out: nothing reads them back.                 *)
(***************************************************************************)
EXTENDS Integers

CONSTANTS
    CrashLoopThreshold, \* quick failures that open the breaker
    MaxRetry,           \* retryFailures at which the backoff is at its maximum
    MaxLost,            \* bound: mishaps that may hide a failure (see `lost')
    LocalTrouble,       \* diagnoses of localReady that are retried
    RemoteTrouble,      \* diagnoses of a remote probe that completed
    IdentityTrouble     \* diagnoses of an identity probe, a mismatch aside

State == {"unknown", "starting", "healthy", "reconnecting", "auth-required",
          "host-key-error", "local-daemon-down", "remote-down", "remote-stale",
          "remote-unverified", "remote-unknown", "identity-helper-missing",
          "identity-endpoint-unavailable", "identity-mismatch",
          "remote-token-invalid", "port-conflict", "config-error",
          "crash-loop", "stopped"}

ASSUME SupervisorAssumption ==
    /\ CrashLoopThreshold \in Nat \ {0}
    /\ MaxRetry \in Nat \ {0}
    /\ MaxLost \in Nat
    /\ LocalTrouble \subseteq {"local-daemon-down", "identity-endpoint-unavailable"}
    /\ RemoteTrouble \subseteq {"remote-down", "remote-stale", "remote-unverified",
                                "remote-unknown"}
    /\ IdentityTrouble \subseteq {"remote-unknown", "identity-helper-missing",
                                  "identity-endpoint-unavailable",
                                  "remote-token-invalid"}

VARIABLES
    pc,            \* the blocking call Run is about to make; "off": no process
    cancelled,     \* ctx.Err() # nil
    state,         \* Supervisor.state
    failures,      \* Supervisor.failures
    retryFailures, \* Supervisor.retryFailures, saturating at MaxRetry
    healthySince,  \* "zero", "recent" or "stable" (StableWindow has passed)
    lastKey,       \* Supervisor.lastKey: what persist last wrote, or NoKey
    disk,          \* the state file
    proc,          \* the ssh child: "none", "alive", or "dead" but not reaped
    aged,          \* the child has lived for StartingGate
    bound,         \* the child holds the remote listener
    forwarded,     \* Backend.forwarded
    exit,          \* Backend.exit: what ConsumeLastExit would return
    quick,         \* ghost: children in a row that ended before the gate
    lost           \* ghost: mishaps since then that may have hidden such an end

mem    == <<state, failures, retryFailures, healthySince>>
stored == <<lastKey, disk>>
child  == <<proc, aged, bound, forwarded, exit>>
ghosts == <<quick, lost>>
vars   == <<pc, cancelled, mem, stored, child, ghosts>>

Attention == {"auth-required", "host-key-error"}
LocalFatal == {"config-error", "identity-mismatch"}
ExitCause == Attention \cup {"reconnecting"}

Calls == {"top", "backoff", "local1", "start", "bootstrap", "forward",
          "forwarded", "local2", "probe", "identity", "sleep"}
Ending == {"stopErr", "stopOk"}

Key == State \X Nat
NoKey == <<"none", 0>>
NoExit == [aged |-> FALSE, cause |-> "none"]
Exit == [aged : BOOLEAN, cause : ExitCause]
File == [state : State \cup {"absent", "invalid"}, failures : Nat]
Fresh == [state |-> "unknown", failures |-> 0]

TypeOK ==
    /\ pc \in Calls \cup Ending \cup {"off"}
    /\ cancelled \in BOOLEAN
    /\ state \in State
    /\ failures \in 0 .. CrashLoopThreshold
    /\ retryFailures \in 0 .. MaxRetry
    /\ healthySince \in {"zero", "recent", "stable"}
    /\ lastKey \in Key \cup {NoKey}
    /\ disk \in File
    /\ proc \in {"none", "alive", "dead"}
    /\ aged \in BOOLEAN /\ bound \in BOOLEAN /\ forwarded \in BOOLEAN
    /\ exit \in Exit \cup {NoExit}
    /\ quick \in Nat
    /\ lost \in Nat

-----------------------------------------------------------------------------
(* Helpers of Run.                                                         *)

Running == proc # "none"
Forwarded == Running /\ forwarded

\* A mishap that may hide a quick failure from the counter; MaxLost bounds them.
Mishap(happens) ==
    /\ happens => lost < MaxLost
    /\ lost' = IF happens THEN lost + 1 ELSE lost

PersistKey(s, f) == <<s, f>>

\* persist: skip the write when the key is that of the last one.  `saved' is
\* whether Store.Save succeeded; a failed one leaves the old file in place.
Persist(s, f, saved) ==
    /\ Mishap(~saved)
    /\ IF saved /\ PersistKey(s, f) # lastKey
       THEN /\ disk' = [state |-> s, failures |-> f]
            /\ lastKey' = PersistKey(s, f)
       ELSE UNCHANGED stored

Transition(s, saved) ==
    /\ state' = s
    /\ healthySince' = IF s = "healthy" THEN healthySince ELSE "zero"
    /\ Persist(s, failures, saved)
    /\ UNCHANGED <<failures, retryFailures>>

\* What recordStartFailure makes of an exit with this cause and uptime.
FailuresAfter(cause, old) ==
    CASE cause \in Attention -> failures
      [] cause \notin Attention /\ old -> 0
      [] OTHER -> failures + 1

RetryAfter(cause) ==
    IF cause \in Attention THEN retryFailures
    ELSE IF retryFailures < MaxRetry THEN retryFailures + 1 ELSE MaxRetry

StateAfter(cause, old) ==
    IF cause \notin Attention /\ FailuresAfter(cause, old) >= CrashLoopThreshold
    THEN "crash-loop" ELSE cause

\* Mutant: the record is built before the failure is counted.
RecordStartFailureSavesOldCount(cause, old, saved, next, onErr) ==
    /\ healthySince' = "zero"
    /\ failures' = FailuresAfter(cause, old)
    /\ retryFailures' = RetryAfter(cause)
    /\ state' = StateAfter(cause, old)
    /\ Persist(state', failures, saved)
    /\ pc' = IF saved /\ state' # "crash-loop" THEN next ELSE onErr

\* recordStartFailureAndWait: go on to the wait `next' unless the save failed
\* or the breaker opened, which end the run through `onErr'.
RecordStartFailure(cause, old, saved, next, onErr) ==
    /\ healthySince' = "zero"
    /\ failures' = FailuresAfter(cause, old)
    /\ retryFailures' = RetryAfter(cause)
    /\ state' = StateAfter(cause, old)
    /\ Persist(state', failures', saved)
    /\ pc' = IF saved /\ state' # "crash-loop" THEN next ELSE onErr

\* classifyExit is applied to the exit the environment chose.
ExitOf(cause) == [aged |-> aged, cause |-> cause]

\* The fields of a child whose exit is reaped or that Stop gives up on.
NoChild ==
    /\ proc' = "none"
    /\ aged' = FALSE
    /\ bound' = FALSE

\* The ghost's view of a child that ends now.
QuickAfter(cause) ==
    IF ~Running THEN quick
    ELSE IF aged THEN 0
    ELSE IF cause \in Attention THEN quick ELSE quick + 1

\* An end that was seen but not yet counted by recordStartFailure.
Uncounted == ~exit.aged /\ exit.cause = "reconnecting"

-----------------------------------------------------------------------------
(* Starting a process: `cc-clip tunnel run [--reset]'.                      *)

\* A record Run goes on from; an unreadable file or one for another spec, and
\* an open breaker, make it return with nothing changed.
Usable(rec) == rec.state \notin {"invalid", "crash-loop"}

BootRecord(reset) == IF reset \/ disk.state = "absent" THEN Fresh ELSE disk

\* Mutant: every process counts from zero.
BootFailuresForgotten(rec) == 0

BootFailures(rec) == IF rec.state = "stopped" THEN 0 ELSE rec.failures

\* What a clean stop or a reset forgives, the ghosts forget.
Forgiven(reset) == reset \/ disk.state \in {"absent", "stopped"}

Launch(reset, saved) ==
    LET rec == BootRecord(reset)
        f   == BootFailures(rec)
    IN  /\ pc = "off"
        /\ Usable(rec)
        /\ lost <= MaxLost \/ Forgiven(reset)
        /\ cancelled' = FALSE
        /\ state' = "starting"
        /\ failures' = f
        /\ retryFailures' = IF f < MaxRetry THEN f ELSE MaxRetry
        /\ healthySince' = "zero"
        /\ IF saved
           THEN /\ pc' = "top"
                /\ disk' = [state |-> "starting", failures |-> f]
                /\ lastKey' = PersistKey("starting", f)
           ELSE /\ pc' = "off"
                /\ disk' = rec
                /\ lastKey' = NoKey
        /\ NoChild
        /\ forwarded' = FALSE
        /\ exit' = NoExit
        /\ IF Forgiven(reset) THEN quick' = 0 /\ lost' = 0 ELSE UNCHANGED ghosts

-----------------------------------------------------------------------------
(* The loop of Run.                                                        *)

\* Mutant: the loop condition forgets the context.
LoopGoesOnForever == TRUE

\* The loop condition, ctx.Err() == nil.
LoopGoesOn == ~cancelled

LoopEnds ==
    /\ pc = "top" /\ ~LoopGoesOn
    /\ pc' = "stopOk"
    /\ UNCHANGED <<cancelled, mem, stored, child, ghosts>>

\* A child that is still running goes on to the forward.
LoopKeepsChild ==
    /\ pc = "top" /\ LoopGoesOn
    /\ Running
    /\ pc' = "forward"
    /\ UNCHANGED <<cancelled, mem, stored, child, ghosts>>

\* The exit of the last child is consumed, counted and waited out.
LoopTakesExit(saved) ==
    /\ pc = "top" /\ LoopGoesOn
    /\ ~Running /\ exit # NoExit
    /\ exit' = NoExit
    /\ RecordStartFailure(exit.cause, exit.aged, saved, "backoff", "stopErr")
    /\ UNCHANGED <<cancelled, proc, aged, bound, forwarded, quick>>

LoopWithoutExit ==
    /\ pc = "top" /\ LoopGoesOn
    /\ ~Running /\ exit = NoExit
    /\ pc' = "local1"
    /\ UNCHANGED <<cancelled, mem, stored, child, ghosts>>

\* Mutant: a healthy tunnel is waited on without a timer or the child.
SleepEndsUnlessHealthy ==
    /\ pc \in {"backoff", "sleep"}
    /\ \/ state # "healthy" /\ pc' = IF pc = "backoff" THEN "local1" ELSE "top"
       \/ cancelled /\ pc' = "stopOk"
    /\ UNCHANGED <<cancelled, mem, stored, child, ghosts>>

\* sleepInterruptible and sleepUntilProbeOrChildExit: the timer, or the
\* context.  "backoff" is the wait that goes on to localReady.
SleepEnds ==
    /\ pc \in {"backoff", "sleep"}
    /\ \/ pc' = IF pc = "backoff" THEN "local1" ELSE "top"
       \/ cancelled /\ pc' = "stopOk"
    /\ UNCHANGED <<cancelled, mem, stored, child, ghosts>>

\* localReady before a child exists: a retryable diagnosis.
LocalNotReady(s, saved) ==
    /\ pc \in {"local1", "local2"}
    /\ Transition(s, saved)
    /\ pc' = IF saved THEN "sleep" ELSE "stopErr"
    /\ UNCHANGED <<cancelled, child, quick>>

\* A diagnosis that ends the run: without a child Run just returns.
LocalFails(s, saved) ==
    /\ pc \in {"local1", "local2"}
    /\ Transition(s, saved)
    /\ pc' = IF pc = "local1" /\ saved THEN "off" ELSE "stopErr"
    /\ UNCHANGED <<cancelled, child, quick>>

\* The child is only started once "starting" is on disk.
LocalReadyToStart(saved) ==
    /\ pc = "local1"
    /\ Transition("starting", saved)
    /\ pc' = IF saved THEN "start" ELSE "off"
    /\ UNCHANGED <<cancelled, child, quick>>

LocalReadyToProbe ==
    /\ pc = "local2"
    /\ pc' = "probe"
    /\ UNCHANGED <<cancelled, mem, stored, child, ghosts>>

\* Mutant: Start leaves the forwarded flag of the child before.
StartChildKeepsFlag ==
    /\ pc = "start"
    /\ proc' = "alive"
    /\ aged' = FALSE
    /\ bound' = FALSE
    /\ exit' = NoExit
    /\ pc' = "bootstrap"
    /\ UNCHANGED <<cancelled, mem, stored, forwarded, ghosts>>

StartChild ==
    /\ pc = "start"
    /\ proc' = "alive"
    /\ aged' = FALSE
    /\ bound' = FALSE
    /\ forwarded' = FALSE
    /\ exit' = NoExit
    /\ pc' = "bootstrap"
    /\ UNCHANGED <<cancelled, mem, stored, ghosts>>

StartFails(saved) ==
    /\ pc = "start"
    /\ quick' = quick + 1
    /\ RecordStartFailure("reconnecting", FALSE, saved, "sleep", "off")
    /\ UNCHANGED <<cancelled, child>>

-----------------------------------------------------------------------------
(* Bootstrap: WaitReady and Forward.                                       *)

BootstrapReady ==
    /\ pc = "bootstrap" /\ ~cancelled
    /\ proc = "alive"
    /\ pc' = "forward"
    /\ UNCHANGED <<cancelled, mem, stored, child, ghosts>>

BootstrapCancelled ==
    /\ pc = "bootstrap" /\ cancelled
    /\ pc' = "stopOk"
    /\ UNCHANGED <<cancelled, mem, stored, child, ghosts>>

\* WaitReady gave up: the child was reaped, or BootstrapTimeout, which equals
\* StartingGate, went by.  The exit is that of the child, before or after
\* Stop, or a made-up one with no uptime when Stop could not reap it.
BootstrapFails(reaped, cause, saved) ==
    LET e == IF ~Running THEN exit
             ELSE IF reaped THEN ExitOf(cause)
             ELSE [aged |-> FALSE, cause |-> "reconnecting"]
    IN  /\ pc = "bootstrap" /\ ~cancelled
        /\ ~Running \/ aged
        /\ NoChild
        /\ forwarded' = FALSE
        /\ exit' = NoExit
        /\ quick' = QuickAfter(cause)
        /\ RecordStartFailure(e.cause, e.aged, saved, "sleep", "off")
        /\ UNCHANGED cancelled

AlreadyForwarded ==
    /\ pc = "forward"
    /\ Forwarded
    /\ pc' = "local2"
    /\ UNCHANGED <<cancelled, mem, stored, child, ghosts>>

\* The master bound the remote listener; the flag is set a moment later.
ForwardBinds ==
    /\ pc = "forward" /\ ~cancelled
    /\ ~Forwarded /\ proc = "alive"
    /\ bound' = TRUE
    /\ pc' = "forwarded"
    /\ UNCHANGED <<cancelled, mem, stored, proc, aged, forwarded, exit, ghosts>>

ForwardNoted ==
    /\ pc = "forwarded"
    /\ forwarded' = TRUE
    /\ pc' = "local2"
    /\ UNCHANGED <<cancelled, mem, stored, proc, aged, bound, exit, ghosts>>

\* Somebody else holds the remote port and the master answers its check.
ForwardConflicts(saved) ==
    /\ pc = "forward" /\ ~cancelled
    /\ ~Forwarded /\ proc = "alive"
    /\ Transition("port-conflict", saved)
    /\ pc' = IF saved THEN "sleep" ELSE "stopErr"
    /\ UNCHANGED <<cancelled, child, quick>>

\* Any other failure stops the child and counts as one without uptime.
ForwardFails(saved) ==
    /\ pc = "forward" /\ ~cancelled
    /\ ~Forwarded
    /\ NoChild
    /\ forwarded' = FALSE
    /\ exit' = NoExit
    /\ quick' = QuickAfter("reconnecting")
    /\ RecordStartFailure("reconnecting", FALSE, saved, "sleep", "off")
    /\ UNCHANGED cancelled

-----------------------------------------------------------------------------
(* Probes over the control socket.                                         *)

\* Forward, ProbeRemote or ProbeIdentity came back to a cancelled context.
CallCancelled ==
    /\ pc \in {"forward", "probe", "identity"} /\ cancelled
    /\ pc = "forward" => ~Forwarded
    /\ pc' = "stopOk"
    /\ UNCHANGED <<cancelled, mem, stored, child, ghosts>>

\* The probe failed and the master's check too: Stop, and leave the exit for
\* the next round to count.  An unreaped child leaves none.
CheckFails(reaped, cause) ==
    /\ pc \in {"probe", "identity"} /\ ~cancelled
    /\ NoChild
    /\ forwarded' = FALSE
    /\ exit' = IF Running /\ reaped THEN ExitOf(cause) ELSE exit
    /\ quick' = QuickAfter(cause)
    /\ Mishap(Running /\ ~reaped)
    /\ pc' = "top"
    /\ UNCHANGED <<cancelled, mem, stored>>

\* The probe completed with a diagnosis, or failed while the master answers.
ProbeFinds(s, saved) ==
    /\ pc = "probe" /\ ~cancelled
    /\ proc = "alive"
    /\ Transition(s, saved)
    /\ pc' = IF saved THEN "sleep" ELSE "stopErr"
    /\ UNCHANGED <<cancelled, child, quick>>

ProbeHealthy ==
    /\ pc = "probe" /\ ~cancelled
    /\ proc = "alive"
    /\ pc' = "identity"
    /\ UNCHANGED <<cancelled, mem, stored, child, ghosts>>

IdentityFinds(s, saved) ==
    /\ pc = "identity" /\ ~cancelled
    /\ proc = "alive"
    /\ Transition(s, saved)
    /\ pc' = IF saved THEN "sleep" ELSE "stopErr"
    /\ UNCHANGED <<cancelled, child, quick>>

IdentityDiffers(saved) ==
    /\ pc = "identity" /\ ~cancelled
    /\ proc = "alive"
    /\ Transition("identity-mismatch", saved)
    /\ pc' = "stopErr"
    /\ UNCHANGED <<cancelled, child, quick>>

\* observeHealthy: a spell that outlasts the StableWindow resets the backoff,
\* and only the backoff.
ObserveHealthy(saved) ==
    /\ pc = "identity" /\ ~cancelled
    /\ proc = "alive"
    /\ state' = "healthy"
    /\ healthySince' = IF state # "healthy" \/ healthySince = "zero"
                       THEN "recent" ELSE healthySince
    /\ retryFailures' = IF healthySince' = "stable" THEN 0 ELSE retryFailures
    /\ failures' = failures
    /\ Persist("healthy", failures, saved)
    /\ pc' = IF saved THEN "sleep" ELSE "stopErr"
    /\ UNCHANGED <<cancelled, child, quick>>

-----------------------------------------------------------------------------
(* The end of a run.                                                       *)

\* shutdown(err, false): the child goes, the file stays.  An exit nobody
\* counted is forgotten.
ShutdownOnError ==
    /\ pc = "stopErr"
    /\ NoChild
    /\ forwarded' = FALSE
    /\ exit' = NoExit
    /\ lost' = IF Uncounted THEN lost + 1 ELSE lost
    /\ pc' = "off"
    /\ UNCHANGED <<cancelled, mem, stored, quick>>

\* shutdown(nil, true): "stopped" is saved after the child is gone.
ShutdownClean(saved) ==
    /\ pc = "stopOk"
    /\ NoChild
    /\ forwarded' = FALSE
    /\ exit' = NoExit
    /\ state' = "stopped"
    /\ UNCHANGED <<failures, retryFailures, healthySince>>
    /\ IF saved /\ PersistKey("stopped", failures) # lastKey
       THEN /\ disk' = [state |-> "stopped", failures |-> failures]
            /\ lastKey' = PersistKey("stopped", failures)
       ELSE UNCHANGED stored
    /\ lost' = IF Uncounted THEN lost + 1 ELSE lost
    /\ pc' = "off"
    /\ UNCHANGED <<cancelled, quick>>

SupervisorStep ==
    \/ LoopEnds \/ LoopKeepsChild \/ LoopWithoutExit \/ SleepEnds
    \/ LocalReadyToProbe \/ StartChild
    \/ BootstrapReady \/ BootstrapCancelled
    \/ AlreadyForwarded \/ ForwardBinds \/ ForwardNoted
    \/ CallCancelled \/ ProbeHealthy \/ ShutdownOnError
    \/ \E saved \in BOOLEAN :
          \/ LoopTakesExit(saved) \/ LocalReadyToStart(saved) \/ StartFails(saved)
          \/ ForwardConflicts(saved) \/ ForwardFails(saved)
          \/ IdentityDiffers(saved) \/ ObserveHealthy(saved) \/ ShutdownClean(saved)
          \/ \E s \in LocalTrouble : LocalNotReady(s, saved)
          \/ \E s \in LocalFatal : LocalFails(s, saved)
          \/ \E s \in RemoteTrouble \cup {"remote-unknown"} : ProbeFinds(s, saved)
          \/ \E s \in IdentityTrouble \cup {"remote-unknown"} : IdentityFinds(s, saved)
          \/ \E reaped \in BOOLEAN, cause \in ExitCause :
                BootstrapFails(reaped, cause, saved)
    \/ \E reaped \in BOOLEAN, cause \in ExitCause : CheckFails(reaped, cause)

-----------------------------------------------------------------------------
(* What happens around the goroutine.                                      *)

ChildExits ==
    /\ proc = "alive"
    /\ proc' = "dead"
    /\ bound' = FALSE
    /\ UNCHANGED <<pc, cancelled, mem, stored, aged, forwarded, exit, ghosts>>

\* Backend.reap, under the lock.
Reap(cause) ==
    /\ proc = "dead"
    /\ exit' = ExitOf(cause)
    /\ quick' = QuickAfter(cause)
    /\ NoChild
    /\ forwarded' = FALSE
    /\ UNCHANGED <<pc, cancelled, mem, stored, lost>>

ChildAges ==
    /\ Running /\ ~aged
    /\ aged' = TRUE
    /\ UNCHANGED <<pc, cancelled, mem, stored, proc, bound, forwarded, exit, ghosts>>

\* StableWindow passes since healthySince was set; it is longer than the
\* StartingGate, and the child is older than the spell.
SpellAges ==
    /\ pc # "off" /\ healthySince = "recent"
    /\ Running => aged
    /\ healthySince' = "stable"
    /\ UNCHANGED <<pc, cancelled, state, failures, retryFailures, stored, child,
                   ghosts>>

\* SIGINT or SIGTERM.
Cancel ==
    /\ pc # "off" /\ ~cancelled
    /\ cancelled' = TRUE
    /\ UNCHANGED <<pc, mem, stored, child, ghosts>>

\* The process is killed; its ssh child lives on, owned by nobody.
Crash ==
    /\ pc # "off"
    /\ Mishap(TRUE)
    /\ pc' = "off"
    /\ NoChild
    /\ forwarded' = FALSE
    /\ exit' = NoExit
    /\ UNCHANGED <<cancelled, mem, stored, quick>>

Environment ==
    \/ ChildExits \/ ChildAges \/ SpellAges \/ Cancel \/ Crash
    \/ \E reset, saved \in BOOLEAN : Launch(reset, saved)

Next ==
    \/ SupervisorStep
    \/ \E cause \in ExitCause : Reap(cause)
    \/ Environment

Init ==
    /\ pc = "off"
    /\ cancelled = FALSE
    /\ state = "unknown"
    /\ failures = 0
    /\ retryFailures = 0
    /\ healthySince = "zero"
    /\ lastKey = NoKey
    /\ disk \in {[state |-> s, failures |-> 0] : s \in {"absent", "invalid"}}
    /\ proc = "none"
    /\ aged = FALSE
    /\ bound = FALSE
    /\ forwarded = FALSE
    /\ exit = NoExit
    /\ quick = 0
    /\ lost = 0

Spec == Init /\ [][Next]_vars

\* The goroutine is never blocked for good: every call it makes has a timeout,
\* every wait a timer, and the time that BootstrapTimeout takes goes by.  The
\* reaper is not assumed to run: Wait may be held up by whoever else has the
\* child's output open.
Fairness ==
    /\ WF_vars(SupervisorStep)
    /\ WF_vars(ChildAges)

FairSpec == Spec /\ Fairness

-----------------------------------------------------------------------------
(* Safety.                                                                 *)

\* While a run goes on, neither its memory nor the state file says healthy
\* about a child that never bound the remote port: a replacement starts only
\* after "starting" reached the disk, and a forwarded flag left over from the
\* child before never stands in for its forward.
HealthyHasForward ==
    pc # "off" /\ proc = "alive" /\ (state = "healthy" \/ disk.state = "healthy")
        => bound

\* Every way out of Run leaves no ssh child behind (a child that Stop could
\* not reap and one orphaned by a kill are no longer owned).
IdleOwnsNothing == pc = "off" => proc = "none"

\* While the run goes on, the file holds what the supervisor knows: dropping a
\* write because its key is the last one never drops a change.
DiskTracksMemory ==
    pc \notin Ending \cup {"off"} =>
        disk = [state |-> state, failures |-> failures]

\* Children that die before the starting gate, in a row and over any number of
\* runs, are at most the threshold plus the mishaps that lost one: a killed
\* supervisor, a failed save, a child whose exit Stop could not reap, an exit
\* that came while the run was ending.
BreakerBound == quick <= CrashLoopThreshold + lost

\* Only a reset changes a file that says crash-loop, and no child starts.
BreakerStaysOpen ==
    [][disk.state = "crash-loop" =>
          \/ disk' = disk /\ (proc' = "alive" => proc = "alive")
          \/ disk' \in {Fresh, [Fresh EXCEPT !.state = "starting"]}]_vars

\* The supervisor treats its child as OwnedChild allows, which is all that
\* TunnelBackend promises.
Owned == INSTANCE OwnedChild WITH waiting <- exit # NoExit

StaysWithinOwnedChild == Owned!ChildSpec

-----------------------------------------------------------------------------
(* Liveness, under FairSpec.                                               *)

\* A cancelled run ends, whatever call it was in.
CancelledRunEnds == cancelled ~> pc = "off"

\* A child that died under a healthy tunnel does not stay unnoticed.
DeadChildNoticed ==
    (state = "healthy" /\ proc # "alive") ~> (state # "healthy" \/ pc = "off")

\* A step in which nothing outside the supervisor goes wrong: calls whose
\* peers are there succeed, a child that holds the port is seen to be healthy.
Benign ==
    /\ lost' = lost /\ cancelled' = cancelled
    /\ proc = "alive" /\ pc' # "off" => proc' # "dead"
    /\ pc \in {"local1", "local2"} => state' \notin LocalTrouble \cup LocalFatal
    /\ pc = "start" => proc' = "alive"
    /\ pc = "bootstrap" /\ proc = "alive" => pc' \in {"bootstrap", "forward"}
    /\ pc = "forward" /\ proc = "alive" => pc' \in {"forward", "forwarded", "local2"}
    /\ pc = "probe" /\ bound => pc' \in {"probe", "identity"}
    /\ pc = "identity" /\ bound =>
          pc' = "identity" \/ (pc' = "sleep" /\ state' = "healthy")

\* From whatever the past left behind, once nothing goes wrong any more the
\* tunnel becomes healthy and stays so, unless the run is over.
Recovery ==
    <>[][Benign]_vars => <>[](state = "healthy" \/ pc = "off")
=============================================================================
