---------------------------- MODULE TunnelBackend ----------------------------
(***************************************************************************)
(* The ssh child of a managed tunnel (internal/tunnelmgr/sshbackend.go) at  *)
(* the grain of Backend.mu: one goroutine makes the calls Start, Forward,   *)
(* ConsumeLastExit and Stop, every child has a reaper goroutine of its own, *)
(* and the children, their control sockets and the remote listener live     *)
(* outside the process.                                                    *)
(*                                                                         *)
(* Children are numbered in the order they start.  A child that Stop could  *)
(* not reap in time is abandoned: its reaper finds b.cmd to be another and  *)
(* leaves the fields alone.  WaitReady and the probes change no field; what *)
(* they find is in TunnelSupervisor.                                        *)
(***************************************************************************)
EXTENDS Integers

CONSTANT MaxStarts \* bound: children that are ever started

ASSUME BackendAssumption == MaxStarts \in Nat

VARIABLES
    pc,        \* where the calling goroutine is
    cmd,       \* Backend.cmd: the owned child, or 0
    control,   \* Backend.controlPath: the child it was made for, never unset
    running,   \* Backend.running
    forwarded, \* Backend.forwarded
    exit,      \* Backend.exit: the child whose exit it is, or 0
    target,    \* Stop's copy of b.cmd
    started,   \* how many children have been started
    life,      \* of each child: see Life
    listeners, \* children that hold the remote listener
    files      \* children whose control socket and config are on disk

caller == <<pc, target>>
fields == <<cmd, control, running, forwarded, exit>>
world  == <<started, life, listeners, files>>
vars   == <<caller, fields, world>>

Child == 1 .. MaxStarts

\* An alive child dies; its reaper returns from Wait, records the exit under
\* the lock, and removes the files before it closes the done channel.
Life == {"unborn", "alive", "dead", "waited", "recorded", "done"}

Stopping == {"cancel", "unflag", "exit", "wait", "term", "grace", "last", "end"}

TypeOK ==
    /\ pc \in {"idle", "forwarded"} \cup Stopping
    /\ cmd \in 0 .. MaxStarts
    /\ control \in 0 .. MaxStarts
    /\ running \in BOOLEAN
    /\ forwarded \in BOOLEAN
    /\ exit \in 0 .. MaxStarts
    /\ target \in 0 .. MaxStarts
    /\ started \in 0 .. MaxStarts
    /\ life \in [Child -> Life]
    /\ \A c \in Child : life[c] = "unborn" <=> c > started
    /\ listeners \subseteq {c \in Child : life[c] = "alive"}
    /\ files \subseteq 1 .. started
    /\ control = started

\* Does the control socket of the last child answer?
Answers ==
    /\ control \in files
    /\ life[control] = "alive"

Forwarded == running /\ forwarded

\* `<-done' of Stop's target.
TargetDone == target # 0 /\ life[target] = "done"

-----------------------------------------------------------------------------
(* Start and the small calls.                                              *)

\* A running child makes Start fail with nothing changed, and so does any
\* error before the fork.
Start ==
    /\ pc = "idle" /\ ~running
    /\ started < MaxStarts
    /\ started' = started + 1
    /\ cmd' = started'
    /\ control' = started'
    /\ running' = TRUE
    /\ forwarded' = FALSE
    /\ exit' = 0
    /\ life' = [life EXCEPT ![started'] = "alive"]
    /\ files' = files \cup {started'}
    /\ UNCHANGED <<caller, listeners>>

ConsumeLastExit ==
    /\ pc = "idle" /\ exit # 0
    /\ exit' = 0
    /\ UNCHANGED <<caller, cmd, control, running, forwarded, world>>

\* `ssh -O forward' reached the master, which took the remote port; the
\* answer may still be lost to a timeout.
ForwardBinds(answered) ==
    /\ pc = "idle" /\ Answers
    /\ listeners' = listeners \cup {control}
    /\ pc' = IF answered THEN "forwarded" ELSE "idle"
    /\ UNCHANGED <<target, fields, started, life, files>>

ForwardNoted ==
    /\ pc = "forwarded"
    /\ forwarded' = TRUE
    /\ pc' = "idle"
    /\ UNCHANGED <<target, cmd, control, running, exit, world>>

-----------------------------------------------------------------------------
(* Stop, step by step.                                                     *)

StopBegins ==
    /\ pc = "idle"
    /\ target' = cmd
    /\ pc' = IF cmd # 0 /\ running THEN "cancel" ELSE "end"
    /\ UNCHANGED <<fields, world>>

\* cancel: `ssh -O cancel' gives the remote port back.
StopCancels ==
    /\ pc = "cancel"
    /\ \/ ~Forwarded /\ pc' = "exit" /\ UNCHANGED listeners
       \/ Forwarded /\ Answers /\ pc' = "unflag" /\ listeners' = listeners \ {control}
       \/ Forwarded /\ pc' = "term" /\ UNCHANGED listeners
    /\ UNCHANGED <<target, fields, started, life, files>>

StopUnflags ==
    /\ pc = "unflag"
    /\ forwarded' = FALSE
    /\ pc' = "exit"
    /\ UNCHANGED <<target, cmd, control, running, exit, world>>

\* `ssh -O exit', which a master that answers may take its time to obey.
StopAsksExit ==
    /\ pc = "exit"
    /\ \/ Answers /\ pc' = "wait"
       \/ pc' = "term"
    /\ UNCHANGED <<target, fields, world>>

\* Each of the three waits ends with the done channel or with its timer; a
\* timer leads to a stronger signal, the last one to giving up.
AfterTimer == [wait |-> "term", grace |-> "last", last |-> "end"]

\* Mutant: the last wait has no timer.
StopWaitsForever ==
    /\ pc \in DOMAIN AfterTimer
    /\ \/ TargetDone /\ pc' = "end"
       \/ pc # "last" /\ pc' = AfterTimer[pc]
    /\ UNCHANGED <<target, fields, world>>

StopWaits ==
    /\ pc \in DOMAIN AfterTimer
    /\ \/ TargetDone /\ pc' = "end"
       \/ pc' = AfterTimer[pc]
    /\ UNCHANGED <<target, fields, world>>

StopTerminates ==
    /\ pc = "term"
    /\ pc' = "grace"
    /\ UNCHANGED <<target, fields, world>>

\* The fields are cleared for the child Stop was called for, reaped or not.
StopEnds ==
    /\ pc = "end"
    /\ IF cmd = target
       THEN cmd' = 0 /\ running' = FALSE /\ forwarded' = FALSE
       ELSE UNCHANGED <<cmd, running, forwarded>>
    /\ files' = files \ {control}
    /\ pc' = "idle"
    /\ target' = 0
    /\ UNCHANGED <<control, exit, started, life, listeners>>

StopStep ==
    StopCancels \/ StopUnflags \/ StopAsksExit \/ StopWaits \/ StopTerminates
    \/ StopEnds

Call ==
    \/ Start \/ ConsumeLastExit \/ ForwardNoted \/ StopBegins \/ StopStep
    \/ \E answered \in BOOLEAN : ForwardBinds(answered)

-----------------------------------------------------------------------------
(* The children and their reapers.                                         *)

ChildDies(c) ==
    /\ life[c] = "alive"
    /\ life' = [life EXCEPT ![c] = "dead"]
    /\ listeners' = listeners \ {c}
    /\ UNCHANGED <<caller, fields, started, files>>

\* cmd.Wait also waits for whoever else holds the child's output open.
WaitReturns(c) ==
    /\ life[c] = "dead"
    /\ life' = [life EXCEPT ![c] = "waited"]
    /\ UNCHANGED <<caller, fields, started, listeners, files>>

\* Mutant: the reaper does not ask whose child it was.
ReapRecordsAny(c) ==
    /\ life[c] = "waited"
    /\ life' = [life EXCEPT ![c] = "recorded"]
    /\ running' = FALSE /\ forwarded' = FALSE /\ exit' = c
    /\ UNCHANGED <<caller, cmd, control, started, listeners, files>>

\* The locked part of reap.
ReapRecords(c) ==
    /\ life[c] = "waited"
    /\ life' = [life EXCEPT ![c] = "recorded"]
    /\ IF cmd = c
       THEN running' = FALSE /\ forwarded' = FALSE /\ exit' = c
       ELSE UNCHANGED <<running, forwarded, exit>>
    /\ UNCHANGED <<caller, cmd, control, started, listeners, files>>

\* Mutant: only Stop removes the control files.
ReapLeavesFiles(c) ==
    /\ life[c] = "recorded"
    /\ life' = [life EXCEPT ![c] = "done"]
    /\ UNCHANGED <<caller, fields, started, listeners, files>>

ReapCleans(c) ==
    /\ life[c] = "recorded"
    /\ life' = [life EXCEPT ![c] = "done"]
    /\ files' = files \ {c}
    /\ UNCHANGED <<caller, fields, started, listeners>>

ChildStep(c) == ChildDies(c) \/ WaitReturns(c) \/ ReapRecords(c) \/ ReapCleans(c)

Init ==
    /\ pc = "idle"
    /\ cmd = 0
    /\ control = 0
    /\ running = FALSE
    /\ forwarded = FALSE
    /\ exit = 0
    /\ target = 0
    /\ started = 0
    /\ life = [c \in Child |-> "unborn"]
    /\ listeners = {}
    /\ files = {}

Next == Call \/ \E c \in Child : ChildStep(c)

Spec == Init /\ [][Next]_vars

\* Every wait of Stop has a timer and every control command a timeout.  Nothing
\* is assumed of the children, not even that Wait returns.
FairSpec == Spec /\ WF_vars(StopStep)

-----------------------------------------------------------------------------
(* Properties.                                                             *)

\* Not yet reaped.
Lives(c) == life[c] \in {"alive", "dead", "waited"}

\* The fields say running as long as the owned child, always the last one
\* started, is not reaped: no reaper of an earlier child touches them.
RunningIsNewest ==
    /\ running <=> cmd # 0 /\ Lives(cmd)
    /\ cmd \in {0, started}

\* An exit to be consumed is that of the last child started, so that no child
\* is charged for the end of the one before.
ExitIsNewest == exit # 0 => exit = started /\ ~running

\* Between calls, a child that is alive and said to be forwarded holds the
\* remote listener.
ForwardedIsBound ==
    pc = "idle" /\ Forwarded /\ life[cmd] = "alive" => cmd \in listeners

\* Whoever is woken by the done channel of the owned child finds it not
\* running, and Stop finds its exit recorded.
DoneAfterRecord ==
    /\ cmd # 0 /\ life[cmd] = "done" => ~running
    /\ pc \in Stopping \ {"end"} /\ TargetDone => exit = target

\* Between calls, every control file is that of the owned child or has a reaper
\* about to remove it.
NoStrayFiles ==
    pc = "idle" =>
        \A c \in files : (c = cmd /\ life[c] # "done") \/ life[c] = "recorded"

\* Stop returns, whatever the child does, and leaves room for the next one.
StopReturns == pc \in Stopping ~> pc = "idle" /\ ~running

-----------------------------------------------------------------------------
(* Refinement of OwnedChild.                                               *)

absProc ==
    IF ~running THEN "none" ELSE IF life[cmd] = "alive" THEN "alive" ELSE "dead"

Abs == INSTANCE OwnedChild WITH
    proc <- absProc,
    bound <- running /\ cmd \in listeners,
    waiting <- exit # 0

ImplementsOwnedChild == Abs!ChildSpec
=============================================================================
