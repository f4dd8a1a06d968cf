------------------------------ MODULE NotifySetup ------------------------------
(***************************************************************************)
(* The notification side of a deployment, on one host: connect's gate against *)
(* what v0.7.0 damaged, connectNotifySetup with its nonce, Claude's hooks and  *)
(* the other agents (cmd/cc-clip/notify.go, internal/shim), the record it     *)
(* leaves in deploy.json, and both uninstalls (cmd/cc-clip/main.go).          *)
(*                                                                         *)
(* One command runs at a time, and beside it a connect with --token-only,      *)
(* which registers a nonce too.  An action is one command on the host, or one  *)
(* request to the daemon, with the decision that follows; a file that is read  *)
(* and then replaced is changed in one step.  Any of them can fail or lose its *)
(* answer, commands can be killed, and Claude, the agents and their owner go   *)
(* on meanwhile.                                                           *)
(***************************************************************************)
EXTENDS ClaudeFiles, Naturals

CONSTANTS
    Nonces,
    Events,      \* claudeManagedEvents
    Targets,     \* what connect may be asked to set up
    Broken,      \* a file that does not parse
    MaxCommands, \* bound on commands
    MaxTroubles, \* bound on failures and kills
    MaxOthers    \* bound on connects with --token-only and changes by others

ASSUME NotifySetupAssumption ==
    /\ {MaxCommands, MaxTroubles, MaxOthers} \subseteq Nat
    /\ None \notin Nonces
    /\ \A a, b, c, d \in Nonces \cup {None} : \E n \in Nonces : n \notin {a, b, c, d}
    /\ Events # {}
    /\ \A c \in SUBSET {"current", "stale", "user", "line"} : c # Broken
    /\ \A f \in [Events -> SUBSET {"current", "stale", "bare"}] : f # Broken
    /\ Targets \subseteq SUBSET {"claude", "codex", "plugin", "cursor"}

\* The rows of buildNotifyAdapters; the two agents that get a file of their own count as
\* one, and an agent's claude-notify is Claude's hooks.
Agents == {"codex", "plugin", "cursor"}
Adapters == Agents \cup {"claude"}

\* The commands in an agent's file: the one cc-clip would write, other ones it owns, and
\* the user's own that call cc-clip-hook, or are somebody else's.
Settings == [Events -> SUBSET {"current", "stale", "bare"}] \cup {Broken}
Configs == (SUBSET {"current", "stale", "user", "line"}) \cup {Broken}

VARIABLES
    \* The host:
    settings,  \* hooks in ~/.claude/settings.json
    optOut,    \* ~/.cache/cc-clip/no-hooks
    config,    \* file of each agent
    present,   \* agents that are installed
    remote,    \* notify.nonce
    record,    \* adapters that deploy.json calls installed
    \* The daemon:
    live,      \* the nonce it accepts for this host
    \* The command, and the one beside it:
    pc, op,
    force,     \* connect has --force
    nonce, targets,
    tried, wired, \* adapters that were attempted, and that were installed
    bpc, bnonce,
    \* Ghosts, of no effect on the rest:
    ran,       \* `claude' ran when the command began, or was recovered by it
    was,       \* the record as it was then
    hurt,      \* trouble since
    cut,       \* a script ended between two renames, since then
    blind,     \* the pre-flight for the sidecar had no answer, since then
    raced,     \* a change by others while a command was under way
    told,      \* a connect has said, or could not say, that the nonce may not work
    commands, troubles, others

agents == <<config, present>>
hooks == <<settings, optOut>>
outcome == <<tried, wired>>
beside == <<bpc, bnonce>>
ghosts == <<ran, was, raced, commands>>
scripts == <<cut, blind>>
vars == <<claudeVars, hooks, agents, remote, record, live, pc, op, force, targets, nonce, outcome,
          beside, ghosts, hurt, scripts, told, troubles, others>>

Ended == {"idle", "done", "failed"}

Flags ==
    /\ optOut \in BOOLEAN /\ force \in BOOLEAN /\ ran \in BOOLEAN /\ hurt \in BOOLEAN
    /\ cut \in BOOLEAN /\ blind \in BOOLEAN /\ raced \in BOOLEAN /\ told \in BOOLEAN
Values ==
    /\ settings \in Settings
    /\ config \in [Agents -> Configs] /\ present \subseteq Agents
    /\ remote \in Nonces /\ live \in Nonces
    /\ record \subseteq Adapters /\ was \subseteq Adapters
    /\ pc \in Ended \cup {"detect", "probe", "redetect", "migrate", "state", "register",
                "write", "script", "claude", "check", "strip", "mark", "unmark", "merge", "unwrap",
                "remove", "putback", "install", "overwrite", "preflight",
                "stage", "commit", "codex",
                "plugin", "cursor", "health", "save"}
    /\ op \in {"connect", "uninstall", "uninstall codex"}
    /\ nonce \in Nonces \cup {None} /\ bnonce \in Nonces \cup {None}
    /\ targets \subseteq Adapters /\ tried \subseteq targets /\ wired \subseteq tried
    /\ bpc \in {"idle", "register", "write", "health"}
    /\ commands \in 0 .. MaxCommands
    /\ troubles \in 0 .. MaxTroubles /\ others \in 0 .. MaxOthers
TypeOK == ClaudeTypeOK /\ Values /\ Flags

Fine == UNCHANGED <<hurt, troubles>>
Trouble == troubles < MaxTroubles /\ troubles' = troubles + 1 /\ hurt' = TRUE

Same == UNCHANGED <<op, force, targets, beside, ghosts, others>>

-----------------------------------------------------------------------------
(* The gate, before any write.                                              *)

Begin(what, of, forced, where) ==
    /\ pc \in Ended /\ commands < MaxCommands
    /\ commands' = commands + 1
    /\ op' = what /\ targets' \in of /\ force' \in forced /\ pc' = where
    /\ nonce' = None /\ tried' = {} /\ wired' = {}
    /\ ran' = Runs /\ was' = record /\ raced' = FALSE /\ hurt' = FALSE /\ cut' = FALSE
    /\ blind' = FALSE
    /\ UNCHANGED <<claudeVars, hooks, agents, remote, record, live, beside, told, troubles,
                   others>>

StartConnect == Begin("connect", Targets, BOOLEAN, "detect")

\* DetectV070State, and what comes of it without --auto-recover and with it.
DetectCorruption ==
    /\ pc = "detect"
    /\ \/ pc' = "probe" /\ Trouble
       \/ /\ CASE V070State = "not_corrupted" -> pc' = "state"
               [] V070State = "recoverable" -> pc' \in {"failed", "redetect"}
               [] V070State = "non_recoverable" -> pc' = "failed"
          /\ Fine
    /\ UNCHANGED <<claudeVars, hooks, agents, remote, record, live, nonce, outcome, scripts, told>>
    /\ Same

\* RemoteClaudeProbe with decideN0SkipOnDetectError.
ProbeClaude ==
    /\ pc = "probe"
    /\ \/ pc' = (IF claude = None THEN "state" ELSE "failed") /\ Fine
       \/ pc' = "failed" /\ Trouble
    /\ UNCHANGED <<claudeVars, hooks, agents, remote, record, live, nonce, outcome, scripts, told>>
    /\ Same

\* RecoverV070Corruption looks again, in a command of its own.
DetectAgain ==
    /\ pc = "redetect"
    /\ \/ pc' = (IF V070State = "recoverable" THEN "migrate" ELSE "failed") /\ Fine
       \/ pc' = "failed" /\ Trouble
    /\ UNCHANGED <<claudeVars, hooks, agents, remote, record, live, nonce, outcome, scripts, told>>
    /\ Same

MigrateBackup ==
    /\ pc = "migrate"
    /\ \/ Migrate /\ ran' = TRUE /\ pc' = "state" /\ Fine
       \/ UNCHANGED <<claudeVars, ran>> /\ pc' = "failed" /\ Trouble
    /\ UNCHANGED <<hooks, agents, remote, record, live, op, force, targets, nonce, outcome, beside,
                   was, raced, commands, scripts, told, others>>

-----------------------------------------------------------------------------
(* The record that the set-up starts from.                                   *)

\* newDeployState carries the adapters of the state that was read into the new one, but
\* --force has made that nil.
Base == IF force THEN {} ELSE record

\* ReadRemoteState, which is fatal where it fails without --force, and the first
\* WriteRemoteState; the shim's files between them are left to Connect.  With --no-notify
\* that is all.
WriteState ==
    /\ pc = "state"
    /\ \/ record' = Base /\ Fine
       \/ record' \in {record, Base} /\ Trouble
    /\ pc' \in {"register", "done"}
    /\ UNCHANGED <<claudeVars, hooks, agents, remote, live, nonce, outcome, scripts, told>> /\ Same

-----------------------------------------------------------------------------
(* The nonce: syncNotificationNonce.                                         *)

FreshNonce == CHOOSE n \in Nonces : n \notin {live, remote, nonce, bnonce}
InFlight == nonce # None \/ bpc # "idle"

\* The daemon takes the new nonce and revokes the host's one before it; the answer may be
\* lost.  Without the nonce there is no setup.
RegisterNonce ==
    /\ pc = "register"
    /\ \/ /\ nonce' = FreshNonce /\ live' = nonce' /\ pc' = "write" /\ Fine
          /\ told' = (told /\ InFlight)
       \/ /\ live' \in {live, FreshNonce} /\ pc' = "save" /\ Trouble
          /\ told' = TRUE /\ UNCHANGED nonce
    /\ UNCHANGED <<claudeVars, hooks, agents, remote, record, outcome, scripts>> /\ Same

WriteNonce ==
    /\ pc = "write"
    /\ \/ remote' = nonce /\ pc' = "script" /\ Fine /\ UNCHANGED <<nonce, told>>
       \/ /\ remote' \in {remote, nonce} /\ pc' = "save" /\ Trouble
          /\ told' = TRUE /\ nonce' = None
    /\ UNCHANGED <<claudeVars, hooks, agents, record, live, outcome, scripts>> /\ Same

\* InstallRemoteHookScript, whose failure ends the setup without a probe of the nonce.
InstallHookScript ==
    /\ pc = "script"
    /\ \/ pc' = "claude" /\ Fine /\ UNCHANGED <<nonce, told>>
       \/ pc' = "save" /\ Trouble /\ told' = TRUE /\ nonce' = None
    /\ UNCHANGED <<claudeVars, hooks, agents, remote, record, live, outcome, scripts>> /\ Same

\* Mutant: any answer of the daemon will do.
ProbeAnyAnswer ==
    /\ pc = "health"
    /\ \/ UNCHANGED told /\ Fine
       \/ told' = TRUE /\ Trouble
    /\ pc' = "save" /\ nonce' = None
    /\ UNCHANGED <<claudeVars, hooks, agents, remote, record, live, outcome, scripts>> /\ Same

\* runNotificationHealthProbe
ProbeNonce ==
    /\ pc = "health"
    /\ \/ told' = (told \/ nonce # live) /\ Fine
       \/ told' = TRUE /\ Trouble
    /\ pc' = "save" /\ nonce' = None
    /\ UNCHANGED <<claudeVars, hooks, agents, remote, record, live, outcome, scripts>> /\ Same

\* connect --token-only has a gate and a nonce of its own.
BesideStarts ==
    /\ bpc = "idle" /\ others < MaxOthers /\ ~Corrupt
    /\ bpc' = "register" /\ others' = others + 1
    /\ UNCHANGED <<claudeVars, hooks, agents, remote, record, live, pc, op, force, targets, nonce,
                   outcome, bnonce, ghosts, scripts, told>> /\ Fine

BesideRegisters ==
    /\ bpc = "register"
    /\ \/ /\ bnonce' = FreshNonce /\ live' = bnonce' /\ bpc' = "write" /\ Fine
          /\ told' = (told /\ nonce # None)
       \/ /\ live' \in {live, FreshNonce} /\ bpc' = "idle" /\ Trouble
          /\ told' = TRUE /\ UNCHANGED bnonce
    /\ UNCHANGED <<claudeVars, hooks, agents, remote, record, pc, op, force, targets, nonce,
                   outcome, ghosts, others, scripts>>

BesideWrites ==
    /\ bpc = "write"
    /\ \/ remote' = bnonce /\ bpc' = "health" /\ Fine /\ UNCHANGED <<bnonce, told>>
       \/ /\ remote' \in {remote, bnonce} /\ bpc' = "idle" /\ Trouble
          /\ told' = TRUE /\ bnonce' = None
    /\ UNCHANGED <<claudeVars, hooks, agents, record, live, pc, op, force, targets, nonce, outcome,
                   ghosts, others, scripts>>

BesideProbes ==
    /\ bpc = "health"
    /\ \/ told' = (told \/ bnonce # live) /\ Fine
       \/ told' = TRUE /\ Trouble
    /\ bpc' = "idle" /\ bnonce' = None
    /\ UNCHANGED <<claudeVars, hooks, agents, remote, record, live, pc, op, force, targets, nonce,
                   outcome, ghosts, others, scripts>>

-----------------------------------------------------------------------------
(* Claude's hooks: configureRemoteClaudeHooks.                               *)

Owned == {"current", "stale"}

\* stripManagedFromEvent
Strip(cs) == cs \ Owned

\* A call of cc-clip-hook that the user wrote, and an event that is as cc-clip wants it.
UserOwn(cs) == "bare" \in cs
InOrder(cs) == cs \cap Owned = {"current"}

\* Mutant: beside the user's own call.
MergeBesideBare(cs) == Strip(cs) \cup {"current"}

\* mergeClaudeHooks, of one event: the user's own call of the hook stays alone.
Merge(cs) ==
    IF UserOwn(cs) THEN Strip(cs)
    ELSE IF InOrder(cs) THEN cs
    ELSE Strip(cs) \cup {"current"}

\* A file that parses, to what has hooks where hooks belong.
Readable == settings # Broken

Stripped == IF Readable THEN [e \in Events |-> Strip(settings[e])] ELSE settings
Merged == [e \in Events |-> Merge(settings[e])]

\* --no-hooks, --hooks, or neither; none of them where Claude is no target.
ChooseHooks ==
    /\ pc = "claude"
    /\ IF "claude" \in targets
       THEN pc' \in {"strip", "unmark", "check"} /\ tried' = tried \cup {"claude"}
       ELSE pc' = "codex" /\ UNCHANGED tried
    /\ UNCHANGED <<claudeVars, hooks, agents, remote, record, live, nonce, wired, scripts, told>>
    /\ Fine /\ Same

\* RemoteClaudeHooksDisabled; an answer that does not come counts as no.
CheckOptOut ==
    /\ pc = "check"
    /\ \/ pc' = (IF optOut THEN "strip" ELSE "merge") /\ Fine
       \/ pc' = "merge" /\ Trouble
    /\ UNCHANGED <<claudeVars, hooks, agents, remote, record, live, nonce, outcome, scripts, told>>
    /\ Same

\* RemoveRemoteClaudeManagedHooks.  Where the marker has been found it is as good as set.
StripHooks ==
    /\ pc = "strip"
    /\ \/ settings' = Stripped /\ Fine
       \/ UNCHANGED settings /\ Trouble
    /\ pc' = IF op = "uninstall" THEN "unmark" ELSE "mark"
    /\ UNCHANGED <<claudeVars, optOut, agents, remote, record, live, nonce, outcome, scripts, told>>
    /\ Same

\* SetRemoteClaudeHooksEnabled
Mark ==
    /\ pc = "mark"
    /\ \/ optOut' = TRUE /\ Fine
       \/ ~optOut /\ UNCHANGED optOut /\ Trouble
    /\ pc' = "unwrap"
    /\ UNCHANGED <<claudeVars, settings, agents, remote, record, live, nonce, outcome, scripts,
                   told>>
    /\ Same

Unmark ==
    /\ pc = "unmark"
    /\ \/ optOut' = FALSE /\ Fine
       \/ optOut /\ UNCHANGED optOut /\ Trouble
    /\ pc' = IF op = "uninstall" THEN "unwrap" ELSE "merge"
    /\ UNCHANGED <<claudeVars, settings, agents, remote, record, live, nonce, outcome, scripts,
                   told>>
    /\ Same

\* MergeRemoteClaudeSettingsHooks, with the wrapper where it fails.
MergeHooks ==
    /\ pc = "merge"
    /\ \/ /\ Readable
          /\ settings' = Merged
          /\ wired' = IF \E e \in Events : UserOwn(settings[e]) THEN wired
                      ELSE wired \cup {"claude"}
          /\ pc' = "unwrap" /\ Fine
       \/ /\ pc' = "install" /\ UNCHANGED <<settings, wired>>
          /\ IF Readable THEN Trouble ELSE Fine
    /\ UNCHANGED <<claudeVars, optOut, agents, remote, record, live, nonce, tried, scripts, told>>
    /\ Same

-----------------------------------------------------------------------------
(* The wrapper.                                                             *)

HooksDone == pc' = IF op = "uninstall" THEN "done" ELSE "codex"

\* UninstallRemoteClaudeWrapperIfPresent looks twice.
LookForWrapper ==
    /\ pc = "unwrap"
    /\ \/ /\ IF Kind = "cc_wrapper" THEN pc' = "remove" ELSE HooksDone
          /\ Fine
       \/ HooksDone /\ Trouble
    /\ UNCHANGED <<claudeVars, hooks, agents, remote, record, live, nonce, outcome, scripts, told>>
    /\ Same

RemoveIt ==
    /\ pc = "remove"
    /\ \/ RemoveWrapper /\ pc' = "putback" /\ Fine
       \/ UNCHANGED claudeVars /\ HooksDone /\ Trouble
    /\ UNCHANGED <<hooks, agents, remote, record, live, nonce, outcome, scripts, told>> /\ Same

PutOwnBack ==
    /\ pc = "putback"
    /\ \/ PutBack /\ Fine /\ UNCHANGED cut
       \/ UNCHANGED claudeVars /\ Trouble /\ cut' = TRUE
    /\ HooksDone
    /\ UNCHANGED <<hooks, agents, remote, record, live, nonce, outcome, blind, told>> /\ Same

\* InstallRemoteClaudeWrapper
ClassifyClaude ==
    /\ pc = "install"
    /\ \/ /\ CASE Kind \in {"none", "cc_wrapper"} -> pc' = "overwrite"
               [] Kind \in {"regular", "symlink"} -> pc' = "preflight"
               [] Kind = "other" -> pc' = "codex"
          /\ Fine
       \/ pc' = "codex" /\ Trouble
    /\ UNCHANGED <<claudeVars, hooks, agents, remote, record, live, nonce, outcome, scripts, told>>
    /\ Same

\* The pre-flight refuses a sidecar that is there; the error of its command is dropped,
\* and an answer that does not come is no conflict.
Preflight ==
    /\ pc = "preflight"
    /\ \/ pc' = (IF Conflict THEN "codex" ELSE "stage") /\ Fine /\ UNCHANGED blind
       \/ pc' = "stage" /\ Trouble /\ blind' = TRUE
    /\ UNCHANGED <<claudeVars, hooks, agents, remote, record, live, nonce, outcome, cut, told>>
    /\ Same

Overwrite ==
    /\ pc = "overwrite"
    /\ \/ PutWrapper /\ Fine
       \/ UNCHANGED claudeVars /\ Trouble
    /\ pc' = "codex"
    /\ UNCHANGED <<hooks, agents, remote, record, live, nonce, outcome, scripts, told>> /\ Same

\* The trap of a script that fails before the rename puts back a sidecar that is not its.
StageOwn ==
    /\ pc = "stage"
    /\ \/ Stage /\ pc' = "commit" /\ Fine
       \/ UNCHANGED claudeVars /\ pc' = "codex" /\ Trouble
       \/ sidecar \notin {None, Odd} /\ Unstage /\ pc' = "codex" /\ Trouble
    /\ UNCHANGED <<hooks, agents, remote, record, live, nonce, outcome, scripts, told>> /\ Same

\* Mutant: no trap.
CommitWithoutTrap ==
    /\ pc = "commit"
    /\ \/ Commit /\ Fine
       \/ UNCHANGED claudeVars /\ Trouble
    /\ pc' = "codex"
    /\ UNCHANGED <<hooks, agents, remote, record, live, nonce, outcome, scripts, told>> /\ Same

\* A rename that fails is made good by the trap, the death of the shell is not.
CommitWrapper ==
    /\ pc = "commit"
    /\ \/ Commit /\ Fine /\ UNCHANGED cut
       \/ Unstage /\ Trouble /\ UNCHANGED cut
       \/ UNCHANGED claudeVars /\ Trouble /\ cut' = TRUE
    /\ pc' = "codex"
    /\ UNCHANGED <<hooks, agents, remote, record, live, nonce, outcome, blind, told>> /\ Same

-----------------------------------------------------------------------------
(* The other agents, and the record.                                         *)

\* CodexNotifyLineProblem knows a line of the user's that calls this cc-clip.
OwnLine(c) == "line" \in c

\* What each installer leaves of a file, None where it refuses: codex any other line of the
\* user's, cursor what does not parse.
CodexAfter(c) ==
    IF OwnLine(c) THEN c ELSE IF "user" \in c THEN None ELSE (c \ Owned) \cup {"current"}
PluginAfter == {"current"}
CursorOthers(c) == c \ Owned
CursorAfter(c) == IF c = Broken THEN None ELSE CursorOthers(c) \cup {"current"}

Installed(a) ==
    CASE a = "codex" -> CodexAfter(config[a])
      [] a = "plugin" -> PluginAfter
      [] a = "cursor" -> CursorAfter(config[a])

After(a) == CASE a = "codex" -> "plugin" [] a = "plugin" -> "cursor" [] a = "cursor" -> "health"

\* detectInstallAdapter.run: an agent that is a target counts as tried whether it is there
\* or not.
RunAdapter(a) ==
    /\ pc = a /\ op = "connect"
    /\ \/ a \notin targets /\ UNCHANGED <<config, outcome>> /\ Fine
       \/ /\ a \in targets /\ tried' = tried \cup {a}
          /\ \/ /\ a \in present /\ Installed(a) # None /\ Fine
                /\ config' = [config EXCEPT ![a] = Installed(a)]
                /\ wired' = wired \cup {a}
             \/ /\ a \in present => Installed(a) = None
                /\ UNCHANGED <<config, wired>> /\ Fine
             \/ UNCHANGED <<config, wired>> /\ Trouble
    /\ pc' = After(a)
    /\ UNCHANGED <<claudeVars, hooks, present, remote, record, live, nonce, scripts, told>> /\ Same

\* Mutant: what fails is left as it is recorded.
AppliedSuccesses == Base \cup wired

\* mergeNotifyDeployState, with applyAdapterState of each, and the WriteRemoteState after
\* the set-up, however that ended.
Applied == (Base \ tried) \cup wired
SaveRecord ==
    /\ pc = "save"
    /\ \/ record' = Applied /\ Fine
       \/ record' \in {record, Applied} /\ Trouble
    /\ pc' = "done"
    /\ UNCHANGED <<claudeVars, hooks, agents, remote, live, nonce, outcome, scripts, told>> /\ Same

-----------------------------------------------------------------------------
(* Uninstalls, kills, and the others.                                        *)

StartUninstall == Begin("uninstall", {{}}, {FALSE}, "strip")
StartUninstallCodex == Begin("uninstall codex", {{}}, {FALSE}, "codex")

\* StripRemoteCodexNotifyConfig.  The record keeps the adapter.
StripCodex ==
    /\ pc = "codex" /\ op = "uninstall codex"
    /\ \/ config' = [config EXCEPT !["codex"] = @ \ Owned] /\ Fine
       \/ UNCHANGED config /\ Trouble
    /\ pc' = "done"
    /\ UNCHANGED <<claudeVars, hooks, present, remote, record, live, nonce, outcome, scripts, told>>
    /\ Same

Kill ==
    /\ pc \notin Ended /\ pc \notin {"putback", "commit"} /\ Trouble
    /\ pc' = "failed"
    /\ told' = (told \/ nonce # None) /\ nonce' = None
    /\ UNCHANGED <<claudeVars, hooks, agents, remote, record, live, outcome, scripts>> /\ Same

KillBeside ==
    /\ bpc # "idle" /\ Trouble
    /\ bpc' = "idle" /\ bnonce' = None
    /\ told' = (told \/ bnonce # None)
    /\ UNCHANGED <<claudeVars, hooks, agents, remote, record, live, pc, op, force, targets, nonce,
                   outcome, ghosts, others, scripts>>

\* Claude updates itself, or its owner edits the settings; an agent comes or goes.
Change ==
    /\ others < MaxOthers /\ others' = others + 1
    /\ raced' = TRUE
    /\ \/ /\ \E v \in Claudes : ClaudeUpdates(v)
          /\ UNCHANGED <<settings, present>>
       \/ /\ settings' \in {Broken, [e \in Events |-> {}], [e \in Events |-> {"bare"}]}
          /\ UNCHANGED <<claudeVars, present>>
       \/ /\ \E a \in Agents : present' = (present \ {a}) \cup ({a} \ present)
          /\ UNCHANGED <<claudeVars, settings>>
    /\ UNCHANGED <<optOut, config, remote, record, live, pc, op, force, targets, nonce, outcome,
                   beside, ran, was, scripts, told, commands>> /\ Fine

CommandStep ==
    \/ DetectCorruption \/ ProbeClaude \/ DetectAgain \/ MigrateBackup \/ WriteState
    \/ RegisterNonce \/ WriteNonce \/ InstallHookScript \/ ProbeNonce
    \/ ChooseHooks \/ CheckOptOut \/ StripHooks \/ Mark \/ Unmark \/ MergeHooks
    \/ LookForWrapper \/ RemoveIt \/ PutOwnBack
    \/ ClassifyClaude \/ Preflight \/ Overwrite \/ StageOwn \/ CommitWrapper
    \/ (\E a \in Agents : RunAdapter(a)) \/ SaveRecord \/ StripCodex

Next ==
    \/ StartConnect \/ StartUninstall \/ StartUninstallCodex
    \/ CommandStep \/ Kill
    \/ BesideStarts \/ BesideRegisters \/ BesideWrites \/ BesideProbes \/ KillBeside
    \/ Change

\* A host that an older release, or nobody, has set up.
Init ==
    /\ ClaudeInit
    /\ settings \in {Broken, [e \in Events |-> {"stale"}],
                     [e \in Events |-> IF e = CHOOSE f \in Events : TRUE
                                       THEN {"bare", "stale"} ELSE {}]}
    /\ optOut = FALSE
    /\ config = IF settings = Broken
                THEN [codex |-> {"line"}, plugin |-> {"current"}, cursor |-> Broken]
                ELSE [codex |-> {"stale"}, plugin |-> {}, cursor |-> {"user"}]
    /\ present = Agents
    /\ live = (CHOOSE n \in Nonces : TRUE) /\ remote = live /\ record = {}
    /\ pc = "idle" /\ op = "connect" /\ force = FALSE /\ targets = {} /\ nonce = None
    /\ tried = {} /\ wired = {}
    /\ bpc = "idle" /\ bnonce = None
    /\ ran = Runs /\ was = {}
    /\ hurt = FALSE /\ cut = FALSE /\ blind = FALSE /\ raced = FALSE /\ told = FALSE
    /\ commands = 0 /\ troubles = 0 /\ others = 0

Spec == Init /\ [][Next]_vars

-----------------------------------------------------------------------------
(* Properties.                                                              *)

\* No step of a command takes the last copy of a version of Claude, whatever state the
\* steps before it, and commands that were cut short, have left the entry, the sidecar and
\* the backup in, and whatever Claude itself does in between, but for a recovery whose
\* target is updated after it has looked and a pre-flight that had no answer.
KeepsReal ==
    [][CommandStep /\ ~(pc = "migrate" /\ raced) /\ ~(pc = "stage" /\ blind)
            => \A v \in Claudes : Exists(v) => Exists(v)']_vars

\* A host on which `claude' ran, or where this command has recovered it from v0.7.0's
\* damage, runs it when the command has ended, failed or not, also where there was a wrapper
\* or a stale sidecar; only a script that dies between two renames, or a pre-flight without
\* an answer, takes it away.
EntryServes ==
    pc \in Ended /\ ran /\ ~cut /\ ~blind /\ ~raced => Runs

\* How often an event of Claude makes a notification: by a hook of cc-clip's, by one of
\* the user's, and by the wrapper, unless the host has opted out.
Sources(e) ==
    (IF settings # Broken THEN settings[e] ELSE {})
        \cup (IF claude = Wrapper /\ ~optOut THEN {"wrapper"} ELSE {})

\* A connect for Claude in which nothing goes wrong leaves no event that notifies twice,
\* and none that cc-clip makes notify on a host that has opted out.
NotifiesOnce ==
    pc = "done" /\ op = "connect" /\ "claude" \in tried /\ ~hurt /\ ~raced =>
        \A e \in Events :
            /\ \A s, t \in Sources(e) : s = t
            /\ optOut => Sources(e) \subseteq {"bare"}

\* The nonce on the host is the one that the daemon accepts, or a connect has said that it
\* may not be, or was killed: no two connects that overlap both end well and leave the
\* host with a nonce that the other has revoked.
ToldIfRevoked == ~InFlight /\ ~told => remote = live

\* What a connect did not try is recorded as before when it has ended, whatever failed, or
\* not at all with --force, which discards the record on purpose: no failure and no death
\* leaves half of an old record.  After one in which nothing went wrong each adapter that
\* it tried and that the record calls installed is in the file of its agent, and with
\* --force the record names no other.
InPlace(a) ==
    IF a = "claude" THEN settings # Broken /\ \A e \in Events : settings[e] = {"current"}
    ELSE config[a] # Broken /\ config[a] \cap {"current", "line"} # {}
RecordHonest ==
    pc \in Ended /\ op = "connect" =>
        /\ record \ tried = was \ tried \/ (force /\ record \subseteq tried)
        /\ pc = "done" /\ ~hurt /\ ~raced =>
            /\ force => record \subseteq tried
            /\ \A a \in record \cap tried : InPlace(a)
===============================================================================
