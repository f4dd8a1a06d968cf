--------------------------- MODULE NotifySetupProofs ---------------------------
(***************************************************************************)
(* Proofs about NotifySetup, for any versions of Claude, events, nonces and    *)
(* number of commands and troubles: types, the copies of Claude and what      *)
(* `claude' runs, the nonce, the record and the hooks.                       *)
(***************************************************************************)
EXTENDS NotifySetup, TLAPS

-----------------------------------------------------------------------------
(* Types.  What is written as wired has been tried, which is nothing before the *)
(* nonce, and Codex' file parses.                                            *)

Gate == {"detect", "probe", "redetect", "migrate", "state"}
Attempted ==
    /\ pc \in Gate => tried = {}
    /\ pc \in {"check", "merge"} => "claude" \in tried
    /\ pc \in {"strip", "unmark"} /\ op # "uninstall" => "claude" \in tried
    /\ config["codex"] # Broken
    /\ pc = "write" => nonce # None
    /\ bpc = "write" => bnonce # None

TypeInv == Values /\ Attempted

LEMMA Bounds == MaxCommands \in Nat /\ MaxTroubles \in Nat /\ MaxOthers \in Nat
  BY NotifySetupAssumption

\* A counter below its bound.
LEMMA Counted ==
    ASSUME NEW b \in Nat, NEW n \in 0 .. b, NEW m, m = n \/ (n < b /\ m = n + 1)
    PROVE  m \in 0 .. b
  OBVIOUS

\* A fresh nonce is nobody's.
LEMMA FreshNonceType ==
    ASSUME Values
    PROVE  FreshNonce \in Nonces /\ FreshNonce \notin {live, remote, nonce, bnonce}
  BY NotifySetupAssumption DEF Values, FreshNonce

LEMMA TroubleType ==
    ASSUME Values, Trouble \/ Fine
    PROVE  troubles' \in 0 .. MaxTroubles
  <1>1. troubles \in 0 .. MaxTroubles
    BY DEF Values
  <1>2. troubles' = troubles \/ (troubles < MaxTroubles /\ troubles' = troubles + 1)
    BY DEF Trouble, Fine
  <1> QED
    BY <1>1, <1>2, Bounds, Counted

\* A claude of a known kind.
LEMMA Kinds ==
    ASSUME ClaudeTypeOK
    PROVE  /\ Kind \in {"none", "cc_wrapper", "symlink", "regular", "other"}
           /\ Kind \in {"none", "cc_wrapper"} => claude \in {None, Wrapper}
           /\ Kind = "cc_wrapper" => claude = Wrapper
  BY ClaudeFilesAssumption DEF ClaudeTypeOK, Files, Kind

LEMMA CodexConfig ==
    ASSUME Values, Attempted
    PROVE  config["codex"] \in SUBSET {"current", "stale", "user", "line"}
  <1>1. config["codex"] \in Configs
    BY DEF Values, Agents
  <1>2. config["codex"] # Broken
    BY DEF Attempted
  <1> QED
    BY <1>1, <1>2 DEF Configs

\* What an agent's installer leaves parses.
LEMMA AdapterType ==
    ASSUME Values, Attempted, NEW a \in Agents, Installed(a) # None
    PROVE  Installed(a) \in Configs /\ (a = "codex" => Installed(a) # Broken)
  <1> DEFINE Known == {"current", "stale", "user", "line"}
  <1>1. \A c \in SUBSET Known : (c \ Owned) \cup {"current"} \in SUBSET Known
    BY DEF Owned
  <1>2. CASE a = "codex"
    <2>1. config["codex"] \in SUBSET Known
      BY CodexConfig
    <2>2. CodexAfter(config["codex"]) \in (SUBSET Known) \cup {None}
      BY <1>1, <2>1 DEF CodexAfter
    <2>3. Installed(a) = CodexAfter(config["codex"])
      BY <1>2 DEF Installed
    <2> QED
      BY <2>2, <2>3, NotifySetupAssumption DEF Configs
  <1>3. CASE a = "plugin"
    BY <1>3 DEF Installed, PluginAfter, Configs
  <1>4. CASE a = "cursor"
    <2>1. config["cursor"] \in Configs
      BY DEF Values, Agents
    <2>2. Installed(a) = CursorAfter(config["cursor"])
      BY <1>4 DEF Installed
    <2> QED
      BY <1>1, <1>4, <2>1, <2>2 DEF CursorAfter, CursorOthers, Configs
  <1> QED
    BY <1>2, <1>3, <1>4 DEF Agents

\* And it has cc-clip's command in it, or the user's line that calls cc-clip.
LEMMA AdapterInPlace ==
    ASSUME Values, Attempted, NEW a \in Agents, Installed(a) # None
    PROVE  Installed(a) # Broken /\ Installed(a) \cap {"current", "line"} # {}
  <1>1. CASE a = "codex"
    <2>1. Installed(a) = CodexAfter(config["codex"]) /\ Installed(a) # Broken
      BY <1>1, AdapterType DEF Installed
    <2> QED
      BY <2>1 DEF CodexAfter, OwnLine
  <1>2. CASE a = "plugin"
    BY <1>2, NotifySetupAssumption DEF Installed, PluginAfter
  <1>3. CASE a = "cursor"
    <2>1. config["cursor"] \in Configs /\ Installed(a) = CursorAfter(config["cursor"])
      BY <1>3 DEF Values, Agents, Installed
    <2>2. config["cursor"] # Broken /\ Installed(a) = (config["cursor"] \ Owned) \cup {"current"}
      BY <2>1 DEF CursorAfter, CursorOthers
    <2>3. Installed(a) \in SUBSET {"current", "stale", "user", "line"}
      BY <2>1, <2>2 DEF Configs
    <2> QED
      BY <2>2, <2>3, NotifySetupAssumption
  <1> QED
    BY <1>1, <1>2, <1>3 DEF Agents

\* What is found at a place of a host is moved, and nothing else is put there.
LEMMA FilesType ==
    ASSUME ClaudeTypeOK,
           Migrate \/ PutWrapper \/ Stage \/ Unstage \/ RemoveWrapper \/ PutBack
             \/ (\E v \in Claudes : ClaudeUpdates(v)) \/ UNCHANGED claudeVars
    PROVE  ClaudeTypeOK'
  <1> USE DEF ClaudeTypeOK, Files, claudeVars
  <1>1. CASE Migrate
    BY <1>1 DEF Migrate, Links
  <1>2. CASE \E v \in Claudes : ClaudeUpdates(v)
    BY <1>2 DEF ClaudeUpdates, Links
  <1> QED
    BY <1>1, <1>2 DEF PutWrapper, Stage, Unstage, RemoveWrapper, PutBack

\* Which steps leave Claude's files alone.
Quiet ==
    \/ DetectCorruption \/ ProbeClaude \/ DetectAgain \/ WriteState
    \/ RegisterNonce \/ WriteNonce \/ InstallHookScript \/ ProbeNonce
    \/ ChooseHooks \/ CheckOptOut \/ StripHooks \/ Mark \/ Unmark \/ MergeHooks
    \/ LookForWrapper \/ ClassifyClaude \/ Preflight
    \/ (\E a \in Agents : RunAdapter(a)) \/ SaveRecord \/ StripCodex
    \/ StartConnect \/ StartUninstall \/ StartUninstallCodex \/ Kill
    \/ BesideStarts \/ BesideRegisters \/ BesideWrites \/ BesideProbes \/ KillBeside

LEMMA QuietFiles ==
    ASSUME Quiet
    PROVE  UNCHANGED claudeVars
  BY DEF Quiet, DetectCorruption, ProbeClaude, DetectAgain, WriteState, RegisterNonce, WriteNonce,
         InstallHookScript, ProbeNonce, ChooseHooks, CheckOptOut, StripHooks, Mark, Unmark,
         MergeHooks, LookForWrapper, ClassifyClaude, Preflight, RunAdapter, SaveRecord,
         StripCodex, StartConnect, StartUninstall, StartUninstallCodex, Begin, Kill,
         BesideStarts, BesideRegisters, BesideWrites, BesideProbes, KillBeside

LEMMA FilesStep ==
    ASSUME ClaudeTypeOK, [Next]_vars
    PROVE  ClaudeTypeOK'
  <1>1. CASE Quiet \/ UNCHANGED vars
    BY <1>1, QuietFiles, FilesType DEF vars
  <1>2. CASE MigrateBackup \/ RemoveIt \/ PutOwnBack \/ Overwrite \/ StageOwn \/ CommitWrapper
             \/ Change
    BY <1>2, FilesType
       DEF MigrateBackup, RemoveIt, PutOwnBack, Overwrite, StageOwn, CommitWrapper, Commit, Change
  <1> QED
    BY <1>1, <1>2 DEF Next, CommandStep, Quiet

LEMMA FlagsStep ==
    ASSUME Flags, [Next]_vars
    PROVE  Flags'
  <1> USE DEF Flags, Trouble, Fine, hooks, outcome, beside, ghosts, scripts, Same
  <1>1. CASE DetectCorruption \/ ProbeClaude \/ DetectAgain \/ WriteState
    BY <1>1 DEF DetectCorruption, ProbeClaude, DetectAgain, WriteState
  <1>2. CASE RegisterNonce \/ WriteNonce \/ InstallHookScript \/ ProbeNonce
    BY <1>2 DEF RegisterNonce, WriteNonce, InstallHookScript, ProbeNonce
  <1>3. CASE MigrateBackup \/ RemoveIt \/ PutOwnBack \/ Overwrite \/ StageOwn \/ CommitWrapper
    BY <1>3 DEF MigrateBackup, RemoveIt, PutOwnBack, Overwrite, StageOwn, CommitWrapper
  <1>4. CASE Kill \/ LookForWrapper \/ ClassifyClaude \/ Preflight
    BY <1>4 DEF Kill, LookForWrapper, ClassifyClaude, Preflight
  <1>5. CASE ChooseHooks \/ CheckOptOut \/ StripHooks \/ Mark \/ Unmark \/ MergeHooks
    BY <1>5 DEF ChooseHooks, CheckOptOut, StripHooks, Mark, Unmark, MergeHooks
  <1>6. CASE (\E a \in Agents : RunAdapter(a)) \/ SaveRecord \/ StripCodex
    BY <1>6, ZenonT(60) DEF RunAdapter, SaveRecord, StripCodex
  <1>7. CASE StartConnect \/ StartUninstall \/ StartUninstallCodex \/ Change
    BY <1>7 DEF StartConnect, StartUninstall, StartUninstallCodex, Change, Begin, Runs
  <1>8. CASE BesideStarts \/ BesideRegisters \/ BesideWrites \/ BesideProbes \/ KillBeside
    BY <1>8 DEF BesideStarts, BesideRegisters, BesideWrites, BesideProbes, KillBeside
  <1>9. CASE UNCHANGED vars
    BY <1>9 DEF vars
  <1> QED
    BY <1>1, <1>2, <1>3, <1>4, <1>5, <1>6, <1>7, <1>8, <1>9 DEF Next, CommandStep

\* The gate, the nonce of a connect, and the wrapper.
LEMMA NonceType ==
    ASSUME ClaudeTypeOK, TypeInv,
           \/ DetectCorruption \/ ProbeClaude \/ DetectAgain \/ MigrateBackup \/ WriteState
           \/ RegisterNonce \/ WriteNonce \/ InstallHookScript \/ ProbeNonce
           \/ LookForWrapper \/ RemoveIt \/ PutOwnBack
           \/ ClassifyClaude \/ Preflight \/ Overwrite \/ StageOwn \/ CommitWrapper
           \/ Kill
    PROVE  TypeInv'
  <1> USE DEF TypeInv, Values, Attempted, Gate, Ended, hooks, agents, outcome, beside, ghosts, Same
  <1>1. troubles' \in 0 .. MaxTroubles
    BY TroubleType
       DEF DetectCorruption, ProbeClaude, DetectAgain, MigrateBackup, WriteState, RegisterNonce,
           WriteNonce, InstallHookScript, ProbeNonce, LookForWrapper, RemoveIt, PutOwnBack,
           ClassifyClaude, Preflight, Overwrite, StageOwn, CommitWrapper, Kill
  <1>2. CASE DetectCorruption \/ ProbeClaude \/ DetectAgain
    BY <1>1, <1>2 DEF DetectCorruption, ProbeClaude, DetectAgain, V070State
  <1>3. CASE MigrateBackup \/ RemoveIt \/ PutOwnBack \/ Overwrite \/ StageOwn \/ CommitWrapper
    BY <1>1, <1>3 DEF MigrateBackup, RemoveIt, PutOwnBack, Overwrite, StageOwn, CommitWrapper,
                      HooksDone
  <1>4. CASE RegisterNonce
    <2>1. PICK n \in Nonces : n = FreshNonce
      BY FreshNonceType
    <2>2. /\ nonce' \in {nonce, n} /\ live' \in {live, n} /\ pc' \in {"write", "save"}
          /\ pc' = "write" => nonce' = n
          /\ UNCHANGED <<hooks, agents, remote, record, outcome>> /\ Same
      BY <1>4, <2>1 DEF RegisterNonce
    <2>3. n # None
      BY NotifySetupAssumption
    <2> QED
      BY <1>1, <2>2, <2>3
  <1>8. CASE WriteNonce \/ InstallHookScript \/ ProbeNonce
    <2>1. /\ nonce' \in {nonce, None} /\ remote' \in Nonces
          /\ pc' \in {"script", "claude", "save"}
      BY <1>8 DEF WriteNonce, InstallHookScript, ProbeNonce
    <2>2. UNCHANGED <<hooks, agents, record, live, outcome>> /\ Same
      BY <1>8 DEF WriteNonce, InstallHookScript, ProbeNonce
    <2> QED
      BY <1>1, <2>1, <2>2, ZenonT(60)
  <1>5. CASE LookForWrapper
    BY <1>1, <1>5 DEF LookForWrapper, HooksDone
  <1>6. CASE ClassifyClaude \/ Preflight
    <2>1. pc' \in {"overwrite", "preflight", "codex", "stage"}
      BY <1>6, Kinds DEF ClassifyClaude, Preflight
    <2> QED
      BY <1>1, <1>6, <2>1 DEF ClassifyClaude, Preflight
  <1>7. CASE Kill
    BY <1>1, <1>7 DEF Kill
  <1>9. CASE WriteState
    <2>1. record' \subseteq Adapters
      BY <1>9 DEF WriteState, Base
    <2> QED
      BY <1>1, <1>9, <2>1 DEF WriteState
  <1> QED
    BY <1>2, <1>3, <1>4, <1>5, <1>6, <1>7, <1>8, <1>9

\* Claude's hooks, the agents and the record.
LEMMA HooksType ==
    ASSUME TypeInv,
           \/ ChooseHooks \/ CheckOptOut \/ StripHooks \/ Mark \/ Unmark \/ MergeHooks
           \/ (\E a \in Agents : RunAdapter(a)) \/ SaveRecord \/ StripCodex
    PROVE  TypeInv'
  <1> USE DEF TypeInv, Values, Attempted, Gate, Ended, hooks, agents, outcome, beside, ghosts, Same
  <1>1. troubles' \in 0 .. MaxTroubles
    BY TroubleType DEF ChooseHooks, CheckOptOut, StripHooks, Mark, Unmark, MergeHooks, RunAdapter,
                       SaveRecord, StripCodex
  <1>2. CASE ChooseHooks \/ CheckOptOut
    BY <1>1, <1>2 DEF ChooseHooks, CheckOptOut
  <1>3. CASE StripHooks
    <2>1. settings' \in Settings
      BY <1>3 DEF StripHooks, Stripped, Readable, Strip, Settings
    <2> QED
      BY <1>1, <1>3, <2>1 DEF StripHooks
  <1>4. CASE Mark \/ Unmark
    BY <1>1, <1>4 DEF Mark, Unmark
  <1>5. CASE MergeHooks
    <2>1. settings' \in Settings
      <3>1. \A cs \in SUBSET {"current", "stale", "bare"} :
              Merge(cs) \in SUBSET {"current", "stale", "bare"}
        BY DEF Merge, UserOwn, InOrder, Strip
      <3> HIDE DEF Merge
      <3> QED
        BY <1>5, <3>1, ZenonT(60) DEF MergeHooks, Merged, Readable, Settings
    <2> QED
      BY <1>1, <1>5, <2>1 DEF MergeHooks
  <1>6. CASE \E a \in Agents : RunAdapter(a)
    <2> PICK a \in Agents : RunAdapter(a)
      BY <1>6
    <2>1. Installed(a) # None =>
            Installed(a) \in Configs /\ (a = "codex" => Installed(a) # Broken)
      BY AdapterType
    <2>2. config' \in [Agents -> Configs] /\ config'["codex"] # Broken
      BY <2>1 DEF RunAdapter, Agents
    <2>3. tried' \subseteq targets' /\ wired' \subseteq tried'
      BY DEF RunAdapter
    <2>4. pc' \in {"plugin", "cursor", "health"}
      BY DEF RunAdapter, After, Agents
    <2> QED
      BY <1>1, <2>2, <2>3, <2>4 DEF RunAdapter
  <1>7. CASE SaveRecord
    BY <1>1, <1>7 DEF SaveRecord, Applied, Base
  <1>8. CASE StripCodex
    <2>1. config["codex"] \ Owned \in Configs /\ config["codex"] \ Owned # Broken
      BY CodexConfig, NotifySetupAssumption DEF Configs
    <2> QED
      BY <1>1, <1>8, <2>1 DEF StripCodex, Agents
  <1> QED
    BY <1>2, <1>3, <1>4, <1>5, <1>6, <1>7, <1>8

\* Starts, the connect beside, and others.
LEMMA OthersType ==
    ASSUME TypeInv,
           \/ StartConnect \/ StartUninstall \/ StartUninstallCodex
           \/ BesideStarts \/ BesideRegisters \/ BesideWrites \/ BesideProbes \/ KillBeside
           \/ Change
    PROVE  TypeInv'
  <1> USE DEF TypeInv, Values, Attempted, Gate, hooks, agents, outcome, beside, ghosts
  <1>1. CASE StartConnect \/ StartUninstall \/ StartUninstallCodex
    <2>1. commands' \in 0 .. MaxCommands
      <3>1. commands < MaxCommands /\ commands' = commands + 1
        BY <1>1 DEF StartConnect, StartUninstall, StartUninstallCodex, Begin
      <3> QED
        BY <3>1, Bounds, Counted
    <2>2. targets' \subseteq Adapters
      BY <1>1, NotifySetupAssumption
         DEF StartConnect, StartUninstall, StartUninstallCodex, Begin, Adapters, Agents
    <2> QED
      BY <1>1, <2>1, <2>2 DEF StartConnect, StartUninstall, StartUninstallCodex, Begin
  <1>2. CASE BesideStarts \/ BesideRegisters \/ BesideWrites \/ BesideProbes \/ KillBeside
    <2>1. troubles' \in 0 .. MaxTroubles
      BY <1>2, TroubleType
         DEF BesideStarts, BesideRegisters, BesideWrites, BesideProbes, KillBeside
    <2>2. others' \in 0 .. MaxOthers
      <3>1. others' = others \/ (others < MaxOthers /\ others' = others + 1)
        BY <1>2 DEF BesideStarts, BesideRegisters, BesideWrites, BesideProbes, KillBeside
      <3> QED
        BY <3>1, Bounds, Counted
    <2>3. PICK n \in Nonces : n = FreshNonce
      BY FreshNonceType
    <2>4. /\ live' \in {live, n} /\ bpc' \in {"idle", "register", "write", "health"}
          /\ bnonce' \in {bnonce, n, None} /\ remote' \in Nonces
          /\ bpc' = "write" => bnonce' # None
      BY <1>2, <2>3, NotifySetupAssumption
         DEF BesideStarts, BesideRegisters, BesideWrites, BesideProbes, KillBeside
    <2>5. /\ UNCHANGED <<hooks, agents, record, pc, op, targets, nonce, outcome>>
          /\ UNCHANGED <<was, commands>>
      BY <1>2 DEF BesideStarts, BesideRegisters, BesideWrites, BesideProbes, KillBeside
    <2> QED
      BY <2>1, <2>2, <2>4, <2>5, ZenonT(60)
  <1>3. CASE Change
    <2>1. others' \in 0 .. MaxOthers /\ UNCHANGED troubles
      <3>1. others < MaxOthers /\ others' = others + 1 /\ UNCHANGED troubles
        BY <1>3 DEF Change, Fine
      <3> QED
        BY <3>1, Bounds, Counted
    <2>2. settings' \in Settings
      BY <1>3, ZenonT(60) DEF Change, Settings
    <2>3. present' \subseteq Agents
      BY <1>3 DEF Change
    <2>4. /\ UNCHANGED <<optOut, config, remote, record, live, pc, op, targets, nonce>>
          /\ UNCHANGED <<outcome, beside, was, commands>>
      BY <1>3 DEF Change
    <2> QED
      BY <2>1, <2>2, <2>3, <2>4, ZenonT(60)
  <1> QED
    BY <1>1, <1>2, <1>3

LEMMA TypeInvHolds == Spec => [](ClaudeTypeOK /\ Flags /\ TypeInv)
  <1>1. Init => ClaudeTypeOK /\ Flags /\ TypeInv
    <2> SUFFICES ASSUME Init PROVE ClaudeTypeOK /\ Flags /\ TypeInv
      OBVIOUS
    <2>1. ClaudeTypeOK
      <3>1. PICK v \in Claudes : v = CHOOSE w \in Claudes : TRUE
        BY ClaudeFilesAssumption
      <3>2. /\ claude \in {None, Wrapper, Odd, Program(v), Link(v)}
            /\ sidecar \in {None, Odd, Program(v), Link(v)}
            /\ bak \in {None, Wrapper, Odd, Program(v)}
        BY <3>1 DEF Init, ClaudeInit
      <3>3. store \in [Claudes -> {"real", "wrapper", "gone"}]
        BY <3>1 DEF Init, ClaudeInit
      <3>4. Program(v) \in Programs /\ Link(v) \in Links
        BY DEF Programs, Links
      <3> QED
        BY <3>2, <3>3, <3>4 DEF ClaudeTypeOK, Files
    <2>2. Flags
      BY DEF Init, Flags, Runs
    <2>3. settings \in Settings
      BY DEF Init, Settings
    <2>4. config \in [Agents -> Configs] /\ config["codex"] # Broken
      <3>1. {{"line"}, {"current"}, {"stale"}, {}, {"user"}, Broken} \subseteq Configs
        BY DEF Configs
      <3>2. {"line"} # Broken /\ {"stale"} # Broken
        BY NotifySetupAssumption
      <3> QED
        BY <3>1, <3>2, SMTT(60) DEF Init, Agents
    <2>5. live \in Nonces
      BY NotifySetupAssumption DEF Init
    <2>6. record = {} /\ was = {} /\ targets = {} /\ tried = {} /\ wired = {} /\ present = Agents
      BY DEF Init
    <2>7. /\ pc = "idle" /\ op = "connect" /\ bpc = "idle" /\ nonce = None /\ bnonce = None
          /\ remote = live /\ commands = 0 /\ troubles = 0 /\ others = 0
      BY DEF Init
    <2>8. TypeInv
      BY <2>3, <2>4, <2>5, <2>6, <2>7, Bounds DEF TypeInv, Values, Attempted, Gate, Ended
    <2> QED
      BY <2>1, <2>2, <2>8
  <1>2. ClaudeTypeOK /\ Flags /\ TypeInv /\ [Next]_vars => (ClaudeTypeOK /\ Flags /\ TypeInv)'
    <2> SUFFICES ASSUME ClaudeTypeOK, Flags, TypeInv, [Next]_vars
                 PROVE  (ClaudeTypeOK /\ Flags /\ TypeInv)'
      OBVIOUS
    <2>1. CASE UNCHANGED vars
      <3>1. UNCHANGED <<settings, agents, remote, record, live, pc, op, targets, nonce, outcome,
                        beside, was, commands, troubles, others>>
        BY <2>1 DEF vars, hooks, ghosts
      <3>2. TypeInv'
        BY <3>1, ZenonT(60) DEF TypeInv, Values, Attempted, Gate, agents, outcome, beside
      <3> QED
        BY <3>2, FilesStep, FlagsStep
    <2>2. CASE Next
      <3>1. TypeInv'
        BY <2>2, NonceType, HooksType, OthersType DEF Next, CommandStep
      <3> QED
        BY <3>1, FilesStep, FlagsStep
    <2> QED
      BY <2>1, <2>2
  <1> QED
    BY <1>1, <1>2, PTL DEF Spec

\* All that the host, the commands and the daemon keep has its type, and what is called
\* installed has been tried.
THEOREM TypeCorrect == Spec => []TypeOK
  <1>1. ClaudeTypeOK /\ Flags /\ TypeInv => TypeOK
    BY DEF TypeInv, TypeOK
  <1> QED
    BY <1>1, TypeInvHolds, PTL

-----------------------------------------------------------------------------
(* The copies of Claude.                                                    *)

\* What is about to be written over is no program, what is about to be moved has a free
\* place to go, and the backup of v0.7.0 is of the version that it damaged.
Handled ==
    /\ pc \in {"overwrite", "remove", "putback", "commit"} => claude \notin Programs
    /\ pc = "stage" /\ ~blind => sidecar = None
    /\ pc = "migrate" /\ ~raced => Corrupt /\ bak \in Programs
    /\ \A v \in Claudes : store[v] = "wrapper" /\ bak \in Programs => bak.v = v

LEMMA HandledQuiet ==
    ASSUME ClaudeTypeOK, Handled, Quiet
    PROVE  Handled'
  <1>1. UNCHANGED <<claude, sidecar, bak, store>>
    BY QuietFiles DEF claudeVars
  <1>2. Corrupt' = Corrupt
    BY <1>1 DEF Corrupt, Links
  <1> USE DEF Handled, ghosts, beside, scripts, Same
  <1>3. CASE pc' \notin {"overwrite", "remove", "putback", "commit", "stage", "migrate"}
    BY <1>1, <1>3
  <1>4. CASE DetectAgain
    BY <1>1, <1>2, <1>4 DEF DetectAgain, V070State
  <1>5. CASE LookForWrapper \/ ClassifyClaude
    <2>1. {None, Wrapper} \cap Programs = {}
      BY ClaudeFilesAssumption
    <2> QED
      BY <1>1, <1>5, <2>1, Kinds DEF LookForWrapper, ClassifyClaude, HooksDone
  <1>6. CASE Preflight
    BY <1>1, <1>6 DEF Preflight, Conflict
  <1>7. CASE UNCHANGED <<pc, blind, raced>>
    BY <1>1, <1>2, <1>7
  <1>8. ASSUME DetectCorruption \/ ProbeClaude \/ WriteState \/ RegisterNonce \/ WriteNonce
                 \/ InstallHookScript \/ ProbeNonce \/ ChooseHooks \/ CheckOptOut \/ StripHooks
                 \/ Mark \/ Unmark \/ MergeHooks \/ SaveRecord \/ StripCodex \/ Kill
                 \/ StartConnect \/ StartUninstall \/ StartUninstallCodex
        PROVE  pc' \notin {"overwrite", "remove", "putback", "commit", "stage", "migrate"}
    BY <1>8 DEF DetectCorruption, V070State, ProbeClaude, WriteState, RegisterNonce, WriteNonce,
                InstallHookScript, ProbeNonce, ChooseHooks, CheckOptOut, StripHooks, Mark, Unmark,
                MergeHooks, SaveRecord, StripCodex, Kill, StartConnect, StartUninstall,
                StartUninstallCodex, Begin
  <1>9. ASSUME NEW a \in Agents, RunAdapter(a)
        PROVE  pc' \notin {"overwrite", "remove", "putback", "commit", "stage", "migrate"}
    BY <1>9 DEF RunAdapter, After, Agents
  <1>10. ASSUME BesideStarts \/ BesideRegisters \/ BesideWrites \/ BesideProbes \/ KillBeside
         PROVE  UNCHANGED <<pc, blind, raced>>
    BY <1>10 DEF BesideStarts, BesideRegisters, BesideWrites, BesideProbes, KillBeside
  <1> HIDE DEF Handled
  <1> QED
    BY <1>3, <1>4, <1>5, <1>6, <1>7, <1>8, <1>9, <1>10 DEF Quiet

LEMMA HandledStep ==
    ASSUME ClaudeTypeOK, Handled, [Next]_vars
    PROVE  Handled'
  <1> USE DEF Handled, ghosts, scripts, Same, ClaudeTypeOK
  <1>1. CASE Quiet
    BY <1>1, HandledQuiet
  <1>2. CASE MigrateBackup
    BY <1>2, ClaudeFilesAssumption DEF MigrateBackup, Migrate, claudeVars, Programs, Links
  <1>3. CASE RemoveIt
    BY <1>3, ClaudeFilesAssumption DEF RemoveIt, RemoveWrapper, HooksDone, claudeVars
  <1>4. CASE PutOwnBack \/ Overwrite
    BY <1>4 DEF PutOwnBack, PutBack, Overwrite, PutWrapper, Unstage, HooksDone, claudeVars
  <1>5. CASE StageOwn
    BY <1>5, ClaudeFilesAssumption DEF StageOwn, Stage, Unstage, claudeVars
  <1>6. CASE CommitWrapper
    BY <1>6 DEF CommitWrapper, Commit, PutWrapper, Unstage, claudeVars
  <1>7. CASE Change
    <2>1. raced' = TRUE /\ UNCHANGED <<pc, blind>>
      BY <1>7 DEF Change
    <2>2. CASE UNCHANGED claudeVars
      BY <2>1, <2>2 DEF claudeVars
    <2>3. CASE \E v \in Claudes : ClaudeUpdates(v)
      <3>1. Links \cap Programs = {}
        BY DEF Links, Programs, Link, Program
      <3>2. UNCHANGED <<sidecar, bak>> /\ claude' \in Links
        BY <2>3 DEF ClaudeUpdates, Links
      <3>3. \A v \in Claudes : store'[v] = "wrapper" => store[v] = "wrapper"
        BY <2>3 DEF ClaudeUpdates
      <3> QED
        BY <2>1, <3>1, <3>2, <3>3
    <2> QED
      BY <1>7, <2>2, <2>3 DEF Change
  <1>8. CASE UNCHANGED vars
    <2>1. UNCHANGED <<claude, sidecar, bak, store, pc, blind, raced>>
      BY <1>8 DEF vars, claudeVars
    <2>2. Corrupt' = Corrupt
      BY <2>1 DEF Corrupt, Links
    <2> QED
      BY <2>1, <2>2
  <1> QED
    BY <1>1, <1>2, <1>3, <1>4, <1>5, <1>6, <1>7, <1>8 DEF Next, CommandStep, Quiet

LEMMA HandledInit == ASSUME Init PROVE Handled
  <1>1. PICK v \in Claudes : v = CHOOSE w \in Claudes : TRUE
    BY ClaudeFilesAssumption
  <1>2. bak \in {None, Wrapper, Odd, Program(v)}
    BY <1>1 DEF Init, ClaudeInit
  <1>3. \A w \in Claudes : store[w] = "wrapper" => w = v
    <2>1. store \in {[w \in Claudes |-> "gone"],
                     [w \in Claudes |-> IF w = v THEN "real" ELSE "gone"],
                     [w \in Claudes |-> IF w = v THEN "wrapper" ELSE "gone"],
                     [w \in Claudes |-> IF w = v /\ sidecar = Link(v) THEN "real" ELSE "gone"]}
      BY <1>1 DEF Init, ClaudeInit
    <2> QED
      BY <2>1
  <1>4. Program(v).v = v
    BY DEF Program
  <1>5. bak \in Programs => bak.v = v
    BY <1>2, <1>4, ClaudeFilesAssumption
  <1>6. pc = "idle"
    BY DEF Init
  <1> QED
    BY <1>3, <1>5, <1>6 DEF Handled

\* No step of a command takes the last copy of a version of Claude, for any number of
\* versions, kills and changes by others: an install moves a program only where nothing is,
\* and writes only where no program is.
THEOREM KeepsRealHolds == Spec => KeepsReal
  <1>1. Init => Handled
    BY HandledInit
  <1>2. ClaudeTypeOK /\ Handled =>
          (CommandStep /\ ~(pc = "migrate" /\ raced) /\ ~(pc = "stage" /\ blind)
            => \A v \in Claudes : Exists(v) => Exists(v)')
    <2> SUFFICES ASSUME ClaudeTypeOK, Handled, CommandStep,
                        ~(pc = "migrate" /\ raced), ~(pc = "stage" /\ blind),
                        NEW v \in Claudes, Exists(v)
                 PROVE  Exists(v)'
      OBVIOUS
    <2> USE DEF Handled, Exists, ClaudeTypeOK
    <2>1. Program(v) \in Programs /\ Program(v) \notin {None, Wrapper, Odd}
      BY ClaudeFilesAssumption DEF Programs
    <2>2. CASE UNCHANGED claudeVars
      BY <2>2 DEF claudeVars
    <2>3. CASE Migrate /\ pc = "migrate"
      <3>1. claude \in Links /\ store[claude.v] = "wrapper" /\ bak \in Programs
        BY <2>3 DEF Corrupt
      <3>2. claude.v \in Claudes /\ bak.v = claude.v /\ Program(v).v = v
        BY <3>1 DEF Links, Link, Program
      <3> HIDE DEF Programs, Links, Program
      <3> QED
        BY <2>3, <3>1, <3>2 DEF Migrate
    <2>4. CASE PutWrapper /\ pc \in {"overwrite", "commit"}
      BY <2>1, <2>4 DEF PutWrapper
    <2>5. CASE RemoveWrapper /\ pc = "remove"
      BY <2>1, <2>5 DEF RemoveWrapper
    <2>6. CASE Unstage /\ pc \in {"putback", "commit"}
      BY <2>1, <2>6 DEF Unstage
    <2>7. CASE Stage /\ pc = "stage"
      BY <2>1, <2>7, ClaudeFilesAssumption DEF Stage
    <2>8. CASE Unstage /\ pc = "stage" /\ sidecar \notin {None, Odd}
      BY <2>8
    <2> HIDE DEF Handled, Exists, ClaudeTypeOK
    <2>9. CASE MigrateBackup \/ RemoveIt \/ PutOwnBack \/ Overwrite \/ StageOwn \/ CommitWrapper
      BY <2>2, <2>3, <2>4, <2>5, <2>6, <2>7, <2>8, <2>9
         DEF MigrateBackup, RemoveIt, PutOwnBack, PutBack, Overwrite, StageOwn, CommitWrapper,
             Commit
    <2> QED
      BY <2>2, <2>9, QuietFiles DEF CommandStep, Quiet
  <1>3. Handled /\ ClaudeTypeOK /\ [Next]_vars => Handled'
    BY HandledStep
  <1> QED
    BY <1>1, <1>2, <1>3, TypeInvHolds, PTL DEF Spec, KeepsReal

-----------------------------------------------------------------------------
(* The nonce.                                                               *)

\* Where a connect is when it has a nonce.
Holding ==
    /\ nonce # None =>
        /\ op = "connect"
        /\ pc \notin Ended \cup {"detect", "probe", "redetect", "migrate", "state", "register",
                                "save"}
    /\ pc \in {"detect", "probe", "redetect", "migrate", "state", "register"} => op = "connect"
    /\ bnonce # None <=> bpc \in {"write", "health"}
    /\ nonce # None => nonce # bnonce

\* Unless a connect has said otherwise: while one is past the write of its nonce and no
\* other is, or none is, the host has the nonce that the daemon accepts.
Known ==
    ~told =>
        /\ nonce = None /\ bnonce = None => remote = live
        /\ nonce = live /\ pc # "write" /\ bnonce = None => remote = live
        /\ bnonce = live /\ bpc = "health" /\ nonce = None => remote = live

NonceInv == Holding /\ Known

\* Steps that have nothing to do with the nonces.
LEMMA NonceElse ==
    ASSUME Values, NonceInv,
           UNCHANGED <<nonce, bnonce, bpc, live, remote, told>>,
           pc \in {"write", "register"} => pc' = pc,
           pc' \in {"detect", "probe", "redetect", "migrate", "state", "register"}
               => op' = "connect",
           nonce # None =>
               /\ op' = op
               /\ pc' \notin Ended \cup {"detect", "probe", "redetect", "migrate", "state",
                                         "register", "save"}
    PROVE  NonceInv'
  <1>1. Holding'
    BY DEF NonceInv, Holding
  <1>2. Known'
    <2>1. nonce = live => nonce # None
      BY NotifySetupAssumption DEF Values
    <2>2. pc' # "write" => pc # "write"
      OBVIOUS
    <2> QED
      BY <2>1, <2>2 DEF NonceInv, Known
  <1> QED
    BY <1>1, <1>2 DEF NonceInv

LEMMA NonceStep ==
    ASSUME ClaudeTypeOK, TypeInv, NonceInv, [Next]_vars
    PROVE  NonceInv'
  <1> USE DEF NonceInv
  <1>1. live \in Nonces /\ None \notin Nonces /\ Values
    BY NotifySetupAssumption DEF TypeInv, Values
  <1>2. PICK n : n = FreshNonce
    OBVIOUS
  <1>3. n \in Nonces /\ n \notin {live, remote, nonce, bnonce}
    BY <1>1, <1>2, FreshNonceType
  <1>4. CASE RegisterNonce
    <2>1. nonce = None /\ op = "connect" /\ UNCHANGED <<remote, bnonce, bpc, op>>
      BY <1>4 DEF RegisterNonce, Holding, Same, beside
    <2>2. CASE nonce' = n /\ live' = n /\ pc' = "write"
      BY <1>1, <1>3, <2>1, <2>2 DEF Holding, Known, Ended
    <2>3. CASE told' = TRUE /\ nonce' = nonce /\ pc' = "save"
      BY <2>1, <2>3 DEF Holding, Known
    <2> QED
      BY <1>2, <1>4, <2>2, <2>3 DEF RegisterNonce
  <1>5. CASE WriteNonce
    <2>1. pc = "write" /\ UNCHANGED <<live, bnonce, bpc, op>>
      BY <1>5 DEF WriteNonce, Same, beside
    <2>2. CASE remote' = nonce /\ pc' = "script" /\ UNCHANGED <<nonce, told>>
      <3>1. Holding'
        BY <2>1, <2>2 DEF Holding, Ended
      <3>2. Known'
        <4>1. nonce # None
          BY <2>1 DEF TypeInv, Attempted
        <4> QED
          BY <1>1, <2>1, <2>2, <4>1 DEF Holding, Known
      <3> QED
        BY <3>1, <3>2
    <2>3. CASE told' = TRUE /\ nonce' = None /\ pc' = "save"
      BY <2>1, <2>3 DEF Holding, Known
    <2> QED
      BY <1>5, <2>2, <2>3 DEF WriteNonce
  <1>6. CASE InstallHookScript
    <2>1. UNCHANGED <<live, remote, bnonce, bpc, op>> /\ pc = "script"
      BY <1>6 DEF InstallHookScript, Same, beside
    <2>2. CASE pc' = "claude" /\ UNCHANGED <<nonce, told>>
      BY <2>1, <2>2 DEF Holding, Known, Ended
    <2>3. CASE told' = TRUE /\ nonce' = None /\ pc' = "save"
      BY <2>1, <2>3 DEF Holding, Known
    <2> QED
      BY <1>6, <2>2, <2>3 DEF InstallHookScript
  <1>7. CASE ProbeNonce
    <2>1. /\ UNCHANGED <<live, remote, bnonce, bpc, op>>
          /\ pc = "health" /\ nonce' = None /\ pc' = "save"
      BY <1>7 DEF ProbeNonce, Same, beside
    <2>2. ~told' => ~told /\ nonce = live
      BY <1>7 DEF ProbeNonce
    <2> QED
      BY <1>1, <2>1, <2>2 DEF Holding, Known
  <1>8. CASE BesideStarts
    BY <1>8 DEF BesideStarts, Holding, Known
  <1>9. CASE BesideRegisters
    <2>1. bnonce = None /\ bpc = "register" /\ UNCHANGED <<remote, nonce, pc, op>>
      BY <1>9 DEF BesideRegisters, Holding
    <2>2. CASE bnonce' = n /\ live' = n /\ bpc' = "write"
      BY <1>1, <1>3, <2>1, <2>2 DEF Holding, Known
    <2>3. CASE told' = TRUE /\ bnonce' = bnonce /\ bpc' = "idle"
      BY <2>1, <2>3 DEF Holding, Known
    <2> QED
      BY <1>2, <1>9, <2>2, <2>3 DEF BesideRegisters
  <1>10. CASE BesideWrites
    <2>1. bpc = "write" /\ bnonce # None /\ UNCHANGED <<live, nonce, pc, op>>
      BY <1>10 DEF BesideWrites, Holding
    <2>2. CASE remote' = bnonce /\ bpc' = "health" /\ UNCHANGED <<bnonce, told>>
      BY <1>1, <2>1, <2>2 DEF Holding, Known
    <2>3. CASE told' = TRUE /\ bnonce' = None /\ bpc' = "idle"
      BY <2>1, <2>3 DEF Holding, Known
    <2> QED
      BY <1>10, <2>2, <2>3 DEF BesideWrites
  <1>11. CASE BesideProbes
    <2>1. /\ bpc = "health" /\ bpc' = "idle" /\ bnonce' = None
          /\ UNCHANGED <<live, remote, nonce, pc, op>>
      BY <1>11 DEF BesideProbes
    <2>2. ~told' => ~told /\ bnonce = live
      BY <1>11 DEF BesideProbes
    <2> QED
      BY <1>1, <2>1, <2>2 DEF Holding, Known
  <1>12. CASE KillBeside
    <2>1. bpc' = "idle" /\ bnonce' = None /\ UNCHANGED <<live, remote, nonce, pc, op>>
      BY <1>12 DEF KillBeside
    <2>2. ~told' => ~told /\ bnonce = None
      BY <1>12 DEF KillBeside
    <2> QED
      BY <1>1, <2>1, <2>2 DEF Holding, Known
  <1>13. CASE Kill
    <2>1. pc' = "failed" /\ nonce' = None /\ UNCHANGED <<live, remote, bnonce, bpc, op>>
      BY <1>13 DEF Kill, Same, beside
    <2>2. ~told' => ~told /\ nonce = None
      BY <1>13 DEF Kill
    <2> QED
      BY <1>1, <2>1, <2>2 DEF Holding, Known
  <1>14. CASE StartConnect \/ StartUninstall \/ StartUninstallCodex
    <2>1. /\ nonce = None /\ nonce' = None /\ UNCHANGED <<live, remote, bnonce, bpc, told>>
          /\ pc' \in {"detect", "strip", "codex"} /\ (pc' = "detect" => op' = "connect")
      BY <1>14 DEF StartConnect, StartUninstall, StartUninstallCodex, Begin, Holding, beside
    <2>2. Holding'
      BY <2>1 DEF Holding, Ended
    <2>3. Known'
      BY <1>1, <2>1 DEF Known
    <2> QED
      BY <2>2, <2>3
  <1>15. CASE DetectCorruption \/ ProbeClaude \/ DetectAgain \/ MigrateBackup \/ WriteState
              \/ Change \/ UNCHANGED vars
    <2>1. /\ UNCHANGED <<nonce, bnonce, bpc, live, remote, told, op>>
          /\ pc \in {"write", "register"} => pc' = pc
          /\ pc' = pc \/ pc \in {"detect", "probe", "redetect", "migrate", "state"}
      BY <1>15 DEF DetectCorruption, ProbeClaude, DetectAgain, MigrateBackup, WriteState, Change,
                   vars, Same, beside
    <2>2. pc' \in {"detect", "probe", "redetect", "migrate", "state", "register"} => op' = "connect"
      BY <2>1 DEF Holding
    <2> QED
      BY <1>1, <2>1, <2>2, NonceElse DEF Holding
  <1>16. CASE ChooseHooks \/ CheckOptOut \/ StripHooks \/ Mark \/ Unmark \/ MergeHooks
              \/ LookForWrapper \/ RemoveIt \/ PutOwnBack
              \/ ClassifyClaude \/ Preflight \/ Overwrite \/ StageOwn \/ CommitWrapper
              \/ (\E a \in Agents : RunAdapter(a)) \/ SaveRecord \/ StripCodex
    <2>1. UNCHANGED <<nonce, bnonce, bpc, live, remote, told, op>>
      BY <1>16 DEF ChooseHooks, CheckOptOut, StripHooks, Mark, Unmark, MergeHooks, LookForWrapper,
                   RemoveIt, PutOwnBack, ClassifyClaude, Preflight, Overwrite, StageOwn,
                   CommitWrapper, RunAdapter, SaveRecord, StripCodex, Same, beside, scripts
    <2>2. pc \notin {"write", "register"}
      BY <1>16 DEF ChooseHooks, CheckOptOut, StripHooks, Mark, Unmark, MergeHooks, LookForWrapper,
                   RemoveIt, PutOwnBack, ClassifyClaude, Preflight, Overwrite, StageOwn,
                   CommitWrapper, RunAdapter, SaveRecord, StripCodex, Agents
    <2> DEFINE inside == {"check", "strip", "mark", "unmark", "merge", "unwrap", "remove",
                          "putback", "install", "overwrite", "preflight", "stage", "commit",
                          "codex", "plugin", "cursor", "health"}
    <2>3. CASE \/ ChooseHooks \/ CheckOptOut \/ StripHooks \/ Mark \/ Unmark \/ MergeHooks
               \/ ClassifyClaude \/ Overwrite \/ StageOwn \/ CommitWrapper
      <3>1. pc' \in inside
        BY <2>3, Kinds DEF ChooseHooks, CheckOptOut, StripHooks, Mark, Unmark, MergeHooks,
                    ClassifyClaude, Overwrite, StageOwn, CommitWrapper
      <3> QED
        BY <1>1, <2>1, <2>2, <3>1, NonceElse DEF Ended, Holding
    <2>4. CASE Preflight \/ \E a \in Agents : RunAdapter(a)
      <3>1. pc' \in inside
        BY <2>4 DEF Preflight, RunAdapter, After, Agents
      <3> QED
        BY <1>1, <2>1, <2>2, <3>1, NonceElse DEF Ended, Holding
    <2>5. CASE LookForWrapper \/ RemoveIt \/ PutOwnBack
      <3>1. pc' \in inside \/ (pc' = "done" /\ op = "uninstall")
        BY <2>5 DEF LookForWrapper, RemoveIt, PutOwnBack, HooksDone
      <3> QED
        BY <1>1, <2>1, <2>2, <3>1, NonceElse DEF Ended, Holding
    <2>6. CASE SaveRecord \/ StripCodex
      <3>1. pc' = "done" /\ (pc = "save" \/ op = "uninstall codex")
        BY <2>6 DEF SaveRecord, StripCodex
      <3> QED
        BY <1>1, <2>1, <2>2, <3>1, NonceElse DEF Ended, Holding
    <2> QED
      BY <1>16, <2>3, <2>4, <2>5, <2>6
  <1> HIDE DEF NonceInv
  <1> QED
    BY <1>4, <1>5, <1>6, <1>7, <1>8, <1>9, <1>10, <1>11, <1>12, <1>13, <1>14, <1>15, <1>16
       DEF Next, CommandStep

\* For any number of connects, with one beside another, lost answers and kills: when all
\* have ended and none has said that the nonce may not work, the host has the one that
\* the daemon accepts.
THEOREM ToldIfRevokedHolds == Spec => []ToldIfRevoked
  <1>1. Init => NonceInv
    BY DEF Init, NonceInv, Holding, Known
  <1>2. ClaudeTypeOK /\ TypeInv /\ NonceInv /\ [Next]_vars => NonceInv'
    BY NonceStep
  <1>3. NonceInv => ToldIfRevoked
    BY DEF NonceInv, Holding, Known, ToldIfRevoked, InFlight
  <1> QED
    BY <1>1, <1>2, <1>3, TypeInvHolds, PTL DEF Spec

-----------------------------------------------------------------------------
(* The record.                                                              *)

\* Until a connect saves its record that is what it was, or nothing with --force, and what
\* it has wired is in place; Claude's hooks are changed before they count as wired, never
\* after.
Early == Gate \cup {"register", "write", "script", "claude", "strip", "check", "unmark", "merge"}
Forgotten == force /\ record \subseteq tried
Honest ==
    /\ pc \in Early => "claude" \notin wired
    /\ op = "connect" =>
        IF pc \in Ended THEN record \ tried = was \ tried \/ Forgotten
        ELSE record = was \/ (force /\ record = {})
    /\ op = "connect" /\ ~hurt /\ ~raced =>
        /\ \A a \in wired : InPlace(a)
        /\ force /\ pc \notin Gate \cup {"idle", "failed"} => record \subseteq tried
        /\ pc = "done" => record \cap tried \subseteq wired

\* Steps that touch neither the record nor what it is about.
LEMMA HonestElse ==
    ASSUME Honest, UNCHANGED <<settings, config, record, was, wired, op, force, raced>>,
           hurt => hurt', tried \subseteq tried',
           pc' \in Early => pc \in Early,
           pc \in Ended => pc' = pc /\ tried' = tried,
           pc \in Gate => pc' \in Gate \cup {"failed"},
           pc' = "done" /\ op = "connect" => pc = "done"
    PROVE  Honest'
  <1>1. \A a \in wired : InPlace(a) => InPlace(a)'
    BY DEF InPlace
  <1>2. (pc \in Early => "claude" \notin wired) => (pc' \in Early => "claude" \notin wired')
    OBVIOUS
  <1>3. op' = "connect" =>
          IF pc' \in Ended THEN record' \ tried' = was' \ tried' \/ Forgotten'
          ELSE record' = was' \/ (force' /\ record' = {})
    BY DEF Honest, Forgotten
  <1>4. op' = "connect" /\ ~hurt' /\ ~raced' =>
          /\ \A a \in wired' : InPlace(a)'
          /\ force' /\ pc' \notin Gate \cup {"idle", "failed"} => record' \subseteq tried'
          /\ pc' = "done" => record' \cap tried' \subseteq wired'
    BY <1>1 DEF Honest, Ended
  <1> QED
    BY <1>2, <1>3, <1>4 DEF Honest

LEMMA HonestStep ==
    ASSUME ClaudeTypeOK, TypeInv, Honest, [Next]_vars
    PROVE  Honest'
  <1>1. CASE DetectCorruption \/ ProbeClaude \/ DetectAgain \/ MigrateBackup
             \/ RegisterNonce \/ WriteNonce \/ InstallHookScript \/ ProbeNonce
    <2>1. UNCHANGED <<settings, config, record, was, tried, wired, op, force, raced>>
      BY <1>1 DEF DetectCorruption, ProbeClaude, DetectAgain, MigrateBackup, RegisterNonce,
                  WriteNonce, InstallHookScript, ProbeNonce, hooks, agents, outcome, ghosts, Same
    <2>2. hurt => hurt'
      BY <1>1 DEF DetectCorruption, ProbeClaude, DetectAgain, MigrateBackup, RegisterNonce,
                  WriteNonce, InstallHookScript, ProbeNonce, Fine, Trouble
    <2>3. /\ pc' \in Early => pc \in Early
          /\ pc \notin Ended /\ pc' # "done"
          /\ pc \in Gate => pc' \in Gate \cup {"failed"}
      BY <1>1 DEF DetectCorruption, V070State, ProbeClaude, DetectAgain, MigrateBackup,
                  RegisterNonce, WriteNonce, InstallHookScript, ProbeNonce, Early, Gate, Ended
    <2> QED
      BY <2>1, <2>2, <2>3, HonestElse
  <1>2. CASE ChooseHooks \/ CheckOptOut \/ Mark \/ Unmark \/ LookForWrapper
             \/ RemoveIt \/ PutOwnBack
    <2>1. UNCHANGED <<settings, config, record, was, wired, op, force, raced>>
      BY <1>2 DEF ChooseHooks, CheckOptOut, Mark, Unmark, LookForWrapper, RemoveIt, PutOwnBack,
                  hooks, agents, outcome, ghosts, Same
    <2>2. /\ hurt => hurt'
          /\ tried \subseteq tried'
      BY <1>2 DEF ChooseHooks, CheckOptOut, Mark, Unmark, LookForWrapper, RemoveIt, PutOwnBack,
                  Fine, Trouble, outcome
    <2>3. /\ pc' \in Early => pc \in Early
          /\ pc \notin Ended \cup Gate
          /\ pc' = "done" => op # "connect"
      BY <1>2 DEF ChooseHooks, CheckOptOut, Mark, Unmark, LookForWrapper, RemoveIt, PutOwnBack,
                  HooksDone, Early, Gate, Ended
    <2> QED
      BY <2>1, <2>2, <2>3, HonestElse
  <1>3. CASE ClassifyClaude \/ Overwrite \/ StageOwn \/ CommitWrapper \/ Preflight \/ Kill
    <2>1. UNCHANGED <<settings, config, record, was, tried, wired, op, force, raced>>
      BY <1>3 DEF ClassifyClaude, Overwrite, StageOwn, CommitWrapper, Preflight, Kill,
                  hooks, agents, outcome, ghosts, Same
    <2>2. /\ pc' \in {"overwrite", "preflight", "codex", "commit", "stage", "failed"}
          /\ pc' = "failed" \/ pc \notin Gate
      BY <1>3, Kinds DEF ClassifyClaude, Overwrite, StageOwn, CommitWrapper, Preflight, Kill, Gate
    <2>3. hurt => hurt'
      BY <1>3 DEF ClassifyClaude, Overwrite, StageOwn, CommitWrapper, Preflight, Kill,
                  Fine, Trouble
    <2>4. pc \notin Ended
      BY <1>3 DEF ClassifyClaude, Overwrite, StageOwn, CommitWrapper, Preflight, Kill, Ended
    <2> QED
      BY <2>1, <2>2, <2>3, <2>4, HonestElse DEF Early, Gate
  <1>4. CASE BesideStarts \/ BesideRegisters \/ BesideWrites \/ BesideProbes \/ KillBeside
             \/ UNCHANGED vars
    <2>1. /\ UNCHANGED <<settings, config, record, was, wired, op, force, raced, pc, tried>>
          /\ hurt => hurt'
      BY <1>4 DEF BesideStarts, BesideRegisters, BesideWrites, BesideProbes, KillBeside, vars,
                  hooks, agents, outcome, ghosts, Fine, Trouble
    <2> QED
      BY <2>1, HonestElse
  <1>5. CASE StripHooks
    <2>1. /\ pc = "strip" /\ pc' \in {"unmark", "mark"}
          /\ UNCHANGED <<config, record, was, tried, wired, op, force, raced>>
          /\ hurt => hurt'
      BY <1>5 DEF StripHooks, agents, outcome, ghosts, Same, Fine, Trouble
    <2>2. "claude" \notin wired
      BY <2>1 DEF Honest, Early
    <2>3. \A a \in wired : InPlace(a) => InPlace(a)'
      BY <2>1, <2>2 DEF InPlace
    <2> QED
      BY <2>1, <2>2, <2>3 DEF Honest, Ended, Gate
  <1>6. CASE MergeHooks
    <2>1. /\ pc = "merge" /\ pc' \in {"unwrap", "install"}
          /\ UNCHANGED <<config, record, was, tried, op, force, raced>>
          /\ hurt => hurt'
      BY <1>6 DEF MergeHooks, agents, ghosts, Same, Fine, Trouble
    <2>2. "claude" \notin wired
      BY <2>1 DEF Honest, Early
    <2>3. \A a \in wired : InPlace(a) => InPlace(a)'
      BY <2>1, <2>2 DEF InPlace
    <2>4. wired' # wired => wired' = wired \cup {"claude"} /\ InPlace("claude")'
      <3> SUFFICES ASSUME wired' # wired
                   PROVE  wired' = wired \cup {"claude"} /\ InPlace("claude")'
        OBVIOUS
      <3>1. /\ wired' = wired \cup {"claude"} /\ settings' = Merged
            /\ settings # Broken /\ \A e \in Events : ~UserOwn(settings[e])
        BY <1>6 DEF MergeHooks, Readable
      <3>2. settings \in [Events -> SUBSET {"current", "stale", "bare"}]
        BY <3>1 DEF TypeInv, Values, Settings
      <3>3. \A cs \in SUBSET {"current", "stale", "bare"} :
              ~UserOwn(cs) => Merge(cs) = {"current"}
        BY DEF Merge, UserOwn, InOrder, Strip, Owned
      <3>4. \A e \in Events : settings'[e] = {"current"}
        BY <3>1, <3>2, <3>3 DEF Merged
      <3>5. settings' # Broken
        <4>1. settings' \in [Events -> SUBSET {"current", "stale", "bare"}]
          BY <3>1, <3>2, <3>3 DEF Merged
        <4> QED
          BY <4>1, NotifySetupAssumption
      <3> QED
        BY <3>1, <3>4, <3>5 DEF InPlace
    <2>5. \A a \in wired' : a \in wired \/ a = "claude"
      BY <2>4
    <2> QED
      BY <2>1, <2>3, <2>4, <2>5 DEF Honest, Early, Gate, Ended
  <1>7. CASE \E a \in Agents : RunAdapter(a)
    <2> PICK a \in Agents : RunAdapter(a)
      BY <1>7
    <2>1. /\ op = "connect" /\ pc \in {"codex", "plugin", "cursor"}
          /\ pc' \in {"plugin", "cursor", "health"} /\ tried \subseteq tried'
          /\ UNCHANGED <<settings, record, was, op, force, raced>>
          /\ hurt => hurt'
      BY DEF RunAdapter, After, Agents, hooks, outcome, ghosts, Same, Fine, Trouble
    <2>2. CASE UNCHANGED <<config, wired>>
      BY <2>1, <2>2, HonestElse DEF Early, Gate, Ended
    <2>3. CASE /\ Installed(a) # None /\ config' = [config EXCEPT ![a] = Installed(a)]
               /\ wired' = wired \cup {a}
      <3>1. Installed(a) # Broken /\ Installed(a) \cap {"current", "line"} # {}
        BY <2>3, AdapterInPlace DEF TypeInv
      <3>2. \A b \in wired' : (b \in wired /\ b # a) \/ b = a
        BY <2>3
      <3>3. config'[a] = Installed(a) /\ \A b \in Agents : b # a => config'[b] = config[b]
        BY <2>3 DEF TypeInv, Values
      <3>4. InPlace(a)'
        BY <3>1, <3>3 DEF InPlace, Agents
      <3>5. \A b \in wired : b # a /\ InPlace(b) => InPlace(b)'
        <4>1. wired \subseteq Adapters
          BY DEF TypeInv, Values
        <4> QED
          BY <2>1, <3>3, <4>1 DEF InPlace, Adapters
      <3> QED
        BY <2>1, <3>2, <3>4, <3>5 DEF Honest, Early, Gate, Ended
    <2> QED
      BY <2>2, <2>3 DEF RunAdapter, outcome
  <1>8. CASE SaveRecord
    <2>1. /\ pc' = "done" /\ pc = "save"
          /\ UNCHANGED <<settings, config, was, tried, wired, op, force, raced>>
          /\ hurt => hurt'
      BY <1>8 DEF SaveRecord, hooks, agents, outcome, ghosts, Same, Fine, Trouble
    <2>2. \/ record' = record /\ hurt'
          \/ record' = (Base \ tried) \cup wired
      BY <1>8 DEF SaveRecord, Applied, Trouble
    <2>3. wired \subseteq tried
      BY DEF TypeInv, Values
    <2>4. \A a \in wired : InPlace(a) => InPlace(a)'
      BY <2>1 DEF InPlace
    <2>5. op = "connect" => record = was \/ (force /\ record = {})
      BY <2>1 DEF Honest, Ended
    <2>6. op = "connect" => record' \ tried = was \ tried \/ (force /\ record' \subseteq tried)
      BY <2>2, <2>3, <2>5 DEF Base
    <2>7. ~hurt' => record' \cap tried \subseteq wired /\ (force => record' \subseteq tried)
      BY <2>2, <2>3 DEF Base
    <2> QED
      BY <2>1, <2>4, <2>6, <2>7 DEF Honest, Early, Gate, Ended, Forgotten
  <1>12. CASE WriteState
    <2>1. /\ pc = "state" /\ pc' \in {"register", "done"}
          /\ UNCHANGED <<settings, config, was, tried, wired, op, force, raced>>
          /\ hurt => hurt'
      BY <1>12 DEF WriteState, hooks, agents, outcome, ghosts, Same, Fine, Trouble
    <2>2. tried = {} /\ wired = {}
      BY <2>1 DEF TypeInv, Values, Attempted, Gate
    <2>3. (record' = record /\ hurt') \/ record' = Base
      BY <1>12 DEF WriteState, Trouble
    <2>4. op = "connect" => record = was \/ (force /\ record = {})
      BY <2>1 DEF Honest, Ended
    <2>5. op = "connect" => record' = was \/ (force /\ record' = {})
      BY <2>3, <2>4 DEF Base
    <2>6. ~hurt' /\ force => record' = {}
      BY <2>3 DEF Base
    <2> QED
      BY <2>1, <2>2, <2>5, <2>6 DEF Honest, Early, Gate, Ended, Forgotten
  <1>9. CASE StripCodex
    <2>1. op = "uninstall codex" /\ op' = op /\ pc' = "done"
      BY <1>9 DEF StripCodex, Same
    <2> QED
      BY <2>1 DEF Honest, Early, Gate
  <1>10. CASE StartConnect \/ StartUninstall \/ StartUninstallCodex
    <2>1. /\ tried' = {} /\ wired' = {} /\ was' = record /\ record' = record
          /\ pc' \in {"detect", "strip", "codex"} /\ (op' = "connect" => pc' = "detect")
      BY <1>10 DEF StartConnect, StartUninstall, StartUninstallCodex, Begin
    <2> QED
      BY <2>1 DEF Honest, Gate, Ended
  <1>11. CASE Change
    <2>1. raced' = TRUE /\ UNCHANGED <<pc, op, force, record, was, tried, wired>>
      BY <1>11 DEF Change, outcome
    <2> QED
      BY <2>1 DEF Honest, Forgotten
  <1> QED
    BY <1>1, <1>2, <1>3, <1>4, <1>5, <1>6, <1>7, <1>8, <1>9, <1>10, <1>11, <1>12
       DEF Next, CommandStep

\* Whatever fails and whenever a connect dies, deploy.json holds what it held of the
\* adapters that were not tried, or with --force none of them, and after one in which
\* nothing went wrong each tried one that it calls installed is in the file of its agent.
THEOREM RecordHonestHolds == Spec => []RecordHonest
  <1>1. Init => Honest
    BY DEF Init, Honest, Early, Gate, Ended
  <1>2. ClaudeTypeOK /\ TypeInv /\ Honest /\ [Next]_vars => Honest'
    BY HonestStep
  <1>3. Honest => RecordHonest
    BY DEF Honest, RecordHonest, Forgotten, Ended, Gate
  <1> QED
    BY <1>1, <1>2, <1>3, TypeInvHolds, PTL DEF Spec

-----------------------------------------------------------------------------
(* What `claude' runs.                                                      *)

\* The wrapper is never in the sidecar, and only what runs Claude is moved there.
Sidecar ==
    /\ sidecar # Wrapper
    /\ pc \in {"preflight", "stage"} => claude \in Programs \cup Links

\* As long as nobody else interferes the command has found what it was told, and something
\* runs Claude, which is the sidecar between two renames.
Serves ==
    /\ pc = "remove" /\ ~raced => claude = Wrapper
    /\ pc = "overwrite" /\ ~raced => claude \in {None, Wrapper}
    /\ ran /\ ~cut /\ ~blind /\ ~raced =>
        IF pc \in {"putback", "commit"} THEN Real(sidecar) ELSE Runs

LEMMA Distinct ==
    /\ Wrapper \notin Programs \cup Links /\ None \notin Programs \cup Links
    /\ Odd \notin Programs \cup Links
    /\ Programs \cap Links = {}
  BY ClaudeFilesAssumption DEF Programs, Links, Program, Link

LEMMA SidecarStep ==
    ASSUME ClaudeTypeOK, Sidecar, [Next]_vars
    PROVE  Sidecar'
  <1> USE DEF Sidecar
  <1>1. CASE /\ UNCHANGED <<claude, sidecar, store>>
             /\ pc' \in {"preflight", "stage"} => pc \in {"preflight", "stage"}
    BY <1>1 DEF Programs, Links
  <1>2. CASE ClassifyClaude
    <2>1. pc' = "preflight" => Kind \in {"regular", "symlink"}
      BY <1>2, Kinds DEF ClassifyClaude
    <2>2. Kind \in {"regular", "symlink"} => claude \in Programs \cup Links
      BY DEF Kind, ClaudeTypeOK, Files
    <2>3. UNCHANGED <<claude, sidecar>> /\ pc' # "stage"
      BY <1>2, Kinds DEF ClassifyClaude, claudeVars
    <2> QED
      BY <2>1, <2>2, <2>3 DEF Programs, Links
  <1>3. CASE MigrateBackup
    BY <1>3 DEF MigrateBackup, Migrate, claudeVars
  <1>4. CASE RemoveIt \/ PutOwnBack \/ Overwrite \/ CommitWrapper
    <2>1. pc' \notin {"preflight", "stage"}
      BY <1>4 DEF RemoveIt, PutOwnBack, Overwrite, CommitWrapper, HooksDone
    <2>2. sidecar' \in {sidecar, None}
      BY <1>4 DEF RemoveIt, RemoveWrapper, PutOwnBack, PutBack, Overwrite, PutWrapper,
                  CommitWrapper, Commit, Unstage, claudeVars
    <2> QED
      BY <2>1, <2>2, ClaudeFilesAssumption
  <1>5. CASE StageOwn
    <2>1. pc = "stage" /\ pc' \in {"commit", "codex"} /\ sidecar' \in {sidecar, claude, Odd, None}
      BY <1>5 DEF StageOwn, Stage, Unstage, claudeVars
    <2> QED
      BY <2>1, Distinct, ClaudeFilesAssumption
  <1>6. CASE Change
    <2>1. pc' = pc /\ sidecar' = sidecar /\ (claude' = claude \/ claude' \in Links)
      BY <1>6 DEF Change, ClaudeUpdates, claudeVars, Links
    <2> QED
      BY <2>1 DEF Programs, Links
  <1> HIDE DEF Sidecar
  <1>7. CASE Quiet /\ ~ClassifyClaude
    <2>1. UNCHANGED <<claude, sidecar, store>>
      BY <1>7, QuietFiles DEF claudeVars
    <2>2. ASSUME DetectCorruption \/ ProbeClaude \/ DetectAgain \/ WriteState
                   \/ RegisterNonce \/ WriteNonce \/ InstallHookScript \/ ProbeNonce
                   \/ ChooseHooks \/ CheckOptOut \/ StripHooks \/ Mark \/ Unmark
          PROVE  pc' \notin {"preflight", "stage"}
      BY <2>2 DEF DetectCorruption, V070State, ProbeClaude, DetectAgain, WriteState, RegisterNonce,
                  WriteNonce, InstallHookScript, ProbeNonce, ChooseHooks, CheckOptOut,
                  StripHooks, Mark, Unmark
    <2>3. ASSUME MergeHooks \/ LookForWrapper \/ SaveRecord \/ StripCodex \/ Kill
                   \/ StartConnect \/ StartUninstall \/ StartUninstallCodex
          PROVE  pc' \notin {"preflight", "stage"}
      BY <2>3 DEF MergeHooks, LookForWrapper, HooksDone, SaveRecord, StripCodex, Kill,
                  StartConnect, StartUninstall, StartUninstallCodex, Begin
    <2>4. ASSUME NEW a \in Agents, RunAdapter(a)
          PROVE  pc' \notin {"preflight", "stage"}
      BY <2>4 DEF RunAdapter, After, Agents
    <2>5. ASSUME Preflight \/ BesideStarts \/ BesideRegisters \/ BesideWrites \/ BesideProbes
                   \/ KillBeside
          PROVE  pc' \in {"preflight", "stage"} => pc \in {"preflight", "stage"}
      BY <2>5 DEF Preflight, BesideStarts, BesideRegisters, BesideWrites, BesideProbes, KillBeside
    <2>6. pc' \in {"preflight", "stage"} => pc \in {"preflight", "stage"}
      BY <1>7, <2>2, <2>3, <2>4, <2>5 DEF Quiet
    <2> QED
      BY <1>1, <2>1, <2>6
  <1>8. CASE UNCHANGED vars
    BY <1>1, <1>8 DEF vars, claudeVars
  <1> QED
    BY <1>2, <1>3, <1>4, <1>5, <1>6, <1>7, <1>8 DEF Next, CommandStep, Quiet

\* Steps that leave the files alone.
LEMMA ServesElse ==
    ASSUME Serves, UNCHANGED <<claude, sidecar, store>>,
           pc' \notin {"remove", "overwrite", "putback", "commit"},
           pc \notin {"putback", "commit"},
           raced => raced', cut => cut', blind => blind', ran' = ran
    PROVE  Serves'
  <1>1. Runs => Runs'
    BY DEF Runs, Real, Programs, Links
  <1> QED
    BY <1>1 DEF Serves

LEMMA ServesQuiet ==
    ASSUME ClaudeTypeOK, Serves, Quiet
    PROVE  Serves'
  <1>1. UNCHANGED <<claude, sidecar, store>>
    BY QuietFiles DEF claudeVars
  <1>2. (Runs => Runs') /\ (Real(sidecar) => Real(sidecar)')
    BY <1>1 DEF Runs, Real, Programs, Links
  <1>3. CASE DetectCorruption \/ ProbeClaude \/ DetectAgain \/ WriteState
             \/ RegisterNonce \/ WriteNonce \/ InstallHookScript \/ ProbeNonce
             \/ ChooseHooks \/ CheckOptOut \/ StripHooks \/ Mark \/ Unmark
    <2>1. /\ pc' \notin {"remove", "overwrite", "putback", "commit"}
          /\ pc \notin {"putback", "commit"}
      BY <1>3 DEF DetectCorruption, V070State, ProbeClaude, DetectAgain, WriteState, RegisterNonce,
                  WriteNonce, InstallHookScript, ProbeNonce, ChooseHooks, CheckOptOut, StripHooks,
                  Mark, Unmark
    <2>2. UNCHANGED <<raced, cut, blind, ran>>
      BY <1>3 DEF DetectCorruption, ProbeClaude, DetectAgain, WriteState, RegisterNonce,
                  WriteNonce, InstallHookScript, ProbeNonce, ChooseHooks, CheckOptOut, StripHooks,
                  Mark, Unmark,
                  scripts, ghosts, Same
    <2> QED
      BY <1>1, <2>1, <2>2, ServesElse
  <1>4. CASE MergeHooks \/ SaveRecord \/ StripCodex \/ Kill
             \/ (\E a \in Agents : RunAdapter(a)) \/ Preflight
    <2>1. /\ pc' \notin {"remove", "overwrite", "putback", "commit"}
          /\ pc \notin {"putback", "commit"}
      <3>1. CASE \E a \in Agents : RunAdapter(a)
        BY <3>1 DEF RunAdapter, After, Agents
      <3>2. CASE Preflight
        BY <3>2 DEF Preflight
      <3> QED
        BY <1>4, <3>1, <3>2 DEF MergeHooks, SaveRecord, StripCodex, Kill
    <2>2. UNCHANGED <<raced, cut, ran>>
      BY <1>4 DEF MergeHooks, SaveRecord, StripCodex, Kill, RunAdapter, Preflight, scripts, ghosts,
                  Same
    <2>3. blind' = blind \/ blind' = TRUE
      BY <1>4 DEF MergeHooks, SaveRecord, StripCodex, Kill, RunAdapter, Preflight, scripts
    <2> QED
      BY <1>1, <2>1, <2>2, <2>3, ServesElse
  <1>5. CASE BesideStarts \/ BesideRegisters \/ BesideWrites \/ BesideProbes \/ KillBeside
    <2>1. UNCHANGED <<pc, raced, cut, blind, ran>>
      BY <1>5 DEF BesideStarts, BesideRegisters, BesideWrites, BesideProbes, KillBeside, scripts,
                  ghosts
    <2> QED
      BY <1>1, <1>2, <2>1 DEF Serves
  <1>6. CASE LookForWrapper \/ ClassifyClaude
    <2>1. UNCHANGED <<raced, cut, blind, ran>>
      BY <1>6 DEF LookForWrapper, ClassifyClaude, scripts, ghosts, Same
    <2>2. /\ pc' \notin {"putback", "commit"} /\ pc \notin {"putback", "commit"}
          /\ pc' = "remove" => claude = Wrapper
          /\ pc' = "overwrite" => claude \in {None, Wrapper}
      BY <1>6, Kinds DEF LookForWrapper, ClassifyClaude, HooksDone
    <2> QED
      BY <1>1, <1>2, <2>1, <2>2 DEF Serves
  <1>7. CASE StartConnect \/ StartUninstall \/ StartUninstallCodex
    <2>1. pc' \in {"detect", "strip", "codex"}
      BY <1>7 DEF StartConnect, StartUninstall, StartUninstallCodex, Begin
    <2>2. ran' = Runs
      BY <1>7 DEF StartConnect, StartUninstall, StartUninstallCodex, Begin
    <2> QED
      BY <1>2, <2>1, <2>2 DEF Serves
  <1> QED
    BY <1>3, <1>4, <1>5, <1>6, <1>7 DEF Quiet

LEMMA ServesStep ==
    ASSUME ClaudeTypeOK, Handled, Sidecar, Serves, [Next]_vars
    PROVE  Serves'
  <1>1. CASE Quiet
    BY <1>1, ServesQuiet
  <1>2. CASE Change
    <2>1. raced' = TRUE
      BY <1>2 DEF Change
    <2> QED
      BY <2>1 DEF Serves
  <1>3. CASE UNCHANGED vars
    <2>1. UNCHANGED <<claude, sidecar, store, pc, raced, cut, blind, ran>>
      BY <1>3 DEF vars, claudeVars, ghosts, scripts
    <2>2. (Runs => Runs') /\ (Real(sidecar) => Real(sidecar)')
      BY <2>1 DEF Runs, Real, Programs, Links
    <2> QED
      BY <2>1, <2>2 DEF Serves
  <1>4. ASSUME UNCHANGED claudeVars
        PROVE  (Runs => Runs') /\ (Real(sidecar) => Real(sidecar)')
    BY <1>4 DEF Runs, Real, Programs, Links, claudeVars
  <1>5. CASE MigrateBackup
    <2>1. /\ pc = "migrate" /\ pc' \in {"state", "failed"}
          /\ UNCHANGED <<raced, cut, blind>>
      BY <1>5 DEF MigrateBackup, scripts
    <2>2. ~raced => Corrupt /\ bak \in Programs
      BY <2>1 DEF Handled
    <2>3. CASE Migrate
      <3>1. Corrupt /\ bak \in Programs => Runs'
        BY <2>3 DEF Migrate, Corrupt, Runs, Real, Programs, Links, Link, Program, ClaudeTypeOK
      <3> QED
        BY <2>1, <2>2, <3>1 DEF Serves
    <2>4. CASE UNCHANGED <<claudeVars, ran>>
      BY <1>4, <2>1, <2>4 DEF Serves
    <2> QED
      BY <1>5, <2>3, <2>4 DEF MigrateBackup
  <1>6. CASE RemoveIt
    <2>1. pc = "remove" /\ UNCHANGED <<raced, cut, blind, ran>>
      BY <1>6 DEF RemoveIt, scripts, ghosts, Same
    <2>2. ~raced /\ Runs => Real(sidecar)
      BY <2>1, Distinct DEF Serves, Runs, Real
    <2>3. CASE RemoveWrapper /\ pc' = "putback"
      <3>1. Real(sidecar) => Real(sidecar)'
        BY <2>3 DEF RemoveWrapper, Real, Programs, Links
      <3> QED
        BY <2>1, <2>2, <2>3, <3>1 DEF Serves
    <2>4. CASE UNCHANGED claudeVars /\ pc' \in {"done", "codex"}
      BY <1>4, <2>1, <2>4 DEF Serves
    <2> QED
      BY <1>6, <2>3, <2>4 DEF RemoveIt, HooksDone
  <1>7. CASE PutOwnBack
    <2>1. pc = "putback" /\ pc' \in {"done", "codex"} /\ UNCHANGED <<raced, blind, ran>>
      BY <1>7 DEF PutOwnBack, HooksDone, ghosts, Same
    <2>2. CASE PutBack /\ UNCHANGED cut
      <3>1. Real(sidecar) => Runs'
        BY <2>2, Distinct DEF PutBack, Unstage, Runs, Real, Programs, Links
      <3> QED
        BY <2>1, <2>2, <3>1 DEF Serves
    <2>3. CASE cut' = TRUE
      BY <2>1, <2>3 DEF Serves
    <2> QED
      BY <1>7, <2>2, <2>3 DEF PutOwnBack
  <1>8. CASE Overwrite
    <2>1. pc = "overwrite" /\ pc' = "codex" /\ UNCHANGED <<raced, cut, blind, ran>>
      BY <1>8 DEF Overwrite, scripts, ghosts, Same
    <2>2. ~raced /\ Runs => claude = Wrapper /\ Real(sidecar)
      BY <2>1, Distinct DEF Serves, Runs, Real
    <2>3. CASE PutWrapper
      <3>1. claude = Wrapper /\ Real(sidecar) => Runs'
        BY <2>3 DEF PutWrapper, Runs, Real, Programs, Links
      <3> QED
        BY <2>1, <2>2, <3>1 DEF Serves
    <2>4. CASE UNCHANGED claudeVars
      BY <1>4, <2>1, <2>4 DEF Serves
    <2> QED
      BY <1>8, <2>3, <2>4 DEF Overwrite
  <1>9. CASE StageOwn
    <2>1. pc = "stage" /\ pc' \in {"commit", "codex"} /\ UNCHANGED <<raced, cut, blind, ran>>
      BY <1>9 DEF StageOwn, scripts, ghosts, Same
    <2>2. claude # Wrapper /\ (~blind => sidecar = None)
      BY <2>1, Distinct DEF Sidecar, Handled
    <2>3. CASE Stage /\ pc' = "commit"
      <3>1. ~blind /\ Runs => Real(sidecar)'
        BY <2>2, <2>3, Distinct, ClaudeFilesAssumption DEF Stage, Runs, Real, Programs, Links
      <3> QED
        BY <2>1, <2>3, <3>1 DEF Serves
    <2>4. CASE UNCHANGED claudeVars /\ pc' = "codex"
      BY <1>4, <2>1, <2>4 DEF Serves
    <2>5. CASE sidecar # None /\ pc' = "codex"
      BY <2>1, <2>2, <2>5 DEF Serves
    <2> QED
      BY <1>9, <2>3, <2>4, <2>5 DEF StageOwn
  <1>10. CASE CommitWrapper
    <2>1. pc = "commit" /\ pc' = "codex" /\ UNCHANGED <<raced, blind, ran>>
      BY <1>10 DEF CommitWrapper, ghosts, Same
    <2>2. CASE (PutWrapper \/ Unstage) /\ UNCHANGED cut
      <3>1. Real(sidecar) => Runs'
        BY <2>2 DEF PutWrapper, Unstage, Runs, Real, Programs, Links
      <3> QED
        BY <2>1, <2>2, <3>1 DEF Serves
    <2>3. CASE cut' = TRUE
      BY <2>1, <2>3 DEF Serves
    <2> QED
      BY <1>10, <2>2, <2>3 DEF CommitWrapper, Commit
  <1> QED
    BY <1>1, <1>2, <1>3, <1>5, <1>6, <1>7, <1>8, <1>9, <1>10 DEF Next, CommandStep, Quiet

LEMMA ServesHolds == Spec => [](Handled /\ Sidecar /\ Serves)
  <1>1. Init => Handled /\ Sidecar /\ Serves
    <2> SUFFICES ASSUME Init PROVE Sidecar /\ Serves
      BY HandledInit
    <2>1. PICK v \in Claudes : v = CHOOSE w \in Claudes : TRUE
      BY ClaudeFilesAssumption
    <2>2. sidecar \in {None, Odd, Program(v), Link(v)}
      BY <2>1 DEF Init, ClaudeInit
    <2>3. Program(v) \in Programs /\ Link(v) \in Links
      BY DEF Programs, Links
    <2>4. pc = "idle" /\ (ran => Runs)
      BY DEF Init
    <2> QED
      BY <2>2, <2>3, <2>4, Distinct, ClaudeFilesAssumption DEF Sidecar, Serves
  <1>2. /\ ClaudeTypeOK /\ Handled /\ Sidecar /\ Serves
        /\ [Next]_vars
        => (Handled /\ Sidecar /\ Serves)'
    BY HandledStep, SidecarStep, ServesStep
  <1> QED
    BY <1>1, <1>2, TypeInvHolds, PTL DEF Spec

\* A host on which `claude' ran runs it still when a command has ended, for any number of
\* failures and kills, outside of the two scripts that rename twice.
THEOREM EntryServesHolds == Spec => []EntryServes
  <1>1. Serves => EntryServes
    BY DEF Serves, EntryServes, Ended
  <1> QED
    BY <1>1, ServesHolds, PTL

-----------------------------------------------------------------------------
(* Claude's hooks and its wrapper.                                           *)

HookSources(e) == IF settings # Broken THEN settings[e] ELSE {}
Hooked ==
    \A e \in Events :
        /\ \A s, t \in HookSources(e) : s = t
        /\ optOut => HookSources(e) \subseteq {"bare"}
Once ==
    \A e \in Events :
        /\ \A s, t \in Sources(e) : s = t
        /\ optOut => Sources(e) \subseteq {"bare"}

\* What a connect that sets Claude up has done so far: the hooks come first, then the
\* wrapper is removed where they are in the settings, and is written where they cannot be.
Ordered ==
    op = "connect" /\ ~hurt /\ ~raced /\ "claude" \in tried =>
        /\ pc = "mark" => \A e \in Events : HookSources(e) \subseteq {"bare"}
        /\ pc = "merge" => ~optOut
        /\ pc \in {"unwrap", "remove", "putback"} => Hooked
        /\ pc = "putback" => claude # Wrapper
        /\ pc \in {"install", "overwrite", "preflight", "stage", "commit"} =>
            settings = Broken /\ ~optOut
        /\ pc \in {"codex", "plugin", "cursor", "health", "save", "done"} => Once

LEMMA OnceIs ==
    /\ Hooked /\ claude # Wrapper => Once
    /\ settings = Broken /\ ~optOut => Once
  BY DEF Hooked, Once, HookSources, Sources

\* The programs' part of the set-up.
LEMMA OrderedWrapper ==
    ASSUME ClaudeTypeOK, Sidecar, Ordered,
           \/ LookForWrapper \/ RemoveIt \/ PutOwnBack
           \/ ClassifyClaude \/ Preflight \/ Overwrite \/ StageOwn \/ CommitWrapper
    PROVE  Ordered'
  <1>1. UNCHANGED <<settings, optOut, op, tried, raced>>
    BY DEF LookForWrapper, RemoveIt, PutOwnBack, ClassifyClaude, Preflight, Overwrite, StageOwn,
           CommitWrapper, hooks, outcome, ghosts, Same
  <1>2. hurt => hurt'
    BY DEF LookForWrapper, RemoveIt, PutOwnBack, ClassifyClaude, Preflight, Overwrite, StageOwn,
           CommitWrapper, Fine, Trouble
  <1> SUFFICES ASSUME op = "connect", ~hurt', ~raced, "claude" \in tried PROVE Ordered'
    BY <1>1 DEF Ordered
  <1>3. Hooked' = Hooked
    BY <1>1 DEF Hooked, HookSources
  <1>4. ~hurt
    BY <1>2
  <1>5. CASE ClassifyClaude \/ Preflight \/ Overwrite \/ StageOwn \/ CommitWrapper
    <2>1. pc \in {"install", "overwrite", "preflight", "stage", "commit"}
      BY <1>5 DEF ClassifyClaude, Preflight, Overwrite, StageOwn, CommitWrapper
    <2>2. settings' = Broken /\ ~optOut'
      BY <1>1, <1>4, <2>1 DEF Ordered
    <2>3. Once'
      BY <2>2 DEF Once, Sources
    <2>4. pc' \in {"overwrite", "preflight", "codex", "stage", "commit"}
      BY <1>5, Kinds DEF ClassifyClaude, Preflight, Overwrite, StageOwn, CommitWrapper
    <2> QED
      BY <2>2, <2>3, <2>4 DEF Ordered
  <1>6. CASE LookForWrapper
    <2>1. Hooked' /\ pc' \in {"remove", "codex"} /\ claude' = claude
      BY <1>3, <1>4, <1>6 DEF Ordered, LookForWrapper, HooksDone, claudeVars
    <2>2. pc' = "codex" => claude # Wrapper
      <3>1. hurt' \/ Kind # "cc_wrapper" \/ pc' = "remove"
        BY <1>6 DEF LookForWrapper, Trouble
      <3>2. claude = Wrapper => Kind = "cc_wrapper"
        BY ClaudeFilesAssumption DEF Kind
      <3> QED
        BY <2>1, <3>1, <3>2
    <2>3. pc' = "codex" => Once'
      BY <2>1, <2>2 DEF Hooked, Once, HookSources, Sources
    <2> QED
      BY <2>1, <2>3 DEF Ordered
  <1>7. CASE RemoveIt
    <2>1. hurt' \/ (pc' = "putback" /\ claude' = None)
      BY <1>7 DEF RemoveIt, RemoveWrapper, Trouble
    <2>2. Hooked'
      BY <1>3, <1>4, <1>7 DEF Ordered, RemoveIt
    <2> QED
      BY <2>1, <2>2, ClaudeFilesAssumption DEF Ordered
  <1>8. CASE PutOwnBack
    <2>1. pc' = "codex" /\ Hooked' /\ claude # Wrapper
      BY <1>3, <1>4, <1>8 DEF Ordered, PutOwnBack, HooksDone
    <2>2. claude' \in {claude, sidecar}
      BY <1>8 DEF PutOwnBack, PutBack, Unstage, claudeVars
    <2>3. claude' # Wrapper
      BY <2>1, <2>2 DEF Sidecar
    <2>4. Once'
      BY <2>1, <2>3 DEF Hooked, Once, HookSources, Sources
    <2> QED
      BY <2>1, <2>4 DEF Ordered
  <1> QED
    BY <1>5, <1>6, <1>7, <1>8

\* The hooks' part.
LEMMA OrderedHooks ==
    ASSUME TypeInv, Ordered,
           ChooseHooks \/ CheckOptOut \/ StripHooks \/ Mark \/ Unmark \/ MergeHooks
    PROVE  Ordered'
  <1>1. UNCHANGED <<op, raced>>
    BY DEF ChooseHooks, CheckOptOut, StripHooks, Mark, Unmark, MergeHooks, ghosts, Same
  <1>2. hurt => hurt'
    BY DEF ChooseHooks, CheckOptOut, StripHooks, Mark, Unmark, MergeHooks, Fine, Trouble
  <1>3. settings # Broken => settings \in [Events -> SUBSET {"current", "stale", "bare"}]
    BY DEF TypeInv, Values, Settings
  <1> SUFFICES ASSUME op = "connect", ~hurt', ~raced, "claude" \in tried' PROVE Ordered'
    BY <1>1 DEF Ordered
  <1>4. CASE ChooseHooks
    <2>1. tried \subseteq targets
      BY DEF TypeInv, Values
    <2>2. pc' \in {"strip", "unmark", "check"}
      BY <1>4, <2>1 DEF ChooseHooks
    <2> QED
      BY <2>2 DEF Ordered
  <1>5. CASE CheckOptOut
    <2>1. hurt' \/ pc' = "strip" \/ (pc' = "merge" /\ ~optOut')
      BY <1>5 DEF CheckOptOut, hooks, Trouble
    <2> QED
      BY <2>1 DEF Ordered
  <1>6. CASE StripHooks
    <2>1. hurt' \/ settings' = Stripped
      BY <1>6 DEF StripHooks, Trouble
    <2>2. pc' = "mark"
      BY <1>6 DEF StripHooks
    <2>3. \A e \in Events : HookSources(e)' \subseteq {"bare"}
      BY <1>3, <2>1 DEF HookSources, Stripped, Readable, Strip, Owned
    <2> QED
      BY <2>2, <2>3 DEF Ordered
  <1>7. CASE Mark
    <2>1. UNCHANGED <<settings, tried>> /\ pc = "mark" /\ pc' = "unwrap"
      BY <1>7 DEF Mark, outcome
    <2>2. \A e \in Events : HookSources(e) \subseteq {"bare"}
      BY <1>2, <2>1 DEF Ordered
    <2>3. Hooked'
      BY <2>1, <2>2 DEF Hooked, HookSources
    <2> QED
      BY <2>1, <2>3 DEF Ordered
  <1>8. CASE Unmark
    <2>1. hurt' \/ optOut' = FALSE
      BY <1>8 DEF Unmark, Trouble
    <2>2. pc' = "merge"
      BY <1>8 DEF Unmark
    <2> QED
      BY <2>1, <2>2 DEF Ordered
  <1>9. CASE MergeHooks
    <2>1. pc = "merge" /\ UNCHANGED <<optOut, tried>>
      <3>1. pc = "merge" /\ UNCHANGED <<optOut, tried>>
        BY <1>9 DEF MergeHooks
      <3> QED
        BY <3>1
    <2>2. ~optOut'
      BY <1>2, <2>1 DEF Ordered
    <2>3. CASE settings # Broken /\ settings' = Merged /\ pc' = "unwrap"
      <3>1. \A cs \in SUBSET {"current", "stale", "bare"} : \A s, t \in Merge(cs) : s = t
        BY DEF Merge, UserOwn, InOrder, Strip, Owned
      <3>2. \A e \in Events : settings'[e] = Merge(settings[e])
        BY <1>3, <2>3 DEF Merged
      <3>3. Hooked'
        BY <1>3, <2>2, <2>3, <3>1, <3>2 DEF Hooked, HookSources
      <3> QED
        BY <2>3, <3>3 DEF Ordered
    <2>4. CASE pc' = "install" /\ settings' = settings /\ settings = Broken
      BY <2>2, <2>4 DEF Ordered
    <2> QED
      BY <1>9, <2>3, <2>4 DEF MergeHooks, Readable, Trouble
  <1> QED
    BY <1>4, <1>5, <1>6, <1>7, <1>8, <1>9

\* The rest.
LEMMA OrderedElse ==
    ASSUME Ordered, UNCHANGED <<settings, optOut, claude, op, raced>>,
           hurt => hurt', "claude" \in tried' => "claude" \in tried,
           \/ pc' = pc
           \/ pc' \notin {"mark", "merge", "unwrap", "remove", "putback", "install", "overwrite",
                          "preflight", "stage", "commit"} /\ hurt'
           \/ pc' \in {"detect", "probe", "redetect", "migrate", "state", "register", "write",
                       "script", "claude", "failed"}
           \/ pc' = "done" /\ "claude" \notin tried
           \/ /\ pc \in {"codex", "plugin", "cursor", "health", "save"}
              /\ pc' \in {"codex", "plugin", "cursor", "health", "save", "done"}
    PROVE  Ordered'
  <1>1. Once' = Once /\ Hooked' = Hooked
    BY DEF Once, Hooked, Sources, HookSources
  <1>2. \A e \in Events : HookSources(e)' = HookSources(e)
    BY DEF HookSources
  <1> QED
    BY <1>1, <1>2 DEF Ordered

LEMMA OrderedStep ==
    ASSUME ClaudeTypeOK, TypeInv, Sidecar, Ordered, [Next]_vars
    PROVE  Ordered'
  <1>1. CASE DetectCorruption \/ ProbeClaude \/ DetectAgain
             \/ RegisterNonce \/ WriteNonce \/ InstallHookScript \/ ProbeNonce
    <2>1. UNCHANGED <<settings, optOut, claude, op, raced, tried>>
      BY <1>1 DEF DetectCorruption, ProbeClaude, DetectAgain, RegisterNonce,
                  WriteNonce, InstallHookScript, ProbeNonce, claudeVars, hooks, outcome, ghosts,
                  Same
    <2>2. hurt => hurt'
      BY <1>1 DEF DetectCorruption, ProbeClaude, DetectAgain, RegisterNonce,
                  WriteNonce, InstallHookScript, ProbeNonce, Fine, Trouble
    <2>3. CASE DetectCorruption \/ ProbeClaude \/ DetectAgain
      <3>1. pc' \in {"detect", "probe", "redetect", "migrate", "state", "failed"}
        BY <2>3 DEF DetectCorruption, V070State, ProbeClaude, DetectAgain
      <3> QED
        BY <2>1, <2>2, <3>1, OrderedElse
    <2>4. CASE RegisterNonce \/ WriteNonce \/ InstallHookScript \/ ProbeNonce
      <3>1. \/ pc' \in {"write", "script", "claude"}
            \/ pc = "health" /\ pc' = "save"
            \/ pc' = "save" /\ hurt'
        BY <2>4 DEF RegisterNonce, WriteNonce, InstallHookScript, ProbeNonce, Trouble
      <3> QED
        BY <2>1, <2>2, <3>1, OrderedElse
    <2> QED
      BY <1>1, <2>3, <2>4
  <1>2. CASE MigrateBackup
    <2>1. pc' \in {"state", "failed"}
      BY <1>2 DEF MigrateBackup
    <2> QED
      BY <2>1 DEF Ordered
  <1>9. CASE WriteState
    <2>1. /\ UNCHANGED <<settings, optOut, claude, op, raced, tried>>
          /\ pc = "state" /\ pc' \in {"register", "done"}
      BY <1>9 DEF WriteState, claudeVars, hooks, outcome, ghosts, Same
    <2>2. hurt => hurt'
      BY <1>9 DEF WriteState, Fine, Trouble
    <2>3. "claude" \notin tried
      BY <2>1 DEF TypeInv, Attempted, Gate
    <2> QED
      BY <2>1, <2>2, <2>3, OrderedElse
  <1>3. CASE \E a \in Agents : RunAdapter(a)
    <2>1. UNCHANGED <<settings, optOut, claude, op, raced>>
      BY <1>3 DEF RunAdapter, claudeVars, hooks, ghosts, Same
    <2>2. hurt => hurt'
      BY <1>3 DEF RunAdapter, Fine, Trouble
    <2>3. "claude" \in tried' => "claude" \in tried
      BY <1>3 DEF RunAdapter, outcome, Agents
    <2>4. pc \in {"codex", "plugin", "cursor"} /\ pc' \in {"plugin", "cursor", "health"}
      BY <1>3 DEF RunAdapter, After, Agents
    <2> QED
      BY <2>1, <2>2, <2>3, <2>4, OrderedElse
  <1>4. CASE SaveRecord
    <2>1. UNCHANGED <<settings, optOut, claude, op, raced, tried>> /\ pc = "save" /\ pc' = "done"
      BY <1>4 DEF SaveRecord, claudeVars, hooks, outcome, ghosts, Same
    <2>2. hurt => hurt'
      BY <1>4 DEF SaveRecord, Fine, Trouble
    <2> QED
      BY <2>1, <2>2, OrderedElse
  <1>5. CASE StripCodex
    <2>1. op' = "uninstall codex"
      BY <1>5 DEF StripCodex, Same
    <2> QED
      BY <2>1 DEF Ordered
  <1>6. CASE Kill \/ Change
    <2>1. pc' = "failed" \/ raced' = TRUE
      BY <1>6 DEF Kill, Change
    <2> QED
      BY <2>1 DEF Ordered
  <1>7. CASE StartConnect \/ StartUninstall \/ StartUninstallCodex
    <2>1. tried' = {}
      BY <1>7 DEF StartConnect, StartUninstall, StartUninstallCodex, Begin
    <2> QED
      BY <2>1 DEF Ordered
  <1>8. CASE BesideStarts \/ BesideRegisters \/ BesideWrites \/ BesideProbes \/ KillBeside
             \/ UNCHANGED vars
    <2>1. UNCHANGED <<settings, optOut, claude, op, raced, tried, pc>>
      BY <1>8 DEF BesideStarts, BesideRegisters, BesideWrites, BesideProbes, KillBeside, vars,
                  claudeVars, hooks, outcome, ghosts
    <2>2. hurt => hurt'
      BY <1>8 DEF BesideStarts, BesideRegisters, BesideWrites, BesideProbes, KillBeside, vars,
                  Fine, Trouble
    <2> QED
      BY <2>1, <2>2, OrderedElse
  <1> QED
    BY <1>1, <1>2, <1>3, <1>4, <1>5, <1>6, <1>7, <1>8, <1>9, OrderedWrapper, OrderedHooks
       DEF Next, CommandStep

\* After a connect that set Claude up, in which nothing went wrong, no event notifies
\* twice, and none by cc-clip on a host that has opted out, whatever hooks and wrapper
\* were there before.
THEOREM NotifiesOnceHolds == Spec => []NotifiesOnce
  <1>1. Init => Ordered
    BY DEF Init, Ordered
  <1>2. ClaudeTypeOK /\ TypeInv /\ Sidecar /\ Ordered /\ [Next]_vars => Ordered'
    BY OrderedStep
  <1>3. Ordered => NotifiesOnce
    BY DEF Ordered, Once, NotifiesOnce
  <1> QED
    BY <1>1, <1>2, <1>3, TypeInvHolds, ServesHolds, PTL DEF Spec
===============================================================================
