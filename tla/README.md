# Verification of cc-clip

cc-clip makes the clipboard of a local machine available to programs on remote
hosts: a daemon on the local machine serves clipboard contents and takes
notifications over HTTP on a loopback port, an ssh reverse forward carries that
port to each remote host, and small programs and shims on the remote host fetch
from it. This directory holds TLA+ models of the parts of it that are hard to
test, the TLC runs that check them on small instances, and proofs of their main
properties for every value of the parameters.

Paths in this document and line numbers in `PROJECT.json` are relative to the
repository, which is called `src/` there.

## 1. Inventory

| Part | State it keeps | Operations | Hard behaviour |
|---|---|---|---|
| tunnel supervisor (`internal/tunnelmgr/supervisor.go`, `store.go`, `state.go`, `cmd/cc-clip/tunnel.go`) | state, two failure counters, healthy spell, last persisted key; the state file | `Run` (load, start, bootstrap, forward, probe, wait), `shutdown`, `tunnel run [--reset]` | the child dies at any moment, every save can fail, the process is killed and restarted, cancellation inside every blocking call |
| ssh child backend (`internal/tunnelmgr/sshbackend.go`) | owned child, its control files, forwarded flag, last exit | `Start`, `WaitReady`, `Forward`, `Check`, probes, `Stop`, the reaper | a reaper that returns after its child was given up, timers of `Stop`, flags that outlive the child |
| deduplication (`internal/daemon/dedup.go`) | last sighting of each key | `AllowAt` | clock read before the lock is taken, sliding window |
| notification pipeline (`internal/daemon/server.go`, `receipts.go`) | two channels, receipt channel, drop counter, receipt file | `handleNotify`, `enqueueEnvelope`, `RunNotifier`, `queueReceipt`, `runReceiptWriter` | full queues, a notifier or a disk that hangs, priority between channels |
| notification nonces (`internal/daemon/server.go`, `nonce_store.go`) | map, insertion order, file | register, look up, clean up, load | revocation, eviction and rollback together, restart, two daemons and one file |
| serve (`cmd/cc-clip/serve.go`, `internal/token`, `internal/instanceid`) | token file, sliding expiry, instance id file | start, validate, first creation | rotation against the bound port, saves by several processes, creation by two processes |
| session ring (`internal/session`) | the last images of each session | record, look up | none: one lock, one step |
| X11 bridge (`internal/x11bridge`) | selection ownership, one INCR transfer with its timer | `Run`, conversion requests, INCR chunks | events of a past transfer, timer against progress, refusals while busy |
| Xvfb (`internal/xvfb`) | server, PID and display files on the remote | check, start, stop | a stale PID file, failure between start and record |
| remote shims (`internal/shim/install.go`) | files and their sidecars at one or two command names | install, uninstall | rollback over several names, replacement by others in between, kills |
| connect (`cmd/cc-clip/connect.go`, `internal/shim/deploy.go`) | deploy state on the remote, ssh master | `connect`, token-only, codex set-up | a failure after any of some fifteen remote steps, retry from what is left |
| notification set-up (`cmd/cc-clip/notify.go`, `internal/shim/ssh.go`, `settings.go`, `claude_wrapper.go`, `cursor.go`, `antigravity.go`, `opencode.go`) | on the remote: `claude` with its sidecar and backup, hooks, the agents' files, the nonce, the opt-out | the gate of connect, `connectNotifySetup`, `uninstall --host`, `uninstall --codex` | the user's `claude` is renamed twice, a nonce is revoked before its successor is delivered, what an older release did |
| self-update (`cmd/cc-clip/update.go`) | binary, backup | update, verify, roll back | a crash between two renames, failing rollback |
| launchd service (`internal/service/launchd.go`) | plist, loaded job | install, uninstall, port | a job and a file that differ, launchd's restarts |
| hosts registry (`internal/hosts`, `cmd/cc-clip/hosts.go`) | one JSON file | connect's upsert, clear, forget | two commands at a time |
| install source chain (`internal/install`) | none | try each source | none: sequential |
| clipboard access, delivery adapters, classifier, envelope | none | format, run a platform command | none beyond input and output |
| probes and fetch (`internal/tunnel`) | none | one request each | timeouts, which their callers see |
| Windows autostart, doctor, plugins, ssh setup, send and copy commands, Windows tray and hotkey, install scripts | outside the program | one command each | platform behaviour |

How they interact. `serve` starts the HTTP server, the notifier and a cleanup
timer; request handlers share the Deduper, the channels and the nonce registry
with them. `tunnel run` is a process of its own: its supervisor drives one
backend, which owns one ssh child; they share no memory with the daemon, only
its port, its token and its instance id. `connect` is a third process, which
changes the remote host over ssh and registers a nonce with the daemon; `update`,
`service` and `hosts` are commands of the local machine. What
outlives processes is in files: the tunnel's record, the nonces, the receipts,
the token, the instance id, the registry, the deploy state, the binary.

What makes each part correct:

- supervisor: what the record and the state say is what is known; the breaker
  opens when children keep dying young and stays open until a reset; no child is
  left behind; every run can be cancelled; trouble that goes away is recovered from;
- backend: its fields describe one child, the newest; `Stop` returns;
- deduplication: repeats are at least about a window apart;
- pipeline: critical notifications go first, handlers never hang, receipts are
  recorded or reported;
- nonces: one per host, and restarts, failed writes and evictions never show;
- bridge: a transfer is whole and in order, ends, and leaves no trace; every
  request is answered;
- shims: no program of the user is lost, and one that was moved aside is still
  called; a failed install is undone, an uninstall can be resumed;
- connect: the record is true, or the next run notices that it is not; a run repairs
  whatever an earlier one left; what it stops it starts again as it was; success means
  that the remote is served; a package manager's binary is left alone;
- notification set-up: the user's `claude` is never lost and still runs; the host has
  the nonce that the daemon accepts, or somebody was told; an event notifies once; the
  record of what is installed is true;
- serve: the token on disk is that of the daemon that serves, a token in use does not
  expire, and all processes go by one identity;
- update: a binary or its backup is always there; a failed update leaves everything as
  it was; a daemon that ran before runs after;
- registry: what commands promised one after another is what the file says.

## 2. Modules

| Module | What it is |
|---|---|
| `TunnelSupervisor` | `Supervisor.Run`, one action per blocking call with the bookkeeping that follows it |
| `OwnedChild` | abstract specification: what a supervisor may rely on, and do, about its one child |
| `TunnelBackend` | `Backend` at the grain of its mutex, with numbered children and their reapers |
| `Dedup` | `Deduper.AllowAt` with the clock its callers read beforehand |
| `Notify` | request handlers, channels, notifier, receipt writer |
| `NotifyAuthority` | abstract specification: the grants that notification nonces stand for |
| `Nonces` | the nonce registry, its file, restarts |
| `X11Bridge` | `Bridge.Run` with the X server and the requestors around it |
| `ShimFiles` | `InstallWithOptions` and `Uninstall` over shared names that others change too |
| `Connect` | `connect` and `uninstall --codex` over a remote host with its binary, shim, X server, bridge and deploy record |
| `Update` | `update`, `service install` and `service uninstall` over the binary, its backup, launchd and the daemons it restarts |
| `Credentials` | the shared files of one user: token, identity, registry of hosts, and the processes that read and replace them |
| `ClaudeFiles` | `claude` on a host, its sidecar and backup: what is looked up in them and each rename |
| `NotifySetup` | extends `ClaudeFiles`: the notification side of `connect`, with the nonce, the hooks, the other agents and both uninstalls |
| `ServingProofs` | the theorems about `Notify`, `Dedup` and `X11Bridge`, whose definitions carry different names for that reason (`NotifySpec`, `DedupSpec`, `BridgeSpec`) |
| `TunnelSupervisorProofs`, `TunnelBackendProofs`, `ShimFilesProofs`, `ConnectProofs`, `UpdateProofs`, `CredentialsProofs`, `NotifySetupProofs` | the theorems about one module each |
| `MC...` | instances for TLC; `MC...Claim` state what a comment or a document says |

`OwnedChild` joins the two tunnel modules: `TunnelBackend` implements it
(`ImplementsOwnedChild`), `TunnelSupervisor`, whose steps take a backend call as a
whole, stays within it (`StaysWithinOwnedChild`). So the coarse view the
supervisor's module takes of its child, in which a reaper and a flag never
belong to the wrong child, is one the backend justifies. `Dedup` and `Notify`
meet in `enqueueEnvelope`: `Dedup` says what `AllowAt` answers, `Notify` takes any
answer for an ordinary notification. `NotifySetup` takes from `Nonces` that the daemon
accepts one nonce of a host at a time, the one it registered last (`NotifyAuthority`), and
leaves to `Connect` the binary, the shim and the bridge, which it does not touch; the two
share `deploy.json`, of which `NotifySetup` has the adapters and `Connect` the rest.

### TunnelSupervisor

`pc` is the blocking call that `Run` is about to make: `backoff` and `sleep` are the
two waits, `local1` and `local2` the local checks before a start and before a
probe, `forwarded` the moment between a successful forward and its flag, `stopErr`
and `stopOk` the two ways into `shutdown`. `state`, `failures`, `retryFailures`,
`healthySince` and `lastKey` are the fields of those names; `disk` is the record
file; `proc`, `aged`, `bound`, `forwarded` and `exit` are the child and what the
backend knows of it. `saved` is the outcome of `Store.Save`. `quick` and `lost`
are ghosts: children in a row that ended before the starting gate, and mishaps
that may have hidden such an end from the counter. They appear in no guard of the
code's own actions except through `MaxLost`, the bound on mishaps.

Durations are flags. A child is `aged` once it has lived for `StartingGate`;
`BootstrapTimeout` has the same length, so a bootstrap that times out has an aged
child. A spell of health is `stable` once it lasted for `StableWindow`.
`retryFailures` saturates at `MaxRetry`, since all that depends on it is the length
of a wait. A file that cannot be read or belongs to another spec is `invalid`.

### TunnelBackend

Children are numbered. `cmd` and `target` are `b.cmd` and `Stop`'s copy of it;
`life` follows a child from birth over death, the return of `Wait`, the locked
part of `reap` and the removal of the files to the close of its done channel.
`control` is the path the control commands use, which outlives its child. `files`
and `listeners` are the world: control files on disk, and who holds the remote
port. `WaitReady`, `Check` and the probes change no field and have no action.

### Dedup, Notify

In `Dedup` times are ages and `Tick` makes everything older; `lag[h]` is the age of
the clock that a request's goroutine `h` (`Callers`) has read and not yet used. `allowed` is a ghost. In
`Notify` a channel is the number of notifications it holds, since those of one
class are not told apart. `Answer` writes the response and tries to hand over a
receipt; `CountDrop`, a step of its own, adds to the drop counter, because the
writer may drain the queue and take the count in between. `Deliver` is two
steps, the receive and the return; the second may never come.

### Nonces

One action is one critical section of `noncesMu`, with the write of the file
inside it; the file is replaced by a rename, so it is written or not. Expiry is
`left`, the time until `ExpiresAt`: at 0 a nonce is no longer valid but not yet
removed by the cleanup, as in the code, which compares once with `Before` and
once with `After`. A registration that cannot be saved changes nothing, so it is
no step; `CleanupExpiredNonces` keeps its change and only logs.

The comment at `server.go:224` says that registering a key again keeps its place
in the eviction order. For a nonce with a host the revocation just above has
already removed it, so it moves to the back; `Added` has what the code does, and
`NotifyAuthority` allows for any place.

### X11Bridge

`pc` is where the bridge's one goroutine is: in its select (`loop`), about to fetch
the clipboard's type or image, about to reset an event mask, or in the two halves of
`claimOwnership`. `active`, `sent` and `due` are `activeIncr` with its offset and its
deadline; `mask` is what the X server keeps of the bridge's subscriptions, `events`
the server's queue together with the channel of `Run`, which keep one order.
Properties hold a chunk by its number, the end, the marker or an answer that is
given at once. Requestors keep to the ICCCM: one conversation per window and
property, and a window that is closed stays closed. A closed window makes the
requests on it fail, which is the only way a request to the server fails here
while the connection lasts. A request whose property is `None`, which only
obsolete clients make, is not modelled.

### ShimFiles

`at` and `side` are what a name and its sidecar hold, `quar` the private name of the
uninstall in progress, `kept` the programs that uninstalls before it had to leave
at such names. `plan` is what `prepareShimPath` decided; `moved` and `wrote` are the
list of undo functions, which is always: the write of the main shim, then the
renames, highest name first. One action is one change of a shared name; the looks
that come before a change with nothing in between (`Lstat` of the sidecar and the
header of the name in `preflightUninstallShim`, and the probe of the private name)
are one step, since every change checks or preserves what it finds. A shim is known
by what it delegates to. Others put programs and links at the same names or remove
things, at any moment; a file that carries the owner's marker without being a shim
is not modelled, nor is a directory that appears while a command runs.

The comment above `uninstallShim` leaves kills and faults after the exchange out of
its promise. They are in the model: nothing is lost by them either, but they can
leave a program in place with the shim in its sidecar, which an uninstall refuses
to touch (`NeedsHelp`).

### Connect

The host is `file` (what is at `~/.local/bin/cc-clip` and where a package puts its
own), `shim`, the live X servers and bridges, `xfile` (`xvfb.pid` and `display`) and
`rec`, which is `deploy.json`. `bridge` is the bridge that `bridge.pid` names, `strays`
are those that no file names any more; a reused process number and a server of a
release before X authorization are kinds of `xfile`. A command has the variables of
`runConnect`: `state` is `remoteState`, which `--force` forgets, `prior` is
`priorState`, `found` is `existingRemoteBin`, `changed` what makes the bridge restart,
`new` is `newState`. One action is one remote command or script, with the decision
taken on its answer. Each may fail without effect or with it, the connection or the
command may end in between, and others kill processes, remove files or change the
package. A version stands for a binary, its hash and its shim template. What runs does
to notifications, the token, rc files and the local registry is left out: nothing
that is modelled reads it. How a shim is installed over what is there is `ShimFiles`.

`was`, `hurt` and `settled` are ghosts: how the bridge was when the command began,
whether anything went wrong since, and whether the last upload was recorded with
nothing going wrong since. A property that says `~hurt` is about a run in which all
steps work, from any state that earlier troubles left behind.

### Update

`self` and `bak` are the versions at the path of the binary and at `.bak`, `plist` and
`job` the port in the service's file and that of the job launchd has loaded, `holder`
the daemon at each port, which follows its file through renames: its `place` is what
lsof would print. `port` and `running` are `servicePort` and `serviceWasRunning`.
`Unload`, `Unlist`, `WritePlist` and `Load` are the steps of `Uninstall` and `Install` of
`internal/service`; `phase` says on whose behalf they run: an update's restart, its
rollback or the commands `service install` and `service uninstall`. Everything before
the swap that changes nothing on disk but a temporary directory is `Stage`. A release
whose daemon does not come up is a version outside of `Sound`. `began`, `hurt`,
`astray` and `killed` are ghosts: what the command found, troubles since, trouble
during the rollback, and a kill.

One command runs at a time. Nothing in the code ensures it; two updates that overlap
can lose both copies (section 6).

### Credentials

`file`, `ident` and `registry` are the three files; `mem`, `id` and `loaded` what each
process holds of them. A daemon goes from `listen` over `token` and `write` to the
identity (`read`, `link`) and serves. `LinkIdentity` is the `os.Link` that publishes an
identity unless there is one. A token's life is counted in ticks, and `Validate`
restores it when less than half is left, in memory and then on disk. `LoadToken` is
`LoadOrGenerate`: it keeps a token that is usable, and draws a new one if there is none,
if it has expired, if `--rotate-token` asks for it, or if the file is there and cannot be
read or does not parse, which is a trouble that it warns of. Which token a
host was given is in `remote`; how a host's request reaches the daemon is left out.
`kept`, `record` and `stale` are ghosts: the token that was accepted last and how
long ago, what the registry should hold, and which commands have loaded a registry that
another has saved since. Such a command puts the old entries back; from then on that is
what the registry should hold.

### ClaudeFiles, NotifySetup

A file at one of the three names is a program, a link to a version in Claude's own
`store`, cc-clip's wrapper, or `Odd`. `store` is also what v0.7.0 wrote its wrapper into
through a link. `Stage` and `Commit` are the renames of `installWrapperWithSidecar`,
`Unstage` its trap, `RemoveWrapper` and `PutBack` those of the uninstall; a shell that
dies between them is a trouble (`cut`). A hook or an entry of an agent's file is what
cc-clip would write now (`current`), what an older release wrote (`stale`), a user's own
call of `cc-clip-hook` (`bare` in the hooks, `line` in Codex's file) or somebody
else's (`user`). `pc` names the remote command or the daemon's request that comes next;
`tried` and `wired` are the adapters of `notifyResults` that were attempted and
installed. `force` is `--force`, under which the state that was read is dropped (`Base`):
`WriteState`, the write before the set-up, then forgets all adapters, and `SaveRecord`,
the one after it, names those of this run alone. `bpc` and `bnonce` are a `connect --token-only` beside the command. A file of
settings that is read by one remote command and replaced by another is changed in one
step.

`ran`, `was`, `hurt`, `cut`, `blind`, `raced` and `told` are ghosts: whether `claude` ran
when the command began or was recovered by it, what was recorded when it began, trouble since then, a shell that died
between two renames, a pre-flight that had no answer, a change by others, and that
some connect has printed that the nonce is not, or may not be, in place.

## 3. Runs

| Run | Instance | Shows |
|---|---|---|
| `supervisor` | threshold 3, `MaxRetry` 2, `MaxLost` 2, one local, two remote, one identity diagnosis | 151,027 states: `HealthyHasForward`, `DiskTracksMemory`, `BreakerBound`; `StaysWithinOwnedChild`; liveness `CancelledRunEnds`, `DeadChildNoticed`, `Recovery` |
| `backend` | 3 children | 6,101 states: `NoStrayFiles`; `ImplementsOwnedChild`; liveness `StopReturns` |
| `dedup` | 3 handlers, 2 keys, window 3, lag 1 | 570,410 states: `RepeatsApart` |
| `notify` | 2 handlers, channels of 2, receipt channel of 1 | 174,096 states: `OvertakenOnce`, `ReceiptsAccounted`; liveness `HandlersReturn` |
| `nonces` | 1 daemon, 4 nonces, 2 hosts, cap 3, lifetime 2 | 1,754 states up to symmetry: `ImplementsAuthority` |
| `x11_bridge` | 2 windows, one with 2 properties, 2 chunks | 342,326 states: `ChunksInOrder`, `MaskIsOfTransfer`; liveness `TransfersEnd`, `RequestsAnswered` |
| `shim_files` | 2 names, 2 programs, 2 troubles | 971,035 states from every way the names can be found: `AsideIsServed`, `LosesNothing`, `FailedInstallUndone`; liveness `UninstallCompletes` |
| `connect` | 11 command lines, 2 versions with record schemas 2 and 3, 2 ports, 3 displays, 2 troubles | 4,420,282 states up to symmetry: `BridgeKept`, `SuccessServes`, `OnlyKnownObstacles`, `PackageBinaryKept`, `NothingLost` |
| `update` | a development build, a sound release and one whose daemon fails, 2 ports, 3 commands, 2 troubles | 628,000 states: `SomeCopy`, `FailedUpdateUndone`; liveness `ServesAgain` |
| `credentials` | 2 daemons of one port, a tunnel, 2 commands, 1 host, 6 tokens, life of a token 4, 2 troubles | 3.6 million states up to symmetry: `FileIsOfDaemon`, `UseKeepsToken`, `OneIdentity`, `RegistryRemembers` |
| `notify_setup` | 2 versions of Claude, 5 nonces, 2 events, connects for Codex alone and for four targets, with `--force` or not, 2 commands, 2 troubles, 1 act of others | 12,753,066 states: `EntryServes`, `NotifiesOnce`, `ToldIfRevoked`, `RecordHonest`, `KeepsReal` |
| `connect_claim` | 2 command lines, 1 trouble | violated: see section 6 |

No run checks a type invariant: those of the modules with proofs are proved (section 4),
and `TypeOK` of `Nonces` documents its variables. Some further invariants (`IdleOwnsNothing`, `BreakerStaysOpen`, `RunningIsNewest`,
`ExitIsNewest`, `ForwardedIsBound`, `DoneAfterRecord`) are proved and not run.

Why the bounds are enough. Supervisor: three failures open the breaker, so the
threshold is reached in one run, over two and over three; two mishaps suffice for
each kind to happen before and after another; the diagnoses of one class differ
only in the name that is stored. Backend: a third child starts while the reapers
of two others are still out; a fourth would meet the same code. Dedup: two keys
are needed, since the sweep of one key's call is what removes the other's entry;
with one key a bound that is too strong appears to hold. A third handler can
come between two. Notify: every queue is empty, partly filled and full, with a
handler at each side of it. Nonces: four nonces and a cap of three make eviction,
revocation and re-registration meet; a lifetime of two has a moment of its own for
valid, just expired and expired. X11 bridge: two properties of one window are what
a delete could be mistaken with, a second window what a mask could be left on
(or taken from); with two chunks there is a first, a last and the end. Shims: there are
never more than two names; with two programs one can be aside while another is put
in the way, and with two troubles a kill or a failure can meet a change by others,
or a failed step of the rollback. Connect: the second version writes a newer schema
than the first, so that a record can be older, equal and newer; the host of an old
release uses one display and its replacement another, and a third remains for a server
that is started while both are still there; two troubles are a step that fails and a
cleanup after it that fails too. Forced runs are those of the older version, which
find every kind of record in their way. Update: the three versions are one that cannot be
told from others, one that works and one that has to be rolled back; a second port lets
a job and its file differ; with three commands an update can follow a killed one and a
`service install`, and two troubles are the one that makes an update fail and one before it
or in its rollback. Credentials: two daemons meet at the port and at the identity, where
a tunnel is the third; two commands are enough to overlap, and with one host both of them
write the same entry; a life of four has a half that is neither its beginning nor
its end; six tokens are never used up. NotifySetup: the second version is the one that
Claude updates itself to; two commands are a connect, killed or not, and what
follows it; the target set of Codex alone leaves adapters that are no targets; the two
connects need a fresh nonce each while the host and the daemon may hold two others.

Every property is also run against a variation of the code that a plausible
mistake would produce (the operators whose comments begin with "Mutant"), and
fails there: a skipped reset of a flag, a count saved before it is incremented, a
reaper that does not ask whose child it was, a select that is skipped, a counter
that is read and then cleared.

### Fairness

`connect`, `credentials`, `notify_setup`, `dedup` and `nonces` check safety only and assume none.

- `supervisor`: weak fairness of the supervisor's goroutine and of the time that
  makes a child `aged`. All its calls carry a context with a timeout, all its waits
  a timer, and `Stop` returns (which the backend's run shows). The reaper is not
  assumed to be fair: `cmd.Wait` also waits for whoever else holds the child's
  output open. Nothing is assumed of the child, of the network or of saves;
  `Recovery` instead assumes that from some moment on nothing goes wrong (`Benign`).
- `backend`: weak fairness of the steps of `Stop`, each of which ends by a timer.
- `notify`: weak fairness of each handler, whose one wait has a timer. The
  notifier's adapters run commands without a timeout and the receipt writer
  writes to a disk, so nothing is assumed of them.
- `x11_bridge`: weak fairness of the bridge, whose fetches have a timeout, and of time,
  and strong fairness of the deadline: Go's select picks at random among the cases
  that are ready, so that the ticker has its turn however many events there
  are. Nothing is assumed of requestors: they may stop at any point.
- `shim_files`: a command goes on until it ends, and the user asks again for an
  uninstall (strong fairness, since installs may be asked for in between). Troubles
  are bounded, so that they end.
- `update`: weak fairness of the command's steps, all of which are bounded by a timeout
  or are a system call; of launchd's start of a job whose daemon is gone (`KeepAlive`); and
  of the end of a daemon that was told to end. Nothing is assumed of the user.

## 4. Proofs

Proved by TLAPS for every value of the constants that satisfies the named
assumptions of the modules (`SupervisorAssumption`: a positive threshold, a
positive `MaxRetry`, diagnoses within their classes; `BackendAssumption`: a natural
bound; `DedupAssumption`: a positive window; `NotifyAssumption`: positive
capacities and finitely many handlers; `BridgeAssumption`: requests name a window, one that
is not 0, and a target, and there is at least one chunk; `ShimAssumption`: one name or two;
`ConnectAssumption`: every version has a schema, and a missing and a damaged
binary are no versions;
`UpdateAssumption`: releases and sound versions are versions, the default port is a
port; `CredentialsAssumption`: a token lives for two ticks or more; `ClaudeFilesAssumption`:
the kinds of file are distinct; `NotifySetupAssumption`: there is a nonce beside any four).

- `TunnelSupervisorProofs`: the type invariant, `HealthyHasForward`,
  `IdleOwnsNothing`, `DiskTracksMemory`, `BreakerBound`, `BreakerStaysOpen` and
  `StaysWithinOwnedChild`. None of the properties is inductive alone. The
  invariant adds, per program point, what the supervisor has done so far: where a
  child can exist, when `lastKey` is what the file holds, and, for the breaker,
  that the ghost count is at most the count in the file plus `lost`, plus one while
  an exit waits to be counted.
- `TunnelBackendProofs`: the type invariant, the five invariants of the run and
  the refinement of `OwnedChild`. The invariant says of each child whether it can
  be `cmd` at its point of `life`, and of `Stop`'s target that it is the newest
  child until `Stop` ends, from which follows that a reaper which finds `b.cmd` to
  be its own child speaks of the newest. The refinement maps a stopped or reaped
  child to `none`, and each step of `Stop` to giving back the port, to unsetting
  the flag, to giving the child up, or to a stutter.
- `ServingProofs`, of `Dedup`: the type invariant and `RepeatsApart`. The invariant,
  `Behind`, says how far an entry may lag behind the last clock let through, or how long
  ago that was when the entry has been swept; it shows where the factor two of
  `RepeatsApart` comes from.
- `ServingProofs`, of `Notify`: the type invariant, `OvertakenOnce` and
  `ReceiptsAccounted`. For the first, an overtaken notification is still queued and the
  notifier is on its way to the select that only looks at the critical channel. For the
  second, the handlers that found the queue full and have not yet counted the drop are
  part of the account.
- `ServingProofs`, of `X11Bridge`: the type invariant, `ChunksInOrder` and
  `MaskIsOfTransfer`, for any windows and properties that ask for anything in any order.
  `MaskInv` follows the event mask through the one point where it is not that of the
  transfer, between a transfer's end and the request that takes the mask back. For the
  chunks the invariant relates the event queue to the conversations: a requestor whose
  request is on its way waits for it and has nothing queued behind it (`PendingInv`);
  one in the transfer either has yet to read what was written last, and then no event of
  its slot is queued, or has read it, and then at most one delete is (`TransferInv`).
  So a delete that comes in front and is of the transfer's slot is always the answer to
  the chunk that was written last: a delete of an earlier transfer or of another answer
  was consumed before the request that began this transfer. The lemmas on the queue
  (`QueueTaken` to `QueueRead`) say what adding and taking an event does to what is
  queued of one slot.
- `ShimFilesProofs`: the type invariant and the three safety properties of the run,
  for any set of programs and any number of troubles. For `LosesNothing` the
  invariant follows an install that is left alone: what has yet to be renamed has
  nothing in the way, and what was written or moved aside has left no program
  behind. An uninstall needs no such invariant, only that its private name is free
  until it moves something there. For `AsideIsServed` it adds what a planned shim
  will call and that an uninstall works on a shim unless others came in between;
  for `FailedInstallUndone`, what each name held before by what the rollback's
  record says of it.

- `ConnectProofs`: the type invariant and the five properties of the run, for any set of
  command lines, versions, ports and displays and any number of failures, kills and
  changes by others. `HostInv` holds whatever goes wrong: `bridge.pid` names at most one
  bridge, a client of a live server, and `xvfb.pid` at most one process. `CommandInv` is
  what a command knows at each of its steps by its own decisions, such as that it found no
  binary of a package where it uploads its own. `SoundInv` is what it knows in addition
  as long as nothing has gone wrong in it, from a host on which anything may have: that
  a binary that works is in place after the upload, under `--force` the command's own with
  a shim that was made by it (`BinaryInv`), that the bridge is as it was, or waits in
  `resume` to be started again, where the command has no business with it (`KeptInv`),
  that display, bridge and `xvfb.pid` agree step by step in the part for Codex
  (`ServerInv`), and that a run that has failed met an obstacle.
  `PackageBinaryKept` and `NothingLost` are about steps and follow from the same
  invariant.
- `UpdateProofs`: the type invariant, `SomeCopy` and `FailedUpdateUndone`, for any
  versions and ports and any number of commands and troubles. The invariant says, for
  each point of an update, which of the two copies is the one it began with, whether the
  service is still untouched, and that `port` is that of the service as found: so a
  rollback that meets no trouble of its own cannot put back anything else.
- `CredentialsProofs`: the type invariant, `OneIdentity` and `RegistryRemembers` for any
  number of processes, the latter from `InTurn`: a command between load and save that no
  other save came before since has loaded what is recorded.
  `FileIsOfDaemon` and `UseKeepsToken` are proved under the assumption that all daemons
  have one port (`OnePort`), without which they are false: daemons of two ports share the
  token file (section 6). The invariant adds that a daemon past its port is the only one, and
  that what is left of the token's life on disk and in memory is at least half of it less
  the time since its last use.
- `NotifySetupProofs`: the type invariant and the five properties of the run, for any
  number of versions, events, nonces, commands and troubles. `Handled` says what a
  command knows about the entry and the sidecar when it renames them (`KeepsReal`);
  `Sidecar` and `Serves` that the sidecar is never the wrapper and that something runs
  Claude, which between two renames is the sidecar (`EntryServes`); `Known` which of two
  connects, if any, still has to find out that its nonce was revoked (`ToldIfRevoked`);
  `Honest` that until the last write the record is what it was, or nothing under
  `--force`, and that what was wired is in place until the record says so
  (`RecordHonest`);
  `Ordered` that hooks come before the removal of the wrapper, and the wrapper only where
  the settings cannot take hooks (`NotifiesOnce`).

Only model-checked: all liveness (`CancelledRunEnds`, `DeadChildNoticed`, `Recovery`,
`StopReturns`, `HandlersReturn`, `TransfersEnd`, `RequestsAnswered`, `UninstallCompletes`,
`ServesAgain`), which is beyond the provers; and `ImplementsAuthority`, whose modules build
sequences with `SelectSeq` and `SetToSeq`, about which nothing can be proved without
induction over data.

## 5. Plan

What is left, in order of importance:

1. A proof for `Nonces`, with the order of insertion as a rank of each nonce in place of a
   sequence, so that `ImplementsAuthority` can be proved.
2. Two updates at a time, and two connects for one host at a time, whose overlaps
   `Update` and `Connect` leave out and section 6 describes.
3. `send` and `paste` with their remote file and its clean-up.

## 6. Findings

With a run that shows it:

- `connect.go:627` against `connect.go:625` and `remote_bin_mode.go:19`: whether the bridge
  is restarted after a package upgrade is read from a hash that runs for other targets
  overwrite, so that the bridge of the old binary is kept (`connect_claim`).

In the models as the code has them, and listed in `PROJECT.json`, without a run of their own:

- `dedup.go:100` against `clipwrite.go:72` and `docs/reverse-copy.md:131`: a
  suppressed repeat starts the window anew, so that a steady stream of writes is
  silent after the first notification.
- `nonce_store.go:33` against `server.go:163`: the nonce file is shared by all
  daemons of a user and written whole by each, so that a registration with one is
  not durable once another registers.
- `install.go:225` against `install.go:233`: an install that fails at the companion
  after its main shim replaced a link removes the shim and does not restore the
  link; `FailedInstallUndone` leaves links out.
- `ssh.go:421` against `ssh.go:414`: the pre-flight for Claude's sidecar drops the error of
  its command, so that no answer is no conflict; `KeepsReal` and `EntryServes` leave that
  case out (`blind`).
- `ssh.go:435` against `ssh.go:430`: the trap between the two renames is said to cover
  SIGKILL, which no trap does; `EntryServes` leaves that out (`cut`).
- `notify.go:364` against `settings.go:115`: a probe of the opt-out that fails lets the
  hooks be merged on a host that has opted out; `NotifiesOnce` is about connects in
  which all steps work.

Seen while modelling:

- `supervisor.go:467` against `state.go:65`: a stable spell resets the backoff and
  not the count of failures, so that the breaker opens on failures that were not
  consecutive in the sense of the comment.
- `--local-bin` on a host that is recorded as a package manager's compares the local
  binary with the hash of the package's (`connect.go:433`, `deploy.go:304`); when they
  are equal and a file is at `~/.local/bin/cc-clip`, nothing is uploaded, whatever that
  file is.
- An upload that is cut off leaves a damaged binary under a record that still vouches for
  an earlier one; a run of that earlier version skips the upload and fails at
  `connect.go:911`, whose message asks for `--force`.
- `failBridgeRestore` says that the deploy state records the bridge as down; under
  `--force` it has no state to write (`connect.go:1371`), and the record keeps saying
  that Codex is on.
- A process number in `xvfb.pid` that now is another process's makes every Codex run
  fail, `--force` included, until the files are removed (`xvfb.go:345`);
  `uninstall --codex` removes them.
- `runningBridgeArgs` takes a failed ssh for the absence of a bridge (`connect.go:1434`):
  a run for other targets then stops the bridge and does not start it again.
- A run in package mode records the template of the local binary, not of the one that
  wrote the shim (`connect.go:697`).
- An old daemon that answers the health check of an update and ends before the listener is
  looked up passes for the new one: nobody to be found counts as no conflict.
- `service install` over a loaded job whose load fails removes the plist and leaves the
  job; the next update takes the port from the missing file, and moves the daemon to the
  default one. `FailedUpdateUndone` and `ServesAgain` are therefore about services that
  are registered as their file says.
- An update that is killed between the removal of the service and its registration: the
  next one finds the target installed and stops, and with `--force` it finds no
  service to restart. One that is killed after the swap leaves the only copy of the old
  binary in the backup, which the next overwrites. Two updates at a time can remove
  both copies.
- Daemons on two ports share `session.token`, and the later writer's token is what
  connects carry to hosts; a token that has expired in a running daemon is not replaced
  until it restarts. The probe of `connect` succeeds at a port that is bound before
  its daemon serves.
- Commands that overlap drop each other's changes of `hosts.json`: a plain connect that
  loaded before a `connect --codex` saved forgets the Codex that `connect.go:648` calls
  sticky. `RegistryRemembers` takes such a save as agreed and is about all others.
- A `session.token` that cannot be read is replaced at the next start, with a warning, and
  the hosts keep a token that is dead (`token.go:85`); `UseKeepsToken` leaves that out.
- `connect --force`, which is what `update` suggests, forgets the adapters of earlier runs
  that it does not target (`connect.go:700`), although they stay installed on the host;
  `RecordHonest` says so. The refusal of a newer schema without `--force`
  (`connect.go:376`) is in `Connect` and not in `NotifySetup`.
- `uninstall --codex` leaves the Codex adapter recorded as installed, and `uninstall --host`
  does not touch `deploy.json` at all. An early end of `connectNotifySetup` leaves
  `HealthVerified` as it was.
- A settings file is read by one remote command and replaced by another: an edit in
  between is lost. A replacement that is fed through stdin may commit what arrived
  before the connection was cut. The model takes both as one step.
- Two connects that install Claude's sidecar at a time can lose the program, since the
  pre-flight and the renames are two commands. A recovery from v0.7.0's damage looks
  again in a command of its own, and Claude may have updated itself since; `KeepsReal`
  leaves that case out.

## 7. Not modelled

Formatting and classification of notifications, platform clipboards and
notification commands, generated shell scripts, ssh client configuration, the
contents of settings files beyond the entries that cc-clip owns, Windows autostart,
plugins, the doctor's report, `send`, `paste` and `copy`, the Windows tray and hotkey,
the install scripts: these have no state of their own or keep it outside the program, and
what can go wrong in them is in the text they produce. The ring of recent images and the
chain of install sources do keep or follow a state, but in one step under one lock, or in
one sequence that nobody comes between. ssh, its master protocol, the remote shell,
launchd and the X server are external: their answers are inputs. The start of a second
supervisor for the same host, which nothing in the code prevents, is not in
`TunnelSupervisor`.
