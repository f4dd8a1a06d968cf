------------------------------ MODULE Credentials ------------------------------
(***************************************************************************)
(* The files that the processes of one user share in ~/.cache/cc-clip:       *)
(*   session.token  the daemon's token (cmd/cc-clip/serve.go, internal/token), *)
(*   instance-id    the identity of the installation (internal/instanceid),  *)
(*   hosts.json     where it was deployed (internal/hosts, cmd/cc-clip/hosts.go). *)
(* Daemons start, claim their port, load or generate a token, write it and    *)
(* extend it while it is used.  Connects carry the token to a host and record *)
(* the host, and other commands edit the record.  `tunnel run` loads the      *)
(* identity that it expects of a daemon.                                     *)
(*                                                                         *)
(* All of them run at a time.  A file is replaced by a rename, in one step;    *)
(* what was read of it may be old by then.  Time is counted in ticks, and the *)
(* life of a token in those it has left, none below zero.                    *)
(***************************************************************************)
EXTENDS Naturals, Integers

CONSTANTS
    Daemons, Port,    \* processes of `serve`, and the port of each
    Tunnels,          \* processes of `tunnel run`
    Commands, Hosts,  \* processes of connect, uninstall and hosts; their hosts
    Tokens, Ids, Versions,
    TTL,              \* life of a token, in ticks
    MaxTroubles,      \* bound on writes that fail and processes that die
    MaxCommands,      \* bound on commands
    None, Broken

ASSUME CredentialsAssumption ==
    /\ TTL \in Nat \ {0, 1}
    /\ MaxTroubles \in Nat /\ MaxCommands \in Nat
    /\ None \notin Tokens /\ None \notin Ids /\ None \notin Versions
    /\ Broken \notin Ids \cup {None}
    /\ Daemons \cap Tunnels = {}

Loaders == Daemons \cup Tunnels
Sessions == [tok : Tokens, left : -1 .. TTL]
Entries == [codex : BOOLEAN, version : Versions \cup {None}]
Runs == [op : {"connect", "uninstall", "forget"}, host : Hosts, codex : BOOLEAN]
Registries == [Hosts -> Entries \cup {None}]

\* No file is no content.
ASSUME NoneAssumption == None \notin Sessions /\ None \notin Entries /\ None \notin Runs

VARIABLES
    file,      \* session.token
    remote,    \* session.token on each host
    ident,     \* instance-id
    registry,  \* hosts.json
    \* Daemons, and tunnels as far as their identity:
    dpc, mem,
    own, id,   \* the identity it would create, and the one it goes by
    \* Commands:
    cpc, run,  \* where it is, and what it was given
    carried,   \* the token that was read
    loaded,    \* the registry that was read
    \* Ghosts, of no effect on the rest:
    kept,      \* the token that was accepted or issued last, and how long ago
    record,    \* what the registry should hold
    stale,     \* another command has saved the registry since this one loaded it
    troubles, commands

token == <<file, remote, mem, carried, kept>>
identity == <<ident, own, id>>
command == <<cpc, run>>
books == <<registry, loaded, record, stale>>
vars == <<token, identity, dpc, command, books, troubles, commands>>

TypeOK ==
    /\ file \in Sessions \cup {None}
    /\ remote \in [Hosts -> Tokens \cup {None}]
    /\ ident \in Ids \cup {None, Broken}
    /\ registry \in Registries
    /\ dpc \in [Loaders -> {"off", "listen", "token", "write", "read", "link", "up"}]
    /\ mem \in [Daemons -> Sessions \cup {None}]
    /\ own \in [Loaders -> Ids \cup {None}] /\ id \in [Loaders -> Ids \cup {None}]
    /\ cpc \in [Commands -> {"idle", "probe", "fetch", "deploy", "load", "save"}]
    /\ run \in [Commands -> Runs \cup {None}]
    /\ carried \in [Commands -> Tokens \cup {None}]
    /\ loaded \in [Commands -> Registries]
    /\ kept \in [tok : Tokens, age : {a \in 0 .. TTL : 2 * a < TTL}] \cup {None}
    /\ record \in Registries
    /\ stale \in [Commands -> BOOLEAN]
    /\ troubles \in 0 .. MaxTroubles /\ commands \in 0 .. MaxCommands

Fine == UNCHANGED troubles
Trouble == troubles < MaxTroubles /\ troubles' = troubles + 1

-----------------------------------------------------------------------------
(* The daemon's token.                                                      *)

Bound(d) == dpc[d] \in {"token", "write", "read", "link", "up"}
Serving(d) == dpc[d] = "up"

\* Generate draws a token that nobody has; how many there are is a bound.
Fresh == Tokens \ ({mem[d].tok : d \in {e \in Daemons : mem[e] # None}}
                    \cup {remote[h] : h \in Hosts} \cup {carried[c] : c \in Commands}
                    \cup (IF file = None THEN {} ELSE {file.tok})
                    \cup (IF kept = None THEN {} ELSE {kept.tok}))

\* Mutant: a daemon that finds its port taken goes on to its token.
ListenLate(d) ==
    /\ dpc[d] = "listen"
    /\ dpc' = [dpc EXCEPT ![d] = "token"]
    /\ UNCHANGED <<token, identity, command, books, commands>> /\ Fine

StartServe(d) ==
    /\ dpc[d] = "off"
    /\ dpc' = [dpc EXCEPT ![d] = "listen"]
    /\ UNCHANGED <<token, identity, command, books, commands>> /\ Fine

\* The port is claimed before any token is touched; who finds it taken is gone.
Listen(d) ==
    /\ dpc[d] = "listen"
    /\ LET taken == \E e \in Daemons : Port[e] = Port[d] /\ Bound(e)
       IN dpc' = [dpc EXCEPT ![d] = IF taken THEN "off" ELSE "token"]
    /\ UNCHANGED <<token, identity, command, books, commands>> /\ Fine

\* A file that was read with an expiry to come.
Usable(s) == s # None /\ s.left > 0

Generate(d) ==
    /\ Fresh # {}
    /\ mem' = [mem EXCEPT ![d] = [tok |-> CHOOSE t \in Fresh : TRUE, left |-> TTL]]

\* LoadOrGenerate takes what the file has if that has not expired, and draws a token, without
\* a word, if there is none or it has; with --rotate-token Generate does not look.  A file
\* that is there and cannot be read is replaced too, with a warning that the shims must
\* be synced again.
LoadToken(d) ==
    /\ dpc[d] = "token"
    /\ \/ /\ Usable(file)
          /\ mem' = [mem EXCEPT ![d] = file]
          /\ UNCHANGED kept /\ Fine
       \/ ~Usable(file) /\ Generate(d) /\ UNCHANGED kept /\ Fine
       \/ Generate(d) /\ kept' = None /\ Fine
       \/ file # None /\ Generate(d) /\ kept' = None /\ Trouble
    /\ dpc' = [dpc EXCEPT ![d] = "write"]
    /\ UNCHANGED <<file, remote, carried, identity, command, books, commands>>

\* WriteTokenFile, without which there is no daemon.
WriteToken(d) ==
    /\ dpc[d] = "write"
    /\ \/ /\ file' = mem[d] /\ Fine
          /\ dpc' = [dpc EXCEPT ![d] = "read"] /\ UNCHANGED mem
       \/ /\ Trouble /\ UNCHANGED file
          /\ dpc' = [dpc EXCEPT ![d] = "off"] /\ mem' = [mem EXCEPT ![d] = None]
    /\ UNCHANGED <<remote, carried, kept, identity, command, books, commands>>

\* Mutant: the longer life is in memory alone.
ValidateUnsaved(d, h) ==
    /\ Serving(d)
    /\ mem[d].left >= 0 /\ mem[d].tok = remote[h]
    /\ mem' = IF 2 * mem[d].left < TTL THEN [mem EXCEPT ![d].left = TTL] ELSE mem
    /\ kept' = [tok |-> remote[h], age |-> 0]
    /\ UNCHANGED <<file, remote, carried, identity, dpc, command, books, commands>> /\ Fine

\* Validate of the token that a host has, on the other end of its forward.  A token with
\* less than half of its life left gets a whole one, on disk too if that succeeds.
Validate(d, h) ==
    /\ Serving(d)
    /\ mem[d].left >= 0 /\ mem[d].tok = remote[h]
    /\ IF 2 * mem[d].left < TTL
       THEN /\ mem' = [mem EXCEPT ![d].left = TTL]
            /\ \/ /\ file' = mem'[d] /\ Fine
                  /\ kept' = [tok |-> remote[h], age |-> 0]
               \/ Trouble /\ UNCHANGED file /\ kept' = None
       ELSE /\ kept' = IF file = mem[d] THEN [tok |-> remote[h], age |-> 0] ELSE kept
            /\ UNCHANGED <<mem, file>> /\ Fine
    /\ UNCHANGED <<remote, carried, identity, dpc, command, books, commands>>

Aged(s) == IF s = None \/ s.left < 0 THEN s ELSE [s EXCEPT !.left = @ - 1]

Tick ==
    /\ file' = Aged(file)
    /\ mem' = [d \in Daemons |-> Aged(mem[d])]
    /\ kept' = IF kept = None \/ 2 * kept.age + 2 >= TTL THEN None
               ELSE [kept EXCEPT !.age = @ + 1]
    /\ UNCHANGED <<remote, carried, identity, dpc, command, books, commands>>
    /\ Fine

-----------------------------------------------------------------------------
(* The identity: instanceid.LoadOrCreate, of a daemon and of `tunnel run`.    *)

StartTunnel(t) ==
    /\ dpc[t] = "off"
    /\ dpc' = [dpc EXCEPT ![t] = "read"]
    /\ UNCHANGED <<token, identity, command, books, commands>> /\ Fine

\* A daemon goes on without an identity, a tunnel does not.
Unidentified(l) == IF l \in Daemons THEN "up" ELSE "off"

FreshIds == {i \in Ids : \A l \in Loaders : i \notin {own[l], id[l]}}

\* The identity is read, or a new one is written to a file of another name.
ReadIdentity(l) ==
    /\ dpc[l] = "read"
    /\ \/ /\ ident \in Ids
          /\ id' = [id EXCEPT ![l] = ident] /\ dpc' = [dpc EXCEPT ![l] = "up"]
          /\ UNCHANGED own /\ Fine
       \/ /\ ident = Broken
          /\ dpc' = [dpc EXCEPT ![l] = Unidentified(l)]
          /\ UNCHANGED <<own, id>> /\ Fine
       \/ /\ ident = None
          /\ FreshIds # {}
          /\ own' = [own EXCEPT ![l] = CHOOSE i \in FreshIds : TRUE]
          /\ dpc' = [dpc EXCEPT ![l] = "link"]
          /\ UNCHANGED id /\ Fine
       \/ /\ Trouble /\ dpc' = [dpc EXCEPT ![l] = Unidentified(l)]
          /\ UNCHANGED <<own, id>>
    /\ UNCHANGED <<token, ident, command, books, commands>>

\* Mutant: the new identity is renamed into place.
RenameIdentity(l) ==
    /\ dpc[l] = "link"
    /\ own' = [own EXCEPT ![l] = None]
    /\ ident' = own[l] /\ id' = [id EXCEPT ![l] = own[l]]
    /\ dpc' = [dpc EXCEPT ![l] = "up"]
    /\ UNCHANGED <<token, command, books, commands>> /\ Fine

\* os.Link publishes it unless there is one by now, which is read then.
LinkIdentity(l) ==
    /\ dpc[l] = "link"
    /\ own' = [own EXCEPT ![l] = None]
    /\ \/ /\ ident = None
          /\ ident' = own[l] /\ id' = [id EXCEPT ![l] = own[l]]
          /\ dpc' = [dpc EXCEPT ![l] = "up"] /\ Fine
       \/ /\ ident \in Ids
          /\ id' = [id EXCEPT ![l] = ident] /\ UNCHANGED ident
          /\ dpc' = [dpc EXCEPT ![l] = "up"] /\ Fine
       \/ /\ Trouble /\ dpc' = [dpc EXCEPT ![l] = Unidentified(l)]
          /\ UNCHANGED <<ident, id>>
    /\ UNCHANGED <<token, command, books, commands>>

\* A process ends or is killed, wherever it is.
End(l) ==
    /\ dpc[l] # "off"
    /\ dpc' = [dpc EXCEPT ![l] = "off"]
    /\ mem' = IF l \in Daemons THEN [mem EXCEPT ![l] = None] ELSE mem
    /\ own' = [own EXCEPT ![l] = None] /\ id' = [id EXCEPT ![l] = None]
    /\ Trouble
    /\ UNCHANGED <<file, remote, carried, kept, ident, command, books, commands>>

-----------------------------------------------------------------------------
(* Commands.                                                                *)

InRegistry(c) == cpc[c] = "save"

StartCommand(c) ==
    /\ cpc[c] = "idle" /\ commands < MaxCommands
    /\ commands' = commands + 1
    /\ \E r \in Runs :
        /\ r.op # "connect" => ~r.codex
        /\ run' = [run EXCEPT ![c] = r]
        /\ cpc' = [cpc EXCEPT ![c] = IF r.op = "connect" THEN "probe" ELSE "load"]
    /\ UNCHANGED <<token, identity, dpc, books>> /\ Fine

Go(c, where) ==
    /\ cpc' = [cpc EXCEPT ![c] = where]
    /\ run' = IF where = "idle" THEN [run EXCEPT ![c] = None] ELSE run

\* tunnel.Probe: a port that is bound accepts, before the daemon serves.
Probe(c) ==
    /\ cpc[c] = "probe"
    /\ Go(c, IF \E d \in Daemons : Bound(d) THEN "fetch" ELSE "idle")
    /\ UNCHANGED <<token, identity, dpc, books, commands>> /\ Fine

\* ReadTokenFile does not look at the expiry.
FetchToken(c) ==
    /\ cpc[c] = "fetch"
    /\ IF file = None THEN Go(c, "idle") /\ UNCHANGED carried
       ELSE Go(c, "deploy") /\ carried' = [carried EXCEPT ![c] = file.tok]
    /\ UNCHANGED <<file, remote, mem, kept, identity, dpc, books, commands>> /\ Fine

\* WriteRemoteTokenViaSession; the rest of the deployment is left to Connect.
DeployToken(c) ==
    /\ cpc[c] = "deploy"
    /\ \/ remote' = [remote EXCEPT ![run[c].host] = carried[c]] /\ Go(c, "load") /\ Fine
       \/ UNCHANGED remote /\ Go(c, "idle") /\ Trouble
    /\ carried' = [carried EXCEPT ![c] = None]
    /\ UNCHANGED <<file, mem, kept, identity, dpc, books, commands>>

\* hosts.Load, by recordHostConnect, clearHostCodex and hostsForget.
LoadRegistry(c) ==
    /\ cpc[c] = "load"
    /\ loaded' = [loaded EXCEPT ![c] = registry]
    /\ Go(c, IF run[c].op # "connect" /\ registry[run[c].host] = None THEN "idle" ELSE "save")
    /\ stale' = [stale EXCEPT ![c] = FALSE]
    /\ UNCHANGED <<token, identity, dpc, registry, record, commands>> /\ Fine

\* Mutant: a connect records what it deployed, and no more.
UpsertAnew(e, x, v) == [codex |-> x, version |-> v]

\* UpsertConnect: codex stays once it is set, and a build that is no release keeps the
\* version.  ClearCodex and Forget.
Upsert(e, x, v) ==
    [codex |-> x \/ (e # None /\ e.codex),
     version |-> IF v # None THEN v ELSE IF e = None THEN None ELSE e.version]
Edited(r, c, v) ==
    [r EXCEPT ![run[c].host] =
        CASE run[c].op = "connect" -> Upsert(@, run[c].codex, v)
          [] run[c].op = "uninstall" -> [@ EXCEPT !.codex = FALSE]
          [] run[c].op = "forget" -> None]

\* What the commands promise, each by itself.
Recorded(c, v) ==
    LET r == run[c] IN
    [record EXCEPT ![r.host] =
        IF r.op = "forget" THEN None
        ELSE [codex |-> r.op = "connect" /\ (r.codex \/ (@ # None /\ @.codex)),
              version |-> IF r.op = "connect" /\ v # None THEN v
                          ELSE IF @ = None THEN None ELSE @.version]]

\* Registry.Save, whose failure is a warning.  It puts back what it had loaded, so that one
\* that another save came before undoes that save; what is left then is taken as agreed.
SaveRegistry(c) ==
    /\ cpc[c] = "save"
    /\ \E v \in Versions \cup {None} :
        \/ /\ registry' = Edited(loaded[c], c, v)
           /\ record' = IF stale[c] THEN registry' ELSE Recorded(c, v)
           /\ stale' = [b \in Commands |-> b # c /\ (stale[b] \/ InRegistry(b))]
           /\ Fine
        \/ /\ Trouble /\ stale' = [stale EXCEPT ![c] = FALSE]
           /\ UNCHANGED <<registry, record>>
    /\ Go(c, "idle")
    /\ loaded' = [loaded EXCEPT ![c] = [h \in Hosts |-> None]]
    /\ UNCHANGED <<token, identity, dpc, commands>>

KillCommand(c) ==
    /\ cpc[c] # "idle" /\ Trouble
    /\ Go(c, "idle")
    /\ carried' = [carried EXCEPT ![c] = None]
    /\ loaded' = [loaded EXCEPT ![c] = [h \in Hosts |-> None]]
    /\ stale' = [stale EXCEPT ![c] = FALSE]
    /\ UNCHANGED <<file, remote, mem, kept, identity, dpc, registry, record, commands>>

-----------------------------------------------------------------------------

DaemonStep(d) ==
    \/ StartServe(d) \/ Listen(d) \/ LoadToken(d) \/ WriteToken(d)
    \/ \E h \in Hosts : Validate(d, h)

CommandStep(c) ==
    \/ StartCommand(c) \/ Probe(c) \/ FetchToken(c) \/ DeployToken(c)
    \/ LoadRegistry(c) \/ SaveRegistry(c) \/ KillCommand(c)

Next ==
    \/ \E d \in Daemons : DaemonStep(d)
    \/ \E t \in Tunnels : StartTunnel(t)
    \/ \E l \in Loaders : ReadIdentity(l) \/ LinkIdentity(l) \/ End(l)
    \/ \E c \in Commands : CommandStep(c)
    \/ Tick

NoHosts == [h \in Hosts |-> None]

\* The first start on a machine.
Init ==
    /\ file = None /\ remote = NoHosts
    /\ ident \in {None, Broken}
    /\ registry = NoHosts /\ record = NoHosts
    /\ dpc = [l \in Loaders |-> "off"]
    /\ mem = [d \in Daemons |-> None]
    /\ own = [l \in Loaders |-> None] /\ id = [l \in Loaders |-> None]
    /\ cpc = [c \in Commands |-> "idle"] /\ run = [c \in Commands |-> None]
    /\ carried = [c \in Commands |-> None]
    /\ loaded = [c \in Commands |-> NoHosts]
    /\ kept = None /\ stale = [c \in Commands |-> FALSE] /\ troubles = 0 /\ commands = 0

Spec == Init /\ [][Next]_vars

-----------------------------------------------------------------------------
(* Properties.                                                              *)

\* The token on disk, which connect carries to hosts, is the one that the daemon that
\* serves goes by: neither a daemon that finds the port taken nor a write that fails
\* comes between them.
FileIsOfDaemon == \A d \in Daemons : Serving(d) => file # None /\ file.tok = mem[d].tok

\* A token that was accepted less than half of its life ago is accepted still, by the
\* daemon that runs and by any that is started, but for a rotation that was asked for, one
\* that LoadOrGenerate warns of because it could not read the file, and a longer life that
\* Validate could not write: no daemon takes a token in use for missing or expired.
UseKeepsToken ==
    kept # None /\ 2 * kept.age < TTL =>
        /\ file # None /\ file.tok = kept.tok /\ file.left > 0
        /\ \A d \in Daemons :
            Serving(d) => mem[d].tok = kept.tok /\ mem[d].left > 0

\* All processes go by one identity, which is the one on disk, whoever was first.
OneIdentity == \A l \in Loaders : id[l] # None => id[l] = ident

\* The registry holds what the commands promise together: a host stays until it is
\* forgotten, codex until it is uninstalled, and a version until a release replaces it,
\* however they overlap, fail and die, and whatever was lost before; only a save by a
\* command that loaded before another saved takes away what that one promised.
RegistryRemembers == registry = record
===============================================================================
