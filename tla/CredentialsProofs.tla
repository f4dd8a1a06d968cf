--------------------------- MODULE CredentialsProofs ---------------------------
(***************************************************************************)
(* Proofs about Credentials, for any daemons, tunnels, commands and hosts:    *)
(* types, one identity, what the registry holds, and, where all daemons have  *)
(* one port, the token.                                                     *)
(***************************************************************************)
EXTENDS Credentials, TLAPS

-----------------------------------------------------------------------------
(* Types.  A command that is under way knows what it was given, and one that   *)
(* is about to edit an entry has read it.                                    *)

Steered ==
    \A c \in Commands :
        /\ cpc[c] # "idle" => run[c] # None
        /\ cpc[c] = "save" /\ run[c].op # "connect" => loaded[c][run[c].host] # None

\* A daemon that has come past its token holds one.
Holds(d) == dpc[d] \in {"write", "read", "link", "up"}
Armed == \A d \in Daemons : Holds(d) => mem[d] # None

TypeInv == TypeOK /\ Steered /\ Armed

LEMMA TroubleType ==
    ASSUME TypeOK, Trouble \/ Fine
    PROVE  troubles' \in 0 .. MaxTroubles
  BY CredentialsAssumption DEF TypeOK, Trouble, Fine

\* A fresh token, and a fresh identity.
LEMMA FreshType ==
    /\ Fresh # {} => (CHOOSE t \in Fresh : TRUE) \in Tokens
    /\ FreshIds # {} => (CHOOSE i \in FreshIds : TRUE) \in Ids
  BY DEF Fresh, FreshIds

\* Steps of daemons and tunnels.
LEMMA DaemonType ==
    ASSUME TypeInv, NEW l \in Loaders,
           \/ l \in Daemons /\ (DaemonStep(l) \/ StartServe(l))
           \/ l \in Tunnels /\ StartTunnel(l)
           \/ ReadIdentity(l) \/ LinkIdentity(l) \/ End(l)
    PROVE  TypeInv'
  <1> USE DEF TypeInv, TypeOK, Steered, Armed, Holds, token, identity, command, books, Loaders
  <1>1. CASE l \in Daemons /\ (StartServe(l) \/ Listen(l))
    BY <1>1 DEF StartServe, Listen, Fine
  <1>2. CASE l \in Daemons /\ LoadToken(l)
    <2>1. TTL \in -1 .. TTL
      BY CredentialsAssumption
    <2>2. PICK s \in Sessions : mem' = [mem EXCEPT ![l] = s]
      <3>1. CASE Usable(file) /\ mem' = [mem EXCEPT ![l] = file]
        BY <3>1 DEF Usable
      <3>2. CASE Generate(l)
        BY <3>2, <2>1, FreshType DEF Generate, Sessions
      <3> QED
        BY <1>2, <3>1, <3>2 DEF LoadToken
    <2>3. kept' = kept \/ kept' = None
      BY <1>2 DEF LoadToken
    <2>4. s # None
      BY NoneAssumption
    <2>5. troubles' \in 0 .. MaxTroubles
      BY <1>2, TroubleType DEF LoadToken
    <2> QED
      BY <1>2, <2>2, <2>3, <2>4, <2>5 DEF LoadToken
  <1>3. CASE l \in Daemons /\ WriteToken(l)
    BY <1>3, TroubleType DEF WriteToken
  <1>4. CASE l \in Daemons /\ \E h \in Hosts : Validate(l, h)
    <2> PICK h \in Hosts : Validate(l, h)
      BY <1>4
    <2>1. l \in Daemons /\ mem[l] \in Sessions /\ remote[h] \in Tokens
      BY <1>4 DEF Validate, Serving, Sessions
    <2>2. \A n \in -1 .. TTL : [mem[l] EXCEPT !.left = n] \in Sessions
      BY <2>1 DEF Sessions
    <2>3. PICK s \in Sessions : mem' = [mem EXCEPT ![l] = s]
      <3>1. TTL \in -1 .. TTL
        BY CredentialsAssumption
      <3>2. mem = [mem EXCEPT ![l] = mem[l]]
        BY <2>1
      <3> QED
        BY <2>1, <2>2, <3>1, <3>2 DEF Validate
    <2>4. file' = file \/ file' = s
      BY <2>1, <2>3 DEF Validate
    <2>5. [tok |-> remote[h], age |-> 0] \in [tok : Tokens, age : {a \in 0 .. TTL : 2 * a < TTL}]
      BY <2>1, CredentialsAssumption
    <2>6. kept' \in {kept, None, [tok |-> remote[h], age |-> 0]}
      BY DEF Validate
    <2>7. s # None
      BY NoneAssumption
    <2>8. troubles' \in 0 .. MaxTroubles
      BY TroubleType DEF Validate
    <2> QED
      BY <2>1, <2>3, <2>4, <2>5, <2>6, <2>7, <2>8 DEF Validate
  <1>5. CASE l \in Tunnels /\ StartTunnel(l)
    BY <1>5, CredentialsAssumption DEF StartTunnel, Fine
  <1>6. CASE ReadIdentity(l)
    <2>1. PICK where \in {"up", "off", "link"} : dpc' = [dpc EXCEPT ![l] = where]
      BY <1>6 DEF ReadIdentity, Unidentified
    <2>2. dpc[l] = "read" /\ UNCHANGED <<token, command, books, commands>>
      BY <1>6 DEF ReadIdentity
    <2>3. own' \in [Loaders -> Ids \cup {None}] /\ id' \in [Loaders -> Ids \cup {None}]
      <3> HIDE DEF Loaders
      <3>1. id' = id \/ (ident \in Ids /\ id' = [id EXCEPT ![l] = ident])
        BY <1>6 DEF ReadIdentity
      <3>2. PICK i \in Ids \cup {None} : own' = own \/ own' = [own EXCEPT ![l] = i]
        BY <1>6, FreshType DEF ReadIdentity
      <3>3. l \in Loaders
        OBVIOUS
      <3> QED
        BY <3>1, <3>2, <3>3
    <2>4. ident' \in Ids \cup {None, Broken} /\ troubles' \in 0 .. MaxTroubles
      BY <1>6, TroubleType DEF ReadIdentity
    <2> QED
      BY <2>1, <2>2, <2>3, <2>4
  <1>7. CASE LinkIdentity(l)
    <2>1. PICK where \in {"up", "off", "link"} : dpc' = [dpc EXCEPT ![l] = where]
      BY <1>7 DEF LinkIdentity, Unidentified
    <2>2. dpc[l] = "link" /\ UNCHANGED <<token, command, books, commands>>
      BY <1>7 DEF LinkIdentity
    <2>3. own' \in [Loaders -> Ids \cup {None}] /\ id' \in [Loaders -> Ids \cup {None}]
      BY <1>7, FreshType DEF LinkIdentity
    <2>4. ident' \in Ids \cup {None, Broken} /\ troubles' \in 0 .. MaxTroubles
      BY <1>7, TroubleType DEF LinkIdentity
    <2> QED
      BY <2>1, <2>2, <2>3, <2>4
  <1>8. CASE End(l)
    BY <1>8, TroubleType DEF End
  <1> QED
    BY <1>1, <1>2, <1>3, <1>4, <1>5, <1>6, <1>7, <1>8 DEF DaemonStep

\* Steps of commands.
LEMMA CommandType ==
    ASSUME TypeInv, NEW c \in Commands, CommandStep(c)
    PROVE  TypeInv'
  <1> USE DEF TypeInv, TypeOK, Steered, Armed, Holds, token, identity, command, books, Go
  <1>1. CASE StartCommand(c)
    <2>1. PICK r \in Runs, where \in {"probe", "load"} :
            /\ run' = [run EXCEPT ![c] = r] /\ cpc' = [cpc EXCEPT ![c] = where]
      BY <1>1 DEF StartCommand
    <2>2. r # None
      BY NoneAssumption
    <2>3. commands' \in 0 .. MaxCommands
      BY <1>1, CredentialsAssumption DEF StartCommand
    <2> QED
      BY <1>1, <2>1, <2>2, <2>3 DEF StartCommand, Fine
  <1>2. CASE Probe(c)
    BY <1>2 DEF Probe, Fine
  <1>3. CASE FetchToken(c)
    <2>1. file # None => file.tok \in Tokens
      BY DEF Sessions
    <2> QED
      BY <1>3, <2>1 DEF FetchToken, Fine
  <1>4. CASE DeployToken(c)
    <2>1. run[c].host \in Hosts
      BY <1>4 DEF DeployToken, Runs
    <2> QED
      BY <1>4, <2>1, TroubleType DEF DeployToken
  <1>5. CASE LoadRegistry(c)
    <2>1. run[c].host \in Hosts /\ run[c] # None
      BY <1>5 DEF LoadRegistry, Runs
    <2> QED
      BY <1>5, <2>1 DEF LoadRegistry, Fine, InRegistry
  <1>6. CASE SaveRegistry(c)
    <2>1. run[c] \in Runs /\ loaded[c] \in Registries /\ run[c].host \in Hosts
      BY <1>6 DEF SaveRegistry, Runs
    <2>2. \A v \in Versions \cup {None} : Edited(loaded[c], c, v) \in Registries
      <3> SUFFICES ASSUME NEW v \in Versions \cup {None}
                   PROVE  Edited(loaded[c], c, v) \in Registries
        OBVIOUS
      <3>1. run[c].op \in {"connect", "uninstall", "forget"} /\ run[c].codex \in BOOLEAN
        BY <2>1 DEF Runs
      <3>2. \A e \in Entries \cup {None} : Upsert(e, run[c].codex, v) \in Entries
        BY <3>1 DEF Upsert, Entries
      <3>3. \A e \in Entries : [e EXCEPT !.codex = FALSE] \in Entries
        BY DEF Entries
      <3>4. run[c].op # "connect" => loaded[c][run[c].host] \in Entries
        BY <1>6, <2>1 DEF SaveRegistry, Registries
      <3> HIDE DEF Upsert, Entries
      <3> QED
        BY <2>1, <3>1, <3>2, <3>3, <3>4 DEF Edited, Registries
    <2>3. \A v \in Versions \cup {None} : Recorded(c, v) \in Registries
      BY <2>1 DEF Recorded, Registries, Entries, Runs
    <2>4. [h \in Hosts |-> None] \in Registries
      BY DEF Registries
    <2>5. troubles' \in 0 .. MaxTroubles
      BY <1>6, TroubleType DEF SaveRegistry
    <2>6. stale' \in [Commands -> BOOLEAN]
      <3>1. \A b \in Commands : (b # c /\ (stale[b] \/ InRegistry(b))) \in BOOLEAN
        OBVIOUS
      <3>2. CASE stale' = [b \in Commands |-> b # c /\ (stale[b] \/ InRegistry(b))]
        BY <3>1, <3>2
      <3>3. CASE stale' = [stale EXCEPT ![c] = FALSE]
        BY <3>3
      <3> QED
        BY <1>6, <3>2, <3>3 DEF SaveRegistry
    <2>7. registry' \in Registries /\ record' \in Registries
      BY <1>6, <2>2, <2>3 DEF SaveRegistry
    <2> QED
      BY <1>6, <2>4, <2>5, <2>6, <2>7 DEF SaveRegistry
  <1>7. CASE KillCommand(c)
    <2>1. [h \in Hosts |-> None] \in Registries
      BY DEF Registries
    <2> QED
      BY <1>7, <2>1, TroubleType DEF KillCommand
  <1> QED
    BY <1>1, <1>2, <1>3, <1>4, <1>5, <1>6, <1>7 DEF CommandStep

LEMMA TickType ==
    ASSUME TypeInv, Tick
    PROVE  TypeInv'
  <1> USE DEF TypeInv, TypeOK, Steered, Armed, Holds, token, identity, command, books
  <1>1. \A s \in Sessions \cup {None} :
          /\ Aged(s) \in Sessions \cup {None}
          /\ s # None => Aged(s) # None
    <2>1. \A s \in Sessions : s # None
      BY NoneAssumption
    <2>2. \A s \in Sessions : s.left >= 0 => [s EXCEPT !.left = @ - 1] \in Sessions
      BY CredentialsAssumption DEF Sessions
    <2>3. \A s \in Sessions : s.left < 0 \/ s.left >= 0
      BY CredentialsAssumption DEF Sessions
    <2> HIDE DEF Sessions
    <2> QED
      BY <2>1, <2>2, <2>3 DEF Aged
  <1>2. kept' \in [tok : Tokens, age : {a \in 0 .. TTL : 2 * a < TTL}] \cup {None}
    BY CredentialsAssumption DEF Tick
  <1> QED
    BY <1>1, <1>2 DEF Tick, Fine

\* All processes keep their types.
LEMMA TypeInvHolds == Spec => []TypeInv
  <1>1. Init => TypeInv
    <2> SUFFICES ASSUME Init PROVE TypeInv
      OBVIOUS
    <2>1. /\ registry \in Registries /\ record \in Registries
          /\ loaded \in [Commands -> Registries] /\ remote \in [Hosts -> Tokens \cup {None}]
      BY DEF Init, NoHosts, Registries
    <2>2. troubles \in 0 .. MaxTroubles /\ commands \in 0 .. MaxCommands
      BY CredentialsAssumption DEF Init
    <2>3. TypeOK
      BY <2>1, <2>2 DEF Init, TypeOK
    <2>4. Steered /\ Armed
      BY DEF Init, Steered, Armed, Holds, Loaders
    <2> QED
      BY <2>3, <2>4 DEF TypeInv
  <1>2. TypeInv /\ [Next]_vars => TypeInv'
    <2> SUFFICES ASSUME TypeInv, [Next]_vars PROVE TypeInv'
      OBVIOUS
    <2>1. CASE UNCHANGED vars
      BY <2>1 DEF TypeInv, TypeOK, Steered, Armed, Holds, vars, token, identity, command, books
    <2>2. CASE Next
      BY <2>2, DaemonType, CommandType, TickType DEF Next, Loaders
    <2> QED
      BY <2>1, <2>2
  <1> QED
    BY <1>1, <1>2, PTL DEF Spec

THEOREM TypeCorrect == Spec => []TypeOK
  <1>1. TypeInv => TypeOK
    BY DEF TypeInv
  <1> QED
    BY <1>1, TypeInvHolds, PTL

-----------------------------------------------------------------------------
(* The identity.                                                            *)

\* Whoever writes the identity finds none, so that nobody goes by one yet: the link of
\* instanceid.LoadOrCreate fails where a file is.
THEOREM OneIdentityHolds == Spec => []OneIdentity
  <1>1. Init => OneIdentity
    BY DEF Init, OneIdentity
  <1>2. TypeInv /\ OneIdentity /\ [Next]_vars => OneIdentity'
    <2> SUFFICES ASSUME TypeInv, OneIdentity, [Next]_vars PROVE OneIdentity'
      OBVIOUS
    <2> USE DEF OneIdentity, identity
    <2>1. CASE \E l \in Loaders : ReadIdentity(l)
      BY <2>1 DEF TypeInv, TypeOK, ReadIdentity
    <2>2. CASE \E l \in Loaders : LinkIdentity(l)
      BY <2>2 DEF TypeInv, TypeOK, LinkIdentity
    <2>3. CASE \E l \in Loaders : End(l)
      BY <2>3 DEF TypeInv, TypeOK, End
    <2>4. CASE UNCHANGED identity
      BY <2>4
    <2>5. ASSUME NEW d \in Daemons, DaemonStep(d) PROVE UNCHANGED identity
      BY <2>5 DEF DaemonStep, StartServe, Listen, LoadToken, WriteToken, Validate
    <2>6. ASSUME NEW c \in Commands, CommandStep(c) PROVE UNCHANGED identity
      BY <2>6 DEF CommandStep, StartCommand, Probe, FetchToken, DeployToken, LoadRegistry,
                  SaveRegistry, KillCommand
    <2>7. CASE (\E t \in Tunnels : StartTunnel(t)) \/ Tick \/ UNCHANGED vars
      BY <2>7, <2>4 DEF StartTunnel, Tick, vars
    <2> QED
      BY <2>1, <2>2, <2>3, <2>4, <2>5, <2>6, <2>7 DEF Next
  <1> QED
    BY <1>1, <1>2, TypeInvHolds, PTL DEF Spec

-----------------------------------------------------------------------------
(* The registry.                                                            *)

\* A command that nobody came before since it loaded has read what the file holds.
InTurn ==
    /\ registry = record
    /\ \A c \in Commands : InRegistry(c) /\ ~stale[c] => loaded[c] = registry

\* What a command writes is what it promises, if it has read what is recorded.
LEMMA EditedIsRecorded ==
    ASSUME TypeInv, NEW c \in Commands, cpc[c] = "save", loaded[c] = record,
           NEW v \in Versions \cup {None}
    PROVE  Edited(loaded[c], c, v) = Recorded(c, v)
  <1> DEFINE h == run[c].host
             old == record[h]
  <1>1. run[c] \in Runs /\ h \in Hosts /\ record \in Registries
    BY DEF TypeInv, TypeOK, Steered, Runs
  <1>2. run[c].op # "connect" => old \in Entries
    BY <1>1 DEF TypeInv, Steered, Registries
  <1>3. \A e \in Entries : [e EXCEPT !.codex = FALSE] = [codex |-> FALSE, version |-> e.version]
    <2> SUFFICES ASSUME NEW e \in Entries
                 PROVE  [e EXCEPT !.codex = FALSE] = [codex |-> FALSE, version |-> e.version]
      OBVIOUS
    <2> DEFINE cleared == [e EXCEPT !.codex = FALSE]
    <2>1. /\ cleared \in Entries
          /\ cleared.codex = FALSE /\ cleared.version = e.version
      BY DEF Entries
    <2>2. \A a \in Entries : a = [codex |-> a.codex, version |-> a.version]
      BY DEF Entries
    <2> HIDE DEF cleared
    <2>3. cleared = [codex |-> FALSE, version |-> e.version]
      BY <2>1, <2>2
    <2> QED
      BY <2>3 DEF cleared
  <1>4. CASE run[c].op = "connect"
    BY <1>4 DEF Edited, Recorded, Upsert
  <1>5. CASE run[c].op = "uninstall"
    <2>1. old # None /\ old \in Entries
      BY <1>2, <1>5, NoneAssumption
    <2>2. Edited(loaded[c], c, v) =
            [record EXCEPT ![h] = [codex |-> FALSE, version |-> old.version]]
      BY <1>1, <1>3, <1>5, <2>1 DEF Edited, Registries
    <2>3. Recorded(c, v) = [record EXCEPT ![h] = [codex |-> FALSE, version |-> old.version]]
      BY <1>1, <1>5, <2>1 DEF Recorded, Registries
    <2> QED
      BY <2>2, <2>3
  <1>6. CASE run[c].op = "forget"
    BY <1>6 DEF Edited, Recorded
  <1> QED
    BY <1>1, <1>4, <1>5, <1>6 DEF Runs

LEMMA InTurnStep ==
    ASSUME TypeInv, InTurn, NEW c \in Commands, CommandStep(c)
    PROVE  InTurn'
  <1> USE DEF InTurn, InRegistry, books, Go, TypeInv, TypeOK
  <1>1. CASE StartCommand(c)
    BY <1>1 DEF StartCommand
  <1>2. CASE Probe(c) \/ FetchToken(c) \/ DeployToken(c)
    BY <1>2 DEF Probe, FetchToken, DeployToken
  <1>3. CASE LoadRegistry(c)
    BY <1>3 DEF LoadRegistry
  <1>4. CASE SaveRegistry(c)
    <2>1. cpc[c] = "save" /\ cpc' = [cpc EXCEPT ![c] = "idle"]
      BY <1>4 DEF SaveRegistry
    <2>2. \A b \in Commands : b # c => loaded'[b] = loaded[b]
      BY <1>4 DEF SaveRegistry
    <2>3. CASE UNCHANGED <<registry, record>> /\ stale' = [stale EXCEPT ![c] = FALSE]
      BY <2>1, <2>2, <2>3
    <2>4. ASSUME NEW v \in Versions \cup {None},
                 registry' = Edited(loaded[c], c, v),
                 record' = IF stale[c] THEN registry' ELSE Recorded(c, v),
                 stale' = [b \in Commands |-> b # c /\ (stale[b] \/ InRegistry(b))]
          PROVE  InTurn'
      <3>1. CASE stale[c]
        BY <2>1, <2>2, <2>4, <3>1
      <3>2. CASE ~stale[c]
        <4>1. loaded[c] = record
          BY <2>1, <3>2
        <4>2. registry' = record'
          BY <2>1, <2>4, <3>2, <4>1, EditedIsRecorded
        <4> QED
          BY <2>1, <2>2, <2>4, <4>2
      <3> QED
        BY <3>1, <3>2
    <2> QED
      BY <1>4, <2>3, <2>4 DEF SaveRegistry
  <1>5. CASE KillCommand(c)
    BY <1>5 DEF KillCommand
  <1> QED
    BY <1>1, <1>2, <1>3, <1>4, <1>5 DEF CommandStep

\* hosts.json holds what connects, uninstalls and forgets promise together, however they
\* overlap, but for a save over another that its command had not read.
THEOREM RegistryRemembersHolds == Spec => []RegistryRemembers
  <1>1. Init => InTurn
    BY DEF Init, InTurn, InRegistry
  <1>2. TypeInv /\ InTurn /\ [Next]_vars => InTurn'
    <2> SUFFICES ASSUME TypeInv, InTurn, [Next]_vars PROVE InTurn'
      OBVIOUS
    <2>1. CASE UNCHANGED <<command, books>>
      BY <2>1 DEF InTurn, InRegistry, command, books
    <2>2. ASSUME NEW d \in Daemons, DaemonStep(d) PROVE UNCHANGED <<command, books>>
      BY <2>2 DEF DaemonStep, StartServe, Listen, LoadToken, WriteToken, Validate
    <2>3. ASSUME NEW l \in Loaders, ReadIdentity(l) \/ LinkIdentity(l) \/ End(l)
          PROVE  UNCHANGED <<command, books>>
      BY <2>3 DEF ReadIdentity, LinkIdentity, End
    <2>4. CASE (\E t \in Tunnels : StartTunnel(t)) \/ Tick \/ UNCHANGED vars
      BY <2>1, <2>4 DEF StartTunnel, Tick, vars
    <2> QED
      BY <2>1, <2>2, <2>3, <2>4, InTurnStep DEF Next
  <1>3. InTurn => RegistryRemembers
    BY DEF InTurn, RegistryRemembers
  <1> QED
    BY <1>1, <1>2, <1>3, TypeInvHolds, PTL DEF Spec

-----------------------------------------------------------------------------
(* The token, for daemons of one port.  With several ports each daemon has a   *)
(* token of its own, and the file the one that was written last.              *)

OnePort == \A d, e \in Daemons : Port[d] = Port[e]

\* Only the daemon that has the port is past it.
Alone == \A d, e \in Daemons : Bound(d) /\ Bound(e) => d = e

\* A token that was written is the one on disk.
Written ==
    \A d \in Daemons :
        dpc[d] \in {"read", "link", "up"} => file # None /\ file.tok = mem[d].tok

\* The token that was accepted last, on disk and in the daemon, has half a life less what
\* went by since.
Lives(s) == s # None /\ s.tok = kept.tok /\ 2 * s.left >= TTL - 2 * kept.age
Kept ==
    kept # None =>
        /\ Lives(file)
        /\ \A d \in Daemons : Holds(d) => Lives(mem[d])

TokenInv == Alone /\ Written /\ Kept

LEMMA DaemonToken ==
    ASSUME OnePort, TypeInv, TokenInv, NEW d \in Daemons, DaemonStep(d)
    PROVE  TokenInv'
  <1> USE DEF TokenInv, Alone, Written, Kept, Lives, Holds, Bound, token, TypeInv, TypeOK,
              Loaders
  <1>1. CASE StartServe(d)
    BY <1>1 DEF StartServe
  <1>2. CASE Listen(d)
    BY <1>2 DEF Listen, OnePort
  <1>3. CASE LoadToken(d)
    <2>1. \A e \in Daemons : Bound(e) => e = d
      BY <1>3 DEF LoadToken
    <2>2. Alone' /\ Written'
      BY <1>3, <2>1 DEF LoadToken, Generate
    <2>3. CASE kept' = None
      BY <2>2, <2>3
    <2>4. CASE kept # None /\ kept' = kept
      <3>1. kept.age \in Nat /\ 2 * kept.age < TTL /\ file.left \in Int
        BY <2>4 DEF Sessions
      <3>2. Usable(file)
        BY <2>4, <3>1, CredentialsAssumption DEF Usable
      <3>3. mem' = [mem EXCEPT ![d] = file]
        BY <1>3, <2>4, <3>2 DEF LoadToken
      <3>4. UNCHANGED file
        BY <1>3 DEF LoadToken
      <3>5. Kept'
        BY <2>1, <2>4, <3>3, <3>4, <1>3 DEF LoadToken
      <3> QED
        BY <2>2, <3>5
    <2> QED
      BY <1>3, <2>3, <2>4 DEF LoadToken
  <1>4. CASE WriteToken(d)
    <2>1. \A e \in Daemons : Bound(e) => e = d
      BY <1>4 DEF WriteToken
    <2>2. mem[d] # None
      BY <1>4 DEF WriteToken, Armed
    <2> QED
      BY <1>4, <2>1, <2>2 DEF WriteToken
  <1>5. CASE \E h \in Hosts : Validate(d, h)
    <2> PICK h \in Hosts : Validate(d, h)
      BY <1>5
    <2>1. /\ \A e \in Daemons : Bound(e) => e = d
          /\ dpc[d] = "up" /\ UNCHANGED dpc
      BY DEF Validate, Serving
    <2>2. mem[d] \in Sessions /\ mem[d] # None /\ mem[d].left \in Int
      BY <2>1 DEF Armed, Sessions
    <2>3. file \in Sessions /\ file # None /\ file.tok = mem[d].tok
      BY <2>1
    <2> DEFINE longer == [mem[d] EXCEPT !.left = TTL]
               fresh == [tok |-> remote[h], age |-> 0]
    <2>4. mem[d].tok = remote[h]
      BY DEF Validate
    <2>5. longer # None /\ longer.tok = mem[d].tok /\ longer.left = TTL
      <3>1. longer \in Sessions
        BY <2>2, CredentialsAssumption DEF Sessions
      <3> QED
        BY <2>2, <3>1, NoneAssumption DEF Sessions
    <2>6. fresh.tok = remote[h] /\ fresh.age = 0
      OBVIOUS
    <2>7. CASE /\ 2 * mem[d].left < TTL
               /\ mem' = [mem EXCEPT ![d] = longer]
               /\ \/ file' = longer /\ kept' = fresh
                  \/ file' = file /\ kept' = None
      <3> HIDE DEF longer, fresh
      <3>1. mem'[d] = longer
        BY <2>7
      <3>2. Alone' /\ Written'
        BY <2>1, <2>3, <2>5, <2>7, <3>1
      <3>3. Kept'
        BY <2>1, <2>4, <2>5, <2>6, <2>7, <3>1, CredentialsAssumption
      <3> QED
        BY <3>2, <3>3
    <2>8. CASE /\ ~(2 * mem[d].left < TTL)
               /\ kept' = IF file = mem[d] THEN fresh ELSE kept
               /\ UNCHANGED <<mem, file>>
      <3> HIDE DEF fresh
      <3>1. 2 * mem[d].left >= TTL
        BY <2>2, <2>8, CredentialsAssumption
      <3> QED
        BY <2>1, <2>2, <2>3, <2>4, <2>6, <2>8, <3>1, CredentialsAssumption
    <2> QED
      BY <2>1, <2>2, <2>7, <2>8 DEF Validate
  <1> QED
    BY <1>1, <1>2, <1>3, <1>4, <1>5 DEF DaemonStep

LEMMA LoaderToken ==
    ASSUME TypeInv, TokenInv, NEW l \in Loaders,
           (l \in Tunnels /\ StartTunnel(l)) \/ ReadIdentity(l) \/ LinkIdentity(l) \/ End(l)
    PROVE  TokenInv'
  <1> USE DEF TokenInv, Alone, Written, Kept, Lives, Holds, Bound, token, TypeInv, TypeOK,
              Loaders
  <1>1. CASE l \in Tunnels /\ StartTunnel(l)
    BY <1>1, CredentialsAssumption DEF StartTunnel
  <1>2. CASE ReadIdentity(l) \/ LinkIdentity(l)
    <2>1. dpc[l] \in {"read", "link"} /\ UNCHANGED token
      BY <1>2 DEF ReadIdentity, LinkIdentity
    <2>2. PICK where \in {"up", "off", "link"} : dpc' = [dpc EXCEPT ![l] = where]
      BY <1>2 DEF ReadIdentity, LinkIdentity, Unidentified
    <2> QED
      BY <2>1, <2>2
  <1>3. CASE End(l)
    BY <1>3 DEF End
  <1> QED
    BY <1>1, <1>2, <1>3

LEMMA TickToken ==
    ASSUME TypeInv, TokenInv, Tick
    PROVE  TokenInv'
  <1> USE DEF TokenInv, Alone, Written, Holds, Bound, TypeInv, TypeOK, Loaders
  <1>1. \A s \in Sessions :
          /\ Aged(s) # None /\ Aged(s).tok = s.tok
          /\ s.left > 0 => Aged(s).left = s.left - 1
    <2> SUFFICES ASSUME NEW s \in Sessions
                 PROVE  /\ Aged(s) # None /\ Aged(s).tok = s.tok
                        /\ s.left > 0 => Aged(s).left = s.left - 1
      OBVIOUS
    <2>1. s # None /\ s.left \in -1 .. TTL /\ TTL \in Nat
      BY NoneAssumption, CredentialsAssumption DEF Sessions
    <2>2. CASE s.left < 0
      BY <2>1, <2>2 DEF Aged
    <2>3. CASE ~(s.left < 0)
      <3>1. Aged(s) = [s EXCEPT !.left = @ - 1]
        BY <2>1, <2>3 DEF Aged
      <3>2. Aged(s) \in Sessions /\ Aged(s).tok = s.tok /\ Aged(s).left = s.left - 1
        BY <2>1, <2>3, <3>1 DEF Sessions
      <3> QED
        BY <3>2, NoneAssumption
    <2> QED
      BY <2>2, <2>3
  <1> HIDE DEF Sessions
  <1>2. Alone' /\ Written'
    BY <1>1 DEF Tick, Armed
  <1>3. Kept'
    <2> SUFFICES ASSUME kept' # None PROVE Kept'
      BY DEF Kept
    <2>1. kept # None /\ kept' = [kept EXCEPT !.age = @ + 1]
      BY DEF Tick
    <2>2. /\ kept.age \in Nat /\ TTL \in Nat /\ 2 * kept.age < TTL
          /\ kept'.tok = kept.tok /\ kept'.age = kept.age + 1
      BY <2>1, CredentialsAssumption
    <2>3. \A s \in Sessions : Lives(s) => Aged(s) # None /\ Aged(s).tok = kept'.tok
                                        /\ 2 * Aged(s).left >= TTL - 2 * kept'.age
      <3>1. \A s \in Sessions : s.left \in Int
        BY DEF Sessions
      <3> QED
        BY <1>1, <2>2, <3>1 DEF Lives
    <2>4. Lives(file) /\ \A d \in Daemons : Holds(d) => Lives(mem[d])
      BY <2>1 DEF Kept
    <2>5. file' = Aged(file) /\ UNCHANGED dpc /\ \A d \in Daemons : mem'[d] = Aged(mem[d])
      BY DEF Tick
    <2>6. file \in Sessions /\ \A d \in Daemons : Holds(d) => mem[d] \in Sessions
      BY <2>4 DEF Lives
    <2> QED
      BY <2>3, <2>4, <2>5, <2>6 DEF Kept, Lives
  <1> QED
    BY <1>2, <1>3

LEMMA TokenInvHolds ==
    ASSUME OnePort
    PROVE  Spec => []TokenInv
  <1>1. Init => TokenInv
    BY DEF Init, TokenInv, Alone, Written, Kept, Bound, Loaders
  <1>2. TypeInv /\ TokenInv /\ [Next]_vars => TokenInv'
    <2> SUFFICES ASSUME TypeInv, TokenInv, [Next]_vars PROVE TokenInv'
      OBVIOUS
    <2>1. CASE UNCHANGED <<file, mem, kept, dpc>>
      BY <2>1 DEF TokenInv, Alone, Written, Kept, Lives, Holds, Bound
    <2>2. ASSUME NEW c \in Commands, CommandStep(c) PROVE UNCHANGED <<file, mem, kept, dpc>>
      BY <2>2 DEF CommandStep, StartCommand, Probe, FetchToken, DeployToken, LoadRegistry,
                  SaveRegistry, KillCommand, token
    <2>3. CASE UNCHANGED vars
      BY <2>1, <2>3 DEF vars, token
    <2> QED
      BY <2>1, <2>2, <2>3, DaemonToken, LoaderToken, TickToken DEF Next, Loaders
  <1> QED
    BY <1>1, <1>2, TypeInvHolds, PTL DEF Spec

\* Where all daemons have one port, the token on disk is that of the daemon that serves,
\* whichever of them start, end or fail to write it: serve binds its port before it looks
\* at the token.
THEOREM FileIsOfDaemonHolds ==
    ASSUME OnePort
    PROVE  Spec => []FileIsOfDaemon
  <1>1. TokenInv => FileIsOfDaemon
    BY DEF TokenInv, Written, FileIsOfDaemon, Serving
  <1> QED
    BY <1>1, TokenInvHolds, PTL

\* And a token that was accepted less than half of its life ago is accepted still, over
\* restarts too, as long as its file can be read and written and nobody asks for another:
\* Validate extends it before half of it is gone.
THEOREM UseKeepsTokenHolds ==
    ASSUME OnePort
    PROVE  Spec => []UseKeepsToken
  <1>1. TypeInv /\ TokenInv => UseKeepsToken
    <2> SUFFICES ASSUME TypeInv, TokenInv, kept # None, 2 * kept.age < TTL
                 PROVE  /\ file # None /\ file.tok = kept.tok /\ file.left > 0
                        /\ \A d \in Daemons :
                            Serving(d) => mem[d].tok = kept.tok /\ mem[d].left > 0
      BY DEF UseKeepsToken
    <2>1. \A s \in Sessions : Lives(s) => s.left > 0
      <3>1. \A s \in Sessions : s.left \in Int
        BY DEF Sessions
      <3> QED
        BY <3>1, CredentialsAssumption DEF Lives, TypeInv, TypeOK
    <2>2. Lives(file) /\ \A d \in Daemons : Serving(d) => Lives(mem[d])
      BY DEF TokenInv, Kept, Serving, Holds
    <2> QED
      BY <2>1, <2>2 DEF Lives, TypeInv, TypeOK
  <1> QED
    BY <1>1, TypeInvHolds, TokenInvHolds, PTL
===============================================================================
