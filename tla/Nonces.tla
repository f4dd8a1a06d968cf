-------------------------------- MODULE Nonces --------------------------------
(***************************************************************************)
(* The notification nonces of the daemon (internal/daemon/server.go and      *)
(* nonce_store.go): a FIFO-capped registry with one nonce per host, each     *)
(* valid for a TTL, saved in one file that every start of a daemon reads.     *)
(*                                                                         *)
(* One action is one critical section of noncesMu.  The file is replaced      *)
(* atomically, so a write happens or it does not.  The daemon refuses the     *)
(* clipboard token as a nonce before it takes the lock; Nonces are the others. *)
(***************************************************************************)
EXTENDS Integers, FiniteSets, SequencesExt

CONSTANTS
    Daemons,   \* the daemons of one user, one per port, that share the file
    Nonces,
    Hosts,
    NoHost,    \* the host of a nonce registered without one
    MaxNonces, \* the cap
    TTL        \* nonceTTL

ASSUME NoncesAssumption ==
    /\ NoHost \notin Hosts
    /\ MaxNonces \in Nat \ {0}
    /\ TTL \in Nat \ {0}

VARIABLES
    up,      \* the daemons that run
    entries, \* of each daemon, notifyNonces: a function on the nonces it knows
    order,   \* of each daemon, notifyNoncesOrder
    disk     \* notify-nonces.json, a sequence

vars == <<up, entries, order, disk>>

\* Time left until ExpiresAt, 0 at the very moment and -1 after it.
Left == -1 .. TTL
Entry == [host : Hosts \cup {NoHost}, left : Left]
Saved == [nonce : Nonces, host : Hosts \cup {NoHost}, left : Left]

Empty == [n \in {} |-> 0]

\* The cap holds, and FIFO eviction sees every entry exactly once.
TypeOK ==
    /\ up \subseteq Daemons
    /\ \A d \in Daemons :
          /\ DOMAIN entries[d] \subseteq Nonces
          /\ \A n \in DOMAIN entries[d] : entries[d][n] \in Entry
          /\ ToSet(order[d]) = DOMAIN entries[d]
          /\ Len(order[d]) = Cardinality(DOMAIN entries[d])
          /\ Len(order[d]) <= MaxNonces
    /\ disk \in Seq(Saved)

\* !Before(ExpiresAt), as lookupValidNonce has it, and After(ExpiresAt), as
\* CleanupExpiredNonces does.
Valid(e) == e.left > 0
Past(e) == e.left < 0

\* lookupValidNonce.
Accepts(d, n) == d \in up /\ n \in DOMAIN entries[d] /\ Valid(entries[d][n])

Without(f, gone) == [n \in DOMAIN f \ gone |-> f[n]]
DropAll(s, gone) == SelectSeq(s, LAMBDA n : n \notin gone)

\* persistNoncesLocked: in order, then whatever the order does not name.
Contents(es, ord) ==
    LET listed == SelectSeq(ord, LAMBDA n : n \in DOMAIN es)
        all == listed \o SetToSeq(DOMAIN es \ ToSet(ord))
    IN  [i \in 1 .. Len(all) |->
            [nonce |-> all[i], host |-> es[all[i]].host, left |-> es[all[i]].left]]

-----------------------------------------------------------------------------

\* The registry without the nonces of this host.
Revoked(es, ord, h) ==
    LET gone == {n \in DOMAIN es : h # NoHost /\ es[n].host = h}
    IN  [es |-> Without(es, gone), ord |-> DropAll(ord, gone)]

\* The registry with the oldest entries beyond the cap evicted.
Capped(es, ord) ==
    LET over == Cardinality(DOMAIN es) - MaxNonces
        gone == IF over > 0 THEN ToSet(SubSeq(ord, 1, over)) ELSE {}
    IN  [es |-> Without(es, gone), ord |-> DropAll(ord, gone)]

\* The registry with the nonce added, or replaced in its slot.
Added(es, ord, n, h) ==
    [es |-> [m \in DOMAIN es \cup {n} |->
                IF m = n THEN [host |-> h, left |-> TTL] ELSE es[m]],
     ord |-> IF n \in DOMAIN es THEN ord ELSE Append(ord, n)]

\* RegisterNotificationNonceForHost: all of it, or none if it is not saved.
Register(d, n, h, saved) ==
    LET kept == Revoked(entries[d], order[d], h)
        now == Added(kept.es, kept.ord, n, h)
        reg == Capped(now.es, now.ord)
    IN  /\ d \in up
        /\ saved
        /\ entries' = [entries EXCEPT ![d] = reg.es]
        /\ order' = [order EXCEPT ![d] = reg.ord]
        /\ disk' = Contents(reg.es, reg.ord)
        /\ UNCHANGED up

\* CleanupExpiredNonces; a failed save is only logged.
Cleanup(d, saved) ==
    LET gone == {n \in DOMAIN entries[d] : Past(entries[d][n])}
        es == Without(entries[d], gone)
        ord == DropAll(order[d], gone)
    IN  /\ d \in up
        /\ entries' = [entries EXCEPT ![d] = es]
        /\ order' = [order EXCEPT ![d] = ord]
        /\ disk' = IF saved THEN Contents(es, ord) ELSE disk
        /\ UNCHANGED up

\* What LoadPersistedNonces takes from the file.
Loadable(s) == SelectSeq(s, Valid)

\* Mutant: the host a nonce is bound to does not survive the restart.
StartForgetsHost(d) ==
    LET file == Loadable(disk)
        ord == [i \in 1 .. Len(file) |-> file[i].nonce]
        es == [n \in ToSet(ord) |->
                  LET i == CHOOSE j \in 1 .. Len(file) : file[j].nonce = n
                  IN  [host |-> NoHost, left |-> file[i].left]]
        reg == Capped(es, ord)
    IN  /\ d \notin up
        /\ up' = up \cup {d}
        /\ entries' = [entries EXCEPT ![d] = reg.es]
        /\ order' = [order EXCEPT ![d] = reg.ord]
        /\ UNCHANGED disk

\* A start: the file becomes the registry, in its order.
Start(d) ==
    LET file == Loadable(disk)
        ord == [i \in 1 .. Len(file) |-> file[i].nonce]
        es == [n \in ToSet(ord) |->
                  LET i == CHOOSE j \in 1 .. Len(file) : file[j].nonce = n
                  IN  [host |-> file[i].host, left |-> file[i].left]]
        reg == Capped(es, ord)
    IN  /\ d \notin up
        /\ up' = up \cup {d}
        /\ entries' = [entries EXCEPT ![d] = reg.es]
        /\ order' = [order EXCEPT ![d] = reg.ord]
        /\ UNCHANGED disk

\* The daemon exits or is killed, between two critical sections or in one that
\* then has not replaced the file.
Stop(d) ==
    /\ d \in up
    /\ up' = up \ {d}
    /\ entries' = [entries EXCEPT ![d] = Empty]
    /\ order' = [order EXCEPT ![d] = <<>>]
    /\ UNCHANGED disk

Aged(e) == [e EXCEPT !.left = IF @ > -1 THEN @ - 1 ELSE @]

Tick ==
    /\ entries' = [d \in Daemons |-> [n \in DOMAIN entries[d] |-> Aged(entries[d][n])]]
    /\ disk' = [i \in 1 .. Len(disk) |-> Aged(disk[i])]
    /\ UNCHANGED <<up, order>>

Init ==
    /\ up = {}
    /\ entries = [d \in Daemons |-> Empty]
    /\ order = [d \in Daemons |-> <<>>]
    /\ disk = <<>>

Next ==
    \/ Tick
    \/ \E d \in Daemons :
          \/ Start(d) \/ Stop(d)
          \/ \E saved \in BOOLEAN :
                \/ Cleanup(d, saved)
                \/ \E n \in Nonces, h \in Hosts \cup {NoHost} :
                      Register(d, n, h, saved)

Spec == Init /\ [][Next]_vars

-----------------------------------------------------------------------------
(* Refinement of NotifyAuthority, for a user with a single daemon.          *)

theDaemon == CHOOSE d \in Daemons : TRUE

absGrants ==
    IF theDaemon \in up
    THEN Loadable(Contents(entries[theDaemon], order[theDaemon]))
    ELSE Loadable(disk)

Authority == INSTANCE NotifyAuthority WITH grants <- absGrants

\* Registrations, failed saves, cleanups and restarts are, to who holds a nonce, grants
\* that age: a host never has two, a failed registration leaves the ones before it, and a
\* restart accepts what was accepted, in memory and in the file alike.
ImplementsAuthority == Authority!AuthoritySpec
=============================================================================
