-------------------------------- MODULE Dedup --------------------------------
(***************************************************************************)
(* The Deduper of the daemon (internal/daemon/dedup.go) and its one caller,  *)
(* enqueueEnvelope: request handlers read the clock, wait for the lock and    *)
(* then decide with that reading, in whatever order they get the lock.       *)
(*                                                                         *)
(* Times are ages: Tick makes everything one unit older, and a handler that   *)
(* has read the clock but not yet taken the lock works with a `now' that is   *)
(* lag[h] units old.  Critical notifications never get here, and the count   *)
(* of repeats is left out: nobody reads it.                                 *)
(***************************************************************************)
EXTENDS Integers

CONSTANTS
    Callers,  \* request goroutines
    Keys,     \* dedup keys
    Window,   \* the dedup window
    MaxLag    \* bound: how old a handler's `now' may be

ASSUME DedupAssumption ==
    /\ Window \in Nat \ {0}
    /\ MaxLag \in Nat

VARIABLES
    cpc,    \* of each caller: "idle", "locking", or what AllowAt returned
    key,    \* the key each handler works on
    lag,    \* the age of each handler's `now'
    seen,   \* Deduper.items: the age of SeenAt, or Never
    allowed \* ghost: age of the `now' that last let the key through, or Never

dedupVars == <<cpc, key, lag, seen, allowed>>

\* From here on no handler's `now' can tell the age of an entry.
Old == Window + MaxLag + 1
Never == Old
Age == 0 .. Old

DedupTypeOK ==
    /\ cpc \in [Callers -> {"idle", "locking", "allowed", "suppressed"}]
    /\ key \in [Callers -> Keys]
    /\ lag \in [Callers -> 0 .. MaxLag]
    /\ seen \in [Keys -> Age]
    /\ allowed \in [Keys -> Age]

-----------------------------------------------------------------------------

ReadsClock(h, k) ==
    /\ cpc[h] = "idle"
    /\ cpc' = [cpc EXCEPT ![h] = "locking"]
    /\ key' = [key EXCEPT ![h] = k]
    /\ UNCHANGED <<lag, seen, allowed>>

\* What the age of an entry is to a handler whose `now' is that old.
Expired(age, old) == age - old > Window

\* Mutant: the sweep takes entries that have just reached the window's end.
SweptTooSoon(old) ==
    [k \in Keys |-> IF seen[k] - old >= Window THEN Never ELSE seen[k]]

\* The entries that AllowAt leaves of the map before it looks at its own.
Swept(old) == [k \in Keys |-> IF Expired(seen[k], old) THEN Never ELSE seen[k]]

\* AllowAt, under the lock.  A repeat starts the window anew.
AllowAt(h) ==
    LET items == Swept(lag[h])
        fresh == items[key[h]] = Never
    IN  /\ cpc[h] = "locking"
        /\ cpc' = [cpc EXCEPT ![h] = IF fresh THEN "allowed" ELSE "suppressed"]
        /\ seen' = [items EXCEPT ![key[h]] = lag[h]]
        /\ allowed' = IF fresh THEN [allowed EXCEPT ![key[h]] = lag[h]] ELSE allowed
        /\ lag' = [lag EXCEPT ![h] = 0]
        /\ UNCHANGED key

Goes(h) ==
    /\ cpc[h] \in {"allowed", "suppressed"}
    /\ cpc' = [cpc EXCEPT ![h] = "idle"]
    /\ UNCHANGED <<key, lag, seen, allowed>>

Older(age) == IF age < Old THEN age + 1 ELSE Old

Tick ==
    /\ \A h \in Callers : cpc[h] = "locking" => lag[h] < MaxLag
    /\ lag' = [h \in Callers |->
                  IF cpc[h] = "locking" THEN lag[h] + 1 ELSE lag[h]]
    /\ seen' = [k \in Keys |-> Older(seen[k])]
    /\ allowed' = [k \in Keys |-> Older(allowed[k])]
    /\ UNCHANGED <<cpc, key>>

DedupInit ==
    /\ cpc = [h \in Callers |-> "idle"]
    /\ key \in [Callers -> Keys]
    /\ lag = [h \in Callers |-> 0]
    /\ seen = [k \in Keys |-> Never]
    /\ allowed = [k \in Keys |-> Never]

DedupNext ==
    \/ \E h \in Callers :
          AllowAt(h) \/ Goes(h) \/ \E k \in Keys : ReadsClock(h, k)
    \/ Tick

DedupSpec == DedupInit /\ [][DedupNext]_dedupVars

-----------------------------------------------------------------------------
(* Properties.                                                             *)

\* Two notifications of one key are let through only if their clocks are a
\* window apart, less twice what a handler's clock may be late: the SeenAt of a
\* late one can move an entry back, and a newer clock can sweep it away for an
\* older one that then finds none.
RepeatsApart ==
    [][\A h \in Callers :
          cpc[h] = "locking" /\ cpc'[h] = "allowed" =>
              allowed[key[h]] = Never
                  \/ allowed[key[h]] - lag[h] > Window - 2 * MaxLag]_dedupVars
=============================================================================
