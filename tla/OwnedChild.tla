------------------------------ MODULE OwnedChild ------------------------------
(***************************************************************************)
(* What the supervisor may rely on about its ssh child, and all it may do   *)
(* to it: at most one child is owned, a child's forwarded flag is its own,  *)
(* and an exit waits for the supervisor until it is taken or the child is   *)
(* given up.                                                               *)
(*                                                                         *)
(* TunnelBackend, with its mutex, its reaper goroutines and the steps of    *)
(* Stop, implements this module; TunnelSupervisor, which takes one backend  *)
(* call for one step, stays within it.                                     *)
(***************************************************************************)

VARIABLES
    proc,      \* "none", "alive", or "dead" but not reaped
    bound,     \* the owned child holds the remote listener
    forwarded, \* the backend says that it does
    waiting    \* an exit nobody has taken yet

childVars == <<proc, bound, forwarded, waiting>>

\* A child starts only where there is none, and with nothing of the last one.
Starts ==
    /\ proc = "none"
    /\ proc' = "alive"
    /\ ~bound' /\ ~forwarded' /\ ~waiting'

Exits ==
    /\ proc = "alive"
    /\ proc' = "dead"
    /\ ~bound'
    /\ UNCHANGED <<forwarded, waiting>>

\* A reaped child leaves its exit behind.
IsReaped ==
    /\ proc = "dead"
    /\ proc' = "none"
    /\ ~bound' /\ ~forwarded' /\ waiting'

Binds ==
    /\ proc = "alive"
    /\ bound'
    /\ UNCHANGED <<proc, forwarded, waiting>>

\* The flag is set for a child that holds the listener, or died holding it.
Noted ==
    /\ proc = "alive" => bound
    /\ forwarded'
    /\ UNCHANGED <<proc, bound, waiting>>

Unbinds ==
    /\ ~bound'
    /\ UNCHANGED <<proc, forwarded, waiting>>

Unnoted ==
    /\ ~forwarded' /\ ~bound
    /\ UNCHANGED <<proc, bound, waiting>>

IsTaken ==
    /\ waiting /\ ~waiting'
    /\ UNCHANGED <<proc, bound, forwarded>>

\* Giving up the child; no exit appears that was not a child's.
GivenUp ==
    /\ proc' = "none"
    /\ ~bound' /\ ~forwarded'
    /\ waiting' => waiting \/ proc # "none"

ChildInit ==
    /\ proc = "none"
    /\ ~bound /\ ~forwarded /\ ~waiting

ChildNext ==
    \/ Starts \/ Exits \/ IsReaped
    \/ Binds \/ Noted \/ Unbinds \/ Unnoted
    \/ IsTaken \/ GivenUp

ChildSpec == ChildInit /\ [][ChildNext]_childVars
=============================================================================
