--------------------------- MODULE NotifyAuthority ---------------------------
(***************************************************************************)
(* What the notification nonces of one daemon promise: a grant lasts for its *)
(* lifetime unless a newer grant takes its host, its nonce or its place,      *)
(* oldest first; restarts, failed writes and cleanups do not show.          *)
(***************************************************************************)
EXTENDS Integers, SequencesExt

CONSTANTS Nonces, Hosts, NoHost, MaxNonces, TTL

VARIABLE grants \* the valid grants, in the order they count as granted

Grant == [nonce : Nonces, host : Hosts \cup {NoHost}, left : 1 .. TTL]

\* The grant replaces those of its host.  A nonce that holds a grant keeps its
\* place; one whose grant has run out may still have its old place, and any other
\* one is the newest.  Expired entries take up room, so that the oldest grant may
\* have to go before there are MaxNonces valid ones.
Grants(n, h) ==
    LET g == [nonce |-> n, host |-> h, left |-> TTL]
        kept == SelectSeq(grants, LAMBDA x : h = NoHost \/ x.host # h)
        same == {i \in 1 .. Len(kept) : kept[i].nonce = n}
    IN  /\ \/ \E i \in same : grants' = ReplaceAt(kept, i, g)
           \/ /\ same = {}
              /\ \E i \in 1 .. Len(kept) + 1 : grants' = InsertAt(kept, i, g)
           \/ /\ same = {}
              /\ grants' = Tail(Append(kept, g))
        /\ Len(grants') \in 1 .. MaxNonces

Ages ==
    grants' = SelectSeq([i \in 1 .. Len(grants) |->
                            [grants[i] EXCEPT !.left = @ - 1]],
                        LAMBDA x : x.left > 0)

AuthorityInit == grants = <<>>

AuthorityNext ==
    Ages \/ \E n \in Nonces, h \in Hosts \cup {NoHost} : Grants(n, h)

AuthoritySpec == AuthorityInit /\ [][AuthorityNext]_grants
=============================================================================
