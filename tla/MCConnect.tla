------------------------------ MODULE MCConnect ------------------------------
EXTENDS Connect, TLC

CONSTANTS v1, v2, d1, d2, d3

Schemas == v1 :> 2 @@ v2 :> 3

Run(force, mode, shims, codex, v, p) ==
    [op |-> "connect", force |-> force, mode |-> mode, shims |-> shims, codex |-> codex,
     version |-> v, port |-> p]

\* Uploads of either version, forced ones of the older; Codex, on either port; a host of
\* a package manager, and the way back from it.
Few ==
    {Run(FALSE, "plain", TRUE, FALSE, v, 1) : v \in Versions}
        \cup {Run(TRUE, "plain", codex, TRUE, v1, 1) : codex \in BOOLEAN}
        \cup {Run(FALSE, "plain", FALSE, TRUE, v1, p) : p \in Ports}
        \cup {Run(FALSE, "remote", codex, ~codex, v1, 1) : codex \in BOOLEAN}
        \cup {Run(FALSE, "local", TRUE, FALSE, v2, 1),
              [Run(FALSE, "plain", FALSE, FALSE, v1, 1) EXCEPT !.op = "uninstall"]}

Symmetry == Permutations({d1, d2, d3})
=============================================================================
