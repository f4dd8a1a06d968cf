--------------------------- MODULE MCConnectClaim ---------------------------
(* What remote_bin_mode.go says of bridges and package managers, against Connect. *)
EXTENDS MCConnect

\* The host of a package manager, with and without Codex.
Packaged == {Run(FALSE, "remote", ~codex, codex, v1, 1) : codex \in BOOLEAN}

\* remote_bin_mode.go:19-23: the comparison with the record "keeps the x11-bridge restart
\* decision honest when the package manager upgraded the binary underneath us": after a
\* run that says Codex is ready, the bridge runs the binary that is there.
BridgeIsCurrent ==
    pc = "done" /\ run.op = "connect" /\ run.codex /\ ~hurt =>
        \A b \in bridge : b.version = file[Used]
=============================================================================
