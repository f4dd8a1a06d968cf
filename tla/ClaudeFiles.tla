------------------------------ MODULE ClaudeFiles ------------------------------
(***************************************************************************)
(* What connect and uninstall do to the `claude` command on a host            *)
(* (internal/shim/ssh.go): ~/.local/bin/claude, claude.cc-clip-real beside it,*)
(* which holds the user's own while cc-clip's wrapper has its place, and      *)
(* claude.cc-clip-bak with the versions it links to, which v0.7.0 damaged by   *)
(* writing its wrapper through the link.                                    *)
(*                                                                         *)
(* A file is what it holds: the wrapper, a program of some version, or a link  *)
(* to the file of a version in Claude's own store.  A claude elsewhere on      *)
(* PATH is left out.  A module that extends this one decides when the         *)
(* actions are taken.                                                      *)
(***************************************************************************)

CONSTANTS
    Claudes,  \* versions of Claude Code
    None,     \* no file
    Wrapper,  \* cc-clip's, by its marker
    Odd       \* what is neither: a directory; a backup too small for a program

VARIABLES
    claude,  \* ~/.local/bin/claude
    sidecar, \* ~/.local/bin/claude.cc-clip-real
    bak,     \* ~/.local/bin/claude.cc-clip-bak
    store    \* the file of each version

claudeVars == <<claude, sidecar, bak, store>>

Program(v) == [link |-> FALSE, v |-> v]
Link(v) == [link |-> TRUE, v |-> v]
Programs == {Program(v) : v \in Claudes}
Links == {Link(v) : v \in Claudes}
Files == Programs \cup Links \cup {None, Wrapper, Odd}

ASSUME ClaudeFilesAssumption ==
    /\ Claudes # {}
    /\ None # Wrapper /\ None # Odd /\ Wrapper # Odd
    /\ {None, Wrapper, Odd} \cap (Programs \cup Links) = {}

ClaudeTypeOK ==
    /\ claude \in Files /\ sidecar \in Files /\ bak \in Files
    /\ store \in [Claudes -> {"real", "wrapper", "gone"}]

-----------------------------------------------------------------------------
(* What is looked up.                                                       *)

\* DetectV070State: C1 and C2, and C3 to C5 of the backup.
Corrupt == claude \in Links /\ store[claude.v] = "wrapper"
V070State ==
    IF ~Corrupt THEN "not_corrupted"
    ELSE IF bak \in Programs THEN "recoverable" ELSE "non_recoverable"

\* classifyClaudeBin
Kind ==
    CASE claude = None -> "none"
      [] claude = Wrapper -> "cc_wrapper"
      [] claude \in Links -> "symlink"
      [] claude \in Programs -> "regular"
      [] claude = Odd -> "other"

\* Mutant: whatever is in the sidecar may be replaced.
ConflictNever == FALSE

\* The pre-flight of installWrapperWithSidecar.
Conflict == sidecar # None

\* That a file runs Claude, and that `claude` does: the wrapper takes the sidecar.
Real(f) == f \in Programs \/ (f \in Links /\ store[f.v] = "real")
Runs == Real(claude) \/ (claude = Wrapper /\ Real(sidecar))

\* A version is somewhere on the host.
Exists(v) ==
    \/ store[v] = "real"
    \/ Program(v) \in {claude, sidecar, bak}

-----------------------------------------------------------------------------
(* What is done, one rename at a time.                                       *)

\* RecoverV070Corruption: the backup goes where the entry leads to at that moment.
Migrate ==
    /\ bak \in Programs /\ bak' = None
    /\ IF claude \in Links
       THEN store' = [store EXCEPT ![claude.v] = "real"] /\ UNCHANGED <<claude, sidecar>>
       ELSE claude' = bak /\ UNCHANGED <<sidecar, store>>

\* installWrapperNoOrigin and installWrapperOverwriteSelf.
PutWrapper == claude' = Wrapper /\ UNCHANGED <<sidecar, bak, store>>

\* The two renames of installWrapperWithSidecar, and what its trap undoes.  A directory
\* swallows what is renamed to it.
Stage ==
    /\ sidecar' = IF sidecar = Odd THEN Odd ELSE claude
    /\ claude' = None
    /\ UNCHANGED <<bak, store>>
Commit == PutWrapper
Unstage == claude' = sidecar /\ sidecar' = None /\ UNCHANGED <<bak, store>>

\* The two halves of UninstallRemoteClaudeWrapper.
RemoveWrapper == claude' = None /\ UNCHANGED <<sidecar, bak, store>>
PutBack ==
    IF sidecar # None THEN Unstage ELSE UNCHANGED claudeVars

\* Claude's installer, whatever it finds.
ClaudeUpdates(v) ==
    /\ claude' = Link(v)
    /\ store' = [store EXCEPT ![v] = "real"]
    /\ UNCHANGED <<sidecar, bak>>

\* How a host may look: nothing there, a program, a link, a link that v0.7.0 wrote
\* through with its backup or without, or a wrapper from an earlier connect.
ClaudeInit ==
    LET v == CHOOSE w \in Claudes : TRUE IN
        \/ /\ claude \in {None, Program(v), Odd} /\ sidecar \in {None, Odd} /\ bak = None
           /\ store = [w \in Claudes |-> "gone"]
        \/ /\ claude = Link(v) /\ sidecar = None /\ bak = None
           /\ store = [w \in Claudes |-> IF w = v THEN "real" ELSE "gone"]
        \/ /\ claude = Link(v) /\ sidecar = None /\ bak \in {None, Wrapper, Odd, Program(v)}
           /\ store = [w \in Claudes |-> IF w = v THEN "wrapper" ELSE "gone"]
        \/ /\ claude = Wrapper /\ sidecar \in {None, Program(v), Link(v)} /\ bak = None
           /\ store = [w \in Claudes |->
                IF w = v /\ sidecar = Link(v) THEN "real" ELSE "gone"]
===============================================================================
