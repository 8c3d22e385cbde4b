----------------------------- MODULE MCArtifacts -----------------------------
(***************************************************************************)
(* Small instances of Artifacts.                                           *)
(***************************************************************************)
EXTENDS Artifacts, TLC

\* Builds and verifications beside writers of revisions; exports beside writers
\* of episodes and of the first revision.
MCUses ==
    [index |-> [jobs |-> {"build", "verify"}, replaces |-> FALSE, maxEpisodes |-> 0, maxRevisions |-> 2],
     export |-> [jobs |-> {"export"}, replaces |-> TRUE, maxEpisodes |-> 2, maxRevisions |-> 1]]

Symmetric == Permutations(Commands)
=============================================================================
