---------------------------- MODULE MCCommitPath ----------------------------
(***************************************************************************)
(* Small instances of CommitPath: three calls over two records, of which   *)
(* one writes both, so that deltas overlap.                                *)
(***************************************************************************)
EXTENDS CommitPath, TLC

CONSTANTS a, b, c, k1, k2, watermark, seed1, seed2

ThreeCalls == {a, b, c}
ThreeWrites == (a :> {k1, k2}) @@ (b :> {k2}) @@ (c :> {})
TwoCalls == {a, b}
TwoWrites == (a :> {k1, k2}) @@ (b :> {k2})

\* A new database has only the watermark to seed.  One that an older release
\* left behind, migrated to the native engine without a revision log, also has
\* the revisions seed1 and seed2 of the records it already holds.
FreshKeys == {k1, k2, watermark}
FreshSeed == {watermark}
LegacyKeys == {k1, k2, watermark, seed1, seed2}
LegacySeed == {watermark, seed1, seed2}
=============================================================================
