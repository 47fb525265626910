---------------------------- MODULE MCQuarantine ----------------------------
(* Instances of Quarantine for TLC. *)
EXTENDS Quarantine, TLC

CONSTANTS r1, r2, c1, c2

(* Two selections of files with different bytes. *)
DistinctDigest == r1 :> c1 @@ r2 :> c2

(* A single selection. *)
OneDigest == r1 :> c1

Symmetric == Permutations(Inodes) \cup Permutations(Procs)

=============================================================================
