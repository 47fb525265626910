---------------------------- MODULE MCCoreInstall ----------------------------
(* Instances of CoreInstall for TLC. *)
EXTENDS CoreInstall, TLC

CONSTANTS v1, v2, v3, c1, c2, c3

(* Every version has one published build. *)
SoleBuild == v1 :> {c1}
TwoVersions == SoleBuild @@ v2 :> {c2}
ThreeBuilds == TwoVersions @@ v3 :> {c3}

(* Versions are interchangeable together with their builds. *)
Swap12 == v1 :> v2 @@ v2 :> v1 @@ c1 :> c2 @@ c2 :> c1
Swap23 == v2 :> v3 @@ v3 :> v2 @@ c2 :> c3 @@ c3 :> c2

Symmetric2 == Permutations(Procs) \cup {Swap12}
Symmetric3 == Permutations(Procs) \cup {Swap12, Swap23}

(* Bound: a run with a fault leaves the third version alone. *)
Unused(v) ==
    /\ staging[v] = NoDir /\ versions[v] = NoDir
    /\ v \notin {current, previous}
    /\ \A p \in Procs : v \notin {ver[p], seen[p], old[p]}
FaultsAmongTwo == faults = 0 \/ \E v \in Versions : Unused(v)

=============================================================================
