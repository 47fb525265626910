------------------------------ MODULE MCBundle ------------------------------
(* Instances of Bundle and BundleUpdate for TLC.  A behaviour works the    *)
(* store by its own commands or under updates, `part`: TLC checks the      *)
(* union of the two state spaces.                                          *)
EXTENDS BundleUpdate, TLC

CONSTANTS b1, b2, b2x, Parts

VARIABLE part

(* Two releases and a second bundle signed under sequence 2. *)
MCSeqOf == b1 :> 1 @@ b2 :> 2 @@ b2x :> 2
MCFrom == b1 :> 0 @@ b2 :> 0 @@ b2x :> 0
(* Release 1 expires first. *)
MCUntil == b1 :> 0 @@ b2 :> 1 @@ b2x :> 1

(* One release. *)
OneSeqOf == b1 :> 1
OneFrom == b1 :> 0
OneUntil == b1 :> 0

Symmetric == Permutations(Procs)

bundleVars == <<part, uvars>>

BundleInit == part \in Parts /\ UInit

(* Bounds under updates: one fault, or the clock moves; and a rollback is a *)
(* command of its own, so its process has no result of an update (which a  *)
(* crash takes as well).                                                   *)
UpdateBounds ==
    /\ faults' + now' <= 1
    /\ \A p \in Procs : pc'[p] = "swap" => out[p] = NoResult

BundleNext ==
    /\ \/ part = "store" /\ Next /\ faults' + now' <= 2 /\ UNCHANGED updates
       \/ part = "update" /\ UNext /\ UpdateBounds
    /\ UNCHANGED part

BundleSpec == BundleInit /\ [][BundleNext]_bundleVars

=============================================================================
