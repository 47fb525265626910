-------------------------- MODULE QuarantineCustody --------------------------
(***************************************************************************)
(* What quarantine promises, without files or processes: a record moves    *)
(* through its life once, and between the moment it says quarantined and   *)
(* the moment it says restored the vault holds its verified bytes.         *)
(***************************************************************************)
CONSTANT Recs

VARIABLES
    state,  \* the life of each record
    held    \* the records whose verified bytes the vault holds

vars == <<state, held>>

Init ==
    /\ state = [r \in Recs |-> "none"]
    /\ held = {}

Step(r, from, to) ==
    /\ state[r] = from
    /\ state' = [state EXCEPT ![r] = to]
    /\ UNCHANGED held

Request(r) == Step(r, "none", "requested")

Reject(r) == Step(r, "requested", "failed")

(* The bytes arrive while the request is open. *)
Deposit(r) ==
    /\ state[r] = "requested"
    /\ held' = held \cup {r}
    /\ UNCHANGED state

(* Only bytes the vault holds may be called quarantined. *)
Secure(r) == r \in held /\ Step(r, "requested", "quarantined")

Release(r) == Step(r, "quarantined", "restored")

(* The vault gives up bytes only when no record relies on them. *)
Discard(r) ==
    /\ state[r] # "quarantined"
    /\ held' = held \ {r}
    /\ UNCHANGED state

Next ==
    \E r \in Recs :
        Request(r) \/ Reject(r) \/ Deposit(r) \/ Secure(r) \/ Release(r) \/ Discard(r)

Spec == Init /\ [][Next]_vars

=============================================================================
