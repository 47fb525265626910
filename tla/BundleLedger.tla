---------------------------- MODULE BundleLedger ----------------------------
(***************************************************************************)
(* What the store of bundles promises, without files, locks, processes and *)
(* clocks.  A ledger has one bundle for each sequence that was ever        *)
(* accepted.  Its changes come one after the other: a bundle is accepted,  *)
(* what was active becomes the target of a rollback, then the bundle is    *)
(* activated; a rollback exchanges the active sequence and its target.     *)
(* Each may be abandoned between two steps, and what was done stays.       *)
(***************************************************************************)
EXTENDS Integers

CONSTANTS Bundles, SequenceOf, MaxSeq, None

VARIABLES
    accepted,   \* the bundle of each accepted sequence
    mark,       \* the sequence accepted last
    active,     \* the sequence in use, or 0
    target,     \* where a rollback goes, or 0
    pending     \* the change in progress

vars == <<accepted, mark, active, target, pending>>

Change(kind, s) == [kind |-> kind, seq |-> s]
Nothing == Change("nothing", 0)

Init ==
    /\ accepted = [s \in 1 .. MaxSeq |-> None]
    /\ mark = 0 /\ active = 0 /\ target = 0
    /\ pending = Nothing

(* A bundle is accepted at or above the mark, and a sequence has only one. *)
Accept(b) ==
    LET s == SequenceOf[b]
    IN  /\ pending = Nothing
        /\ s >= mark /\ accepted[s] \in {None, b}
        /\ accepted' = [accepted EXCEPT ![s] = b]
        /\ mark' = s
        /\ pending' = Change("accepted", s)
        /\ UNCHANGED <<active, target>>

(* What was active can be returned to, unless it is accepted once more or  *)
(* cannot be told.                                                         *)
Remember ==
    /\ pending.kind = "accepted"
    /\ \/ target' = IF active \in {0, pending.seq} THEN target ELSE active
       \/ UNCHANGED target
    /\ pending' = Change("remembered", pending.seq)
    /\ UNCHANGED <<accepted, mark, active>>

(* Half of a rollback, the other half is Activate. *)
Exchange ==
    /\ pending = Nothing
    /\ active # 0 /\ target \notin {0, active}
    /\ target' = active
    /\ pending' = Change("exchanged", target)
    /\ UNCHANGED <<accepted, mark, active>>

Activate ==
    /\ pending.kind \in {"remembered", "exchanged"}
    /\ active' = pending.seq
    /\ pending' = Nothing
    /\ UNCHANGED <<accepted, mark, target>>

Abandon ==
    /\ pending # Nothing
    /\ pending' = Nothing
    /\ UNCHANGED <<accepted, mark, active, target>>

Next == (\E b \in Bundles : Accept(b)) \/ Remember \/ Exchange \/ Activate \/ Abandon

Spec == Init /\ [][Next]_vars

=============================================================================
