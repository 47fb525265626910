-------------------------------- MODULE Ladder --------------------------------
(***************************************************************************)
(* The severity ladder (internal/inventory/ladder.go): the difference of   *)
(* two snapshots becomes at most one row per asset, with the highest rung  *)
(* that holds of it.  An asset is its type, host and name, the identity,   *)
(* and a version, so one identity may have several assets at a time.  A    *)
(* snapshot has assets and the records about them, observations and        *)
(* evidence, which come and go on their own.                               *)
(***************************************************************************)
EXTENDS Shared, Integers, FiniteSets

CONSTANTS
    LadderAssets,
    IdentityOf,     \* asset -> identity
    VersionOf,      \* asset -> version, or None
    LadderRecords,  \* the ids of observations and evidence
    OwnerOf,        \* record -> asset, or None: it cannot be attributed
    Snapshots       \* what may be stored: [assets, records], None where there is none

(* A record belongs to an asset of its snapshot (inventory.Build).  An     *)
(* observation has no status of its own; classify takes it as complete.    *)
ASSUME LadderAssumption ==
    /\ IdentityOf \in [LadderAssets -> {IdentityOf[a] : a \in LadderAssets}] /\ DOMAIN VersionOf = LadderAssets
    /\ IsFiniteSet(LadderAssets)
    /\ None \notin LadderAssets /\ OwnerOf \in [LadderRecords -> LadderAssets \cup {None}]
    /\ \A s \in Snapshots :
        /\ DOMAIN s.assets = LadderAssets /\ DOMAIN s.records = LadderRecords
        /\ \A r \in LadderRecords : s.records[r] # None /\ OwnerOf[r] # None => s.assets[OwnerOf[r]] # None

VARIABLES
    was, is,        \* the snapshots
    rows            \* the report; None before

ladderVars == <<was, is, rows>>

Added == {a \in LadderAssets : was.assets[a] = None /\ is.assets[a] # None}
Removed == {a \in LadderAssets : was.assets[a] # None /\ is.assets[a] = None}
Staying == {a \in LadderAssets : was.assets[a] # None /\ is.assets[a] # None}
Of(assets, identity) == {a \in assets : IdentityOf[a] = identity}

(* The records that the delta has as added or changed; what it has as      *)
(* removed is passed over, whoever it belonged to.                         *)
NewOrChanged == {r \in LadderRecords : is.records[r] \notin {None, was.records[r]}}
MovedOf(a) == {r \in NewOrChanged : OwnerOf[r] = a}

(* The rungs in order. *)
Rung == [NEW |-> 0, CHANGED |-> 1, UNVERIFIED |-> 2, UPGRADED |-> 3, REMOVED |-> 4]
Highest(rungs) == CHOOSE r \in rungs : \A s \in rungs : Rung[r] <= Rung[s]

(* A transition is established by one addition against one removal, both   *)
(* with a version.                                                         *)
Paired(identity) ==
    /\ Cardinality(Of(Added, identity)) = 1 /\ Cardinality(Of(Removed, identity)) = 1
    /\ \A a \in Of(Added \cup Removed, identity) : VersionOf[a] # None

(* The changes of the assets themselves. *)
AssetRungs(a) ==
    (IF a \in Staying /\ was.assets[a] # is.assets[a] THEN {"CHANGED"} ELSE {})
    \cup (IF a \in Added THEN {IF Paired(IdentityOf[a]) THEN "UPGRADED" ELSE "NEW"} ELSE {})

(* Not hashed, and not on purpose. *)
Gap(r) == is.records[r].status \notin {"complete", "unsupported"}

(* Mutant: an upgrade says nothing of what could not be hashed. *)
BugUpgradeMasks(a) ==
    IF a \in Added THEN {} ELSE {IF Gap(r) THEN "UNVERIFIED" ELSE "CHANGED" : r \in MovedOf(a)}

(* The changes of their records.  What could not be hashed speaks even for *)
(* an asset that was added; what is known of one is part of its being new. *)
RecordRungs(a) ==
    {IF Gap(r) THEN "UNVERIFIED" ELSE "CHANGED" : r \in {r \in MovedOf(a) : a \notin Added \/ Gap(r)}}

Row(a, rung) == [key |-> a, rung |-> rung, from |-> IF rung = "UPGRADED" THEN VersionOf[CHOOSE r \in Of(Removed, IdentityOf[a]) : TRUE]
                                                 ELSE IF rung = "REMOVED" THEN VersionOf[a] ELSE None]

(* classify *)
Classify ==
    /\ rows = None
    /\ rows' = {Row(a, Highest(AssetRungs(a) \cup RecordRungs(a))) : a \in {x \in Added \cup Staying : AssetRungs(x) \cup RecordRungs(x) # {}}}
               \cup {Row(a, "REMOVED") : a \in {x \in Removed : ~Paired(IdentityOf[x])}}
    /\ UNCHANGED <<was, is>>

InitLadder == was \in Snapshots /\ is \in Snapshots /\ rows = None

NextLadder == Classify

-----------------------------------------------------------------------------
RowsOf(a) == {r \in rows : r.key = a}

(* No asset has two rows.  One that stays has a row exactly if it is       *)
(* described differently or something recorded of it now is new or         *)
(* different: a record that is gone from it makes none, and one that       *)
(* cannot be attributed is nobody's.  An addition is told, and a deletion  *)
(* in a row of its own or by the row of the one asset that took its place  *)
(* (classify, ladder.go:164-330: dropping a deletion is "the one thing     *)
(* this report exists to show").                                           *)
NothingHidden ==
    rows # None =>
        /\ \A a \in LadderAssets : Cardinality(RowsOf(a)) <= 1
        /\ \A a \in Staying :
            RowsOf(a) # {} <=>
                \/ is.assets[a] # was.assets[a]
                \/ \E r \in LadderRecords : OwnerOf[r] = a /\ is.records[r] # None /\ is.records[r] # was.records[r]
        /\ \A a \in Added : RowsOf(a) # {}
        /\ \A a \in Removed :
            \/ \E r \in RowsOf(a) : r.rung = "REMOVED"
            \/ \E b \in Added : /\ Of(Added, IdentityOf[a]) = {b} /\ Of(Removed, IdentityOf[a]) = {a}
                                /\ \E r \in RowsOf(b) : r.rung \in {"UNVERIFIED", "UPGRADED"}

(* What could not be hashed is not passed off as an upgrade, and as a      *)
(* change only where something else of the asset, known, did change; no    *)
(* row claims a gap, an upgrade or a change that is not there (classify).  *)
GapsSpeak ==
    rows # None =>
        \A row \in rows :
            LET a == row.key
                gap == \E r \in MovedOf(a) : is.records[r].status \notin {"complete", "unsupported"}
                known == is.assets[a] # was.assets[a] \/ \E r \in MovedOf(a) : is.records[r].status \in {"complete", "unsupported"}
            IN  /\ gap => row.rung \in {"NEW", "UNVERIFIED"} \/ (row.rung = "CHANGED" /\ known)
                /\ row.rung = "UNVERIFIED" => gap
                /\ row.rung = "CHANGED" => a \in Staying /\ known
                /\ row.rung = "UPGRADED" =>
                    \E b \in Removed : Of(Removed, IdentityOf[a]) = {b} /\ Of(Added, IdentityOf[a]) = {a} /\ row.from = VersionOf[b]

=============================================================================
