-------------------------------- MODULE Scan --------------------------------
(* Baseline scans (internal/scan/service.go) over the snapshot store        *)
(* (internal/store/snapshots.go).  Every scan is a process with its own     *)
(* connection: `scan`, `hook` and the scheduled scan take no common lock.   *)
(* A scan looks at the host, loads the newest snapshot in several queries   *)
(* outside any transaction, computes what changed, saves its own snapshot   *)
(* and only then reports the change.                                        *)
(*                                                                          *)
(* The host may change between any two reads and the wall clock may be set  *)
(* forwards and back, so a scan may collect any inventory and every reading *)
(* of the clock is any time.                                                *)
EXTENDS Shared, Integers, FiniteSets

CONSTANTS
    Assets,         \* identifiers of assets
    Contents,       \* trusted digests of an asset's content
    Absent, Unread, \* not in the inventory; in it without a trusted digest
    Window,         \* Options.SnapshotRetention
    HistoryWindow,  \* Options.AssetHistoryRetention
    MaxTime         \* bound of the clock

ASSUME BoundsAssumption ==
    /\ Window \in Nat \ {0} /\ HistoryWindow \in Nat \ {0} /\ MaxTime \in Nat
    /\ IsFiniteSet(Assets)

(* Finished times, and the retention clock, which may have moved on. *)
Time == 0..MaxTime
Clock == 0..MaxTime + Window

(* A row of asset_history. *)
Sightings ==
    [first : Time, last : Time, digest : Contents \cup {None}, changed : Time]

ASSUME DistinctAssumption ==
    /\ Absent \notin Contents /\ Unread \notin Contents /\ Absent # Unread
    /\ None \notin Time /\ None \notin Sightings

VARIABLES
    snaps,          \* the stored snapshots by the time their scan finished
    history,        \* asset_history
    pc,
    inv,            \* the inventory this scan collected
    target, want,   \* the snapshot being loaded and its inventory_state
    prev,           \* what was loaded of it
    finished, asOf, \* the scan's finished time and its retention clock
    told,           \* states of each asset some scan has reported
    swallowed,      \* states saved by a scan that ended before its report
    saved           \* every snapshot ever saved

database == <<snaps, history>>
loaded == <<target, want, prev>>
clocks == <<finished, asOf>>
outcome == <<told, swallowed, saved>>
vars == <<database, pc, inv, loaded, clocks, outcome>>

Present == Contents \cup {Unread}
States == Present \cup {Absent}
Inventories == [Assets -> States]
Nothing == [a \in Assets |-> Absent]

(* The row counts of inventory_state.  The code also counts evidence        *)
(* without a trusted digest: a torn load it refuses may pass here.          *)
AssetsOf(i) == {a \in Assets : i[a] # Absent}
EvidenceOf(i) == {a \in Assets : i[a] \in Contents}
Counts(i) == [assets |-> Cardinality(AssetsOf(i)), evidence |-> Cardinality(EvidenceOf(i))]

(* ORDER BY finished_at DESC LIMIT 1.  Timestamps have nanoseconds: two     *)
(* scans never finish at the same one, so the finished time stands for the  *)
(* scan identifier and ties do not arise.                                   *)
Latest(times) == CHOOSE t \in times : \A u \in times : u <= t

(* The labels before and after the snapshot is durable. *)
Unsaved == {"load", "state", "assets", "evidence", "finish", "save"}
Durable == {"secure", "report"}

Goto(p, label) == pc' = [pc EXCEPT ![p] = label]

Init ==
    /\ snaps = [t \in {} |-> Nothing]
    /\ history = [a \in Assets |-> None]
    /\ pc = [p \in Procs |-> "idle"]
    /\ inv = [p \in Procs |-> Nothing]
    /\ target = [p \in Procs |-> None]
    /\ want = [p \in Procs |-> None]
    /\ prev = [p \in Procs |-> Nothing]
    /\ finished = [p \in Procs |-> 0]
    /\ asOf = [p \in Procs |-> 0]
    /\ told = [a \in Assets |-> {Absent}]
    /\ swallowed = [a \in Assets |-> {}]
    /\ saved = snaps

(* The scan ends and forgets what it held in memory. *)
Return(p) ==
    /\ Goto(p, "idle")
    /\ inv' = [inv EXCEPT ![p] = Nothing]
    /\ target' = [target EXCEPT ![p] = None]
    /\ want' = [want EXCEPT ![p] = None]
    /\ prev' = [prev EXCEPT ![p] = Nothing]
    /\ finished' = [finished EXCEPT ![p] = 0]
    /\ asOf' = [asOf EXCEPT ![p] = 0]

-----------------------------------------------------------------------------
(* Collection and LatestSnapshot: separate queries, between which others    *)
(* may save.                                                                *)

(* Collectors and the evidence engine: an asset is missed when its          *)
(* collector fails, panics or runs out of time, and has no trusted digest   *)
(* when its content is unreadable or the budget ends.                       *)
Collect(p) ==
    /\ pc[p] = "idle"
    /\ \E i \in Inventories : inv' = [inv EXCEPT ![p] = i]
    /\ Goto(p, "load")
    /\ UNCHANGED <<database, loaded, clocks, outcome>>

(* The newest scan and its coverage; without one this is the first run. *)
LoadScan(p) ==
    /\ pc[p] = "load"
    /\ IF DOMAIN snaps = {}
       THEN /\ Goto(p, "finish")
            /\ UNCHANGED target
       ELSE /\ target' = [target EXCEPT ![p] = Latest(DOMAIN snaps)]
            /\ Goto(p, "state")
    /\ UNCHANGED <<database, inv, want, prev, clocks, outcome>>

(* The rows of the snapshot being loaded: none once it was pruned. *)
Rows(p) == IF target[p] \in DOMAIN snaps THEN snaps[target[p]] ELSE Nothing

LoadState(p) ==
    /\ pc[p] = "state"
    /\ IF target[p] \in DOMAIN snaps
       THEN /\ want' = [want EXCEPT ![p] = Counts(Rows(p))]
            /\ Goto(p, "assets")
            /\ UNCHANGED <<inv, target, prev, clocks>>
       ELSE Return(p)
    /\ UNCHANGED <<database, outcome>>

(* loadAssets and its row count. *)
LoadAssets(p) ==
    /\ pc[p] = "assets"
    /\ IF Cardinality(AssetsOf(Rows(p))) = want[p].assets
       THEN /\ prev' = [prev EXCEPT ![p] =
                           [a \in Assets |-> IF Rows(p)[a] = Absent THEN Absent ELSE Unread]]
            /\ Goto(p, "evidence")
            /\ UNCHANGED <<inv, target, want, clocks>>
       ELSE Return(p)
    /\ UNCHANGED <<database, outcome>>

(* Mutant of LoadEvidence: the rows are not counted. *)
BugEvidenceUncounted(p) ==
    /\ pc[p] = "evidence"
    /\ prev' = [prev EXCEPT ![p] =
                   [a \in Assets |-> IF Rows(p)[a] \in Contents THEN Rows(p)[a] ELSE prev[p][a]]]
    /\ Goto(p, "finish")
    /\ UNCHANGED <<inv, target, want, clocks>>
    /\ UNCHANGED <<database, outcome>>

(* loadEvidence and its row count. *)
LoadEvidence(p) ==
    /\ pc[p] = "evidence"
    /\ IF Cardinality(EvidenceOf(Rows(p))) = want[p].evidence
       THEN /\ prev' = [prev EXCEPT ![p] =
                           [a \in Assets |-> IF Rows(p)[a] \in Contents THEN Rows(p)[a] ELSE prev[p][a]]]
            /\ Goto(p, "finish")
            /\ UNCHANGED <<inv, target, want, clocks>>
       ELSE Return(p)
    /\ UNCHANGED <<database, outcome>>

-----------------------------------------------------------------------------
(* Diff, SaveScan and the report. *)

(* Mutant of Drift: content that was unreadable last time is not news. *)
BugUnreadNotCompared(p) ==
    {a \in Assets : prev[p][a] # inv[p][a] /\ ~(prev[p][a] = Unread /\ inv[p][a] # Absent)}

(* inventory.Diff: what the scan will report. *)
Drift(p) == {a \in Assets : prev[p][a] # inv[p][a]}

(* A scan whose clock was set back finishes when it started.  SaveScan      *)
(* reads its retention clock before its transaction may have to wait for    *)
(* another writer.                                                          *)
Finish(p) ==
    /\ pc[p] = "finish"
    /\ \E start, end \in Time, at \in Clock :
          /\ finished' = [finished EXCEPT ![p] = IF end < start THEN start ELSE end]
          /\ asOf' = [asOf EXCEPT ![p] = at]
    /\ finished'[p] \notin
          DOMAIN saved \cup {finished[q] : q \in {q \in Procs : pc[q] = "save"}}
    /\ Goto(p, "save")
    /\ UNCHANGED <<database, inv, loaded, outcome>>

Insert(s, t, i) == [u \in DOMAIN s \cup {t} |-> IF u = t THEN i ELSE s[u]]

(* Mutant of PruneSnapshots: the newest snapshot expires like any other. *)
BugNewestExpires(s, at) ==
    LET kept == {t \in DOMAIN s : t >= at - Window}
    IN  [t \in kept |-> s[t]]

(* Expired snapshots go, the newest always stays. *)
PruneSnapshots(s, at) ==
    LET kept == {t \in DOMAIN s : t >= at - Window \/ t = Latest(DOMAIN s)}
    IN  [t \in kept |-> s[t]]

(* Mutant of Digest: the digest of unreadable content is recorded. *)
BugUntrustedDigest(state) == state

(* Only complete evidence carries a trusted digest. *)
Digest(state) == IF state \in Contents THEN state ELSE None

(* Mutant of Sighting: the digest of an older scan wins. *)
BugDigestGoesBack(h, t, state) ==
    IF h = None
    THEN [first |-> t, last |-> t, digest |-> Digest(state), changed |-> t]
    ELSE [first |-> IF t < h.first THEN t ELSE h.first,
          last |-> IF t > h.last THEN t ELSE h.last,
          digest |-> IF state \in Contents THEN state ELSE h.digest,
          changed |-> IF state \in Contents /\ state # h.digest THEN t ELSE h.changed]

(* The upsert of one asset: sightings extend the interval both ways, the    *)
(* digest and its date only move forward in scan time.                      *)
Sighting(h, t, state) ==
    LET newer == h = None \/ t >= h.last
        news == newer /\ state \in Contents
    IN  IF h = None
        THEN [first |-> t, last |-> t, digest |-> Digest(state), changed |-> t]
        ELSE [first |-> IF t < h.first THEN t ELSE h.first,
              last |-> IF newer THEN t ELSE h.last,
              digest |-> IF news THEN state ELSE h.digest,
              changed |-> IF news /\ state # h.digest THEN t ELSE h.changed]

RecordAssetHistory(h, t, i) ==
    [a \in Assets |-> IF i[a] = Absent THEN h[a] ELSE Sighting(h[a], t, i[a])]

(* Mutant of PruneAssetHistory: what a retained snapshot names is not kept. *)
BugHistoryExpires(h, s, at) ==
    [a \in Assets |->
        IF h[a] # None /\ h[a].last < at - HistoryWindow THEN None ELSE h[a]]

(* History expires unless a retained snapshot names the asset. *)
PruneAssetHistory(h, s, at) ==
    [a \in Assets |->
        IF /\ h[a] # None
           /\ h[a].last < at - HistoryWindow
           /\ \A t \in DOMAIN s : s[t][a] = Absent
        THEN None ELSE h[a]]

(* One transaction, or an error that leaves nothing behind. *)
Save(p) ==
    /\ pc[p] = "save"
    /\ \/ LET t == finished[p]
              recorded == RecordAssetHistory(history, t, inv[p])
          IN  /\ snaps' = PruneSnapshots(Insert(snaps, t, inv[p]), asOf[p])
              /\ history' = PruneAssetHistory(recorded, snaps', asOf[p])
              /\ saved' = Insert(saved, t, inv[p])
              /\ asOf' = [asOf EXCEPT ![p] = 0]
              /\ Goto(p, "secure")
              /\ UNCHANGED <<inv, loaded, finished>>
       \/ Return(p) /\ UNCHANGED <<database, saved>>
    /\ UNCHANGED <<told, swallowed>>

(* The drift of a saved scan that never reaches the user. *)
Swallow(p) ==
    swallowed' = [a \in Assets |->
        IF a \in Drift(p)
        THEN swallowed[a] \cup {inv[p][a]} ELSE swallowed[a]]

(* secureSQLiteFiles after the commit: its error becomes SaveScan's, and    *)
(* Baseline fails although the snapshot is durable.                         *)
Secure(p) ==
    /\ pc[p] = "secure"
    /\ \/ /\ Goto(p, "report")
          /\ UNCHANGED <<inv, loaded, clocks, swallowed>>
       \/ Return(p) /\ Swallow(p)
    /\ UNCHANGED <<database, told, saved>>

(* The caller prints the delta. *)
Report(p) ==
    /\ pc[p] = "report"
    /\ told' = [a \in Assets |->
                   IF a \in Drift(p) THEN told[a] \cup {inv[p][a]} ELSE told[a]]
    /\ Return(p)
    /\ UNCHANGED <<database, swallowed, saved>>

(* The caller's context ends, or a query fails, before the save. *)
Cancel(p) ==
    /\ pc[p] \in Unsaved
    /\ Return(p)
    /\ UNCHANGED <<database, outcome>>

-----------------------------------------------------------------------------
(* The operating system ends the process, or the report cannot be written;  *)
(* before the commit that is a cancellation.                                *)
Kill(p) ==
    /\ pc[p] \in Durable
    /\ Return(p)
    /\ Swallow(p)
    /\ UNCHANGED <<database, told, saved>>

Load(p) == LoadScan(p) \/ LoadState(p) \/ LoadAssets(p) \/ LoadEvidence(p)

Baseline(p) ==
    Collect(p) \/ Load(p) \/ Finish(p) \/ Save(p) \/ Secure(p) \/ Report(p) \/ Cancel(p)

Next == \E p \in Procs : Baseline(p) \/ Kill(p)

Spec == Init /\ [][Next]_vars

-----------------------------------------------------------------------------
(* Properties. *)

(* Every variable stays within its type. *)
TypeOK ==
    /\ DOMAIN saved \subseteq Time /\ saved \in [DOMAIN saved -> Inventories]
    /\ DOMAIN snaps \subseteq DOMAIN saved /\ snaps \in [DOMAIN snaps -> Inventories]
    /\ history \in [Assets -> Sightings \cup {None}]
    /\ pc \in [Procs -> {"idle"} \cup Unsaved \cup Durable]
    /\ inv \in [Procs -> Inventories]
    /\ target \in [Procs -> Time \cup {None}]
    /\ want \in [Procs -> [assets : Nat, evidence : Nat] \cup {None}]
    /\ prev \in [Procs -> Inventories]
    /\ finished \in [Procs -> Time]
    /\ asOf \in [Procs -> Clock]
    /\ told \in [Assets -> SUBSET States]
    /\ swallowed \in [Assets -> SUBSET States]

(* A scan compares with a snapshot some scan saved, whole, or with nothing  *)
(* before the first one: a snapshot pruned while it is being read makes the *)
(* load fail and never passes for a smaller inventory                       *)
(* (snapshots.go:363-520).                                                  *)
WholeBaseline ==
    \A p \in Procs :
        pc[p] \in {"finish", "save"} \cup Durable =>
            prev[p] = IF target[p] = None THEN Nothing ELSE saved[target[p]]

(* No state of an asset becomes part of a stored snapshot in silence: some  *)
(* scan reported it, is about to, or saved it and ended before its report   *)
(* (service.go:163-201).                                                    *)
NothingUnreported ==
    \A t \in DOMAIN snaps, a \in Assets :
        \/ snaps[t][a] \in told[a] \cup swallowed[a]
        \/ \E p \in Procs :
              pc[p] \in Durable /\ a \in Drift(p) /\ inv[p][a] = snaps[t][a]

(* A retained snapshot never contradicts the history: each of its assets    *)
(* has a history whose interval contains the scan, whatever was pruned and  *)
(* in whatever order the scans were saved (snapshots.go:219-316).           *)
HistoryCovers ==
    \A t \in DOMAIN snaps, a \in Assets :
        snaps[t][a] # Absent =>
            /\ history[a] # None
            /\ history[a].first <= t /\ t <= history[a].last
            /\ history[a].first <= history[a].changed
            /\ history[a].changed <= history[a].last

(* The digest in the history is that of the newest snapshot, if that one    *)
(* has a trusted digest, although an older scan may be saved after it       *)
(* (snapshots.go:261-276).                                                  *)
HistoryCurrent ==
    DOMAIN snaps # {} =>
        \A a \in Assets :
            LET state == snaps[Latest(DOMAIN snaps)][a]
            IN  state \in Contents => history[a].digest = state

(* The history of assets and the retained snapshots never contradict each   *)
(* other, whatever was pruned or saved out of order                         *)
(* (snapshots.go:219-316).                                                  *)
HistorySound == HistoryCovers /\ HistoryCurrent

(* Once there is a baseline there always is one, and it never moves back in *)
(* scan time, whatever the clock, the window and the order of the saves     *)
(* (snapshots.go:219-240).                                                  *)
BaselineAdvances ==
    [][DOMAIN snaps # {} =>
          /\ DOMAIN snaps' # {}
          /\ Latest(DOMAIN snaps') >= Latest(DOMAIN snaps)]_vars

=============================================================================
