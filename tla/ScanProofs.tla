----------------------------- MODULE ScanProofs -----------------------------
(* Theorems about Scan, for any number of scans, assets and snapshots and   *)
(* any retention windows, and about the commands on its snapshots.          *)
EXTENDS Scan, PolicyCommands, FiniteSetTheorems, TLAPS

-----------------------------------------------------------------------------
(* Lemmas about the operators of the snapshot transaction. *)

(* A set of times with a last one. *)
HasLatest(times) == \E t \in times : \A u \in times : u <= t

LEMMA LatestIsLast ==
    ASSUME NEW times, HasLatest(times)
    PROVE  Latest(times) \in times /\ \A u \in times : u <= Latest(times)
  BY DEF HasLatest, Latest

(* Inserting a time: the later of it and the former latest is the latest. *)
LEMMA InsertLatest ==
    ASSUME NEW times \in SUBSET Int, times = {} \/ HasLatest(times), NEW t \in Int
    PROVE  /\ HasLatest(times \cup {t})
           /\ \/ Latest(times \cup {t}) = t /\ \A u \in times : u <= t
              \/ times # {} /\ Latest(times \cup {t}) = Latest(times) /\ t <= Latest(times)
  <1>1. CASE times = {}
    <2>1. HasLatest(times \cup {t})
      BY <1>1 DEF HasLatest
    <2> QED  BY <1>1, <2>1, LatestIsLast
  <1>2. CASE times # {}
    <2> DEFINE m == Latest(times)
    <2>1. m \in times /\ \A u \in times : u <= m
      BY <1>2, LatestIsLast
    <2> HIDE DEF m
    <2>2. PICK n \in {m, t} : m <= n /\ t <= n
      BY <2>1
    <2>3. n \in times \cup {t} /\ \A u \in times \cup {t} : u <= n
      BY <2>1, <2>2
    <2>4. HasLatest(times \cup {t})
      BY <2>3 DEF HasLatest
    <2>5. /\ Latest(times \cup {t}) \in times \cup {t}
          /\ \A u \in times \cup {t} : u <= Latest(times \cup {t})
      BY <2>4, LatestIsLast
    <2>6. Latest(times \cup {t}) = n
      <3> DEFINE l == Latest(times \cup {t})
      <3>1. l <= n /\ n <= l
        BY <2>3, <2>5
      <3>2. l \in Int /\ n \in Int
        BY <2>1, <2>2, <2>5
      <3> HIDE DEF l
      <3>3. l = n
        BY <3>1, <3>2
      <3> QED  BY <3>3 DEF l
    <2>7. Latest(times \cup {t}) = t \/ (Latest(times \cup {t}) = m /\ t <= m)
      BY <2>2, <2>6
    <2> QED  BY <1>2, <2>4, <2>5, <2>7 DEF m
  <1> QED  BY <1>1, <1>2

(* Pruning drops snapshots, changes none and keeps the latest. *)
LEMMA PruneFacts ==
    ASSUME NEW s, NEW at \in Int, DOMAIN s \subseteq Int, HasLatest(DOMAIN s)
    PROVE  LET kept == PruneSnapshots(s, at)
           IN  /\ DOMAIN kept \subseteq DOMAIN s
               /\ \A t \in DOMAIN kept : kept[t] = s[t]
               /\ HasLatest(DOMAIN kept)
               /\ Latest(DOMAIN kept) = Latest(DOMAIN s)
  <1> DEFINE kept == PruneSnapshots(s, at)
             m == Latest(DOMAIN s)
  <1>1. m \in DOMAIN s /\ \A u \in DOMAIN s : u <= m
    BY LatestIsLast
  <1>2. /\ DOMAIN kept = {t \in DOMAIN s : t >= at - Window \/ t = m}
        /\ \A t \in DOMAIN kept : kept[t] = s[t]
    BY DEF PruneSnapshots
  <1> HIDE DEF kept, m
  <1>3. m \in DOMAIN kept /\ \A u \in DOMAIN kept : u <= m
    BY <1>1, <1>2
  <1>4. HasLatest(DOMAIN kept)
    BY <1>3 DEF HasLatest
  <1>5. Latest(DOMAIN kept) = m
    <2>1. /\ Latest(DOMAIN kept) \in DOMAIN kept
          /\ \A u \in DOMAIN kept : u <= Latest(DOMAIN kept)
      BY <1>4, LatestIsLast
    <2>2. m \in Int /\ Latest(DOMAIN kept) \in Int
      BY <1>1, <1>2, <2>1
    <2>3. m <= Latest(DOMAIN kept) /\ Latest(DOMAIN kept) <= m
      BY <1>3, <2>1
    <2> QED  BY <2>2, <2>3
  <1> QED  BY <1>2, <1>4, <1>5 DEF kept, m

LEMMA InsertFacts ==
    ASSUME NEW s, NEW t, NEW i
    PROVE  /\ DOMAIN Insert(s, t, i) = DOMAIN s \cup {t}
           /\ Insert(s, t, i)[t] = i
           /\ \A u \in DOMAIN s : u # t => Insert(s, t, i)[u] = s[u]
  BY DEF Insert

-----------------------------------------------------------------------------
(* Type correctness.  The newest snapshot exists whenever there is one.     *)

StoreInv ==
    /\ TypeOK
    /\ DOMAIN snaps # {} => HasLatest(DOMAIN snaps)
    /\ \A t \in DOMAIN snaps : snaps[t] = saved[t]

(* What the transaction leaves of the snapshots. *)
LEMMA SavedSnaps ==
    ASSUME StoreInv, NEW p \in Procs, Save(p), pc'[p] = "secure"
    PROVE  /\ saved' = Insert(saved, finished[p], inv[p])
           /\ DOMAIN snaps' \subseteq DOMAIN snaps \cup {finished[p]}
           /\ \A t \in DOMAIN snaps' : snaps'[t] = Insert(snaps, finished[p], inv[p])[t]
           /\ HasLatest(DOMAIN snaps')
           /\ \/ Latest(DOMAIN snaps') = finished[p] /\ \A u \in DOMAIN snaps : u <= finished[p]
              \/ /\ DOMAIN snaps # {}
                 /\ Latest(DOMAIN snaps') = Latest(DOMAIN snaps)
                 /\ finished[p] <= Latest(DOMAIN snaps)
  <1> DEFINE t == finished[p]
             s == Insert(snaps, t, inv[p])
  <1>1. /\ saved' = Insert(saved, t, inv[p])
        /\ snaps' = PruneSnapshots(s, asOf[p])
    BY DEF Save, Return, Goto, StoreInv, TypeOK
  <1>2. DOMAIN snaps \in SUBSET Int /\ t \in Int /\ asOf[p] \in Int
    BY BoundsAssumption DEF StoreInv, TypeOK, Time, Clock
  <1>3. DOMAIN s = DOMAIN snaps \cup {t}
    BY DEF Insert
  <1>4. /\ HasLatest(DOMAIN s)
        /\ \/ Latest(DOMAIN s) = t /\ \A u \in DOMAIN snaps : u <= t
           \/ DOMAIN snaps # {} /\ Latest(DOMAIN s) = Latest(DOMAIN snaps) /\ t <= Latest(DOMAIN snaps)
    BY <1>2, <1>3, InsertLatest DEF StoreInv
  <1>5. /\ DOMAIN snaps' \subseteq DOMAIN s
        /\ \A u \in DOMAIN snaps' : snaps'[u] = s[u]
        /\ HasLatest(DOMAIN snaps')
        /\ Latest(DOMAIN snaps') = Latest(DOMAIN s)
    <2> HIDE DEF s
    <2>1. DOMAIN s \subseteq Int
      BY <1>2, <1>3
    <2> QED  BY <1>1, <1>2, <1>4, <2>1, PruneFacts
  <1> QED  BY <1>1, <1>3, <1>4, <1>5

(* A refused save, like every other step, leaves the database as it is.     *)
LEMMA OnlySaveWrites ==
    ASSUME TypeOK, Next, ~ \E p \in Procs : Save(p) /\ pc'[p] = "secure"
    PROVE  UNCHANGED <<database, saved>>
  <1>1. ASSUME NEW p \in Procs, Save(p) PROVE UNCHANGED <<database, saved>>
    BY <1>1 DEF Save, TypeOK, Goto
  <1> QED
    BY <1>1 DEF Next, Baseline, Load, Collect, LoadScan, LoadState, LoadAssets, LoadEvidence,
       Finish, Secure, Report, Cancel, Kill, database, outcome

LEMMA SightingType ==
    ASSUME NEW h \in Sightings \cup {None}, NEW t \in Time, NEW state \in States
    PROVE  Sighting(h, t, state) \in Sightings
  BY DistinctAssumption, SMTT(30) DEF Sighting, Sightings, Digest

LEMMA CountsType ==
    ASSUME NEW i \in Inventories
    PROVE  Counts(i) \in [assets : Nat, evidence : Nat]
  <1>1. IsFiniteSet(AssetsOf(i)) /\ IsFiniteSet(EvidenceOf(i))
    BY BoundsAssumption, FS_Subset DEF AssetsOf, EvidenceOf
  <1> QED  BY <1>1, FS_CardinalityType DEF Counts

LEMMA StoreInit ==
    ASSUME Init
    PROVE  StoreInv
  BY BoundsAssumption DEF Init, StoreInv, TypeOK, Time, Clock, Inventories, States, Nothing, Unsaved

LEMMA StoreNext ==
    ASSUME StoreInv, [Next]_vars
    PROVE  StoreInv'
  <1> USE DEF StoreInv
  <1>1. ASSUME NEW p \in Procs, Save(p), pc'[p] = "secure"
        PROVE  StoreInv'
    <2> DEFINE t == finished[p]
               i == inv[p]
    <2>1. t \in Time /\ i \in Inventories
      BY DEF TypeOK
    <2>2. /\ saved' = Insert(saved, t, i)
          /\ DOMAIN snaps' \subseteq DOMAIN snaps \cup {t}
          /\ \A u \in DOMAIN snaps' : snaps'[u] = Insert(snaps, t, i)[u]
          /\ HasLatest(DOMAIN snaps')
      BY <1>1, SavedSnaps
    <2>3. /\ DOMAIN saved' \subseteq Time
          /\ saved' \in [DOMAIN saved' -> Inventories]
      BY <2>1, <2>2 DEF TypeOK, Insert
    <2>4. /\ DOMAIN snaps' \subseteq DOMAIN saved'
          /\ \A u \in DOMAIN snaps' : snaps'[u] = saved'[u]
      BY <2>2 DEF TypeOK, Insert
    <2>5. snaps' \in [DOMAIN snaps' -> Inventories]
      <3>1. snaps' = [u \in DOMAIN snaps' |-> snaps'[u]]
        BY <1>1, <2>1 DEF Save, PruneSnapshots, Return, Goto, TypeOK
      <3> QED  BY <2>3, <2>4, <3>1
    <2>6. history' \in [Assets -> Sightings \cup {None}]
      <3> DEFINE recorded == RecordAssetHistory(history, t, i)
      <3>1. history' = PruneAssetHistory(recorded, snaps', asOf[p])
        BY <1>1 DEF Save, Return, Goto, TypeOK
      <3>2. recorded \in [Assets -> Sightings \cup {None}]
        BY <2>1, SightingType DEF RecordAssetHistory, TypeOK, Inventories
      <3> HIDE DEF recorded
      <3> QED  BY <3>1, <3>2 DEF PruneAssetHistory
    <2>7. /\ UNCHANGED <<inv, target, want, prev, finished, told, swallowed>>
          /\ asOf' = [asOf EXCEPT ![p] = 0]
          /\ pc' = [pc EXCEPT ![p] = "secure"]
      BY <1>1 DEF Save, Return, Goto, TypeOK, loaded
    <2>8. /\ pc' \in [Procs -> {"idle"} \cup Unsaved \cup Durable]
          /\ asOf' \in [Procs -> Clock]
      BY <2>7, BoundsAssumption DEF TypeOK, Durable, Clock
    <2> QED  BY <2>2, <2>3, <2>4, <2>5, <2>6, <2>7, <2>8 DEF TypeOK
  <1>2. ASSUME Next, ~ \E p \in Procs : Save(p) /\ pc'[p] = "secure"
        PROVE  StoreInv'
    <2>1. UNCHANGED <<snaps, history, saved>>
      BY <1>2, OnlySaveWrites DEF database
    <2>2. ASSUME NEW p \in Procs, Return(p)
          PROVE  /\ pc' \in [Procs -> {"idle"} \cup Unsaved \cup Durable]
                 /\ inv' \in [Procs -> Inventories]
                 /\ target' \in [Procs -> Time \cup {None}]
                 /\ want' \in [Procs -> [assets : Nat, evidence : Nat] \cup {None}]
                 /\ prev' \in [Procs -> Inventories]
                 /\ finished' \in [Procs -> Time]
                 /\ asOf' \in [Procs -> Clock]
      BY <2>2, BoundsAssumption
      DEF Return, Goto, TypeOK, Inventories, Nothing, States, Time, Clock
    <2>3. ASSUME NEW p \in Procs, Collect(p) PROVE TypeOK'
      BY <2>1, <2>3 DEF Collect, Goto, TypeOK, loaded, clocks, outcome, Unsaved
    <2>4. ASSUME NEW p \in Procs, LoadScan(p) PROVE TypeOK'
      <3>1. DOMAIN snaps # {} => Latest(DOMAIN snaps) \in Time
        BY LatestIsLast DEF TypeOK
      <3> QED  BY <2>1, <2>4, <3>1 DEF LoadScan, Goto, TypeOK, clocks, outcome, Unsaved
    <2>5. ASSUME NEW p \in Procs PROVE Rows(p) \in Inventories
      BY DEF Rows, TypeOK, Inventories, Nothing, States
    <2>6. ASSUME NEW p \in Procs, LoadState(p) PROVE TypeOK'
      <3>1. Counts(Rows(p)) \in [assets : Nat, evidence : Nat]
        BY <2>5, CountsType
      <3>2. CASE Return(p)
        BY <2>1, <2>2, <2>6, <3>2 DEF LoadState, TypeOK, outcome
      <3>3. CASE want' = [want EXCEPT ![p] = Counts(Rows(p))] /\ ~ Return(p)
        BY <2>1, <2>6, <3>1, <3>3 DEF LoadState, Goto, TypeOK, clocks, outcome, Unsaved
      <3> QED  BY <2>6, <3>2, <3>3 DEF LoadState
    <2>7. ASSUME NEW p \in Procs, LoadAssets(p) PROVE TypeOK'
      <3> DEFINE i == [a \in Assets |-> IF Rows(p)[a] = Absent THEN Absent ELSE Unread]
      <3>1. i \in Inventories
        BY <2>5 DEF TypeOK, Inventories, States, Present
      <3>2. CASE Return(p)
        BY <2>1, <2>2, <2>7, <3>2 DEF LoadAssets, TypeOK, outcome
      <3>3. CASE prev' = [prev EXCEPT ![p] = i] /\ ~ Return(p)
        <4> HIDE DEF i
        <4> QED
          BY <2>1, <2>7, <3>1, <3>3 DEF LoadAssets, Goto, TypeOK, clocks, outcome, Unsaved
      <3> QED  BY <2>7, <3>2, <3>3 DEF LoadAssets
    <2>8. ASSUME NEW p \in Procs, LoadEvidence(p) PROVE TypeOK'
      <3> DEFINE i == [a \in Assets |-> IF Rows(p)[a] \in Contents THEN Rows(p)[a] ELSE prev[p][a]]
      <3>1. i \in Inventories
        BY <2>5 DEF TypeOK, Inventories, States, Present
      <3>2. CASE Return(p)
        BY <2>1, <2>2, <2>8, <3>2 DEF LoadEvidence, TypeOK, outcome
      <3>3. CASE prev' = [prev EXCEPT ![p] = i] /\ ~ Return(p)
        <4> HIDE DEF i
        <4> QED
          BY <2>1, <2>8, <3>1, <3>3 DEF LoadEvidence, Goto, TypeOK, clocks, outcome, Unsaved
      <3> QED  BY <2>8, <3>2, <3>3 DEF LoadEvidence
    <2>9. ASSUME NEW p \in Procs, Finish(p) PROVE TypeOK'
      BY <2>1, <2>9 DEF Finish, Goto, TypeOK, loaded, outcome, Unsaved
    <2>10. ASSUME NEW p \in Procs, Save(p) PROVE TypeOK'
      BY <1>2, <2>1, <2>2, <2>10 DEF Save, Goto, TypeOK
    <2>11. ASSUME NEW p \in Procs, Swallow(p) PROVE swallowed' \in [Assets -> SUBSET States]
      BY <2>11 DEF Swallow, TypeOK, Inventories
    <2>12. ASSUME NEW p \in Procs, Secure(p) PROVE TypeOK'
      BY <2>1, <2>2, <2>11, <2>12 DEF Secure, Goto, TypeOK, loaded, clocks, Durable
    <2>13. ASSUME NEW p \in Procs, Report(p) PROVE TypeOK'
      <3>1. told' \in [Assets -> SUBSET States]
        BY <2>13 DEF Report, TypeOK, Inventories
      <3> QED  BY <2>1, <2>2, <2>13, <3>1 DEF Report, TypeOK
    <2>14. ASSUME NEW p \in Procs, Cancel(p) PROVE TypeOK'
      BY <2>1, <2>2, <2>14 DEF Cancel, TypeOK, outcome
    <2>15. ASSUME NEW p \in Procs, Kill(p) PROVE TypeOK'
      BY <2>1, <2>2, <2>11, <2>15 DEF Kill, TypeOK
    <2>16. TypeOK'
      BY <1>2, <2>3, <2>4, <2>6, <2>7, <2>8, <2>9, <2>10, <2>12, <2>13, <2>14, <2>15
      DEF Next, Baseline, Load
    <2> QED  BY <2>1, <2>16
  <1>3. CASE UNCHANGED vars
    BY <1>3 DEF vars, database, loaded, clocks, outcome, TypeOK
  <1> QED  BY <1>1, <1>2, <1>3

(* Every variable stays within its type (snapshots.go:27-168, 363-520).     *)
THEOREM TypeCorrect == Spec => []TypeOK
  <1>1. Spec => []StoreInv
    BY StoreInit, StoreNext, PTL DEF Spec
  <1> QED  BY <1>1, PTL DEF StoreInv

-----------------------------------------------------------------------------
(* What a scan compares with.  While a snapshot is being loaded, what is in *)
(* memory agrees with what was saved; a pruned snapshot has no rows, so it  *)
(* only passes the counts where nothing is missing.                         *)

Presence(i) == [a \in Assets |-> IF i[a] = Absent THEN Absent ELSE Unread]

Past == {"finish", "save"} \cup Durable

LoadInv ==
    \A p \in Procs :
        /\ pc[p] \in {"idle", "load"} => target[p] = None /\ prev[p] = Nothing
        /\ pc[p] \in {"state", "assets", "evidence"} => target[p] \in DOMAIN saved
        /\ pc[p] \in {"assets", "evidence"} => want[p] = Counts(saved[target[p]])
        /\ pc[p] = "evidence" => prev[p] = Presence(saved[target[p]])
        /\ pc[p] \in Past =>
              /\ target[p] \in DOMAIN saved \cup {None}
              /\ prev[p] = IF target[p] = None THEN Nothing ELSE saved[target[p]]

(* Two scans never finish at one time. *)
FreshTimes ==
    \A p \in Procs :
        pc[p] = "save" =>
            /\ finished[p] \notin DOMAIN saved
            /\ \A q \in Procs \ {p} : pc[q] = "save" => finished[q] # finished[p]

BaselineInv == StoreInv /\ LoadInv /\ FreshTimes

LEMMA NoRows ==
    /\ Nothing \in Inventories
    /\ Cardinality(AssetsOf(Nothing)) = 0
    /\ Cardinality(EvidenceOf(Nothing)) = 0
  <1>1. AssetsOf(Nothing) = {} /\ EvidenceOf(Nothing) = {}
    BY DistinctAssumption DEF AssetsOf, EvidenceOf, Nothing
  <1> QED  BY <1>1, FS_EmptySet DEF Nothing, Inventories, States

LEMMA EmptyCounts ==
    ASSUME NEW i \in Inventories
    PROVE  /\ Cardinality(AssetsOf(i)) = 0 => AssetsOf(i) = {}
           /\ Cardinality(EvidenceOf(i)) = 0 => EvidenceOf(i) = {}
  <1>1. IsFiniteSet(AssetsOf(i)) /\ IsFiniteSet(EvidenceOf(i))
    BY BoundsAssumption, FS_Subset DEF AssetsOf, EvidenceOf
  <1> QED  BY <1>1, FS_EmptySet

(* Rows that pass the count of the assets are those of the snapshot. *)
LEMMA CountedAssets ==
    ASSUME StoreInv, NEW p \in Procs, target[p] \in DOMAIN saved,
           Cardinality(AssetsOf(Rows(p))) = Counts(saved[target[p]]).assets
    PROVE  [a \in Assets |-> IF Rows(p)[a] = Absent THEN Absent ELSE Unread]
               = Presence(saved[target[p]])
  <1>1. CASE target[p] \in DOMAIN snaps
    BY <1>1 DEF Rows, StoreInv, Presence
  <1>2. CASE target[p] \notin DOMAIN snaps
    <2> DEFINE i == saved[target[p]]
    <2>1. i \in Inventories
      BY DEF StoreInv, TypeOK
    <2>2. AssetsOf(i) = {}
      BY <1>2, <2>1, NoRows, EmptyCounts DEF Rows, Counts
    <2>3. \A a \in Assets : i[a] = Absent
      BY <2>2 DEF AssetsOf
    <2> HIDE DEF i
    <2>4. \A a \in Assets : Rows(p)[a] = Absent
      BY <1>2 DEF Rows, Nothing
    <2> QED  BY <2>3, <2>4 DEF Presence, i
  <1> QED  BY <1>1, <1>2

LEMMA CountedEvidence ==
    ASSUME StoreInv, NEW p \in Procs, target[p] \in DOMAIN saved,
           prev[p] = Presence(saved[target[p]]),
           Cardinality(EvidenceOf(Rows(p))) = Counts(saved[target[p]]).evidence
    PROVE  [a \in Assets |-> IF Rows(p)[a] \in Contents THEN Rows(p)[a] ELSE prev[p][a]]
               = saved[target[p]]
  <1> DEFINE i == saved[target[p]]
  <1>1. i \in Inventories
    BY DEF StoreInv, TypeOK
  <1>2. \A a \in Assets : i[a] \notin Contents => prev[p][a] = i[a]
    BY <1>1, DistinctAssumption DEF Presence, Inventories, States, Present
  <1>3. \A a \in Assets : (IF Rows(p)[a] \in Contents THEN Rows(p)[a] ELSE prev[p][a]) = i[a]
    <2>1. CASE target[p] \in DOMAIN snaps
      BY <1>2, <2>1 DEF Rows, StoreInv
    <2>2. CASE target[p] \notin DOMAIN snaps
      <3>1. EvidenceOf(i) = {}
        BY <1>1, <2>2, NoRows, EmptyCounts DEF Rows, Counts
      <3>2. \A a \in Assets : i[a] \notin Contents
        BY <3>1 DEF EvidenceOf
      <3>3. \A a \in Assets : Rows(p)[a] \notin Contents
        BY <2>2, DistinctAssumption DEF Rows, Nothing
      <3> QED  BY <1>2, <3>2, <3>3
    <2> QED  BY <2>1, <2>2
  <1>4. i = [a \in Assets |-> i[a]]
    BY <1>1 DEF Inventories
  <1> QED  BY <1>3, <1>4

LEMMA BaselineInit ==
    ASSUME Init
    PROVE  BaselineInv
  BY StoreInit DEF Init, BaselineInv, LoadInv, FreshTimes, Past, Durable

LEMMA BaselineNext ==
    ASSUME BaselineInv, [Next]_vars
    PROVE  BaselineInv'
  <1> USE DEF BaselineInv
  <1>1. StoreInv'
    BY StoreNext
  <1>2. ASSUME NEW p \in Procs, Return(p), UNCHANGED <<database, saved>>
        PROVE  LoadInv' /\ FreshTimes'
    BY <1>2 DEF Return, Goto, LoadInv, FreshTimes, Past, Durable, StoreInv, TypeOK
  <1>3. ASSUME NEW p \in Procs, Collect(p) PROVE LoadInv' /\ FreshTimes'
    BY <1>3 DEF Collect, Goto, LoadInv, FreshTimes, Past, Durable, StoreInv, TypeOK,
       loaded, clocks, outcome
  <1>4. ASSUME NEW p \in Procs, LoadScan(p) PROVE LoadInv' /\ FreshTimes'
    <2>1. DOMAIN snaps # {} => Latest(DOMAIN snaps) \in DOMAIN saved
      BY LatestIsLast DEF StoreInv, TypeOK
    <2>2. /\ pc[p] = "load" /\ target[p] = None /\ prev[p] = Nothing
          /\ UNCHANGED <<saved, inv, want, prev, finished>>
      BY <1>4 DEF LoadScan, LoadInv, clocks, outcome
    <2>3. CASE DOMAIN snaps = {}
      <3>1. pc' = [pc EXCEPT ![p] = "finish"] /\ UNCHANGED target
        BY <1>4, <2>3 DEF LoadScan, Goto
      <3> QED  BY <2>2, <3>1 DEF LoadInv, FreshTimes, Past, Durable, StoreInv, TypeOK
    <2>4. CASE DOMAIN snaps # {}
      <3>1. /\ pc' = [pc EXCEPT ![p] = "state"]
            /\ target' = [target EXCEPT ![p] = Latest(DOMAIN snaps)]
        BY <1>4, <2>4 DEF LoadScan, Goto
      <3> QED  BY <2>1, <2>2, <2>4, <3>1 DEF LoadInv, FreshTimes, Past, Durable, StoreInv, TypeOK
    <2> QED  BY <2>3, <2>4
  <1>5. ASSUME NEW p \in Procs, LoadState(p) PROVE LoadInv' /\ FreshTimes'
    <2>1. CASE Return(p)
      BY <1>2, <1>5, <2>1 DEF LoadState, outcome
    <2>2. CASE target[p] \in DOMAIN snaps
      BY <1>5, <2>2 DEF LoadState, Rows, Goto, LoadInv, FreshTimes, Past, Durable, StoreInv,
         TypeOK, clocks, outcome
    <2> QED  BY <1>5, <2>1, <2>2 DEF LoadState
  <1>6. ASSUME NEW p \in Procs, LoadAssets(p) PROVE LoadInv' /\ FreshTimes'
    <2> DEFINE i == saved[target[p]]
               rows == [a \in Assets |-> IF Rows(p)[a] = Absent THEN Absent ELSE Unread]
    <2>1. CASE Return(p)
      BY <1>2, <1>6, <2>1 DEF LoadAssets, outcome
    <2>2. CASE ~ Return(p)
      <3>1. /\ target[p] \in DOMAIN saved /\ want[p] = Counts(i)
            /\ pc[p] = "assets"
        BY <1>6 DEF LoadAssets, LoadInv
      <3>2. Cardinality(AssetsOf(Rows(p))) = Counts(i).assets
        BY <1>6, <2>2, <3>1 DEF LoadAssets
      <3>3. rows = Presence(i)
        BY <3>1, <3>2, CountedAssets
      <3>4. prev' = [prev EXCEPT ![p] = Presence(i)]
        BY <1>6, <2>2, <3>3 DEF LoadAssets
      <3> HIDE DEF i, rows
      <3> QED
        BY <1>6, <2>2, <3>1, <3>4 DEF LoadAssets, Goto, LoadInv, FreshTimes, Past, Durable,
           StoreInv, TypeOK, clocks, outcome, i
    <2> QED  BY <2>1, <2>2
  <1>7. ASSUME NEW p \in Procs, LoadEvidence(p) PROVE LoadInv' /\ FreshTimes'
    <2> DEFINE i == saved[target[p]]
               rows == [a \in Assets |->
                          IF Rows(p)[a] \in Contents THEN Rows(p)[a] ELSE prev[p][a]]
    <2>1. CASE Return(p)
      BY <1>2, <1>7, <2>1 DEF LoadEvidence, outcome
    <2>2. CASE ~ Return(p)
      <3>1. /\ target[p] \in DOMAIN saved /\ want[p] = Counts(i) /\ prev[p] = Presence(i)
            /\ pc[p] = "evidence"
        BY <1>7 DEF LoadEvidence, LoadInv
      <3>2. Cardinality(EvidenceOf(Rows(p))) = Counts(i).evidence
        BY <1>7, <2>2, <3>1 DEF LoadEvidence
      <3>3. rows = i
        BY <3>1, <3>2, CountedEvidence
      <3>4. prev' = [prev EXCEPT ![p] = i]
        BY <1>7, <2>2, <3>3 DEF LoadEvidence
      <3>5. target[p] # None
        BY <3>1, DistinctAssumption DEF StoreInv, TypeOK
      <3> HIDE DEF i, rows
      <3> QED
        BY <1>7, <2>2, <3>1, <3>4, <3>5 DEF LoadEvidence, Goto, LoadInv, FreshTimes, Past,
           Durable, StoreInv, TypeOK, clocks, outcome, i
    <2> QED  BY <2>1, <2>2
  <1>8. ASSUME NEW p \in Procs, Finish(p) PROVE LoadInv' /\ FreshTimes'
    BY <1>8 DEF Finish, Goto, LoadInv, FreshTimes, Past, Durable, StoreInv, TypeOK,
       loaded, outcome
  <1>9. ASSUME NEW p \in Procs, Save(p) PROVE LoadInv' /\ FreshTimes'
    <2>1. CASE Return(p) /\ UNCHANGED <<database, saved>>
      BY <1>2, <2>1
    <2>2. CASE saved' = Insert(saved, finished[p], inv[p]) /\ Goto(p, "secure")
      <3>1. /\ UNCHANGED <<inv, target, want, prev, finished>>
            /\ pc' = [pc EXCEPT ![p] = "secure"] /\ pc[p] = "save"
        BY <1>9, <2>2 DEF Save, Return, Goto, loaded, StoreInv, TypeOK
      <3>2. finished[p] \notin DOMAIN saved
        BY <3>1 DEF FreshTimes
      <3>3. /\ DOMAIN saved' = DOMAIN saved \cup {finished[p]}
            /\ \A u \in DOMAIN saved : saved'[u] = saved[u]
        BY <2>2, <3>2 DEF Insert
      <3>4. LoadInv'
        BY <3>1, <3>3 DEF LoadInv, Past, Durable, StoreInv, TypeOK
      <3>5. FreshTimes'
        BY <3>1, <3>3 DEF FreshTimes, StoreInv, TypeOK
      <3> QED  BY <3>4, <3>5
    <2> QED  BY <1>9, <2>1, <2>2 DEF Save
  <1>10. ASSUME NEW p \in Procs, Secure(p) PROVE LoadInv' /\ FreshTimes'
    <2>1. CASE Return(p)
      BY <1>2, <1>10, <2>1 DEF Secure
    <2>2. CASE Goto(p, "report") /\ ~ Return(p)
      BY <1>10, <2>2 DEF Secure, Goto, LoadInv, FreshTimes, Past, Durable, StoreInv, TypeOK,
         loaded, clocks
    <2> QED  BY <1>10, <2>1, <2>2 DEF Secure
  <1>11. ASSUME NEW p \in Procs, Report(p) \/ Cancel(p) \/ Kill(p)
         PROVE  LoadInv' /\ FreshTimes'
    BY <1>2, <1>11 DEF Report, Cancel, Kill, outcome
  <1>12. CASE UNCHANGED vars
    BY <1>1, <1>12 DEF vars, LoadInv, FreshTimes, loaded, clocks, outcome
  <1>13. CASE Next
    <2>1. PICK p \in Procs : Baseline(p) \/ Kill(p)
      BY <1>13 DEF Next
    <2> QED
      BY <2>1, <1>1, <1>3, <1>4, <1>5, <1>6, <1>7, <1>8, <1>9, <1>10, <1>11 DEF Baseline, Load
  <1> QED  BY <1>12, <1>13

(* A scan never compares with part of a snapshot (snapshots.go:363-520).    *)
THEOREM BaselineWhole == Spec => []WholeBaseline
  <1>1. Spec => []BaselineInv
    BY BaselineInit, BaselineNext, PTL DEF Spec
  <1>2. BaselineInv => WholeBaseline
    BY DEF BaselineInv, LoadInv, WholeBaseline, Past
  <1> QED  BY <1>1, <1>2, PTL

(* The baseline never goes back in scan time (snapshots.go:219-240).        *)
THEOREM BaselineNeverLost == Spec => BaselineAdvances
  <1>1. ASSUME StoreInv, [Next]_vars, DOMAIN snaps # {}
        PROVE  DOMAIN snaps' # {} /\ Latest(DOMAIN snaps') >= Latest(DOMAIN snaps)
    <2>1. Latest(DOMAIN snaps) \in DOMAIN snaps /\ Latest(DOMAIN snaps) \in Int
      BY <1>1, LatestIsLast DEF StoreInv, TypeOK, Time
    <2>2. CASE \E p \in Procs : Save(p) /\ pc'[p] = "secure"
      <3>1. PICK p \in Procs : Save(p) /\ pc'[p] = "secure"
        BY <2>2
      <3>2. /\ HasLatest(DOMAIN snaps')
            /\ \/ Latest(DOMAIN snaps') = finished[p] /\ \A u \in DOMAIN snaps : u <= finished[p]
               \/ Latest(DOMAIN snaps') = Latest(DOMAIN snaps)
        BY <1>1, <3>1, SavedSnaps
      <3>3. finished[p] \in Int
        BY <1>1 DEF StoreInv, TypeOK, Time
      <3>4. DOMAIN snaps' # {}
        BY <3>2 DEF HasLatest
      <3> QED  BY <2>1, <3>2, <3>3, <3>4
    <2>3. CASE ~ \E p \in Procs : Save(p) /\ pc'[p] = "secure"
      <3>1. UNCHANGED snaps
        BY <1>1, <2>3, OnlySaveWrites DEF StoreInv, database, vars
      <3> QED  BY <1>1, <2>1, <3>1
    <2> QED  BY <2>2, <2>3
  <1>2. Spec => []StoreInv
    BY StoreInit, StoreNext, PTL DEF Spec
  <1>3. StoreInv /\ [Next]_vars => [DOMAIN snaps # {} =>
           DOMAIN snaps' # {} /\ Latest(DOMAIN snaps') >= Latest(DOMAIN snaps)]_vars
    BY <1>1
  <1> QED  BY <1>2, <1>3, PTL DEF Spec, BaselineAdvances

-----------------------------------------------------------------------------
(* Nothing becomes part of the baseline in silence.  The property speaks of *)
(* the stored snapshots; the invariant needs it of every snapshot ever      *)
(* saved, because a scan may compare with one that was pruned meanwhile.    *)

Due(a) == {inv[p][a] : p \in {q \in Procs : pc[q] \in Durable /\ a \in Drift(q)}}

Known == [a \in Assets |-> told[a] \cup swallowed[a] \cup Due(a)]

ReportInv ==
    /\ BaselineInv
    /\ \A a \in Assets : Absent \in told[a]
    /\ \A t \in DOMAIN saved, a \in Assets : saved[t][a] \in Known[a]

(* What is known stays known in a step of p that either keeps what p is     *)
(* about to report or accounts for it.                                      *)
LEMMA KnownKept ==
    ASSUME NEW p \in Procs,
           \A q \in Procs \ {p} : pc'[q] = pc[q] /\ inv'[q] = inv[q] /\ prev'[q] = prev[q],
           \A a \in Assets : told[a] \subseteq told'[a] /\ swallowed[a] \subseteq swallowed'[a],
           pc[p] \in Durable =>
              \/ pc'[p] \in Durable /\ inv'[p] = inv[p] /\ prev'[p] = prev[p]
              \/ \A a \in Drift(p) : inv[p][a] \in told'[a] \cup swallowed'[a],
           NEW a \in Assets
    PROVE  Known[a] \subseteq Known'[a]
  <1>1. ASSUME NEW q \in Procs, pc[q] \in Durable, a \in Drift(q)
        PROVE  inv[q][a] \in told'[a] \cup swallowed'[a] \cup Due(a)'
    <2>1. CASE pc'[q] \in Durable /\ inv'[q] = inv[q] /\ prev'[q] = prev[q]
      BY <1>1, <2>1 DEF Due, Drift
    <2>2. CASE q = p /\ inv[p][a] \in told'[a] \cup swallowed'[a]
      BY <2>2
    <2> QED  BY <1>1, <2>1, <2>2
  <1>2. Due(a) \subseteq told'[a] \cup swallowed'[a] \cup Due(a)'
    BY <1>1 DEF Due
  <1> QED  BY <1>2 DEF Known

LEMMA ReportInit ==
    ASSUME Init
    PROVE  ReportInv
  BY BaselineInit DEF Init, ReportInv

LEMMA ReportNext ==
    ASSUME ReportInv, [Next]_vars
    PROVE  ReportInv'
  <1> USE DEF ReportInv
  <1>1. BaselineInv' /\ TypeOK
    BY BaselineNext DEF BaselineInv, StoreInv
  <1>2. ASSUME NEW p \in Procs, Save(p), pc'[p] = "secure"
        PROVE  ReportInv'
    <2>1. /\ UNCHANGED <<inv, prev, told, swallowed>>
          /\ pc' = [pc EXCEPT ![p] = "secure"] /\ pc[p] = "save"
          /\ saved' = Insert(saved, finished[p], inv[p])
      BY <1>1, <1>2 DEF Save, Return, Goto, loaded, TypeOK
    <2>2. pc'[p] \in Durable /\ \A q \in Procs \ {p} : pc'[q] = pc[q]
      BY <1>1, <2>1 DEF TypeOK, Durable
    <2>3. \A a \in Assets : Known[a] \subseteq Known'[a]
      BY <2>1, <2>2, KnownKept
    <2>4. ASSUME NEW a \in Assets PROVE inv[p][a] \in Known'[a]
      <3>1. CASE a \in Drift(p)
        <4>1. inv'[p][a] \in Due(a)'
          BY <2>1, <2>2, <3>1 DEF Due, Drift
        <4> QED  BY <2>1, <4>1 DEF Known
      <3>2. CASE a \notin Drift(p)
        <4>1. inv[p][a] = prev[p][a]
          BY <3>2 DEF Drift
        <4>2. \/ prev[p] = Nothing
              \/ target[p] \in DOMAIN saved /\ prev[p] = saved[target[p]]
          BY <2>1 DEF BaselineInv, LoadInv, Past
        <4>3. prev[p][a] \in Known[a]
          BY <4>2 DEF Known, Nothing
        <4> QED  BY <2>3, <4>1, <4>3
      <3> QED  BY <3>1, <3>2
    <2>5. ASSUME NEW t \in DOMAIN saved', NEW a \in Assets PROVE saved'[t][a] \in Known'[a]
      <3>1. CASE t = finished[p]
        <4>1. saved'[t] = inv[p]
          BY <2>1, <3>1 DEF Insert
        <4>2. inv[p][a] \in Known'[a]
          BY <2>4
        <4> QED  BY <4>1, <4>2
      <3>2. CASE t # finished[p]
        <4>1. t \in DOMAIN saved /\ saved'[t] = saved[t]
          BY <2>1, <3>2 DEF Insert
        <4>2. saved[t][a] \in Known'[a]
          BY <2>3, <4>1
        <4> QED  BY <4>1, <4>2
      <3> QED  BY <3>1, <3>2
    <2>6. \A a \in Assets : Absent \in told'[a]
      BY <2>1
    <2> QED  BY <1>1, <2>5, <2>6
  <1>3. ASSUME Next, ~ \E p \in Procs : Save(p) /\ pc'[p] = "secure"
        PROVE  ReportInv'
    <2>1. UNCHANGED saved
      BY <1>1, <1>3, OnlySaveWrites
    <2>2. PICK p \in Procs : Baseline(p) \/ Kill(p)
      BY <1>3 DEF Next
    <2>3. \A q \in Procs \ {p} : pc'[q] = pc[q] /\ inv'[q] = inv[q] /\ prev'[q] = prev[q]
      BY <1>1, <2>2 DEF Baseline, Load, Collect, LoadScan, LoadState, LoadAssets,
         LoadEvidence, Finish, Save, Secure, Report, Cancel, Kill, Return, Goto, TypeOK,
         loaded, clocks
    <2>4. \A a \in Assets : told[a] \subseteq told'[a] /\ swallowed[a] \subseteq swallowed'[a]
      BY <1>1, <2>2 DEF Baseline, Load, Collect, LoadScan, LoadState, LoadAssets,
         LoadEvidence, Finish, Save, Secure, Report, Cancel, Kill, Swallow, TypeOK, outcome
    <2>5. pc[p] \in Durable =>
              \/ pc'[p] \in Durable /\ inv'[p] = inv[p] /\ prev'[p] = prev[p]
              \/ \A a \in Drift(p) : inv[p][a] \in told'[a] \cup swallowed'[a]
      <3>1. CASE Secure(p)
        BY <1>1, <3>1 DEF Secure, Swallow, Goto, Durable, Drift, TypeOK, loaded
      <3>2. CASE Report(p) \/ Kill(p)
        BY <3>2 DEF Report, Kill, Swallow, Drift
      <3> QED
        BY <2>2, <3>1, <3>2 DEF Baseline, Load, Collect, LoadScan, LoadState, LoadAssets,
           LoadEvidence, Finish, Save, Cancel, Durable, Unsaved
    <2>6. ASSUME NEW t \in DOMAIN saved', NEW a \in Assets PROVE saved'[t][a] \in Known'[a]
      <3>1. saved[t][a] \in Known[a]
        BY <2>1
      <3>2. saved[t][a] \in Known'[a]
        BY <2>3, <2>4, <2>5, <3>1, KnownKept
      <3> QED  BY <2>1, <3>2
    <2>7. \A a \in Assets : Absent \in told'[a]
      BY <2>4
    <2> QED  BY <1>1, <2>6, <2>7
  <1>4. CASE UNCHANGED vars
    BY <1>1, <1>4 DEF vars, loaded, outcome, Known, Due, Drift
  <1> QED  BY <1>2, <1>3, <1>4

(* Whatever scans run at once, no state of an asset enters a stored         *)
(* snapshot unless some scan reports it or ends after its commit            *)
(* (service.go:163-201).                                                    *)
THEOREM NothingSilent == Spec => []NothingUnreported
  <1>1. Spec => []ReportInv
    BY ReportInit, ReportNext, PTL DEF Spec
  <1>2. ReportInv => NothingUnreported
    BY DEF ReportInv, BaselineInv, StoreInv, TypeOK, NothingUnreported, Known, Due
  <1> QED  BY <1>1, <1>2, PTL

-----------------------------------------------------------------------------
(* The history against the snapshots.  A sighting decides by the last time  *)
(* in the history whether its digest is the newest, so that time has to     *)
(* stay within the scans that are stored.                                   *)

Ordered(h) == h.first <= h.changed /\ h.changed <= h.last

Intervals ==
    \A a \in Assets :
        history[a] # None =>
            /\ Ordered(history[a])
            /\ DOMAIN snaps # {}
            /\ history[a].last <= Latest(DOMAIN snaps)

HistoryInv == BaselineInv /\ HistoryCovers /\ HistoryCurrent /\ Intervals

(* A sighting covers its scan and everything seen before; only one at or    *)
(* after the last changes the digest.                                       *)
LEMMA SightingFacts ==
    ASSUME NEW h \in Sightings \cup {None}, h # None => Ordered(h),
           NEW t \in Time, NEW state \in States
    PROVE  LET s == Sighting(h, t, state)
           IN  /\ s \in Sightings /\ s # None /\ Ordered(s)
               /\ s.first <= t /\ t <= s.last
               /\ h # None => s.first <= h.first /\ h.last <= s.last
               /\ s.last = t \/ (h # None /\ s.last = h.last)
               /\ (h = None \/ t >= h.last) /\ state \in Contents => s.digest = state
               /\ h # None /\ t < h.last => s.digest = h.digest
  <1> DEFINE s == Sighting(h, t, state)
  <1>1. s \in Sightings /\ s # None
    BY SightingType, DistinctAssumption
  <1>2. CASE h = None
    <2>1. s = [first |-> t, last |-> t, digest |-> Digest(state), changed |-> t]
      BY <1>2 DEF Sighting
    <2> HIDE DEF s
    <2> QED  BY <1>1, <1>2, <2>1 DEF Ordered, Digest, Time, s
  <1>3. CASE h # None
    <2>1. /\ s.first = IF t < h.first THEN t ELSE h.first
          /\ s.last = IF t >= h.last THEN t ELSE h.last
          /\ s.digest = IF t >= h.last /\ state \in Contents THEN state ELSE h.digest
          /\ s.changed = IF t >= h.last /\ state \in Contents /\ state # h.digest
                         THEN t ELSE h.changed
      BY <1>3 DEF Sighting
    <2>2. h \in Sightings
      BY <1>3
    <2>3. /\ h.first \in Int /\ h.last \in Int /\ h.changed \in Int /\ t \in Int
          /\ h.first <= h.changed /\ h.changed <= h.last
      BY <1>3, <2>2 DEF Sightings, Ordered, Time
    <2> HIDE DEF s
    <2>4. Ordered(s) /\ s.first <= t /\ t <= s.last
      BY <2>1, <2>3 DEF Ordered
    <2>5. /\ s.first <= h.first /\ h.last <= s.last
          /\ s.last = t \/ s.last = h.last
          /\ t >= h.last /\ state \in Contents => s.digest = state
          /\ t < h.last => s.digest = h.digest
      BY <2>1, <2>3
    <2> QED  BY <1>1, <1>3, <2>4, <2>5 DEF s
  <1> QED  BY <1>2, <1>3

LEMMA HistoryInit ==
    ASSUME Init
    PROVE  HistoryInv
  BY BaselineInit DEF Init, HistoryInv, HistoryCovers, HistoryCurrent, Intervals

LEMMA HistoryNext ==
    ASSUME HistoryInv, [Next]_vars
    PROVE  HistoryInv'
  <1> USE DEF HistoryInv
  <1>1. BaselineInv' /\ StoreInv /\ TypeOK
    BY BaselineNext DEF BaselineInv, StoreInv
  <1>2. ASSUME NEW p \in Procs, Save(p), pc'[p] = "secure"
        PROVE  HistoryCovers' /\ HistoryCurrent' /\ Intervals'
    <2> DEFINE t == finished[p]
               i == inv[p]
               recorded == RecordAssetHistory(history, t, i)
               l == Latest(DOMAIN snaps)
               n == Latest(DOMAIN snaps')
    <2>1. /\ t \in Time /\ t \in Int /\ i \in Inventories
          /\ t \notin DOMAIN snaps
      BY <1>1, <1>2 DEF TypeOK, Time, BaselineInv, FreshTimes, Save
    <2>2. /\ DOMAIN snaps' \subseteq DOMAIN snaps \cup {t}
          /\ \A u \in DOMAIN snaps' : snaps'[u] = Insert(snaps, t, i)[u]
          /\ HasLatest(DOMAIN snaps')
          /\ \/ n = t /\ \A u \in DOMAIN snaps : u <= t
             \/ DOMAIN snaps # {} /\ n = l /\ t <= l
      BY <1>1, <1>2, SavedSnaps
    <2>3. n \in DOMAIN snaps' /\ n \in Int /\ t <= n
      BY <2>1, <2>2, <1>1, LatestIsLast DEF BaselineInv, StoreInv, TypeOK, Time
    <2>4. DOMAIN snaps # {} => l \in DOMAIN snaps /\ l \in Int /\ l <= n
      BY <1>1, <2>1, <2>2, LatestIsLast DEF StoreInv, TypeOK, Time
    <2>5. history' = PruneAssetHistory(recorded, snaps', asOf[p])
      BY <1>1, <1>2 DEF Save, Return, Goto, TypeOK
    <2>6. \A u \in DOMAIN snaps' :
             IF u = t THEN snaps'[u] = i ELSE u \in DOMAIN snaps /\ snaps'[u] = snaps[u]
      BY <2>2 DEF Insert
    <2> HIDE DEF n
    <2>7. SUFFICES ASSUME NEW a \in Assets
                   PROVE  /\ \A u \in DOMAIN snaps' : snaps'[u][a] # Absent =>
                                /\ history'[a] # None
                                /\ history'[a].first <= u /\ u <= history'[a].last
                                /\ Ordered(history'[a])
                          /\ snaps'[n][a] \in Contents => history'[a].digest = snaps'[n][a]
                          /\ history'[a] # None => /\ Ordered(history'[a])
                                                   /\ history'[a].last <= n
      BY <2>3 DEF HistoryCovers, HistoryCurrent, Intervals, Ordered, n
    <2> DEFINE h == history[a]
               r == recorded[a]
    <2>8. /\ h \in Sightings \cup {None}
          /\ i[a] \in States
          /\ h # None => Ordered(h) /\ DOMAIN snaps # {} /\ h.last <= l
      BY <1>1, <2>1 DEF TypeOK, Inventories, Intervals
    <2>9. r = IF i[a] = Absent THEN h ELSE Sighting(h, t, i[a])
      BY DEF RecordAssetHistory
    <2>10. /\ history'[a] = r \/ history'[a] = None
           /\ (\E u \in DOMAIN snaps' : snaps'[u][a] # Absent) => history'[a] = r
      BY <2>5 DEF PruneAssetHistory
    <2>11. /\ r \in Sightings \cup {None}
           /\ r # None => Ordered(r) /\ r.last <= n
           /\ h # None => r # None /\ r.first <= h.first /\ h.last <= r.last
           /\ i[a] # Absent => r # None /\ r.first <= t /\ t <= r.last
      <3>1. CASE i[a] = Absent
        <4>1. h # None => h.last <= n /\ h.first <= h.first /\ h.last <= h.last
          BY <2>3, <2>4, <2>8 DEF Sightings, Time
        <4> QED  BY <2>8, <2>9, <3>1, <4>1
      <3>2. CASE i[a] # Absent
        <4> DEFINE s == Sighting(h, t, i[a])
        <4>1. /\ s \in Sightings /\ s # None /\ Ordered(s)
              /\ s.first <= t /\ t <= s.last
              /\ h # None => s.first <= h.first /\ h.last <= s.last
              /\ s.last = t \/ (h # None /\ s.last = h.last)
          BY <2>1, <2>8, SightingFacts
        <4> HIDE DEF s
        <4>2. s.last <= n
          BY <2>3, <2>4, <2>8, <4>1 DEF Sightings, Time
        <4> QED  BY <2>9, <3>2, <4>1, <4>2 DEF s
      <3> QED  BY <3>1, <3>2
    <2>12. ASSUME NEW u \in DOMAIN snaps', snaps'[u][a] # Absent
           PROVE  /\ history'[a] # None
                  /\ history'[a].first <= u /\ u <= history'[a].last
                  /\ Ordered(history'[a])
      <3>1. history'[a] = r
        BY <2>10, <2>12
      <3>2. CASE u = t
        BY <2>6, <2>11, <2>12, <3>1, <3>2
      <3>3. CASE u # t
        <4>1. u \in DOMAIN snaps /\ snaps[u][a] # Absent /\ u \in Int
          BY <1>1, <2>6, <2>12, <3>3 DEF TypeOK, Time
        <4>2. h # None /\ h.first <= u /\ u <= h.last
          BY <4>1 DEF HistoryCovers
        <4>3. r # None /\ r.first <= u /\ u <= r.last
          <5>1. r \in Sightings /\ h \in Sightings
            BY <2>8, <2>11, <4>2
          <5> HIDE DEF h, r
          <5> QED  BY <2>11, <4>1, <4>2, <5>1 DEF Sightings, Time
        <4> QED  BY <2>11, <3>1, <4>3
      <3> QED  BY <3>2, <3>3
    <2>13. ASSUME snaps'[n][a] \in Contents PROVE history'[a].digest = snaps'[n][a]
      <3>1. snaps'[n][a] # Absent
        BY <2>13, DistinctAssumption
      <3>2. history'[a] = r
        BY <2>3, <2>10, <3>1
      <3>3. CASE n = t
        <4>1. snaps'[n] = i /\ i[a] \in Contents
          BY <2>3, <2>6, <2>13, <3>3
        <4>2. h = None \/ t >= h.last
          BY <2>1, <2>4, <2>8, <3>3 DEF Sightings, Time
        <4>3. Sighting(h, t, i[a]).digest = i[a]
          BY <2>1, <2>8, <4>1, <4>2, SightingFacts
        <4> QED  BY <2>9, <3>1, <3>2, <4>1, <4>3
      <3>4. CASE n # t
        <4>1. /\ n \in DOMAIN snaps /\ snaps'[n] = snaps[n]
              /\ n = l /\ DOMAIN snaps # {} /\ t < n
          BY <2>1, <2>2, <2>3, <2>6, <3>4
        <4>2. h # None /\ n <= h.last /\ h.digest = snaps[n][a]
          BY <2>13, <3>1, <4>1 DEF HistoryCovers, HistoryCurrent
        <4>3. t < h.last
          BY <2>1, <2>3, <2>8, <4>1, <4>2 DEF Sightings, Time
        <4>4. i[a] # Absent => Sighting(h, t, i[a]).digest = h.digest
          BY <2>1, <2>8, <4>2, <4>3, SightingFacts
        <4> QED  BY <2>9, <3>2, <4>1, <4>2, <4>4
      <3> QED  BY <3>3, <3>4
    <2>14. history'[a] # None => Ordered(history'[a]) /\ history'[a].last <= n
      BY <2>10, <2>11
    <2> QED  BY <2>12, <2>13, <2>14
  <1>3. ASSUME UNCHANGED database
        PROVE  HistoryCovers' /\ HistoryCurrent' /\ Intervals'
    BY <1>3 DEF database, HistoryCovers, HistoryCurrent, Intervals
  <1>4. CASE UNCHANGED vars
    BY <1>1, <1>3, <1>4 DEF vars
  <1> QED  BY <1>1, <1>2, <1>3, <1>4, OnlySaveWrites

(* Every asset of a retained snapshot has a history that contains the scan  *)
(* (snapshots.go:219-316).                                                  *)
THEOREM HistoryComplete == Spec => []HistoryCovers
  <1>1. Spec => []HistoryInv
    BY HistoryInit, HistoryNext, PTL DEF Spec
  <1> QED  BY <1>1, PTL DEF HistoryInv

(* The history has the digest of the newest snapshot, in whatever order     *)
(* scans are saved (snapshots.go:261-276).                                  *)
THEOREM HistoryNewest == Spec => []HistoryCurrent
  <1>1. Spec => []HistoryInv
    BY HistoryInit, HistoryNext, PTL DEF Spec
  <1> QED  BY <1>1, PTL DEF HistoryInv

(* History and snapshots agree (snapshots.go:219-316). *)
THEOREM HistoryAgrees == Spec => []HistorySound
  <1> QED  BY HistoryComplete, HistoryNewest, PTL DEF HistorySound

-----------------------------------------------------------------------------
(* What the hook only counts was shown (PolicyCommands), for any number of *)
(* commands, assets, rules and faults.                                     *)

(* What a command found is new to it or was decided before; it has found   *)
(* nothing before it reads the decisions; a check records nothing until it *)
(* knows the findings.                                                     *)
FoundOK(p) ==
    /\ fresh[p] \cup left[p] \subseteq violations[p]
    /\ violations[p] \subseteq fresh[p] \cup decisions
    /\ known[p] \subseteq decisions
    /\ cpc[p] \notin Showing \cup {"idle"} => violations[p] = {}
    /\ cpc[p] = "findings" /\ ccmd[p] = "check" => violations[p] \subseteq left[p]

ShapeOK ==
    /\ DOMAIN cpc = Procs /\ DOMAIN ccmd = Procs /\ DOMAIN known = Procs
    /\ DOMAIN violations = Procs /\ DOMAIN fresh = Procs /\ DOMAIN left = Procs

StandingInv == ShapeOK /\ (\A p \in Procs : FoundOK(p)) /\ StandingWasShown

(* What a step of p leaves alone: the other commands and their claims, and *)
(* what was ever shown or given up.                                        *)
OnlyOf(p) ==
    /\ \A q \in Procs \ {p} :
          /\ cpc'[q] = cpc[q] /\ ccmd'[q] = ccmd[q] /\ known'[q] = known[q]
          /\ violations'[q] = violations[q] /\ fresh'[q] = fresh[q] /\ left'[q] = left[q]
    /\ decisions \subseteq decisions' /\ shown \cup untold \subseteq shown' \cup untold'

(* What p claims to show afterwards covers what it claimed and recorded.   *)
ClaimsKept(p) ==
    \A v \in (IF cpc[p] \in Showing THEN fresh[p] \ left[p] ELSE {}) \cup (decisions' \ decisions) :
        v \in shown' \cup untold' \/ (cpc'[p] \in Showing /\ v \in fresh'[p] \ left'[p])

LEMMA StepOfOne ==
    ASSUME StandingInv, NEW p \in Procs, ShapeOK', OnlyOf(p), FoundOK(p)', ClaimsKept(p)
    PROVE  StandingInv'
  <1>1. ASSUME NEW q \in Procs  PROVE FoundOK(q)'
    <2>1. CASE q = p  BY <2>1
    <2>2. CASE q # p
      BY <2>2 DEF StandingInv, FoundOK, OnlyOf, Showing
    <2> QED  BY <2>1, <2>2
  <1>2. StandingWasShown'
    <2> SUFFICES ASSUME NEW v \in decisions', v \notin shown' \cup untold'
                 PROVE  \E q \in Procs : cpc'[q] \in Showing /\ v \in fresh'[q] \ left'[q]
      BY DEF StandingWasShown, Showing
    <2>1. CASE v \notin decisions
      BY <2>1 DEF ClaimsKept
    <2>2. CASE v \in decisions
      <3>1. PICK q \in Procs : cpc[q] \in Showing /\ v \in fresh[q] \ left[q]
        BY <2>2 DEF StandingInv, StandingWasShown, OnlyOf
      <3>2. CASE q = p  BY <3>1, <3>2 DEF ClaimsKept
      <3>3. CASE q # p  BY <3>1, <3>3 DEF OnlyOf
      <3> QED  BY <3>2, <3>3
    <2> QED  BY <2>1, <2>2
  <1> QED  BY <1>1, <1>2 DEF StandingInv

LEMMA StandingInit == PolicyInit => StandingInv
  BY DEF PolicyInit, StandingInv, ShapeOK, FoundOK, StandingWasShown

LEMMA StandingStep == StandingInv /\ [PolicyNext]_policyVars => StandingInv'
  <1> SUFFICES ASSUME StandingInv, [PolicyNext]_policyVars  PROVE StandingInv'
    OBVIOUS
  <1> USE DEF Showing
  <1>1. ASSUME NEW p \in Procs, NEW c, BeginPolicy(p, c)  PROVE StandingInv'
    <2>1. ShapeOK' /\ OnlyOf(p) /\ FoundOK(p)' /\ ClaimsKept(p)
      BY <1>1 DEF StandingInv, ShapeOK, OnlyOf, FoundOK, ClaimsKept, BeginPolicy, PolicyGoto, Keeps, tables
    <2> QED  BY <2>1, StepOfOne
  <1>2. ASSUME NEW p \in Procs, LoadLatest(p)  PROVE StandingInv'
    <2>1. ShapeOK' /\ OnlyOf(p) /\ FoundOK(p)' /\ ClaimsKept(p)
      BY <1>2 DEF StandingInv, ShapeOK, OnlyOf, FoundOK, ClaimsKept, LoadLatest, PolicyGoto, CommandEnds, Keeps, tables
    <2> QED  BY <2>1, StepOfOne
  <1>3. ASSUME NEW p \in Procs, EvaluatePrevious(p)  PROVE StandingInv'
    <2>1. ShapeOK' /\ OnlyOf(p) /\ FoundOK(p)' /\ ClaimsKept(p)
      BY <1>3 DEF StandingInv, ShapeOK, OnlyOf, FoundOK, ClaimsKept, EvaluatePrevious, PolicyGoto, Keeps, tables
    <2> QED  BY <2>1, StepOfOne
  <1>4. ASSUME NEW p \in Procs, TakeBaseline(p)  PROVE StandingInv'
    <2>1. ShapeOK' /\ OnlyOf(p) /\ FoundOK(p)' /\ ClaimsKept(p)
      BY <1>4 DEF StandingInv, ShapeOK, OnlyOf, FoundOK, ClaimsKept, TakeBaseline, PolicyGoto, CommandEnds, Keeps, tables
    <2> QED  BY <2>1, StepOfOne
  <1>5. ASSUME NEW p \in Procs, ReadPins(p)  PROVE StandingInv'
    <2>1. ShapeOK' /\ OnlyOf(p) /\ FoundOK(p)' /\ ClaimsKept(p)
      BY <1>5 DEF StandingInv, ShapeOK, OnlyOf, FoundOK, ClaimsKept, ReadPins, WithoutPolicy, PolicyGoto, CommandEnds, Keeps, tables
    <2> QED  BY <2>1, StepOfOne
  <1>6. ASSUME NEW p \in Procs, ReadDecisions(p)  PROVE StandingInv'
    <2>1. ShapeOK' /\ OnlyOf(p) /\ FoundOK(p)' /\ ClaimsKept(p)
      BY <1>6 DEF StandingInv, ShapeOK, OnlyOf, FoundOK, ClaimsKept, ReadDecisions, WithoutPolicy, PolicyGoto, CommandEnds, Keeps, tables
    <2> QED  BY <2>1, StepOfOne
  <1>7. ASSUME NEW p \in Procs, EvaluateFindings(p)  PROVE StandingInv'
    <2>1. ShapeOK' /\ OnlyOf(p) /\ FoundOK(p)' /\ ClaimsKept(p)
      BY <1>7 DEF StandingInv, ShapeOK, OnlyOf, FoundOK, ClaimsKept, EvaluateFindings, PolicyGoto, CommandEnds, Keeps, tables
    <2> QED  BY <2>1, StepOfOne
  <1>8. ASSUME NEW p \in Procs, RecordDecision(p)  PROVE StandingInv'
    <2> USE DEF RecordDecision
    <2>1. ShapeOK'
      BY <1>8 DEF StandingInv, ShapeOK, WithoutPolicy, PolicyGoto, CommandEnds
    <2>2. OnlyOf(p)
      BY <1>8 DEF StandingInv, ShapeOK, OnlyOf, WithoutPolicy, PolicyGoto, CommandEnds, Keeps
    <2>3. CASE left[p] = {} /\ PolicyGoto(p, IF ccmd[p] = "hook" THEN "findings" ELSE "print")
               /\ UNCHANGED <<decisions, left, violations, fresh, known, ccmd, shown, untold>>
      <3>1. FoundOK(p)' /\ ClaimsKept(p)
        BY <1>8, <2>3 DEF StandingInv, ShapeOK, FoundOK, ClaimsKept, PolicyGoto
      <3> QED  BY <2>1, <2>2, <3>1, StepOfOne
    <2>4. CASE \E v \in left[p] : /\ decisions' = decisions \cup {v} /\ left' = [left EXCEPT ![p] = @ \ {v}]
                                 /\ UNCHANGED <<cpc, violations, fresh, known, ccmd, shown, untold>>
      <3>1. FoundOK(p)' /\ ClaimsKept(p)
        BY <1>8, <2>4 DEF StandingInv, ShapeOK, FoundOK, ClaimsKept
      <3> QED  BY <2>1, <2>2, <3>1, StepOfOne
    <2>5. CASE /\ WithoutPolicy(p) /\ untold' = untold \cup (fresh[p] \ left[p])
               /\ violations'[p] = {} /\ fresh'[p] = {} /\ left'[p] = {}
               /\ UNCHANGED <<decisions, known, ccmd, shown>>
      <3>1. FoundOK(p)' /\ ClaimsKept(p)
        BY <1>8, <2>5 DEF StandingInv, ShapeOK, FoundOK, ClaimsKept, WithoutPolicy, PolicyGoto, CommandEnds
      <3> QED  BY <2>1, <2>2, <3>1, StepOfOne
    <2> QED
      BY <1>8, <2>3, <2>4, <2>5 DEF StandingInv, ShapeOK, Keeps
  <1>9. ASSUME NEW p \in Procs, WriteOutput(p) \/ PolicyCrash(p)  PROVE StandingInv'
    <2>1. ShapeOK' /\ OnlyOf(p) /\ FoundOK(p)' /\ ClaimsKept(p)
      BY <1>9 DEF StandingInv, ShapeOK, OnlyOf, FoundOK, ClaimsKept, WriteOutput, PolicyCrash, Shown, GivesUp, PolicyGoto, CommandEnds, tables, policyLocals
    <2> QED  BY <2>1, StepOfOne
  <1>10. ASSUME NEW p \in Procs, Approve(p)  PROVE StandingInv'
    <2>1. ShapeOK' /\ OnlyOf(p) /\ FoundOK(p)' /\ ClaimsKept(p)
      BY <1>10 DEF StandingInv, ShapeOK, OnlyOf, FoundOK, ClaimsKept, Approve, PolicyGoto, CommandEnds, Keeps, policyLocals
    <2> QED  BY <2>1, StepOfOne
  <1>11. CASE WorldChanges
    BY <1>11 DEF StandingInv, ShapeOK, FoundOK, StandingWasShown, WorldChanges, tables, policyLocals
  <1>12. CASE UNCHANGED policyVars
    BY <1>12 DEF StandingInv, ShapeOK, FoundOK, StandingWasShown, policyVars, tables, policyLocals
  <1> QED
    BY <1>1, <1>2, <1>3, <1>4, <1>5, <1>6, <1>7, <1>8, <1>9, <1>10, <1>11, <1>12 DEF PolicyNext, PolicyStep

(* Whatever commands, failures, crashes, bundles and clocks do, a recorded *)
(* violation was shown, is about to be shown by the command that recorded  *)
(* it, or that command could not (run.go evaluatePolicy, runPolicyCheck).  *)
THEOREM StandingShown == PolicySpec => []StandingWasShown
<1>1. StandingInv => StandingWasShown
  BY DEF StandingInv
<1> QED
  BY <1>1, StandingInit, StandingStep, PTL DEF PolicySpec

-----------------------------------------------------------------------------
(* What the hook passes over was reported (PolicyCommands), for any number *)
(* of commands, assets, bundles and faults.                                *)

(* A finding has been reported, or given up, or the bundles it came from   *)
(* changed, or somebody will still report it.                              *)
Accounted(id) ==
    \/ id \in reported \cup unreported \cup shifted
    \/ \E q \in Procs : WillReport(q, id)

(* The command that is at a place is one that goes there. *)
CommandsFit ==
    \A p \in Procs :
        /\ cpc[p] \in {"previous", "former"} => ccmd[p] = "hook"
        /\ cpc[p] = "load" => ccmd[p] \in {"check", "pin"}
        /\ cpc[p] = "baseline" => ccmd[p] \in {"hook", "scan"}
        /\ cpc[p] \in {"pins", "decisions", "record"} => ccmd[p] \in {"hook", "check"}
        /\ cpc[p] \in {"findings", "print"} => ccmd[p] \in {"hook", "scan", "check"}
        /\ cpc[p] = "approve" => ccmd[p] = "pin"
        /\ cpc[p] \notin {"idle", "previous", "load", "baseline"} => mine[p] # None

(* Whatever the last snapshot has, now or when a hook read it, is accounted *)
(* for; so is all that a hook will pass over.                              *)
SnapshotAccounted == latest # None => \A id \in FindingIds(latest, intel, org) : Accounted(id)
FormerAccounted == \A p \in Procs : cpc[p] = "former" => \A id \in FindingIds(mine[p], intel, org) : Accounted(id)
PreviousAccounted == \A p \in Procs : \A id \in previousIDs[p] : Accounted(id)

(* Who is about to report its snapshot has found all of it that did not    *)
(* change under its hands.                                                 *)
PrintsAll ==
    \A p \in Procs : cpc[p] = "print" /\ Saves(p) =>
        \A id \in FindingIds(mine[p], intel, org) :
            id \in {FindingId(f) : f \in found[p]} \cup unreported \cup shifted

PassShape ==
    /\ machine \in Machines /\ latest \in Machines \cup {None} /\ mine \in [Procs -> Machines \cup {None}]
    /\ cpc \in [Procs -> {"idle", "previous", "load", "former", "baseline", "pins", "decisions", "record", "findings", "print", "approve"}]
    /\ ccmd \in [Procs -> {"none", "hook", "scan", "check", "pin"}]
    /\ DOMAIN previousIDs = Procs /\ DOMAIN found = Procs

PassInv == PassShape /\ CommandsFit /\ SnapshotAccounted /\ FormerAccounted /\ PreviousAccounted /\ PrintsAll

(* A step of p that leaves the bundles and the other commands alone, takes *)
(* no report back, and makes good what p was about to report.              *)
ReportsKept(p) ==
    /\ reported \cup unreported \cup shifted \subseteq reported' \cup unreported' \cup shifted'
    /\ \A q \in Procs \ {p} :
          /\ cpc'[q] = cpc[q] /\ ccmd'[q] = ccmd[q] /\ mine'[q] = mine[q]
          /\ previousIDs'[q] = previousIDs[q] /\ found'[q] = found[q]
    /\ UNCHANGED <<intel, org>>
    /\ \A id : WillReport(p, id) => id \in reported' \cup unreported' \cup shifted' \/ WillReport(p, id)'

LEMMA AccountedStays ==
    ASSUME NEW p \in Procs, ReportsKept(p), NEW id, Accounted(id)
    PROVE  Accounted(id)'
<1>1. CASE id \in reported \cup unreported \cup shifted
  BY <1>1 DEF ReportsKept, Accounted
<1>2. ASSUME NEW q \in Procs \ {p}, WillReport(q, id) PROVE Accounted(id)'
  <2>1. WillReport(q, id)'
    BY <1>2 DEF ReportsKept, WillReport, Saves
  <2> QED
    BY <2>1 DEF Accounted
<1>3. CASE WillReport(p, id)
  BY <1>3 DEF ReportsKept, Accounted
<1> QED
  BY <1>1, <1>2, <1>3 DEF Accounted

(* The parts of the invariant that are about p alone. *)
FitOf(p) ==
    /\ cpc[p] \in {"previous", "former"} => ccmd[p] = "hook"
    /\ cpc[p] = "load" => ccmd[p] \in {"check", "pin"}
    /\ cpc[p] = "baseline" => ccmd[p] \in {"hook", "scan"}
    /\ cpc[p] \in {"pins", "decisions", "record"} => ccmd[p] \in {"hook", "check"}
    /\ cpc[p] \in {"findings", "print"} => ccmd[p] \in {"hook", "scan", "check"}
    /\ cpc[p] = "approve" => ccmd[p] = "pin"
    /\ cpc[p] \notin {"idle", "previous", "load", "baseline"} => mine[p] # None
FormerOf(p) == cpc[p] = "former" => \A id \in FindingIds(mine[p], intel, org) : Accounted(id)
PreviousOf(p) == \A id \in previousIDs[p] : Accounted(id)
PrintsOf(p) ==
    cpc[p] = "print" /\ Saves(p) =>
        \A id \in FindingIds(mine[p], intel, org) :
            id \in {FindingId(f) : f \in found[p]} \cup unreported \cup shifted

LEMMA PassStepOfOne ==
    ASSUME PassInv, NEW p \in Procs, PassShape', ReportsKept(p), unreported \cup shifted \subseteq unreported' \cup shifted',
           FitOf(p)', FormerOf(p)', PreviousOf(p)', PrintsOf(p)', SnapshotAccounted'
    PROVE  PassInv'
<1>1. ASSUME NEW q \in Procs, q # p PROVE FitOf(q)' /\ FormerOf(q)' /\ PreviousOf(q)' /\ PrintsOf(q)'
  <2>1. FitOf(q)'
    BY <1>1 DEF PassInv, CommandsFit, FitOf, ReportsKept
  <2>2. FormerOf(q)'
    BY <1>1, AccountedStays DEF PassInv, FormerAccounted, FormerOf, ReportsKept
  <2>3. PreviousOf(q)'
    BY <1>1, AccountedStays DEF PassInv, PreviousAccounted, PreviousOf, ReportsKept
  <2>4. PrintsOf(q)'
    BY <1>1 DEF PassInv, PrintsAll, PrintsOf, ReportsKept, Saves
  <2> QED
    BY <2>1, <2>2, <2>3, <2>4
<1>2. \A q \in Procs : FitOf(q)' /\ FormerOf(q)' /\ PreviousOf(q)' /\ PrintsOf(q)'
  BY <1>1
<1> QED
  BY <1>2 DEF PassInv, CommandsFit, FitOf, FormerAccounted, FormerOf, PreviousAccounted, PreviousOf, PrintsAll, PrintsOf

LEMMA PassKeeps ==
    ASSUME PassInv, NEW p \in Procs, ReportsKept(p)
    PROVE  /\ latest' = latest => SnapshotAccounted'
           /\ previousIDs'[p] = previousIDs[p] => PreviousOf(p)'
<1>1. ASSUME latest' = latest PROVE SnapshotAccounted'
  BY <1>1, AccountedStays DEF PassInv, SnapshotAccounted, ReportsKept
<1>2. ASSUME previousIDs'[p] = previousIDs[p] PROVE PreviousOf(p)'
  BY <1>2, AccountedStays DEF PassInv, PreviousAccounted, PreviousOf
<1> QED
  BY <1>1, <1>2

(* A step between two places at which p has nothing to report. *)
LEMMA QuietStep ==
    ASSUME PassInv, NEW p \in Procs, PassShape', latest' = latest, UNCHANGED <<intel, org>>,
           reported \cup unreported \cup shifted \subseteq reported' \cup unreported' \cup shifted',
           unreported \cup shifted \subseteq unreported' \cup shifted',
           \A q \in Procs \ {p} :
              /\ cpc'[q] = cpc[q] /\ ccmd'[q] = ccmd[q] /\ mine'[q] = mine[q]
              /\ previousIDs'[q] = previousIDs[q] /\ found'[q] = found[q],
           ~Saves(p), FitOf(p)', cpc'[p] # "print" \/ ccmd'[p] \notin {"hook", "scan"},
           cpc'[p] # "former",
           previousIDs'[p] \in {{}, previousIDs[p]}
    PROVE  PassInv'
<1>1. ReportsKept(p)
  BY DEF ReportsKept, WillReport
<1>2. FormerOf(p)' /\ PrintsOf(p)'
  BY DEF FormerOf, PrintsOf, Saves
<1>3. PreviousOf(p)'
  BY <1>1, PassKeeps DEF PreviousOf
<1> QED
  BY <1>1, <1>2, <1>3, PassKeeps, PassStepOfOne

LEMMA PassInvInit == PolicyInit => PassInv
BY CommandsAssumption DEF PolicyInit, PassInv, PassShape, CommandsFit, SnapshotAccounted, FormerAccounted, PreviousAccounted, PrintsAll

LEMMA PassInvStep == PassInv /\ [PolicyNext]_policyVars => PassInv'
<1> USE DEF PassShape, findingHistory, world, tables
<1>1. ASSUME PassInv, NEW p \in Procs, NEW c \in {"hook", "scan", "check", "pin"}, BeginPolicy(p, c) PROVE PassInv'
  <2>1. FitOf(p)'
    BY <1>1 DEF PassInv, FitOf, BeginPolicy, PolicyGoto
  <2> QED
    BY <1>1, <2>1, QuietStep DEF PassInv, BeginPolicy, PolicyGoto, Keeps, Saves
<1>2. ASSUME PassInv, NEW p \in Procs, LoadLatest(p) PROVE PassInv'
  <2>1. FitOf(p)'
    BY <1>2, CommandsAssumption DEF PassInv, CommandsFit, FitOf, LoadLatest, PolicyGoto, CommandEnds
  <2>2. /\ PassShape' /\ UNCHANGED <<latest, intel, org, reported, unreported, shifted, previousIDs, found, ccmd>>
        /\ \A q \in Procs \ {p} : cpc'[q] = cpc[q] /\ mine'[q] = mine[q]
        /\ ~Saves(p)
        /\ cpc'[p] # "print"
    BY <1>2 DEF PassInv, CommandsFit, LoadLatest, PolicyGoto, CommandEnds, Keeps, Saves
  <2>3. CASE cpc'[p] # "former"
    BY <1>2, <2>1, <2>2, <2>3, QuietStep
  <2>4. CASE cpc'[p] = "former"
    <3>1. mine'[p] = latest /\ latest # None
      BY <1>2, <2>4 DEF PassInv, LoadLatest, PolicyGoto, CommandEnds
    <3>2. ReportsKept(p)
      BY <2>2 DEF ReportsKept, WillReport
    <3>3. FormerOf(p)'
      BY <1>2, <2>2, <3>1, <3>2, AccountedStays DEF PassInv, SnapshotAccounted, FormerOf
    <3>4. PrintsOf(p)'
      BY <2>4 DEF PrintsOf
    <3> QED
      BY <1>2, <2>1, <2>2, <3>2, <3>3, <3>4, PassKeeps, PassStepOfOne
  <2> QED
    BY <2>3, <2>4
<1>3. ASSUME PassInv, NEW p \in Procs, EvaluatePrevious(p) PROVE PassInv'
  <2>1. FitOf(p)' /\ PassShape' /\ cpc'[p] = "baseline" /\ cpc[p] = "former"
    BY <1>3 DEF PassInv, CommandsFit, FitOf, EvaluatePrevious, PolicyGoto
  <2>2. ReportsKept(p)
    BY <1>3 DEF PassInv, EvaluatePrevious, PolicyGoto, ReportsKept, WillReport, Saves, Keeps
  <2>3. FormerOf(p)' /\ PrintsOf(p)'
    BY <2>1 DEF FormerOf, PrintsOf
  <2>4. PreviousOf(p)'
    <3>1. \A id \in previousIDs'[p] : Accounted(id)
      BY <1>3 DEF PassInv, EvaluatePrevious, FormerAccounted, PreviousAccounted
    <3> QED
      BY <2>2, <3>1, AccountedStays DEF PreviousOf
  <2> QED
    BY <1>3, <2>1, <2>2, <2>3, <2>4, PassKeeps, PassStepOfOne DEF EvaluatePrevious, Keeps
<1>4. ASSUME PassInv, NEW p \in Procs, TakeBaseline(p) PROVE PassInv'
  <2>1. /\ PassShape' /\ FitOf(p)' /\ ~Saves(p)
        /\ cpc'[p] \in {"pins", "findings", "idle"}
        /\ UNCHANGED <<intel, org, machine, ccmd, previousIDs, found, reported, shifted>>
        /\ unreported \subseteq unreported'
        /\ \A q \in Procs \ {p} : cpc'[q] = cpc[q] /\ mine'[q] = mine[q]
    BY <1>4, CommandsAssumption DEF PassInv, CommandsFit, FitOf, TakeBaseline, PolicyGoto, CommandEnds, Keeps, Saves
  <2>2. ReportsKept(p)
    BY <2>1 DEF ReportsKept, WillReport
  <2>3. FormerOf(p)' /\ PrintsOf(p)' /\ PreviousOf(p)'
    BY <1>4, <2>1, <2>2, PassKeeps DEF FormerOf, PrintsOf
  <2>4. CASE latest' = latest
    BY <1>4, <2>1, <2>2, <2>3, <2>4, PassKeeps, PassStepOfOne
  <2>5. CASE latest' # latest
    <3>1. latest' = machine
      BY <1>4, <2>5 DEF TakeBaseline
    <3>2. ASSUME NEW id \in FindingIds(machine, intel, org) PROVE Accounted(id)'
      <4>1. CASE id \in unreported'
        BY <4>1 DEF Accounted
      <4>2. CASE id \in previousIDs[p]
        BY <1>4, <2>2, <4>2, AccountedStays DEF PassInv, PreviousAccounted
      <4>3. CASE id \notin unreported' /\ id \notin previousIDs[p]
        <5>1. cpc'[p] \in {"pins", "findings"} /\ mine'[p] = machine /\ ccmd[p] \in {"hook", "scan"}
          BY <1>4, <2>5, <3>1, <3>2, <4>3 DEF PassInv, CommandsFit, TakeBaseline, PolicyGoto
        <5>2. WillReport(p, id)'
          BY <2>1, <3>2, <4>3, <5>1 DEF WillReport, Saves
        <5> QED
          BY <5>2 DEF Accounted
      <4> QED
        BY <4>1, <4>2, <4>3
    <3>3. SnapshotAccounted'
      BY <2>1, <3>1, <3>2 DEF SnapshotAccounted
    <3> QED
      BY <1>4, <2>1, <2>2, <2>3, <3>3, PassStepOfOne
  <2> QED
    BY <2>4, <2>5
<1>5. ASSUME PassInv, NEW p \in Procs, ReadPins(p) \/ ReadDecisions(p) PROVE PassInv'
  <2>1. /\ PassShape' /\ FitOf(p)'
        /\ cpc'[p] \in {"decisions", "record", "findings", "idle"} /\ (cpc'[p] = "idle" => ~Saves(p))
        /\ UNCHANGED <<latest, intel, org, machine, ccmd, mine, previousIDs, found, reported, unreported, shifted>>
        /\ \A q \in Procs \ {p} : cpc'[q] = cpc[q]
        /\ cpc[p] \in {"pins", "decisions"}
    BY <1>5 DEF PassInv, CommandsFit, FitOf, ReadPins, ReadDecisions, WithoutPolicy, PolicyGoto, CommandEnds, Keeps, Saves
  <2>2. ReportsKept(p)
    BY <2>1 DEF ReportsKept, WillReport, Saves
  <2>3. FormerOf(p)' /\ PrintsOf(p)'
    BY <2>1 DEF FormerOf, PrintsOf
  <2> QED
    BY <1>5, <2>1, <2>2, <2>3, PassKeeps, PassStepOfOne
<1>6. ASSUME PassInv, NEW p \in Procs, EvaluateFindings(p) PROVE PassInv'
  <2>1. /\ PassShape' /\ FitOf(p)' /\ cpc[p] = "findings"
        /\ cpc'[p] \in {"record", "print", "idle"} /\ (cpc'[p] # "print" => ~Saves(p))
        /\ UNCHANGED <<latest, intel, org, machine, ccmd, mine, previousIDs, reported, shifted>>
        /\ unreported \subseteq unreported'
        /\ \A q \in Procs \ {p} : cpc'[q] = cpc[q] /\ found'[q] = found[q]
    BY <1>6 DEF PassInv, CommandsFit, FitOf, EvaluateFindings, PolicyGoto, CommandEnds, Keeps, Saves
  <2>2. ReportsKept(p)
    BY <2>1 DEF ReportsKept, WillReport, Saves
  <2>3. FormerOf(p)'
    BY <2>1 DEF FormerOf
  <2>4. PrintsOf(p)'
    <3>1. CASE found' = [found EXCEPT ![p] = Findings(mine[p], intel, org)]
      <4>1. {FindingId(f) : f \in found'[p]} = FindingIds(mine[p], intel, org)
        BY <1>6, <3>1 DEF PassInv, FindingIds
      <4> QED
        BY <2>1, <4>1 DEF PrintsOf
    <3>2. CASE unreported' = unreported \cup (IF Saves(p) THEN FindingIds(mine[p], intel, org) ELSE {})
      BY <2>1, <3>2 DEF PrintsOf, Saves
    <3> QED
      BY <1>6, <3>1, <3>2 DEF EvaluateFindings
  <2> QED
    BY <1>6, <2>1, <2>2, <2>3, <2>4, PassKeeps, PassStepOfOne
<1>7. ASSUME PassInv, NEW p \in Procs, RecordDecision(p) PROVE PassInv'
  <2>1. /\ PassShape' /\ FitOf(p)' /\ cpc[p] = "record"
        /\ cpc'[p] \in {"record", "print", "findings", "idle"} /\ (cpc'[p] \in {"print", "idle"} => ~Saves(p))
        /\ UNCHANGED <<latest, intel, org, machine, ccmd, mine, previousIDs, found, reported, unreported, shifted>>
        /\ \A q \in Procs \ {p} : cpc'[q] = cpc[q]
    BY <1>7 DEF PassInv, CommandsFit, FitOf, RecordDecision, WithoutPolicy, PolicyGoto, CommandEnds, Keeps, Saves
  <2>2. ReportsKept(p)
    BY <2>1 DEF ReportsKept, WillReport, Saves
  <2>3. FormerOf(p)' /\ PrintsOf(p)'
    BY <2>1 DEF FormerOf, PrintsOf, Saves
  <2> QED
    BY <1>7, <2>1, <2>2, <2>3, PassKeeps, PassStepOfOne
<1>8. ASSUME PassInv, NEW p \in Procs, WriteOutput(p) \/ PolicyCrash(p) PROVE PassInv'
  <2>1. /\ PassShape' /\ FitOf(p)' /\ cpc'[p] = "idle"
        /\ UNCHANGED <<latest, intel, org, machine, ccmd, mine, previousIDs, found, shifted>>
        /\ reported \subseteq reported' /\ unreported \subseteq unreported'
        /\ \A q \in Procs \ {p} : cpc'[q] = cpc[q]
    BY <1>8 DEF PassInv, FitOf, WriteOutput, PolicyCrash, PolicyGoto, CommandEnds, GivesUp, policyLocals
  <2>2. ASSUME NEW id, WillReport(p, id) PROVE id \in reported' \cup unreported' \cup shifted'
    <3>1. Saves(p) /\ id \in FindingIds(mine[p], intel, org) /\ id \notin previousIDs[p]
      BY <2>2 DEF WillReport
    <3>2. CASE GivesUp(p)
      BY <3>1, <3>2 DEF GivesUp
    <3>3. CASE ~GivesUp(p)
      <4>1. cpc[p] = "print" /\ reported' = reported \cup NewFindings(p)
        BY <1>8, <3>3 DEF WriteOutput, PolicyCrash
      <4>2. id \in {FindingId(f) : f \in found[p]} \cup unreported \cup shifted
        BY <1>8, <3>1, <4>1 DEF PassInv, PrintsAll
      <4> QED
        BY <2>1, <3>1, <4>1, <4>2 DEF NewFindings
    <3> QED
      BY <3>2, <3>3
  <2>3. ReportsKept(p)
    BY <2>1, <2>2 DEF ReportsKept
  <2>4. FormerOf(p)' /\ PrintsOf(p)'
    BY <2>1 DEF FormerOf, PrintsOf
  <2> QED
    BY <1>8, <2>1, <2>3, <2>4, PassKeeps, PassStepOfOne
<1>9. ASSUME PassInv, NEW p \in Procs, Approve(p) PROVE PassInv'
  <2>1. FitOf(p)'
    BY <1>9 DEF PassInv, FitOf, Approve, PolicyGoto, CommandEnds
  <2> QED
    BY <1>9, <2>1, QuietStep DEF PassInv, CommandsFit, Approve, PolicyGoto, CommandEnds, Keeps, Saves, policyLocals
<1>10. ASSUME PassInv, WorldChanges PROVE PassInv'
  <2>1. UNCHANGED <<latest, ccmd, cpc, mine, previousIDs, found, reported, unreported>>
    BY <1>10 DEF WorldChanges, policyLocals
  <2>2. PassShape' /\ CommandsFit'
    BY <1>10, <2>1 DEF PassInv, CommandsFit, WorldChanges
  <2>3. shifted \subseteq shifted' /\ (UNCHANGED <<intel, org>> \/
            \A i \in AtWork : FindingIds(i, intel, org) \subseteq shifted' /\ FindingIds(i, intel', org') \subseteq shifted')
    BY <1>10 DEF WorldChanges
  <2>4. latest # None => latest \in AtWork
    BY DEF AtWork
  <2>5. \A p \in Procs : cpc[p] \in {"former", "pins", "decisions", "record", "findings", "print"} => mine[p] \in AtWork
    BY <1>10 DEF PassInv, CommandsFit, AtWork
  <2>6. ASSUME NEW id, Accounted(id) PROVE Accounted(id)'
    <3>1. CASE id \in reported \cup unreported \cup shifted
      BY <2>1, <2>3, <3>1 DEF Accounted
    <3>2. ASSUME NEW q \in Procs, WillReport(q, id) PROVE Accounted(id)'
      <4>1. mine[q] \in AtWork /\ id \in FindingIds(mine[q], intel, org)
        BY <2>5, <3>2 DEF WillReport, Saves
      <4>2. CASE UNCHANGED <<intel, org>>
        <5>1. WillReport(q, id)'
          BY <2>1, <3>2, <4>2 DEF WillReport, Saves
        <5> QED
          BY <5>1 DEF Accounted
      <4>3. CASE id \in shifted'
        BY <4>3 DEF Accounted
      <4> QED
        BY <2>3, <4>1, <4>2, <4>3
    <3> QED
      BY <2>6, <3>1, <3>2 DEF Accounted
  <2>7. ASSUME NEW i \in AtWork, NEW id \in FindingIds(i, intel', org'), id \in FindingIds(i, intel, org) => Accounted(id)
        PROVE  Accounted(id)'
    <3>1. CASE id \in shifted'
      BY <3>1 DEF Accounted
    <3> QED
      BY <2>3, <2>6, <2>7, <3>1
  <2>8. SnapshotAccounted'
    BY <1>10, <2>1, <2>4, <2>7 DEF PassInv, SnapshotAccounted
  <2>9. FormerAccounted' /\ PreviousAccounted'
    BY <1>10, <2>1, <2>5, <2>6, <2>7 DEF PassInv, FormerAccounted, PreviousAccounted
  <2>10. PrintsAll'
    BY <1>10, <2>1, <2>3, <2>5 DEF PassInv, PrintsAll, Saves
  <2> QED
    BY <2>2, <2>8, <2>9, <2>10 DEF PassInv
<1>11. ASSUME PassInv, UNCHANGED policyVars PROVE PassInv'
  BY <1>11 DEF PassInv, CommandsFit, SnapshotAccounted, FormerAccounted, PreviousAccounted, PrintsAll, Accounted, WillReport,
               Saves, policyVars, policyLocals
<1> QED
  BY <1>1, <1>2, <1>3, <1>4, <1>5, <1>6, <1>7, <1>8, <1>9, <1>10, <1>11 DEF PolicyNext, PolicyStep

-----------------------------------------------------------------------------
(* What a hook passes over is accounted for by somebody else: a command    *)
(* reports nothing that it knows from before.                              *)
LEMMA PassInvImplies == PassInv => PassedOverWasReported
<1> SUFFICES ASSUME PassInv, NEW p \in Procs, NEW id \in previousIDs[p]
             PROVE  \/ id \in reported \cup unreported \cup shifted
                    \/ \E q \in Procs \ {p} : WillReport(q, id)
  BY DEF PassedOverWasReported
<1>1. Accounted(id)
  BY DEF PassInv, PreviousAccounted
<1>2. ~WillReport(p, id)
  BY DEF WillReport
<1> QED
  BY <1>1, <1>2 DEF Accounted

(* An asset has at most one decision, and one that is known malicious has  *)
(* that one.                                                               *)
LEMMA OneDecision ==
    ASSUME NEW seen, NEW records, NEW policy, NEW a \in PolicyAssets
    PROVE  {f \in Findings(seen, records, policy) : f.asset = a} = Decide(seen, records, policy, a)
<1>1. \A b \in PolicyAssets : \A f \in Decide(seen, records, policy, b) : f.asset = b
  BY DEF Decide, Finding
<1> QED
  BY <1>1 DEF Findings

LEMMA MaliciousAlways == MaliciousStands
<1> SUFFICES ASSUME NEW a \in PolicyAssets
             PROVE  LET of == {f \in Findings(latest, intel, org) : f.asset = a}
                    IN  /\ Cardinality(of) <= 1
                        /\ Malicious(latest, intel, a) =>
                              /\ \E f \in of : f.verdict = "known-malicious" /\ f.action = "advisory"
                              /\ ExitCode(of) = 4
  BY DEF MaliciousStands
<1>1. {f \in Findings(latest, intel, org) : f.asset = a} = Decide(latest, intel, org, a)
  BY OneDecision
<1>2. Decide(latest, intel, org, a) = {} \/ \E f : Decide(latest, intel, org, a) = {f}
  BY DEF Decide
<1>3. Cardinality(Decide(latest, intel, org, a)) <= 1
  BY <1>2, FS_EmptySet, FS_Singleton
<1>4. ASSUME Malicious(latest, intel, a)
      PROVE  \E f \in Decide(latest, intel, org, a) : f.verdict = "known-malicious" /\ f.action = "advisory"
  BY <1>4 DEF Decide, Finding
<1> QED
  BY <1>1, <1>3, <1>4 DEF ExitCode

(* The commands keep to their places, and what is new and what is not yet  *)
(* recorded is among what was found (run.go, policy.go).                   *)
THEOREM PolicyTypeCorrect == PolicySpec => []PolicyTypeOK
<1>1. StandingInv /\ PassInv => PolicyTypeOK
  BY DEF StandingInv, FoundOK, PassInv, PassShape, PolicyTypeOK
<1> QED
  BY <1>1, StandingInit, StandingStep, PassInvInit, PassInvStep, PTL DEF PolicySpec

(* A finding that a hook passes over as known was reported by the command  *)
(* that saved the previous snapshot, or will be, or that command failed or *)
(* the bundles changed (run.go hook).                                      *)
THEOREM PassedOverReported == PolicySpec => []PassedOverWasReported
BY PassInvInit, PassInvStep, PassInvImplies, PTL DEF PolicySpec

(* No allowance, pin or exception hides what is known malicious, and an    *)
(* asset has one decision (finding/decision.go Decide).                    *)
THEOREM MaliciousNeverHidden == PolicySpec => []MaliciousStands
BY MaliciousAlways, PTL

(* All that the runs check of the commands that speak of policy (run.go,   *)
(* store/policy.go, finding/decision.go).                                  *)
THEOREM PolicyKept == PolicySpec => []PolicySound
<1>1. PolicyTypeOK /\ StandingWasShown /\ PassedOverWasReported /\ MaliciousStands => PolicySound
  BY DEF PolicySound
<1> QED
  BY <1>1, PolicyTypeCorrect, StandingShown, PassedOverReported, MaliciousNeverHidden, PTL

=============================================================================
