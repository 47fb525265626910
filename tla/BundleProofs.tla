---------------------------- MODULE BundleProofs ----------------------------
(***************************************************************************)
(* Proofs about Bundle for any number of commands, bundles and sequences,  *)
(* any validity intervals and any number of faults, and about BundleUpdate *)
(* upon it: updates keep the specification of the store, so that every     *)
(* theorem of the store holds of them too, and what an update reports is   *)
(* true.                                                                   *)
(***************************************************************************)
EXTENDS BundleUpdate, TLAPS

(* Who writes holds the lock, and locals are set where they are used. *)
LocksOK ==
    \A p \in Procs :
        /\ pc[p] \in Writing => lock = p
        /\ pc[p] \in Writing \ {"swap", "switch"} => arg[p] \in Bundles
        /\ pc[p] \in {"swap", "switch", "status", "active"} => seen[p] \in Seqs

(* What an install in progress knows of the store. *)
InstallOK ==
    \A p \in Procs :
        /\ pc[p] \in {"stage", "remove", "rename", "highest"} =>
              /\ Slot(p) >= highest
              /\ Slot(p) = highest => accepted[highest] = arg[p]
        /\ pc[p] \in {"remove", "rename"} => staging[Slot(p)] = arg[p]
        /\ pc[p] \in {"highest", "previous", "current"} => versions[Slot(p)] = arg[p]
        /\ pc[p] \in {"previous", "current"} =>
              highest = Slot(p) /\ accepted[highest] = arg[p]

(* A sequence is accepted exactly when the mark reaches it. *)
HighWaterOK ==
    /\ \A s \in Seqs : accepted[s] # None => s <= highest /\ SequenceOf[accepted[s]] = s
    /\ highest # 0 => accepted[highest] # None

(* A rollback in progress goes to an accepted and stored version. *)
RollbackOK ==
    \A p \in Procs : pc[p] \in {"swap", "switch"} =>
        /\ seen[p] <= highest
        /\ accepted[seen[p]] # None
        /\ versions[seen[p]] # None

(* A reader's sequence was accepted, and its first answer was that bundle. *)
ReaderOK ==
    \A p \in Procs :
        /\ pc[p] \in {"status", "active"} => accepted[seen[p]] # None
        /\ pc[p] = "active" => got[p] = accepted[seen[p]]
        /\ pc[p] # "idle" => result[p] # "active"

StoreInv ==
    /\ TypeOK /\ LocksOK /\ InstallOK /\ HighWaterOK /\ RollbackOK /\ ReaderOK
    /\ PointersAccepted /\ NoEquivocation /\ ActiveAgrees /\ GapExplained

LEMMA StoreInit == Init => StoreInv
BY BundleAssumption
   DEF Init, StoreInv, TypeOK, LocksOK, InstallOK, HighWaterOK, RollbackOK, ReaderOK,
       PointersAccepted, NoEquivocation, ActiveAgrees, GapExplained, Seqs, Times, Labels,
       Writing, Results, BundlesAt

LEMMA TypeStep == TypeOK /\ LocksOK /\ InstallOK /\ [Next]_vars => TypeOK' /\ LocksOK'
<1> SUFFICES ASSUME TypeOK, LocksOK, InstallOK, [Next]_vars PROVE TypeOK' /\ LocksOK'
  OBVIOUS
<1>s. Seqs \subseteq Nat /\ 0 \notin Seqs
  BY DEF Seqs
<1> USE BundleAssumption, <1>s
    DEF TypeOK, LocksOK, InstallOK, Labels, Writing, Results, Times, BundlesAt, Slot,
        Fault, Unlock, Return, Goto, files, pointers, locals, holding, history
<1>1. ASSUME NEW p \in Procs, NEW b \in Bundles, BeginInstall(p, b) PROVE TypeOK' /\ LocksOK'
  BY <1>1 DEF BeginInstall
<1>2. ASSUME NEW p \in Procs, BeginRollback(p) PROVE TypeOK' /\ LocksOK'
  BY <1>2 DEF BeginRollback, Stored
<1>3. ASSUME NEW p \in Procs, ReadPointer(p) PROVE TypeOK' /\ LocksOK'
  BY <1>3 DEF ReadPointer
<1>4. ASSUME NEW p \in Procs, Install(p) PROVE TypeOK' /\ LocksOK'
  <2>1. CASE CheckHighWater(p)
    BY <2>1 DEF CheckHighWater
  <2>2. CASE Stage(p)
    BY <2>2 DEF Stage
  <2>3. CASE RemoveInstalled(p)
    <3>1. /\ SequenceOf[arg[p]] \in Seqs /\ lock' \in {lock, None}
          /\ staging' \in {staging, [staging EXCEPT ![SequenceOf[arg[p]]] = None]}
          /\ versions' \in {versions, [versions EXCEPT ![SequenceOf[arg[p]]] = None]}
          /\ torn' \in {torn, torn \cup {SequenceOf[arg[p]]}}
          /\ pc' \in {[pc EXCEPT ![p] = "rename"], [pc EXCEPT ![p] = "idle"]}
          /\ result' \in {result, [result EXCEPT ![p] = "failed"]}
          /\ faults' \in {faults, faults + 1}
          /\ arg' \in {arg, [arg EXCEPT ![p] = None]}
          /\ seen' \in {seen, [seen EXCEPT ![p] = 0]}
          /\ UNCHANGED <<pointers, now, got, accepted>>
      BY <2>3 DEF RemoveInstalled
    <3>2. /\ versions' \in [Seqs -> Bundles \cup {None}]
          /\ \A s \in Seqs : versions'[s] \in {b \in Bundles : SequenceOf[b] = s} \cup {None}
      BY <3>1
    <3>3. /\ staging' \in [Seqs -> Bundles \cup {None}]
          /\ \A s \in Seqs : staging'[s] \in {b \in Bundles : SequenceOf[b] = s} \cup {None}
      BY <3>1
    <3>4. torn' \subseteq Seqs /\ faults' \in Nat
      BY <3>1
    <3>5. TypeOK'
      BY <3>1, <3>2, <3>3, <3>4
    <3>6. LocksOK'
      BY <2>3 DEF RemoveInstalled
    <3> QED
      BY <3>5, <3>6
  <2>4. CASE RenameStaged(p)
    <3>1. /\ SequenceOf[arg[p]] \in Seqs /\ lock' \in {lock, None}
          /\ staging' = [staging EXCEPT ![SequenceOf[arg[p]]] = None]
          /\ versions' \in {versions, [versions EXCEPT ![SequenceOf[arg[p]]] = staging[SequenceOf[arg[p]]]]}
          /\ torn' \in {torn \ {SequenceOf[arg[p]]}, torn \cup {SequenceOf[arg[p]]}}
          /\ pc' \in {[pc EXCEPT ![p] = "highest"], [pc EXCEPT ![p] = "idle"]}
          /\ result' \in {result, [result EXCEPT ![p] = "failed"]}
          /\ faults' \in {faults, faults + 1}
          /\ arg' \in {arg, [arg EXCEPT ![p] = None]}
          /\ seen' \in {seen, [seen EXCEPT ![p] = 0]}
          /\ UNCHANGED <<pointers, now, got, accepted>>
      BY <2>4 DEF RenameStaged
    <3>2. /\ versions' \in [Seqs -> Bundles \cup {None}]
          /\ \A s \in Seqs : versions'[s] \in {b \in Bundles : SequenceOf[b] = s} \cup {None}
      BY <3>1
    <3>3. /\ staging' \in [Seqs -> Bundles \cup {None}]
          /\ \A s \in Seqs : staging'[s] \in {b \in Bundles : SequenceOf[b] = s} \cup {None}
      BY <3>1
    <3>4. torn' \subseteq Seqs /\ faults' \in Nat
      BY <3>1
    <3>5. TypeOK'
      BY <3>1, <3>2, <3>3, <3>4
    <3>6. LocksOK'
      BY <2>4 DEF RenameStaged
    <3> QED
      BY <3>5, <3>6
  <2>5. CASE WriteHighest(p)
    BY <2>5 DEF WriteHighest
  <2>6. CASE WritePrevious(p)
    BY <2>6 DEF WritePrevious
  <2>7. CASE WriteCurrent(p)
    BY <2>7 DEF WriteCurrent
  <2> QED
    BY <1>4, <2>1, <2>2, <2>3, <2>4, <2>5, <2>6, <2>7 DEF Install
<1>5. ASSUME NEW p \in Procs, Rollback(p) PROVE TypeOK' /\ LocksOK'
  <2>1. CASE RollbackPrevious(p)
    BY <2>1 DEF RollbackPrevious
  <2>2. CASE RollbackCurrent(p)
    BY <2>2 DEF RollbackCurrent
  <2> QED
    BY <1>5, <2>1, <2>2 DEF Rollback
<1>6. ASSUME NEW p \in Procs, Read(p) PROVE TypeOK' /\ LocksOK'
  <2>1. CASE ReadStatus(p)
    <3>1. CASE Stored(seen[p])
      <4>1. TypeOK'
        BY ZenonT(40), <2>1, <3>1 DEF ReadStatus, Stored
      <4>2. LocksOK'
        BY <2>1, <3>1 DEF ReadStatus, Stored
      <4> QED
        BY <4>1, <4>2
    <3>2. CASE ~Stored(seen[p])
      <4>1. TypeOK'
        BY <2>1, <3>2 DEF ReadStatus, Stored
      <4>2. LocksOK'
        BY <2>1, <3>2 DEF ReadStatus, Stored
      <4> QED
        BY <4>1, <4>2
    <3> QED
      BY <3>1, <3>2
  <2>2. CASE ReadActive(p)
    <3>1. CASE Stored(seen[p])
      <4>3. versions[seen[p]] \in Bundles
        BY <3>1 DEF Stored
      <4>4. /\ arg' = [arg EXCEPT ![p] = versions[seen[p]]]
            /\ pc' = [pc EXCEPT ![p] = "idle"]
            /\ result' = [result EXCEPT ![p] = "active"]
        BY <2>2, <3>1 DEF ReadActive
      <4>1. TypeOK'
        BY <2>2, <4>3, <4>4 DEF ReadActive
      <4>2. LocksOK'
        BY <2>2, <3>1 DEF ReadActive, Stored
      <4> QED
        BY <4>1, <4>2
    <3>2. CASE ~Stored(seen[p])
      <4>1. TypeOK'
        BY <2>2, <3>2 DEF ReadActive, Stored
      <4>2. LocksOK'
        BY <2>2, <3>2 DEF ReadActive, Stored
      <4> QED
        BY <4>1, <4>2
    <3> QED
      BY <3>1, <3>2
  <2> QED
    BY <1>6, <2>1, <2>2 DEF Read
<1>7. ASSUME NEW p \in Procs, Crash(p) PROVE TypeOK' /\ LocksOK'
  <2>3. torn' \subseteq Seqs
    <3>1. pc[p] = "rename" => SequenceOf[arg[p]] \in Seqs
      OBVIOUS
    <3> QED
      BY <1>7, <3>1 DEF Crash
  <2>1. TypeOK'
    BY <1>7, <2>3 DEF Crash
  <2>2. LocksOK'
    BY <1>7 DEF Crash
  <2> QED
    BY <2>1, <2>2
<1>8. CASE Tick
  BY <1>8 DEF Tick
<1>9. CASE UNCHANGED vars
  BY <1>9 DEF vars
<1> QED
  BY <1>1, <1>2, <1>3, <1>4, <1>5, <1>6, <1>7, <1>8, <1>9 DEF Next, Begin, Running

(* What CheckHighWater establishes. *)
LEMMA HighWaterPassed ==
    ASSUME TypeOK, HighWaterOK, NoEquivocation,
           NEW p \in Procs, arg[p] \in Bundles,
           \/ Slot(p) > highest
           \/ Slot(p) = highest /\ versions[highest] = arg[p]
    PROVE  Slot(p) >= highest /\ (Slot(p) = highest => accepted[highest] = arg[p])
<1>1. Slot(p) \in Seqs /\ arg[p] # None
  BY BundleAssumption DEF Slot
<1>2. Seqs \subseteq Nat /\ 0 \notin Seqs
  BY DEF Seqs
<1>3. highest \in Seqs \cup {0}
  BY DEF TypeOK
<1>4. CASE Slot(p) > highest
  <2>1. PICK s \in Nat, h \in Nat : s = Slot(p) /\ h = highest
    BY <1>1, <1>2, <1>3
  <2>2. s >= h /\ s # h
    BY <1>4, <2>1
  <2> QED
    BY <2>1, <2>2
<1>5. CASE Slot(p) = highest /\ versions[highest] = arg[p]
  <2>1. highest \in Seqs /\ accepted[highest] # None
    BY <1>1, <1>2, <1>5 DEF HighWaterOK
  <2>2. accepted[highest] = versions[highest]
    BY <1>1, <1>5, <2>1 DEF NoEquivocation
  <2> QED
    BY <1>2, <1>5, <2>1, <2>2
<1> QED
  BY <1>4, <1>5

(* Raising the mark disturbs no reader: an accepted sequence stays. *)
LEMMA ReadersKept ==
    ASSUME TypeOK, LocksOK, ReaderOK, NEW p \in Procs, pc[p] = "highest",
           pc' = [pc EXCEPT ![p] = "previous"], UNCHANGED <<seen, got, result>>,
           \A s \in Seqs : accepted[s] # None => accepted'[s] = accepted[s]
    PROVE  ReaderOK'
<1> SUFFICES ASSUME NEW q \in Procs
             PROVE  /\ pc'[q] \in {"status", "active"} => accepted'[seen[q]] # None
                    /\ pc'[q] = "active" => got[q] = accepted'[seen[q]]
                    /\ pc'[q] # "idle" => result[q] # "active"
  BY DEF ReaderOK
<1>1. CASE q = p
  BY <1>1 DEF ReaderOK, TypeOK
<1>2. CASE q # p
  <2>1. pc'[q] = pc[q]
    BY <1>2
  <2>2. pc[q] \in {"status", "active"} => seen[q] \in Seqs
    BY DEF LocksOK
  <2> QED
    BY <2>1, <2>2 DEF ReaderOK
<1> QED
  BY <1>1, <1>2

LEMMA StoreStep == StoreInv /\ [Next]_vars => StoreInv'
<1> SUFFICES ASSUME StoreInv, [Next]_vars PROVE StoreInv'
  OBVIOUS
<1>t. TypeOK' /\ LocksOK'
  BY TypeStep DEF StoreInv
<1>s. Seqs \subseteq Nat /\ 0 \notin Seqs
  BY DEF Seqs
<1> USE BundleAssumption, <1>t, <1>s
    DEF StoreInv, TypeOK, LocksOK, InstallOK, HighWaterOK, RollbackOK, ReaderOK,
        PointersAccepted, NoEquivocation, ActiveAgrees, GapExplained, Writing, Slot,
        Fault, Unlock, Return, Goto, files, pointers, locals, holding, history
<1>1. ASSUME NEW p \in Procs, NEW b \in Bundles, BeginInstall(p, b) PROVE StoreInv'
  BY <1>1 DEF BeginInstall
<1>2. ASSUME NEW p \in Procs, BeginRollback(p) PROVE StoreInv'
  BY <1>2 DEF BeginRollback, Stored
<1>3. ASSUME NEW p \in Procs, ReadPointer(p) PROVE StoreInv'
  BY <1>3 DEF ReadPointer
<1>4. ASSUME NEW p \in Procs, Install(p) PROVE StoreInv'
  <2>1. CASE CheckHighWater(p)
    <3>1. CASE pc'[p] = "stage"
      <4>9. Slot(p) >= highest /\ (Slot(p) = highest => accepted[highest] = arg[p])
        <5>1. \/ Slot(p) > highest
              \/ Slot(p) = highest /\ versions[highest] = arg[p]
          BY <2>1, <3>1 DEF CheckHighWater
        <5>2. arg[p] \in Bundles
          BY <2>1 DEF CheckHighWater
        <5> QED
          BY <5>1, <5>2, HighWaterPassed
      <4>1. InstallOK'
        BY <2>1, <3>1, <4>9 DEF CheckHighWater
      <4>2. HighWaterOK'
        BY <2>1, <3>1 DEF CheckHighWater
      <4>3. RollbackOK'
        BY <2>1, <3>1 DEF CheckHighWater
      <4>4. ReaderOK'
        BY <2>1, <3>1 DEF CheckHighWater
      <4>5. PointersAccepted'
        BY <2>1, <3>1 DEF CheckHighWater
      <4>6. NoEquivocation'
        BY <2>1, <3>1 DEF CheckHighWater
      <4>7. ActiveAgrees'
        BY <2>1, <3>1 DEF CheckHighWater
      <4>8. GapExplained'
        BY <2>1, <3>1 DEF CheckHighWater
      <4> QED
        BY <4>1, <4>2, <4>3, <4>4, <4>5, <4>6, <4>7, <4>8
    <3>2. CASE ~(pc'[p] = "stage")
      <4>1. InstallOK'
        BY <2>1, <3>2 DEF CheckHighWater
      <4>2. HighWaterOK'
        BY <2>1, <3>2 DEF CheckHighWater
      <4>3. RollbackOK'
        BY <2>1, <3>2 DEF CheckHighWater
      <4>4. ReaderOK'
        BY <2>1, <3>2 DEF CheckHighWater
      <4>5. PointersAccepted'
        BY <2>1, <3>2 DEF CheckHighWater
      <4>6. NoEquivocation'
        BY <2>1, <3>2 DEF CheckHighWater
      <4>7. ActiveAgrees'
        BY <2>1, <3>2 DEF CheckHighWater
      <4>8. GapExplained'
        BY <2>1, <3>2 DEF CheckHighWater
      <4> QED
        BY <4>1, <4>2, <4>3, <4>4, <4>5, <4>6, <4>7, <4>8
    <3> QED
      BY <3>1, <3>2
  <2>2. CASE Stage(p)
    BY <2>2 DEF Stage
  <2>3. CASE RemoveInstalled(p)
    BY <2>3 DEF RemoveInstalled
  <2>4. CASE RenameStaged(p)
    <3>1. CASE pc'[p] = "highest"
      <4>1. InstallOK'
        BY <2>4, <3>1 DEF RenameStaged
      <4>2. HighWaterOK'
        BY <2>4, <3>1 DEF RenameStaged
      <4>3. RollbackOK'
        BY <2>4, <3>1 DEF RenameStaged
      <4>4. ReaderOK'
        BY <2>4, <3>1 DEF RenameStaged
      <4>5. PointersAccepted'
        BY <2>4, <3>1 DEF RenameStaged
      <4>6. NoEquivocation'
        BY <2>4, <3>1 DEF RenameStaged
      <4>7. ActiveAgrees'
        BY <2>4, <3>1 DEF RenameStaged
      <4>8. GapExplained'
        BY <2>4, <3>1 DEF RenameStaged
      <4> QED
        BY <4>1, <4>2, <4>3, <4>4, <4>5, <4>6, <4>7, <4>8
    <3>2. CASE ~(pc'[p] = "highest")
      <4>1. InstallOK'
        BY <2>4, <3>2 DEF RenameStaged
      <4>2. HighWaterOK'
        BY <2>4, <3>2 DEF RenameStaged
      <4>3. RollbackOK'
        BY <2>4, <3>2 DEF RenameStaged
      <4>4. ReaderOK'
        BY <2>4, <3>2 DEF RenameStaged
      <4>5. PointersAccepted'
        BY <2>4, <3>2 DEF RenameStaged
      <4>6. NoEquivocation'
        BY <2>4, <3>2 DEF RenameStaged
      <4>7. ActiveAgrees'
        BY <2>4, <3>2 DEF RenameStaged
      <4>8. GapExplained'
        BY <2>4, <3>2 DEF RenameStaged
      <4> QED
        BY <4>1, <4>2, <4>3, <4>4, <4>5, <4>6, <4>7, <4>8
    <3> QED
      BY <3>1, <3>2
  <2>5. CASE WriteHighest(p)
    <3>1. CASE pc'[p] = "previous"
      <4>1. InstallOK'
        BY <2>5, <3>1 DEF WriteHighest
      <4>2. HighWaterOK'
        BY <2>5, <3>1 DEF WriteHighest
      <4>3. RollbackOK'
        BY <2>5, <3>1 DEF WriteHighest
      <4>9. \A s \in Seqs : accepted[s] # None => accepted'[s] = accepted[s]
        BY <2>5, <3>1 DEF WriteHighest
      <4>4. ReaderOK'
        <5>1. /\ pc[p] = "highest"
              /\ pc' = [pc EXCEPT ![p] = "previous"]
              /\ UNCHANGED <<seen, got, result>>
          BY <2>5, <3>1 DEF WriteHighest
        <5>2. TypeOK /\ LocksOK /\ ReaderOK
          BY DEF StoreInv
        <5> QED
          BY ONLY <4>9, <5>1, <5>2, ReadersKept
      <4>5. PointersAccepted'
        BY <2>5, <3>1 DEF WriteHighest
      <4>6. NoEquivocation'
        BY <2>5, <3>1 DEF WriteHighest
      <4>7. ActiveAgrees'
        BY <2>5, <3>1 DEF WriteHighest
      <4>8. GapExplained'
        BY <2>5, <3>1 DEF WriteHighest
      <4> QED
        BY <4>1, <4>2, <4>3, <4>4, <4>5, <4>6, <4>7, <4>8
    <3>2. CASE ~(pc'[p] = "previous")
      <4>1. InstallOK'
        BY <2>5, <3>2 DEF WriteHighest
      <4>2. HighWaterOK'
        BY <2>5, <3>2 DEF WriteHighest
      <4>3. RollbackOK'
        BY <2>5, <3>2 DEF WriteHighest
      <4>4. ReaderOK'
        BY <2>5, <3>2 DEF WriteHighest
      <4>5. PointersAccepted'
        BY <2>5, <3>2 DEF WriteHighest
      <4>6. NoEquivocation'
        BY <2>5, <3>2 DEF WriteHighest
      <4>7. ActiveAgrees'
        BY <2>5, <3>2 DEF WriteHighest
      <4>8. GapExplained'
        BY <2>5, <3>2 DEF WriteHighest
      <4> QED
        BY <4>1, <4>2, <4>3, <4>4, <4>5, <4>6, <4>7, <4>8
    <3> QED
      BY <3>1, <3>2
  <2>6. CASE WritePrevious(p)
    BY <2>6 DEF WritePrevious
  <2>7. CASE WriteCurrent(p)
    BY <2>7 DEF WriteCurrent
  <2> QED
    BY <1>4, <2>1, <2>2, <2>3, <2>4, <2>5, <2>6, <2>7 DEF Install
<1>5. ASSUME NEW p \in Procs, Rollback(p) PROVE StoreInv'
  <2>1. CASE RollbackPrevious(p)
    BY <2>1 DEF RollbackPrevious
  <2>2. CASE RollbackCurrent(p)
    BY <2>2 DEF RollbackCurrent
  <2> QED
    BY <1>5, <2>1, <2>2 DEF Rollback
<1>6. ASSUME NEW p \in Procs, Read(p) PROVE StoreInv'
  <2>1. CASE ReadStatus(p)
    <3>1. CASE Stored(seen[p])
      <4>1. InstallOK'
        BY <2>1, <3>1 DEF ReadStatus, Stored
      <4>2. HighWaterOK'
        BY <2>1, <3>1 DEF ReadStatus, Stored
      <4>3. RollbackOK'
        BY <2>1, <3>1 DEF ReadStatus, Stored
      <4>9. versions[seen[p]] = accepted[seen[p]]
        BY <2>1, <3>1 DEF ReadStatus, Stored
      <4>4. ReaderOK'
        BY <2>1, <3>1, <4>9 DEF ReadStatus, Stored
      <4>5. PointersAccepted'
        BY <2>1, <3>1 DEF ReadStatus, Stored
      <4>6. NoEquivocation'
        BY <2>1, <3>1 DEF ReadStatus, Stored
      <4>7. ActiveAgrees'
        BY <2>1, <3>1 DEF ReadStatus, Stored
      <4>8. GapExplained'
        BY <2>1, <3>1 DEF ReadStatus, Stored
      <4> QED
        BY <4>1, <4>2, <4>3, <4>4, <4>5, <4>6, <4>7, <4>8
    <3>2. CASE ~Stored(seen[p])
      <4>1. InstallOK'
        BY <2>1, <3>2 DEF ReadStatus, Stored
      <4>2. HighWaterOK'
        BY <2>1, <3>2 DEF ReadStatus, Stored
      <4>3. RollbackOK'
        BY <2>1, <3>2 DEF ReadStatus, Stored
      <4>4. ReaderOK'
        BY <2>1, <3>2 DEF ReadStatus, Stored
      <4>5. PointersAccepted'
        BY <2>1, <3>2 DEF ReadStatus, Stored
      <4>6. NoEquivocation'
        BY <2>1, <3>2 DEF ReadStatus, Stored
      <4>7. ActiveAgrees'
        BY <2>1, <3>2 DEF ReadStatus, Stored
      <4>8. GapExplained'
        BY <2>1, <3>2 DEF ReadStatus, Stored
      <4> QED
        BY <4>1, <4>2, <4>3, <4>4, <4>5, <4>6, <4>7, <4>8
    <3> QED
      BY <3>1, <3>2
  <2>2. CASE ReadActive(p)
    <3>1. CASE Stored(seen[p])
      <4>1. InstallOK'
        BY <2>2, <3>1 DEF ReadActive, Stored
      <4>2. HighWaterOK'
        BY <2>2, <3>1 DEF ReadActive, Stored
      <4>3. RollbackOK'
        BY <2>2, <3>1 DEF ReadActive, Stored
      <4>4. ReaderOK'
        BY <2>2, <3>1 DEF ReadActive, Stored
      <4>5. PointersAccepted'
        BY <2>2, <3>1 DEF ReadActive, Stored
      <4>6. NoEquivocation'
        BY <2>2, <3>1 DEF ReadActive, Stored
      <4>9. versions[seen[p]] = accepted[seen[p]] /\ got[p] = accepted[seen[p]]
        BY <2>2, <3>1 DEF ReadActive, Stored
      <4>7. ActiveAgrees'
        BY <2>2, <3>1, <4>9 DEF ReadActive, Stored
      <4>8. GapExplained'
        BY <2>2, <3>1 DEF ReadActive, Stored
      <4> QED
        BY <4>1, <4>2, <4>3, <4>4, <4>5, <4>6, <4>7, <4>8
    <3>2. CASE ~Stored(seen[p])
      <4>1. InstallOK'
        BY <2>2, <3>2 DEF ReadActive, Stored
      <4>2. HighWaterOK'
        BY <2>2, <3>2 DEF ReadActive, Stored
      <4>3. RollbackOK'
        BY <2>2, <3>2 DEF ReadActive, Stored
      <4>4. ReaderOK'
        BY <2>2, <3>2 DEF ReadActive, Stored
      <4>5. PointersAccepted'
        BY <2>2, <3>2 DEF ReadActive, Stored
      <4>6. NoEquivocation'
        BY <2>2, <3>2 DEF ReadActive, Stored
      <4>7. ActiveAgrees'
        BY <2>2, <3>2 DEF ReadActive, Stored
      <4>8. GapExplained'
        BY <2>2, <3>2 DEF ReadActive, Stored
      <4> QED
        BY <4>1, <4>2, <4>3, <4>4, <4>5, <4>6, <4>7, <4>8
    <3> QED
      BY <3>1, <3>2
  <2> QED
    BY <1>6, <2>1, <2>2 DEF Read
<1>7. ASSUME NEW p \in Procs, Crash(p) PROVE StoreInv'
  <2>1. InstallOK'
    BY <1>7 DEF Crash
  <2>2. HighWaterOK'
    BY <1>7 DEF Crash
  <2>3. RollbackOK'
    BY <1>7 DEF Crash
  <2>4. ReaderOK'
    BY <1>7 DEF Crash
  <2>5. PointersAccepted'
    BY <1>7 DEF Crash
  <2>6. NoEquivocation'
    BY <1>7 DEF Crash
  <2>7. ActiveAgrees'
    BY <1>7 DEF Crash
  <2>8. GapExplained'
    BY <1>7 DEF Crash
  <2> QED
    BY <2>1, <2>2, <2>3, <2>4, <2>5, <2>6, <2>7, <2>8
<1>8. CASE Tick
  BY <1>8 DEF Tick
<1>9. CASE UNCHANGED vars
  BY <1>9 DEF vars
<1> QED
  BY <1>1, <1>2, <1>3, <1>4, <1>5, <1>6, <1>7, <1>8, <1>9 DEF Next, Begin, Running

(* The type invariant of Bundle. *)
THEOREM TypeCorrect == Spec => []TypeOK
<1>1. StoreInv => TypeOK
  BY DEF StoreInv
<1> QED
  BY <1>1, StoreInit, StoreStep, PTL DEF Spec

(* Every pointer names an accepted sequence below the high-water mark      *)
(* (lifecycle.go:107-118, 154).                                            *)
THEOREM PointersCorrect == Spec => []PointersAccepted
<1>1. StoreInv => PointersAccepted
  BY DEF StoreInv
<1> QED
  BY <1>1, StoreInit, StoreStep, PTL DEF Spec

(* No other bytes ever take an accepted sequence (lifecycle.go:70-78). *)
THEOREM SequencesUnequivocal == Spec => []NoEquivocation
<1>1. StoreInv => NoEquivocation
  BY DEF StoreInv
<1> QED
  BY <1>1, StoreInit, StoreStep, PTL DEF Spec

(* A reader without the lock never mixes two bundles (active.go:19-43). *)
THEOREM ReadersAgree == Spec => []ActiveAgrees
<1>1. StoreInv => ActiveAgrees
  BY DEF StoreInv
<1> QED
  BY <1>1, StoreInit, StoreStep, PTL DEF Spec

(* The active bundle is unreadable only inside, or after an interruption   *)
(* of, the swap of its own directory (lifecycle.go:104-106).               *)
THEOREM GapsExplained == Spec => []GapExplained
<1>1. StoreInv => GapExplained
  BY DEF StoreInv
<1> QED
  BY <1>1, StoreInit, StoreStep, PTL DEF Spec
-----------------------------------------------------------------------------
(* How the pointers move. *)

(* Only three steps write highest or current. *)
LEMMA PointerWriters ==
    ASSUME [Next]_vars, ~UNCHANGED <<highest, current>>
    PROVE  \E p \in Procs : WriteHighest(p) \/ WriteCurrent(p) \/ RollbackCurrent(p)
BY DEF Next, Begin, Running, Install, Rollback, Read, BeginInstall, BeginRollback, ReadPointer,
       CheckHighWater, Stage, RemoveInstalled, RenameStaged, WritePrevious, RollbackPrevious,
       ReadStatus, ReadActive, Crash, Tick, vars, pointers, Unlock

LEMMA MarkStep ==
    ASSUME StoreInv, [Next]_vars
    PROVE  highest' >= highest
<1>1. highest \in Nat
  BY DEF StoreInv, TypeOK, Seqs
<1>2. CASE highest' = highest
  BY <1>1, <1>2
<1>3. CASE highest' # highest
  <2>1. PICK p \in Procs : WriteHighest(p)
    BY <1>3, PointerWriters DEF WriteCurrent, RollbackCurrent
  <2>2. highest' = Slot(p) /\ pc[p] = "highest"
    BY <1>3, <2>1 DEF WriteHighest
  <2> QED
    BY <2>2 DEF StoreInv, InstallOK
<1> QED
  BY <1>2, <1>3

(* An accepted sequence keeps its bundle. *)
LEMMA AcceptedStep ==
    ASSUME StoreInv, [Next]_vars, NEW s \in Seqs, accepted[s] # None
    PROVE  accepted'[s] = accepted[s]
<1>1. CASE accepted' = accepted
  BY <1>1
<1>2. CASE accepted' # accepted
  <2>1. PICK p \in Procs : WriteHighest(p)
    BY <1>2
    DEF Next, Begin, Running, Install, Rollback, Read, BeginInstall, BeginRollback, ReadPointer,
        CheckHighWater, Stage, RemoveInstalled, RenameStaged, WritePrevious, WriteCurrent,
        RollbackPrevious, RollbackCurrent, ReadStatus, ReadActive, Crash, Tick, vars, history
  <2>2. accepted' = [accepted EXCEPT ![Slot(p)] = IF @ = None THEN arg[p] ELSE @]
    BY <1>2, <2>1 DEF WriteHighest
  <2>3. accepted \in [Seqs -> Bundles \cup {None}]
    BY DEF StoreInv, TypeOK
  <2> QED
    BY <2>2, <2>3
<1> QED
  BY <1>1, <1>2

(* The high-water mark never falls (lifecycle.go:65-79, 154). *)
THEOREM MarkNeverFalls == Spec => HighWaterMonotone
<1>1. StoreInv /\ [Next]_vars => [highest' >= highest]_vars
  BY MarkStep
<1> QED
  BY <1>1, StoreInit, StoreStep, PTL DEF Spec, HighWaterMonotone

(* The active sequence falls only by a rollback (lifecycle.go:65-69). *)
THEOREM OnlyRollbackDowngrades == Spec => NoDowngrade
<1> DEFINE Good == current' < current =>
                      \E p \in Procs : pc[p] = "switch" /\ current' = seen[p]
<1>1. ASSUME StoreInv, [Next]_vars PROVE Good
  <2> SUFFICES ASSUME current' < current
               PROVE  \E p \in Procs : pc[p] = "switch" /\ current' = seen[p]
    OBVIOUS
  <2>1. current \in Seqs \cup {0} /\ current \in Nat /\ highest \in Nat
    BY <1>1 DEF StoreInv, TypeOK, Seqs
  <2>2. current' # current
    BY <2>1
  <2>3. PICK p \in Procs : WriteCurrent(p) \/ RollbackCurrent(p)
    BY <1>1, <2>2, PointerWriters DEF WriteHighest
  <2>4. CASE WriteCurrent(p)
    <3>1. current' = Slot(p) /\ pc[p] = "current"
      BY <2>2, <2>4 DEF WriteCurrent
    <3>2. current' = highest
      BY <1>1, <3>1 DEF StoreInv, InstallOK
    <3>3. current <= highest
      <4>1. CASE current = 0
        BY <2>1, <4>1
      <4>2. CASE current # 0
        BY <1>1, <4>2 DEF StoreInv, PointersAccepted
      <4> QED
        BY <4>1, <4>2
    <3> QED
      BY <2>1, <3>2, <3>3
  <2>5. CASE RollbackCurrent(p)
    BY <2>2, <2>5 DEF RollbackCurrent
  <2> QED
    BY <2>3, <2>4, <2>5
<1>2. StoreInv /\ [Next]_vars => [Good]_vars
  BY <1>1
<1> QED
  BY <1>2, StoreInit, StoreStep, PTL DEF Spec, NoDowngrade

(* Sequences move forward (lifecycle.go:65-79, 154). *)
THEOREM OnlyForward == Spec => SequencesForward
<1> QED
  BY MarkNeverFalls, OnlyRollbackDowngrades DEF SequencesForward

-----------------------------------------------------------------------------
(* Without a fault, what each writer is about to leave as previous and as  *)
(* current differs, and before the first install there is no previous.     *)
TargetInv ==
    faults = 0 =>
        /\ current = 0 => previous = 0
        /\ current # 0 /\ (\A p \in Procs : pc[p] \notin {"current", "switch"}) => previous # current
        /\ \A p \in Procs :
              /\ pc[p] = "current" => previous # Slot(p)
              /\ pc[p] = "swap" => current # 0 /\ seen[p] = previous /\ seen[p] # current
              /\ pc[p] = "switch" => previous # seen[p]

LEMMA TargetStep == StoreInv /\ TargetInv /\ [Next]_vars => TargetInv'
<1> SUFFICES ASSUME StoreInv, TargetInv, [Next]_vars, faults' = 0 PROVE TargetInv'
  BY DEF TargetInv
<1>0. faults \in Nat /\ faults = 0
  <2>1. faults \in Nat
    BY DEF StoreInv, TypeOK
  <2>2. faults' \in {faults, faults + 1}
    BY DEF Next, Begin, Running, Install, Rollback, Read, BeginInstall, BeginRollback, ReadPointer,
        CheckHighWater, Stage, RemoveInstalled, RenameStaged, WriteHighest, WritePrevious, WriteCurrent,
        RollbackPrevious, RollbackCurrent, ReadStatus, ReadActive, Crash, Tick, Fault, vars, history
  <2> QED
    BY <2>1, <2>2
<1>1. /\ pc \in [Procs -> Labels] /\ arg \in [Procs -> Bundles \cup {None}]
      /\ seen \in [Procs -> Seqs \cup {0}] /\ current \in Seqs \cup {0} /\ 0 \notin Seqs
  BY DEF StoreInv, TypeOK, Seqs
<1>2. \A q \in Procs : pc[q] \in Writing => lock = q
  BY DEF StoreInv, LocksOK
<1>3. \A q \in Procs : pc[q] \in Writing \ {"swap", "switch"} => Slot(q) \in Seqs
  BY BundleAssumption DEF StoreInv, LocksOK, Slot
<1>4. \A q \in Procs : pc[q] \in {"swap", "switch"} => seen[q] \in Seqs
  BY DEF StoreInv, LocksOK
<1> USE <1>0, <1>1 DEF TargetInv
<1>5. ~Fault
  BY DEF Fault
<1>6. CASE UNCHANGED vars \/ Tick
  BY <1>6 DEF vars, Tick, files, pointers, locals, history, Slot
<1>7. ASSUME NEW p \in Procs, Begin(p) \/ Running(p) \/ Crash(p) PROVE TargetInv'
  <2> DEFINE Own == pc[p] \in Writing
  <2>0. \A q \in Procs \ {p} : Own => pc[q] \notin {"current", "swap", "switch"}
    BY <1>2 DEF Writing
  <2>1. CASE Begin(p)
    <3>1. ASSUME NEW b \in Bundles, BeginInstall(p, b) PROVE TargetInv'
      BY <3>1 DEF BeginInstall, Goto, pointers, history, Slot
    <3>2. CASE BeginRollback(p)
      <4>1. \A q \in Procs : pc[q] \notin Writing
        BY <1>2, <3>2, BundleAssumption DEF BeginRollback
      <4> QED
        BY <3>2, <4>1 DEF BeginRollback, Goto, pointers, history, Slot, Writing
    <3>3. CASE ReadPointer(p)
      BY <3>3 DEF ReadPointer, Goto, pointers, history, Slot
    <3> QED
      BY <2>1, <3>1, <3>2, <3>3 DEF Begin
  <2>2. CASE CheckHighWater(p) \/ Stage(p) \/ RemoveInstalled(p) \/ RenameStaged(p) \/ WriteHighest(p)
    <3>1. UNCHANGED <<current, previous>>
      BY <2>2 DEF CheckHighWater, Stage, RemoveInstalled, RenameStaged, WriteHighest, pointers
    <3>2. /\ pc' = [pc EXCEPT ![p] = pc'[p]] /\ pc'[p] \notin {"current", "swap", "switch"}
          /\ pc[p] \notin {"current", "switch"}
      BY <2>2 DEF CheckHighWater, Stage, RemoveInstalled, RenameStaged, WriteHighest, Unlock, Return, Goto
    <3>3. \A q \in Procs \ {p} : arg'[q] = arg[q] /\ seen'[q] = seen[q]
      BY <2>2 DEF CheckHighWater, Stage, RemoveInstalled, RenameStaged, WriteHighest, Unlock, Return, holding
    <3> QED
      BY <3>1, <3>2, <3>3 DEF Slot
  <2>3. CASE WritePrevious(p)
    <3>1. pc[p] = "previous" /\ Own
      BY <2>3 DEF WritePrevious, Writing
    <3>2. /\ previous' = IF current \notin {0, Slot(p)} THEN current ELSE previous
          /\ pc' = [pc EXCEPT ![p] = "current"]
          /\ UNCHANGED <<current, arg, seen>>
      BY <2>3, <1>5 DEF WritePrevious, Goto, holding
    <3>3. previous # current \/ current = 0
      BY <2>0, <3>1
    <3>4. previous' # Slot(p)
      BY <1>3, <3>1, <3>2, <3>3 DEF Writing
    <3> QED
      BY <2>0, <3>1, <3>2, <3>4 DEF Slot
  <2>4. CASE WriteCurrent(p)
    <3>1. pc[p] = "current" /\ Own
      BY <2>4 DEF WriteCurrent, Writing
    <3>2. /\ current' = Slot(p) /\ pc' = [pc EXCEPT ![p] = "idle"] /\ UNCHANGED previous
          /\ \A q \in Procs \ {p} : arg'[q] = arg[q] /\ seen'[q] = seen[q]
      BY <2>4, <1>5 DEF WriteCurrent, Unlock, Return, Goto
    <3>3. Slot(p) # 0
      BY <1>3, <3>1 DEF Writing
    <3> QED
      BY <2>0, <3>1, <3>2, <3>3 DEF Slot
  <2>5. CASE RollbackPrevious(p)
    <3>1. pc[p] = "swap" /\ Own
      BY <2>5 DEF RollbackPrevious, Writing
    <3>2. /\ previous' = current /\ pc' = [pc EXCEPT ![p] = "switch"]
          /\ UNCHANGED <<current, arg, seen>>
      BY <2>5, <1>5 DEF RollbackPrevious, Goto, holding
    <3> QED
      BY <2>0, <3>1, <3>2 DEF Slot
  <2>6. CASE RollbackCurrent(p)
    <3>1. pc[p] = "switch" /\ Own
      BY <2>6 DEF RollbackCurrent, Writing
    <3>2. /\ current' = seen[p] /\ pc' = [pc EXCEPT ![p] = "idle"] /\ UNCHANGED previous
          /\ \A q \in Procs \ {p} : arg'[q] = arg[q] /\ seen'[q] = seen[q]
      BY <2>6, <1>5 DEF RollbackCurrent, Unlock, Return, Goto
    <3>3. seen[p] # 0
      BY <1>4, <3>1
    <3> QED
      BY <2>0, <3>1, <3>2, <3>3 DEF Slot
  <2>7. CASE Read(p)
    <3>1. UNCHANGED <<current, previous, seen>>
      BY <2>7 DEF Read, ReadStatus, ReadActive, pointers
    <3>2. /\ pc' = [pc EXCEPT ![p] = pc'[p]] /\ pc'[p] \in {"active", "idle"}
          /\ pc[p] \in {"status", "active"} /\ \A q \in Procs \ {p} : arg'[q] = arg[q]
      BY <2>7 DEF Read, ReadStatus, ReadActive, Return, Goto
    <3> QED
      BY <3>1, <3>2 DEF Slot
  <2>8. CASE Crash(p)
    BY <2>8, <1>5 DEF Crash
  <2> QED
    BY <1>7, <2>1, <2>2, <2>3, <2>4, <2>5, <2>6, <2>7, <2>8 DEF Running, Install, Rollback
<1> QED
  BY <1>6, <1>7 DEF Next

(* Without a fault a rollback has a target, whatever installs, repeated    *)
(* installs and rollbacks came before (lifecycle.go:110-118, 154).         *)
THEOREM TargetKept == Spec => []RollbackTargetKept
<1>1. Init => TargetInv
  BY DEF Init, TargetInv
<1>2. StoreInv /\ TargetInv => RollbackTargetKept
  <2> SUFFICES ASSUME StoreInv, TargetInv, faults = 0, lock = None, current # 0
               PROVE  previous # current
    BY DEF RollbackTargetKept
  <2>1. \A p \in Procs : pc[p] \notin {"current", "switch"}
    BY BundleAssumption DEF StoreInv, LocksOK, Writing
  <2> QED
    BY <2>1 DEF TargetInv
<1> QED
  BY <1>1, <1>2, StoreInit, StoreStep, TargetStep, PTL DEF Spec

-----------------------------------------------------------------------------
(* The store implements the ledger.  A rollback that has not written yet   *)
(* still sees the pointers it has read, since every writer holds the lock. *)
SwapInv ==
    \A p \in Procs : pc[p] = "swap" =>
        current # 0 /\ previous # 0 /\ seen[p] = previous /\ previous # current

(* A step of a reader or of the clock, or one that ends without a write.   *)
LEMMA SwapStep == StoreInv /\ SwapInv /\ [Next]_vars => SwapInv'
<1> SUFFICES ASSUME StoreInv, SwapInv, [Next]_vars, NEW q \in Procs, pc'[q] = "swap"
             PROVE  current' # 0 /\ previous' # 0 /\ seen'[q] = previous' /\ previous' # current'
  BY DEF SwapInv
<1> USE DEF SwapInv
<1>1. /\ pc \in [Procs -> Labels] /\ seen \in [Procs -> Seqs \cup {0}]
      /\ \A p \in Procs : pc[p] \in Writing => lock = p
  BY DEF StoreInv, TypeOK, LocksOK
<1>2. CASE UNCHANGED vars \/ Tick
  BY <1>2 DEF vars, Tick, pointers, locals
<1>3. ASSUME NEW p \in Procs, BeginRollback(p)
      PROVE  current' # 0 /\ previous' # 0 /\ seen'[q] = previous' /\ previous' # current'
  <2>1. \A r \in Procs : pc[r] \notin Writing
    BY <1>1, <1>3, BundleAssumption DEF BeginRollback
  <2>2. q = p
    BY <1>1, <1>3, <2>1 DEF BeginRollback, Goto, Writing
  <2> QED
    BY <1>1, <1>3, <2>2 DEF BeginRollback, pointers
<1>4. ASSUME NEW p \in Procs, Running(p) \/ Crash(p) \/ ReadPointer(p) \/ \E b \in Bundles : BeginInstall(p, b)
      PROVE  current' # 0 /\ previous' # 0 /\ seen'[q] = previous' /\ previous' # current'
  <2>1. q # p /\ pc[q] = "swap" /\ seen'[q] = seen[q]
    BY <1>1, <1>4
    DEF Running, Install, Rollback, Read, BeginInstall, ReadPointer, CheckHighWater, Stage, RemoveInstalled,
        RenameStaged, WriteHighest, WritePrevious, WriteCurrent, RollbackPrevious, RollbackCurrent,
        ReadStatus, ReadActive, Crash, Goto, Return, Unlock, holding
  <2>2. pc[p] \notin Writing
    BY <1>1, <2>1 DEF Writing
  <2>3. UNCHANGED <<current, previous>>
    BY <1>4, <2>2
    DEF Running, Install, Rollback, Read, BeginInstall, ReadPointer, CheckHighWater, Stage, RemoveInstalled,
        RenameStaged, WriteHighest, WritePrevious, WriteCurrent, RollbackPrevious, RollbackCurrent,
        ReadStatus, ReadActive, Crash, Writing, pointers
  <2> QED
    BY <2>1, <2>3
<1> QED
  BY <1>2, <1>3, <1>4 DEF Next, Begin

LEMMA LedgerInit == Init => Ledger!Init
BY DEF Init, Ledger!Init, Ledger!Nothing, Ledger!Change, Pending, Change, Seqs

(* What is pending while p is at a label of a writer.                      *)
LEMMA PendingOfWriter ==
    ASSUME StoreInv, NEW p \in Procs, pc[p] \in Writing
    PROVE  /\ lock = p /\ lock # None
           /\ pc[p] = "previous" => Pending = Change("accepted", Slot(p))
           /\ pc[p] = "current" => Pending = Change("remembered", Slot(p))
           /\ pc[p] = "switch" => Pending = Change("exchanged", seen[p])
           /\ pc[p] \notin {"previous", "current", "switch"} => Pending = Change("nothing", 0)
<1>1. lock = p /\ p # None
  BY BundleAssumption DEF StoreInv, LocksOK
<1> QED
  BY <1>1 DEF Pending

LEMMA LedgerStep == StoreInv /\ StoreInv' /\ SwapInv /\ [Next]_vars => [Ledger!Next]_(Ledger!vars)
<1> SUFFICES ASSUME StoreInv, StoreInv', SwapInv, [Next]_vars
             PROVE  Ledger!Next \/ UNCHANGED <<accepted, highest, current, previous, Pending>>
  BY DEF Ledger!vars
<1> DEFINE Still == UNCHANGED <<accepted, highest, current, previous, Pending>>
           Goal == Ledger!Next \/ Still
<1>1. /\ pc \in [Procs -> Labels] /\ seen \in [Procs -> Seqs \cup {0}] /\ arg \in [Procs -> Bundles \cup {None}]
      /\ accepted \in [Seqs -> Bundles \cup {None}]
      /\ \A p \in Procs : pc[p] \in Writing => lock = p
      /\ \A p \in Procs : pc[p] \in Writing \ {"swap", "switch"} => arg[p] \in Bundles
  BY DEF StoreInv, TypeOK, LocksOK
<1>2. Seqs = 1 .. MaxSeq /\ Seqs \subseteq Nat /\ 0 \notin Seqs /\ highest \in Nat
  BY DEF Seqs, StoreInv, TypeOK
<1>3. ASSUME lock' = None  PROVE Pending' = Change("nothing", 0)
  BY <1>3 DEF Pending
(* A command that gives up leaves what it has written. *)
<1>4. ASSUME lock' = None, UNCHANGED <<accepted, highest, current, previous>>  PROVE Goal
  <2>1. CASE Pending = Change("nothing", 0)
    BY <1>3, <1>4, <2>1
  <2>2. CASE Pending # Change("nothing", 0)
    <3>1. Ledger!Abandon
      BY <1>3, <1>4, <2>2 DEF Ledger!Abandon, Ledger!Nothing, Ledger!Change, Change
    <3> QED  BY <3>1 DEF Ledger!Next
  <2> QED  BY <2>1, <2>2
<1>5. ASSUME UNCHANGED <<accepted, highest, current, previous, lock>>,
             \A q \in Procs : lock = q => \/ pc'[q] = pc[q] /\ arg'[q] = arg[q] /\ seen'[q] = seen[q]
                                          \/ {pc[q], pc'[q]} \cap {"previous", "current", "switch"} = {}
      PROVE  Goal
  <2>1. lock \in Procs \cup {None}
    BY DEF StoreInv, TypeOK
  <2>2. Pending' = Pending
    BY <1>5, <2>1 DEF Pending, Slot
  <2> QED  BY <1>5, <2>2
<1>6. CASE UNCHANGED vars \/ Tick
  BY <1>5, <1>6 DEF vars, Tick, pointers, locals, history
<1>7. ASSUME NEW p \in Procs, Begin(p)  PROVE Goal
  <2>1. UNCHANGED <<accepted, highest, current, previous>> /\ pc[p] = "idle" /\ lock' \in {lock, p}
        /\ (lock' # lock => lock = None)
        /\ pc' = [pc EXCEPT ![p] = pc'[p]] /\ pc'[p] \in {"check", "swap", "status"}
        /\ \A q \in Procs \ {p} : arg'[q] = arg[q] /\ seen'[q] = seen[q]
    BY <1>1, <1>7 DEF Begin, BeginInstall, BeginRollback, ReadPointer, Goto, pointers, history
  <2>2. CASE lock' = lock
    <3>1. \A q \in Procs : lock = q => \/ pc'[q] = pc[q] /\ arg'[q] = arg[q] /\ seen'[q] = seen[q]
                                       \/ {pc[q], pc'[q]} \cap {"previous", "current", "switch"} = {}
      BY <1>1, <2>1
    <3> QED  BY <1>5, <2>1, <2>2, <3>1
  <2>3. CASE lock' # lock
    <3>1. Pending = Change("nothing", 0) /\ Pending' = Change("nothing", 0)
      BY <1>1, <2>1, <2>3 DEF Pending
    <3> QED  BY <2>1, <3>1
  <2> QED  BY <2>2, <2>3
<1>8. ASSUME NEW p \in Procs, Read(p)  PROVE Goal
  <2>1. /\ UNCHANGED <<accepted, highest, current, previous, lock>>
        /\ pc[p] \in {"status", "active"} /\ pc' = [pc EXCEPT ![p] = pc'[p]] /\ pc'[p] \in {"active", "idle"}
        /\ \A q \in Procs \ {p} : arg'[q] = arg[q] /\ seen'[q] = seen[q]
    BY <1>1, <1>8 DEF Read, ReadStatus, ReadActive, Return, Goto, pointers, history
  <2> QED  BY <1>1, <1>5, <2>1
<1>9. ASSUME NEW p \in Procs, Crash(p)  PROVE Goal
  <2>1. CASE lock = p
    BY <1>4, <1>9, <2>1 DEF Crash, pointers
  <2>2. CASE lock # p
    BY <1>1, <1>5, <1>9, <2>2 DEF Crash, Return, Goto, pointers
  <2> QED  BY <2>1, <2>2
<1>10. ASSUME NEW p \in Procs, CheckHighWater(p) \/ Stage(p) \/ RemoveInstalled(p) \/ RenameStaged(p)  PROVE Goal
  <2>1. CASE lock' = None
    BY <1>4, <1>10, <2>1 DEF CheckHighWater, Stage, RemoveInstalled, RenameStaged, pointers, history
  <2>2. CASE lock' # None
    <3>1. /\ UNCHANGED <<accepted, highest, current, previous, lock, arg, seen>>
          /\ pc[p] \in Writing /\ lock = p /\ pc' = [pc EXCEPT ![p] = pc'[p]]
          /\ {pc[p], pc'[p]} \cap {"previous", "current", "switch"} = {}
      BY <1>1, <1>10, <2>2
      DEF CheckHighWater, Stage, RemoveInstalled, RenameStaged, Goto, Unlock, Writing, pointers, history, holding
    <3> QED  BY <1>1, <1>5, <3>1
  <2> QED  BY <2>1, <2>2
<1>11. ASSUME NEW p \in Procs, WriteHighest(p)  PROVE Goal
  <2>1. pc[p] = "highest" /\ Pending = Change("nothing", 0) /\ lock = p /\ lock # None
    BY <1>11, PendingOfWriter DEF WriteHighest, Writing
  <2>2. CASE lock' = None
    BY <1>4, <1>11, <2>1, <2>2 DEF WriteHighest, Unlock, holding
  <2>3. CASE lock' # None
    <3>1. /\ highest' = Slot(p)
          /\ accepted' = [accepted EXCEPT ![Slot(p)] = IF @ = None THEN arg[p] ELSE @]
          /\ pc'[p] = "previous" /\ UNCHANGED <<current, previous, lock, arg, seen>>
      BY <1>1, <1>11, <2>3 DEF WriteHighest, Unlock, Goto, holding
    <3>2. arg[p] \in Bundles /\ Slot(p) \in Seqs /\ Slot(p) = SequenceOf[arg[p]]
      BY <1>1, <2>1, BundleAssumption DEF Writing, Slot
    <3>3. Slot(p) >= highest /\ (Slot(p) = highest => accepted[highest] = arg[p])
      BY <2>1 DEF StoreInv, InstallOK
    <3>4. accepted[Slot(p)] \in {None, arg[p]}
      BY <1>2, <3>2, <3>3 DEF StoreInv, HighWaterOK
    <3>5. accepted' = [accepted EXCEPT ![SequenceOf[arg[p]]] = arg[p]]
      BY <1>1, <3>1, <3>2, <3>4
    <3>6. Pending' = Change("accepted", Slot(p))
      BY <2>1, <3>1 DEF Pending, Slot
    <3>7. Ledger!Accept(arg[p])
      BY <2>1, <3>1, <3>2, <3>3, <3>4, <3>5, <3>6 DEF Ledger!Accept, Ledger!Nothing, Ledger!Change, Change
    <3> QED  BY <3>2, <3>7 DEF Ledger!Next
  <2> QED  BY <2>2, <2>3
<1>12. ASSUME NEW p \in Procs, WritePrevious(p)  PROVE Goal
  <2>1. /\ pc[p] = "previous" /\ Pending = Change("accepted", Slot(p)) /\ lock = p /\ lock # None
        /\ highest = Slot(p)
    BY <1>12, PendingOfWriter DEF WritePrevious, Writing, StoreInv, InstallOK
  <2>2. CASE lock' = None
    BY <1>4, <1>12, <2>1, <2>2 DEF WritePrevious, Unlock, holding
  <2>3. CASE lock' # None
    <3>1. /\ previous' \in {previous, IF current \notin {0, Slot(p)} THEN current ELSE previous}
          /\ pc'[p] = "current" /\ UNCHANGED <<accepted, highest, current, lock, arg, seen>>
      BY <1>1, <1>12, <2>3 DEF WritePrevious, Unlock, Goto, holding
    <3>2. Pending' = Change("remembered", Slot(p))
      BY <2>1, <3>1 DEF Pending, Slot
    <3>3. Ledger!Remember
      BY <2>1, <3>1, <3>2 DEF Ledger!Remember, Ledger!Change, Change
    <3> QED  BY <3>3 DEF Ledger!Next
  <2> QED  BY <2>2, <2>3
<1>13. ASSUME NEW p \in Procs, WriteCurrent(p)  PROVE Goal
  <2>1. /\ pc[p] = "current" /\ Pending = Change("remembered", Slot(p)) /\ highest = Slot(p)
        /\ accepted[highest] = arg[p] /\ arg[p] \in Bundles
    BY <1>13, PendingOfWriter DEF WriteCurrent, Writing, StoreInv, InstallOK, LocksOK
  <2>2. lock' = None /\ UNCHANGED <<accepted, highest, previous>>
    BY <1>13 DEF WriteCurrent, Unlock
  <2>3. CASE current' = current
    BY <1>4, <2>2, <2>3
  <2>4. CASE current' = Slot(p)
    <3>1. Ledger!Activate
      BY <1>3, <2>1, <2>2, <2>4, BundleAssumption DEF Ledger!Activate, Ledger!Change, Ledger!Nothing, Change
    <3> QED  BY <3>1 DEF Ledger!Next
  <2> QED  BY <1>13, <2>3, <2>4 DEF WriteCurrent
<1>14. ASSUME NEW p \in Procs, RollbackPrevious(p)  PROVE Goal
  <2>1. pc[p] = "swap" /\ Pending = Change("nothing", 0) /\ lock = p /\ lock # None
    BY <1>14, PendingOfWriter DEF RollbackPrevious, Writing
  <2>2. CASE lock' = None
    BY <1>4, <1>14, <2>1, <2>2 DEF RollbackPrevious, Unlock, holding
  <2>3. CASE lock' # None
    <3>1. previous' = current /\ pc'[p] = "switch" /\ UNCHANGED <<accepted, highest, current, lock, arg, seen>>
      BY <1>1, <1>14, <2>3 DEF RollbackPrevious, Unlock, Goto, holding
    <3>2. Pending' = Change("exchanged", previous)
      BY <2>1, <3>1 DEF Pending, SwapInv
    <3>3. Ledger!Exchange
      BY <2>1, <3>1, <3>2 DEF Ledger!Exchange, Ledger!Change, Ledger!Nothing, Change, SwapInv
    <3> QED  BY <3>3 DEF Ledger!Next
  <2> QED  BY <2>2, <2>3
<1>15. ASSUME NEW p \in Procs, RollbackCurrent(p)  PROVE Goal
  <2>1. pc[p] = "switch" /\ Pending = Change("exchanged", seen[p]) /\ accepted[seen[p]] # None
    BY <1>15, PendingOfWriter DEF RollbackCurrent, Writing, StoreInv, RollbackOK
  <2>2. lock' = None /\ UNCHANGED <<accepted, highest, previous>>
    BY <1>15 DEF RollbackCurrent, Unlock
  <2>3. CASE current' = current
    BY <1>4, <2>2, <2>3
  <2>4. CASE current' = seen[p]
    <3>1. Ledger!Activate
      BY <1>3, <2>1, <2>2, <2>4 DEF Ledger!Activate, Ledger!Change, Ledger!Nothing, Change
    <3> QED  BY <3>1 DEF Ledger!Next
  <2> QED  BY <1>15, <2>3, <2>4 DEF RollbackCurrent
<1> QED
  BY <1>6, <1>7, <1>8, <1>9, <1>10, <1>11, <1>12, <1>13, <1>14, <1>15 DEF Next, Running, Install, Rollback

(* Whatever commands run at once, fail or die, the store changes like a    *)
(* ledger, one change after the other (lifecycle.go:64-119, 148-157).      *)
THEOREM LedgerRefined == Spec => ImplementsLedger
<1>1. Init => SwapInv
  BY DEF Init, SwapInv
<1> QED
  BY <1>1, StoreInit, StoreStep, SwapStep, LedgerInit, LedgerStep, PTL DEF Spec, ImplementsLedger, Ledger!Spec

-----------------------------------------------------------------------------
(* Updates *)
InstallLabels == {"check", "stage", "remove", "rename", "highest", "previous", "current"}

(* The bundle was accepted for its sequence. *)
Took(b) == accepted[SequenceOf[b]] = b /\ SequenceOf[b] <= highest

(* What an update in progress knows. *)
ProgressOK(p) ==
    /\ upc[p] \in {"install", "wait"} => fetched[p] = offer[p]
    /\ upc[p] = "wait" =>
          /\ pc[p] \in InstallLabels \cup {"idle"}
          /\ pc[p] # "idle" => arg[p] = fetched[p]
          /\ pc[p] = "idle" /\ result[p] = "installed" => Took(fetched[p])
    /\ local[p] # 0 => accepted[local[p]] # None

(* What an update reported. *)
ReportOK(p) ==
    /\ out[p].bundle # None => Took(out[p].bundle)
    /\ out[p].status \in {"updated", "current"} =>
          out[p].bundle = offer[p] /\ offer[p] # None
    /\ upc[p] # "idle" => out[p] = NoResult

UpdateInv == UTypeOK /\ \A p \in Procs : ProgressOK(p) /\ ReportOK(p)

-----------------------------------------------------------------------------
(* Each step of an update is a step of the store or leaves it alone. *)
LEMMA UpdateIsStoreStep == UTypeOK /\ [UNext]_uvars => [Next]_vars
<1> SUFFICES ASSUME UTypeOK, [UNext]_uvars PROVE [Next]_vars
  OBVIOUS
<1>1. ASSUME NEW p \in Procs, StartUpdate(p) PROVE UNCHANGED vars
  BY <1>1 DEF StartUpdate
<1>2. ASSUME NEW p \in Procs, Updating(p) PROVE [Next]_vars
  <2>1. CASE CallInstall(p)
    <3>1. fetched[p] \in Bundles
      BY <2>1 DEF CallInstall, At, UTypeOK
    <3>2. CASE BeginInstall(p, fetched[p])
      BY <3>1, <3>2 DEF Next, Begin
    <3> QED
      BY <2>1, <3>2 DEF CallInstall
  <2> QED
    BY <1>2, <2>1
    DEF Updating, FetchManifest, LocalPointer, Compare, Download, InstallReturns,
        FailedPointer, Report
<1>3. ASSUME NEW p \in Procs, OnStore(p) PROVE Next
  BY <1>3 DEF OnStore, Next, Begin, Running
<1>4. ASSUME NEW p \in Procs, CrashUpdate(p) PROVE [Next]_vars
  BY <1>4 DEF CrashUpdate, Next
<1>5. CASE Tick
  BY <1>5 DEF Next
<1>6. CASE UNCHANGED uvars
  BY <1>6 DEF uvars
<1> QED
  BY <1>1, <1>2, <1>3, <1>4, <1>5, <1>6 DEF UNext

(* An install that returns installed has made its bundle the accepted one. *)
LEMMA InstallTook ==
    ASSUME StoreInv, NEW p \in Procs, Install(p), result'[p] = "installed", pc'[p] = "idle"
    PROVE  Took(arg[p])
<1>1. CASE WriteCurrent(p)
  <2>1. pc[p] = "current"
    BY <1>1 DEF WriteCurrent
  <2>2. highest = Slot(p) /\ accepted[highest] = arg[p]
    BY <2>1 DEF StoreInv, InstallOK
  <2>3. highest \in Nat
    BY DEF StoreInv, TypeOK, Seqs
  <2> QED
    BY <2>2, <2>3 DEF Took, Slot
<1>2. CASE ~WriteCurrent(p)
  <2>1. result \in [Procs -> Results] /\ pc \in [Procs -> Labels]
    BY DEF StoreInv, TypeOK
  <2> QED
    BY <1>2, <2>1
    DEF Install, CheckHighWater, Stage, RemoveInstalled, RenameStaged, WriteHighest,
        WritePrevious, Unlock, Return, Goto
<1> QED
  BY <1>1, <1>2

(* What was accepted stays accepted. *)
LEMMA TookStep ==
    ASSUME StoreInv, [Next]_vars
    PROVE  \A b \in Bundles :
              Took(b) => accepted'[SequenceOf[b]] = b /\ SequenceOf[b] <= highest'
<1> SUFFICES ASSUME NEW b \in Bundles, Took(b)
             PROVE  accepted'[SequenceOf[b]] = b /\ SequenceOf[b] <= highest'
  OBVIOUS
<1>1. SequenceOf[b] \in Seqs /\ b # None
  BY BundleAssumption
<1>2. accepted'[SequenceOf[b]] = b
  BY <1>1, AcceptedStep DEF Took
<1>3. highest \in Nat /\ highest' >= highest
  BY MarkStep DEF StoreInv, TypeOK, Seqs
<1>4. highest' \in Nat
  BY StoreStep DEF StoreInv, TypeOK, Seqs
<1>5. SequenceOf[b] \in Nat
  BY <1>1 DEF Seqs
<1> QED
  BY <1>2, <1>3, <1>4, <1>5 DEF Took

(* The bundle the local pointer leads to is the accepted one. *)
LEMMA LocalTook ==
    ASSUME StoreInv, NEW p \in Procs, ProgressOK(p), Stored(local[p])
    PROVE  versions[local[p]] \in Bundles /\ SequenceOf[versions[local[p]]] = local[p]
           /\ Took(versions[local[p]])
<1>1. local[p] \in Seqs /\ versions[local[p]] # None /\ SequenceOf[versions[local[p]]] = local[p]
  BY DEF Stored
<1>2. accepted[local[p]] # None
  BY <1>1 DEF ProgressOK, Seqs
<1>3. versions[local[p]] = accepted[local[p]] /\ local[p] <= highest
  BY <1>1, <1>2 DEF StoreInv, NoEquivocation, HighWaterOK
<1>4. versions[local[p]] \in Bundles
  BY <1>1 DEF StoreInv, TypeOK
<1> QED
  BY <1>1, <1>3, <1>4 DEF Took

(* A process whose update stands still knows what it knew. *)
LEMMA StandingStill ==
    ASSUME StoreInv, [Next]_vars, UTypeOK, NEW q \in Procs, ProgressOK(q), ReportOK(q),
           upc[q] = "wait" => pc'[q] = pc[q] /\ arg'[q] = arg[q] /\ result'[q] = result[q],
           upc'[q] = upc[q], offer'[q] = offer[q], fetched'[q] = fetched[q],
           local'[q] = local[q], out'[q] = out[q]
    PROVE  ProgressOK(q)' /\ ReportOK(q)'
<1>1. fetched[q] \in Bundles \cup {None} /\ local[q] \in Seqs \cup {0}
      /\ out[q].bundle \in Bundles \cup {None}
  BY DEF UTypeOK, Outcomes
<1>2. \A b \in Bundles : Took(b) => accepted'[SequenceOf[b]] = b /\ SequenceOf[b] <= highest'
  BY TookStep
<1>3. local[q] # 0 => accepted'[local[q]] # None
  <2>1. \A s \in Seqs : accepted[s] # None => accepted'[s] = accepted[s]
    BY AcceptedStep
  <2> QED
    BY <1>1, <2>1 DEF ProgressOK
<1>4. upc[q] = "wait" => fetched[q] \in Bundles
  BY <1>1 DEF UTypeOK
<1>5. ProgressOK(q)'
  BY <1>2, <1>3, <1>4 DEF ProgressOK, Took
<1>6. ReportOK(q)'
  BY <1>1, <1>2 DEF ReportOK, Took
<1> QED
  BY <1>5, <1>6

LEMMA UpdateInit == UInit => StoreInv /\ UpdateInv
<1> SUFFICES ASSUME UInit PROVE StoreInv /\ UpdateInv
  OBVIOUS
<1>1. StoreInv
  BY StoreInit DEF UInit
<1>2. UpdateInv
  BY DEF UInit, Init, UpdateInv, UTypeOK, ProgressOK, ReportOK, NoResult, Outcomes, Codes,
         UpdateLabels
<1> QED
  BY <1>1, <1>2

Statuses == {"none", "current", "updated", "degraded", "unavailable"}

LEMMA FinishTyped ==
    ASSUME UTypeOK, NEW p \in Procs, UNCHANGED offer,
           \E s \in Statuses, c \in Codes, b \in Bundles \cup {None} : Finish(p, s, c, b)
    PROVE  UTypeOK'
<1>1. PICK s \in Statuses, c \in Codes, b \in Bundles \cup {None} : Finish(p, s, c, b)
  OBVIOUS
<1>2. [status |-> s, code |-> c, bundle |-> b] \in Outcomes
  BY DEF Outcomes, Statuses
<1>3. out' \in [Procs -> Outcomes]
  BY <1>1, <1>2 DEF UTypeOK, Finish
<1> QED
  BY <1>1, <1>3 DEF UTypeOK, Finish, Proceed, UpdateLabels, Codes

LEMMA UpdateTypeStep == StoreInv /\ UpdateInv /\ [UNext]_uvars => UTypeOK'
<1> SUFFICES ASSUME StoreInv, UpdateInv, [UNext]_uvars PROVE UTypeOK'
  OBVIOUS
<1>c. current \in Seqs \cup {0}
  BY DEF StoreInv, TypeOK
<1>u. UTypeOK /\ \A p \in Procs : ProgressOK(p)
  BY DEF UpdateInv
<1> USE <1>u DEF UpdateLabels, Codes, Statuses, At, Proceed, GiveUp
<1>1. ASSUME NEW p \in Procs, StartUpdate(p) PROVE UTypeOK'
  BY <1>1 DEF StartUpdate, NoResult, Outcomes, UTypeOK
<1>2. ASSUME NEW p \in Procs, Updating(p) PROVE UTypeOK'
  <2>1. CASE FetchManifest(p)
    BY <2>1, BundleAssumption DEF FetchManifest, UTypeOK
  <2>2. CASE LocalPointer(p)
    BY <1>c, <2>2 DEF LocalPointer, UTypeOK
  <2>3. CASE Compare(p)
    <3>1. CASE Finish(p, "current", "none", offer[p])
      <4>1. offer[p] \in Bundles \cup {None}
        BY DEF UTypeOK
      <4> QED
        BY <2>3, <3>1, <4>1, FinishTyped DEF Compare
    <3>2. CASE GiveUp(p, "rejected") \/ Proceed(p, "download")
      BY <2>3, <3>2 DEF Compare, UTypeOK, Finish
    <3> QED
      BY <2>3, <3>1, <3>2 DEF Compare
  <2>4. CASE Download(p)
    BY <2>4, BundleAssumption DEF Download, UTypeOK
  <2>5. CASE CallInstall(p)
    BY <2>5 DEF CallInstall, UTypeOK
  <2>6. CASE InstallReturns(p)
    <3>1. CASE Finish(p, "updated", "none", fetched[p])
      <4>1. fetched[p] \in Bundles \cup {None}
        BY DEF UTypeOK
      <4> QED
        BY <2>6, <3>1, <4>1, FinishTyped DEF InstallReturns
    <3>2. CASE GiveUp(p, "rejected") \/ GiveUp(p, "failed")
      BY <2>6, <3>2 DEF InstallReturns, UTypeOK, Finish
    <3> QED
      BY <2>6, <3>1, <3>2 DEF InstallReturns
  <2>7. CASE FailedPointer(p)
    BY <1>c, <2>7 DEF FailedPointer, UTypeOK
  <2>8. CASE Report(p)
    <3>1. code[p] \in Codes
      BY DEF UTypeOK
    <3>2. CASE Stored(local[p])
      <4>1. versions[local[p]] \in Bundles
        BY <3>2, LocalTook
      <4> QED
        BY <2>8, <3>1, <3>2, <4>1, FinishTyped DEF Report
    <3>3. CASE ~Stored(local[p])
      BY <2>8, <3>1, <3>3, FinishTyped DEF Report
    <3> QED
      BY <3>2, <3>3
  <2> QED
    BY <1>2, <2>1, <2>2, <2>3, <2>4, <2>5, <2>6, <2>7, <2>8 DEF Updating
<1>3. ASSUME NEW p \in Procs, CrashUpdate(p) PROVE UTypeOK'
  BY <1>3, FinishTyped DEF CrashUpdate
<1>4. CASE UNCHANGED updates
  BY <1>4 DEF updates, UTypeOK
<1> QED
  BY <1>1, <1>2, <1>3, <1>4 DEF UNext, OnStore, uvars, updates

(* An update that returns reports the truth. *)
LEMMA FinishOK ==
    ASSUME UTypeOK, NEW p \in Procs, UNCHANGED offer,
           \E s \in Statuses, c \in Codes, b \in Bundles \cup {None} :
              /\ Finish(p, s, c, b)
              /\ b # None => Took(b) /\ UNCHANGED <<accepted, highest>>
              /\ s \in {"updated", "current"} => b = offer[p] /\ b # None
    PROVE  ProgressOK(p)' /\ ReportOK(p)'
<1>1. PICK s \in Statuses, c \in Codes, b \in Bundles \cup {None} :
          /\ Finish(p, s, c, b)
          /\ b # None => Took(b) /\ UNCHANGED <<accepted, highest>>
          /\ s \in {"updated", "current"} => b = offer[p] /\ b # None
  OBVIOUS
<1>2. upc'[p] = "idle" /\ local'[p] = 0
  BY <1>1 DEF Finish, Proceed, UTypeOK
<1>3. out'[p].bundle = b /\ out'[p].status = s
  BY <1>1 DEF Finish, UTypeOK
<1>4. ProgressOK(p)'
  BY <1>2 DEF ProgressOK
<1>5. ReportOK(p)'
  BY <1>1, <1>2, <1>3 DEF ReportOK, Took
<1> QED
  BY <1>4, <1>5

(* The install an update waits for. *)
LEMMA InstallKept ==
    ASSUME StoreInv, [Next]_vars, UTypeOK, NEW p \in Procs, ProgressOK(p), ReportOK(p),
           Install(p), UNCHANGED updates
    PROVE  ProgressOK(p)' /\ ReportOK(p)'
<1>1. CASE upc[p] # "wait"
  BY <1>1, StandingStill DEF updates
<1>2. CASE upc[p] = "wait"
  <2>1. pc \in [Procs -> Labels] /\ arg \in [Procs -> Bundles \cup {None}]
        /\ result \in [Procs -> Results]
    BY DEF StoreInv, TypeOK
  <2>2. pc[p] \in InstallLabels
    BY DEF Install, CheckHighWater, Stage, RemoveInstalled, RenameStaged, WriteHighest,
           WritePrevious, WriteCurrent, InstallLabels
  <2>3. arg[p] = fetched[p] /\ fetched[p] \in Bundles /\ fetched[p] = offer[p]
    BY <1>2, <2>2 DEF ProgressOK, UTypeOK, InstallLabels
  <2>4. pc'[p] = "idle" \/ (pc'[p] \in InstallLabels /\ arg'[p] = arg[p])
    <3> USE <2>1 DEF InstallLabels, Unlock, Return, Goto, holding
    <3>1. CASE CheckHighWater(p)
      BY <3>1 DEF CheckHighWater
    <3>2. CASE Stage(p)
      BY <3>2 DEF Stage
    <3>3. CASE RemoveInstalled(p)
      BY <3>3 DEF RemoveInstalled
    <3>4. CASE RenameStaged(p)
      BY <3>4 DEF RenameStaged
    <3>5. CASE WriteHighest(p)
      BY <3>5 DEF WriteHighest
    <3>6. CASE WritePrevious(p)
      BY <3>6 DEF WritePrevious
    <3>7. CASE WriteCurrent(p)
      BY <3>7 DEF WriteCurrent
    <3> QED
      BY <3>1, <3>2, <3>3, <3>4, <3>5, <3>6, <3>7 DEF Install
  <2>5. pc'[p] = "idle" /\ result'[p] = "installed" =>
           accepted'[SequenceOf[fetched[p]]] = fetched[p] /\ SequenceOf[fetched[p]] <= highest'
    BY <2>3, InstallTook, TookStep
  <2>6. local[p] # 0 => accepted'[local[p]] # None
    <3>1. \A s \in Seqs : accepted[s] # None => accepted'[s] = accepted[s]
      BY AcceptedStep
    <3>2. local[p] \in Seqs \cup {0}
      BY DEF UTypeOK
    <3> QED
      BY <3>1, <3>2 DEF ProgressOK
  <2>7. ProgressOK(p)'
    BY <2>3, <2>4, <2>5, <2>6 DEF ProgressOK, Took, updates, InstallLabels
  <2>8. ReportOK(p)'
    <3>1. out[p].bundle \in Bundles \cup {None}
      BY DEF UTypeOK, Outcomes
    <3> QED
      BY <3>1, TookStep DEF ReportOK, Took, updates
  <2> QED
    BY <2>7, <2>8
<1> QED
  BY <1>1, <1>2

(* A step of an update of its own. *)
LEMMA OwnStep ==
    ASSUME StoreInv, [Next]_vars, UTypeOK, NEW p \in Procs, ProgressOK(p), ReportOK(p),
           Updating(p)
    PROVE  ProgressOK(p)' /\ ReportOK(p)'
<1>c. current # 0 => accepted[current] # None
  BY DEF StoreInv, PointersAccepted, TypeOK
<1> USE DEF At, Proceed, GiveUp
<1>1. CASE FetchManifest(p)
  BY <1>1 DEF FetchManifest, ProgressOK, ReportOK, NoResult, UTypeOK, vars, history
<1>2. CASE LocalPointer(p)
  BY <1>c, <1>2 DEF LocalPointer, ProgressOK, ReportOK, NoResult, UTypeOK, vars, history, pointers
<1>3. CASE Compare(p)
  <2>1. CASE Finish(p, "current", "none", offer[p]) /\ LocalSequence(p) = SequenceOf[offer[p]]
             /\ versions[local[p]] = offer[p]
    <3>1. offer[p] \in Bundles
      BY <1>3 DEF Compare, UTypeOK
    <3>2. Stored(local[p])
      <4>1. SequenceOf[offer[p]] # 0
        BY <3>1, BundleAssumption DEF Seqs
      <4> QED
        BY <2>1, <4>1 DEF LocalSequence
    <3>3. Took(offer[p]) /\ offer[p] # None
      BY <2>1, <3>1, <3>2, LocalTook, BundleAssumption
    <3>4. UNCHANGED <<offer, accepted, highest>>
      BY <1>3 DEF Compare, vars, history, pointers
    <3> QED
      BY <2>1, <3>1, <3>3, <3>4, FinishOK DEF Statuses, Codes
  <2>2. CASE GiveUp(p, "rejected") \/ Proceed(p, "download")
    BY <1>3, <2>2 DEF Compare, Finish, ProgressOK, ReportOK, NoResult, UTypeOK, vars, history
  <2> QED
    BY <1>3, <2>1, <2>2 DEF Compare
<1>4. CASE Download(p)
  BY <1>4 DEF Download, ProgressOK, ReportOK, NoResult, UTypeOK, vars, history
<1>5. CASE CallInstall(p)
  <2>1. CASE BeginInstall(p, fetched[p])
    <3>1. pc'[p] = "check" /\ arg'[p] = fetched[p]
      BY <2>1 DEF BeginInstall, Goto, StoreInv, TypeOK
    <3> QED
      BY <1>5, <2>1, <3>1
      DEF CallInstall, BeginInstall, InstallLabels, ProgressOK, ReportOK, NoResult, UTypeOK,
          history
  <2>2. CASE GiveUp(p, "failed") /\ UNCHANGED vars
    BY <1>5, <2>2 DEF CallInstall, ProgressOK, ReportOK, NoResult, UTypeOK, vars, history
  <2> QED
    BY <1>5, <2>1, <2>2 DEF CallInstall
<1>6. CASE InstallReturns(p)
  <2>1. CASE result[p] = "installed" /\ Finish(p, "updated", "none", fetched[p])
    <3>1. fetched[p] \in Bundles /\ fetched[p] = offer[p] /\ Took(fetched[p])
      BY <1>6, <2>1 DEF InstallReturns, ProgressOK, UTypeOK
    <3>2. UNCHANGED <<offer, accepted, highest>>
      BY <1>6 DEF InstallReturns, vars, history, pointers
    <3> QED
      BY <2>1, <3>1, <3>2, FinishOK, BundleAssumption DEF Statuses, Codes
  <2>2. CASE GiveUp(p, "rejected") \/ GiveUp(p, "failed")
    BY <1>6, <2>2 DEF InstallReturns, Finish, ProgressOK, ReportOK, NoResult, UTypeOK, vars, history
  <2> QED
    BY <1>6, <2>1, <2>2 DEF InstallReturns
<1>7. CASE FailedPointer(p)
  BY <1>c, <1>7 DEF FailedPointer, ProgressOK, ReportOK, NoResult, UTypeOK, vars, history, pointers
<1>8. CASE Report(p)
  <2>1. UNCHANGED <<offer, accepted, highest>> /\ code[p] \in Codes
    BY <1>8 DEF Report, UTypeOK, vars, history, pointers
  <2>2. CASE Stored(local[p])
    <3>1. versions[local[p]] \in Bundles /\ Took(versions[local[p]])
      BY <2>2, LocalTook
    <3> QED
      BY <1>8, <2>1, <2>2, <3>1, FinishOK DEF Report, Statuses
  <2>3. CASE ~Stored(local[p])
    BY <1>8, <2>1, <2>3, FinishOK DEF Report, Statuses
  <2> QED
    BY <2>2, <2>3
<1> QED
  BY <1>1, <1>2, <1>3, <1>4, <1>5, <1>6, <1>7, <1>8 DEF Updating

LEMMA UpdateStep == StoreInv /\ UpdateInv /\ [UNext]_uvars => StoreInv' /\ UpdateInv'
<1> SUFFICES ASSUME StoreInv, UpdateInv, [UNext]_uvars PROVE StoreInv' /\ UpdateInv'
  OBVIOUS
<1>n. [Next]_vars /\ UTypeOK /\ \A r \in Procs : ProgressOK(r) /\ ReportOK(r)
  BY UpdateIsStoreStep DEF UpdateInv
<1>i. StoreInv'
  BY <1>n, StoreStep
<1>t. UTypeOK'
  BY UpdateTypeStep
<1>q. ASSUME NEW q \in Procs PROVE ProgressOK(q)' /\ ReportOK(q)'
  <2> USE <1>n
  <2> DEFINE Still ==
        /\ upc[q] = "wait" => pc'[q] = pc[q] /\ arg'[q] = arg[q] /\ result'[q] = result[q]
        /\ upc'[q] = upc[q] /\ offer'[q] = offer[q] /\ fetched'[q] = fetched[q]
        /\ local'[q] = local[q] /\ out'[q] = out[q]
  <2>s. Still => ProgressOK(q)' /\ ReportOK(q)'
    BY StandingStill
  <2>l. local[q] # 0 => accepted'[local[q]] # None
    <3>1. \A s \in Seqs : accepted[s] # None => accepted'[s] = accepted[s]
      BY AcceptedStep
    <3>2. local[q] \in Seqs \cup {0}
      BY DEF UTypeOK
    <3> QED
      BY <3>1, <3>2 DEF ProgressOK
  <2>d. /\ pc \in [Procs -> Labels] /\ arg \in [Procs -> Bundles \cup {None}]
        /\ result \in [Procs -> Results]
    BY DEF StoreInv, TypeOK
  <2>e. /\ upc \in [Procs -> UpdateLabels] /\ offer \in [Procs -> Bundles \cup {None}]
        /\ fetched \in [Procs -> Bundles \cup {None}] /\ local \in [Procs -> Seqs \cup {0}]
        /\ out \in [Procs -> Outcomes]
    BY DEF UTypeOK
  <2>1. ASSUME NEW p \in Procs, StartUpdate(p) PROVE ProgressOK(q)' /\ ReportOK(q)'
    <3>1. CASE p # q
      BY <2>s, <2>e, <2>1, <3>1 DEF StartUpdate, Proceed, vars, locals
    <3>2. CASE p = q
      BY <2>l, <2>1, <3>2
      DEF StartUpdate, Proceed, NoResult, ProgressOK, ReportOK, UTypeOK
    <3> QED
      BY <3>1, <3>2
  <2>2. ASSUME NEW p \in Procs, Updating(p) PROVE ProgressOK(q)' /\ ReportOK(q)'
    <3>1. CASE p # q
      BY <2>s, <2>d, <2>e, <2>2, <3>1
      DEF Updating, FetchManifest, LocalPointer, Compare, Download, CallInstall, InstallReturns,
          FailedPointer, Report, Finish, GiveUp, Proceed, BeginInstall, Goto, vars, locals
    <3>2. CASE p = q
      BY <2>2, <3>2, OwnStep
    <3> QED
      BY <3>1, <3>2
  <2>3. ASSUME NEW p \in Procs, OnStore(p) PROVE ProgressOK(q)' /\ ReportOK(q)'
    <3>1. CASE Install(p) /\ p = q
      BY <2>3, <3>1, InstallKept DEF OnStore
    <3>2. CASE p # q
      BY <2>s, <2>d, <2>3, <3>2 DEF OnStore, Install, Rollback, BeginRollback, CheckHighWater, Stage,
          RemoveInstalled, RenameStaged, WriteHighest, WritePrevious, WriteCurrent,
          RollbackPrevious, RollbackCurrent, Crash, Unlock, Return, Goto, holding, updates
    <3>3. CASE upc[q] # "wait"
      BY <2>s, <2>3, <3>3 DEF OnStore, updates
    <3>4. CASE p = q /\ upc[q] = "wait" /\ ~Install(p)
      <4>1. pc[p] \in {"swap", "switch"}
        BY <2>3, <3>4 DEF OnStore, Rollback, RollbackPrevious, RollbackCurrent
      <4> QED
        BY <3>4, <4>1 DEF ProgressOK, InstallLabels
    <3> QED
      BY <3>1, <3>2, <3>3, <3>4
  <2>4. ASSUME NEW p \in Procs, CrashUpdate(p) PROVE ProgressOK(q)' /\ ReportOK(q)'
    <3>1. CASE p # q
      BY <2>s, <2>d, <2>e, <2>4, <3>1 DEF CrashUpdate, Finish, Proceed, Crash, Return, Goto, vars, locals
    <3>2. CASE p = q
      BY <2>4, <3>2, FinishOK DEF CrashUpdate, Statuses, Codes
    <3> QED
      BY <3>1, <3>2
  <2>5. CASE Tick /\ UNCHANGED updates
    BY <2>s, <2>5 DEF Tick, locals, updates
  <2>6. CASE UNCHANGED uvars
    BY <2>s, <2>6 DEF uvars, vars, locals, updates
  <2> QED
    BY <2>1, <2>2, <2>3, <2>4, <2>5, <2>6 DEF UNext
<1> QED
  BY <1>i, <1>t, <1>q DEF UpdateInv

-----------------------------------------------------------------------------
(* The variables of the updates keep their types. *)
THEOREM UpdateTypeCorrect == USpec => []UTypeOK
<1>1. UpdateInv => UTypeOK
  BY DEF UpdateInv
<1> QED
  BY <1>1, UpdateInit, UpdateStep, PTL DEF USpec

(* Updates, alone or several at once, do to the store only what Bundle     *)
(* allows (update.go:152): all that is proved of Bundle holds of them.     *)
THEOREM UpdatesKeepStore == USpec => Spec
<1>1. UInit => Init
  BY DEF UInit
<1>2. UpdateInv /\ [UNext]_uvars => [Next]_vars
  BY UpdateIsStoreStep DEF UpdateInv
<1> QED
  BY <1>1, <1>2, UpdateInit, UpdateStep, PTL DEF USpec, Spec

(* A result names only bundles that were accepted for their sequence       *)
(* (update.go:96-105, 124-147, 190-201).                                   *)
THEOREM ReportsTrue == USpec => []ReportsAccepted
<1>1. UpdateInv => ReportsAccepted
  BY DEF UpdateInv, ReportOK, ReportsAccepted, Took
<1> QED
  BY <1>1, UpdateInit, UpdateStep, PTL DEF USpec

(* Updated and current mean the very bundle the manifest named             *)
(* (update.go:101-103, 124, 142, 162).                                     *)
THEOREM OfferedReported == USpec => []ReportsOffered
<1>1. UpdateInv => ReportsOffered
  BY DEF UpdateInv, ReportOK, ReportsOffered, Took
<1> QED
  BY <1>1, UpdateInit, UpdateStep, PTL DEF USpec

(* The two together (update.go:96-105, 124-147, 190-201).                  *)
THEOREM ReportsAgree == USpec => []ReportsSound
<1>1. ReportsAccepted /\ ReportsOffered => ReportsSound
  BY DEF ReportsSound
<1> QED
  BY <1>1, ReportsTrue, OfferedReported, PTL

-----------------------------------------------------------------------------
(* Why an update was refused stays true. *)

(* An accepted bundle is away only while its directory is swapped, or      *)
(* after that swap was interrupted.                                        *)
GapInv ==
    \A s \in Seqs : accepted[s] # None /\ versions[s] = None =>
        s \in torn \/ \E p \in Procs : pc[p] = "rename" /\ Slot(p) = s

(* The swap of s was interrupted, and nobody is about to repair it. *)
Swapping == {"stage", "remove", "rename", "highest"}

Interrupted(s) ==
    /\ s \in torn
    /\ versions[s] = None
    /\ s <= highest
    /\ \A q \in Procs : pc[q] \in Swapping => Slot(q) # s

Reason(b) ==
    \/ SequenceOf[b] < highest
    \/ accepted[SequenceOf[b]] \notin {None, b}
    \/ now > ValidUntil[b]
    \/ Interrupted(SequenceOf[b])

RejectOK(p) ==
    /\ upc[p] \in {"pointer", "compare", "download", "install", "wait"} => ValidFrom[offer[p]] <= now
    /\ upc[p] \notin {"failed", "report"} => code[p] = "none"
    /\ upc[p] = "wait" /\ pc[p] = "idle" /\ result[p] = "rollback" => Reason(offer[p])
    /\ code[p] = "rejected" \/ out[p].code = "rejected" => offer[p] \in Bundles /\ Reason(offer[p])

RejectInv == GapInv /\ \A p \in Procs : RejectOK(p)

LEMMA GapStep == StoreInv /\ GapInv /\ [Next]_vars => GapInv'
<1> SUFFICES ASSUME StoreInv, GapInv, [Next]_vars, NEW s \in Seqs,
                    accepted'[s] # None, versions'[s] = None
             PROVE  s \in torn' \/ \E p \in Procs : pc'[p] = "rename" /\ Slot(p)' = s
  BY DEF GapInv
<1>t. /\ TypeOK /\ LocksOK /\ InstallOK
      /\ None \notin Bundles /\ None \notin Procs
  BY BundleAssumption DEF StoreInv
<1>1. CASE UNCHANGED <<accepted, versions, torn, pc, arg>>
  BY <1>1 DEF GapInv, Slot
<1>2. ASSUME NEW p \in Procs, RemoveInstalled(p)
      PROVE  s \in torn' \/ \E q \in Procs : pc'[q] = "rename" /\ Slot(q)' = s
  <2>1. accepted' = accepted /\ pc[p] = "remove"
    BY <1>2 DEF RemoveInstalled
  <2>2. CASE versions[s] = None
    <3>1. ~\E q \in Procs : pc[q] = "rename"
      BY <1>t, <2>1 DEF LocksOK, Writing
    <3>2. s \in torn
      BY <2>1, <2>2, <3>1 DEF GapInv
    <3> QED
      BY <1>2, <3>2 DEF RemoveInstalled
  <2>3. CASE versions[s] # None
    <3>1. s = Slot(p)
      BY <1>t, <1>2, <2>3 DEF RemoveInstalled, TypeOK
    <3> QED
      BY <1>t, <1>2, <3>1 DEF RemoveInstalled, Goto, TypeOK, Slot, holding
  <2> QED
    BY <2>2, <2>3
<1>3. ASSUME NEW p \in Procs, RenameStaged(p)
      PROVE  s \in torn' \/ \E q \in Procs : pc'[q] = "rename" /\ Slot(q)' = s
  <2>1. accepted' = accepted /\ pc[p] = "rename" /\ staging[Slot(p)] = arg[p] /\ arg[p] \in Bundles
    BY <1>t, <1>3 DEF RenameStaged, InstallOK, LocksOK, Writing
  <2>2. \A q \in Procs : pc[q] = "rename" => q = p
    BY <1>t, <2>1 DEF LocksOK, Writing
  <2>3. CASE versions[s] = None
    <3>1. s \in torn \/ s = Slot(p)
      BY <2>1, <2>2, <2>3 DEF GapInv
    <3>2. CASE torn' = torn \cup {Slot(p)}
      BY <3>1, <3>2
    <3>3. CASE torn' # torn \cup {Slot(p)}
      <4>1. versions' = [versions EXCEPT ![Slot(p)] = staging[Slot(p)]] /\ torn' = torn \ {Slot(p)}
        BY <1>3, <3>3 DEF RenameStaged
      <4>2. s # Slot(p)
        BY <1>t, <2>1, <4>1 DEF TypeOK
      <4> QED
        BY <3>1, <4>1, <4>2
    <3> QED
      BY <3>2, <3>3
  <2>4. CASE versions[s] # None
    BY <1>t, <1>3, <2>1, <2>4 DEF RenameStaged, TypeOK
  <2> QED
    BY <2>3, <2>4
<1>4. ASSUME NEW p \in Procs, WriteHighest(p)
      PROVE  s \in torn' \/ \E q \in Procs : pc'[q] = "rename" /\ Slot(q)' = s
  <2>1. versions' = versions /\ torn' = torn /\ pc[p] = "highest" /\ versions[Slot(p)] = arg[p]
        /\ arg[p] \in Bundles
    BY <1>t, <1>4 DEF WriteHighest, files, InstallOK, LocksOK, Writing
  <2>2. s # Slot(p)
    BY <1>t, <2>1
  <2>3. accepted[s] # None
    BY <1>t, <1>4, <2>2 DEF WriteHighest, TypeOK
  <2>4. ~\E q \in Procs : pc[q] = "rename"
    BY <1>t, <2>1 DEF LocksOK, Writing
  <2> QED
    BY <2>1, <2>3, <2>4 DEF GapInv
<1>5. ASSUME NEW p \in Procs, Crash(p)
      PROVE  s \in torn' \/ \E q \in Procs : pc'[q] = "rename" /\ Slot(q)' = s
  <2>1. accepted' = accepted /\ versions' = versions /\ torn \subseteq torn'
    BY <1>5 DEF Crash, files
  <2>2. CASE s \in torn
    BY <2>1, <2>2
  <2>3. CASE s \notin torn
    <3>1. PICK q \in Procs : pc[q] = "rename" /\ Slot(q) = s
      BY <2>1, <2>3 DEF GapInv
    <3>2. CASE q = p
      BY <1>5, <3>1, <3>2 DEF Crash
    <3>3. CASE q # p
      BY <1>t, <1>5, <3>1, <3>3 DEF Crash, Return, Goto, TypeOK, Slot
    <3> QED
      BY <3>2, <3>3
  <2> QED
    BY <2>2, <2>3
<1>6. ASSUME NEW p \in Procs,
             \/ Begin(p) \/ Rollback(p) \/ Read(p)
             \/ CheckHighWater(p) \/ Stage(p) \/ WritePrevious(p) \/ WriteCurrent(p)
      PROVE  s \in torn' \/ \E q \in Procs : pc'[q] = "rename" /\ Slot(q)' = s
  <2>1. UNCHANGED <<accepted, versions, torn>> /\ pc[p] # "rename"
        /\ \A q \in Procs \ {p} : pc'[q] = pc[q] /\ arg'[q] = arg[q]
    BY <1>t, <1>6
    DEF Begin, Rollback, Read, BeginInstall, BeginRollback, ReadPointer, CheckHighWater, Stage,
        WritePrevious, WriteCurrent, RollbackPrevious, RollbackCurrent, ReadStatus, ReadActive,
        Unlock, Return, Goto, holding, files, history, TypeOK
  <2> QED
    BY <2>1 DEF GapInv, Slot
<1>7. CASE Tick
  BY <1>1, <1>7 DEF Tick, files, history, locals
<1>8. CASE UNCHANGED vars
  BY <1>1, <1>8 DEF vars, files, history, locals
<1> QED
  BY <1>2, <1>3, <1>4, <1>5, <1>6, <1>7, <1>8 DEF Next, Running, Install

(* The clock goes forward. *)
LEMMA ClockStep ==
    ASSUME StoreInv, [Next]_vars
    PROVE  now \in Nat /\ now' \in Nat /\ now' >= now
<1>1. now \in Nat
  BY BundleAssumption DEF StoreInv, TypeOK, Times
<1>2. now' \in {now, now + 1}
  BY DEF Next, Begin, Running, Install, Rollback, Read, BeginInstall, BeginRollback, ReadPointer,
         CheckHighWater, Stage, RemoveInstalled, RenameStaged, WriteHighest, WritePrevious,
         WriteCurrent, RollbackPrevious, RollbackCurrent, ReadStatus, ReadActive, Crash, Tick, vars
<1> QED
  BY <1>1, <1>2

(* Nobody repairs an interrupted swap: an install of that sequence is      *)
(* refused, since the version it would be compared with is gone.           *)
LEMMA InterruptedStep ==
    ASSUME StoreInv, [Next]_vars, NEW s \in Seqs, Interrupted(s)
    PROVE  Interrupted(s)'
<1>t. /\ TypeOK /\ LocksOK /\ None \notin Bundles
      /\ highest \in Nat /\ s \in Nat /\ highest' \in Nat /\ highest' >= highest
  BY BundleAssumption, MarkStep, StoreStep DEF StoreInv, TypeOK, Seqs
<1>h. s <= highest'
  BY <1>t DEF Interrupted
<1> SUFFICES s \in torn' /\ versions'[s] = None /\ \A q \in Procs : pc'[q] \in Swapping => Slot(q)' # s
  BY <1>h DEF Interrupted
<1>i. s \in torn /\ versions[s] = None /\ \A q \in Procs : pc[q] \in Swapping => Slot(q) # s
  BY DEF Interrupted
<1>1. CASE UNCHANGED <<versions, torn, pc, arg>>
  BY <1>i, <1>1 DEF Slot
<1>2. ASSUME NEW p \in Procs, CheckHighWater(p)
      PROVE  s \in torn' /\ versions'[s] = None
             /\ \A q \in Procs : pc'[q] \in Swapping => Slot(q)' # s
  <2>1. UNCHANGED <<versions, torn>> /\ pc[p] = "check" /\ arg[p] \in Bundles
        /\ \A q \in Procs \ {p} : pc'[q] = pc[q] /\ arg'[q] = arg[q]
    BY <1>t, <1>2 DEF CheckHighWater, files, history, holding, Goto, Unlock, Return, TypeOK,
                      LocksOK, Writing
  <2>2. pc'[p] \in Swapping => Slot(p)' # s
    <3>1. CASE pc'[p] = "idle"
      BY <3>1 DEF Swapping
    <3>2. CASE pc'[p] # "idle"
      <4>1. Slot(p) > highest \/ versions[Slot(p)] = arg[p]
        BY <1>t, <1>2, <3>2 DEF CheckHighWater, Unlock, Return, Goto, TypeOK
      <4>2. Slot(p) # s
        BY <1>t, <1>i, <2>1, <4>1 DEF Interrupted
      <4>3. arg' = arg
        BY <1>t, <1>2, <3>2 DEF CheckHighWater, Unlock, Return, Goto, TypeOK, holding
      <4> QED
        BY <4>2, <4>3 DEF Slot
    <3> QED
      BY <3>1, <3>2
  <2> QED
    BY <1>i, <2>1, <2>2 DEF Slot
<1>3. ASSUME NEW p \in Procs,
             Stage(p) \/ RemoveInstalled(p) \/ RenameStaged(p) \/ WriteHighest(p)
      PROVE  s \in torn' /\ versions'[s] = None
             /\ \A q \in Procs : pc'[q] \in Swapping => Slot(q)' # s
  <2>1. pc[p] \in Swapping /\ Slot(p) # s /\ Slot(p) \in Seqs
    BY <1>t, <1>i, <1>3, BundleAssumption
    DEF Stage, RemoveInstalled, RenameStaged, WriteHighest, Swapping, LocksOK, Writing, Slot
  <2>2. s \in torn' /\ versions'[s] = None
    BY <1>t, <1>i, <1>3, <2>1
    DEF Stage, RemoveInstalled, RenameStaged, WriteHighest, files, history, TypeOK
  <2>3. \A q \in Procs \ {p} : pc'[q] = pc[q] /\ arg'[q] = arg[q]
    BY <1>t, <1>3
    DEF Stage, RemoveInstalled, RenameStaged, WriteHighest, Unlock, Return, Goto, holding, TypeOK
  <2>4. pc'[p] = "idle" \/ arg'[p] = arg[p]
    BY <1>t, <1>3
    DEF Stage, RemoveInstalled, RenameStaged, WriteHighest, Unlock, Return, Goto, holding, TypeOK
  <2> QED
    BY <1>i, <2>1, <2>2, <2>3, <2>4 DEF Slot, Swapping
<1>4. ASSUME NEW p \in Procs,
             Begin(p) \/ Rollback(p) \/ Read(p) \/ WritePrevious(p) \/ WriteCurrent(p) \/ Crash(p)
      PROVE  s \in torn' /\ versions'[s] = None
             /\ \A q \in Procs : pc'[q] \in Swapping => Slot(q)' # s
  <2>1. versions' = versions /\ torn \subseteq torn' /\ pc'[p] \notin Swapping
        /\ \A q \in Procs \ {p} : pc'[q] = pc[q] /\ arg'[q] = arg[q]
    BY <1>t, <1>4
    DEF Begin, Rollback, Read, BeginInstall, BeginRollback, ReadPointer,
        WritePrevious, WriteCurrent, RollbackPrevious, RollbackCurrent, ReadStatus, ReadActive, Crash,
        Unlock, Return, Goto, holding, files, history, TypeOK, Swapping
  <2> QED
    BY <1>i, <2>1 DEF Slot
<1>5. CASE Tick
  BY <1>1, <1>5 DEF Tick, files, history, locals
<1>6. CASE UNCHANGED vars
  BY <1>1, <1>6 DEF vars, files, history, locals
<1> QED
  BY <1>2, <1>3, <1>4, <1>5, <1>6 DEF Next, Running, Install

(* A reason stays a reason. *)
LEMMA ReasonStep ==
    ASSUME StoreInv, [Next]_vars, NEW b \in Bundles, Reason(b)
    PROVE  Reason(b)'
<1>t. /\ SequenceOf[b] \in Seqs /\ SequenceOf[b] \in Nat /\ ValidUntil[b] \in Nat
      /\ highest \in Nat /\ highest' \in Nat
  BY BundleAssumption, StoreStep DEF StoreInv, TypeOK, Seqs, Times
<1>1. CASE SequenceOf[b] < highest
  BY <1>t, <1>1, MarkStep DEF Reason
<1>2. CASE accepted[SequenceOf[b]] \notin {None, b}
  BY <1>t, <1>2, AcceptedStep DEF Reason
<1>3. CASE now > ValidUntil[b]
  BY <1>t, <1>3, ClockStep DEF Reason
<1>4. CASE Interrupted(SequenceOf[b])
  BY <1>t, <1>4, InterruptedStep DEF Reason
<1> QED
  BY <1>1, <1>2, <1>3, <1>4 DEF Reason

(* An install is refused for a reason that lasts. *)
LEMMA RefusalReason ==
    ASSUME StoreInv, GapInv, [Next]_vars, NEW p \in Procs, CheckHighWater(p), pc'[p] = "idle",
           ValidFrom[arg[p]] <= now
    PROVE  Reason(arg[p])
<1>a. TypeOK /\ LocksOK /\ HighWaterOK /\ NoEquivocation /\ pc[p] = "check"
  BY DEF StoreInv, CheckHighWater
<1>b. arg[p] \in Bundles /\ lock = p
  BY <1>a DEF LocksOK, Writing
<1>t. /\ Slot(p) \in Seqs /\ Slot(p) \in Nat /\ highest \in Nat /\ now \in Nat
      /\ ValidUntil[arg[p]] \in Nat /\ ValidFrom[arg[p]] \in Nat /\ None \notin Bundles
  BY <1>a, <1>b, BundleAssumption DEF TypeOK, Slot, Seqs, Times
<1> USE <1>a, <1>b
<1>1. \/ Slot(p) < highest
      \/ Slot(p) = highest /\ versions[Slot(p)] # arg[p]
      \/ ~Valid(arg[p])
  BY <1>t DEF CheckHighWater, Goto, TypeOK
<1>2. CASE Slot(p) < highest
  BY <1>2 DEF Reason, Slot
<1>3. CASE Slot(p) = highest /\ versions[Slot(p)] # arg[p]
  <2>1. accepted[Slot(p)] # None
    BY <1>t, <1>3 DEF HighWaterOK, Seqs
  <2>2. CASE versions[Slot(p)] # None
    BY <1>t, <1>3, <2>1, <2>2 DEF NoEquivocation, Reason, Slot
  <2>3. CASE versions[Slot(p)] = None
    <3>1. \A q \in Procs : pc[q] \notin Swapping
      BY <1>t DEF LocksOK, Writing, Swapping
    <3>2. Slot(p) \in torn
      BY <1>t, <2>1, <2>3, <3>1 DEF GapInv, Swapping
    <3>3. Interrupted(Slot(p))
      BY <1>t, <1>3, <2>3, <3>1, <3>2 DEF Interrupted
    <3> QED
      BY <3>3 DEF Reason, Slot
  <2> QED
    BY <2>2, <2>3
<1>4. CASE ~Valid(arg[p])
  BY <1>t, <1>4 DEF Valid, Reason
<1> QED
  BY <1>1, <1>2, <1>3, <1>4

(* So is a manifest that is compared with the local bundle. *)
LEMMA ComparisonReason ==
    ASSUME StoreInv, UTypeOK, NEW p \in Procs, ProgressOK(p), Compare(p), code'[p] = "rejected",
           code[p] = "none"
    PROVE  Reason(offer[p])
<1>t. /\ TypeOK /\ NoEquivocation /\ None \notin Bundles
      /\ offer[p] \in Bundles /\ SequenceOf[offer[p]] \in Seqs /\ SequenceOf[offer[p]] \in Nat
      /\ 0 \notin Seqs /\ highest \in Nat
  BY BundleAssumption DEF StoreInv, TypeOK, Compare, At, UTypeOK, Seqs
<1>1. \/ LocalSequence(p) > SequenceOf[offer[p]]
      \/ LocalSequence(p) = SequenceOf[offer[p]] /\ versions[local[p]] # offer[p]
  BY DEF Compare, GiveUp, Finish, UTypeOK, Codes
<1>2. Stored(local[p]) /\ LocalSequence(p) = local[p] /\ local[p] \in Nat
  BY <1>t, <1>1 DEF LocalSequence, UTypeOK, Seqs
<1>3. Took(versions[local[p]]) /\ SequenceOf[versions[local[p]]] = local[p]
      /\ versions[local[p]] \in Bundles
  BY <1>2, LocalTook
<1>4. CASE local[p] > SequenceOf[offer[p]]
  BY <1>t, <1>2, <1>3, <1>4 DEF Took, Reason
<1>5. CASE local[p] = SequenceOf[offer[p]] /\ versions[local[p]] # offer[p]
  BY <1>t, <1>3, <1>5 DEF Took, Reason
<1> QED
  BY <1>1, <1>2, <1>4, <1>5

(* A process whose update stands still keeps its reasons. *)
LEMMA ReasonsKept ==
    ASSUME StoreInv, [Next]_vars, UTypeOK, NEW q \in Procs, RejectOK(q),
           upc[q] = "wait" /\ pc'[q] = "idle" /\ result'[q] = "rollback" =>
              (pc[q] = "idle" /\ result[q] = "rollback") \/ Reason(offer[q])',
           upc'[q] = upc[q], offer'[q] = offer[q], code'[q] = code[q], out'[q] = out[q]
    PROVE  RejectOK(q)'
<1>1. offer[q] \in Bundles => ValidFrom[offer[q]] \in Nat
  BY BundleAssumption DEF Times
<1>2. upc[q] \in {"pointer", "compare", "download", "install", "wait"} => offer[q] \in Bundles
  BY DEF UTypeOK
<1>3. offer[q] \in Bundles /\ Reason(offer[q]) => Reason(offer[q])'
  <2> SUFFICES ASSUME offer[q] \in Bundles, Reason(offer[q]) PROVE Reason(offer[q])'
    OBVIOUS
  <2>1. PICK b \in Bundles : b = offer[q] /\ b = offer'[q] /\ Reason(b)
    OBVIOUS
  <2>2. Reason(b)'
    BY <2>1, ReasonStep
  <2> QED
    BY <2>1, <2>2 DEF Reason
<1>4. now \in Nat /\ now' \in Nat /\ now' >= now
  BY ClockStep
<1>5. upc[q] \in {"pointer", "compare", "download", "install", "wait"} => ValidFrom[offer[q]] <= now'
  BY <1>1, <1>2, <1>4 DEF RejectOK
<1> QED
  BY <1>2, <1>3, <1>5 DEF RejectOK

(* A step of an update of its own. *)
LEMMA OwnReasons ==
    ASSUME StoreInv, UTypeOK, NEW p \in Procs, ProgressOK(p), ReportOK(p), RejectOK(p), Updating(p)
    PROVE  RejectOK(p)'
<1>t. /\ upc \in [Procs -> UpdateLabels] /\ code \in [Procs -> Codes] /\ out \in [Procs -> Outcomes]
      /\ offer \in [Procs -> Bundles \cup {None}] /\ pc \in [Procs -> Labels]
  BY DEF UTypeOK, StoreInv, TypeOK
<1>o. out[p].code = "none"
  BY DEF ReportOK, NoResult, Updating, FetchManifest, LocalPointer, Compare, Download, CallInstall,
         InstallReturns, FailedPointer, Report, At
<1>s. ASSUME UNCHANGED vars PROVE \A b \in Bundles : Reason(b) => Reason(b)'
  BY <1>s DEF vars, files, pointers, locals, history, Reason, Interrupted, Slot
<1> USE <1>t, <1>o DEF At, Proceed, GiveUp, Finish
<1>1. CASE FetchManifest(p)
  BY <1>1 DEF FetchManifest, RejectOK, Valid, vars
<1>2. CASE LocalPointer(p)
  BY <1>2 DEF LocalPointer, RejectOK, vars
<1>3. CASE Compare(p)
  <2>1. CASE code'[p] = "rejected"
    <3>1. code[p] = "none" /\ offer[p] \in Bundles /\ upc'[p] = "failed"
      BY <1>3, <2>1 DEF Compare, RejectOK, UTypeOK
    <3>2. Reason(offer[p])
      BY <1>3, <2>1, <3>1, ComparisonReason
    <3> QED
      BY <1>3, <1>s, <3>1, <3>2 DEF Compare, RejectOK, Reason, Interrupted, Slot, vars, files,
                                    pointers, locals, history
  <2>2. CASE code'[p] # "rejected"
    BY <1>3, <2>2 DEF Compare, RejectOK, vars
  <2> QED
    BY <2>1, <2>2
<1>4. CASE Download(p)
  BY <1>4 DEF Download, RejectOK, vars
<1>5. CASE CallInstall(p)
  BY <1>5 DEF CallInstall, BeginInstall, Goto, RejectOK, vars
<1>6. CASE InstallReturns(p)
  <2>1. CASE code'[p] = "rejected"
    <3>1. offer[p] \in Bundles /\ Reason(offer[p]) /\ upc'[p] = "failed"
      BY <1>6, <2>1 DEF InstallReturns, RejectOK, UTypeOK
    <3> QED
      BY <1>6, <3>1 DEF InstallReturns, RejectOK, Reason, Interrupted, Slot, vars, files,
                        pointers, locals, history
  <2>2. CASE code'[p] # "rejected"
    BY <1>6, <2>2 DEF InstallReturns, RejectOK, vars
  <2> QED
    BY <2>1, <2>2
<1>7. CASE FailedPointer(p)
  BY <1>7 DEF FailedPointer, RejectOK, Reason, Interrupted, Slot, vars, files, pointers, locals,
              history
<1>8. CASE Report(p)
  <2>1. out'[p].code = code[p] /\ code'[p] = "none" /\ upc'[p] = "idle" /\ offer' = offer
    BY <1>8 DEF Report
  <2>2. code[p] = "rejected" => offer[p] \in Bundles /\ Reason(offer[p])
    BY DEF RejectOK
  <2> QED
    BY <1>8, <2>1, <2>2 DEF Report, RejectOK, Reason, Interrupted, Slot, vars, files, pointers,
                            locals, history
<1> QED
  BY <1>1, <1>2, <1>3, <1>4, <1>5, <1>6, <1>7, <1>8 DEF Updating

(* The install an update waits for. *)
LEMMA InstallReasons ==
    ASSUME StoreInv, GapInv, [Next]_vars, UTypeOK, NEW p \in Procs, ProgressOK(p), RejectOK(p),
           Install(p), UNCHANGED updates
    PROVE  RejectOK(p)'
<1>t. result \in [Procs -> Results] /\ pc \in [Procs -> Labels]
  BY DEF StoreInv, TypeOK
<1> SUFFICES ASSUME upc[p] = "wait", pc'[p] = "idle", result'[p] = "rollback"
             PROVE  (pc[p] = "idle" /\ result[p] = "rollback") \/ Reason(offer[p])'
  BY ReasonsKept DEF updates
<1>1. CheckHighWater(p)
  BY <1>t DEF Install, Stage, RemoveInstalled, RenameStaged, WriteHighest, WritePrevious,
              WriteCurrent, Unlock, Return, Goto
<1>2. arg[p] = offer[p] /\ offer[p] \in Bundles /\ ValidFrom[arg[p]] <= now
  BY <1>1 DEF CheckHighWater, ProgressOK, RejectOK, UTypeOK
<1>3. PICK b \in Bundles : b = offer[p] /\ b = offer'[p] /\ Reason(b)
  BY <1>1, <1>2, RefusalReason DEF updates
<1>4. Reason(b)'
  BY <1>3, ReasonStep
<1> QED
  BY <1>3, <1>4 DEF Reason

LEMMA RejectStep == StoreInv /\ UpdateInv /\ RejectInv /\ [UNext]_uvars => RejectInv'
<1> SUFFICES ASSUME StoreInv, UpdateInv, RejectInv, [UNext]_uvars PROVE RejectInv'
  OBVIOUS
<1>n. [Next]_vars /\ UTypeOK /\ GapInv /\ \A r \in Procs : ProgressOK(r) /\ ReportOK(r) /\ RejectOK(r)
  BY UpdateIsStoreStep DEF UpdateInv, RejectInv
<1>g. GapInv'
  BY <1>n, GapStep
<1>q. ASSUME NEW q \in Procs PROVE RejectOK(q)'
  <2> USE <1>n
  <2> DEFINE Still ==
        /\ upc[q] = "wait" => pc'[q] = pc[q] /\ result'[q] = result[q]
        /\ upc'[q] = upc[q] /\ offer'[q] = offer[q] /\ code'[q] = code[q] /\ out'[q] = out[q]
  <2>s. Still => RejectOK(q)'
    BY ReasonsKept
  <2>d. /\ pc \in [Procs -> Labels] /\ result \in [Procs -> Results]
        /\ upc \in [Procs -> UpdateLabels] /\ offer \in [Procs -> Bundles \cup {None}]
        /\ code \in [Procs -> Codes] /\ out \in [Procs -> Outcomes]
    BY DEF StoreInv, TypeOK, UTypeOK
  <2>1. ASSUME NEW p \in Procs, StartUpdate(p) PROVE RejectOK(q)'
    <3>1. CASE p # q
      BY <2>s, <2>d, <2>1, <3>1 DEF StartUpdate, Proceed, vars, locals
    <3>2. CASE p = q
      BY <2>d, <2>1, <3>2 DEF StartUpdate, At, Proceed, NoResult, RejectOK
    <3> QED
      BY <3>1, <3>2
  <2>2. ASSUME NEW p \in Procs, Updating(p) PROVE RejectOK(q)'
    <3>1. CASE p # q
      BY <2>s, <2>d, <2>2, <3>1
      DEF Updating, FetchManifest, LocalPointer, Compare, Download, CallInstall, InstallReturns,
          FailedPointer, Report, Finish, GiveUp, Proceed, BeginInstall, Goto, vars, locals
    <3>2. CASE p = q
      BY <2>2, <3>2, OwnReasons
    <3> QED
      BY <3>1, <3>2
  <2>3. ASSUME NEW p \in Procs, OnStore(p) PROVE RejectOK(q)'
    <3>1. CASE Install(p) /\ p = q
      BY <2>3, <3>1, InstallReasons DEF OnStore
    <3>2. CASE p # q
      BY <2>s, <2>d, <2>3, <3>2 DEF OnStore, Install, Rollback, BeginRollback, CheckHighWater, Stage,
          RemoveInstalled, RenameStaged, WriteHighest, WritePrevious, WriteCurrent,
          RollbackPrevious, RollbackCurrent, Crash, Unlock, Return, Goto, holding, updates
    <3>3. CASE upc[q] # "wait"
      BY <2>s, <2>3, <3>3 DEF OnStore, updates
    <3>4. CASE p = q /\ upc[q] = "wait" /\ ~Install(p)
      <4>1. pc[p] \in {"swap", "switch"}
        BY <2>3, <3>4 DEF OnStore, Rollback, RollbackPrevious, RollbackCurrent
      <4> QED
        BY <3>4, <4>1 DEF ProgressOK, InstallLabels
    <3> QED
      BY <3>1, <3>2, <3>3, <3>4
  <2>4. ASSUME NEW p \in Procs, CrashUpdate(p) PROVE RejectOK(q)'
    <3>1. CASE p # q
      BY <2>s, <2>d, <2>4, <3>1 DEF CrashUpdate, Finish, Proceed, Crash, Return, Goto, vars, locals
    <3>2. CASE p = q
      BY <2>d, <2>4, <3>2 DEF CrashUpdate, Finish, Proceed, RejectOK
    <3> QED
      BY <3>1, <3>2
  <2>5. CASE Tick /\ UNCHANGED updates
    BY <2>s, <2>5 DEF Tick, locals, updates
  <2>6. CASE UNCHANGED uvars
    BY <2>s, <2>6 DEF uvars, vars, locals, updates
  <2> QED
    BY <2>1, <2>2, <2>3, <2>4, <2>5, <2>6 DEF UNext
<1> QED
  BY <1>g, <1>q DEF RejectInv

(* A rejection has a reason that still holds when it is read               *)
(* (update.go:97-105, 157; lifecycle.go:65-79).                            *)
THEOREM RejectionsExplained == USpec => []RejectionExplained
<1>1. UInit => RejectInv
  BY DEF UInit, Init, RejectInv, GapInv, RejectOK, NoResult
<1>2. StoreInv /\ UpdateInv /\ RejectInv => RejectionExplained
  <2> SUFFICES ASSUME StoreInv, RejectInv, NEW p \in Procs, out[p].code = "rejected"
               PROVE  \/ SequenceOf[offer[p]] < highest
                      \/ accepted[SequenceOf[offer[p]]] \notin {None, offer[p]}
                      \/ ~Valid(offer[p])
                      \/ SequenceOf[offer[p]] \in torn
    BY DEF RejectionExplained
  <2>1. offer[p] \in Bundles /\ Reason(offer[p])
    BY DEF RejectInv, RejectOK
  <2>2. now \in Nat /\ ValidUntil[offer[p]] \in Nat
    BY <2>1, BundleAssumption DEF StoreInv, TypeOK, Times
  <2> QED
    BY <2>1, <2>2 DEF Reason, Interrupted, Valid
<1> QED
  BY <1>1, <1>2, UpdateInit, UpdateStep, RejectStep, PTL DEF USpec

=============================================================================
