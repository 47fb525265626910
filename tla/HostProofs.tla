------------------------------ MODULE HostProofs ------------------------------
(***************************************************************************)
(* Theorems about the parts of one machine: its identity (DeviceIdentity)  *)
(* and its database (StoreOpen), the two pools of a scan (Orchestrator,    *)
(* EvidenceEngine), the archive (AuditArchive) and the schedule (Schedule);*)
(* and about the machine as MCHost composes it: a step of one part is a    *)
(* step of its component and no step of any other, so what is proved of    *)
(* the components holds of the composition.                                *)
(***************************************************************************)
EXTENDS MCHost, FiniteSetTheorems, SequenceTheorems, WellFoundedInduction, TLAPS

(* The first commands on a machine. *)

(* Who writes has created the file, and nobody else has opened it: its     *)
(* name and its contents are of that command.                              *)
WriterOwns ==
    /\ \A p \in Procs : dpc[p] = "write" => idFile = Partially(p)
    /\ idFile.whole => idFile.by # None

DeviceInv == DeviceTypeOK /\ WriterOwns /\ OneIdentity /\ PartialExplained

LEMMA DeviceInvInit == DeviceInit => DeviceInv
BY DeviceAssumption, SharedAssumption
   DEF DeviceInit, DeviceInv, DeviceTypeOK, WriterOwns, OneIdentity, PartialExplained, NoFile, Partially, Whole

LEMMA DeviceInvStep == DeviceInv /\ [DeviceNext]_deviceVars => DeviceInv'
<1> SUFFICES ASSUME DeviceInv, [DeviceNext]_deviceVars PROVE DeviceInv'
  OBVIOUS
<1> USE DeviceAssumption, SharedAssumption
    DEF DeviceInv, DeviceTypeOK, WriterOwns, OneIdentity, PartialExplained, NoFile, Partially, Whole
<1>1. ASSUME NEW p \in Procs, ReadIdentity(p) PROVE DeviceInv'
  <2>1. CASE idFile # NoFile /\ ReadFile(p) /\ UNCHANGED <<idFile, deviceFaults>>
    BY <1>1, <2>1 DEF ReadIdentity, ReadFile, Identify
  <2>2. CASE idFile = NoFile /\ dpc' = [dpc EXCEPT ![p] = "create"] /\ UNCHANGED <<idFile, identity, given, deviceFaults>>
    BY <1>1, <2>2 DEF ReadIdentity
  <2>3. CASE DeviceFault /\ Identify(p, "invalid") /\ UNCHANGED idFile
    BY <1>1, <2>3 DEF ReadIdentity, DeviceFault, Identify
  <2> QED
    BY <1>1, <2>1, <2>2, <2>3 DEF ReadIdentity
<1>2. ASSUME NEW p \in Procs, CreateIdentity(p) PROVE DeviceInv'
  <2>1. CASE idFile = NoFile /\ idFile' = Partially(p) /\ dpc' = [dpc EXCEPT ![p] = "write"] /\ UNCHANGED <<identity, given, deviceFaults>>
    BY <1>2, <2>1
  <2>2. CASE idFile # NoFile /\ ReadFile(p) /\ UNCHANGED <<idFile, deviceFaults>>
    BY <1>2, <2>2 DEF CreateIdentity, ReadFile, Identify
  <2>3. CASE DeviceFault /\ Identify(p, "invalid") /\ UNCHANGED idFile
    BY <1>2, <2>3 DEF CreateIdentity, DeviceFault, Identify
  <2> QED
    BY <1>2, <2>1, <2>2, <2>3 DEF CreateIdentity
<1>3. ASSUME NEW p \in Procs, WriteIdentity(p) PROVE DeviceInv'
  <2>1. idFile = Partially(p) /\ given = {}
    BY <1>3 DEF WriteIdentity
  <2>2. \A q \in Procs \ {p} : dpc[q] # "write"
    BY <2>1
  <2>3. CASE idFile' = Whole(p) /\ Identify(p, p) /\ UNCHANGED deviceFaults
    BY <1>3, <2>1, <2>2, <2>3 DEF WriteIdentity, Identify
  <2>4. CASE DeviceFault /\ idFile' \in {NoFile, Partially(p), Whole(p)} /\ Identify(p, "invalid")
    <3>1. given' = {} /\ deviceFaults' \in 0 .. MaxDeviceFaults /\ deviceFaults' > 0
      BY <2>1, <2>4 DEF Identify, DeviceFault
    <3>2. dpc' = [dpc EXCEPT ![p] = "done"] /\ identity' = [identity EXCEPT ![p] = "invalid"]
      BY <2>4 DEF Identify
    <3>3. idFile' \in {NoFile, Partially(p), Whole(p)}
      BY <2>4
    <3>4. DeviceTypeOK'
      <4>1. idFile' \in [by : Procs \cup {None}, whole : BOOLEAN]
        <5>1. CASE idFile' = [by |-> None, whole |-> FALSE]
          BY <5>1
        <5>2. CASE idFile' = [by |-> p, whole |-> TRUE]
          BY <5>2
        <5>3. CASE idFile' = [by |-> p, whole |-> FALSE]
          BY <5>3
        <5> QED
          BY <3>3, <5>1, <5>2, <5>3
      <4>2. dpc' \in [Procs -> {"read", "create", "write", "done"}]
        BY <3>2
      <4>3. identity' \in [Procs -> Procs \cup {None, "invalid"}]
        BY <3>2
      <4> QED
        BY <3>1, <4>1, <4>2, <4>3
    <3>5. WriterOwns' /\ OneIdentity' /\ PartialExplained'
      BY <2>2, <3>1, <3>2, <3>3
    <3> QED
      BY <3>4, <3>5
  <2> QED
    BY <1>3, <2>3, <2>4 DEF WriteIdentity
<1>4. ASSUME NEW p \in Procs, DeviceDone(p) PROVE DeviceInv'
  BY <1>4 DEF DeviceDone
<1>5. ASSUME NEW p \in Procs, DeviceCrash(p) PROVE DeviceInv'
  BY <1>5 DEF DeviceCrash, DeviceFault
<1>6. CASE UNCHANGED deviceVars
  BY <1>6 DEF deviceVars
<1> QED
  BY <1>1, <1>2, <1>3, <1>4, <1>5, <1>6 DEF DeviceNext

THEOREM DeviceTypeCorrect == DeviceSpec => []DeviceTypeOK
BY DeviceInvInit, DeviceInvStep, PTL DEF DeviceSpec, DeviceInv

(* The commands that ever got an identity got the same one, and it is what *)
(* the file holds; an incomplete file has a writer at work or a failure    *)
(* (loadDeviceID, cmd/ssc-init/main.go).                       *)
THEOREM DeviceIsOne == DeviceSpec => [](OneIdentity /\ PartialExplained)
BY DeviceInvInit, DeviceInvStep, PTL DEF DeviceSpec, DeviceInv

-----------------------------------------------------------------------------
(* StoreOpen: the files, their histories, and who may still name them.     *)

(* Database files as applyMigrations leaves them. *)
Database == [tables : SUBSET Nat, history : Seq(Nat), snapshots : SUBSET Procs]

(* The steps after which a command guards a file, and has verified it. *)
Guarded == {"connect", "identity", "history", "migrate", "open"}
Verified == {"history", "migrate", "open"}

(* The name is that of the latest file or of none: a file that lost it     *)
(* never bears it again.                                                   *)
NameIsLatest == dbFile \in {0, Len(dbs)}

(* A command connects by name after it has guarded a file, so to no        *)
(* earlier one; once verified, it is connected to the file it guards.      *)
ConnectedLater ==
    \A p \in Procs :
        /\ mpc[p] \in Guarded => guard[p] # 0
        /\ mpc[p] = "identity" => guard[p] <= conn[p]
        /\ mpc[p] \in Verified => conn[p] = guard[p]

ReportedFiles == \A r \in reported : r[1] \in 1..Len(dbs)

StoreShape == StoreTypeOK /\ dbs \in Seq(Database) /\ NameIsLatest /\ ConnectedLater /\ ReportedFiles

(* What a command knows of a history is behind it, never ahead. *)
AppliedBehind == \A p \in Procs : mpc[p] = "migrate" => applied[p] <= Len(dbs[conn[p]].history)

(* The commands that died, each of them by a counted fault. *)
Killed == {p \in Procs : mpc[p] = "killed"}
KilledByFaults == IsFiniteSet(Killed) /\ Cardinality(Killed) <= storeFaults

(* As long as nobody overlaps a command, things are as its last step left  *)
(* them: of all others, none has done more than look at the directory.     *)
Undisturbed ==
    \A p \in Procs : p \in alone /\ Active(p) =>
        /\ mpc[p] = "mkdir" => ~parent
        /\ mpc[p] = "create" => dbFile = 0
        /\ mpc[p] \in Guarded => dbFile = guard[p]
        /\ mpc[p] = "identity" => conn[p] = guard[p]
        /\ mpc[p] = "migrate" => applied[p] = Len(dbs[conn[p]].history)

(* AloneOpens, and that the command had a file to find too new. *)
AloneFails ==
    \A p \in Procs :
        mpc[p] = "failed" /\ p \in alone =>
            storeFaults > Cardinality(Killed) \/ (guard[p] # 0 /\ Len(dbs[guard[p]].history) > Known[p])

StoreInv ==
    StoreShape /\ SchemaSound /\ AppliedBehind /\ KilledByFaults /\ Undisturbed /\ AloneFails /\ LossExplained

-----------------------------------------------------------------------------
(* What the steps do to the files *)

LEMMA DatabaseParts ==
    ASSUME NEW db \in Database
    PROVE  db.tables \in SUBSET Nat /\ db.history \in Seq(Nat) /\ db.snapshots \in SUBSET Procs
BY DEF Database

LEMMA DatabasesMade ==
    /\ NewFile \in Database
    /\ \A db \in Database : \A v \in Nat : Migrated(db, v) \in Database
    /\ \A db \in Database : \A p \in Procs : Saved(db, p) \in Database
<1>1. NewFile \in Database
  <2>1. <<>> \in Seq(Nat)
    OBVIOUS
  <2> QED
    BY <2>1 DEF NewFile, Database
<1>2. ASSUME NEW db \in Database, NEW v \in Nat PROVE Migrated(db, v) \in Database
  <2>1. db.tables \cup {v} \in SUBSET Nat /\ Append(db.history, v) \in Seq(Nat)
    BY DatabaseParts
  <2> QED
    BY <2>1, DatabaseParts DEF Migrated, Database
<1>3. ASSUME NEW db \in Database, NEW p \in Procs PROVE Saved(db, p) \in Database
  <2>1. db.snapshots \cup {p} \in SUBSET Procs
    BY DatabaseParts
  <2> QED
    BY <2>1, DatabaseParts DEF Saved, Database
<1> QED
  BY <1>1, <1>2, <1>3

LEMMA AppendElements ==
    ASSUME NEW S, NEW s \in Seq(S), NEW e \in S
    PROVE  /\ Append(s, e) \in Seq(S) /\ Len(Append(s, e)) = Len(s) + 1
           /\ \A i \in 1..Len(s) : Append(s, e)[i] = s[i]
           /\ Append(s, e)[Len(s) + 1] = e
OBVIOUS

LEMMA NewFileStep ==
    ASSUME dbs \in Seq(Database), dbs' = Append(dbs, NewFile)
    PROVE  /\ dbs' \in Seq(Database) /\ Len(dbs') = Len(dbs) + 1
           /\ \A i \in 1..Len(dbs) : dbs'[i] = dbs[i]
           /\ dbs'[Len(dbs) + 1] = NewFile
BY DatabasesMade, AppendElements

LEMMA MigrateStep ==
    ASSUME dbs \in Seq(Database), NEW c \in 1..Len(dbs), NEW v \in Nat,
           dbs' = [dbs EXCEPT ![c] = Migrated(@, v)]
    PROVE  /\ dbs' \in Seq(Database) /\ Len(dbs') = Len(dbs)
           /\ \A i \in 1..Len(dbs) : dbs'[i] = IF i = c THEN Migrated(dbs[c], v) ELSE dbs[i]
<1> DEFINE new == Migrated(dbs[c], v)
<1>1. new \in Database
  BY DatabasesMade
<1> HIDE DEF new
<1>2. dbs' = [dbs EXCEPT ![c] = new]
  BY DEF new
<1>3. dbs' \in Seq(Database) /\ Len(dbs') = Len(dbs) /\ \A i \in 1..Len(dbs) : dbs'[i] = IF i = c THEN new ELSE dbs[i]
  BY <1>1, <1>2, ExceptSeq
<1> QED
  BY <1>3 DEF new

LEMMA SnapshotStep ==
    ASSUME dbs \in Seq(Database), NEW c \in 1..Len(dbs), NEW p \in Procs,
           dbs' = [dbs EXCEPT ![c] = Saved(@, p)]
    PROVE  /\ dbs' \in Seq(Database) /\ Len(dbs') = Len(dbs)
           /\ \A i \in 1..Len(dbs) : dbs'[i] = IF i = c THEN Saved(dbs[c], p) ELSE dbs[i]
<1> DEFINE new == Saved(dbs[c], p)
<1>1. new \in Database
  BY DatabasesMade
<1> HIDE DEF new
<1>2. dbs' = [dbs EXCEPT ![c] = new]
  BY DEF new
<1>3. dbs' \in Seq(Database) /\ Len(dbs') = Len(dbs) /\ \A i \in 1..Len(dbs) : dbs'[i] = IF i = c THEN new ELSE dbs[i]
  BY <1>1, <1>2, ExceptSeq
<1> QED
  BY <1>3 DEF new

-----------------------------------------------------------------------------
(* Types, numbers of files and connections *)

StoreStep(p) ==
    \/ LookupParent(p) \/ MakeParent(p) \/ OpenGuard(p) \/ CreateGuard(p) \/ Connect(p) \/ VerifyIdentity(p)
    \/ ReadHistory(p) \/ Migrate(p) \/ VerifySchema(p) \/ CommitSnapshot(p) \/ StoreCrash(p)

LEMMA StoreShapeStep ==
    ASSUME StoreShape, NEW q \in Procs, StoreStep(q)
    PROVE  StoreShape'
<1> USE StoreAssumption
    DEF StoreShape, StoreTypeOK, NameIsLatest, ConnectedLater, ReportedFiles, Guarded, Verified,
        StoreGoto, storeDisk, storeLocals, storeHistory
<1>0. Len(dbs) \in Nat
  OBVIOUS
<1>1. ASSUME NEW p \in Procs, LookupParent(p) PROVE StoreShape'
  BY <1>0, <1>1 DEF LookupParent
<1>2. ASSUME NEW p \in Procs, StoreFail(p), storeFaults' \in 0..MaxStoreFaults PROVE StoreShape'
  BY <1>0, <1>2 DEF StoreFail
<1>3. ASSUME NEW p \in Procs, MakeParent(p) PROVE StoreShape'
  BY <1>0, <1>2, <1>3 DEF MakeParent
<1>4. ASSUME NEW p \in Procs, OpenGuard(p) PROVE StoreShape'
  <2>1. CASE dbFile = 0
    <3>1. StoreTypeOK'
      BY <1>0, <1>4, <2>1 DEF OpenGuard
    <3>2. ConnectedLater'
      BY <1>0, <1>4, <2>1 DEF OpenGuard
    <3> QED
      BY <1>4, <3>1, <3>2 DEF OpenGuard
  <2>2. CASE dbFile # 0
    <3>1. StoreTypeOK'
      BY <1>0, <1>4, <2>2 DEF OpenGuard
    <3>2. ConnectedLater'
      BY <1>0, <1>4, <2>2 DEF OpenGuard
    <3> QED
      BY <1>4, <3>1, <3>2 DEF OpenGuard
  <2> QED
    BY <2>1, <2>2
<1>5. ASSUME NEW p \in Procs, CreateGuard(p) PROVE StoreShape'
  <2>1. CASE StoreFail(p)
    BY <1>2, <1>5, <2>1 DEF CreateGuard
  <2>2. CASE dbs' = Append(dbs, NewFile) /\ ~StoreFail(p)
    <3>1. dbs' \in Seq(Database) /\ Len(dbs') = Len(dbs) + 1
      BY <2>2, NewFileStep
    <3>2. /\ mpc' = [mpc EXCEPT ![p] = "connect"] /\ guard' = [guard EXCEPT ![p] = Len(dbs) + 1]
          /\ made' = [made EXCEPT ![p] = TRUE] /\ dbFile' = Len(dbs) + 1
          /\ UNCHANGED <<parent, conn, applied, storeHistory, storeFaults>>
      BY <1>5, <2>2 DEF CreateGuard
    <3>3. 0..Len(dbs) \subseteq 0..Len(dbs') /\ Len(dbs) + 1 \in 0..Len(dbs')
      BY <1>0, <3>1
    <3>4. StoreTypeOK'
      BY <3>1, <3>2, <3>3
    <3>5. ConnectedLater'
      BY <1>0, <3>1, <3>2
    <3>6. NameIsLatest' /\ ReportedFiles'
      BY <1>0, <3>1, <3>2
    <3> QED
      BY <3>1, <3>4, <3>5, <3>6
  <2> QED
    BY <1>5, <2>1, <2>2 DEF CreateGuard
<1>6. ASSUME NEW p \in Procs, Connect(p) PROVE StoreShape'
  <2>1. CASE dbFile = 0
    BY <1>0, <1>6, <2>1, NewFileStep DEF Connect
  <2>2. CASE dbFile # 0
    BY <1>0, <1>6, <2>2 DEF Connect
  <2> QED
    BY <2>1, <2>2
<1>7. ASSUME NEW p \in Procs, VerifyIdentity(p) PROVE StoreShape'
  <2>1. CASE StoreFail(p)
    BY <1>2, <1>7, <2>1 DEF VerifyIdentity
  <2>2. CASE dbFile = guard[p] /\ StoreGoto(p, "history") /\ UNCHANGED <<storeDisk, storeLocals, storeHistory, storeFaults>>
    <3>1. StoreTypeOK'
      BY <1>7, <2>2
    <3>2. ConnectedLater'
      BY <1>7, <2>2 DEF VerifyIdentity
    <3>3. NameIsLatest' /\ ReportedFiles' /\ dbs' \in Seq(Database)
      BY <1>7, <2>2 DEF VerifyIdentity
    <3> QED
      BY <3>1, <3>2, <3>3
  <2> QED
    BY <1>7, <2>1, <2>2 DEF VerifyIdentity
<1>8. ASSUME NEW p \in Procs, ReadHistory(p) PROVE StoreShape'
  <2>1. CASE StoreFail(p)
    BY <1>2, <1>8, <2>1 DEF ReadHistory
  <2>2. CASE UNCHANGED <<storeDisk, guard, conn, made, storeHistory>>
    <3>1. dbs[conn[p]] \in Database
      BY <1>8 DEF ReadHistory
    <3>2. Len(dbs[conn[p]].history) \in Nat
      BY <3>1 DEF Database
    <3> QED
      BY <1>0, <1>2, <1>8, <2>2, <3>2 DEF ReadHistory
  <2> QED
    BY <1>8, <2>1, <2>2 DEF ReadHistory
<1>9. ASSUME NEW p \in Procs, Migrate(p) PROVE StoreShape'
  <2>1. CASE StoreFail(p)
    <3>1. storeFaults' \in 0..MaxStoreFaults
      BY <1>9 DEF Migrate, StoreFault
    <3> QED
      BY <1>2, <2>1, <3>1
  <2>2. CASE ~StoreFail(p)
    <3>1. conn[p] \in 1..Len(dbs) /\ applied[p] + 1 \in Nat
      BY <1>0, <1>9 DEF Migrate
    <3>2. dbs' = [dbs EXCEPT ![conn[p]] = Migrated(@, applied[p] + 1)]
      BY <1>9, <2>2 DEF Migrate
    <3>3. dbs' \in Seq(Database) /\ Len(dbs') = Len(dbs)
      BY <3>1, <3>2, MigrateStep
    <3>4. applied' = [applied EXCEPT ![p] = applied[p] + 1] /\ UNCHANGED <<parent, dbFile, mpc, guard, conn, made, storeHistory, storeFaults>>
      BY <1>9, <2>2 DEF Migrate
    <3>5. applied[p] < Known[p]
      BY <1>9 DEF Migrate
    <3> QED
      BY <1>0, <3>1, <3>3, <3>4, <3>5
  <2> QED
    BY <2>1, <2>2
<1>10. ASSUME NEW p \in Procs, VerifySchema(p) PROVE StoreShape'
  BY <1>0, <1>2, <1>10 DEF VerifySchema
<1>11. ASSUME NEW p \in Procs, CommitSnapshot(p) PROVE StoreShape'
  <2>1. conn[p] \in 1..Len(dbs)
    BY <1>0, <1>11 DEF CommitSnapshot
  <2>2. dbs' \in Seq(Database) /\ Len(dbs') = Len(dbs)
    BY <1>11, <2>1, SnapshotStep DEF CommitSnapshot
  <2>3. ReportedFiles'
    <3>1. \A r \in reported' : r \in reported \/ r = <<conn[p], p>>
      BY <1>11 DEF CommitSnapshot
    <3>2. \A r \in reported' : r[1] \in 1..Len(dbs)
      BY <2>1, <3>1
    <3> QED
      BY <2>2, <3>2
  <2>4. mpc' = [mpc EXCEPT ![p] = "closed"] /\ UNCHANGED <<parent, dbFile, guard, conn, made, applied, storeFaults>>
    BY <1>11 DEF CommitSnapshot
  <2>5. StoreTypeOK'
    <3>1. mpc' \in [Procs -> {"start", "mkdir", "guard", "create", "connect", "identity", "history", "migrate", "open",
                              "closed", "failed", "killed"}]
      BY <2>4
    <3> QED
      BY <2>2, <2>4, <3>1
  <2>6. NameIsLatest' /\ ConnectedLater'
    BY <2>2, <2>4
  <2> QED
    BY <2>2, <2>3, <2>5, <2>6
<1>12. ASSUME NEW p \in Procs, StoreCrash(p) PROVE StoreShape'
  BY <1>0, <1>12 DEF StoreCrash, StoreFault
<1> QED
  BY <1>1, <1>3, <1>4, <1>5, <1>6, <1>7, <1>8, <1>9, <1>10, <1>11, <1>12 DEF StoreStep

-----------------------------------------------------------------------------
(* What one step leaves of the others *)

LEMMA LocalStep ==
    ASSUME StoreShape, NEW p \in Procs, StoreStep(p), NEW q \in Procs, q # p
    PROVE  mpc'[q] = mpc[q] /\ guard'[q] = guard[q] /\ conn'[q] = conn[q] /\ made'[q] = made[q] /\ applied'[q] = applied[q]
<1> USE DEF StoreShape, StoreTypeOK, StoreGoto, storeDisk, storeLocals, storeHistory
<1>0. StoreFail(p) => mpc'[q] = mpc[q] /\ UNCHANGED storeLocals
  BY DEF StoreFail
<1>1. CASE LookupParent(p) \/ MakeParent(p)
  BY <1>0, <1>1 DEF LookupParent, MakeParent
<1>2. CASE OpenGuard(p)
  BY <1>2 DEF OpenGuard
<1>3. CASE CreateGuard(p)
  BY <1>0, <1>3 DEF CreateGuard
<1>4. CASE Connect(p)
  BY <1>4 DEF Connect
<1>5. CASE VerifyIdentity(p)
  BY <1>0, <1>5 DEF VerifyIdentity
<1>6. CASE ReadHistory(p)
  BY <1>0, <1>6 DEF ReadHistory
<1>7. CASE Migrate(p)
  BY <1>0, <1>7 DEF Migrate
<1>8. CASE VerifySchema(p)
  BY <1>0, <1>8 DEF VerifySchema
<1>9. CASE CommitSnapshot(p) \/ StoreCrash(p)
  BY <1>9 DEF CommitSnapshot, StoreCrash
<1> QED
  BY <1>1, <1>2, <1>3, <1>4, <1>5, <1>6, <1>7, <1>8, <1>9 DEF StoreStep

(* A migration that is applied, and what every other step keeps. *)
Applies(p) ==
    /\ mpc[p] = "migrate" /\ applied[p] < Known[p]
    /\ applied[p] + 1 \notin dbs[conn[p]].tables
    /\ dbs' = [dbs EXCEPT ![conn[p]] = Migrated(@, applied[p] + 1)]
    /\ applied' = [applied EXCEPT ![p] = applied[p] + 1]
    /\ UNCHANGED <<parent, dbFile, mpc, guard, conn, made, storeHistory, storeFaults>>

SchemasKept ==
    /\ Len(dbs) <= Len(dbs')
    /\ \A i \in 1..Len(dbs) : dbs'[i].tables = dbs[i].tables /\ dbs'[i].history = dbs[i].history
    /\ \A i \in 1..Len(dbs') : i \in 1..Len(dbs) \/ dbs'[i] = NewFile

LEMMA SchemasStep ==
    ASSUME StoreShape, NEW p \in Procs, StoreStep(p)
    PROVE  SchemasKept \/ Applies(p)
<1> USE DEF storeDisk, storeLocals, storeHistory
<1>0. Len(dbs) \in Nat /\ dbs \in Seq(Database)
  BY DEF StoreShape
<1>1. UNCHANGED dbs => SchemasKept
  BY <1>0 DEF SchemasKept
<1>2. StoreFail(p) => SchemasKept
  BY <1>1 DEF StoreFail
<1>3. dbs' = Append(dbs, NewFile) => SchemasKept
  BY <1>0, NewFileStep DEF SchemasKept
<1>4. CASE LookupParent(p) \/ MakeParent(p) \/ OpenGuard(p)
  BY <1>1, <1>2, <1>4 DEF LookupParent, MakeParent, OpenGuard
<1>5. CASE CreateGuard(p)
  BY <1>2, <1>3, <1>5 DEF CreateGuard
<1>6. CASE Connect(p)
  BY <1>1, <1>3, <1>6 DEF Connect
<1>7. CASE VerifyIdentity(p) \/ ReadHistory(p)
  BY <1>1, <1>2, <1>7 DEF VerifyIdentity, ReadHistory
<1>8. CASE Migrate(p)
  BY <1>2, <1>8 DEF Migrate, Applies
<1>9. CASE VerifySchema(p) \/ StoreCrash(p)
  BY <1>1, <1>2, <1>9 DEF VerifySchema, StoreCrash
<1>10. CASE CommitSnapshot(p)
  <2>1. conn[p] \in 1..Len(dbs)
    BY <1>0, <1>10 DEF CommitSnapshot, StoreShape, StoreTypeOK, ConnectedLater, Guarded, Verified
  <2>2. /\ Len(dbs') = Len(dbs)
        /\ \A i \in 1..Len(dbs) : dbs'[i] = IF i = conn[p] THEN Saved(dbs[conn[p]], p) ELSE dbs[i]
    BY <1>0, <1>10, <2>1, SnapshotStep DEF CommitSnapshot
  <2>3. \A i \in 1..Len(dbs) : dbs'[i].tables = dbs[i].tables /\ dbs'[i].history = dbs[i].history
    BY <2>2 DEF Saved
  <2> QED
    BY <1>0, <2>2, <2>3 DEF SchemasKept
<1> QED
  BY <1>4, <1>5, <1>6, <1>7, <1>8, <1>9, <1>10 DEF StoreStep

-----------------------------------------------------------------------------
(* Histories *)

(* A database whose versions count up from one. *)
Counted(db) == db.tables = 1..Len(db.history) /\ \A v \in 1..Len(db.history) : db.history[v] = v

LEMMA CountedHistory ==
    ASSUME NEW db, NEW h \in Seq(Nat), Counted(db), h = db.history
    PROVE  \A i \in DOMAIN h : h[i] = i
BY DEF Counted

LEMMA SchemaCounted ==
    ASSUME NEW files \in Seq(Database)
    PROVE  (\A i \in DOMAIN files :
                LET db == files[i] IN db.tables = ToSet(db.history) /\ \A v \in DOMAIN db.history : db.history[v] = v)
            <=> \A i \in 1..Len(files) : Counted(files[i])
<1>1. ASSUME NEW i \in 1..Len(files)
      PROVE  (files[i].tables = ToSet(files[i].history) /\ \A v \in DOMAIN files[i].history : files[i].history[v] = v)
                <=> Counted(files[i])
  <2>1. PICK h \in Seq(Nat) : h = files[i].history
    BY DatabaseParts
  <2>2. (\A v \in DOMAIN h : h[v] = v) => ToSet(h) = 1..Len(h)
    BY DEF ToSet
  <2> QED
    BY <2>1, <2>2 DEF Counted
<1>2. DOMAIN files = 1..Len(files)
  OBVIOUS
<1> QED
  BY <1>1, <1>2

LEMMA MigratedCounted ==
    ASSUME NEW db \in Database, Counted(db), NEW v \in Nat, v \notin db.tables, 0 < v, v <= Len(db.history) + 1
    PROVE  Counted(Migrated(db, v)) /\ v = Len(db.history) + 1 /\ Len(Migrated(db, v).history) = v
<1>1. PICK h \in Seq(Nat) : h = db.history
  BY DatabaseParts
<1>2. v = Len(h) + 1
  BY <1>1 DEF Counted
<1>3. Migrated(db, v).history = Append(h, v) /\ Migrated(db, v).tables = 1..Len(h) \cup {v}
  BY <1>1 DEF Migrated, Counted
<1>4. Len(Append(h, v)) = v /\ Append(h, v)[v] = v /\ \A i \in 1..Len(h) : Append(h, v)[i] = i
  BY <1>1, <1>2, AppendElements DEF Counted
<1>5. 1..Len(h) \cup {v} = 1..v
  BY <1>2
<1> QED
  BY <1>1, <1>2, <1>3, <1>4, <1>5 DEF Counted

LEMMA AppliesSound ==
    ASSUME StoreShape, SchemaSound, AppliedBehind, NEW p \in Procs, Applies(p)
    PROVE  /\ Len(dbs') = Len(dbs) /\ conn[p] \in 1..Len(dbs)
           /\ \A i \in 1..Len(dbs) : i # conn[p] => dbs'[i] = dbs[i]
           /\ applied[p] = Len(dbs[conn[p]].history)
           /\ Counted(dbs'[conn[p]]) /\ Len(dbs'[conn[p]].history) = applied[p] + 1
<1>1. dbs \in Seq(Database) /\ conn[p] \in 1..Len(dbs) /\ applied[p] \in Nat
  BY DEF StoreShape, StoreTypeOK, ConnectedLater, Guarded, Verified, Applies
<1>2. dbs[conn[p]] \in Database /\ Counted(dbs[conn[p]])
  BY <1>1, SchemaCounted DEF SchemaSound
<1>3. applied[p] <= Len(dbs[conn[p]].history) /\ Len(dbs[conn[p]].history) \in Nat
  BY <1>2, DatabaseParts DEF AppliedBehind, Applies
<1>4. applied[p] = Len(dbs[conn[p]].history) /\ Counted(Migrated(dbs[conn[p]], applied[p] + 1))
      /\ Len(Migrated(dbs[conn[p]], applied[p] + 1).history) = applied[p] + 1
  BY <1>1, <1>2, <1>3, MigratedCounted DEF Applies
<1>5. /\ Len(dbs') = Len(dbs)
      /\ \A i \in 1..Len(dbs) : dbs'[i] = IF i = conn[p] THEN Migrated(dbs[conn[p]], applied[p] + 1) ELSE dbs[i]
  BY <1>1, MigrateStep DEF Applies
<1> QED
  BY <1>1, <1>4, <1>5

LEMMA HistoriesGrow ==
    ASSUME StoreShape, SchemaSound, AppliedBehind, NEW p \in Procs, StoreStep(p), NEW i \in 1..Len(dbs)
    PROVE  Len(dbs'[i].history) \in Nat /\ Len(dbs[i].history) \in Nat /\ Len(dbs[i].history) <= Len(dbs'[i].history)
<1>1. dbs[i] \in Database
  BY DEF StoreShape
<1>2. Len(dbs[i].history) \in Nat
  BY <1>1, DatabaseParts
<1>3. CASE SchemasKept
  <2>1. dbs'[i].history = dbs[i].history
    BY <1>3 DEF SchemasKept
  <2> QED
    BY <1>2, <2>1
<1>4. CASE Applies(p)
  <2>1. applied[p] \in Nat
    BY DEF StoreShape, StoreTypeOK
  <2>2. CASE i = conn[p]
    BY <1>2, <1>4, <2>1, <2>2, AppliesSound
  <2>3. CASE i # conn[p]
    BY <1>2, <1>4, <2>3, AppliesSound
  <2> QED
    BY <2>2, <2>3
<1> QED
  BY <1>3, <1>4, SchemasStep

LEMMA SchemaStep ==
    ASSUME StoreShape, SchemaSound, AppliedBehind, NEW p \in Procs, StoreStep(p)
    PROVE  SchemaSound' /\ AppliedBehind'
<1>1. StoreShape'
  BY StoreShapeStep
<1>2. \A i \in 1..Len(dbs) : Counted(dbs[i])
  BY SchemaCounted DEF StoreShape, SchemaSound
<1>3. SchemaSound'
  <2>1. CASE SchemasKept
    <3>1. Counted(NewFile)
      BY DEF Counted, NewFile
    <3>2. \A i \in 1..Len(dbs') : Counted(dbs'[i])
      BY <1>2, <2>1, <3>1 DEF SchemasKept, Counted
    <3> QED
      BY <1>1, <3>2, SchemaCounted DEF StoreShape, SchemaSound
  <2>2. CASE Applies(p)
    <3>1. \A i \in 1..Len(dbs') : Counted(dbs'[i])
      BY <1>2, <2>2, AppliesSound
    <3> QED
      BY <1>1, <3>1, SchemaCounted DEF StoreShape, SchemaSound
  <2> QED
    BY <2>1, <2>2, SchemasStep
<1>4. ASSUME NEW q \in Procs, mpc'[q] = "migrate" PROVE applied'[q] <= Len(dbs'[conn'[q]].history)
  <2>1. CASE q # p \/ (UNCHANGED <<mpc, conn, applied>>)
    <3>1. mpc[q] = "migrate" /\ conn'[q] = conn[q] /\ applied'[q] = applied[q]
      BY <1>4, <2>1, LocalStep
    <3>2. conn[q] \in 1..Len(dbs) /\ applied[q] \in Nat
      BY <3>1 DEF StoreShape, StoreTypeOK, ConnectedLater, Guarded, Verified
    <3>3. applied[q] <= Len(dbs[conn[q]].history)
      BY <3>1 DEF AppliedBehind
    <3> QED
      BY <3>1, <3>2, <3>3, HistoriesGrow
  <2>2. CASE q = p /\ Applies(p)
    <3>1. applied'[p] = applied[p] + 1 /\ conn'[p] = conn[p] /\ applied[p] \in Nat
      BY <2>2 DEF Applies, StoreShape, StoreTypeOK
    <3> QED
      BY <2>2, <3>1, AppliesSound
  <2>3. CASE q = p /\ ~Applies(p) /\ ~UNCHANGED <<mpc, conn, applied>>
    <3>1. ReadHistory(p) /\ ~StoreFail(p)
      BY <1>4, <2>3
         DEF StoreStep, StoreGoto, LookupParent, MakeParent, OpenGuard, CreateGuard, Connect, VerifyIdentity, ReadHistory,
             Migrate, Applies, VerifySchema, CommitSnapshot, StoreCrash, StoreFail, StoreShape, StoreTypeOK
    <3>2. applied'[p] = Len(dbs[conn[p]].history) /\ UNCHANGED <<dbs, conn>>
      BY <3>1 DEF ReadHistory, storeDisk, StoreShape, StoreTypeOK
    <3>3. conn[p] \in 1..Len(dbs)
      BY <3>1 DEF ReadHistory, StoreShape, StoreTypeOK, ConnectedLater, Guarded, Verified
    <3> QED
      BY <2>3, <3>2, <3>3, HistoriesGrow
  <2> QED
    BY <2>1, <2>2, <2>3
<1> QED
  BY <1>3, <1>4 DEF AppliedBehind

-----------------------------------------------------------------------------
(* What was reported *)

LEMMA LossStep ==
    ASSUME StoreShape, LossExplained, NEW p \in Procs, StoreStep(p)
    PROVE  LossExplained'
<1> USE DEF StoreGoto, storeDisk, storeLocals, storeHistory
<1>0. \A r \in reported : r[1] # 0
  BY DEF StoreShape, ReportedFiles
<1>1. UNCHANGED <<dbFile, storeHistory>> => LossExplained'
  BY DEF LossExplained
<1>2. StoreFail(p) => LossExplained'
  BY DEF StoreFail, LossExplained
<1>3. dbFile = 0 /\ UNCHANGED storeHistory => LossExplained'
  BY <1>0 DEF LossExplained
<1>4. CASE LookupParent(p) \/ MakeParent(p) \/ OpenGuard(p)
  BY <1>1, <1>2, <1>4 DEF LookupParent, MakeParent, OpenGuard
<1>5. CASE CreateGuard(p)
  BY <1>2, <1>3, <1>5 DEF CreateGuard
<1>6. CASE Connect(p)
  BY <1>1, <1>3, <1>6 DEF Connect
<1>7. CASE VerifyIdentity(p) \/ ReadHistory(p) \/ StoreCrash(p)
  BY <1>1, <1>2, <1>7 DEF VerifyIdentity, ReadHistory, StoreCrash
<1>8. CASE Migrate(p) \/ VerifySchema(p)
  BY <1>1, <1>2, <1>8 DEF Migrate, VerifySchema
<1>9. CASE CommitSnapshot(p)
  <2>1. conn[p] = guard[p]
    BY <1>9 DEF CommitSnapshot, StoreShape, ConnectedLater, Verified
  <2>2. UNCHANGED <<dbFile, blamed>> /\ \A r \in reported' : r \in reported \/ (r = <<conn[p], p>> /\ dbFile = guard[p])
    BY <1>9 DEF CommitSnapshot
  <2> QED
    BY <2>1, <2>2 DEF LossExplained
<1> QED
  BY <1>4, <1>5, <1>6, <1>7, <1>8, <1>9 DEF StoreStep

-----------------------------------------------------------------------------
(* Commands that are alone *)

LEMMA KilledStep ==
    ASSUME StoreShape, KilledByFaults, NEW p \in Procs, StoreStep(p)
    PROVE  /\ KilledByFaults' /\ storeFaults <= storeFaults'
           /\ Cardinality(Killed') - Cardinality(Killed) <= storeFaults' - storeFaults
           /\ Cardinality(Killed) \in Nat /\ Cardinality(Killed') \in Nat
<1> USE DEF StoreShape, StoreTypeOK, StoreGoto, storeDisk, storeLocals, storeHistory
<1>0. Cardinality(Killed) \in Nat /\ storeFaults \in Nat
  BY StoreAssumption, FS_CardinalityType DEF KilledByFaults
<1>1. CASE StoreCrash(p)
  <2>1. Killed' = Killed \cup {p} /\ p \notin Killed
    BY <1>1 DEF Killed, StoreCrash, Active
  <2>2. IsFiniteSet(Killed') /\ Cardinality(Killed') = Cardinality(Killed) + 1
    BY <2>1, FS_AddElement DEF KilledByFaults
  <2>3. storeFaults' = storeFaults + 1
    BY <1>1 DEF StoreCrash, StoreFault
  <2> QED
    BY <1>0, <2>2, <2>3 DEF KilledByFaults
<1>2. CASE ~StoreCrash(p)
  <2>1. storeFaults' \in {storeFaults, storeFaults + 1}
    BY <1>2 DEF StoreStep, LookupParent, MakeParent, OpenGuard, CreateGuard, Connect, VerifyIdentity,
                ReadHistory, Migrate, VerifySchema, CommitSnapshot, StoreFault
  <2>2. mpc'[p] # "killed" /\ mpc[p] # "killed"
    BY <1>2 DEF StoreStep, LookupParent, MakeParent, OpenGuard, CreateGuard, Connect, VerifyIdentity,
                ReadHistory, Migrate, VerifySchema, CommitSnapshot, StoreFail
  <2>3. \A q \in Procs : q # p => mpc'[q] = mpc[q]
    BY LocalStep
  <2>4. Killed' = Killed
    BY <2>2, <2>3 DEF Killed
  <2> QED
    BY <1>0, <2>1, <2>4 DEF KilledByFaults
<1> QED
  BY <1>1, <1>2

(* Who is alone after a step was alone before it; nobody else was at work  *)
(* when it made one, and while it is at work it makes them itself.         *)
LEMMA OverlapStep ==
    ASSUME NEW p \in Procs, Overlap(p)
    PROVE  /\ alone' \subseteq alone
           /\ \A q \in Procs : q # p /\ Active(p) /\ Active(q) => q \notin alone'
BY DEF Overlap

(* The steps of a command that is at work while it is alone. *)
LEMMA UndisturbedSelf ==
    ASSUME StoreShape, SchemaSound, AppliedBehind, NEW p \in Procs, StoreStep(p), p \in alone, Undisturbed
    PROVE  /\ mpc'[p] = "mkdir" => ~parent'
           /\ mpc'[p] = "create" => dbFile' = 0
           /\ mpc'[p] \in Guarded => dbFile' = guard'[p]
           /\ mpc'[p] = "identity" => conn'[p] = guard'[p]
           /\ mpc'[p] = "migrate" => applied'[p] = Len(dbs'[conn'[p]].history)
           /\ mpc'[p] = "failed" =>
                \/ StoreFault
                \/ guard[p] # 0 /\ UNCHANGED <<dbs, guard>> /\ Len(dbs[guard[p]].history) > Known[p]
<1> DEFINE Goal ==
           /\ mpc'[p] = "mkdir" => ~parent'
           /\ mpc'[p] = "create" => dbFile' = 0
           /\ mpc'[p] \in Guarded => dbFile' = guard'[p]
           /\ mpc'[p] = "identity" => conn'[p] = guard'[p]
           /\ mpc'[p] = "migrate" => applied'[p] = Len(dbs'[conn'[p]].history)
           /\ mpc'[p] = "failed" =>
                \/ StoreFault
                \/ guard[p] # 0 /\ UNCHANGED <<dbs, guard>> /\ Len(dbs[guard[p]].history) > Known[p]
<1>0. /\ mpc[p] = "mkdir" => ~parent
      /\ mpc[p] = "create" => dbFile = 0
      /\ mpc[p] \in Guarded => dbFile = guard[p]
      /\ mpc[p] = "identity" => conn[p] = guard[p]
      /\ mpc[p] = "migrate" => applied[p] = Len(dbs[conn[p]].history)
  BY DEF Undisturbed, Active, Guarded
<1>a. /\ p \in DOMAIN mpc /\ p \in DOMAIN guard /\ p \in DOMAIN conn /\ p \in DOMAIN applied
      /\ Known[p] \in Nat /\ applied[p] \in Nat /\ dbFile \in Nat /\ dbs \in Seq(Database)
  BY StoreAssumption DEF StoreShape, StoreTypeOK
<1>b. /\ mpc[p] \in Guarded => guard[p] # 0
      /\ mpc[p] \in Verified => conn[p] = guard[p] /\ conn[p] \in 1..Len(dbs)
  BY DEF StoreShape, StoreTypeOK, ConnectedLater, Guarded, Verified
<1> USE <1>a, <1>b DEF StoreGoto, storeDisk, storeLocals, storeHistory, Guarded, Verified
<1>1. CASE LookupParent(p)
  BY <1>0, <1>1 DEF LookupParent
<1>2. CASE MakeParent(p)
  BY <1>0, <1>2 DEF MakeParent
<1>3. CASE OpenGuard(p)
  BY <1>0, <1>3 DEF OpenGuard
<1>4. CASE CreateGuard(p)
  BY <1>0, <1>4 DEF CreateGuard
<1>5. CASE Connect(p)
  BY <1>0, <1>5 DEF Connect
<1>6. CASE VerifyIdentity(p)
  BY <1>0, <1>6 DEF VerifyIdentity
<1>7. CASE ReadHistory(p)
  <2>0. conn[p] \in 1..Len(dbs)
    BY <1>7 DEF ReadHistory
  <2>1. Counted(dbs[conn[p]]) /\ dbs[conn[p]] \in Database
    BY <2>0, SchemaCounted DEF SchemaSound
  <2>2. PICK h \in Seq(Nat) : h = dbs[conn[p]].history
    BY <2>1, DatabaseParts
  <2>3. \A i \in DOMAIN h : h[i] = i
    BY <2>1, <2>2, CountedHistory
  <2>4. CASE Len(h) <= Known[p]
    <3>1. mpc' = [mpc EXCEPT ![p] = "migrate"] /\ applied' = [applied EXCEPT ![p] = Len(h)] /\ UNCHANGED <<dbFile, dbs, guard, conn>>
      BY <1>7, <2>2, <2>3, <2>4 DEF ReadHistory
    <3>2. dbFile = guard[p]
      BY <1>0, <1>7 DEF ReadHistory
    <3> QED
      BY <2>2, <3>1, <3>2
  <2>5. CASE Len(h) > Known[p]
    <3>1. StoreFail(p)
      BY <1>7, <2>2, <2>5 DEF ReadHistory
    <3>2. mpc'[p] = "failed" /\ UNCHANGED <<dbs, guard>>
      BY <3>1 DEF StoreFail
    <3>3. guard[p] # 0 /\ conn[p] = guard[p]
      BY <1>7 DEF ReadHistory
    <3> QED
      BY <2>2, <2>5, <3>2, <3>3
  <2> QED
    BY <2>4, <2>5
<1>8. CASE Migrate(p)
  <2>1. applied[p] = Len(dbs[conn[p]].history) /\ mpc[p] = "migrate" /\ dbFile = guard[p]
    BY <1>0, <1>8 DEF Migrate
  <2>2. dbs[conn[p]].tables = 1..applied[p]
    BY <2>1, SchemaCounted DEF SchemaSound, Counted
  <2>3. applied[p] + 1 \notin dbs[conn[p]].tables
    BY <2>2
  <2>4. Applies(p) \/ (StoreFault /\ StoreFail(p))
    BY <1>8, <2>3 DEF Migrate, Applies
  <2>5. CASE Applies(p)
    <3>1. Len(dbs'[conn[p]].history) = applied[p] + 1
      BY <2>5, AppliesSound
    <3> QED
      BY <2>1, <2>5, <3>1 DEF Applies
  <2>6. CASE StoreFault /\ StoreFail(p)
    BY <2>6 DEF StoreFail
  <2> QED
    BY <2>4, <2>5, <2>6
<1>9. CASE VerifySchema(p)
  <2>1. applied[p] = Len(dbs[conn[p]].history) /\ mpc[p] = "migrate" /\ dbFile = guard[p] /\ applied[p] = Known[p]
    BY <1>0, <1>9 DEF VerifySchema
  <2>2. dbs[conn[p]].tables = 1..Known[p]
    <3>1. Counted(dbs[conn[p]])
      BY <2>1, SchemaCounted DEF SchemaSound
    <3> QED
      BY <2>1, <3>1 DEF Counted
  <2> QED
    BY <1>9, <2>1, <2>2 DEF VerifySchema
<1>10. CASE CommitSnapshot(p)
  BY <1>10 DEF CommitSnapshot
<1>11. CASE StoreCrash(p)
  BY <1>11 DEF StoreCrash
<1> QED
  BY <1>1, <1>2, <1>3, <1>4, <1>5, <1>6, <1>7, <1>8, <1>9, <1>10, <1>11 DEF StoreStep

LEMMA AloneStep ==
    ASSUME StoreInv, NEW p \in Procs, StoreStep(p), Overlap(p)
    PROVE  Undisturbed' /\ AloneFails'
<1> USE DEF StoreInv
<1>1. ASSUME NEW q \in Procs, q \in alone', Active(q)'
      PROVE  /\ mpc'[q] = "mkdir" => ~parent'
             /\ mpc'[q] = "create" => dbFile' = 0
             /\ mpc'[q] \in Guarded => dbFile' = guard'[q]
             /\ mpc'[q] = "identity" => conn'[q] = guard'[q]
             /\ mpc'[q] = "migrate" => applied'[q] = Len(dbs'[conn'[q]].history)
  <2>1. q \in alone
    BY <1>1, OverlapStep
  <2>2. CASE q = p
    BY <2>1, <2>2, UndisturbedSelf
  <2>3. CASE q # p
    <3>1. /\ mpc'[q] = mpc[q] /\ guard'[q] = guard[q] /\ conn'[q] = conn[q] /\ applied'[q] = applied[q]
          /\ Active(q)
      BY <1>1, <2>3, LocalStep DEF Active
    <3>2. ~Active(p)
      BY <1>1, <2>3, <3>1, OverlapStep
    <3>3. LookupParent(p)
      BY <3>2 DEF StoreStep, Active, LookupParent, MakeParent, OpenGuard, CreateGuard, Connect, VerifyIdentity,
                  ReadHistory, Migrate, VerifySchema, CommitSnapshot, StoreCrash
    <3>4. UNCHANGED <<parent, dbFile, dbs>>
      BY <3>3 DEF LookupParent, storeDisk
    <3> QED
      BY <2>1, <3>1, <3>4 DEF Undisturbed
  <2> QED
    BY <2>2, <2>3
<1>2. ASSUME NEW q \in Procs, mpc'[q] = "failed", q \in alone'
      PROVE  storeFaults' > Cardinality(Killed') \/ (guard'[q] # 0 /\ Len(dbs'[guard'[q]].history) > Known[q])
  <2>1. q \in alone
    BY <1>2, OverlapStep
  <2>2. storeFaults \in Nat /\ storeFaults' \in Nat /\ Known[q] \in Nat /\ Cardinality(Killed) <= storeFaults
    BY StoreAssumption, StoreShapeStep DEF StoreShape, StoreTypeOK, KilledByFaults
  <2>3. CASE q # p
    <3>1. mpc[q] = "failed" /\ guard'[q] = guard[q]
      BY <1>2, <2>3, LocalStep
    <3>2. CASE storeFaults > Cardinality(Killed)
      BY <2>2, <3>2, KilledStep
    <3>3. CASE guard[q] # 0 /\ Len(dbs[guard[q]].history) > Known[q]
      <4>1. guard[q] \in 1..Len(dbs)
        BY <3>3 DEF StoreShape, StoreTypeOK
      <4> QED
        BY <2>2, <3>1, <3>3, <4>1, HistoriesGrow
    <3> QED
      BY <2>1, <3>1, <3>2, <3>3 DEF AloneFails
  <2>4. CASE q = p
    <3>1. CASE StoreFault
      <4>1. ~StoreCrash(p)
        BY <1>2, <2>4 DEF StoreCrash, StoreGoto, StoreShape, StoreTypeOK
      <4>2. Killed' = Killed
        BY <1>2, <2>4, <4>1, LocalStep DEF Killed, StoreStep, LookupParent, MakeParent, OpenGuard, CreateGuard, Connect,
              VerifyIdentity, ReadHistory, Migrate, VerifySchema, CommitSnapshot
      <4> QED
        BY <2>2, <3>1, <4>2, KilledStep DEF StoreFault
    <3>2. CASE guard[p] # 0 /\ UNCHANGED <<dbs, guard>> /\ Len(dbs[guard[p]].history) > Known[p]
      BY <2>4, <3>2
    <3> QED
      BY <1>2, <2>1, <2>4, <3>1, <3>2, UndisturbedSelf
  <2> QED
    BY <2>3, <2>4
<1> QED
  BY <1>1, <1>2 DEF Undisturbed, AloneFails

-----------------------------------------------------------------------------
LEMMA StoreInvInit == StoreInit => StoreInv
<1> SUFFICES ASSUME StoreInit PROVE StoreInv
  OBVIOUS
<1> USE DEF StoreInit
<1>1. dbs \in Seq(Database) /\ Len(dbs) = 0
  OBVIOUS
<1>2. StoreTypeOK
  <2>1. Known \in [Procs -> Nat]
    BY StoreAssumption
  <2>2. 0 \in 0..Len(dbs) /\ 0 \in 0..MaxStoreFaults
    BY <1>1, StoreAssumption
  <2>3. \A p \in Procs : made[p] = FALSE
    OBVIOUS
  <2>4. \A p \in Procs : applied[p] = 0 /\ Known[p] \in Nat
    BY <2>1
  <2>5. mpc \in [Procs -> {"start", "mkdir", "guard", "create", "connect", "identity", "history", "migrate", "open",
                           "closed", "failed", "killed"}]
    OBVIOUS
  <2>6. \A p \in Procs : (made[p] => guard[p] # 0) /\ applied[p] <= Known[p]
    <3>1. \A n \in Nat : 0 <= n
      OBVIOUS
    <3>2. \A p \in Procs : applied[p] <= Known[p]
      BY <2>4, <3>1, Zenon
    <3>3. \A p \in Procs : made[p] => guard[p] # 0
      BY <2>3, Zenon
    <3> QED
      BY <3>2, <3>3, Zenon
  <2>7. guard \in [Procs -> 0..Len(dbs)] /\ conn \in [Procs -> 0..Len(dbs)] /\ made \in [Procs -> BOOLEAN] /\ applied \in [Procs -> Nat]
    BY <2>2
  <2> QED
    BY <2>2, <2>5, <2>6, <2>7 DEF StoreTypeOK
<1>3. StoreShape
  BY <1>1, <1>2 DEF StoreShape, StoreTypeOK, NameIsLatest, ConnectedLater, ReportedFiles, Guarded, Verified
<1>4. SchemaSound
  BY DEF SchemaSound
<1>5. Killed = {}
  BY DEF Killed
<1>6. KilledByFaults
  BY <1>5, FS_EmptySet DEF KilledByFaults
<1> QED
  BY <1>3, <1>4, <1>6 DEF StoreInv, AppliedBehind, Undisturbed, AloneFails, LossExplained, Active

LEMMA StoreInvStep == StoreInv /\ [StoreNext]_storeVars => StoreInv'
<1>1. ASSUME StoreInv, NEW p \in Procs, StoreStep(p), Overlap(p) PROVE StoreInv'
  BY <1>1, StoreShapeStep, SchemaStep, KilledStep, AloneStep, LossStep DEF StoreInv
<1>2. ASSUME StoreInv, UNCHANGED storeVars PROVE StoreInv'
  BY <1>2 DEF StoreInv, storeVars, storeDisk, storeLocals, storeHistory, StoreShape, StoreTypeOK, NameIsLatest, ConnectedLater,
      ReportedFiles, SchemaSound, AppliedBehind, KilledByFaults, Killed, Undisturbed, AloneFails, LossExplained, Active
<1> QED
  BY <1>1, <1>2 DEF StoreNext, StoreStep

LEMMA StoreInvImplies == StoreInv => StoreTypeOK /\ SchemaSound /\ AloneOpens /\ LossExplained
BY DEF StoreInv, StoreShape, AloneFails, AloneOpens, Killed

(* The types of the store. *)
THEOREM StoreTypeCorrect == StoreSpec => []StoreTypeOK
BY StoreInvInit, StoreInvStep, StoreInvImplies, PTL DEF StoreSpec

(* Migrations are applied once and whole, a command alone opens the store, *)
(* and a reported snapshot is lost only with its database, for any number  *)
(* of first commands of any versions and any faults (store/sqlite.go).     *)
THEOREM StoreIsSound == StoreSpec => [](SchemaSound /\ AloneOpens /\ LossExplained)
BY StoreInvInit, StoreInvStep, StoreInvImplies, PTL DEF StoreSpec

-----------------------------------------------------------------------------
(* The orchestrator and the evidence engine. *)

OrchestratorStatuses == {"none", "complete", "partial", "skipped", "unavailable", "failed"}

(* An answer is made when a collector returns, and every collector that    *)
(* is done has put itself into the channel, once.                          *)
Answered ==
    \A c \in Collectors :
        /\ answer[c].status \in OrchestratorStatuses
        /\ answer[c].status # "none" <=> opc[c] \in {"deliver", "done"}

ChannelHoldsDone ==
    /\ channel \in Seq(Collectors)
    /\ ToSet(channel) = {c \in Collectors : opc[c] = "done"}
    /\ IsInjective(channel)

CollectorInv ==
    /\ opc \in [Collectors -> {"wait", "call", "run", "deliver", "done"}]
    /\ late \subseteq Collectors /\ sealed \subseteq Collectors
    /\ DOMAIN answer = Collectors /\ answer = [c \in Collectors |-> answer[c]]
    /\ Answered /\ ChannelHoldsDone
    /\ ConcurrencyBounded /\ OneRecordEach /\ CompleteIsEarned /\ SealedOnlyAccepted

-----------------------------------------------------------------------------
(* The contract of a catalog *)

LEMMA SequenceOfSet ==
    ASSUME NEW S, IsFiniteSet(S)
    PROVE  /\ SetToSeq(S) \in Seq(S)
           /\ S = {} => SetToSeq(S) = <<>>
           /\ \A x \in S : Len(SetToSeq(S)) > 0
<1>1. Cardinality(S) \in Nat
  BY FS_CardinalityType
<1>2. ExistsBijection(1..Cardinality(S), S)
  BY FS_NatBijection, FS_CountingElements
<1>3. PICK f \in [1..Cardinality(S) -> S] : IsInjective(f)
  BY <1>2 DEF ExistsBijection, Bijection, Injection
<1>4. SetToSeq(S) \in [1..Cardinality(S) -> S]
  BY <1>3 DEF SetToSeq
<1>5. S = {} <=> Cardinality(S) = 0
  BY FS_EmptySet
<1> QED
  BY <1>1, <1>4, <1>5

(* A collector with a catalog counts as complete only by a report of every *)
(* target of it.                                                           *)
LEMMA ContractComplete ==
    ASSUME NEW c \in Collectors, Specs[c] # None, NEW report \in Reports, NEW status,
           Contract(c, Returned(status, report)).status = "complete"
    PROVE  LET targets == Contract(c, Returned(status, report)).targets
           IN  targets = report /\ {t.target : t \in ToSet(targets)} = Specs[c]
<1> DEFINE missing == Specs[c] \ {t.target : t \in ToSet(report)}
           Unsupported == {[target |-> t, instance |-> None, status |-> "unsupported"] : t \in missing}
           targets == report \o SetToSeq(Unsupported)
<1>1. ~Violates(c, report)
  BY DEF Contract, Returned, FailedResult
<1>2. Contract(c, Returned(status, report)).targets = targets
  BY <1>1 DEF Contract, Returned, Complement
<1>3. Aggregate(targets) = "complete"
  BY <1>1 DEF Contract, Returned, Complement
<1>4. report \in Seq(ToSet(report)) /\ IsFiniteSet(Unsupported)
  <2>1. IsFiniteSet(Specs[c])
    BY OrchestratorAssumption
  <2>2. IsFiniteSet(missing)
    BY <2>1, FS_Subset
  <2>3. ASSUME NEW M, IsFiniteSet(M) PROVE IsFiniteSet({[target |-> t, instance |-> None, status |-> "unsupported"] : t \in M})
    <3> DEFINE f == [t \in M |-> [target |-> t, instance |-> None, status |-> "unsupported"]]
    <3>1. f \in Surjection(M, {[target |-> t, instance |-> None, status |-> "unsupported"] : t \in M})
      BY DEF Surjection
    <3> QED
      BY <2>3, <3>1, FS_Surjection
  <2> QED
    BY <2>2, <2>3, OrchestratorAssumption
<1>5. Unsupported = {}
  <2>1. SUFFICES ASSUME NEW x \in Unsupported PROVE FALSE
    OBVIOUS
  <2>2. PICK added : added = SetToSeq(Unsupported)
    OBVIOUS
  <2>3. added \in Seq(Unsupported) /\ Len(added) > 0
    BY <1>4, <2>1, <2>2, SequenceOfSet
  <2>4. \A y \in Unsupported : y.status = "unsupported"
    OBVIOUS
  <2>5. added[1].status = "unsupported"
    <3> HIDE DEF Unsupported
    <3> QED
      BY <2>3, <2>4
  <2>6. \A r \in Seq(ToSet(report)), a \in Seq(Unsupported) :
            Len(a) > 0 => Len(r) + 1 \in DOMAIN (r \o a) /\ (r \o a)[Len(r) + 1] = a[1]
    <3> HIDE DEF Unsupported
    <3> QED
      OBVIOUS
  <2>7. added[1] \in ToSet(report \o added)
    BY <1>4, <2>3, <2>6 DEF ToSet
  <2>8. \A t \in ToSet(report \o added) : t.status \in {"complete", "not_present"}
    BY <1>3, <2>2, <2>7 DEF Aggregate
  <2> QED
    BY <2>5, <2>7, <2>8
<1>6. targets = report
  <2>1. PICK added : added = SetToSeq(Unsupported)
    OBVIOUS
  <2>2. added = <<>>
    BY <1>4, <1>5, <2>1, SequenceOfSet, FS_EmptySet
  <2>3. report \o <<>> = report
    BY <1>4
  <2> QED
    BY <2>1, <2>2, <2>3
<1>7. missing = {}
  BY <1>5
<1>8. {t.target : t \in ToSet(report)} = Specs[c]
  BY <1>1, <1>7 DEF Violates
<1> QED
  BY <1>2, <1>6, <1>8

LEMMA ContractRefused ==
    ASSUME NEW c \in Collectors, NEW reason
    PROVE  Contract(c, FailedResult(reason)).status = "failed"
BY DEF Contract, FailedResult

LEMMA ContractTaken ==
    ASSUME NEW c \in Collectors, NEW report \in Reports, NEW status \in {"complete", "failed"}
    PROVE  /\ Contract(c, Returned(status, report)).status \in OrchestratorStatuses \ {"none"}
           /\ Specs[c] = None \/ ~Violates(c, report) => Contract(c, Returned(status, report)).code = "none"
<1>1. \A targets : Aggregate(targets) \in OrchestratorStatuses \ {"none"}
  BY DEF Aggregate, OrchestratorStatuses
<1> QED
  BY <1>1 DEF Contract, Returned, FailedResult, OrchestratorStatuses

-----------------------------------------------------------------------------
(* The channel and the result *)

LEMMA ChannelFull ==
    ASSUME ChannelHoldsDone
    PROVE  /\ IsFiniteSet(ToSet(channel))
           /\ Cardinality(ToSet(channel)) = Len(channel)
           /\ Len(channel) \in Nat /\ Cardinality(Collectors) \in Nat /\ Len(channel) <= Cardinality(Collectors)
<1>1. channel \in [1..Len(channel) -> ToSet(channel)] /\ Len(channel) \in Nat
  BY DEF ChannelHoldsDone, ToSet
<1>2. channel \in Bijection(1..Len(channel), ToSet(channel))
  BY <1>1 DEF ChannelHoldsDone, ToSet, Bijection, Injection, Surjection
<1>3. IsFiniteSet(ToSet(channel)) /\ Cardinality(ToSet(channel)) = Len(channel)
  BY <1>1, <1>2, FS_NatBijection, FS_CountingElements DEF ExistsBijection
<1>4. ToSet(channel) \subseteq Collectors
  BY DEF ChannelHoldsDone
<1> QED
  BY <1>1, <1>3, <1>4, OrchestratorAssumption, FS_Subset, FS_CardinalityType

LEMMA RearrangedFacts ==
    ASSUME NEW s, s \in Seq(Collectors), IsInjective(s), NEW t \in Rearrangements(s),
           \A i, j \in DOMAIN t : i < j => t[i] <= t[j]
    PROVE  /\ ToSet(t) = ToSet(s) /\ Len(t) = Len(s)
           /\ \A i, j \in DOMAIN t : i < j => t[i] < t[j]
<1>1. PICK p \in Bijection(DOMAIN s, DOMAIN s) : t = [i \in DOMAIN s |-> s[p[i]]]
  BY DEF Rearrangements
<1>2. /\ p \in [DOMAIN s -> DOMAIN s]
      /\ \A i, j \in DOMAIN s : p[i] = p[j] => i = j
      /\ \A j \in DOMAIN s : \E i \in DOMAIN s : p[i] = j
  BY DEF Bijection, Injection, Surjection, IsInjective
<1>3. DOMAIN t = DOMAIN s /\ DOMAIN s = 1..Len(s) /\ Len(s) \in Nat
  BY <1>1
<1>4. Len(t) = Len(s)
  BY <1>1, <1>3
<1>5. ToSet(t) = ToSet(s)
  BY <1>1, <1>2 DEF ToSet
<1>6. ASSUME NEW i \in DOMAIN t, NEW j \in DOMAIN t, i < j PROVE t[i] < t[j]
  <2>1. t[i] # t[j]
    BY <1>1, <1>2, <1>3, <1>6 DEF IsInjective
  <2>2. t[i] \in Collectors /\ t[j] \in Collectors
    <3>1. \A k \in DOMAIN s : s[k] \in Collectors
      OBVIOUS
    <3>2. p[i] \in DOMAIN s /\ p[j] \in DOMAIN s /\ t[i] = s[p[i]] /\ t[j] = s[p[j]]
      BY <1>1, <1>2, <1>3
    <3> QED
      BY <3>1, <3>2
  <2>3. t[i] \in Nat /\ t[j] \in Nat /\ t[i] <= t[j]
    BY <1>3, <1>6, <2>2, OrchestratorAssumption
  <2> QED
    BY <2>1, <2>3
<1> QED
  BY <1>4, <1>5, <1>6

-----------------------------------------------------------------------------
LEMMA CollectorInvInit == OrchestratorInit => CollectorInv
<1> SUFFICES ASSUME OrchestratorInit PROVE CollectorInv
  OBVIOUS
<1> USE DEF OrchestratorInit
<1>1. Running = {}
  BY DEF Running
<1>2. ConcurrencyBounded
  BY <1>1, FS_EmptySet, OrchestratorAssumption DEF ConcurrencyBounded
<1>3. Answered /\ SealedOnlyAccepted /\ OneRecordEach /\ CompleteIsEarned
  BY DEF Answered, Unanswered, OrchestratorStatuses, SealedOnlyAccepted, OneRecordEach, CompleteIsEarned
<1>4. ChannelHoldsDone
  BY DEF ChannelHoldsDone, ToSet, IsInjective
<1> QED
  BY <1>2, <1>3, <1>4 DEF CollectorInv

(* A collector moves without a place in the channel or a new answer. *)
LEMMA RunningStep ==
    ASSUME CollectorInv, NEW c \in Collectors, NEW label \in {"call", "run", "deliver", "done"},
           opc[c] # "done", opc' = [opc EXCEPT ![c] = label], opc[c] = "wait" => Cardinality(Running) < MaxConcurrent
    PROVE  ConcurrencyBounded'
<1>1. IsFiniteSet(Running) /\ Cardinality(Running) \in Nat /\ MaxConcurrent \in Nat
  BY OrchestratorAssumption, FS_Subset, FS_CardinalityType DEF Running
<1>2. CASE opc[c] = "wait"
  <2>1. Running' \subseteq Running \cup {c}
    BY DEF CollectorInv, Running
  <2>2. IsFiniteSet(Running \cup {c}) /\ Cardinality(Running \cup {c}) <= Cardinality(Running) + 1
    BY <1>1, FS_AddElement
  <2>3. Cardinality(Running') <= Cardinality(Running \cup {c}) /\ Cardinality(Running') \in Nat /\ Cardinality(Running \cup {c}) \in Nat
    BY <2>1, <2>2, FS_Subset, FS_CardinalityType
  <2>4. Cardinality(Running') <= MaxConcurrent
    BY <1>1, <1>2, <2>2, <2>3
  <2> QED
    BY <2>4 DEF ConcurrencyBounded
<1>3. CASE opc[c] # "wait"
  <2>1. Running' \subseteq Running
    BY <1>3 DEF CollectorInv, Running
  <2> QED
    BY <1>1, <2>1, FS_Subset, FS_CardinalityType DEF CollectorInv, ConcurrencyBounded
<1> QED
  BY <1>2, <1>3

LEMMA CollectorInvStep == CollectorInv /\ [OrchestratorNext]_orchestratorVars => CollectorInv'
<1> USE DEF OrchestratorStatuses
<1>1. ASSUME CollectorInv, NEW c \in Collectors, Admit(c) \/ CallCollector(c) PROVE CollectorInv'
  <2>0. PICK label \in {"call", "run"} : opc' = [opc EXCEPT ![c] = label] /\ opc[c] \in {"wait", "call"}
    BY <1>1 DEF Admit, CallCollector
  <2>1. ConcurrencyBounded'
    BY <1>1, <2>0, RunningStep DEF Admit, CallCollector
  <2>5. /\ UNCHANGED <<answer, late>> /\ sealed' \subseteq sealed \cup {c}
        /\ opc'[c] = label /\ \A d \in Collectors \ {c} : opc'[d] = opc[d]
    BY <1>1, <2>0 DEF Admit, CallCollector, CollectorInv
  <2>6. Answered'
    BY <1>1, <2>0, <2>5 DEF CollectorInv, Answered
  <2>7. CompleteIsEarned'
    BY <1>1, <2>5 DEF CollectorInv, CompleteIsEarned
  <2>8. SealedOnlyAccepted'
    BY <1>1, <2>5 DEF CollectorInv, SealedOnlyAccepted
  <2>2. Answered' /\ SealedOnlyAccepted' /\ CompleteIsEarned'
    BY <2>6, <2>7, <2>8
  <2>3. ChannelHoldsDone'
    BY <1>1, <2>0 DEF Admit, CallCollector, CollectorInv, ChannelHoldsDone
  <2>4. OneRecordEach'
    BY <1>1 DEF Admit, CallCollector, CollectorInv, OneRecordEach
  <2> QED
    BY <1>1, <2>0, <2>1, <2>2, <2>3, <2>4 DEF Admit, CallCollector, CollectorInv
<1>2. ASSUME CollectorInv, NEW c \in Collectors, Deadline(c) PROVE CollectorInv'
  <2>1. Answered' /\ SealedOnlyAccepted' /\ CompleteIsEarned' /\ OneRecordEach' /\ ChannelHoldsDone'
    BY <1>2 DEF Deadline, CollectorInv, Answered, SealedOnlyAccepted, CompleteIsEarned, OneRecordEach, ChannelHoldsDone
  <2>2. ConcurrencyBounded'
    BY <1>2 DEF Deadline, CollectorInv, ConcurrencyBounded, Running
  <2> QED
    BY <1>2, <2>1, <2>2 DEF Deadline, CollectorInv
<1>3. ASSUME CollectorInv, NEW c \in Collectors, CollectorReturns(c) \/ CollectorPanics(c) PROVE CollectorInv'
  <2>0. /\ opc' = [opc EXCEPT ![c] = "deliver"] /\ opc[c] = "run"
        /\ UNCHANGED <<late, channel, collected>>
        /\ sealed' \in {sealed, sealed \ {c}}
    BY <1>3 DEF CollectorReturns, CollectorPanics, Discard
  <2>1. PICK said : answer' = [answer EXCEPT ![c] = said] /\
                    \/ \E reason : said = Contract(c, FailedResult(reason)) /\ sealed' = sealed \ {c}
                    \/ \E report \in Reports, status \in {"complete", "failed"} :
                          /\ said = Contract(c, Returned(status, report)) /\ c \notin late
                          /\ sealed' = IF Specs[c] # None /\ Violates(c, report) THEN sealed \ {c} ELSE sealed
    BY <1>3 DEF CollectorReturns, CollectorPanics, Discard
  <2>2. /\ said.status \in OrchestratorStatuses \ {"none"}
        /\ c \in sealed' => said.code = "none"
        /\ said.status = "complete" /\ Specs[c] # None =>
              c \notin late /\ {t.target : t \in ToSet(said.targets)} = Specs[c] /\ \E report \in Reports : report = said.targets
    <3>1. CASE \E reason : said = Contract(c, FailedResult(reason)) /\ sealed' = sealed \ {c}
      BY <3>1, ContractRefused
    <3>2. CASE \E report \in Reports, status \in {"complete", "failed"} :
                          /\ said = Contract(c, Returned(status, report)) /\ c \notin late
                          /\ sealed' = IF Specs[c] # None /\ Violates(c, report) THEN sealed \ {c} ELSE sealed
      <4>1. PICK report \in Reports, status \in {"complete", "failed"} :
                          /\ said = Contract(c, Returned(status, report)) /\ c \notin late
                          /\ sealed' = IF Specs[c] # None /\ Violates(c, report) THEN sealed \ {c} ELSE sealed
        BY <3>2
      <4> QED
        BY <4>1, ContractTaken, ContractComplete
    <3> QED
      BY <2>1, <3>1, <3>2
  <2>3. answer'[c] = said /\ \A d \in Collectors \ {c} : answer'[d] = answer[d] /\ opc'[d] = opc[d]
    BY <1>3, <2>0, <2>1 DEF CollectorInv
  <2>4. opc'[c] = "deliver"
    BY <1>3, <2>0 DEF CollectorInv
  <2>5. Answered'
    BY <1>3, <2>2, <2>3, <2>4 DEF CollectorInv, Answered
  <2>6. SealedOnlyAccepted'
    BY <1>3, <2>0, <2>2, <2>3, <2>4 DEF CollectorInv, SealedOnlyAccepted
  <2>7. CompleteIsEarned'
    BY <1>3, <2>0, <2>2, <2>3 DEF CollectorInv, CompleteIsEarned
  <2>8. ConcurrencyBounded'
    BY <1>3, <2>0, RunningStep
  <2>9. ChannelHoldsDone'
    BY <1>3, <2>0 DEF CollectorInv, ChannelHoldsDone
  <2>10. OneRecordEach'
    BY <1>3, <2>0, <2>2, <2>3 DEF CollectorInv, OneRecordEach
  <2>11. DOMAIN answer' = Collectors /\ answer' = [d \in Collectors |-> answer'[d]]
    BY <1>3, <2>1 DEF CollectorInv
  <2> QED
    BY <1>3, <2>0, <2>5, <2>6, <2>7, <2>8, <2>9, <2>10, <2>11 DEF CollectorInv
<1>4. ASSUME CollectorInv, NEW c \in Collectors, Deliver(c) PROVE CollectorInv'
  <2>0. opc[c] = "deliver" /\ opc' = [opc EXCEPT ![c] = "done"] /\ channel' = Append(channel, c) /\ UNCHANGED <<late, answer, sealed, collected>>
    BY <1>4 DEF Deliver
  <2>1. ConcurrencyBounded'
    BY <1>4, <2>0, RunningStep
  <2>2. Answered' /\ SealedOnlyAccepted' /\ CompleteIsEarned' /\ OneRecordEach'
    BY <1>4, <2>0 DEF CollectorInv, Answered, SealedOnlyAccepted, CompleteIsEarned, OneRecordEach
  <2>3. c \notin ToSet(channel) /\ channel \in Seq(Collectors) /\ IsInjective(channel)
    BY <1>4, <2>0 DEF CollectorInv, ChannelHoldsDone
  <2>4. channel' \in Seq(Collectors) /\ ToSet(channel') = ToSet(channel) \cup {c} /\ IsInjective(channel')
    BY <2>0, <2>3 DEF ToSet, IsInjective
  <2>5. ChannelHoldsDone'
    BY <1>4, <2>0, <2>4 DEF CollectorInv, ChannelHoldsDone
  <2> QED
    BY <1>4, <2>0, <2>1, <2>2, <2>5 DEF CollectorInv
<1>5. ASSUME CollectorInv, FinishCollect PROVE CollectorInv'
  <2>1. PICK sorted \in Rearrangements(channel) :
            (\A i, j \in DOMAIN sorted : i < j => sorted[i] <= sorted[j]) /\ collected' = sorted
    BY <1>5 DEF FinishCollect
  <2>2. ToSet(channel) = Collectors
    BY <1>5 DEF FinishCollect, CollectorInv, ChannelHoldsDone
  <2>3. ToSet(sorted) = ToSet(channel) /\ Len(sorted) = Len(channel) /\ \A i, j \in DOMAIN sorted : i < j => sorted[i] < sorted[j]
    BY <1>5, <2>1, RearrangedFacts DEF CollectorInv, ChannelHoldsDone
  <2>4. Len(sorted) = Cardinality(Collectors)
    BY <1>5, <2>2, <2>3, ChannelFull DEF CollectorInv
  <2>5. OneRecordEach'
    BY <1>5, <2>1, <2>2, <2>3, <2>4 DEF FinishCollect, CollectorInv, Answered, OneRecordEach
  <2>6. ConcurrencyBounded' /\ ChannelHoldsDone'
    BY <1>5 DEF FinishCollect, CollectorInv, ConcurrencyBounded, Running, ChannelHoldsDone
  <2> QED
    BY <1>5, <2>5, <2>6 DEF FinishCollect, CollectorInv, Answered, SealedOnlyAccepted, CompleteIsEarned
<1>6. ASSUME CollectorInv, UNCHANGED orchestratorVars PROVE CollectorInv'
  <2>1. Answered' /\ SealedOnlyAccepted' /\ CompleteIsEarned' /\ OneRecordEach' /\ ChannelHoldsDone'
    BY <1>6 DEF orchestratorVars, CollectorInv, Answered, SealedOnlyAccepted, CompleteIsEarned, OneRecordEach, ChannelHoldsDone
  <2>2. ConcurrencyBounded'
    BY <1>6 DEF orchestratorVars, CollectorInv, ConcurrencyBounded, Running
  <2> QED
    BY <1>6, <2>1, <2>2 DEF orchestratorVars, CollectorInv
<1> QED
  BY <1>1, <1>2, <1>3, <1>4, <1>5, <1>6 DEF OrchestratorNext, CollectorStep

LEMMA CollectorInvImplies ==
    CollectorInv => OrchestratorTypeOK /\ ConcurrencyBounded /\ OneRecordEach /\ CompleteIsEarned /\ SealedOnlyAccepted
BY ChannelFull DEF CollectorInv, OrchestratorTypeOK, Answered, OrchestratorStatuses

THEOREM OrchestratorTypeCorrect == OrchestratorSpec => []OrchestratorTypeOK
BY CollectorInvInit, CollectorInvStep, CollectorInvImplies, PTL DEF OrchestratorSpec

THEOREM CollectAnswers ==
    OrchestratorSpec => [](ConcurrencyBounded /\ OneRecordEach /\ CompleteIsEarned /\ SealedOnlyAccepted)
BY CollectorInvInit, CollectorInvStep, CollectorInvImplies, PTL DEF OrchestratorSpec

-----------------------------------------------------------------------------
(* EvidenceEngine: its types, one record per candidate, the slots of the   *)
(* callbacks and the answers after a deadline.                             *)

RunningCallbacks == {c \in Candidates : callback[c] = "running"}

Labels == {"next", "preset", "files", "acquire", "await", "done"}

(* A worker is at the place that its candidate asks for.                   *)
PlacesFit ==
    \A w \in Workers :
        /\ epc[w] \in {"next", "done"} <=> work[w] = None
        /\ epc[w] = "preset" => How[work[w]] = "preset"
        /\ epc[w] = "files" => How[work[w]] = "filesystem"
        /\ epc[w] \in {"acquire", "await"} => How[work[w]] # "preset"

(* A candidate left the channel before a worker has it; nothing was asked  *)
(* for one that is still there, and the worker that may ask for its own    *)
(* has seen its last callback return.                                      *)
NotAsked ==
    /\ \A w \in Workers : work[w] \notin jobs
    /\ \A c \in jobs : callback[c] = "none"
    /\ \A w \in Workers : epc[w] \in {"files", "acquire"} /\ work[w] \notin expired => callback[work[w]] # "running"

EngineInv == EngineTypeOK /\ PlacesFit /\ NotAsked /\ SlotsAreCallbacks /\ OneRecordPerCandidate

LEMMA RunningFinite == IsFiniteSet(RunningCallbacks)
BY EngineAssumption, FS_Subset DEF RunningCallbacks

LEMMA EngineInvInit == EngineInit => EngineInv
<1> SUFFICES ASSUME EngineInit PROVE EngineInv
  OBVIOUS
<1> USE EngineAssumption DEF EngineInit
<1>1. RunningCallbacks = {}
  BY DEF RunningCallbacks
<1>2. SlotsAreCallbacks
  BY <1>1, FS_EmptySet DEF SlotsAreCallbacks, RunningCallbacks
<1>3. EngineTypeOK /\ PlacesFit /\ NotAsked /\ OneRecordPerCandidate
  BY DEF EngineTypeOK, PlacesFit, NotAsked, OneRecordPerCandidate
<1> QED
  BY <1>2, <1>3 DEF EngineInv

(* The record is made: the worker is free for the next candidate.          *)
LEMMA Completing ==
    ASSUME EngineInv, NEW w \in Workers, NEW status \in EvidenceStatuses, Complete(w, status),
           epc[w] \notin {"next", "done"}, UNCHANGED <<jobs, expired, callback, slots>>
    PROVE  EngineInv'
<1> USE EngineAssumption DEF EngineInv
<1>1. work[w] \in Candidates /\ work[w] \notin jobs /\ completed[work[w]] = None
  <2>1. work[w] \in Candidates
    BY DEF EngineTypeOK, PlacesFit
  <2>2. completed[work[w]] = None
    BY <2>1 DEF OneRecordPerCandidate
  <2> QED
    BY <2>1, <2>2 DEF NotAsked
<1>2. EngineTypeOK'
  BY <1>1 DEF Complete, EngineGoto, EngineTypeOK
<1>3. PlacesFit' /\ NotAsked'
  BY DEF Complete, EngineGoto, EngineTypeOK, PlacesFit, NotAsked
<1>4. SlotsAreCallbacks'
  BY DEF SlotsAreCallbacks
<1>5. OneRecordPerCandidate'
  <2>1. \A v \in Workers \ {w} : work'[v] = work[v] /\ work[v] # work[w]
    BY <1>1 DEF Complete, EngineTypeOK, OneRecordPerCandidate
  <2>2. work'[w] = None
    BY DEF Complete, EngineTypeOK
  <2>3. \A c \in Candidates \ {work[w]} : completed'[c] = completed[c]
    BY DEF Complete, EngineTypeOK
  <2>4. completed'[work[w]] # None
    BY <1>1 DEF Complete, EngineTypeOK
  <2> QED
    BY <1>1, <2>1, <2>2, <2>3, <2>4 DEF OneRecordPerCandidate
<1> QED
  BY <1>2, <1>3, <1>4, <1>5

(* The worker goes on with its candidate.                                  *)
LEMMA Moving ==
    ASSUME EngineInv, NEW w \in Workers, NEW label \in {"files", "acquire", "await"},
           epc[w] \in {"files", "acquire", "await"}, EngineGoto(w, label),
           label = "files" => How[work[w]] = "filesystem",
           label # "await" /\ work[w] \notin expired => callback[work[w]] # "running",
           UNCHANGED <<jobs, work, expired, completed>>,
           callback' \in [Candidates -> {"none", "running", "answered", "failed"}],
           \A c \in Candidates : c # work[w] => callback'[c] = callback[c],
           label # "await" => callback' = callback,
           slots' \in 0 .. Slots, SlotsAreCallbacks'
    PROVE  EngineInv'
<1> USE EngineAssumption DEF EngineInv
<1>1. epc' = [epc EXCEPT ![w] = label] /\ work' = work /\ jobs' = jobs
  BY DEF EngineGoto
<1>2. EngineTypeOK'
  BY <1>1 DEF EngineTypeOK
<1>3. work[w] \in Candidates
  BY DEF EngineTypeOK, PlacesFit
<1>4. PlacesFit'
  <2>1. How[work[w]] # "preset"
    BY DEF PlacesFit
  <2> QED
    BY <1>1, <2>1 DEF PlacesFit, EngineTypeOK
<1>5. NotAsked'
  <2>1. \A c \in jobs : c # work[w] /\ c \in Candidates
    BY DEF NotAsked, EngineTypeOK
  <2>2. \A v \in Workers \ {w} : epc[v] \in {"files", "acquire"} => work[v] # work[w] /\ work[v] \in Candidates
    BY <1>3 DEF OneRecordPerCandidate, PlacesFit, EngineTypeOK
  <2>3. \A c \in jobs' : callback'[c] = "none"
    BY <1>1, <2>1 DEF NotAsked
  <2>4. ASSUME NEW v \in Workers, epc'[v] \in {"files", "acquire"}, work'[v] \notin expired'
        PROVE  callback'[work'[v]] # "running"
    <3>1. CASE v = w
      BY <1>1, <2>4, <3>1 DEF EngineTypeOK
    <3>2. CASE v # w
      <4>1. epc[v] \in {"files", "acquire"} /\ work'[v] = work[v] /\ work[v] \notin expired
        BY <1>1, <2>4, <3>2 DEF EngineTypeOK
      <4>2. callback[work[v]] # "running"
        BY <4>1 DEF NotAsked
      <4>3. work[v] # work[w] /\ work[v] \in Candidates
        BY <2>2, <3>2, <4>1
      <4> QED
        BY <4>1, <4>2, <4>3
    <3> QED
      BY <3>1, <3>2
  <2> QED
    BY <1>1, <2>3, <2>4 DEF NotAsked
<1>6. OneRecordPerCandidate'
  BY <1>1 DEF OneRecordPerCandidate
<1> QED
  BY <1>2, <1>4, <1>5, <1>6

(* Only file and semantic candidates come to a callback.                   *)
LEMMA FileOrHasher ==
    ASSUME EngineInv, NEW w \in Workers, epc[w] \in {"acquire", "await"}, How[work[w]] # "semantic"
    PROVE  How[work[w]] = "filesystem"
<1>1. work[w] \in Candidates /\ How[work[w]] # "preset"
  BY DEF EngineInv, PlacesFit, EngineTypeOK
<1>2. How[work[w]] \in {"preset", "semantic", "filesystem"}
  BY <1>1, EngineAssumption
<1> QED
  BY <1>1, <1>2

LEMMA EngineInvStep == EngineInv /\ [EngineNext]_engineVars => EngineInv'
<1> SUFFICES ASSUME EngineInv, [EngineNext]_engineVars PROVE EngineInv'
  OBVIOUS
<1> USE EngineAssumption
<1>1. ASSUME NEW w \in Workers, TakeJob(w) PROVE EngineInv'
  <2>1. PICK c \in jobs :
          /\ jobs' = jobs \ {c}
          /\ work' = [work EXCEPT ![w] = c]
          /\ EngineGoto(w, CASE How[c] = "preset" -> "preset" [] How[c] = "semantic" -> "acquire" [] OTHER -> "files")
    BY <1>1 DEF TakeJob
  <2>2. epc[w] = "next" /\ UNCHANGED <<expired, callback, slots, completed>>
    BY <1>1 DEF TakeJob
  <2>3. c \in Candidates /\ How[c] \in {"preset", "semantic", "filesystem"} /\ callback[c] = "none" /\ work[w] = None
    BY <2>1, <2>2 DEF EngineInv, EngineTypeOK, NotAsked, PlacesFit
  <2>4. \E label \in {"preset", "acquire", "files"} :
          /\ epc' = [epc EXCEPT ![w] = label]
          /\ label = "preset" <=> How[c] = "preset"
          /\ label = "files" <=> How[c] = "filesystem"
    BY <2>1, <2>3 DEF EngineGoto
  <2>5. EngineTypeOK'
    BY <2>1, <2>2, <2>3, <2>4 DEF EngineInv, EngineTypeOK
  <2>6. PlacesFit'
    BY <2>1, <2>3, <2>4 DEF EngineInv, EngineTypeOK, PlacesFit
  <2>7. \A v \in Workers : work[v] # c
    BY <2>1 DEF EngineInv, NotAsked
  <2>8. NotAsked'
    <3>1. \A v \in Workers : work'[v] \notin jobs'
      BY <2>1 DEF EngineInv, EngineTypeOK, NotAsked
    <3>2. \A d \in jobs' : callback'[d] = "none"
      BY <2>1, <2>2 DEF EngineInv, NotAsked
    <3>3. ASSUME NEW v \in Workers, epc'[v] \in {"files", "acquire"}, work'[v] \notin expired'
          PROVE  callback'[work'[v]] # "running"
      <4>1. CASE v = w
        BY <2>1, <2>2, <2>3, <4>1 DEF EngineInv, EngineTypeOK
      <4>2. CASE v # w
        BY <2>1, <2>2, <2>4, <3>3, <4>2 DEF EngineInv, EngineTypeOK, NotAsked
      <4> QED
        BY <4>1, <4>2
    <3> QED
      BY <3>1, <3>2, <3>3 DEF NotAsked
  <2>9. SlotsAreCallbacks'
    BY <2>2 DEF EngineInv, SlotsAreCallbacks
  <2>10. OneRecordPerCandidate'
    <3>1. \A d \in Candidates : completed[d] # None <=> d \notin jobs /\ \A v \in Workers : work[v] # d
      BY DEF EngineInv, OneRecordPerCandidate
    <3>2. completed[c] = None
      BY <2>1, <2>3, <3>1
    <3>3. work'[w] = c /\ \A v \in Workers \ {w} : work'[v] = work[v]
      BY <2>1 DEF EngineInv, EngineTypeOK
    <3>4. ASSUME NEW d \in Candidates
          PROVE  completed'[d] # None <=> d \notin jobs' /\ \A v \in Workers : work'[v] # d
      <4>1. CASE d = c
        BY <2>2, <3>2, <3>3, <4>1
      <4>2. CASE d # c
        BY <2>1, <2>2, <2>3, <3>1, <3>3, <4>2
      <4> QED
        BY <4>1, <4>2
    <3>5. \A v, u \in Workers : v # u /\ work'[v] # None => work'[v] # work'[u]
      BY <2>3, <2>7, <3>3 DEF EngineInv, OneRecordPerCandidate
    <3> QED
      BY <3>4, <3>5 DEF OneRecordPerCandidate
  <2> QED
    BY <2>5, <2>6, <2>8, <2>9, <2>10 DEF EngineInv
<1>2. ASSUME NEW w \in Workers, Preset(w) \/ WorkerPanics(w) PROVE EngineInv'
  <2>1. \E status \in EvidenceStatuses : Complete(w, status)
    BY <1>2 DEF Preset, WorkerPanics, EvidenceStatuses
  <2> QED
    BY <1>2, <2>1, Completing DEF Preset, WorkerPanics
<1>3. ASSUME NEW w \in Workers, CollectFiles(w) PROVE EngineInv'
  <2>1. CASE \E status \in EvidenceStatuses : Complete(w, status)
    BY <1>3, <2>1, Completing DEF CollectFiles
  <2>2. CASE work[w] \notin expired /\ EngineGoto(w, "acquire") /\ UNCHANGED <<completed, work>>
    <3>1. callback[work[w]] # "running"
      BY <1>3, <2>2 DEF CollectFiles, EngineInv, NotAsked
    <3> QED
      BY <1>3, <2>2, <3>1, Moving DEF CollectFiles, EngineInv, EngineTypeOK, SlotsAreCallbacks
  <2> QED
    BY <1>3, <2>1, <2>2 DEF CollectFiles, EvidenceStatuses
<1>4. ASSUME NEW w \in Workers, epc[w] \in {"acquire", "await"}, WithoutAnswer(w),
             work[w] \in expired \/ callback[work[w]] = "failed",
             UNCHANGED <<jobs, expired, callback, slots>>
      PROVE  EngineInv'
  <2>1. CASE How[work[w]] = "semantic"
    BY <1>4, <2>1, Completing DEF WithoutAnswer, EvidenceStatuses
  <2>2. CASE How[work[w]] # "semantic"
    <3>1. How[work[w]] = "filesystem"
      BY <1>4, <2>2, FileOrHasher
    <3> QED
      BY <1>4, <2>2, <3>1, Moving DEF WithoutAnswer, EngineInv, EngineTypeOK, SlotsAreCallbacks
  <2> QED
    BY <2>1, <2>2
<1>5. ASSUME NEW w \in Workers, Acquire(w) PROVE EngineInv'
  <2>1. CASE work[w] \in expired /\ WithoutAnswer(w) /\ UNCHANGED <<callback, slots>>
    BY <1>4, <1>5, <2>1 DEF Acquire
  <2>2. CASE /\ slots < Slots /\ slots' = slots + 1 /\ work[w] \notin expired
             /\ callback' = [callback EXCEPT ![work[w]] = "running"]
             /\ EngineGoto(w, "await") /\ UNCHANGED <<completed, work>>
    <3>1. work[w] \in Candidates /\ callback[work[w]] # "running"
      BY <1>5, <2>2 DEF Acquire, EngineInv, EngineTypeOK, PlacesFit, NotAsked
    <3>2. RunningCallbacks' = RunningCallbacks \cup {work[w]} /\ work[w] \notin RunningCallbacks
      BY <2>2, <3>1 DEF RunningCallbacks, EngineInv, EngineTypeOK
    <3>3. Cardinality(RunningCallbacks') = Cardinality(RunningCallbacks) + 1
      BY <3>2, RunningFinite, FS_AddElement
    <3>4. SlotsAreCallbacks'
      BY <2>2, <3>3 DEF EngineInv, SlotsAreCallbacks, RunningCallbacks
    <3>5. slots' \in 0 .. Slots /\ callback' \in [Candidates -> {"none", "running", "answered", "failed"}]
      <4>1. slots \in Nat /\ slots < Slots /\ Slots \in Nat /\ slots' = slots + 1
        BY <2>2, EngineAssumption DEF EngineInv, EngineTypeOK
      <4>2. callback' \in [Candidates -> {"none", "running", "answered", "failed"}]
        BY <2>2 DEF EngineInv, EngineTypeOK
      <4> QED
        BY <4>1, <4>2
    <3>6. \A c \in Candidates : c # work[w] => callback'[c] = callback[c]
      BY <2>2 DEF EngineInv, EngineTypeOK
    <3> QED
      BY <1>5, <2>2, <3>4, <3>5, <3>6, Moving DEF Acquire
  <2> QED
    BY <1>5, <2>1, <2>2 DEF Acquire
<1>6. ASSUME NEW w \in Workers, Await(w) PROVE EngineInv'
  <2>1. CASE (callback[work[w]] = "failed" \/ work[w] \in expired) /\ WithoutAnswer(w)
    BY <1>4, <1>6, <2>1 DEF Await
  <2>2. CASE How[work[w]] = "semantic" /\ Complete(w, "complete")
    BY <1>6, <2>2, Completing DEF Await, EvidenceStatuses
  <2>3. CASE /\ How[work[w]] # "semantic" /\ callback[work[w]] = "answered"
             /\ EngineGoto(w, "files") /\ UNCHANGED <<completed, work>>
    <3>1. How[work[w]] = "filesystem"
      BY <1>6, <2>3, FileOrHasher DEF Await
    <3> QED
      BY <1>6, <2>3, <3>1, Moving DEF Await, EngineInv, EngineTypeOK, SlotsAreCallbacks
  <2> QED
    BY <1>6, <2>1, <2>2, <2>3 DEF Await
<1>7. ASSUME NEW w \in Workers, WorkerDone(w) PROVE EngineInv'
  BY <1>7 DEF WorkerDone, EngineGoto, EngineInv, EngineTypeOK, PlacesFit, NotAsked, SlotsAreCallbacks, OneRecordPerCandidate
<1>8. ASSUME NEW w \in Workers, ExpireTarget(w) PROVE EngineInv'
  <2>1. expired' \subseteq Candidates /\ expired \subseteq expired'
    BY <1>8 DEF ExpireTarget, EngineInv, EngineTypeOK
  <2>2. UNCHANGED <<jobs, epc, work, callback, slots, completed>>
    BY <1>8 DEF ExpireTarget
  <2> QED
    BY <2>1, <2>2 DEF EngineInv, EngineTypeOK, PlacesFit, NotAsked, SlotsAreCallbacks, OneRecordPerCandidate
<1>9. ASSUME NEW c \in Candidates, CallbackReturns(c) PROVE EngineInv'
  <2>1. PICK r \in {"answered", "failed"} : callback' = [callback EXCEPT ![c] = r]
    BY <1>9 DEF CallbackReturns
  <2>2. callback[c] = "running" /\ slots' = slots - 1 /\ UNCHANGED <<jobs, epc, work, expired, completed>>
    BY <1>9 DEF CallbackReturns
  <2>3. RunningCallbacks' = RunningCallbacks \ {c} /\ c \in RunningCallbacks
    BY <2>1, <2>2 DEF RunningCallbacks, EngineInv, EngineTypeOK
  <2>4. Cardinality(RunningCallbacks') = Cardinality(RunningCallbacks) - 1
    BY <2>3, RunningFinite, FS_RemoveElement
  <2>5. SlotsAreCallbacks'
    BY <2>2, <2>4 DEF EngineInv, SlotsAreCallbacks, RunningCallbacks
  <2>6. slots # 0
    <3>1. RunningCallbacks # {}
      BY <2>3
    <3>2. Cardinality(RunningCallbacks) # 0
      BY <3>1, RunningFinite, FS_EmptySet
    <3> QED
      BY <3>2 DEF EngineInv, SlotsAreCallbacks, RunningCallbacks
  <2>7. EngineTypeOK'
    BY <2>1, <2>2, <2>6 DEF EngineInv, EngineTypeOK
  <2>8. PlacesFit' /\ OneRecordPerCandidate'
    BY <2>2 DEF EngineInv, PlacesFit, OneRecordPerCandidate
  <2>9. NotAsked'
    BY <2>1, <2>2 DEF EngineInv, EngineTypeOK, NotAsked
  <2> QED
    BY <2>5, <2>7, <2>8, <2>9 DEF EngineInv
<1>10. CASE UNCHANGED engineVars
  BY <1>10 DEF engineVars, EngineInv, EngineTypeOK, PlacesFit, NotAsked, SlotsAreCallbacks, OneRecordPerCandidate
<1> QED
  BY <1>1, <1>2, <1>3, <1>5, <1>6, <1>7, <1>8, <1>9, <1>10 DEF EngineNext, WorkerStep

-----------------------------------------------------------------------------
(* The variables of the engine stay within their types. *)
THEOREM EngineTypeCorrect == EngineSpec => []EngineTypeOK
BY EngineInvInit, EngineInvStep, PTL DEF EngineSpec, EngineInv

(* A semantic digest is only taken from an answer before the deadline.     *)
LEMMA Punctual ==
    ASSUME EngineInv, [EngineNext]_engineVars, NEW c \in Candidates,
           completed'[c] = "complete", completed[c] = None, How[c] = "semantic"
    PROVE  callback[c] = "answered" /\ c \notin expired
<1> USE EngineAssumption
<1>0. completed \in [Candidates -> EvidenceStatuses \cup {None}] /\ None # "complete"
  BY DEF EngineInv, EngineTypeOK, EvidenceStatuses
<1>1. PICK w \in Workers : Preset(w) \/ CollectFiles(w) \/ Acquire(w) \/ Await(w) \/ WorkerPanics(w)
  BY <1>0 DEF EngineNext, WorkerStep, TakeJob, WorkerDone, ExpireTarget, CallbackReturns, engineVars
<1>2. work[w] = c
  BY <1>0, <1>1 DEF Preset, CollectFiles, Acquire, Await, WorkerPanics, WithoutAnswer, Complete
<1>3. epc[w] \notin {"preset", "files"}
  BY <1>2 DEF EngineInv, PlacesFit
<1>4. Acquire(w) \/ Await(w)
  BY <1>1, <1>3 DEF Preset, CollectFiles, WorkerPanics
<1>5. completed' # [completed EXCEPT ![c] = "unavailable"] /\ completed' # completed
  BY <1>0
<1>6. ~Acquire(w)
  BY <1>2, <1>5 DEF Acquire, WithoutAnswer, Complete
<1> QED
  BY <1>2, <1>4, <1>5, <1>6 DEF Await, WithoutAnswer, Complete

(* Whatever hangs, fails, panics or is late: every candidate has one       *)
(* record, slots are held by running callbacks and by nothing else, and no *)
(* answer after the deadline is a digest (evidence/engine.go,              *)
(* evidence/callbacks.go).                                                 *)
THEOREM EngineSound == EngineSpec => EvidenceSound
<1>1. EngineInv /\ [EngineNext]_engineVars =>
        [\A c \in Candidates :
            completed'[c] = "complete" /\ completed[c] = None /\ How[c] = "semantic" =>
                callback[c] = "answered" /\ c \notin expired]_engineVars
  BY Punctual
<1>2. EngineInv => SlotsAreCallbacks /\ OneRecordPerCandidate
  BY DEF EngineInv
<1> QED
  BY <1>1, <1>2, EngineInvInit, EngineInvStep, PTL DEF EngineSpec, EvidenceSound, NoLateDigest

-----------------------------------------------------------------------------
(* The archive, the schedule and the machine. *)

(* Whoever is past the lock holds it, and a command knows its run. *)
Locked == {"create", "write", "rename", "verify", "list", "remove", "done", "source", "exists", "link", "unlink"}

HolderWorks == \A p \in Procs : apc[p] \in Locked => auditLock = p

JobsOK ==
    \A p \in Procs :
        /\ job[p] \in {"save", "export"} => run[p] \in Runs
        /\ apc[p] = "lock" => job[p] # None
        /\ apc[p] \in {"create", "write", "rename", "verify", "source", "exists", "link", "unlink"} => run[p] \in Runs

(* Every archive that a prune has yet to remove, and that still is there,  *)
(* has a newer whole one that it will not remove, or had it until the user *)
(* came.                                                                   *)
VictimsSpared ==
    \A p \in Procs : apc[p] = "remove" =>
        \A n \in victims[p] : archive[n] # "missing" =>
            \E m \in Runs \ ({n} \cup victims[p]) : m \in touched \/ (Newer(m, n) /\ archive[m] = "whole")

(* What stays when a prune at time t is through with its victims keeps to  *)
(* the budgets.                                                            *)
Within(S, t) ==
    \/ Cardinality(S) <= 1
    \/ /\ Bytes(S) <= RetentionBytes
       /\ \A n \in S : t - created[n] > RetentionAge => \A m \in S \ {n} : Newer(n, m)

PruneKeepsBudget ==
    \A p \in Procs :
        /\ apc[p] = "remove" => Within(Valid \ victims[p], now[p])
        /\ apc[p] = "done" => Within(Valid, now[p])

AuditInv ==
    AuditTypeOK /\ HolderWorks /\ JobsOK /\ VictimsSpared /\ PruneKeepsBudget /\ PublishedWhole /\ TempsExplained

-----------------------------------------------------------------------------
(* The order of the listing, and sums of sizes *)

(* A finite set has a minimal element in any strict order. *)
LEMMA FiniteMinimal ==
    ASSUME NEW S, IsFiniteSet(S), S # {}, NEW R,
           \A x \in S : <<x, x>> \notin R,
           \A x, y, z \in S : <<x, y>> \in R /\ <<y, z>> \in R => <<x, z>> \in R
    PROVE  \E x \in S : \A y \in S : <<y, x>> \notin R
<1> DEFINE Below(x) == {y \in S : <<y, x>> \in R}
           T == {Below(x) : x \in S}
<1>1. T \subseteq FiniteSubsetsOf(S) /\ T # {}
  <2>1. \A V \in SUBSET S : V \in FiniteSubsetsOf(S)
    BY FS_Subset DEF FiniteSubsetsOf
  <2>2. \A x \in S : Below(x) \in SUBSET S
    OBVIOUS
  <2> HIDE DEF Below
  <2> QED
    BY <2>1, <2>2
<1>2. IsWellFoundedOn(StrictSubsetOrdering(S), FiniteSubsetsOf(S))
  BY FS_StrictSubsetOrderingWellFounded
<1>3. PICK X \in T : \A Y \in T : <<Y, X>> \notin StrictSubsetOrdering(S)
  <2> HIDE DEF T
  <2> QED
    BY <1>1, <1>2, WFMin
<1>4. PICK x \in S : X = Below(x)
  BY <1>3
<1>5. ASSUME NEW y \in S, <<y, x>> \in R PROVE FALSE
  <2>1. Below(y) \subseteq Below(x) /\ y \in Below(x) /\ y \notin Below(y)
    BY <1>5
  <2>2. <<Below(y), Below(x)>> \in StrictSubsetOrdering(S)
    BY <2>1 DEF StrictSubsetOrdering
  <2> QED
    BY <1>3, <1>4, <2>2
<1> QED
  BY <1>5

LEMMA NewerOrder ==
    ASSUME created \in [Runs -> Nat]
    PROVE  /\ \A n \in Runs : ~Newer(n, n)
           /\ \A n, m \in Runs : n = m \/ Newer(n, m) \/ Newer(m, n)
           /\ \A n, m \in Runs : ~(Newer(n, m) /\ Newer(m, n))
           /\ \A n, m, k \in Runs : Newer(n, m) /\ Newer(m, k) => Newer(n, k)
BY AuditAssumption DEF Newer

LEMMA Extremes ==
    ASSUME created \in [Runs -> Nat], NEW S \in SUBSET Runs, S # {}
    PROVE  /\ \E n \in S : \A m \in S : m = n \/ Newer(n, m)
           /\ \E n \in S : \A m \in S : m = n \/ Newer(m, n)
<1>1. IsFiniteSet(S)
  BY AuditAssumption, FS_Subset
<1>2. \E n \in S : \A m \in S : <<m, n>> \notin {z \in S \X S : Newer(z[1], z[2])}
  <2> DEFINE R == {z \in S \X S : Newer(z[1], z[2])}
  <2>1. \A x \in S : <<x, x>> \notin R
    BY NewerOrder
  <2>2. \A x, y, z \in S : <<x, y>> \in R /\ <<y, z>> \in R => <<x, z>> \in R
    BY NewerOrder
  <2> HIDE DEF R
  <2>3. \E n \in S : \A m \in S : <<m, n>> \notin R
    BY <1>1, <2>1, <2>2, FiniteMinimal
  <2> QED
    BY <2>3 DEF R
<1>3. \E n \in S : \A m \in S : <<m, n>> \notin {z \in S \X S : Newer(z[2], z[1])}
  <2> DEFINE R == {z \in S \X S : Newer(z[2], z[1])}
  <2>1. \A x \in S : <<x, x>> \notin R
    BY NewerOrder
  <2>2. \A x, y, z \in S : <<x, y>> \in R /\ <<y, z>> \in R => <<x, z>> \in R
    BY NewerOrder
  <2> HIDE DEF R
  <2>3. \E n \in S : \A m \in S : <<m, n>> \notin R
    BY <1>1, <2>1, <2>2, FiniteMinimal
  <2> QED
    BY <2>3 DEF R
<1> QED
  BY <1>2, <1>3, NewerOrder

LEMMA BytesMonotone ==
    ASSUME NEW T \in SUBSET Runs, NEW S \in SUBSET T
    PROVE  Bytes(S) \in Nat /\ Bytes(T) \in Nat /\ Bytes(S) <= Bytes(T)
<1> DEFINE Sets(V) == {BytesOf(r) : r \in V}
<1>1. ASSUME NEW r \in Runs PROVE IsFiniteSet(BytesOf(r))
  <2>1. SizeOf[r] \in Int
    BY AuditAssumption
  <2>2. IsFiniteSet({r})
    BY FS_Singleton
  <2>3. IsFiniteSet(1..SizeOf[r])
    BY <2>1, FS_Interval
  <2> QED
    BY <2>2, <2>3, FS_Product DEF BytesOf
<1>2. IsFiniteSet(Sets(T))
  <2>1. IsFiniteSet(T)
    BY AuditAssumption, FS_Subset
  <2> DEFINE f == [r \in T |-> BytesOf(r)]
  <2>2. f \in Surjection(T, Sets(T))
    BY DEF Surjection
  <2> HIDE DEF f, Sets
  <2> QED
    BY <2>1, <2>2, FS_Surjection
<1>3. IsFiniteSet(UNION Sets(T))
  BY <1>1, <1>2, FS_UNION
<1>4. UNION Sets(S) \in SUBSET UNION Sets(T)
  OBVIOUS
<1>5. Bytes(S) = Cardinality(UNION Sets(S)) /\ Bytes(T) = Cardinality(UNION Sets(T))
  BY DEF Bytes
<1> HIDE DEF Sets
<1>6. IsFiniteSet(UNION Sets(S)) /\ Cardinality(UNION Sets(S)) <= Cardinality(UNION Sets(T))
  BY <1>3, <1>4, FS_Subset
<1> QED
  BY <1>3, <1>5, <1>6, FS_CardinalityType

-----------------------------------------------------------------------------
(* Types *)

LocalsTyped ==
    /\ auditLock \in Procs \cup {None}
    /\ apc \in [Procs -> Locked \cup {"idle", "lock"}]
    /\ job \in [Procs -> {None, "save", "prune", "export"}]
    /\ run \in [Procs -> Runs \cup {None}]
    /\ now \in [Procs -> Readings]
    /\ victims \in [Procs -> SUBSET Runs]

FilesTyped ==
    /\ archive \in [Runs -> {"missing", "whole", "damaged"}]
    /\ created \in [Runs -> Readings]
    /\ orphans \in Nat /\ outTemps \in Nat
    /\ out \in {None, UserFile} \cup Runs
    /\ touched \in SUBSET Runs
    /\ touches \in 0..MaxTouches
    /\ auditFaults \in 0..MaxAuditFaults

LEMMA AuditTypes == AuditTypeOK <=> LocalsTyped /\ FilesTyped
<1>1. Locked \cup {"idle", "lock"} = {"idle", "lock", "create", "write", "rename", "verify", "list", "remove", "done",
                                      "source", "exists", "link", "unlink"}
  BY DEF Locked
<1> QED
  BY <1>1 DEF AuditTypeOK, LocalsTyped, FilesTyped

LEMMA ReturnLocals ==
    ASSUME LocalsTyped, NEW p \in Procs, AuditReturn(p)
    PROVE  LocalsTyped'
BY AuditAssumption DEF LocalsTyped, AuditReturn, AuditGoto

LEMMA GotoLocals ==
    ASSUME LocalsTyped, NEW p \in Procs, NEW label \in Locked \cup {"idle", "lock"}, AuditGoto(p, label), UNCHANGED auditKept
    PROVE  LocalsTyped'
BY DEF LocalsTyped, AuditGoto, auditKept

LEMMA FaultTyped ==
    ASSUME FilesTyped
    PROVE  /\ AuditFault => auditFaults' \in 0..MaxAuditFaults
           /\ orphans + 1 \in Nat /\ outTemps + 1 \in Nat
BY AuditAssumption DEF FilesTyped, AuditFault

LEMMA LocalsStep ==
    ASSUME LocalsTyped, JobsOK, AuditNext
    PROVE  LocalsTyped'
<1> USE DEF Locked
<1>1. ASSUME NEW p \in Procs, LockAudit(p) PROVE LocalsTyped'
  <2>1. CASE AuditReturn(p)
    BY <2>1, ReturnLocals
  <2>2. CASE ~AuditReturn(p)
    BY <1>1, <2>2 DEF LockAudit, AuditGoto, LocalsTyped
  <2> QED
    BY <2>1, <2>2
<1>2. ASSUME NEW p \in Procs, CreateTemp(p) PROVE LocalsTyped'
  <2>1. CASE AuditReturn(p)
    BY <2>1, ReturnLocals
  <2>2. CASE ~AuditReturn(p)
    BY <1>2, <2>2 DEF CreateTemp, AuditGoto, LocalsTyped
  <2> QED
    BY <2>1, <2>2
<1>3. ASSUME NEW p \in Procs, WriteTemp(p) \/ RenameTemp(p) \/ VerifyPublished(p) PROVE LocalsTyped'
  BY <1>3, ReturnLocals, GotoLocals DEF WriteTemp, RenameTemp, VerifyPublished, DropTemp
<1>4. ASSUME NEW p \in Procs, ListAndChoose(p) PROVE LocalsTyped'
  <2>1. CASE AuditReturn(p)
    BY <2>1, ReturnLocals
  <2>2. CASE ~AuditReturn(p)
    <3>1. PICK t \in Readings : now' = [now EXCEPT ![p] = t] /\ victims' = [victims EXCEPT ![p] = Victims(t)]
      BY <1>4, <2>2 DEF ListAndChoose
    <3>2. Victims(t) \in SUBSET Runs
      BY DEF Victims, Valid
    <3>3. apc' = [apc EXCEPT ![p] = "remove"] /\ UNCHANGED <<auditLock, job, run>>
      BY <1>4, <2>2 DEF ListAndChoose, AuditGoto
    <3> QED
      BY <3>1, <3>2, <3>3 DEF LocalsTyped
  <2> QED
    BY <2>1, <2>2
<1>5. ASSUME NEW p \in Procs, RemoveVictim(p) PROVE LocalsTyped'
  <2>1. CASE AuditReturn(p)
    BY <2>1, ReturnLocals
  <2>2. CASE ~AuditReturn(p)
    BY <1>5, <2>2 DEF RemoveVictim, LocalsTyped
  <2> QED
    BY <2>1, <2>2
<1>6. ASSUME NEW p \in Procs, FinishPrune(p) \/ AuditDone(p) PROVE LocalsTyped'
  BY <1>6, ReturnLocals, GotoLocals DEF FinishPrune, AuditDone
<1>7. ASSUME NEW p \in Procs, ReadSource(p) \/ WriteExport(p) \/ LinkExport(p) \/ UnlinkExport(p) PROVE LocalsTyped'
  BY <1>7, ReturnLocals, GotoLocals DEF ReadSource, WriteExport, LinkExport, UnlinkExport
<1>8. ASSUME NEW p \in Procs, AuditCrash(p) PROVE LocalsTyped'
  BY <1>8, ReturnLocals DEF AuditCrash
<1>9. ASSUME NEW p \in Procs, NEW r \in Runs, BeginSave(p, r) \/ BeginExport(p, r) PROVE LocalsTyped'
  BY <1>9 DEF BeginSave, BeginExport, AuditGoto, LocalsTyped
<1>10. ASSUME NEW p \in Procs, BeginPrune(p) PROVE LocalsTyped'
  BY <1>10 DEF BeginPrune, AuditGoto, LocalsTyped
<1>11. CASE TouchArchive \/ TouchOutput
  BY <1>11 DEF TouchArchive, TouchOutput, auditLocals, LocalsTyped
<1> QED
  BY <1>1, <1>2, <1>3, <1>4, <1>5, <1>6, <1>7, <1>8, <1>9, <1>10, <1>11 DEF AuditNext, AuditStep

LEMMA FilesStep ==
    ASSUME LocalsTyped, FilesTyped, JobsOK, AuditNext
    PROVE  FilesTyped'
<1> USE FaultTyped DEF auditFiles, userKept
<1>1. ASSUME NEW p \in Procs, LockAudit(p) \/ CreateTemp(p) \/ WriteTemp(p) \/ VerifyPublished(p) PROVE FilesTyped'
  BY <1>1 DEF LockAudit, CreateTemp, WriteTemp, VerifyPublished, DropTemp, FilesTyped
<1>2. ASSUME NEW p \in Procs, RenameTemp(p) PROVE FilesTyped'
  <2>1. now[p] \in Readings
    BY DEF LocalsTyped
  <2> QED
    BY <1>2, <2>1 DEF RenameTemp, DropTemp, FilesTyped
<1>3. ASSUME NEW p \in Procs, ListAndChoose(p) \/ FinishPrune(p) \/ AuditDone(p) \/ ReadSource(p) PROVE FilesTyped'
  BY <1>3 DEF ListAndChoose, FinishPrune, AuditDone, ReadSource, FilesTyped
<1>4. ASSUME NEW p \in Procs, RemoveVictim(p) PROVE FilesTyped'
  BY <1>4, AuditAssumption DEF RemoveVictim, FilesTyped
<1>5. ASSUME NEW p \in Procs, WriteExport(p) \/ UnlinkExport(p) PROVE FilesTyped'
  BY <1>5 DEF WriteExport, UnlinkExport, FilesTyped
<1>6. ASSUME NEW p \in Procs, LinkExport(p) PROVE FilesTyped'
  BY <1>6 DEF LinkExport, JobsOK, FilesTyped
<1>7. ASSUME NEW p \in Procs, AuditCrash(p) PROVE FilesTyped'
  BY <1>7 DEF AuditCrash, FilesTyped
<1>8. ASSUME NEW p \in Procs, NEW r \in Runs, BeginSave(p, r) \/ BeginExport(p, r) PROVE FilesTyped'
  BY <1>8 DEF BeginSave, BeginExport, FilesTyped
<1>9. ASSUME NEW p \in Procs, BeginPrune(p) PROVE FilesTyped'
  BY <1>9 DEF BeginPrune, FilesTyped
<1>10. CASE TouchArchive
  BY <1>10, AuditAssumption DEF TouchArchive, FilesTyped
<1>11. CASE TouchOutput
  BY <1>11, AuditAssumption DEF TouchOutput, FilesTyped
<1> QED
  BY <1>1, <1>2, <1>3, <1>4, <1>5, <1>6, <1>7, <1>8, <1>9, <1>10, <1>11 DEF AuditNext, AuditStep

-----------------------------------------------------------------------------
(* The lock, the jobs, the traces of faults *)

AuditBy(p) ==
    AuditStep(p) \/ AuditCrash(p) \/ BeginPrune(p) \/ \E r \in Runs : BeginSave(p, r) \/ BeginExport(p, r)

LEMMA NextBy == AuditNext <=> (\E p \in Procs : AuditBy(p)) \/ TouchArchive \/ TouchOutput
BY DEF AuditNext, AuditBy

(* A command changes no locals but its own; it takes the lock only when it *)
(* is free and frees only its own.                                         *)
LEMMA OtherLocals ==
    ASSUME LocalsTyped, NEW p \in Procs, AuditBy(p), NEW q \in Procs, q # p
    PROVE  /\ apc'[q] = apc[q] /\ job'[q] = job[q] /\ run'[q] = run[q] /\ now'[q] = now[q] /\ victims'[q] = victims[q]
           /\ auditLock = q => auditLock' = q
<1> USE SharedAssumption DEF LocalsTyped, AuditGoto, auditKept
<1>0. AuditReturn(p) => /\ apc'[q] = apc[q] /\ job'[q] = job[q] /\ run'[q] = run[q] /\ now'[q] = now[q] /\ victims'[q] = victims[q]
                        /\ auditLock = q => auditLock' = q
  BY DEF AuditReturn
<1>1. CASE LockAudit(p)
  BY <1>0, <1>1 DEF LockAudit
<1>2. CASE CreateTemp(p)
  BY <1>0, <1>2 DEF CreateTemp
<1>3. CASE WriteTemp(p) \/ RenameTemp(p) \/ VerifyPublished(p)
  BY <1>0, <1>3 DEF WriteTemp, RenameTemp, VerifyPublished, DropTemp
<1>4. CASE ListAndChoose(p)
  BY <1>0, <1>4 DEF ListAndChoose
<1>5. CASE RemoveVictim(p)
  BY <1>0, <1>5 DEF RemoveVictim
<1>6. CASE FinishPrune(p) \/ AuditDone(p) \/ ReadSource(p)
  BY <1>0, <1>6 DEF FinishPrune, AuditDone, ReadSource
<1>7. CASE WriteExport(p) \/ LinkExport(p) \/ UnlinkExport(p)
  BY <1>0, <1>7 DEF WriteExport, LinkExport, UnlinkExport
<1>8. CASE AuditCrash(p)
  BY <1>0, <1>8 DEF AuditCrash
<1>9. CASE BeginPrune(p) \/ \E r \in Runs : BeginSave(p, r) \/ BeginExport(p, r)
  BY <1>9 DEF BeginPrune, BeginSave, BeginExport
<1> QED
  BY <1>1, <1>2, <1>3, <1>4, <1>5, <1>6, <1>7, <1>8, <1>9 DEF AuditBy, AuditStep

(* Where a step leads: past the lock only with it, and back without it. *)
LEMMA OwnLocals ==
    ASSUME LocalsTyped, HolderWorks, JobsOK, NEW p \in Procs, AuditBy(p)
    PROVE  /\ apc'[p] \in Locked => auditLock' = p
           /\ job'[p] \in {"save", "export"} => run'[p] \in Runs
           /\ apc'[p] = "lock" => job'[p] # None
           /\ apc'[p] \in {"create", "write", "rename", "verify", "source", "exists", "link", "unlink"} => run'[p] \in Runs
<1> DEFINE Goal ==
           /\ apc'[p] \in Locked => auditLock' = p
           /\ job'[p] \in {"save", "export"} => run'[p] \in Runs
           /\ apc'[p] = "lock" => job'[p] # None
           /\ apc'[p] \in {"create", "write", "rename", "verify", "source", "exists", "link", "unlink"} => run'[p] \in Runs
<1> USE DEF LocalsTyped, HolderWorks, JobsOK, AuditGoto, auditKept, Locked
<1>0. ASSUME AuditReturn(p) PROVE Goal
  <2>1. apc'[p] = "idle" /\ job'[p] = None
    BY <1>0 DEF AuditReturn
  <2> QED
    BY <2>1, AuditAssumption
<1>1. CASE LockAudit(p)
  BY <1>0, <1>1 DEF LockAudit
<1>2. CASE CreateTemp(p)
  BY <1>0, <1>2 DEF CreateTemp
<1>3. CASE WriteTemp(p) \/ RenameTemp(p) \/ VerifyPublished(p)
  BY <1>0, <1>3 DEF WriteTemp, RenameTemp, VerifyPublished, DropTemp
<1>4. CASE ListAndChoose(p)
  BY <1>0, <1>4 DEF ListAndChoose
<1>5. CASE RemoveVictim(p)
  BY <1>0, <1>5 DEF RemoveVictim
<1>6. CASE FinishPrune(p) \/ AuditDone(p) \/ ReadSource(p)
  BY <1>0, <1>6 DEF FinishPrune, AuditDone, ReadSource
<1>7. CASE WriteExport(p) \/ LinkExport(p) \/ UnlinkExport(p)
  BY <1>0, <1>7 DEF WriteExport, LinkExport, UnlinkExport
<1>8. CASE AuditCrash(p)
  BY <1>0, <1>8 DEF AuditCrash
<1>9. CASE BeginPrune(p)
  BY <1>9, AuditAssumption DEF BeginPrune
<1>10. ASSUME NEW r \in Runs, BeginSave(p, r) \/ BeginExport(p, r) PROVE Goal
  BY <1>10, AuditAssumption DEF BeginSave, BeginExport
<1> QED
  BY <1>1, <1>2, <1>3, <1>4, <1>5, <1>6, <1>7, <1>8, <1>9, <1>10 DEF AuditBy, AuditStep

LEMMA LockStep ==
    ASSUME LocalsTyped, HolderWorks, JobsOK, AuditNext
    PROVE  HolderWorks' /\ JobsOK'
<1>1. ASSUME NEW p \in Procs, AuditBy(p) PROVE HolderWorks' /\ JobsOK'
  BY <1>1, OtherLocals, OwnLocals DEF HolderWorks, JobsOK
<1>2. CASE TouchArchive \/ TouchOutput
  BY <1>2 DEF TouchArchive, TouchOutput, auditLocals, HolderWorks, JobsOK
<1> QED
  BY <1>1, <1>2, NextBy

LEMMA TempsStep ==
    ASSUME FilesTyped, TempsExplained, AuditNext
    PROVE  TempsExplained'
<1> USE DEF FilesTyped, TempsExplained, AuditFault, auditFiles, userKept
<1>1. ASSUME NEW p \in Procs, LockAudit(p) \/ CreateTemp(p) \/ VerifyPublished(p) PROVE TempsExplained'
  BY <1>1 DEF LockAudit, CreateTemp, VerifyPublished
<1>2. ASSUME NEW p \in Procs, WriteTemp(p) \/ RenameTemp(p) PROVE TempsExplained'
  BY <1>2 DEF WriteTemp, RenameTemp, DropTemp
<1>3. ASSUME NEW p \in Procs, ListAndChoose(p) \/ RemoveVictim(p) \/ FinishPrune(p) \/ AuditDone(p) \/ ReadSource(p)
      PROVE  TempsExplained'
  BY <1>3 DEF ListAndChoose, RemoveVictim, FinishPrune, AuditDone, ReadSource
<1>4. ASSUME NEW p \in Procs, WriteExport(p) \/ LinkExport(p) \/ UnlinkExport(p) PROVE TempsExplained'
  BY <1>4 DEF WriteExport, LinkExport, UnlinkExport
<1>5. ASSUME NEW p \in Procs, AuditCrash(p) PROVE TempsExplained'
  BY <1>5 DEF AuditCrash
<1>6. ASSUME NEW p \in Procs, BeginPrune(p) \/ \E r \in Runs : BeginSave(p, r) \/ BeginExport(p, r) PROVE TempsExplained'
  BY <1>6 DEF BeginPrune, BeginSave, BeginExport
<1>7. CASE TouchArchive \/ TouchOutput
  BY <1>7 DEF TouchArchive, TouchOutput
<1> QED
  BY <1>1, <1>2, <1>3, <1>4, <1>5, <1>6, <1>7 DEF AuditNext, AuditStep

LEMMA ExportStep ==
    ASSUME AuditNext, out # out', out # None
    PROVE  TouchOutput
<1> USE DEF auditFiles
<1>1. ASSUME NEW p \in Procs, AuditStep(p) PROVE out' = out \/ out = None
  BY <1>1 DEF AuditStep, LockAudit, CreateTemp, WriteTemp, RenameTemp, VerifyPublished, ListAndChoose, RemoveVictim, FinishPrune,
              AuditDone, ReadSource, WriteExport, LinkExport, UnlinkExport
<1>2. ASSUME NEW p \in Procs, AuditCrash(p) \/ BeginPrune(p) \/ \E r \in Runs : BeginSave(p, r) \/ BeginExport(p, r) PROVE out' = out
  BY <1>2 DEF AuditCrash, BeginPrune, BeginSave, BeginExport
<1>3. CASE TouchArchive
  BY <1>3 DEF TouchArchive
<1> QED
  BY <1>1, <1>2, <1>3 DEF AuditNext

-----------------------------------------------------------------------------
(* The archives *)

(* The steps that touch none. *)
LEMMA ArchivesKept ==
    ASSUME NEW p \in Procs, AuditBy(p), ~RenameTemp(p), ~RemoveVictim(p)
    PROVE  UNCHANGED <<archive, created, touched, touches>>
<1> USE DEF auditFiles, userKept
<1>1. CASE AuditStep(p)
  BY <1>1 DEF AuditStep, LockAudit, CreateTemp, WriteTemp, VerifyPublished, ListAndChoose, FinishPrune, AuditDone,
              ReadSource, WriteExport, LinkExport, UnlinkExport
<1>2. CASE AuditCrash(p) \/ BeginPrune(p) \/ \E r \in Runs : BeginSave(p, r) \/ BeginExport(p, r)
  BY <1>2 DEF AuditCrash, BeginPrune, BeginSave, BeginExport
<1> QED
  BY <1>1, <1>2 DEF AuditBy

(* The removal of the newest victim that is left. *)
Removes(p, n) ==
    /\ apc[p] = "remove" /\ n \in victims[p] /\ archive[n] # "missing"
    /\ archive' = [archive EXCEPT ![n] = "missing"]
    /\ created' = [created EXCEPT ![n] = 0]
    /\ victims' = [victims EXCEPT ![p] = @ \ {n}]
    /\ UNCHANGED <<apc, now, touched, touches>>

LEMMA RemovalStep ==
    ASSUME NEW p \in Procs, RemoveVictim(p)
    PROVE  /\ apc[p] = "remove"
           /\ (\E n \in victims[p] : Removes(p, n)) \/ (UNCHANGED <<archive, created, touched, touches>> /\ AuditReturn(p))
BY DEF RemoveVictim, Removes, userKept

(* A prune gets under way in one step, and goes on in another one only by  *)
(* a removal.                                                              *)
LEMMA PruneSteps ==
    ASSUME LocalsTyped, NEW p \in Procs, AuditBy(p), apc'[p] = "remove"
    PROVE  ListAndChoose(p) \/ \E n \in victims[p] : Removes(p, n)
<1> USE DEF LocalsTyped, AuditGoto, auditKept
<1>0. ~AuditReturn(p)
  BY DEF AuditReturn
<1>1. CASE RemoveVictim(p)
  BY <1>0, <1>1, RemovalStep
<1>2. ASSUME ~RemoveVictim(p), ~ListAndChoose(p) PROVE FALSE
  <2>1. CASE AuditStep(p)
    BY <1>0, <1>2, <2>1 DEF AuditStep, LockAudit, CreateTemp, WriteTemp, RenameTemp, VerifyPublished, FinishPrune, AuditDone,
              ReadSource, WriteExport, LinkExport, UnlinkExport, DropTemp
  <2>2. CASE AuditCrash(p) \/ BeginPrune(p) \/ \E r \in Runs : BeginSave(p, r) \/ BeginExport(p, r)
    BY <1>0, <2>2 DEF AuditCrash, BeginPrune, BeginSave, BeginExport
  <2> QED
    BY <1>2, <2>1, <2>2 DEF AuditBy
<1> QED
  BY <1>1, <1>2

LEMMA DoneSteps ==
    ASSUME LocalsTyped, NEW p \in Procs, AuditBy(p), apc'[p] = "done"
    PROVE  apc[p] = "remove" /\ victims[p] = {} /\ UNCHANGED <<archive, created, now>>
<1> USE DEF LocalsTyped, AuditGoto, auditKept, auditFiles
<1>0. ~AuditReturn(p)
  BY DEF AuditReturn
<1>1. CASE FinishPrune(p)
  BY <1>0, <1>1 DEF FinishPrune
<1>2. ASSUME ~FinishPrune(p) PROVE FALSE
  <2>1. CASE AuditStep(p)
    BY <1>0, <1>2, <2>1 DEF AuditStep, LockAudit, CreateTemp, WriteTemp, RenameTemp, VerifyPublished, ListAndChoose, RemoveVictim,
              AuditDone, ReadSource, WriteExport, LinkExport, UnlinkExport, DropTemp
  <2>2. CASE AuditCrash(p) \/ BeginPrune(p) \/ \E r \in Runs : BeginSave(p, r) \/ BeginExport(p, r)
    BY <1>0, <2>2 DEF AuditCrash, BeginPrune, BeginSave, BeginExport
  <2> QED
    BY <2>1, <2>2 DEF AuditBy
<1> QED
  BY <1>1, <1>2

(* While one command prunes, only it and the user change archives. *)
LEMMA PrunerAlone ==
    ASSUME LocalsTyped, HolderWorks, NEW q \in Procs, apc[q] \in {"remove", "done"},
           NEW p \in Procs, AuditBy(p), p # q
    PROVE  UNCHANGED <<archive, created, touched, touches>>
<1>1. auditLock = q
  BY DEF HolderWorks, Locked
<1>2. ~RenameTemp(p) /\ ~RemoveVictim(p)
  BY <1>1 DEF RenameTemp, RemoveVictim, HolderWorks, Locked
<1> QED
  BY <1>2, ArchivesKept

LEMMA PublishedStep ==
    ASSUME LocalsTyped, FilesTyped, JobsOK, PublishedWhole, AuditNext
    PROVE  PublishedWhole'
<1> USE DEF PublishedWhole, FilesTyped
<1>1. ASSUME NEW p \in Procs, AuditBy(p), ~RenameTemp(p), ~RemoveVictim(p) PROVE PublishedWhole'
  BY <1>1, ArchivesKept
<1>2. ASSUME NEW p \in Procs, RenameTemp(p) PROVE PublishedWhole'
  BY <1>2 DEF RenameTemp
<1>3. ASSUME NEW p \in Procs, RemoveVictim(p) PROVE PublishedWhole'
  BY <1>3, RemovalStep DEF Removes
<1>4. CASE TouchArchive
  BY <1>4 DEF TouchArchive
<1>5. CASE TouchOutput
  BY <1>5 DEF TouchOutput
<1> QED
  BY <1>1, <1>2, <1>3, <1>4, <1>5, NextBy

-----------------------------------------------------------------------------
(* Victims and what spares them *)

LEMMA NewestIsNoVictim ==
    ASSUME created \in [Runs -> Nat], NEW t, NEW n \in Victims(t)
    PROVE  \E m \in Runs \ ({n} \cup Victims(t)) : Newer(m, n) /\ archive[m] = "whole"
<1>1. Valid \in SUBSET Runs /\ n \in Valid
  BY DEF Valid, Victims
<1>2. PICK m \in Valid : \A k \in Valid : k = m \/ Newer(m, k)
  BY <1>1, Extremes
<1>3. \A k \in Valid : ~Newer(k, m)
  BY <1>1, <1>2, NewerOrder
<1>4. m \notin Victims(t)
  BY <1>3 DEF Victims
<1> QED
  BY <1>1, <1>2, <1>4 DEF Valid

Spared(n, p) ==
    archive[n] # "missing" =>
        \E m \in Runs \ ({n} \cup victims[p]) : m \in touched \/ (Newer(m, n) /\ archive[m] = "whole")

LEMMA VictimsStep ==
    ASSUME LocalsTyped, FilesTyped, HolderWorks, VictimsSpared, AuditNext
    PROVE  VictimsSpared'
<1> SUFFICES ASSUME NEW q \in Procs, apc'[q] = "remove", NEW n \in victims'[q] PROVE Spared(n, q)'
  BY DEF VictimsSpared, Spared
<1>0. created \in [Runs -> Nat] /\ archive \in [Runs -> {"missing", "whole", "damaged"}]
  BY AuditAssumption DEF FilesTyped
<1>1. ASSUME ListAndChoose(q) PROVE Spared(n, q)'
  <2>1. PICK t \in Readings : victims' = [victims EXCEPT ![q] = Victims(t)]
    BY <1>1 DEF ListAndChoose, AuditReturn, AuditGoto, LocalsTyped
  <2>2. victims'[q] = Victims(t) /\ UNCHANGED <<archive, created>>
    BY <1>1, <2>1 DEF ListAndChoose, auditFiles, LocalsTyped
  <2> QED
    BY <1>0, <2>2, NewestIsNoVictim DEF Spared, Newer
<1>2. ASSUME NEW v \in victims[q], Removes(q, v) PROVE Spared(n, q)'
  <2>1. n \in victims[q] /\ victims'[q] \subseteq victims[q]
    BY <1>2 DEF Removes, LocalsTyped
  <2>2. Spared(n, q)
    BY <1>2, <2>1 DEF VictimsSpared, Spared, Removes
  <2>3. v \in Runs /\ n \in Runs
    BY <2>1 DEF LocalsTyped
  <2>4. CASE n = v
    BY <1>0, <1>2, <2>3, <2>4 DEF Removes, Spared
  <2>5. CASE n # v
    <3>1. \A m \in Runs : m # v => archive'[m] = archive[m] /\ created'[m] = created[m]
      BY <1>0, <1>2 DEF Removes
    <3>2. archive'[n] = archive[n] /\ created'[n] = created[n] /\ touched' = touched
      BY <1>2, <2>3, <2>5, <3>1 DEF Removes
    <3>3. ASSUME NEW m \in Runs \ ({n} \cup victims[q]) PROVE archive'[m] = archive[m] /\ created'[m] = created[m]
      BY <3>1
    <3> QED
      BY <2>1, <2>2, <3>2, <3>3 DEF Spared, Newer
  <2> QED
    BY <2>4, <2>5
<1>3. ASSUME NEW p \in Procs, AuditBy(p), p # q PROVE Spared(n, q)'
  <2>1. apc[q] = "remove" /\ victims'[q] = victims[q]
    BY <1>3, OtherLocals
  <2>2. UNCHANGED <<archive, created, touched>>
    BY <1>3, <2>1, PrunerAlone
  <2> QED
    BY <2>1, <2>2 DEF VictimsSpared, Spared, Newer
<1>4. ASSUME TouchArchive PROVE Spared(n, q)'
  <2>1. UNCHANGED <<apc, victims>>
    BY <1>4 DEF TouchArchive, auditLocals
  <2>2. PICK r \in Runs : /\ touched' = touched \cup {r}
                          /\ \/ archive' = [archive EXCEPT ![r] = "damaged"] /\ UNCHANGED created
                             \/ archive' = [archive EXCEPT ![r] = "missing"] /\ created' = [created EXCEPT ![r] = 0]
    BY <1>4 DEF TouchArchive
  <2>3. Spared(n, q) /\ n \in Runs
    BY <2>1 DEF VictimsSpared, Spared, LocalsTyped
  <2>4. SUFFICES ASSUME archive'[n] # "missing"
                 PROVE  \E m \in Runs \ ({n} \cup victims'[q]) : m \in touched' \/ (Newer(m, n)' /\ archive'[m] = "whole")
    BY DEF Spared
  <2>5. (created'[n] = created[n] /\ archive[n] # "missing") \/ n = r
    BY <1>0, <2>2, <2>3, <2>4
  <2>6. created'[n] = created[n] /\ archive[n] # "missing"
    BY <1>0, <1>4, <2>2, <2>3, <2>4, <2>5 DEF TouchArchive
  <2>7. PICK m \in Runs \ ({n} \cup victims[q]) : m \in touched \/ (Newer(m, n) /\ archive[m] = "whole")
    BY <2>3, <2>6 DEF Spared
  <2>8. CASE m = r
    BY <2>1, <2>2, <2>7, <2>8
  <2>9. CASE m # r
    BY <1>0, <2>1, <2>2, <2>6, <2>7, <2>9 DEF Newer
  <2> QED
    BY <2>8, <2>9
<1>5. ASSUME TouchOutput PROVE Spared(n, q)'
  BY <1>5 DEF TouchOutput, auditLocals, VictimsSpared, Spared, Newer
<1> QED
  BY <1>1, <1>2, <1>3, <1>4, <1>5, NextBy, PruneSteps

LEMMA SparedStep ==
    ASSUME AuditInv, AuditNext, NEW n \in Runs, archive[n] # "missing", archive'[n] = "missing", UNCHANGED touches
    PROVE  \E m \in Runs \ {n} : m \in touched \/ (Newer(m, n) /\ archive[m] = "whole" /\ archive'[m] = "whole")
<1>0. LocalsTyped /\ FilesTyped /\ VictimsSpared
  BY AuditTypes DEF AuditInv
<1>1. ~TouchArchive /\ ~TouchOutput
  BY <1>0 DEF TouchArchive, TouchOutput, FilesTyped
<1>2. PICK p \in Procs : AuditBy(p)
  BY <1>1, NextBy
<1>3. ~RenameTemp(p)
  BY <1>0 DEF RenameTemp, FilesTyped
<1>4. RemoveVictim(p)
  BY <1>2, <1>3, ArchivesKept
<1>5. PICK v \in victims[p] : Removes(p, v)
  BY <1>4, RemovalStep
<1>6. n = v
  BY <1>0, <1>5 DEF Removes, FilesTyped
<1>7. PICK m \in Runs \ ({n} \cup victims[p]) : m \in touched \/ (Newer(m, n) /\ archive[m] = "whole")
  BY <1>0, <1>5, <1>6 DEF VictimsSpared, Removes
<1>8. archive'[m] = archive[m]
  BY <1>0, <1>5, <1>6, <1>7 DEF Removes, FilesTyped
<1> QED
  BY <1>7, <1>8

-----------------------------------------------------------------------------
(* The budgets *)

(* What is not chosen is within them. *)
LEMMA ChosenWithin ==
    ASSUME created \in [Runs -> Nat], NEW t \in Nat
    PROVE  Within(Valid \ Victims(t), t)
<1> DEFINE S == Valid \ Victims(t)
<1>1. S \in SUBSET Runs /\ IsFiniteSet(S)
  BY AuditAssumption, FS_Subset DEF Valid
<1>2. CASE S = {}
  BY <1>2, FS_EmptySet DEF Within
<1>3. CASE S # {}
  <2>1. PICK n \in S : \A m \in S : m = n \/ Newer(m, n)
    BY <1>1, <1>3, Extremes
  <2>2. CASE S = {n}
    BY <2>2, FS_Singleton DEF Within
  <2>3. CASE S # {n}
    <3>1. PICK m \in S : Newer(m, n)
      BY <2>1, <2>3
    <3>2. n \in Valid /\ m \in Valid /\ n \notin Victims(t)
      BY <2>1, <3>1
    <3>3. ~(Bytes(NoOlder(n, Valid)) > RetentionBytes)
      BY <3>1, <3>2 DEF Victims
    <3>4. S \in SUBSET NoOlder(n, Valid) /\ NoOlder(n, Valid) \in SUBSET Runs
      BY <2>1 DEF NoOlder, Valid
    <3>5. Bytes(S) <= RetentionBytes
      BY <3>3, <3>4, BytesMonotone, AuditAssumption
    <3>6. ASSUME NEW k \in S, t - created[k] > RetentionAge, NEW j \in S \ {k} PROVE Newer(k, j)
      <4>1. ~Newer(j, k)
        BY <3>6 DEF Victims
      <4> QED
        BY <1>1, <3>6, <4>1, NewerOrder
    <3> QED
      BY <3>5, <3>6 DEF Within
  <2> QED
    BY <2>2, <2>3
<1> QED
  BY <1>2, <1>3

(* Fewer archives are within them as well. *)
LEMMA FewerWithin ==
    ASSUME NEW S \in SUBSET Runs, NEW T \in SUBSET S, NEW t, Within(S, t), \A r \in T : created'[r] = created[r]
    PROVE  Within(T, t)'
<1>1. IsFiniteSet(S)
  BY AuditAssumption, FS_Subset
<1>2. IsFiniteSet(T) /\ Cardinality(T) <= Cardinality(S) /\ Cardinality(T) \in Nat /\ Cardinality(S) \in Nat
  BY <1>1, FS_Subset, FS_CardinalityType
<1>3. CASE Cardinality(S) <= 1
  BY <1>2, <1>3 DEF Within
<1>4. CASE ~(Cardinality(S) <= 1)
  <2>1. Bytes(S) <= RetentionBytes /\ \A n \in S : t - created[n] > RetentionAge => \A m \in S \ {n} : Newer(n, m)
    BY <1>4 DEF Within
  <2>2. Bytes(T) <= RetentionBytes
    BY <2>1, BytesMonotone, AuditAssumption
  <2>3. \A n \in T : t - created'[n] > RetentionAge => \A m \in T \ {n} : Newer(n, m)'
    BY <2>1 DEF Newer
  <2> QED
    BY <2>2, <2>3 DEF Within
<1> QED
  BY <1>3, <1>4

(* The value of an expression in the next state, named. *)
LEMMA WithinNamed ==
    ASSUME NEW q \in Procs, NEW S, NEW t, S = (Valid \ victims[q])', t = now[q]', Within(S, t)'
    PROVE  Within(Valid \ victims[q], now[q])'
BY DEF Within, Newer

LEMMA ValidNamed ==
    ASSUME NEW q \in Procs, NEW S, NEW t, S = Valid', t = now[q]', Within(S, t)'
    PROVE  Within(Valid, now[q])'
BY DEF Within, Newer

(* Nothing that the budgets read changes. *)
LEMMA StillRemoving ==
    ASSUME FilesTyped, PruneKeepsBudget, NEW q \in Procs, apc[q] = "remove",
           victims'[q] = victims[q], now'[q] = now[q], UNCHANGED <<archive, created>>
    PROVE  Within(Valid \ victims[q], now[q])'
<1>1. PICK S, t : S = Valid \ victims[q] /\ t = now[q]
  OBVIOUS
<1>2. S \in SUBSET Runs /\ S = (Valid \ victims[q])' /\ t = now[q]'
  BY <1>1 DEF Valid
<1>3. Within(S, t)
  BY <1>1 DEF PruneKeepsBudget
<1>4. Within(S, t)'
  BY <1>2, <1>3, FewerWithin
<1> QED
  BY <1>2, <1>4, WithinNamed

LEMMA StillDone ==
    ASSUME FilesTyped, NEW q \in Procs, Within(Valid, now[q]),
           now'[q] = now[q], UNCHANGED <<archive, created>>
    PROVE  Within(Valid, now[q])'
<1>1. PICK S, t : S = Valid /\ t = now[q]
  OBVIOUS
<1>2. S \in SUBSET Runs /\ S = Valid' /\ t = now[q]'
  BY <1>1 DEF Valid
<1>3. Within(S, t)
  BY <1>1
<1>4. Within(S, t)'
  BY <1>2, <1>3, FewerWithin
<1> QED
  BY <1>2, <1>4, ValidNamed

LEMMA RemovingStep ==
    ASSUME LocalsTyped, FilesTyped, HolderWorks, PruneKeepsBudget, AuditNext,
           NEW q \in Procs, apc'[q] = "remove"
    PROVE  Within(Valid \ victims[q], now[q])'
<1>0. created \in [Runs -> Nat] /\ Valid \in SUBSET Runs /\ archive \in [Runs -> {"missing", "whole", "damaged"}]
  BY AuditAssumption DEF FilesTyped, Valid
<1>1. CASE ListAndChoose(q)
  <2>1. PICK t \in Readings : now' = [now EXCEPT ![q] = t] /\ victims' = [victims EXCEPT ![q] = Victims(t)]
    BY <1>1 DEF ListAndChoose, AuditReturn, AuditGoto, LocalsTyped
  <2>2. victims'[q] = Victims(t) /\ now'[q] = t /\ t \in Nat /\ UNCHANGED <<archive, created>>
    BY <1>1, <2>1, AuditAssumption DEF ListAndChoose, auditFiles, LocalsTyped
  <2>3. Valid' = Valid
    BY <2>2 DEF Valid
  <2>4. Within(Valid \ Victims(t), t)
    BY <1>0, <2>2, ChosenWithin
  <2> QED
    BY <2>2, <2>3, <2>4 DEF Within, Newer
<1>2. ASSUME NEW v \in victims[q], Removes(q, v) PROVE Within(Valid \ victims[q], now[q])'
  <2> DEFINE S == Valid \ victims[q]
             t == now[q]
  <2>1. Within(S, t)
    BY <1>2 DEF Removes, PruneKeepsBudget
  <2>2. Valid' = Valid \ {v} /\ victims'[q] = victims[q] \ {v} /\ now'[q] = now[q]
    BY <1>0, <1>2 DEF Removes, Valid, LocalsTyped
  <2>3. PICK T, u : T = Valid \ victims[q] /\ u = now[q]
    OBVIOUS
  <2>4. T = (Valid \ victims[q])' /\ u = now[q]'
    BY <1>2, <2>2, <2>3
  <2>5. \A r \in T : created'[r] = created[r]
    BY <1>0, <1>2, <2>3 DEF Removes
  <2>6. Within(T, u)'
    BY <1>0, <2>1, <2>3, <2>5, FewerWithin
  <2> QED
    BY <2>4, <2>6, WithinNamed
<1>3. ASSUME NEW p \in Procs, AuditBy(p), p # q PROVE Within(Valid \ victims[q], now[q])'
  <2>1. apc[q] = "remove" /\ victims'[q] = victims[q] /\ now'[q] = now[q]
    BY <1>3, OtherLocals
  <2>2. UNCHANGED <<archive, created>>
    BY <1>3, <2>1, PrunerAlone
  <2> QED
    BY <2>1, <2>2, StillRemoving
<1>4. ASSUME TouchArchive PROVE Within(Valid \ victims[q], now[q])'
  <2>1. UNCHANGED <<apc, victims, now>>
    BY <1>4 DEF TouchArchive, auditLocals
  <2>2. PICK T, u : T = (Valid \ victims[q])' /\ u = now[q]'
    OBVIOUS
  <2>3. PICK S : S = Valid \ victims[q]
    OBVIOUS
  <2>4. Within(S, u)
    BY <2>1, <2>2, <2>3 DEF PruneKeepsBudget
  <2>5. T \in SUBSET S /\ \A r \in T : created'[r] = created[r]
    BY <1>0, <1>4, <2>1, <2>2, <2>3 DEF TouchArchive, Valid
  <2>6. Within(T, u)'
    BY <1>0, <2>3, <2>4, <2>5, FewerWithin
  <2> QED
    BY <2>2, <2>6, WithinNamed
<1>5. ASSUME TouchOutput PROVE Within(Valid \ victims[q], now[q])'
  <2>1. apc[q] = "remove" /\ UNCHANGED <<archive, created, victims, now>>
    BY <1>5 DEF TouchOutput, auditLocals
  <2> QED
    BY <2>1, StillRemoving
<1> QED
  BY <1>1, <1>2, <1>3, <1>4, <1>5, NextBy, PruneSteps

LEMMA DoneStep ==
    ASSUME LocalsTyped, FilesTyped, HolderWorks, PruneKeepsBudget, AuditNext,
           NEW q \in Procs, apc'[q] = "done"
    PROVE  Within(Valid, now[q])'
<1>0. created \in [Runs -> Nat] /\ Valid \in SUBSET Runs /\ archive \in [Runs -> {"missing", "whole", "damaged"}]
  BY AuditAssumption DEF FilesTyped, Valid
<1>1. ASSUME AuditBy(q) PROVE Within(Valid, now[q])'
  <2>1. apc[q] = "remove" /\ victims[q] = {} /\ UNCHANGED <<archive, created, now>>
    BY <1>1, DoneSteps
  <2>2. Valid \ victims[q] = Valid
    BY <2>1
  <2>3. Within(Valid, now[q])
    BY <2>1, <2>2 DEF PruneKeepsBudget
  <2> QED
    BY <2>1, <2>3, StillDone
<1>2. ASSUME NEW p \in Procs, AuditBy(p), p # q PROVE Within(Valid, now[q])'
  <2>1. apc[q] = "done" /\ now'[q] = now[q]
    BY <1>2, OtherLocals
  <2>2. UNCHANGED <<archive, created>>
    BY <1>2, <2>1, PrunerAlone
  <2> QED
    BY <2>1, <2>2, StillDone DEF PruneKeepsBudget
<1>3. ASSUME TouchArchive PROVE Within(Valid, now[q])'
  <2>1. UNCHANGED <<apc, now>>
    BY <1>3 DEF TouchArchive, auditLocals
  <2>2. PICK T, u : T = Valid' /\ u = now[q]'
    OBVIOUS
  <2>3. PICK S : S = Valid
    OBVIOUS
  <2>4. Within(S, u)
    BY <2>1, <2>2, <2>3 DEF PruneKeepsBudget
  <2>5. T \in SUBSET S /\ \A r \in T : created'[r] = created[r]
    BY <1>0, <1>3, <2>2, <2>3 DEF TouchArchive, Valid
  <2>6. Within(T, u)'
    BY <1>0, <2>3, <2>4, <2>5, FewerWithin
  <2> QED
    BY <2>2, <2>6, ValidNamed
<1>4. ASSUME TouchOutput PROVE Within(Valid, now[q])'
  <2>1. apc[q] = "done" /\ UNCHANGED <<archive, created, now>>
    BY <1>4 DEF TouchOutput, auditLocals
  <2> QED
    BY <2>1, StillDone DEF PruneKeepsBudget
<1> QED
  BY <1>1, <1>2, <1>3, <1>4, NextBy

LEMMA BudgetStep ==
    ASSUME LocalsTyped, FilesTyped, HolderWorks, PruneKeepsBudget, AuditNext
    PROVE  PruneKeepsBudget'
BY RemovingStep, DoneStep DEF PruneKeepsBudget

-----------------------------------------------------------------------------
LEMMA AuditInvInit == AuditInit => AuditInv
<1> SUFFICES ASSUME AuditInit PROVE AuditInv
  OBVIOUS
<1> USE DEF AuditInit
<1>1. LocalsTyped /\ FilesTyped
  BY AuditAssumption DEF LocalsTyped, FilesTyped, Locked
<1>2. HolderWorks /\ JobsOK /\ VictimsSpared /\ PruneKeepsBudget
  BY AuditAssumption DEF HolderWorks, JobsOK, VictimsSpared, PruneKeepsBudget, Locked
<1>3. PublishedWhole /\ TempsExplained
  BY DEF PublishedWhole, TempsExplained
<1> QED
  BY <1>1, <1>2, <1>3, AuditTypes DEF AuditInv

LEMMA AuditInvStep == AuditInv /\ [AuditNext]_auditVars => AuditInv'
<1>1. ASSUME AuditInv, AuditNext PROVE AuditInv'
  <2>0. LocalsTyped /\ FilesTyped /\ HolderWorks /\ JobsOK /\ VictimsSpared /\ PruneKeepsBudget /\ PublishedWhole /\ TempsExplained
    BY <1>1, AuditTypes DEF AuditInv
  <2>1. LocalsTyped' /\ FilesTyped'
    BY <1>1, <2>0, LocalsStep, FilesStep
  <2>2. AuditTypeOK'
    BY <2>1, AuditTypes DEF AuditTypeOK, LocalsTyped, FilesTyped, Locked
  <2>3. HolderWorks' /\ JobsOK'
    BY <1>1, <2>0, LockStep
  <2>4. VictimsSpared' /\ PruneKeepsBudget'
    BY <1>1, <2>0, VictimsStep, BudgetStep
  <2>5. PublishedWhole' /\ TempsExplained'
    BY <1>1, <2>0, PublishedStep, TempsStep
  <2> QED
    BY <2>2, <2>3, <2>4, <2>5 DEF AuditInv
<1>2. ASSUME AuditInv, UNCHANGED auditVars PROVE AuditInv'
  <2>1. AuditTypeOK' /\ HolderWorks' /\ JobsOK' /\ PublishedWhole' /\ TempsExplained'
    BY <1>2 DEF AuditInv, auditVars, auditFiles, auditLocals, AuditTypeOK, HolderWorks, JobsOK, PublishedWhole, TempsExplained
  <2>2. VictimsSpared'
    BY <1>2 DEF AuditInv, auditVars, auditFiles, auditLocals, VictimsSpared, Newer
  <2>3. FilesTyped
    BY <1>2, AuditTypes DEF AuditInv
  <2>4. UNCHANGED <<archive, created, apc, now, victims>>
    BY <1>2 DEF auditVars, auditFiles, auditLocals
  <2>5. PruneKeepsBudget'
    BY <1>2, <2>3, <2>4, StillRemoving, StillDone DEF AuditInv, PruneKeepsBudget
  <2> QED
    BY <2>1, <2>2, <2>5 DEF AuditInv
<1> QED
  BY <1>1, <1>2

LEMMA AuditInvImplies == AuditInv => BudgetKept /\ PublishedWhole /\ TempsExplained /\ AuditTypeOK
BY DEF AuditInv, PruneKeepsBudget, Within, BudgetKept

(* The two promises about single steps. *)
LEMMA SparedOrStutter ==
    AuditInv /\ [AuditNext]_auditVars =>
        [\A n \in Runs :
            archive[n] # "missing" /\ archive'[n] = "missing" /\ UNCHANGED touches =>
                \E m \in Runs \ {n} : m \in touched \/ (Newer(m, n) /\ archive[m] = "whole" /\ archive'[m] = "whole")]_auditVars
BY SparedStep

LEMMA ExportOrStutter == [AuditNext]_auditVars => [out # out' /\ out # None => TouchOutput]_auditVars
BY ExportStep

(* The types of the archive's variables. *)
THEOREM AuditTypeCorrect == AuditSpec => []AuditTypeOK
BY AuditInvInit, AuditInvStep, AuditInvImplies, PTL DEF AuditSpec

THEOREM ArchiveKept == AuditSpec => [](BudgetKept /\ PublishedWhole /\ TempsExplained)
BY AuditInvInit, AuditInvStep, AuditInvImplies, PTL DEF AuditSpec

THEOREM NewestKept == AuditSpec => NewestArchiveSpared
BY AuditInvInit, AuditInvStep, SparedOrStutter, PTL DEF AuditSpec, NewestArchiveSpared

THEOREM ExportsReplaceNothing == AuditSpec => ExportNeverReplaces
BY ExportOrStutter, PTL DEF AuditSpec, ExportNeverReplaces

-----------------------------------------------------------------------------
(* Schedule: its types, and that the property list, the launchd job and    *)
(* what commands report of them agree.                                     *)

(* The lock is held from the first look at the list to the return.  A      *)
(* command that ended without it met a failure.                            *)
ScheduleHolder ==
    \A p \in Procs :
        /\ InCritical(p) => scheduleLock = p
        /\ scheduleLock = p => InCritical(p) \/ spc[p] = "done"
        /\ spc[p] = "done" /\ scheduleFaults = 0 => scheduleLock = p

ScheduleLocals ==
    \A p \in Procs :
        /\ spc[p] # "idle" => want[p] \in CoreVersions
        /\ spc[p] # "done" => result[p] = None
        /\ spc[p] \in {"print", "bootstrap"} => plist = want[p]
        /\ spc[p] = "undo" => scheduleFaults > 0

(* What the holder of the lock knows of list and job, as long as nothing   *)
(* failed.                                                                 *)
HolderKnows ==
    scheduleFaults = 0 =>
        \A p \in Procs :
            /\ spc[p] \in {"compare", "match"} => plist = loaded
            /\ spc[p] = "publish" => plist = None /\ loaded = None
            /\ spc[p] = "print" => loaded \in {None, want[p]}
            /\ spc[p] = "bootstrap" => loaded = None
            /\ spc[p] \in {"probe", "bootout"} => plist = want[p] /\ loaded = want[p]
            /\ spc[p] = "unlist" => plist = want[p] /\ loaded = None

ScheduleInv == ScheduleTypeOK /\ ScheduleHolder /\ ScheduleLocals /\ HolderKnows /\ ScheduleSound

LEMMA ScheduleInvInit == ScheduleInit => ScheduleInv
BY ScheduleAssumption, SharedAssumption
   DEF ScheduleInit, ScheduleInv, ScheduleTypeOK, ScheduleHolder, InCritical, ScheduleLocals, HolderKnows,
       ScheduleSound, ListAndJobAgree, ResultTruthful, ScheduleRefusalExplained

-----------------------------------------------------------------------------
(* The types *)

LEMMA ScheduleTypeStep == ScheduleTypeOK /\ [ScheduleNext]_scheduleVars => ScheduleTypeOK'
<1> SUFFICES ASSUME ScheduleTypeOK, [ScheduleNext]_scheduleVars PROVE ScheduleTypeOK'
  OBVIOUS
<1> USE ScheduleAssumption, SharedAssumption
    DEF ScheduleTypeOK, ScheduleGoto, ScheduleFault, scheduleHost, scheduleLocals, scheduleKept, Answer, Failed
<1>1. ASSUME NEW p \in Procs, NEW command \in {"install", "remove"}, BeginSchedule(p, command) PROVE ScheduleTypeOK'
  BY <1>1 DEF BeginSchedule
<1>2. ASSUME NEW p \in Procs, LockSchedule(p) PROVE ScheduleTypeOK'
  BY <1>2 DEF LockSchedule
<1>3. ASSUME NEW p \in Procs, CompareList(p) PROVE ScheduleTypeOK'
  BY <1>3 DEF CompareList
<1>4. ASSUME NEW p \in Procs, PublishList(p) PROVE ScheduleTypeOK'
  BY <1>4 DEF PublishList
<1>5. ASSUME NEW p \in Procs, PrintJob(p) PROVE ScheduleTypeOK'
  BY <1>5 DEF PrintJob
<1>6. ASSUME NEW p \in Procs, BootstrapJob(p) PROVE ScheduleTypeOK'
  BY <1>6 DEF BootstrapJob
<1>7. ASSUME NEW p \in Procs, UndoList(p) PROVE ScheduleTypeOK'
  BY <1>7 DEF UndoList
<1>8. ASSUME NEW p \in Procs, MatchList(p) PROVE ScheduleTypeOK'
  BY <1>8 DEF MatchList
<1>9. ASSUME NEW p \in Procs, BootoutJob(p) PROVE ScheduleTypeOK'
  BY <1>9 DEF BootoutJob
<1>10. ASSUME NEW p \in Procs, UnlistJob(p) PROVE ScheduleTypeOK'
  BY <1>10 DEF UnlistJob
<1>11. ASSUME NEW p \in Procs, ScheduleReturn(p) \/ ScheduleCrash(p) PROVE ScheduleTypeOK'
  <2>1. EndSchedule(p) /\ UNCHANGED <<plist, loaded, active, former, upgrades>>
    BY <1>11 DEF ScheduleReturn, ScheduleCrash
  <2>2. scheduleTemps' \in Nat /\ scheduleFaults' \in 0 .. MaxScheduleFaults
    BY <1>11 DEF ScheduleReturn, ScheduleCrash
  <2> QED
    BY <2>1, <2>2 DEF EndSchedule
<1>12. CASE SwitchCore \/ Login
  BY <1>12 DEF SwitchCore, Login
<1>13. CASE UNCHANGED scheduleVars
  BY <1>13 DEF scheduleVars
<1> QED
  BY <1>1, <1>2, <1>3, <1>4, <1>5, <1>6, <1>7, <1>8, <1>9, <1>10, <1>11, <1>12, <1>13
     DEF ScheduleNext, ScheduleStep

-----------------------------------------------------------------------------
(* The invariant *)

LEMMA ScheduleInvStep == ScheduleInv /\ [ScheduleNext]_scheduleVars => ScheduleInv'
<1> SUFFICES ASSUME ScheduleInv, [ScheduleNext]_scheduleVars
             PROVE  ScheduleHolder' /\ ScheduleLocals' /\ HolderKnows' /\ ScheduleSound'
  BY ScheduleTypeStep DEF ScheduleInv
<1> USE ScheduleAssumption, SharedAssumption
<1> DEFINE Goal == ScheduleHolder' /\ ScheduleLocals' /\ HolderKnows' /\ ScheduleSound'
<1>0. ScheduleTypeOK /\ ScheduleHolder /\ ScheduleLocals /\ HolderKnows /\ ScheduleSound
  BY DEF ScheduleInv
<1> USE <1>0
    DEF ScheduleTypeOK, ScheduleHolder, ScheduleLocals, HolderKnows, InCritical, ScheduleSound, ListAndJobAgree,
        ResultTruthful, ScheduleRefusalExplained, ScheduleGoto, ScheduleFault, scheduleHost,
        scheduleLocals, scheduleKept, Answer, Failed
<1>1. ASSUME NEW p \in Procs, NEW command \in {"install", "remove"}, BeginSchedule(p, command) PROVE Goal
  BY <1>1 DEF BeginSchedule
<1>2. ASSUME NEW p \in Procs, LockSchedule(p) PROVE Goal
  BY <1>2 DEF LockSchedule
<1>3. ASSUME NEW p \in Procs, CompareList(p) PROVE Goal
  BY <1>3 DEF CompareList
<1>4. ASSUME NEW p \in Procs, PublishList(p) PROVE Goal
  BY <1>4 DEF PublishList
<1>5. ASSUME NEW p \in Procs, PrintJob(p) PROVE Goal
  BY <1>5 DEF PrintJob
<1>6. ASSUME NEW p \in Procs, BootstrapJob(p) PROVE Goal
  BY <1>6 DEF BootstrapJob
<1>7. ASSUME NEW p \in Procs, UndoList(p) PROVE Goal
  BY <1>7 DEF UndoList
<1>8. ASSUME NEW p \in Procs, MatchList(p) PROVE Goal
  BY <1>8 DEF MatchList
<1>9. ASSUME NEW p \in Procs, BootoutJob(p) PROVE Goal
  BY <1>9 DEF BootoutJob
<1>10. ASSUME NEW p \in Procs, UnlistJob(p) PROVE Goal
  BY <1>10 DEF UnlistJob
<1>11. ASSUME NEW p \in Procs, ScheduleReturn(p) PROVE Goal
  BY <1>11 DEF ScheduleReturn, EndSchedule
<1>12. ASSUME NEW p \in Procs, ScheduleCrash(p) PROVE Goal
  BY <1>12 DEF ScheduleCrash, EndSchedule
<1>13. CASE SwitchCore \/ Login
  BY <1>13 DEF SwitchCore, Login
<1>14. CASE UNCHANGED scheduleVars
  BY <1>14 DEF scheduleVars
<1> QED
  BY <1>1, <1>2, <1>3, <1>4, <1>5, <1>6, <1>7, <1>8, <1>9, <1>10, <1>11, <1>12, <1>13, <1>14
     DEF ScheduleNext, ScheduleStep

-----------------------------------------------------------------------------
(* The variables of the schedule stay within their types. *)
THEOREM ScheduleTypeCorrect == ScheduleSpec => []ScheduleTypeOK
BY ScheduleInvInit, ScheduleInvStep, PTL DEF ScheduleSpec, ScheduleInv

(* List and job agree between commands, results are true of them, and only *)
(* a list of another version is refused, for any number of commands,       *)
(* versions, upgrades and failures (schedule/manage.go).                   *)
THEOREM ScheduleAgrees == ScheduleSpec => []ScheduleSound
BY ScheduleInvInit, ScheduleInvStep, PTL DEF ScheduleSpec, ScheduleInv

-----------------------------------------------------------------------------
(* The machine *)

(* A step of the machine is a step of one part; the others stutter. *)
LEMMA StepsOfParts ==
    [HostNext]_hostVars =>
        /\ [AuditNext]_auditVars /\ [ScheduleNext]_scheduleVars /\ [DeviceNext]_deviceVars
        /\ [StoreNext]_storeVars /\ [OrchestratorNext]_orchestratorVars /\ [EngineNext]_engineVars
BY DEF HostNext, hostVars, AuditPart, SchedulePart, DevicePart, StorePart, OrchestratorPart, EnginePart, UpdatePart

LEMMA InitOfParts ==
    HostInit => AuditInit /\ ScheduleInit /\ DeviceInit /\ StoreInit /\ OrchestratorInit /\ EngineInit
BY DEF HostInit

(* The types of every component on one machine. *)
THEOREM HostTypeCorrect == HostSpec => []HostTypeOK
<1>1. AuditInv /\ ScheduleInv /\ DeviceInv /\ StoreInv /\ CollectorInv /\ EngineInv => HostTypeOK
  BY AuditInvImplies, StoreInvImplies, CollectorInvImplies DEF HostTypeOK, ScheduleInv, DeviceInv, EngineInv
<1> QED
  BY <1>1, InitOfParts, StepsOfParts, AuditInvInit, AuditInvStep, ScheduleInvInit, ScheduleInvStep, DeviceInvInit, DeviceInvStep,
     StoreInvInit, StoreInvStep, CollectorInvInit, CollectorInvStep, EngineInvInit, EngineInvStep, PTL DEF HostSpec

(* The archive keeps its promises for any number of commands, runs, sizes, *)
(* budgets and clock readings, whatever the user, crashes and failures do  *)
(* (audit/manager.go).                                                     *)
THEOREM HostArchiveSound == HostSpec => ArchiveSound
<1>1. HostSpec => [](BudgetKept /\ PublishedWhole /\ TempsExplained)
  BY InitOfParts, StepsOfParts, AuditInvInit, AuditInvStep, AuditInvImplies, PTL DEF HostSpec
<1>2. HostSpec => NewestArchiveSpared
  BY InitOfParts, StepsOfParts, AuditInvInit, AuditInvStep, SparedOrStutter, PTL DEF HostSpec, NewestArchiveSpared
<1>3. HostSpec => ExportNeverReplaces
  BY StepsOfParts, ExportOrStutter, PTL DEF HostSpec, ExportNeverReplaces
<1> QED
  BY <1>1, <1>2, <1>3 DEF ArchiveSound

(* One identity and one database for any number of first commands of any   *)
(* versions, and any faults (cmd/ssc-init/main.go, store/sqlite.go,        *)
(* store/migrations.go).                                                   *)
THEOREM HostStoreSound == HostSpec => []StoreSound
<1>1. DeviceInv /\ StoreInv => StoreSound
  BY StoreInvImplies DEF DeviceInv, StoreSound
<1> QED
  BY <1>1, InitOfParts, StepsOfParts, DeviceInvInit, DeviceInvStep, StoreInvInit, StoreInvStep, PTL DEF HostSpec

(* Collect answers for any number of collectors, catalogs, reports and     *)
(* slots (collector/orchestrator.go, collector/coverage.go).               *)
THEOREM HostCollectorsAnswer == HostSpec => []CollectorsAnswer
<1>1. CollectorInv => CollectorsAnswer
  BY CollectorInvImplies DEF CollectorsAnswer
<1> QED
  BY <1>1, InitOfParts, StepsOfParts, CollectorInvInit, CollectorInvStep, PTL DEF HostSpec

=============================================================================
