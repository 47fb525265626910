-------------------------- MODULE CoreInstallProofs --------------------------
(***************************************************************************)
(* Theorems about CoreInstall, for any number of commands, versions,       *)
(* builds and faults.                                                      *)
(***************************************************************************)
EXTENDS CoreInstall, TLAPS

(* The steps that hold the lock. *)
Locking == Activating \cup Pruning \cup RollingBack

(* Exactly the holder of the lock is at a step that holds it. *)
LockHeld == \A p \in Procs : pc[p] \in Locking <=> lock = p

(* Every step finds the locals it uses. *)
LocalsOK ==
    \A p \in Procs :
        /\ pc[p] \in Staging \cup Activating \cup RollingBack => ver[p] \in Versions
        /\ pc[p] \in Staging => core[p] \in Cores
        /\ pc[p] \in {"hash", "health", "after", "rehash", "switch", "digest", "restore", "exchange"}
              => seen[p] \in Cores
        /\ pc[p] \in {"demote", "restore", "exchange", "verify", "digest"} => old[p] \in Versions
        /\ pc[p] # "prune" => victims[p] = {}

TypeInv == TypeOK /\ LockHeld /\ LocalsOK

LEMMA DirTypes ==
    /\ NoDir.core \notin Cores /\ EmptyDir.core \notin Cores /\ EmptyDir \in Dirs
    /\ NoDir.core = None /\ NoDir.manifest = Partial
  BY InstallAssumption DEF NoDir, EmptyDir, Dirs

(* A settled file leaves directories what they are. *)
LEMMA SettleType ==
    ASSUME TypeOK, NEW p \in Procs, NEW c \in Cores \cup {Partial}, Settle(p, c)
    PROVE  /\ staging' \in [Versions -> Dirs \cup {NoDir}]
           /\ versions' \in [Versions -> Dirs \cup {NoDir}]
<1>1. ASSUME NEW d \in [Versions -> Dirs \cup {NoDir}], NEW v \in Versions
      PROVE  (IF d[v].core = p THEN [d[v] EXCEPT !.core = c] ELSE d[v]) \in Dirs \cup {NoDir}
  <2>1. CASE d[v] = NoDir
    BY <2>1, InstallAssumption DEF NoDir
  <2>2. CASE d[v] \in Dirs
    BY <2>2 DEF Dirs
  <2> QED
    BY <2>1, <2>2
<1> QED
  BY <1>1 DEF Settle, TypeOK

(* A settled file takes no usable core away. *)
LEMMA SettleUsable ==
    ASSUME TypeOK, NEW p \in Procs, NEW c, Settle(p, c), NEW v \in Versions, Usable(v)
    PROVE  Usable(v)'
<1>1. versions[v].core # p
  BY InstallAssumption DEF Usable
<1> QED
  BY <1>1 DEF Settle, Usable, TypeOK

LocalTypes ==
    /\ lock \in Procs \cup {None}
    /\ pc \in [Procs -> Labels]
    /\ ver \in [Procs -> Versions \cup {None}]
    /\ core \in [Procs -> Cores \cup {None}]
    /\ seen \in [Procs -> Cores \cup {None}]
    /\ old \in [Procs -> Versions \cup {None}]
    /\ victims \in [Procs -> SUBSET Versions]

(* A command that returns, from wherever it was, leaves the lock and the   *)
(* locals of the others as they were.                                      *)
LEMMA ReturnType ==
    ASSUME TypeInv, NEW p \in Procs, Return(p)
    PROVE  LocalTypes' /\ LockHeld' /\ LocalsOK'
<1> USE InstallAssumption
    DEF TypeInv, TypeOK, LockHeld, LocalsOK, LocalTypes, Labels, Locking, Staging, Activating,
        Pruning, RollingBack, Return, Goto
<1>1. LocalTypes'
  OBVIOUS
<1>2. LockHeld'
  OBVIOUS
<1>3. LocalsOK'
  OBVIOUS
<1> QED
  BY <1>1, <1>2, <1>3

(* A prune leaves directories what they are, and its list holds versions. *)
LEMMA PruneTypes ==
    ASSUME TypeOK, NEW p \in Procs, Prune(p)
    PROVE  /\ versions' \in [Versions -> Dirs \cup {NoDir}]
           /\ misread' \in BOOLEAN /\ faults' \in Nat
           /\ \/ Return(p)
              \/ /\ pc' = [pc EXCEPT ![p] = "prune"]
                 /\ victims' \in [Procs -> SUBSET Versions]
                 /\ \A q \in Procs : q = p \/ victims'[q] = victims[q]
                 /\ UNCHANGED <<lock, ver, core, seen, old>>
<1>1. CASE ListVersions(p)
  <2>1. misread' \in BOOLEAN /\ faults' \in Nat /\ UNCHANGED versions
    <3>1. misread' = misread \/ misread' = TRUE
      BY Zenon, <1>1 DEF ListVersions
    <3>2. faults' \in Nat
      BY <1>1 DEF ListVersions, Fault, TypeOK
    <3>3. UNCHANGED versions
      BY <1>1 DEF ListVersions, dirs
    <3> QED
      BY <3>1, <3>2, <3>3 DEF TypeOK
  <2>2. CASE Return(p)
    BY <2>1, <2>2 DEF TypeOK
  <2>3. CASE \E w \in SUBSET Versions :
                victims' = [victims EXCEPT ![p] = w] /\ Goto(p, "prune")
                /\ UNCHANGED <<lock, ver, core, seen, old>>
    BY <2>1, <2>3 DEF TypeOK, Goto
  <2> QED
    BY <1>1, <2>2, <2>3 DEF ListVersions, Installed
<1>2. CASE PruneVersion(p)
  <2>1. misread' \in BOOLEAN /\ faults' \in Nat
    BY <1>2 DEF PruneVersion, Fault, TypeOK
  <2>2. ASSUME NEW v \in Versions
        PROVE  [versions[v] EXCEPT !.core = None] \in Dirs \cup {NoDir}
    <3>1. CASE versions[v] = NoDir
      BY <3>1 DEF NoDir
    <3>2. CASE versions[v] \in Dirs
      BY <3>2 DEF Dirs
    <3> QED
      BY <3>1, <3>2 DEF TypeOK
  <2>3. versions' \in [Versions -> Dirs \cup {NoDir}]
    BY <1>2, <2>2 DEF PruneVersion, TypeOK
  <2>4. CASE Return(p)
    BY <2>1, <2>3, <2>4
  <2>5. CASE ~Return(p)
    <3>1. /\ pc' = [pc EXCEPT ![p] = "prune"]
          /\ victims' \in [Procs -> SUBSET Versions]
          /\ \A q \in Procs : q = p \/ victims'[q] = victims[q]
          /\ UNCHANGED <<lock, ver, core, seen, old>>
      BY <1>2, <2>5 DEF PruneVersion, TypeOK
    <3> QED
      BY <2>1, <2>3, <3>1
  <2> QED
    BY <2>4, <2>5
<1> QED
  BY <1>1, <1>2 DEF Prune

LEMMA TypeInit == Init => TypeInv
<1> SUFFICES ASSUME Init PROVE TypeInv
  OBVIOUS
<1> USE DEF Init
<1>1. /\ staging \in [Versions -> Dirs \cup {NoDir}]
      /\ versions \in [Versions -> Dirs \cup {NoDir}]
  OBVIOUS
<1>2. /\ current \in Versions \cup {None} /\ previous \in Versions \cup {None}
      /\ lock \in Procs \cup {None}
      /\ checked \subseteq Versions \X Cores /\ misread \in BOOLEAN /\ faults \in Nat
  OBVIOUS
<1>3. LocalTypes
  BY DEF LocalTypes, Labels
<1>4. LockHeld /\ LocalsOK
  BY InstallAssumption
  DEF LockHeld, LocalsOK, Locking, Staging, Activating, Pruning, RollingBack
<1> QED
  BY <1>1, <1>2, <1>3, <1>4 DEF TypeInv, TypeOK, LocalTypes

LEMMA TypeStep == TypeInv /\ [Next]_vars => TypeInv'
<1> SUFFICES ASSUME TypeInv, [Next]_vars PROVE TypeInv'
  OBVIOUS
<1> USE InstallAssumption, DirTypes
    DEF TypeInv, TypeOK, LockHeld, LocalsOK, Labels, Locking, Staging, Activating, Pruning,
        RollingBack, dirs, pointers, locals, history, holding, Goto, Fault
<1>1. ASSUME NEW p \in Procs, NEW v \in Versions, BeginInstall(p, v) PROVE TypeInv'
  BY <1>1 DEF BeginInstall
<1>2. ASSUME NEW p \in Procs, BeginRollback(p) PROVE TypeInv'
  BY <1>2 DEF BeginRollback
<1>3. ASSUME NEW p \in Procs, Stage(p) PROVE TypeInv'
  <2>1. CASE ClearStaging(p)
    <3>1. CASE Return(p)
      BY <2>1, <3>1, ReturnType DEF ClearStaging, LocalTypes
    <3>2. CASE ~Return(p)
      BY <2>1, <3>2 DEF ClearStaging
    <3> QED
      BY <3>1, <3>2
  <2>2. CASE MakeStaging(p)
    <3>1. CASE Return(p)
      BY <2>2, <3>1, ReturnType DEF MakeStaging, LocalTypes
    <3>2. CASE ~Return(p)
      BY <2>2, <3>2 DEF MakeStaging
    <3> QED
      BY <3>1, <3>2
  <2>3. CASE CreateCore(p)
    BY SMTT(40), <2>3 DEF CreateCore, Dirs
  <2>4. CASE CopyCore(p)
    <3>1. PICK c \in Cores \cup {Partial} : Settle(p, c)
      BY <2>4 DEF CopyCore
    <3>2. /\ staging' \in [Versions -> Dirs \cup {NoDir}]
          /\ versions' \in [Versions -> Dirs \cup {NoDir}]
      BY <3>1, SettleType
    <3> QED
      BY <2>4, <3>2 DEF CopyCore
  <2>5. CASE WriteManifest(p)
    BY SMTT(40), <2>5 DEF WriteManifest, Dirs
  <2>6. CASE RemoveInstalled(p)
    BY SMTT(40), <2>6 DEF RemoveInstalled, Dirs
  <2>7. CASE RenameStaged(p)
    BY <2>7 DEF RenameStaged
  <2>8. CASE Discard(p)
    BY <2>8 DEF Discard, Return
  <2> QED
    BY <1>3, <2>1, <2>2, <2>3, <2>4, <2>5, <2>6, <2>7, <2>8 DEF Stage
<1>4. ASSUME NEW p \in Procs, Activate(p) PROVE TypeInv'
  <2>1. CASE LockActivate(p)
    <3>1. CASE Return(p)
      BY <2>1, <3>1, ReturnType DEF LockActivate, LocalTypes
    <3>2. CASE ~Return(p)
      BY <2>1, <3>2 DEF LockActivate
    <3> QED
      BY <3>1, <3>2
  <2>2. CASE VerifyBefore(p)
    BY SMTT(40), <2>2 DEF VerifyBefore, ReadManifest, HashCore, Return
  <2>3. CASE HealthCheck(p)
    BY SMTT(40), <2>3 DEF HealthCheck, Return
  <2>4. CASE VerifyAfter(p)
    BY SMTT(40), <2>4 DEF VerifyAfter, HashCore, Return
  <2>5. CASE SwitchCurrent(p)
    <3>1. CASE Return(p)
      BY <2>5, <3>1, ReturnType DEF SwitchCurrent, LocalTypes
    <3>2. CASE ~Return(p)
      BY <2>5, <3>2 DEF SwitchCurrent
    <3> QED
      BY <3>1, <3>2
  <2>6. CASE DemoteOutgoing(p)
    BY <2>6 DEF DemoteOutgoing
  <2> QED
    BY <1>4, <2>1, <2>2, <2>3, <2>4, <2>5, <2>6 DEF Activate
<1>5. ASSUME NEW p \in Procs, Prune(p) PROVE TypeInv'
  <2>1. UNCHANGED <<staging, pointers, checked>>
    BY <1>5 DEF Prune, ListVersions, PruneVersion
  <2>2. CASE Return(p)
    BY <1>5, <2>1, <2>2, PruneTypes, ReturnType DEF LocalTypes
  <2>3. CASE ~Return(p)
    <3>1. pc[p] \in Pruning
      BY <1>5 DEF Prune, ListVersions, PruneVersion
    <3> QED
      BY <1>5, <2>1, <2>3, <3>1, PruneTypes
  <2> QED
    BY <2>2, <2>3
<1>6. ASSUME NEW p \in Procs, Rollback(p) PROVE TypeInv'
  <2>1. CASE VerifyRollback(p)
    BY SMTT(40), <2>1 DEF VerifyRollback, ReadManifest, HashCore, Return
  <2>2. CASE RestoreCurrent(p)
    BY SMTT(40), <2>2 DEF RestoreCurrent, Return
  <2>3. CASE ExchangePrevious(p)
    BY <2>3 DEF ExchangePrevious, Return
  <2> QED
    BY <1>6, <2>1, <2>2, <2>3 DEF Rollback
<1>7. ASSUME NEW p \in Procs, Crash(p) PROVE TypeInv'
  <2>1. /\ staging' \in [Versions -> Dirs \cup {NoDir}]
        /\ versions' \in [Versions -> Dirs \cup {NoDir}]
    BY <1>7, SettleType DEF Crash
  <2> QED
    BY <1>7, <2>1 DEF Crash, Return
<1>8. CASE UNCHANGED vars
  BY <1>8 DEF vars
<1> QED
  BY <1>1, <1>2, <1>3, <1>4, <1>5, <1>6, <1>7, <1>8 DEF Next, Running

LEMMA TypeAlways == Spec => []TypeInv
  BY TypeInit, TypeStep, PTL DEF Spec

(* Type correctness: every value the installer computes from what it reads *)
(* from the shared directories stays within its type, however stages and   *)
(* prunes interleave (install.go:112-544).                                 *)
THEOREM TypeCorrect == Spec => []TypeOK
  BY TypeAlways, PTL DEF TypeInv

-----------------------------------------------------------------------------
(* Pruning. *)

PruneInv == TypeInv /\ PruneSparesPointers

(* The pointers move only under the lock, outside a prune. *)
LEMMA PointersMove ==
    ASSUME TypeInv, [Next]_vars
    PROVE  \/ UNCHANGED pointers
           \/ \E p \in Procs : /\ pc[p] \in {"switch", "demote", "restore", "exchange"}
                               /\ lock = p
                               /\ victims' = victims \/ victims' = [victims EXCEPT ![p] = {}]
<1> USE DEF TypeInv, LockHeld, Locking, Activating, Pruning, RollingBack, pointers, holding
<1>1. ASSUME NEW p \in Procs, SwitchCurrent(p) PROVE pc[p] = "switch" /\ lock = p
  BY <1>1 DEF SwitchCurrent
<1>2. ASSUME NEW p \in Procs, DemoteOutgoing(p) PROVE pc[p] = "demote" /\ lock = p
  BY <1>2 DEF DemoteOutgoing
<1>3. ASSUME NEW p \in Procs, RestoreCurrent(p) PROVE pc[p] = "restore" /\ lock = p
  BY <1>3 DEF RestoreCurrent
<1>4. ASSUME NEW p \in Procs, ExchangePrevious(p) PROVE pc[p] = "exchange" /\ lock = p
  BY <1>4 DEF ExchangePrevious
<1>5. ASSUME NEW p \in Procs,
             SwitchCurrent(p) \/ DemoteOutgoing(p) \/ RestoreCurrent(p) \/ ExchangePrevious(p)
      PROVE  victims' = victims \/ victims' = [victims EXCEPT ![p] = {}]
  BY <1>5 DEF SwitchCurrent, DemoteOutgoing, RestoreCurrent, ExchangePrevious, Return
<1>6. ASSUME NEW p \in Procs, Stage(p) PROVE UNCHANGED pointers
  BY <1>6 DEF Stage, ClearStaging, MakeStaging, CreateCore, CopyCore, WriteManifest,
              RemoveInstalled, RenameStaged, Discard
<1>7. ASSUME NEW p \in Procs, LockActivate(p) \/ VerifyBefore(p) \/ HealthCheck(p) \/ VerifyAfter(p)
      PROVE  UNCHANGED pointers
  BY <1>7 DEF LockActivate, VerifyBefore, HealthCheck, VerifyAfter
<1>8. ASSUME NEW p \in Procs, Prune(p) \/ VerifyRollback(p) PROVE UNCHANGED pointers
  BY <1>8 DEF Prune, ListVersions, PruneVersion, VerifyRollback
<1>9. ASSUME NEW p \in Procs, (\E v \in Versions : BeginInstall(p, v)) \/ BeginRollback(p) \/ Crash(p)
      PROVE  UNCHANGED pointers
  BY <1>9 DEF BeginInstall, BeginRollback, Crash
<1> QED
  BY <1>1, <1>2, <1>3, <1>4, <1>5, <1>6, <1>7, <1>8, <1>9
  DEF Next, Running, Activate, Rollback, vars

(* Only a prune chooses victims, and then without the pointers that it can *)
(* read; that it could not read one stays on record.                       *)
LEMMA VictimsChosen ==
    ASSUME TypeInv, [Next]_vars, NEW q \in Procs
    PROVE  /\ misread => misread'
           /\ \/ victims'[q] \subseteq victims[q]
              \/ /\ current \notin victims'[q] /\ (~misread' => previous \notin victims'[q])
                 /\ UNCHANGED pointers
<1> USE DEF TypeInv, TypeOK, holding, locals, history
<1> DEFINE Grows == misread => misread'
<1>1. ASSUME NEW p \in Procs, ListVersions(p)
      PROVE  /\ Grows
             /\ \/ victims'[q] \subseteq victims[q]
                \/ /\ current \notin victims'[q] /\ (~misread' => previous \notin victims'[q])
                   /\ UNCHANGED pointers
  BY <1>1 DEF ListVersions, Return
<1>2. ASSUME NEW p \in Procs, PruneVersion(p) PROVE victims'[q] \subseteq victims[q] /\ Grows
  BY <1>2 DEF PruneVersion, Return
<1>3. ASSUME NEW p \in Procs, Stage(p) PROVE victims'[q] \subseteq victims[q] /\ Grows
  BY <1>3 DEF Stage, ClearStaging, MakeStaging, CreateCore, CopyCore, WriteManifest,
              RemoveInstalled, RenameStaged, Discard, Return
<1>4. ASSUME NEW p \in Procs, Activate(p) PROVE victims'[q] \subseteq victims[q] /\ Grows
  BY <1>4 DEF Activate, LockActivate, VerifyBefore, HealthCheck, VerifyAfter, ReadManifest,
              HashCore, SwitchCurrent, DemoteOutgoing, Return
<1>5. ASSUME NEW p \in Procs, Rollback(p) PROVE victims'[q] \subseteq victims[q] /\ Grows
  BY <1>5 DEF Rollback, VerifyRollback, ReadManifest, HashCore, RestoreCurrent,
              ExchangePrevious, Return
<1>6. ASSUME NEW p \in Procs, (\E v \in Versions : BeginInstall(p, v)) \/ BeginRollback(p) \/ Crash(p)
      PROVE  victims'[q] \subseteq victims[q] /\ Grows
  BY <1>6 DEF BeginInstall, BeginRollback, Crash, Return
<1> QED
  BY <1>1, <1>2, <1>3, <1>4, <1>5, <1>6 DEF Next, Running, Prune, vars

LEMMA PruneInit == Init => PruneInv
  BY TypeInit DEF Init, PruneInv, PruneSparesPointers

LEMMA PruneStep == PruneInv /\ [Next]_vars => PruneInv'
<1> SUFFICES ASSUME PruneInv, [Next]_vars PROVE PruneInv'
  OBVIOUS
<1>1. TypeInv'
  BY TypeStep DEF PruneInv
<1>2. ASSUME NEW q \in Procs
      PROVE  current' \notin victims'[q] /\ (~misread' => previous' \notin victims'[q])
  <2>1. CASE UNCHANGED pointers
    BY <2>1, VictimsChosen DEF PruneInv, PruneSparesPointers, pointers
  <2>2. CASE ~UNCHANGED pointers
    <3>1. PICK p \in Procs : /\ pc[p] \in {"switch", "demote", "restore", "exchange"}
                             /\ lock = p
                             /\ victims' = victims \/ victims' = [victims EXCEPT ![p] = {}]
      BY <2>2, PointersMove DEF PruneInv
    <3>2. pc[q] # "prune"
      BY <3>1 DEF PruneInv, TypeInv, LockHeld, Locking, Activating, Pruning, RollingBack
    <3>3. victims[q] = {}
      BY <3>2 DEF PruneInv, TypeInv, LocalsOK
    <3> QED
      BY <3>1, <3>3 DEF PruneInv, TypeInv, TypeOK
  <2> QED
    BY <2>1, <2>2
<1> QED
  BY <1>1, <1>2 DEF PruneInv, PruneSparesPointers

LEMMA PruneAlways == Spec => []PruneInv
  BY PruneInit, PruneStep, PTL DEF Spec

(* A prune never has the active version or, unless it could not read that  *)
(* pointer, the rollback target on its list: the list is made and worked   *)
(* off under the lock that every pointer write holds (install.go:512-544). *)
THEOREM PruneSpares == Spec => []PruneSparesPointers
  BY PruneAlways, PTL DEF PruneInv

(* The active core and the rollback target stop being usable only when a   *)
(* stage removes that very version (install.go:131-175, 543), or, for the  *)
(* target, after a prune that could not read its pointer.                  *)
THEOREM OnlyRestage == Spec => OnlyRestageDisturbs
<1>1. ASSUME PruneInv, [Next]_vars,
             NEW v \in Versions, v \in {current, previous}, Usable(v), ~Usable(v)'
      PROVE  (\E p \in Procs : pc[p] = "remove" /\ ver[p] = v) \/ (misread /\ v # current)
  <2> USE DirTypes DEF PruneInv, TypeInv, TypeOK
  <2>0. versions[v] \notin {NoDir, EmptyDir}
    BY <1>1 DEF Usable
  <2>1. versions' # versions
    BY <1>1 DEF Usable
  <2>2. ASSUME NEW p \in Procs, ~(pc[p] = "remove" /\ ver[p] = v), Stage(p) PROVE FALSE
    <3>1. CASE CopyCore(p)
      BY <3>1, <1>1, SettleUsable DEF CopyCore
    <3>2. CASE RemoveInstalled(p)
      BY <3>2, <2>2, <1>1 DEF RemoveInstalled, Usable
    <3>3. CASE RenameStaged(p)
      BY <3>3, <2>0, <1>1 DEF RenameStaged, Usable, dirs
    <3> QED
      BY <2>1, <2>2, <3>1, <3>2, <3>3
      DEF Stage, ClearStaging, MakeStaging, CreateCore, WriteManifest, Discard
  <2>3. ASSUME NEW p \in Procs, Prune(p), ~(misread /\ v # current) PROVE FALSE
    <3>1. CASE ListVersions(p)
      BY <3>1, <2>1 DEF ListVersions, dirs
    <3>2. CASE PruneVersion(p)
      <4>1. v \notin victims[p]
        BY <1>1, <2>3 DEF PruneSparesPointers
      <4> QED
        BY <3>2, <4>1, <1>1 DEF PruneVersion, Usable
    <3> QED
      BY <2>3, <3>1, <3>2 DEF Prune
  <2>4. ASSUME NEW p \in Procs, Crash(p) PROVE FALSE
    BY <2>4, <1>1, SettleUsable DEF Crash
  <2>5. ASSUME NEW p \in Procs, Activate(p) \/ Rollback(p) PROVE FALSE
    BY <2>5, <2>1
    DEF Activate, Rollback, dirs, LockActivate, VerifyBefore, HealthCheck, VerifyAfter,
        SwitchCurrent, DemoteOutgoing, VerifyRollback, RestoreCurrent, ExchangePrevious
  <2>6. ASSUME NEW p \in Procs, (\E u \in Versions : BeginInstall(p, u)) \/ BeginRollback(p)
        PROVE  FALSE
    BY <2>6, <2>1 DEF BeginInstall, BeginRollback, dirs
  <2> QED
    BY <1>1, <2>1, <2>2, <2>3, <2>4, <2>5, <2>6 DEF Next, Running, vars, dirs
<1>2. PruneInv /\ [Next]_vars =>
         [\A v \in Versions :
             v \in {current, previous} /\ Usable(v) /\ ~Usable(v)' =>
                 \/ \E p \in Procs : pc[p] = "remove" /\ ver[p] = v
                 \/ misread /\ v # current]_vars
  BY <1>1
<1> QED
  BY <1>2, PruneAlways, PTL DEF Spec, OnlyRestageDisturbs

-----------------------------------------------------------------------------
(* Health checks. *)

IsChecked(v) == \E c \in Cores : <<v, c>> \in checked

(* What a command is about to write into a pointer was checked. *)
LocalsChecked ==
    \A p \in Procs :
        /\ pc[p] \in {"after", "rehash", "switch"} \cup RollingBack => IsChecked(ver[p])
        /\ pc[p] \in {"demote"} \cup RollingBack => IsChecked(old[p])

CheckedInv == TypeInv /\ PointersChecked /\ LocalsChecked

LEMMA CheckedGrows ==
    ASSUME TypeInv, [Next]_vars
    PROVE  checked \subseteq checked'
<1> USE DEF history
<1>1. ASSUME NEW p \in Procs, Stage(p) \/ Prune(p) \/ Rollback(p) PROVE checked \subseteq checked'
  BY <1>1 DEF Stage, ClearStaging, MakeStaging, CreateCore, CopyCore, WriteManifest,
              RemoveInstalled, RenameStaged, Discard, Prune, ListVersions, PruneVersion,
              Rollback, VerifyRollback, RestoreCurrent, ExchangePrevious
<1>2. ASSUME NEW p \in Procs, Activate(p) PROVE checked \subseteq checked'
  BY <1>2 DEF Activate, LockActivate, VerifyBefore, HealthCheck, VerifyAfter,
              SwitchCurrent, DemoteOutgoing
<1>3. ASSUME NEW p \in Procs, (\E v \in Versions : BeginInstall(p, v)) \/ BeginRollback(p) \/ Crash(p)
      PROVE  checked \subseteq checked'
  BY <1>3 DEF BeginInstall, BeginRollback, Crash
<1> QED
  BY <1>1, <1>2, <1>3 DEF Next, Running, vars

LEMMA CheckedStep == CheckedInv /\ [Next]_vars => CheckedInv'
<1> SUFFICES ASSUME CheckedInv, [Next]_vars PROVE CheckedInv'
  OBVIOUS
<1>t. TypeInv'
  BY TypeStep DEF CheckedInv
<1>g. \A v : IsChecked(v) => IsChecked(v)'
  BY CheckedGrows DEF CheckedInv, IsChecked
<1> DEFINE Good == PointersChecked' /\ LocalsChecked'
<1>s. PointersChecked <=> \A v \in {current, previous} \ {None} : IsChecked(v)
  BY DEF PointersChecked, IsChecked
<1>s1. PointersChecked' <=> \A v \in {current', previous'} \ {None} : IsChecked(v)'
  BY DEF PointersChecked, IsChecked
<1> SUFFICES Good
  BY <1>t DEF CheckedInv
<1> USE <1>g, <1>s, <1>s1
    DEF CheckedInv, LocalsChecked, RollingBack, TypeInv, TypeOK, LocalsOK, Activating,
        pointers, holding, Goto
<1> HIDE DEF IsChecked, PointersChecked
<1>1. ASSUME NEW p \in Procs, NEW v \in Versions, BeginInstall(p, v) PROVE Good
  BY <1>1 DEF BeginInstall
<1>2. ASSUME NEW p \in Procs, BeginRollback(p) PROVE Good
  BY <1>2 DEF BeginRollback
<1>3. ASSUME NEW p \in Procs, Return(p), UNCHANGED pointers PROVE Good
  BY <1>3 DEF Return
<1>4. ASSUME NEW p \in Procs, NEW l \in Staging \cup {"hash", "health"} \cup Pruning,
             Goto(p, l), UNCHANGED <<pointers, ver, old>>
      PROVE  Good
  BY <1>4 DEF Staging, Pruning
<1>5. ASSUME NEW p \in Procs, Stage(p) PROVE Good
  BY <1>3, <1>4, <1>5
  DEF Stage, ClearStaging, MakeStaging, CreateCore, CopyCore, WriteManifest,
      RemoveInstalled, RenameStaged, Discard, Staging
<1>6. ASSUME NEW p \in Procs, Activate(p) PROVE Good
  <2>1. CASE LockActivate(p)
    BY <1>3, <2>1 DEF LockActivate
  <2>2. CASE VerifyBefore(p)
    BY <1>3, <1>4, <2>2 DEF VerifyBefore, ReadManifest, HashCore
  <2>3. CASE HealthCheck(p)
    <3>1. CASE Return(p)
      BY <1>3, <2>3, <3>1 DEF HealthCheck
    <3>2. CASE ~Return(p)
      <4>1. IsChecked(ver[p])'
        BY <2>3, <3>2 DEF HealthCheck, IsChecked
      <4> QED
        BY <2>3, <3>2, <4>1 DEF HealthCheck
    <3> QED
      BY <3>1, <3>2
  <2>4. CASE VerifyAfter(p)
    <3>1. CASE Return(p)
      BY <1>3, <2>4, <3>1 DEF VerifyAfter
    <3>2. CASE ~Return(p)
      BY <2>4, <3>2 DEF VerifyAfter, HashCore
    <3> QED
      BY <3>1, <3>2
  <2>5. CASE SwitchCurrent(p)
    <3>1. CASE Return(p) /\ UNCHANGED pointers
      BY <1>3, <3>1
    <3>2. CASE ~(Return(p) /\ UNCHANGED pointers)
      BY <2>5, <3>2 DEF SwitchCurrent
    <3> QED
      BY <3>1, <3>2
  <2>6. CASE DemoteOutgoing(p)
    BY <2>6 DEF DemoteOutgoing
  <2> QED
    BY <1>6, <2>1, <2>2, <2>3, <2>4, <2>5, <2>6 DEF Activate
<1>7. ASSUME NEW p \in Procs, Prune(p) PROVE Good
  <2>1. CASE ListVersions(p)
    BY <1>3, <1>4, <2>1 DEF ListVersions, Pruning
  <2>2. CASE PruneVersion(p)
    BY <1>3, <2>2 DEF PruneVersion
  <2> QED
    BY <1>7, <2>1, <2>2 DEF Prune
<1>8. ASSUME NEW p \in Procs, Rollback(p) PROVE Good
  <2>1. CASE VerifyRollback(p)
    <3>1. CASE Return(p)
      BY <1>3, <2>1, <3>1 DEF VerifyRollback
    <3>2. CASE ~Return(p)
      BY <2>1, <3>2 DEF VerifyRollback, ReadManifest, HashCore
    <3> QED
      BY <3>1, <3>2
  <2>2. CASE RestoreCurrent(p)
    <3>1. CASE Return(p) /\ UNCHANGED pointers
      BY <1>3, <3>1
    <3>2. CASE ~(Return(p) /\ UNCHANGED pointers)
      BY <2>2, <3>2 DEF RestoreCurrent
    <3> QED
      BY <3>1, <3>2
  <2>3. CASE ExchangePrevious(p)
    BY <2>3 DEF ExchangePrevious, Return
  <2> QED
    BY <1>8, <2>1, <2>2, <2>3 DEF Rollback
<1>9. ASSUME NEW p \in Procs, Crash(p) PROVE Good
  BY <1>3, <1>9 DEF Crash
<1>10. CASE UNCHANGED vars
  BY <1>10 DEF vars, locals
<1> QED
  BY <1>1, <1>2, <1>5, <1>6, <1>7, <1>8, <1>9, <1>10 DEF Next, Running

(* Neither pointer ever names a version of which no core passed the health *)
(* check, wherever a switch or a rollback is interrupted                   *)
(* (install.go:386-417, 445-456).                                          *)
THEOREM OnlyCheckedActive == Spec => []PointersChecked
<1>1. Init => CheckedInv
  BY TypeInit DEF Init, CheckedInv, PointersChecked, LocalsChecked, RollingBack
<1> QED
  BY <1>1, CheckedStep, PTL DEF Spec, CheckedInv

-----------------------------------------------------------------------------
(* Without a fault, what a switch or a rollback is about to write as       *)
(* previous differs from current, and before the first switch there is no  *)
(* previous.                                                               *)
TargetInv ==
    faults = 0 =>
        /\ current = None => previous = None
        /\ current # None /\ (\A p \in Procs : pc[p] \notin {"demote", "exchange"}) => previous # current
        /\ \A p \in Procs :
              /\ pc[p] \in {"demote", "exchange"} => current # None /\ old[p] # current
              /\ pc[p] \in {"verify", "digest", "restore"} => old[p] = current /\ ver[p] # current

LEMMA TargetStep == TypeInv /\ TargetInv /\ [Next]_vars => TargetInv'
<1> SUFFICES ASSUME TypeInv, TargetInv, [Next]_vars, faults' = 0 PROVE TargetInv'
  BY DEF TargetInv
<1> DEFINE Still(p) == \A q \in Procs \ {p} : pc'[q] = pc[q] /\ ver'[q] = ver[q] /\ old'[q] = old[q]
           Between == {"demote", "exchange"}
           Back == {"verify", "digest", "restore"}
<1>0. faults \in Nat /\ faults = 0
  <2>1. faults \in Nat
    BY DEF TypeInv, TypeOK
  <2>2. faults' \in {faults, faults + 1}
    BY DEF Next, Running, Stage, Activate, Prune, Rollback, BeginInstall, ClearStaging, MakeStaging,
        CreateCore, CopyCore, WriteManifest, RemoveInstalled, RenameStaged, Discard, LockActivate,
        VerifyBefore, HealthCheck, VerifyAfter, SwitchCurrent, DemoteOutgoing, ListVersions,
        PruneVersion, BeginRollback, VerifyRollback, RestoreCurrent, ExchangePrevious, Crash,
        Fault, vars, history
  <2> QED
    BY <2>1, <2>2
<1>1. ~Fault
  BY <1>0 DEF Fault
<1>2. /\ pc \in [Procs -> Labels] /\ ver \in [Procs -> Versions \cup {None}]
      /\ old \in [Procs -> Versions \cup {None}]
  BY DEF TypeInv, TypeOK
<1>3. \A p, q \in Procs : p # q /\ pc[p] \in Locking => pc[q] \notin Locking
  BY DEF TypeInv, LockHeld
<1>4. \A p \in Procs : pc[p] = "switch" \/ pc[p] \in Back \cup {"exchange"} => ver[p] # None
  BY InstallAssumption DEF TypeInv, LocalsOK, Activating, RollingBack
<1> USE <1>0, <1>2 DEF TargetInv
<1>5. ASSUME NEW p \in Procs, UNCHANGED pointers, Still(p),
             pc[p] \notin Between, pc'[p] \notin Between \cup Back
      PROVE  TargetInv'
  BY <1>5 DEF pointers
<1>6. ASSUME NEW p \in Procs, \E v \in Versions : BeginInstall(p, v) PROVE TargetInv'
  BY <1>6, <1>5 DEF BeginInstall, Goto
<1>7. ASSUME NEW p \in Procs, BeginRollback(p) PROVE TargetInv'
  <2>1. \A q \in Procs : pc[q] \notin Between \cup Back
    BY <1>7, InstallAssumption DEF BeginRollback, TypeInv, LockHeld, Locking, Activating, RollingBack
  <2>2. pc' = [pc EXCEPT ![p] = "verify"] /\ ver'[p] = previous /\ old'[p] = current
    BY <1>7 DEF BeginRollback, Goto
  <2> QED
    BY <1>7, <2>1, <2>2 DEF BeginRollback, pointers
<1>8. ASSUME NEW p \in Procs, Stage(p) PROVE TargetInv'
  <2>1. UNCHANGED pointers /\ pc[p] \notin Between /\ pc'[p] \notin Between \cup Back
    BY <1>8 DEF Stage, ClearStaging, MakeStaging, CreateCore, CopyCore, WriteManifest,
        RemoveInstalled, RenameStaged, Discard, Return, Goto
  <2>2. Still(p)
    BY <1>8 DEF Stage, ClearStaging, MakeStaging, CreateCore, CopyCore, WriteManifest,
        RemoveInstalled, RenameStaged, Discard, Return, Goto, holding
  <2> QED
    BY <1>5, <2>1, <2>2
<1>9. ASSUME NEW p \in Procs,
             LockActivate(p) \/ VerifyBefore(p) \/ HealthCheck(p) \/ VerifyAfter(p) \/ Prune(p)
      PROVE  TargetInv'
  <2>1. UNCHANGED pointers /\ pc[p] \notin Between /\ pc'[p] \notin Between \cup Back
    BY <1>9 DEF LockActivate, VerifyBefore, HealthCheck, VerifyAfter, Prune, ListVersions,
        PruneVersion, ReadManifest, HashCore, Return, Goto
  <2>2. Still(p)
    BY <1>9 DEF LockActivate, VerifyBefore, HealthCheck, VerifyAfter, Prune, ListVersions,
        PruneVersion, ReadManifest, HashCore, Return, Goto, holding
  <2> QED
    BY <1>5, <2>1, <2>2
<1>10. ASSUME NEW p \in Procs, SwitchCurrent(p) PROVE TargetInv'
  <2>1. pc[p] = "switch" /\ \A q \in Procs : pc[q] \notin Between \cup Back
    BY <1>10, <1>3 DEF SwitchCurrent, Locking, Activating, RollingBack
  <2>2. /\ current' = ver[p] /\ previous' = previous /\ ver' = ver
        /\ \/ current \in {None, ver[p]} /\ pc' = [pc EXCEPT ![p] = "list"] /\ old' = old
           \/ /\ current \notin {None, ver[p]} /\ pc' = [pc EXCEPT ![p] = "demote"]
              /\ old' = [old EXCEPT ![p] = current]
    BY <1>10, <1>1 DEF SwitchCurrent, Goto
  <2>3. ver[p] # None
    BY <1>4, <2>1
  <2> QED
    BY <2>1, <2>2, <2>3
<1>11. ASSUME NEW p \in Procs, DemoteOutgoing(p) PROVE TargetInv'
  <2>1. pc[p] = "demote" /\ \A q \in Procs \ {p} : pc[q] \notin Between \cup Back
    BY <1>11, <1>3 DEF DemoteOutgoing, Locking, Activating, RollingBack
  <2>2. /\ previous' = old[p] /\ pc' = [pc EXCEPT ![p] = "list"]
        /\ UNCHANGED <<current, ver, old>>
    BY <1>11, <1>1 DEF DemoteOutgoing, Goto, holding
  <2> QED
    BY <2>1, <2>2
<1>12. ASSUME NEW p \in Procs, VerifyRollback(p) PROVE TargetInv'
  <2>1. UNCHANGED pointers /\ Still(p) /\ pc[p] \in {"verify", "digest"}
    BY <1>12 DEF VerifyRollback, ReadManifest, HashCore, Return, Goto, holding
  <2>2. \/ pc'[p] = "idle"
        \/ pc'[p] \in {"digest", "restore"} /\ ver'[p] = ver[p] /\ old'[p] = old[p]
    BY <1>12 DEF VerifyRollback, ReadManifest, HashCore, Return, Goto, holding
  <2> QED
    BY <2>1, <2>2 DEF pointers
<1>13. ASSUME NEW p \in Procs, RestoreCurrent(p) PROVE TargetInv'
  <2>1. pc[p] = "restore" /\ \A q \in Procs \ {p} : pc[q] \notin Between \cup Back
    BY <1>13, <1>3 DEF RestoreCurrent, Locking, Activating, RollingBack
  <2>2. /\ current' = ver[p] /\ pc' = [pc EXCEPT ![p] = "exchange"]
        /\ UNCHANGED <<previous, ver, old>>
    BY <1>13, <1>1 DEF RestoreCurrent, Goto, holding
  <2>3. ver[p] # None
    BY <1>4, <2>1
  <2> QED
    BY <2>1, <2>2, <2>3
<1>14. ASSUME NEW p \in Procs, ExchangePrevious(p) PROVE TargetInv'
  <2>1. pc[p] = "exchange" /\ \A q \in Procs \ {p} : pc[q] \notin Between \cup Back
    BY <1>14, <1>3 DEF ExchangePrevious, Locking, Activating, RollingBack
  <2>2. previous' = old[p] /\ current' = current /\ Still(p) /\ pc'[p] = "idle"
    BY <1>14, <1>1 DEF ExchangePrevious, Return, Goto
  <2> QED
    BY <2>1, <2>2
<1>15. ASSUME NEW p \in Procs, Crash(p) PROVE TargetInv'
  BY <1>15, <1>1 DEF Crash
<1>16. CASE UNCHANGED vars
  BY <1>16 DEF vars, pointers, locals, history
<1> QED
  BY <1>6, <1>7, <1>8, <1>9, <1>10, <1>11, <1>12, <1>13, <1>14, <1>15, <1>16
     DEF Next, Running, Activate, Rollback

(* Without a fault a rollback has a target: no switch, reactivation or     *)
(* rollback makes previous equal current (install.go:405-414, 445-456).    *)
THEOREM TargetKept == Spec => []RollbackTargetKept
<1>1. Init => TargetInv
  BY DEF Init, TargetInv
<1>2. TypeInv /\ TargetInv => RollbackTargetKept
  <2> SUFFICES ASSUME TypeInv, TargetInv, faults = 0, lock = None, current # None
               PROVE  previous # current
    BY DEF RollbackTargetKept
  <2>1. \A p \in Procs : pc[p] \notin {"demote", "exchange"}
    BY InstallAssumption DEF TypeInv, LockHeld, Locking, Activating, RollingBack
  <2> QED
    BY <2>1 DEF TargetInv
<1>3. Spec => []TypeInv
  BY TypeAlways
<1> QED
  BY <1>1, <1>2, <1>3, TargetStep, PTL DEF Spec

=============================================================================
