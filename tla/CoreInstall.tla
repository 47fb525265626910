----------------------------- MODULE CoreInstall -----------------------------
(***************************************************************************)
(* The shared core installation (internal/install): `ssc-init install`     *)
(* stages a core and activates it, `ssc-init rollback` exchanges the       *)
(* current and previous pointers.                                          *)
(*                                                                         *)
(* Every command is a process.  Activate, Rollback and Prune run under a   *)
(* non-blocking file lock; Stage takes no lock, and every process that     *)
(* stages one version works in the same directory staging/<version>.  A    *)
(* name lookup finds the directory that bears the name now, an open file   *)
(* is written wherever its directory went.  A process may be killed        *)
(* between any two steps.                                                  *)
(***************************************************************************)
EXTENDS FiniteSets, Integers

CONSTANTS
    Procs,      \* running commands
    Versions,
    Cores,      \* contents of a core binary; its digest is the content
    Builds,     \* the cores handed to the installer for each version
    None,
    Partial,    \* the content of a core whose copy did not complete or verify
    MaxFaults   \* bound: crashes, failed removals, failed reads and writes of a pointer

ASSUME InstallAssumption ==
    /\ Builds \in [Versions -> SUBSET Cores]
    /\ None \notin Versions \cup Cores \cup Procs
    /\ Partial \notin Cores \cup Procs \cup {None}
    /\ Cores \cap Procs = {}
    /\ MaxFaults \in Nat

VARIABLES
    staging, versions,  \* the directories of each version, or NoDir
    current, previous,  \* the pointer files; None is missing
    lock,               \* the holder of the flock, or None
    pc, ver, core, seen, old, victims,  \* the locals of each command
    checked,            \* history: <<version, core>> that passed the health check
    misread,            \* history: a prune could not read the previous pointer
    faults

dirs == <<staging, versions>>
pointers == <<current, previous>>
locals == <<pc, ver, core, seen, old, victims>>
history == <<checked, misread, faults>>
vars == <<dirs, pointers, lock, locals, history>>

(* A version directory holds the core and its manifest.  A core is a       *)
(* content, or the process still writing it.                               *)
Dirs == [core : Cores \cup Procs \cup {None, Partial}, manifest : Cores \cup {None}]
EmptyDir == [core |-> None, manifest |-> None]
NoDir == [core |-> None, manifest |-> Partial]

(* What verifyInstalled accepts. *)
Usable(v) == versions[v].core \in Cores /\ versions[v].manifest = versions[v].core

Goto(p, label) == pc' = [pc EXCEPT ![p] = label]

Fault == faults < MaxFaults /\ faults' = faults + 1

(* The command returns: its locals die and its lock is released. *)
Return(p) ==
    /\ Goto(p, "idle")
    /\ ver' = [ver EXCEPT ![p] = None]
    /\ core' = [core EXCEPT ![p] = None]
    /\ seen' = [seen EXCEPT ![p] = None]
    /\ old' = [old EXCEPT ![p] = None]
    /\ victims' = [victims EXCEPT ![p] = {}]
    /\ lock' = IF lock = p THEN None ELSE lock

holding == <<lock, ver, core, seen, old, victims>>   \* what Return assigns besides pc

(* The file p writes gets its final content, wherever its directory is. *)
Settle(p, c) ==
    LET Settled(d) == [v \in Versions |-> IF d[v].core = p THEN [d[v] EXCEPT !.core = c] ELSE d[v]]
    IN  staging' = Settled(staging) /\ versions' = Settled(versions)

-----------------------------------------------------------------------------
(* Manager.Stage *)

(* coreInstaller.Install: a version and the build it was published with. *)
BeginInstall(p, v) ==
    /\ pc[p] = "idle"
    /\ \E c \in Builds[v] : core' = [core EXCEPT ![p] = c]
    /\ ver' = [ver EXCEPT ![p] = v]
    /\ Goto(p, "clear")
    /\ UNCHANGED <<dirs, pointers, lock, seen, old, victims, history>>

(* RemoveAll(staging/v): whatever a predecessor left goes first. *)
ClearStaging(p) ==
    /\ pc[p] = "clear"
    /\ \/ /\ staging' = [staging EXCEPT ![ver[p]] = NoDir]
          /\ Goto(p, "mkdir")
          /\ UNCHANGED <<holding, faults>>
       \/ Fault /\ Return(p) /\ UNCHANGED staging
    /\ UNCHANGED <<versions, pointers, checked, misread>>

(* MkdirAll(staging/v) *)
MakeStaging(p) ==
    /\ pc[p] = "mkdir"
    /\ \/ /\ staging' = [staging EXCEPT ![ver[p]] = IF @ = NoDir THEN EmptyDir ELSE @]
          /\ Goto(p, "create")
          /\ UNCHANGED <<holding, faults>>
       \/ Fault /\ Return(p) /\ UNCHANGED staging
    /\ UNCHANGED <<versions, pointers, checked, misread>>

(* stageCore creates the core exclusively; an unusable source, a core      *)
(* already there and a directory that is gone discard the stage.           *)
CreateCore(p) ==
    /\ pc[p] = "create"
    /\ \/ /\ staging[ver[p]] # NoDir /\ staging[ver[p]].core = None
          /\ staging' = [staging EXCEPT ![ver[p]].core = p]
          /\ Goto(p, "copy")
       \/ Goto(p, "discard") /\ UNCHANGED staging
    /\ UNCHANGED <<versions, pointers, holding, history>>

(* stageCore copies, hashes and verifies through its own descriptor. *)
CopyCore(p) ==
    /\ pc[p] = "copy"
    /\ \/ Settle(p, core[p]) /\ Goto(p, "manifest")
       \/ Settle(p, Partial) /\ Goto(p, "discard")
    /\ UNCHANGED <<pointers, holding, history>>

(* WriteFile(staging/v/manifest.json), by name. *)
WriteManifest(p) ==
    /\ pc[p] = "manifest"
    /\ \/ /\ staging[ver[p]] # NoDir
          /\ staging' = [staging EXCEPT ![ver[p]].manifest = core[p]]
          /\ Goto(p, "remove")
          /\ UNCHANGED faults
       \/ /\ staging[ver[p]] = NoDir
          /\ Goto(p, "discard")
          /\ UNCHANGED <<staging, faults>>
       \/ Fault /\ Goto(p, "discard") /\ UNCHANGED staging
    /\ UNCHANGED <<versions, pointers, holding, checked, misread>>

(* RemoveAll(versions/v); when it fails, files may be gone already. *)
RemoveInstalled(p) ==
    /\ pc[p] = "remove"
    /\ \/ /\ versions' = [versions EXCEPT ![ver[p]] = NoDir]
          /\ Goto(p, "rename")
          /\ UNCHANGED faults
       \/ /\ Fault
          /\ \/ UNCHANGED versions
             \/ versions[ver[p]] # NoDir /\ versions' = [versions EXCEPT ![ver[p]].core = None]
          /\ Goto(p, "discard")
    /\ UNCHANGED <<staging, pointers, holding, checked, misread>>

(* Rename(staging/v, versions/v), which replaces an empty directory only. *)
RenameStaged(p) ==
    /\ pc[p] = "rename"
    /\ \/ /\ staging[ver[p]] # NoDir
          /\ versions[ver[p]] \in {NoDir, EmptyDir}
          /\ versions' = [versions EXCEPT ![ver[p]] = staging[ver[p]]]
          /\ staging' = [staging EXCEPT ![ver[p]] = NoDir]
          /\ Goto(p, "lock")
          /\ UNCHANGED faults
       \/ /\ \/ staging[ver[p]] = NoDir \/ versions[ver[p]] \notin {NoDir, EmptyDir}
          /\ Goto(p, "discard")
          /\ UNCHANGED <<dirs, faults>>
       \/ Fault /\ Goto(p, "discard") /\ UNCHANGED dirs
    /\ UNCHANGED <<pointers, holding, checked, misread>>

(* discard: RemoveAll(staging/v), whose failure is ignored, and Stage fails. *)
Discard(p) ==
    /\ pc[p] = "discard"
    /\ \/ staging' = [staging EXCEPT ![ver[p]] = NoDir] /\ UNCHANGED faults
       \/ Fault /\ UNCHANGED staging
    /\ Return(p)
    /\ UNCHANGED <<versions, pointers, checked, misread>>

-----------------------------------------------------------------------------
(* Manager.Activate *)

(* lockedRoot: a held lock is an error at once, and so is a cancellation. *)
LockActivate(p) ==
    /\ pc[p] = "lock"
    /\ \/ /\ lock = None
          /\ lock' = p
          /\ Goto(p, "before")
          /\ UNCHANGED <<ver, core, seen, old, victims>>
       \/ Return(p)
    /\ UNCHANGED <<dirs, pointers, history>>

(* Mutant of ReadManifest: the manifest is not validated. *)
BugManifestUnchecked(p, next) ==
    /\ seen' = [seen EXCEPT ![p] = versions[ver[p]].manifest]
    /\ Goto(p, next)
    /\ UNCHANGED <<lock, ver, core, old, victims>>

(* verifyInstalled reads the manifest ... *)
ReadManifest(p, next) ==
    \/ /\ versions[ver[p]].manifest \in Cores
       /\ seen' = [seen EXCEPT ![p] = versions[ver[p]].manifest]
       /\ Goto(p, next)
       /\ UNCHANGED <<lock, ver, core, old, victims>>
    \/ Return(p)

(* ... and hashes the core. *)
HashCore(p, next) ==
    \/ versions[ver[p]].core = seen[p] /\ Goto(p, next) /\ UNCHANGED holding
    \/ Return(p)

VerifyBefore(p) ==
    /\ \/ pc[p] = "before" /\ ReadManifest(p, "hash")
       \/ pc[p] = "hash" /\ HashCore(p, "health")
    /\ UNCHANGED <<dirs, pointers, history>>

(* Mutant of HealthCheck: a failed check only skips the rest of the check. *)
BugHealthIgnored(p) ==
    /\ pc[p] = "health"
    /\ \/ checked' = checked \cup {<<ver[p], versions[ver[p]].core>>}
       \/ UNCHANGED checked
    /\ Goto(p, "after")
    /\ UNCHANGED <<dirs, pointers, holding, misread, faults>>

(* Health runs the binary that bears the name now. *)
HealthCheck(p) ==
    /\ pc[p] = "health"
    /\ \/ /\ versions[ver[p]].core \in Cores
          /\ checked' = checked \cup {<<ver[p], versions[ver[p]].core>>}
          /\ Goto(p, "after")
          /\ UNCHANGED holding
       \/ Return(p) /\ UNCHANGED checked
    /\ UNCHANGED <<dirs, pointers, misread, faults>>

(* verifyInstalled again; the digest must be the one seen before. *)
VerifyAfter(p) ==
    /\ \/ /\ pc[p] = "after"
          /\ \/ versions[ver[p]].manifest = seen[p] /\ Goto(p, "rehash") /\ UNCHANGED holding
             \/ Return(p)
       \/ pc[p] = "rehash" /\ HashCore(p, "switch")
    /\ UNCHANGED <<dirs, pointers, history>>

(* Mutant of SwitchCurrent: reactivating the current version demotes it. *)
BugDemotesItself(p) ==
    /\ pc[p] = "switch"
    /\ current' = ver[p]
    /\ IF current = None
       THEN Goto(p, "list") /\ UNCHANGED old
       ELSE Goto(p, "demote") /\ old' = [old EXCEPT ![p] = current]
    /\ UNCHANGED <<dirs, previous, lock, ver, core, seen, victims, history>>

(* writePointer(current); the outgoing version is demoted if it differs. *)
SwitchCurrent(p) ==
    /\ pc[p] = "switch"
    /\ \/ /\ current' = ver[p]
          /\ IF current \in {None, ver[p]}
             THEN Goto(p, "list") /\ UNCHANGED old
             ELSE Goto(p, "demote") /\ old' = [old EXCEPT ![p] = current]
          /\ UNCHANGED <<lock, ver, core, seen, victims, faults>>
       \/ Fault /\ Return(p) /\ UNCHANGED current
    /\ UNCHANGED <<dirs, previous, checked, misread>>

(* writePointer(previous), whose failure is ignored. *)
DemoteOutgoing(p) ==
    /\ pc[p] = "demote"
    /\ \/ previous' = old[p] /\ UNCHANGED faults
       \/ Fault /\ UNCHANGED previous
    /\ Goto(p, "list")
    /\ UNCHANGED <<dirs, current, holding, checked, misread>>

-----------------------------------------------------------------------------
(* prune, the end of Activate: the lock is still held. *)

Installed == {v \in Versions : versions[v] # NoDir}

(* Mutant of ListVersions: the rollback target is not kept. *)
BugKeepsCurrentOnly(p) ==
    /\ pc[p] = "list"
    /\ current # None
    /\ victims' = [victims EXCEPT ![p] = Installed \ {current}]
    /\ Goto(p, "prune")
    /\ UNCHANGED <<dirs, pointers, lock, ver, core, seen, old, history>>

(* ReadDir(versions), without what the pointers name; nothing is           *)
(* superseded without a current version, and a previous one that cannot be *)
(* read is not kept.                                                       *)
ListVersions(p) ==
    /\ pc[p] = "list"
    /\ \/ current = None /\ Return(p) /\ UNCHANGED <<misread, faults>>
       \/ /\ current # None
          /\ \/ victims' = [victims EXCEPT ![p] = Installed \ {current, previous}] /\ UNCHANGED <<misread, faults>>
             \/ /\ previous # None /\ Fault /\ misread' = TRUE
                /\ victims' = [victims EXCEPT ![p] = Installed \ {current}]
          /\ Goto(p, "prune")
          /\ UNCHANGED <<lock, ver, core, seen, old>>
    /\ UNCHANGED <<dirs, pointers, checked>>

(* RemoveAll of one superseded version, or the end of the command; an      *)
(* error ends it too and may leave a version half gone.                    *)
PruneVersion(p) ==
    /\ pc[p] = "prune"
    /\ \/ \E v \in victims[p] :
             /\ versions' = [versions EXCEPT ![v] = NoDir]
             /\ victims' = [victims EXCEPT ![p] = @ \ {v}]
             /\ UNCHANGED <<pc, lock, ver, core, seen, old, faults>>
       \/ victims[p] = {} /\ Return(p) /\ UNCHANGED <<versions, faults>>
       \/ /\ Fault /\ Return(p)
          /\ \/ UNCHANGED versions
             \/ \E v \in victims[p] : versions' = [versions EXCEPT ![v].core = None]
    /\ UNCHANGED <<staging, pointers, checked, misread>>

-----------------------------------------------------------------------------
(* Manager.Rollback *)

(* Mutant of BeginRollback: no lock is taken. *)
BugRollbackUnlocked(p) ==
    /\ pc[p] = "idle"
    /\ current # None /\ previous \notin {None, current}
    /\ ver' = [ver EXCEPT ![p] = previous]
    /\ old' = [old EXCEPT ![p] = current]
    /\ Goto(p, "verify")
    /\ UNCHANGED <<dirs, pointers, lock, core, seen, victims, history>>

(* The lock is free and previous is another version. *)
BeginRollback(p) ==
    /\ pc[p] = "idle"
    /\ lock = None
    /\ current # None /\ previous \notin {None, current}
    /\ lock' = p
    /\ ver' = [ver EXCEPT ![p] = previous]
    /\ old' = [old EXCEPT ![p] = current]
    /\ Goto(p, "verify")
    /\ UNCHANGED <<dirs, pointers, core, seen, victims, history>>

VerifyRollback(p) ==
    /\ \/ pc[p] = "verify" /\ ReadManifest(p, "digest")
       \/ pc[p] = "digest" /\ HashCore(p, "restore")
    /\ UNCHANGED <<dirs, pointers, history>>

(* current := previous first ... *)
RestoreCurrent(p) ==
    /\ pc[p] = "restore"
    /\ \/ current' = ver[p] /\ Goto(p, "exchange") /\ UNCHANGED <<holding, faults>>
       \/ Fault /\ Return(p) /\ UNCHANGED current
    /\ UNCHANGED <<dirs, previous, checked, misread>>

(* ... then previous := what current was. *)
ExchangePrevious(p) ==
    /\ pc[p] = "exchange"
    /\ \/ previous' = old[p] /\ UNCHANGED faults
       \/ Fault /\ UNCHANGED previous
    /\ Return(p)
    /\ UNCHANGED <<dirs, current, checked, misread>>

-----------------------------------------------------------------------------
(* The process is killed: no discard runs, and the kernel drops the lock. *)
Crash(p) ==
    /\ pc[p] # "idle"
    /\ Fault
    /\ Settle(p, Partial)
    /\ Return(p)
    /\ UNCHANGED <<pointers, checked, misread>>

Init ==
    /\ staging = [v \in Versions |-> NoDir]
    /\ versions = [v \in Versions |-> NoDir]
    /\ current = None /\ previous = None
    /\ lock = None
    /\ pc = [p \in Procs |-> "idle"]
    /\ ver = [p \in Procs |-> None]
    /\ core = [p \in Procs |-> None]
    /\ seen = [p \in Procs |-> None]
    /\ old = [p \in Procs |-> None]
    /\ victims = [p \in Procs |-> {}]
    /\ checked = {}
    /\ misread = FALSE
    /\ faults = 0

Stage(p) ==
    \/ ClearStaging(p) \/ MakeStaging(p) \/ CreateCore(p) \/ CopyCore(p)
    \/ WriteManifest(p) \/ RemoveInstalled(p) \/ RenameStaged(p) \/ Discard(p)

Activate(p) ==
    \/ LockActivate(p) \/ VerifyBefore(p) \/ HealthCheck(p) \/ VerifyAfter(p)
    \/ SwitchCurrent(p) \/ DemoteOutgoing(p)

Prune(p) == ListVersions(p) \/ PruneVersion(p)

Rollback(p) == VerifyRollback(p) \/ RestoreCurrent(p) \/ ExchangePrevious(p)

Running(p) == Stage(p) \/ Activate(p) \/ Prune(p) \/ Rollback(p)

Next ==
    \E p \in Procs :
        \/ \E v \in Versions : BeginInstall(p, v)
        \/ BeginRollback(p)
        \/ Running(p) \/ Crash(p)

Spec == Init /\ [][Next]_vars

-----------------------------------------------------------------------------
(* Properties. *)

Staging == {"clear", "mkdir", "create", "copy", "manifest", "remove", "rename", "discard", "lock"}

Activating == {"before", "hash", "health", "after", "rehash", "switch", "demote"}

Pruning == {"list", "prune"}

RollingBack == {"verify", "digest", "restore", "exchange"}

Labels == {"idle"} \cup Staging \cup Activating \cup Pruning \cup RollingBack

(* Every variable stays within its type. *)
TypeOK ==
    /\ staging \in [Versions -> Dirs \cup {NoDir}]
    /\ versions \in [Versions -> Dirs \cup {NoDir}]
    /\ current \in Versions \cup {None}
    /\ previous \in Versions \cup {None}
    /\ lock \in Procs \cup {None}
    /\ pc \in [Procs -> Labels]
    /\ ver \in [Procs -> Versions \cup {None}]
    /\ core \in [Procs -> Cores \cup {None}]
    /\ seen \in [Procs -> Cores \cup {None}]
    /\ old \in [Procs -> Versions \cup {None}]
    /\ victims \in [Procs -> SUBSET Versions]
    /\ checked \subseteq Versions \X Cores
    /\ misread \in BOOLEAN
    /\ faults \in Nat

(* Neither pointer ever names a version of which no core passed the health *)
(* check, whatever fails or dies between the two pointer writes of a       *)
(* switch or a rollback (install.go:386-417, 453-456).                     *)
PointersChecked ==
    \A v \in {current, previous} \ {None} : \E c \in Cores : <<v, c>> \in checked

(* The versions a prune is about to remove are never the active one, nor,  *)
(* unless a prune could not read that pointer, its rollback target,        *)
(* however the pointers move meanwhile (install.go:512-544).               *)
PruneSparesPointers ==
    \A p \in Procs : current \notin victims[p] /\ (~misread => previous \notin victims[p])

(* The active core and the rollback target stop being usable only when a   *)
(* stage of that very version removes it: no discard, no crash and no      *)
(* other version's stage takes them away (install.go:131-175, 543), and no *)
(* prune that could read the pointers.                                     *)
OnlyRestageDisturbs ==
    [][\A v \in Versions :
          v \in {current, previous} /\ Usable(v) /\ ~Usable(v)' =>
              \/ \E p \in Procs : pc[p] = "remove" /\ ver[p] = v
              \/ misread /\ v # current]_vars

(* Without a crash or a failed write, previous never degenerates into      *)
(* current (install.go:405-414, 445-456).                                  *)
RollbackTargetKept ==
    faults = 0 /\ lock = None /\ current # None => previous # current

(* Whatever commands ran at once, the active version has its core          *)
(* (install.go:170-176).                                                   *)
UsableInstall ==
    (\A p \in Procs : pc[p] = "idle") /\ current # None => Usable(current)

=============================================================================
