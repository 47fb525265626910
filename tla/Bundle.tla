------------------------------- MODULE Bundle -------------------------------
(***************************************************************************)
(* The store of verified bundles of one family (internal/bundle): install, *)
(* rollback, and the lock-free readers Status and Active.                  *)
(*                                                                         *)
(* Every command is a process.  Install and Rollback run under a           *)
(* non-blocking file lock; readers take no lock and read the pointer and   *)
(* the version directory in separate system calls.  Each file a command    *)
(* replaces is replaced by a rename, so a pointer write is one step; the   *)
(* version directory is removed and then renamed into place, two steps.    *)
(* A process may be killed between any two steps and any write may fail.   *)
(* Assumed: the high-water mark can be read.  An install that cannot read  *)
(* it goes on without the check (lifecycle.go:65), and what is said here   *)
(* about sequences does not hold for it.                                   *)
(***************************************************************************)
EXTENDS FiniteSets, Integers

CONSTANTS
    Procs,      \* running commands
    Bundles,    \* correctly signed bundles of the family
    SequenceOf,      \* the sequence in each bundle's envelope
    ValidFrom, ValidUntil,   \* the validity interval in each envelope
    MaxSeq,     \* bound: the largest sequence
    MaxTime,    \* bound: the clock
    Grace,      \* staleGracePeriod
    None,
    MaxFaults   \* bound: crashes, failed writes and a failed read of `current`

Seqs == 1 .. MaxSeq
Times == 0 .. MaxTime

ASSUME BundleAssumption ==
    /\ MaxSeq \in Nat /\ MaxTime \in Nat /\ Grace \in Nat /\ MaxFaults \in Nat
    /\ SequenceOf \in [Bundles -> Seqs]
    /\ ValidFrom \in [Bundles -> Times]
    /\ ValidUntil \in [Bundles -> Times]
    /\ None \notin Bundles /\ None \notin Procs

VARIABLES
    versions,   \* versions/<sequence>: the bundle stored there, or None
    staging,    \* staging/<sequence>
    current, previous, highest,   \* the pointer files; 0 is missing
    lock,       \* the holder of the flock, or None
    now,
    pc, arg, seen, got, result,   \* the locals of each command
    accepted,   \* history: the bundle first accepted for each sequence
    torn,       \* history: sequences whose directory swap was interrupted
    faults

files == <<versions, staging>>
pointers == <<current, previous, highest>>
locals == <<pc, arg, seen, got, result>>
holding == <<lock, arg, seen, result>>   \* what a return of a writer gives up
history == <<accepted, torn, faults>>
vars == <<files, pointers, lock, now, locals, history>>

-----------------------------------------------------------------------------
(* Verifier.Verify: the envelope's validity interval contains now. *)
Valid(b) == ValidFrom[b] <= now /\ now <= ValidUntil[b]

(* The bundle stored for sequence s, if its envelope says s too. *)
Stored(s) == s \in Seqs /\ versions[s] # None /\ SequenceOf[versions[s]] = s

(* Status: how fresh a stored bundle is. *)
Freshness(b) ==
    CASE now <= ValidUntil[b] -> "fresh"
      [] now > ValidUntil[b] /\ now <= ValidUntil[b] + Grace -> "stale"
      [] now > ValidUntil[b] + Grace -> "expired"

Goto(p, label) == pc' = [pc EXCEPT ![p] = label]

Return(p, r) ==
    /\ Goto(p, "idle")
    /\ result' = [result EXCEPT ![p] = r]

(* Returning from Install or Rollback releases the lock; locals die. *)
Unlock(p, r) ==
    /\ Return(p, r)
    /\ lock' = None
    /\ arg' = [arg EXCEPT ![p] = None]
    /\ seen' = [seen EXCEPT ![p] = 0]

Fault == faults < MaxFaults /\ faults' = faults + 1

(* Mutant of Slot: the slot follows the high-water mark. *)
BugSlotFromHighWater(p) == IF highest = 0 THEN 1 ELSE highest

(* The sequence whose directories an install writes. *)
Slot(p) == SequenceOf[arg[p]]

-----------------------------------------------------------------------------
(* Manager.Install *)

(* The files verify and the lock is free; a held lock is an error at once. *)
BeginInstall(p, b) ==
    /\ pc[p] = "idle"
    /\ Valid(b)
    /\ lock = None
    /\ lock' = p
    /\ arg' = [arg EXCEPT ![p] = b]
    /\ result' = [result EXCEPT ![p] = "none"]
    /\ Goto(p, "check")
    /\ UNCHANGED <<files, pointers, now, seen, got, history>>

(* Mutant of CheckHighWater: the same sequence is not compared by digest.  *)
BugSameSequenceAccepted(p) ==
    /\ pc[p] = "check"
    /\ IF Slot(p) >= highest
       THEN Goto(p, "stage") /\ UNCHANGED holding
       ELSE Unlock(p, "rollback")
    /\ UNCHANGED <<files, pointers, now, got, history>>

(* Mutant of CheckHighWater: no rollback protection. *)
BugNoHighWater(p) ==
    /\ pc[p] = "check"
    /\ Goto(p, "stage")
    /\ UNCHANGED <<files, pointers, lock, now, arg, seen, got, result, history>>

(* Mutant of CheckHighWater: the refusal returns before the unlock. *)
BugRefusalKeepsLock(p) ==
    /\ pc[p] = "check"
    /\ IF \/ Slot(p) > highest
          \/ Slot(p) = highest /\ versions[highest] = arg[p] /\ Valid(arg[p])
       THEN Goto(p, "stage") /\ UNCHANGED result
       ELSE Return(p, "rollback")
    /\ UNCHANGED <<files, pointers, lock, now, arg, seen, got, history>>

(* Rollback protection: a lower sequence is refused, and the highest one   *)
(* only passes if the stored version verifies and has the same digest.     *)
CheckHighWater(p) ==
    /\ pc[p] = "check"
    /\ IF \/ Slot(p) > highest
          \/ Slot(p) = highest /\ versions[highest] = arg[p] /\ Valid(arg[p])
       THEN Goto(p, "stage") /\ UNCHANGED holding
       ELSE Unlock(p, "rollback")
    /\ UNCHANGED <<files, pointers, now, got, history>>

(* Mutant of Stage: discarding a stage removes the installed version too.  *)
BugDiscardRemovesVersion(p) ==
    /\ pc[p] = "stage"
    /\ \/ /\ Valid(arg[p])
          /\ staging' = [staging EXCEPT ![Slot(p)] = arg[p]]
          /\ Goto(p, "remove")
          /\ UNCHANGED <<versions, holding>>
       \/ /\ staging' = [staging EXCEPT ![Slot(p)] = None]
          /\ versions' = [versions EXCEPT ![Slot(p)] = None]
          /\ Unlock(p, "failed")
    /\ UNCHANGED <<pointers, now, got, history>>

(* Staging is rebuilt, re-read and verified; a failed write, a bundle that *)
(* expired meanwhile and a cancellation discard it, a stage that cannot be *)
(* rebuilt stays.                                                          *)
Stage(p) ==
    /\ pc[p] = "stage"
    /\ \/ /\ Valid(arg[p])
          /\ staging' = [staging EXCEPT ![Slot(p)] = arg[p]]
          /\ Goto(p, "remove")
          /\ UNCHANGED holding
       \/ /\ staging' \in {staging, [staging EXCEPT ![Slot(p)] = None]}
          /\ Unlock(p, "failed")
    /\ UNCHANGED <<versions, pointers, now, got, history>>

(* RemoveAll(installed); when it fails the version may be partly gone. *)
RemoveInstalled(p) ==
    /\ pc[p] = "remove"
    /\ \/ /\ versions' = [versions EXCEPT ![Slot(p)] = None]
          /\ Goto(p, "rename")
          /\ UNCHANGED <<staging, holding, torn, faults>>
       \/ /\ Fault
          /\ versions' \in {versions, [versions EXCEPT ![Slot(p)] = None]}
          /\ torn' = torn \cup {Slot(p)}
          /\ staging' = [staging EXCEPT ![Slot(p)] = None]
          /\ Unlock(p, "failed")
    /\ UNCHANGED <<pointers, now, got, accepted>>

(* Rename(staging, installed), or discard when it fails. *)
RenameStaged(p) ==
    /\ pc[p] = "rename"
    /\ staging' = [staging EXCEPT ![Slot(p)] = None]
    /\ \/ /\ versions' = [versions EXCEPT ![Slot(p)] = staging[Slot(p)]]
          /\ torn' = torn \ {Slot(p)}
          /\ Goto(p, "highest")
          /\ UNCHANGED <<holding, faults>>
       \/ /\ Fault
          /\ torn' = torn \cup {Slot(p)}
          /\ Unlock(p, "failed")
          /\ UNCHANGED versions
    /\ UNCHANGED <<pointers, now, got, accepted>>

(* Mutant of WriteHighest: the high-water mark is only set once. *)
BugHighestNotRaised(p) ==
    /\ pc[p] = "highest"
    /\ highest' = IF highest = 0 THEN Slot(p) ELSE highest
    /\ accepted' = [accepted EXCEPT ![Slot(p)] = IF @ = None THEN arg[p] ELSE @]
    /\ Goto(p, "previous")
    /\ UNCHANGED <<files, current, previous, lock, now, arg, seen, got, result, torn, faults>>

(* writeSequencePointer(highest-sequence): the sequence is accepted. *)
WriteHighest(p) ==
    /\ pc[p] = "highest"
    /\ \/ /\ highest' = Slot(p)
          /\ accepted' = [accepted EXCEPT ![Slot(p)] = IF @ = None THEN arg[p] ELSE @]
          /\ Goto(p, "previous")
          /\ UNCHANGED <<holding, faults>>
       \/ /\ Fault
          /\ Unlock(p, "failed")
          /\ UNCHANGED <<highest, accepted>>
    /\ UNCHANGED <<files, current, previous, now, got, torn>>

(* Mutant of WritePrevious: previous is written on a reactivation too. *)
BugPreviousAlways(p) ==
    /\ pc[p] = "previous"
    /\ previous' = IF current # 0 THEN current ELSE previous
    /\ Goto(p, "current")
    /\ UNCHANGED <<files, current, highest, lock, now, arg, seen, got, result, history>>

(* writeSequencePointer(previous), if another version is current; one that *)
(* cannot be read is passed over.                                          *)
WritePrevious(p) ==
    /\ pc[p] = "previous"
    /\ \/ /\ previous' = IF current \notin {0, Slot(p)} THEN current ELSE previous
          /\ Goto(p, "current")
          /\ UNCHANGED <<holding, faults>>
       \/ /\ current \notin {0, Slot(p)}
          /\ Fault
          /\ Unlock(p, "failed") \/ (Goto(p, "current") /\ UNCHANGED holding)
          /\ UNCHANGED previous
    /\ UNCHANGED <<files, current, highest, now, got, accepted, torn>>

(* writeSequencePointer(current): the bundle is active. *)
WriteCurrent(p) ==
    /\ pc[p] = "current"
    /\ \/ /\ current' = Slot(p)
          /\ Unlock(p, "installed")
          /\ UNCHANGED faults
       \/ /\ Fault
          /\ Unlock(p, "failed")
          /\ UNCHANGED current
    /\ UNCHANGED <<files, previous, highest, now, got, accepted, torn>>

-----------------------------------------------------------------------------
(* Manager.Rollback *)

(* The previous version is another one and still verifies now. *)
BeginRollback(p) ==
    /\ pc[p] = "idle"
    /\ lock = None
    /\ current # 0 /\ previous # 0 /\ current # previous
    /\ Stored(previous) /\ Valid(versions[previous])
    /\ lock' = p
    /\ seen' = [seen EXCEPT ![p] = previous]
    /\ result' = [result EXCEPT ![p] = "none"]
    /\ Goto(p, "swap")
    /\ UNCHANGED <<files, pointers, now, arg, got, history>>

(* previous := current, or the write fails. *)
RollbackPrevious(p) ==
    /\ pc[p] = "swap"
    /\ \/ /\ previous' = current
          /\ Goto(p, "switch")
          /\ UNCHANGED <<holding, faults>>
       \/ /\ Fault
          /\ Unlock(p, "failed")
          /\ UNCHANGED previous
    /\ UNCHANGED <<files, current, highest, now, got, accepted, torn>>

(* Mutant of RollbackCurrent: the high-water mark follows the rollback. *)
BugRollbackLowersHighest(p) ==
    /\ pc[p] = "switch"
    /\ current' = seen[p]
    /\ highest' = seen[p]
    /\ Unlock(p, "rolledback")
    /\ UNCHANGED <<files, previous, now, got, history>>

(* current := what previous was. *)
RollbackCurrent(p) ==
    /\ pc[p] = "switch"
    /\ \/ /\ current' = seen[p]
          /\ Unlock(p, "rolledback")
          /\ UNCHANGED faults
       \/ /\ Fault
          /\ Unlock(p, "failed")
          /\ UNCHANGED current
    /\ UNCHANGED <<files, previous, highest, now, got, accepted, torn>>

-----------------------------------------------------------------------------
(* Manager.Active: Status reads the pointer and the version, then Active   *)
(* reads the version again.                                                *)

ReadPointer(p) ==
    /\ pc[p] = "idle"
    /\ current # 0
    /\ seen' = [seen EXCEPT ![p] = current]
    /\ result' = [result EXCEPT ![p] = "none"]
    /\ Goto(p, "status")
    /\ UNCHANGED <<files, pointers, lock, now, arg, got, history>>

ReadStatus(p) ==
    /\ pc[p] = "status"
    /\ IF Stored(seen[p])
       THEN /\ got' = [got EXCEPT ![p] = versions[seen[p]]]
            /\ Goto(p, "active")
            /\ UNCHANGED result
       ELSE Return(p, "unavailable") /\ UNCHANGED got
    /\ UNCHANGED <<files, pointers, lock, now, arg, seen, history>>

ReadActive(p) ==
    /\ pc[p] = "active"
    /\ IF Stored(seen[p])
       THEN /\ arg' = [arg EXCEPT ![p] = versions[seen[p]]]
            /\ Return(p, "active")
       ELSE Return(p, "unavailable") /\ UNCHANGED arg
    /\ UNCHANGED <<files, pointers, lock, now, seen, got, history>>

-----------------------------------------------------------------------------
(* The environment. *)

(* The process is killed; the kernel drops its lock. *)
Crash(p) ==
    /\ pc[p] # "idle"
    /\ Fault
    /\ Return(p, "none")
    /\ lock' = IF lock = p THEN None ELSE lock
    /\ arg' = [arg EXCEPT ![p] = None]
    /\ seen' = [seen EXCEPT ![p] = 0]
    /\ torn' = IF pc[p] = "rename" THEN torn \cup {Slot(p)} ELSE torn
    /\ UNCHANGED <<files, pointers, now, got, accepted>>

Tick ==
    /\ now < MaxTime
    /\ now' = now + 1
    /\ UNCHANGED <<files, pointers, lock, locals, history>>

-----------------------------------------------------------------------------
Init ==
    /\ versions = [s \in Seqs |-> None]
    /\ staging = [s \in Seqs |-> None]
    /\ current = 0 /\ previous = 0 /\ highest = 0
    /\ lock = None
    /\ now = 0
    /\ pc = [p \in Procs |-> "idle"]
    /\ arg = [p \in Procs |-> None]
    /\ seen = [p \in Procs |-> 0]
    /\ got = [p \in Procs |-> None]
    /\ result = [p \in Procs |-> "none"]
    /\ accepted = [s \in Seqs |-> None]
    /\ torn = {}
    /\ faults = 0

Install(p) ==
    \/ CheckHighWater(p) \/ Stage(p) \/ RemoveInstalled(p) \/ RenameStaged(p)
    \/ WriteHighest(p) \/ WritePrevious(p) \/ WriteCurrent(p)

Rollback(p) == RollbackPrevious(p) \/ RollbackCurrent(p)

Read(p) == ReadStatus(p) \/ ReadActive(p)

(* The steps of a command already running. *)
Running(p) == Install(p) \/ Rollback(p) \/ Read(p)

Begin(p) == BeginRollback(p) \/ ReadPointer(p) \/ \E b \in Bundles : BeginInstall(p, b)

Next ==
    \/ \E p \in Procs : Begin(p) \/ Running(p) \/ Crash(p)
    \/ Tick

Spec == Init /\ [][Next]_vars

-----------------------------------------------------------------------------
(* Properties. *)

Writing == {"check", "stage", "remove", "rename", "highest", "previous", "current",
            "swap", "switch"}

Labels == Writing \cup {"idle", "status", "active"}

Results == {"none", "installed", "rolledback", "rollback", "failed", "active", "unavailable"}

BundlesAt(s) == {b \in Bundles : SequenceOf[b] = s}

(* Every variable stays within its type; a directory only ever holds a     *)
(* bundle of its own sequence.                                             *)
TypeOK ==
    /\ versions \in [Seqs -> Bundles \cup {None}]
    /\ staging \in [Seqs -> Bundles \cup {None}]
    /\ \A s \in Seqs :
          /\ versions[s] \in BundlesAt(s) \cup {None}
          /\ staging[s] \in BundlesAt(s) \cup {None}
    /\ current \in Seqs \cup {0}
    /\ previous \in Seqs \cup {0}
    /\ highest \in Seqs \cup {0}
    /\ lock \in Procs \cup {None}
    /\ now \in Times
    /\ pc \in [Procs -> Labels]
    /\ arg \in [Procs -> Bundles \cup {None}]
    /\ seen \in [Procs -> Seqs \cup {0}]
    /\ got \in [Procs -> Bundles \cup {None}]
    /\ result \in [Procs -> Results]
    /\ accepted \in [Seqs -> Bundles \cup {None}]
    /\ torn \subseteq Seqs
    /\ faults \in Nat

(* Every pointer names a sequence that was accepted, and none is above the *)
(* high-water mark, whatever crashes between the three pointer writes      *)
(* (lifecycle.go:107-118, 154).                                            *)
PointersAccepted ==
    \A s \in {current, previous} \ {0} : s <= highest /\ accepted[s] # None

(* Once a sequence is accepted its directory holds that bundle or nothing: *)
(* no other bytes take its number, not even after the directory was lost   *)
(* (lifecycle.go:70-78).                                                   *)
NoEquivocation ==
    \A s \in Seqs : accepted[s] # None /\ versions[s] # None => versions[s] = accepted[s]

(* Active's two lock-free reads, one for the status and one for the        *)
(* payload, answer with the same bundle (active.go:19-43).                 *)
ActiveAgrees ==
    \A p \in Procs : result[p] = "active" => got[p] = arg[p] /\ SequenceOf[got[p]] = seen[p]

(* The active bundle is missing only between the two halves of the swap of *)
(* its own directory, or after that swap was interrupted                   *)
(* (lifecycle.go:104-106).                                                 *)
GapExplained ==
    current # 0 /\ versions[current] = None =>
        \/ current \in torn
        \/ \E p \in Procs : pc[p] = "rename" /\ Slot(p) = current

(* Without a crash or a failed write, previous never degenerates into      *)
(* current, so that a rollback has a target (lifecycle.go:110-118, 154).   *)
RollbackTargetKept ==
    faults = 0 /\ lock = None /\ current # 0 => previous # current

(* The high-water mark never falls (lifecycle.go:65-79, 154). *)
HighWaterMonotone == [][highest' >= highest]_vars

(* The active sequence falls only by a rollback (lifecycle.go:65-69). *)
NoDowngrade ==
    [][current' < current => \E p \in Procs : pc[p] = "switch" /\ current' = seen[p]]_vars

(* Sequences move forward: the mark never falls and only a rollback takes  *)
(* the active bundle back, whatever runs at once, fails or dies            *)
(* (lifecycle.go:65-79, 154).                                              *)
SequencesForward == HighWaterMonotone /\ NoDowngrade

(* The change that the holder of the lock has in progress, for the reader  *)
(* of the ledger.                                                          *)
Change(kind, s) == [kind |-> kind, seq |-> s]
Pending ==
    CASE lock # None /\ pc[lock] = "previous" -> Change("accepted", Slot(lock))
      [] lock # None /\ pc[lock] = "current" -> Change("remembered", Slot(lock))
      [] lock # None /\ pc[lock] = "switch" -> Change("exchanged", seen[lock])
      [] OTHER -> Change("nothing", 0)

(* The store keeps the promise of BundleLedger: whatever commands run at   *)
(* once, fail or die, the pointers and the accepted bundles change as if   *)
(* by one command after the other, each at worst abandoned (lifecycle.go   *)
(* 64-119, 148-157, 185-227).                                              *)
Ledger == INSTANCE BundleLedger
    WITH mark <- highest, active <- current, target <- previous, pending <- Pending
ImplementsLedger == Ledger!Spec

=============================================================================
